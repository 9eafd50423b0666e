----------------------------- MODULE Lifecycle ------------------------------
(***************************************************************************)
(* One Connection: Start runs the setup functions in order, then creates   *)
(* one JetStream consumer per group of registrations; Close stops them     *)
(* (connection.go, setup.go, setup_consumer.go, setup_publisher.go,        *)
(* naming.go, routingkey_handlers.go).                                     *)
(*                                                                         *)
(* A setup function is a record: `do` names it, the other fields are its   *)
(* arguments.  Routing keys and patterns are sequences of tokens.  Server  *)
(* calls can fail, and Start can be called again.                          *)
(***************************************************************************)
EXTENDS Integers, Sequences, FiniteSets

CONSTANTS
  Scripts,       \* the lists of setup functions Start may be given
  Streams,       \* stream names they use
  Publishers,    \* Publishers they wire
  RoutingKeys,   \* keys of messages that arrive
  MaxStarts,     \* bound on calls of Start
  MaxFaults      \* bound on failing server calls

NoStream == -1      \* the stream does not exist
NoLimit  == -1      \* WithStreamConfig was not given for the stream
NotGiven == -1      \* WithBackOff was not given for the consumer
None     == "none"  \* an option that is not given, a function that is nil

\* Patterns of routing keys, with "*" and with "#" or ">" anywhere.
Pattern == Seq(STRING) \ {<<>>}

\* NATS allows ">" at the end of a subject only.
Misplaced(subject) == \E t \in 1..(Len(subject) - 1) : subject[t] = ">"

\* The setup functions with their arguments, good and bad ones.
Setup ==
       [do : {"consumerDefaults"}, max : Int, backOff : Nat]
  \cup [do : {"streamDefaults"}, limit : Nat]
  \cup [do : {"streamConfig"}, stream : Streams \cup {""}, limit : Nat]
  \cup [do : {"requestTimeout"}, timeout : Int]
  \cup [do : {"observe"}, what : STRING]
  \cup [do : {"consume"}, stream : Streams, key : Pattern, ephemeral : BOOLEAN,
        suffix : STRING, max : Int, backOff : Nat \cup {NotGiven}]
  \cup [do : {"publish"}, stream : Streams, pub : Publishers]
  \cup [do : {"request"}, target : STRING \ {None}, pub : Publishers]
  \cup [do : {"serve", "respond"}, key : {p \in Pattern : ~Misplaced(p)}]
  \cup [do : {"expect"}, target : STRING \ {None}, key : Pattern]

ASSUME BoundsOK == MaxStarts \in Nat \ {0} /\ MaxFaults \in Nat
ASSUME ScriptsOK == Scripts \subseteq Seq(Setup)
ASSUME KeysOK == RoutingKeys \subseteq Seq(STRING)

\* publishFn: the connection it uses (0: publishFn is nil) and the timeout of
\* a request (0: js.PublishMsg).
NoFn    == [nc |-> 0, timeout |-> 0]
Unwired == [fn |-> NoFn, subjectFn |-> None, stream |-> None, observed |-> {}]

VARIABLES
  collectMode,   \* the Connection of CollectTopology: it never connects
  opts,          \* the setup functions passed to Start, in order
  \* --- the Connection ----------------------------------------------------
  started,       \* c.started
  phase,         \* where Start is: "idle" (not running), "setup", "launch"
  at,            \* index of the setup function to run next
  launched,      \* groups startPendingJSConsumers is done with
  nc,            \* number of the connection attempt c.nc stems from, 0 = nil
  link,          \* c.nc: "none", "open", "draining" or "closed"
  conf,          \* what the With... functions set
  pending,       \* c.pendingJSConsumers
  endpoints,     \* c.topology.Endpoints, as the setups they describe
  consumers,     \* c.consumers
  subscriptions, \* c.subscriptions
  wired,         \* [Publishers -> what the setups stored in the Publisher]
  \* --- NATS server -------------------------------------------------------
  streams,       \* [Streams -> limit or NoStream]
  \* --- run ---------------------------------------------------------------
  calls,         \* Start calls that got past the ErrAlreadyStarted check
  faults,        \* server calls that failed
  closes         \* whether Close was called on the started connection

connVars == <<conf, pending, endpoints, consumers, subscriptions, wired>>
vars == <<collectMode, opts, started, phase, at, launched, nc, link, connVars, streams,
          calls, faults, closes>>

\* Setups that only write to the Connection.
Settings == {"consumerDefaults", "streamDefaults", "streamConfig",
             "requestTimeout", "observe"}

\* Setups that describe an endpoint of the topology.
Endpoints == {"consume", "publish", "request", "serve", "respond", "expect"}

\* `observed` holds which of the logger, tracer, propagator, span name and
\* channel settings were given; a list of durations is its length.
DefaultConf == [maxDeliver |-> 0, backOff |-> 0, limit |-> 0, timeout |-> 0, observed |-> {},
                overrides |-> [s \in Streams |-> NoLimit]]
-----------------------------------------------------------------------------
Init ==
  /\ collectMode \in BOOLEAN
  /\ opts \in Scripts
  /\ started = FALSE
  /\ phase = "idle"
  /\ at = 1
  /\ launched = {}
  /\ nc = 0
  /\ link = "none"
  /\ conf = DefaultConf
  /\ pending = <<>>
  /\ endpoints = <<>>
  /\ consumers = <<>>
  /\ subscriptions = <<>>
  /\ wired = [p \in Publishers |-> Unwired]
  /\ streams = [s \in Streams |-> NoStream]
  /\ calls = 0
  /\ faults = 0
  /\ closes = FALSE

Fault ==
  /\ faults < MaxFaults
  /\ faults' = faults + 1

\* Faulty variant: the new connection is not stored in the Connection.
StartCallKeepsNc ==
  /\ phase = "idle"
  /\ ~started
  /\ calls < MaxStarts
  /\ calls' = calls + 1
  /\ at' = 1
  /\ launched' = {}
  /\ phase' = "setup"
  /\ link' = "open"
  /\ UNCHANGED <<collectMode, opts, started, nc, connVars, streams, faults, closes>>

\* Start, up to the connection; in collect mode none is made.
StartCall ==
  /\ phase = "idle"
  /\ ~started
  /\ calls < IF collectMode THEN 1 ELSE MaxStarts
  /\ calls' = calls + 1
  /\ at' = 1
  /\ launched' = {}
  /\ \/ /\ collectMode
        /\ phase' = "setup"
        /\ UNCHANGED <<nc, link, faults>>
     \/ /\ ~collectMode
        /\ phase' = "setup"
        /\ nc' = calls + 1
        /\ link' = "open"
        /\ UNCHANGED faults
     \/ /\ ~collectMode   \* connect or jetstream.New fails
        /\ Fault
        /\ \/ UNCHANGED <<nc, link>>
           \/ nc' = calls + 1 /\ link' = "closed"
        /\ UNCHANGED phase
  /\ UNCHANGED <<collectMode, opts, started, connVars, streams, closes>>

\* Faulty variant: the error is returned without nc.Close().
AbortKeepsConnection ==
  /\ phase' = "idle"
  /\ UNCHANGED <<collectMode, opts, started, at, launched, nc, link, calls, closes>>

\* A setup function or a group failed: nc.Close() and return the error.  The
\* Connection keeps what the setups have stored in it.
Abort ==
  /\ phase' = "idle"
  /\ link' = IF collectMode THEN link ELSE "closed"
  /\ UNCHANGED <<collectMode, opts, started, at, launched, nc, calls, closes>>

\* Faulty variant: per-stream overrides are ignored.
LimitOfDefaults(s) == conf.limit

\* ensureStream: an override replaces the defaults entirely.
LimitOf(s) == IF conf.overrides[s] # NoLimit THEN conf.overrides[s] ELSE conf.limit

Ensured(s) == [streams EXCEPT ![s] = LimitOf(s)]

\* newConsumerConfig: the durable's name, the service's own or one made with
\* the suffix.  Ephemeral consumers have none.
ConsumerName(c) == CASE c.ephemeral                      -> <<>>
                     [] ~c.ephemeral /\ c.suffix = None -> <<"svc">>
                     [] ~c.ephemeral /\ c.suffix # None -> <<"svc", c.suffix>>

\* Faulty variant: a group per routing key.
GroupPerKey(c) == <<c.stream, ConsumerName(c), c.key>>

\* consumerGroupKey
Group(c) == <<c.stream, ConsumerName(c)>>
-----------------------------------------------------------------------------
(* Routing keys and patterns *)

\* "*" stands for one token, one of `rests` at the end for one or more.
Covers(pattern, key, rests) ==
  /\ \/ Len(pattern) = Len(key)
     \/ Len(pattern) < Len(key) /\ pattern[Len(pattern)] \in rests
  /\ \A t \in DOMAIN pattern : pattern[t] \in {key[t], "*"} \cup rests

\* Faulty variant: "*" is translated like "#".
FilterWidens(pattern) ==
  [t \in DOMAIN pattern |-> IF pattern[t] \in {"*", "#"} THEN ">" ELSE pattern[t]]

\* filterSubject without the stream: NATS writes ">" for "#".
Filter(pattern) ==
  [t \in DOMAIN pattern |-> IF pattern[t] = "#" THEN ">" ELSE pattern[t]]

\* What the server says of a key, and what the spec package does, which knows
\* the wildcards `rests`.
Passes(filter, key) == Covers(filter, key, {">"})
MatchRoutingKey(pattern, key, rests) == Covers(pattern, key, rests)

\* The entries of the handler map that get may come upon first.
HandlersFor(h, key, rests) == {p \in h.handlers : MatchRoutingKey(p, key, rests)}

\* Some subject passes both filters.
Collide(f, g) ==
  /\ \A t \in DOMAIN f \cap DOMAIN g :
       f[t] = g[t] \/ {f[t], g[t]} \cap {"*", ">"} # {}
  /\ \/ Len(f) = Len(g)
     \/ Len(f) < Len(g) /\ f[Len(f)] = ">"
     \/ Len(f) > Len(g) /\ g[Len(g)] = ">"
-----------------------------------------------------------------------------
(* The setup functions *)

Running(s) ==
  /\ phase = "setup"
  /\ at <= Len(opts)
  /\ s = opts[at]

\* Faulty variant: endpoints of Core NATS setups are not recorded.
DoneStreamsOnly(s) ==
  /\ at' = at + 1
  /\ endpoints' = IF s.do \in {"consume", "publish"} THEN Append(endpoints, s)
                  ELSE endpoints
  /\ UNCHANGED <<collectMode, opts, started, phase, launched, nc, link, calls, faults, closes>>

\* A setup function returns nil, after addEndpoint if it declares one.
Done(s) ==
  /\ at' = at + 1
  /\ endpoints' = IF s.do \in Endpoints THEN Append(endpoints, s) ELSE endpoints
  /\ UNCHANGED <<collectMode, opts, started, phase, launched, nc, link, calls, faults, closes>>

\* WithRequestTimeout, WithStreamConfig and the consumer options refuse a bad
\* argument.
BadArgument(s) ==
  \/ s.do = "requestTimeout" /\ s.timeout <= 0
  \/ s.do = "streamConfig" /\ s.stream = ""
  \/ s.do = "consume" /\ (s.max < 0 \/ s.suffix = "")

Configure(s) ==
  /\ Running(s)
  /\ s.do \in Settings
  /\ ~BadArgument(s)
  /\ conf' = CASE s.do = "consumerDefaults" ->
                    [conf EXCEPT !.maxDeliver = s.max, !.backOff = s.backOff]
               [] s.do = "streamDefaults"   -> [conf EXCEPT !.limit = s.limit]
               [] s.do = "streamConfig"     ->
                    [conf EXCEPT !.overrides[s.stream] = s.limit]
               [] s.do = "requestTimeout"   -> [conf EXCEPT !.timeout = s.timeout]
               [] s.do = "observe"          ->
                    [conf EXCEPT !.observed = @ \cup {s.what}]
  /\ Done(s)
  /\ UNCHANGED <<pending, consumers, subscriptions, wired, streams>>

RefuseArgument(s) ==
  /\ Running(s)
  /\ BadArgument(s)
  /\ Abort
  /\ UNCHANGED <<connVars, streams, faults>>

\* StreamConsumer and TransientStreamConsumer only queue their config.
AddConsumer(s) ==
  /\ Running(s)
  /\ s.do = "consume"
  /\ ~BadArgument(s)
  /\ pending' = Append(pending, s)
  /\ Done(s)
  /\ UNCHANGED <<conf, consumers, subscriptions, wired, streams>>

\* StreamPublisher creates or updates the stream at once.  It leaves subjectFn
\* as it is.
AddStreamPublisher(s) ==
  /\ Running(s)
  /\ s.do = "publish"
  /\ \/ /\ streams' = IF collectMode THEN streams ELSE Ensured(s.stream)
        /\ wired' = [wired EXCEPT ![s.pub] =
                       [fn |-> IF collectMode THEN @.fn ELSE [nc |-> nc, timeout |-> 0],
                        subjectFn |-> @.subjectFn,
                        stream |-> s.stream,
                        observed |-> conf.observed]]
        /\ Done(s)
        /\ UNCHANGED <<conf, pending, consumers, subscriptions>>
     \/ /\ ~collectMode
        /\ Fault
        /\ streams' \in {streams, Ensured(s.stream)}
        /\ Abort
        /\ UNCHANGED connVars

\* Faulty variant: no timeout for a service that sets none.
RequestTimeoutUnset == conf.timeout

\* 30 seconds unless WithRequestTimeout has set another.
RequestTimeout == IF conf.timeout = 0 THEN 30 ELSE conf.timeout

\* ServicePublisher reads the request timeout set so far.
AddServicePublisher(s) ==
  /\ Running(s)
  /\ s.do = "request"
  /\ wired' = [wired EXCEPT ![s.pub] =
                 [fn |-> IF collectMode THEN @.fn
                         ELSE [nc |-> nc, timeout |-> RequestTimeout],
                  subjectFn |-> s.target,
                  stream |-> s.target,
                  observed |-> conf.observed]]
  /\ Done(s)
  /\ UNCHANGED <<conf, pending, consumers, subscriptions, streams>>

\* nc.Subscribe, with what is observed so far.
Subscribe(s) ==
  \/ /\ subscriptions' = IF collectMode THEN subscriptions
                         ELSE Append(subscriptions, [nc |-> nc, key |-> s.key,
                                                     observed |-> conf.observed])
     /\ Done(s)
     /\ UNCHANGED <<conf, pending, consumers, wired, streams>>
  \/ /\ ~collectMode
     /\ Fault
     /\ Abort
     /\ UNCHANGED <<connVars, streams>>

\* ServiceRequestConsumer and RequestResponseHandler subscribe at once.
AddService(s) ==
  /\ Running(s)
  /\ s.do = "serve"
  /\ Subscribe(s)

AddResponder(s) ==
  /\ Running(s)
  /\ s.do = "respond"
  /\ Subscribe(s)

\* ServiceResponseConsumer only describes an endpoint.
AddServiceResponse(s) ==
  /\ Running(s)
  /\ s.do = "expect"
  /\ Done(s)
  /\ UNCHANGED <<conf, pending, consumers, subscriptions, wired, streams>>

\* All setups have run.
SetupsDone ==
  /\ phase = "setup"
  /\ at > Len(opts)
  /\ phase' = IF collectMode THEN "idle" ELSE "launch"
  /\ started' = collectMode
  /\ UNCHANGED <<collectMode, opts, at, launched, nc, link, connVars, streams>>
  /\ UNCHANGED <<calls, faults, closes>>
-----------------------------------------------------------------------------
(* startPendingJSConsumers *)

\* The first config of the next group, in registration order.
NextFirst(k) ==
  /\ k \in DOMAIN pending
  /\ Group(pending[k]) \notin launched
  /\ \A j \in 1..(k - 1) : Group(pending[j]) \in launched

\* Faulty variant: the last config of a group replaces the earlier ones.
MembersLast(g) == {j \in DOMAIN pending :
                     /\ Group(pending[j]) = g
                     /\ \A k \in DOMAIN pending : Group(pending[k]) = g => k <= j}

\* The configs startPendingJSConsumers collects for a group.
Members(g) == {j \in DOMAIN pending : Group(pending[j]) = g}

\* The options of the group's first config decide for the whole group.  An
\* empty schedule of its own replaces the default, a negative default is none.
MaxDeliverOf(first) == IF first.max > 0 THEN first.max
                       ELSE IF conf.maxDeliver > 0 THEN conf.maxDeliver ELSE 0
BackOffOf(first) == IF first.backOff # NotGiven THEN first.backOff ELSE conf.backOff

\* The server refuses a consumer with a filter that is no subject, with filters
\* that overlap, or with a longer schedule than delivery attempts.
Refused(first) ==
  \/ \E j \in Members(Group(first)) : Misplaced(Filter(pending[j].key))
  \/ \E j, k \in Members(Group(first)) :
       j # k /\ Collide(Filter(pending[j].key), Filter(pending[k].key))
  \/ MaxDeliverOf(first) > 0 /\ MaxDeliverOf(first) < BackOffOf(first)

\* The consumer of the group that starts with config `first`.
ConsumerOf(first) ==
  [nc |-> nc, stream |-> first.stream, durable |-> ConsumerName(first),
   running |-> TRUE,
   filter |-> {Filter(pending[j].key) : j \in Members(Group(first))},
   handlers |-> {pending[j].key : j \in Members(Group(first))},
   maxDeliver |-> MaxDeliverOf(first), backOff |-> BackOffOf(first),
   observed |-> conf.observed]

LaunchGroup(k) ==
  LET first == pending[k] IN
  /\ phase = "launch"
  /\ NextFirst(k)
  /\ ~Refused(first)
  /\ streams' = Ensured(first.stream)
  /\ consumers' = Append(consumers, ConsumerOf(first))
  /\ launched' = launched \cup {Group(first)}
  /\ UNCHANGED <<collectMode, opts, started, phase, at, nc, link, conf, pending, endpoints,
                 subscriptions, wired, calls, faults, closes>>

\* ensureStream, CreateOrUpdateConsumer or Consume fails.
LaunchFails(k) ==
  LET first == pending[k] IN
  /\ phase = "launch"
  /\ NextFirst(k)
  /\ \/ Refused(first) /\ streams' = Ensured(first.stream) /\ UNCHANGED faults
     \/ Fault /\ streams' \in {streams, Ensured(first.stream)}
  /\ Abort
  /\ UNCHANGED connVars

LaunchDone ==
  /\ phase = "launch"
  /\ \A k \in DOMAIN pending : Group(pending[k]) \in launched
  /\ pending' = <<>>
  /\ started' = TRUE
  /\ phase' = "idle"
  /\ UNCHANGED <<collectMode, opts, at, launched, nc, link, conf, endpoints, consumers,
                 subscriptions, wired, streams, calls, faults, closes>>

\* Faulty variant: Close clears started.
CloseClearsStarted ==
  /\ started
  /\ phase = "idle"
  /\ link = "open"
  /\ consumers' = [k \in DOMAIN consumers |->
                     [consumers[k] EXCEPT !.running = FALSE]]
  /\ link' = "draining"
  /\ closes' = TRUE
  /\ started' = FALSE
  /\ UNCHANGED <<collectMode, opts, phase, at, launched, nc, conf, pending, endpoints,
                 subscriptions, wired, streams, calls, faults>>

\* Close on a started connection: Stop every consumer, then Drain, which
\* returns at once.
Close ==
  /\ started
  /\ phase = "idle"
  /\ link = "open"
  /\ consumers' = [k \in DOMAIN consumers |->
                     [consumers[k] EXCEPT !.running = FALSE]]
  /\ link' = "draining"
  /\ closes' = TRUE
  /\ UNCHANGED <<collectMode, opts, started, phase, at, launched, nc, conf, pending, endpoints,
                 subscriptions, wired, streams, calls, faults>>

\* The subscriptions have handled the requests they had taken in.
DrainDone ==
  /\ link = "draining"
  /\ link' = "closed"
  /\ UNCHANGED <<collectMode, opts, started, phase, at, launched, nc, connVars, streams,
                 calls, faults, closes>>
-----------------------------------------------------------------------------
RunSetup(s) == \/ Configure(s)
               \/ RefuseArgument(s)
               \/ AddConsumer(s)
               \/ AddStreamPublisher(s)
               \/ AddServicePublisher(s)
               \/ AddService(s)
               \/ AddResponder(s)
               \/ AddServiceResponse(s)

Next == \/ StartCall
        \/ \E k \in DOMAIN opts : RunSetup(opts[k])
        \/ SetupsDone
        \/ \E k \in DOMAIN pending : LaunchGroup(k) \/ LaunchFails(k)
        \/ LaunchDone
        \/ Close
        \/ DrainDone

Spec == Init /\ [][Next]_vars
-----------------------------------------------------------------------------
(* Properties *)

Given(kinds) == {opts[k] : k \in {j \in DOMAIN opts : opts[j].do \in kinds}}

\* The consumers that can receive a message and the subscriptions that can
\* handle one, which those of a draining connection still do.
LiveConsumers == {consumers[k] : k \in {j \in DOMAIN consumers :
                    link = "open" /\ consumers[j].nc = nc /\ consumers[j].running}}
LiveSubscriptions == {subscriptions[k] : k \in {j \in DOMAIN subscriptions :
                        link \in {"open", "draining"} /\ subscriptions[j].nc = nc}}

\* Consumer h reads for registration c.
ReadsFor(h, c) == h.stream = c.stream /\ h.durable = ConsumerName(c)

\* Where the setups of one kind stand, and the last place of a set.
Places(kind) == {k \in DOMAIN opts : opts[k].do = kind}
IsLast(k, S) == k \in S /\ \A j \in S : j <= k

\* The limit the setups ask for stream s, wherever they stand in the list.
AskedLimit(s) ==
  LET own == {k \in Places("streamConfig") : opts[k].stream = s}
      all == Places("streamDefaults") IN
  IF own # {} THEN opts[CHOOSE k \in own : IsLast(k, own)].limit
  ELSE IF all # {} THEN opts[CHOOSE k \in all : IsLast(k, all)].limit ELSE 0

Up == started /\ ~closes /\ ~collectMode

Conf == [maxDeliver : Int, backOff : Nat, limit : Nat,
         overrides : [Streams -> Nat \cup {NoLimit}],
         timeout : Nat, observed : SUBSET STRING]
Wiring == [fn : [nc : 0..MaxStarts, timeout : Nat], subjectFn : STRING \cup {None},
           stream : STRING \cup Streams \cup {None}, observed : SUBSET STRING]
Consumer == [nc : 1..MaxStarts, stream : Streams, durable : Seq(STRING \cup {"svc"}),
             running : BOOLEAN, filter : SUBSET Seq(STRING \cup {">"}),
             handlers : SUBSET Pattern, maxDeliver : Int, backOff : Nat,
             observed : SUBSET STRING]
Subscription == [nc : 1..MaxStarts, key : Pattern, observed : SUBSET STRING]

\* The types, with no consumer or subscription of a connection to come.
TypeOK ==
  /\ collectMode \in BOOLEAN
  /\ opts \in Scripts
  /\ started \in BOOLEAN
  /\ phase \in {"idle", "setup", "launch"}
  /\ at \in 1..(Len(opts) + 1)
  /\ nc \in 0..MaxStarts
  /\ link \in {"none", "open", "draining", "closed"}
  /\ conf \in Conf
  /\ pending \in Seq(Given({"consume"}))
  /\ endpoints \in Seq(Given(Endpoints))
  /\ consumers \in Seq(Consumer)
  /\ \A k \in DOMAIN consumers : consumers[k].nc <= nc
  /\ subscriptions \in Seq(Subscription)
  /\ \A k \in DOMAIN subscriptions : subscriptions[k].nc <= nc
  /\ wired \in [Publishers -> Wiring]
  /\ streams \in [Streams -> Nat \cup {NoStream}]
  /\ calls \in 0..MaxStarts
  /\ faults \in 0..MaxFaults
  /\ closes \in BOOLEAN

\* A started connection serves everything it was given, whatever the order of
\* the setups and however many earlier Starts failed halfway: each stream
\* consumer has a running JetStream consumer with its filter and handler, each
\* service a subscription, and each Publisher a function of this connection.
EverythingServed ==
  Up => /\ \A c \in Given({"consume"}) : \E h \in LiveConsumers :
             ReadsFor(h, c) /\ Filter(c.key) \in h.filter /\ c.key \in h.handlers
        /\ \A c \in Given({"serve", "respond"}) : \E h \in LiveSubscriptions : h.key = c.key
        /\ \A c \in Given({"publish", "request"}) :
             wired[c.pub].fn.nc = nc

\* A Start that returned an error leaves nothing behind that still consumes.
NothingLeftRunning ==
  phase = "idle" /\ ~started => LiveConsumers \cup LiveSubscriptions = {}

\* Registrations on the same stream and durable share one JetStream consumer
\* (startPendingJSConsumers), so no two callbacks compete for its messages.
OneConsumerPerGroup ==
  \A j, k \in DOMAIN consumers :
    consumers[j] \in LiveConsumers /\ consumers[k] \in LiveConsumers /\ j # k =>
      \/ consumers[j].stream # consumers[k].stream
      \/ consumers[j].durable # consumers[k].durable

\* Stream consumers are created after all setups have run: limits, delivery
\* defaults, tracing and channels reach them wherever they stand in the list.
SettingsReachConsumers ==
  Up => \A c \in Given({"consume"}) : \A h \in LiveConsumers :
          LET group == {e \in Given({"consume"}) : ReadsFor(h, e)} IN
          c \in group =>
            /\ streams[c.stream] = AskedLimit(c.stream)
            /\ \A d \in DOMAIN opts : IsLast(d, Places("consumerDefaults")) =>
                 /\ (\A e \in group : e.max = 0) =>
                      h.maxDeliver = IF opts[d].max > 0 THEN opts[d].max ELSE 0
                 /\ (\A e \in group : e.backOff = NotGiven) =>
                      h.backOff = opts[d].backOff
            /\ group = {c} /\ c.max > 0 => h.maxDeliver = c.max
            /\ group = {c} /\ c.backOff # NotGiven => h.backOff = c.backOff
            /\ h.observed = {o.what : o \in Given({"observe"})}

\* After Close no stream consumer receives a message, subscriptions only finish
\* what they have while the connection drains, and once it has drained nothing
\* comes back: Start returns ErrAlreadyStarted.
ClosedForGood ==
  [][closes => /\ LiveConsumers' = {}
               /\ LiveSubscriptions' \subseteq LiveSubscriptions
               /\ link = "closed" => LiveSubscriptions' = {}]_vars

\* How many of the first k setups declare an endpoint.
Declared(k) == Cardinality({j \in DOMAIN opts : j <= k /\ opts[j].do \in Endpoints})

\* The topology is what the setups declared, in their order, connected or not.
\* After failed Starts it ends with it: what those had declared stays in front.
TopologyIsDeclared ==
  LET before == Len(endpoints) - Declared(Len(opts)) IN
  started =>
    /\ before >= 0
    /\ \A k \in DOMAIN opts :
         opts[k].do \in Endpoints => endpoints[before + Declared(k)] = opts[k]
    /\ calls = 1 => before = 0

\* The matching function knows the wildcards of the pattern.
Known(p, rests) == \A t \in DOMAIN p : p[t] = ">" => ">" \in rests

\* A key matches at most one handler of a consumer, so ranging over the handler
\* map gives one answer, and exactly one if the message arrives at all and the
\* patterns are written with wildcards the matching function knows: "#" is one,
\* ">" may be.  Patterns of one group that overlap never get a consumer.
HandlerIsUnique ==
  \A h \in LiveConsumers, key \in RoutingKeys, rests \in {{"#"}, {"#", ">"}} :
    LET hits    == HandlersFor(h, key, rests)
        arrives == \E f \in h.filter : Passes(f, key) IN
    /\ \A p, q \in hits : p = q
    /\ hits # {} => arrives
    /\ arrives /\ (\A p \in h.handlers : Known(p, rests)) => hits # {}

\* The setups that wire Publisher p.
WiringOf(p) == {k \in DOMAIN opts : opts[k].do \in {"publish", "request"} /\ opts[k].pub = p}

\* The last setup that wires a Publisher decides how it sends and under which
\* name, and a Publisher has request subjects only if a setup gave it some, the
\* last one's if that is a ServicePublisher.
PublisherGoesWhereWired ==
  Up => \A p \in Publishers, k \in DOMAIN opts : IsLast(k, WiringOf(p)) =>
    LET last == opts[k] IN
    /\ (wired[p].fn.timeout > 0) = (last.do = "request")
    /\ wired[p].stream = IF last.do = "publish" THEN last.stream ELSE last.target
    /\ last.do = "request" => wired[p].subjectFn = last.target
    /\ (\A j \in WiringOf(p) : opts[j].do = "publish") => wired[p].subjectFn = None

\* A stream publisher's subjects are {stream}.{routingKey}.
StreamSubjects ==
  Up => \A p \in Publishers, k \in DOMAIN opts :
    IsLast(k, WiringOf(p)) /\ opts[k].do = "publish" => wired[p].subjectFn = None

\* A consumer's own WithMaxDeliver takes precedence over the default.
OwnMaxDeliverWins ==
  Up => \A c \in Given({"consume"}) : c.max > 0 =>
          \E h \in LiveConsumers : ReadsFor(h, c) /\ h.maxDeliver = c.max
=============================================================================
