-------------------------- MODULE LifecycleProofs ---------------------------
(* Proofs of the properties of Lifecycle, for any scripts of setup functions, *)
(* any number of Start calls and any number of failing server calls.          *)
EXTENDS Lifecycle, TLAPS, FiniteSetTheorems, SequenceTheorems

\* What a setup function's arguments are.
LEMMA SetupFields ==
  ASSUME NEW s \in Setup
  PROVE  /\ s.do \in Settings \cup Endpoints
         /\ s.do = "consumerDefaults" => s.max \in Int /\ s.backOff \in Nat
         /\ s.do = "streamDefaults" => s.limit \in Nat
         /\ s.do = "streamConfig" => s.stream \in Streams \cup {""} /\ s.limit \in Nat
         /\ s.do = "requestTimeout" => s.timeout \in Int
         /\ s.do = "observe" => s.what \in STRING
         /\ s.do = "consume" => /\ s.stream \in Streams /\ s.key \in Pattern
                                /\ s.ephemeral \in BOOLEAN /\ s.suffix \in STRING
                                /\ s.max \in Int
                                /\ s.backOff \in Nat \cup {NotGiven}
         /\ s.do = "publish" => s.stream \in Streams /\ s.pub \in Publishers
         /\ s.do = "request" => s.target \in STRING \ {None} /\ s.pub \in Publishers
         /\ s.do \in {"serve", "respond", "expect"} => s.key \in Pattern
  BY DEF Setup, Settings, Endpoints

\* The setups of the script, as TypeOK has them.
LEMMA ScriptFields ==
  ASSUME TypeOK
  PROVE  /\ opts \in Seq(Setup) /\ Len(opts) \in Nat /\ DOMAIN opts = 1..Len(opts)
         /\ \A k \in DOMAIN opts : opts[k] \in Setup
         /\ \A S : Given(S) \subseteq Setup
         /\ \A S : \A c \in Given(S) : c.do \in S /\ \E k \in DOMAIN opts : c = opts[k]
         /\ \A S : \A k \in DOMAIN opts : opts[k].do \in S => opts[k] \in Given(S)
<1>1. opts \in Seq(Setup)
  BY ScriptsOK DEF TypeOK
<1>2. QED
  BY <1>1 DEF Given

\* The setup function that runs.
LEMMA RunningSetup ==
  ASSUME TypeOK, NEW s, Running(s)
  PROVE  /\ s \in Setup /\ at \in DOMAIN opts /\ s = opts[at]
         /\ \A S : s.do \in S => s \in Given(S)
<1>1. s \in Setup /\ at \in DOMAIN opts /\ s = opts[at]
  BY ScriptFields DEF Running, TypeOK
<1>2. QED
  BY <1>1, ScriptFields

\* What one setup function can do to the state, without its own work.
LEMMA DoneType ==
  ASSUME TypeOK, NEW s, Running(s), Done(s)
  PROVE  /\ at' \in 1..(Len(opts) + 1)
         /\ endpoints' \in Seq(Given(Endpoints))
<1>1. at' \in 1..(Len(opts) + 1)
  BY RunningSetup, ScriptFields DEF Done
<1>2. QED
  BY <1>1, RunningSetup, AppendProperties DEF Done, TypeOK

(* Where Start is, and what that says of the connection. *)

\* The connection of the current attempt is open from StartCall to the error or
\* to Close, and nothing is made on it before the setups have run.
Phases ==
  /\ nc <= calls
  /\ collectMode => /\ nc = 0 /\ link = "none" /\ phase # "launch"
                    /\ consumers = <<>> /\ subscriptions = <<>>
  /\ phase # "idle" => ~started
  /\ phase # "idle" /\ ~collectMode => link = "open" /\ nc = calls /\ nc > 0
  /\ phase = "idle" /\ ~started => link \notin {"open", "draining"}
  /\ phase = "launch" \/ started => at = Len(opts) + 1
  /\ started /\ ~collectMode /\ ~closes => link = "open"
  /\ closes => started /\ phase = "idle" /\ link \in {"draining", "closed"}
  /\ link = "draining" => closes
  /\ phase = "setup" => \A k \in DOMAIN consumers : consumers[k].nc # nc
  /\ link = "open" =>
       \A k \in DOMAIN consumers : consumers[k].nc = nc => consumers[k].running

\* Every action leaves the script alone.
LEMMA ScriptKept ==
  ASSUME [Next]_vars
  PROVE  /\ opts' = opts /\ collectMode' = collectMode
         /\ \A S : Given(S)' = Given(S)
<1>1. opts' = opts /\ collectMode' = collectMode
  BY DEF Next, vars, StartCall, RunSetup, Configure, RefuseArgument, AddConsumer,
     AddStreamPublisher, AddServicePublisher, AddService, AddResponder, Subscribe,
     AddServiceResponse, Done,
     Abort, SetupsDone, LaunchGroup, LaunchFails, LaunchDone, Close, DrainDone
<1>2. QED
  BY <1>1 DEF Given

\* The limit a stream is given.
LEMMA LimitType ==
  ASSUME TypeOK, NEW s \in Streams
  PROVE  /\ LimitOf(s) \in Nat
         /\ Ensured(s) \in [Streams -> Nat \cup {NoStream}]
  BY DEF TypeOK, Conf, LimitOf, Ensured, NoLimit

\* The consumer a group is given.
LEMMA GroupType ==
  ASSUME TypeOK, NEW k \in DOMAIN pending
  PROVE  /\ pending[k] \in Setup /\ pending[k].do = "consume"
         /\ pending[k].stream \in Streams /\ pending[k].key \in Pattern
         /\ ConsumerName(pending[k]) \in Seq(STRING \cup {"svc"})
         /\ MaxDeliverOf(pending[k]) \in Int /\ BackOffOf(pending[k]) \in Nat
<1>1. pending[k] \in Given({"consume"})
  BY DEF TypeOK
<1>2. pending[k] \in Setup /\ pending[k].do = "consume"
  BY <1>1, ScriptFields
<1>3. /\ pending[k].stream \in Streams /\ pending[k].key \in Pattern
      /\ pending[k].ephemeral \in BOOLEAN /\ pending[k].suffix \in STRING
      /\ pending[k].max \in Int /\ pending[k].backOff \in Nat \cup {NotGiven}
  BY <1>2, SetupFields
<1>4. ConsumerName(pending[k]) \in Seq(STRING \cup {"svc"})
  <2> DEFINE c == pending[k]
  <2>1. CASE c.ephemeral
    <3>1. ConsumerName(c) = <<>>
      BY <2>1 DEF ConsumerName
    <3>2. QED
      BY <3>1
  <2>2. CASE ~c.ephemeral /\ c.suffix = None
    <3>1. ConsumerName(c) = <<"svc">>
      BY <2>2 DEF ConsumerName
    <3>2. QED
      BY <3>1
  <2>3. CASE ~c.ephemeral /\ c.suffix # None
    <3>1. ConsumerName(c) = <<"svc", c.suffix>>
      BY <2>3 DEF ConsumerName
    <3>2. QED
      BY <1>3, <3>1
  <2>4. QED
    BY <2>1, <2>2, <2>3
<1>5. MaxDeliverOf(pending[k]) \in Int /\ BackOffOf(pending[k]) \in Nat
  BY <1>3 DEF MaxDeliverOf, BackOffOf, TypeOK, Conf
<1>6. QED
  BY <1>2, <1>3, <1>4, <1>5

\* Filters of patterns are sequences of tokens.
LEMMA FilterType ==
  ASSUME NEW p \in Pattern
  PROVE  /\ Filter(p) \in Seq(STRING \cup {">"}) /\ Len(Filter(p)) = Len(p)
         /\ p \in Seq(STRING) /\ Len(p) \in Nat \ {0} /\ DOMAIN p = 1..Len(p)
<1>1. p \in Seq(STRING) /\ Len(p) \in Nat \ {0} /\ DOMAIN p = 1..Len(p)
  BY DEF Pattern
<1>2. Filter(p) \in [1..Len(p) -> STRING \cup {">"}]
  <2>1. \A t \in 1..Len(p) : p[t] \in STRING
    BY <1>1
  <2>2. \A t \in 1..Len(p) : (IF p[t] = "#" THEN ">" ELSE p[t]) \in STRING \cup {">"}
    BY <2>1
  <2>3. QED
    BY <1>1, <2>2 DEF Filter
<1>3. QED
  BY <1>1, <1>2

\* Every action keeps the types.
LEMMA TypeStep == ASSUME TypeOK, Phases, [Next]_vars PROVE TypeOK'
<1> USE DEF TypeOK
<1>0. /\ opts' = opts /\ collectMode' = collectMode
      /\ Given({"consume"})' = Given({"consume"})
      /\ Given(Endpoints)' = Given(Endpoints)
      /\ MaxStarts \in Nat \ {0} /\ MaxFaults \in Nat
  BY ScriptKept, BoundsOK
<1>1. CASE StartCall
  <2>1. calls' \in 0..MaxStarts
    BY <1>0, <1>1 DEF StartCall
  <2>2. /\ nc' \in 0..MaxStarts /\ nc <= nc' /\ link' \in {"none", "open", "draining", "closed"}
        /\ phase' \in {"idle", "setup", "launch"} /\ faults' \in 0..MaxFaults
    BY <1>0, <1>1, <2>1 DEF StartCall, Fault, Phases
  <2>3. at' \in 1..(Len(opts) + 1)
    BY <1>1, ScriptFields DEF StartCall
  <2>4. /\ \A k \in DOMAIN consumers : consumers[k].nc <= nc'
        /\ \A k \in DOMAIN subscriptions : subscriptions[k].nc <= nc'
    <3>1. /\ \A c \in Consumer : c.nc \in Nat
          /\ \A c \in Subscription : c.nc \in Nat
      BY <1>0 DEF Consumer, Subscription
    <3>2. /\ \A k \in DOMAIN consumers : consumers[k] \in Consumer
          /\ \A k \in DOMAIN subscriptions : subscriptions[k] \in Subscription
      OBVIOUS
    <3>3. QED
      BY <2>2, <3>1, <3>2
  <2>5. QED
    BY <1>0, <1>1, <2>1, <2>2, <2>3, <2>4 DEF StartCall, connVars
<1>2. ASSUME NEW s, Configure(s) PROVE TypeOK'
  <2>1. Running(s) /\ Done(s) /\ ~BadArgument(s)
    BY <1>2 DEF Configure
  <2>2. s \in Setup
    BY <2>1, RunningSetup
  <2>3. conf' \in Conf
    <3>1. CASE s.do = "consumerDefaults"
      BY <1>2, <2>2, <3>1, SetupFields DEF Configure, Conf
    <3>2. CASE s.do = "streamDefaults"
      BY <1>2, <2>2, <3>2, SetupFields DEF Configure, Conf
    <3>3. CASE s.do = "streamConfig"
      <4>1. s.stream \in Streams /\ s.limit \in Nat
        BY <2>1, <2>2, <3>3, SetupFields DEF BadArgument
      <4>2. conf' = [conf EXCEPT !.overrides[s.stream] = s.limit]
        BY <1>2, <3>3 DEF Configure
      <4>3. QED
        BY <4>1, <4>2 DEF Conf
    <3>4. CASE s.do = "requestTimeout"
      <4>1. s.timeout \in Nat
        <5>1. s.timeout \in Int /\ ~(s.timeout <= 0)
          BY <2>1, <2>2, <3>4, SetupFields DEF BadArgument
        <5>2. QED
          BY <5>1
      <4>2. QED
        BY <1>2, <3>4, <4>1 DEF Configure, Conf
    <3>5. CASE s.do = "observe"
      BY <1>2, <2>2, <3>5, SetupFields DEF Configure, Conf
    <3>6. QED
      BY <1>2, <3>1, <3>2, <3>3, <3>4, <3>5 DEF Configure, Settings
  <2>4. QED
    BY <1>0, <1>2, <2>1, <2>3, DoneType DEF Configure, Done
<1>3. ASSUME NEW s, RefuseArgument(s) PROVE TypeOK'
  BY <1>0, <1>3 DEF RefuseArgument, Abort, connVars
<1>4. ASSUME NEW s, AddConsumer(s) PROVE TypeOK'
  <2>1. Running(s) /\ Done(s) /\ s.do = "consume" /\ pending' = Append(pending, s)
    BY <1>4 DEF AddConsumer
  <2>2. s \in Given({"consume"})
    BY <2>1, RunningSetup
  <2>3. pending' \in Seq(Given({"consume"}))
    BY <2>1, <2>2
  <2>4. QED
    BY <1>0, <1>4, <2>1, <2>3, DoneType DEF AddConsumer, Done
<1>5. ASSUME NEW s, AddStreamPublisher(s) PROVE TypeOK'
  <2>1. s \in Setup /\ s.do = "publish" /\ s.stream \in Streams /\ s.pub \in Publishers
    BY <1>5, RunningSetup, SetupFields DEF AddStreamPublisher
  <2>2. Ensured(s.stream) \in [Streams -> Nat \cup {NoStream}]
    BY <2>1, LimitType
  <2>3. CASE Done(s)
    <3>1. streams' \in [Streams -> Nat \cup {NoStream}]
      BY <1>5, <2>2, <2>3 DEF AddStreamPublisher, Done, Abort
    <3>2. wired' = [wired EXCEPT ![s.pub] =
                      [fn |-> IF collectMode THEN @.fn ELSE [nc |-> nc, timeout |-> 0],
                       subjectFn |-> @.subjectFn,
                       stream |-> s.stream,
                       observed |-> conf.observed]]
      BY <1>5, <2>3 DEF AddStreamPublisher, Done, Abort
    <3>3. wired' \in [Publishers -> Wiring]
      BY <2>1, <3>2 DEF Wiring, Conf
    <3>4. UNCHANGED <<conf, pending, consumers, subscriptions>>
      BY <1>5, <2>3 DEF AddStreamPublisher, Done, Abort, connVars
    <3>5. Running(s)
      BY <1>5 DEF AddStreamPublisher
    <3>6. QED
      BY <1>0, <2>3, <3>1, <3>3, <3>4, <3>5, DoneType DEF Done
  <2>4. CASE Abort
    <3>1. /\ streams' \in {streams, Ensured(s.stream)} /\ UNCHANGED connVars
          /\ faults' = faults + 1 /\ faults < MaxFaults
      <4>1. at' # at + 1
        BY <2>4 DEF Abort
      <4>2. QED
        BY <1>5, <4>1 DEF AddStreamPublisher, Done, Fault
    <3>2. QED
      BY <1>0, <2>2, <2>4, <3>1 DEF Abort, connVars
  <2>5. QED
    BY <1>5, <2>3, <2>4 DEF AddStreamPublisher
<1>6. ASSUME NEW s, AddServicePublisher(s) PROVE TypeOK'
  <2>1. s \in Setup /\ s.do = "request" /\ s.target \in STRING /\ s.pub \in Publishers
    BY <1>6, RunningSetup, SetupFields DEF AddServicePublisher
  <2>2. wired' \in [Publishers -> Wiring]
    BY <1>6, <2>1 DEF AddServicePublisher, RequestTimeout, Wiring, Conf
  <2>3. QED
    BY <1>0, <1>6, <2>2, DoneType DEF AddServicePublisher, Done
<1>7. ASSUME NEW s, AddService(s) \/ AddResponder(s) PROVE TypeOK'
  <2>1. s \in Setup /\ s.key \in Pattern
    BY <1>7, RunningSetup, SetupFields DEF AddService, AddResponder
  <2>2. CASE Done(s)
    <3>1. /\ Running(s) /\ UNCHANGED <<conf, pending, consumers, wired, streams>>
          /\ subscriptions' = IF collectMode THEN subscriptions
                              ELSE Append(subscriptions,
                                          [nc |-> nc, key |-> s.key,
                                           observed |-> conf.observed])
      BY <1>7, <2>2 DEF AddService, AddResponder, Subscribe, Done, Abort
    <3>2. ~collectMode => [nc |-> nc, key |-> s.key, observed |-> conf.observed]
                            \in Subscription
      BY <2>1, <3>1 DEF Subscription, Phases, Running, Conf
    <3>3. /\ subscriptions' \in Seq(Subscription)
          /\ \A k \in DOMAIN subscriptions' : subscriptions'[k].nc <= nc
      BY <3>1, <3>2
    <3>4. QED
      BY <1>0, <2>2, <3>1, <3>3, DoneType DEF Done
  <2>3. CASE Abort
    BY <1>0, <1>7, <2>3 DEF AddService, AddResponder, Subscribe, Done, Abort, connVars,
       Fault
  <2>4. QED
    BY <1>7, <2>2, <2>3 DEF AddService, AddResponder, Subscribe
<1>8. ASSUME NEW s, AddServiceResponse(s) PROVE TypeOK'
  BY <1>0, <1>8, DoneType DEF AddServiceResponse, Done
<1>9. CASE SetupsDone
  BY <1>0, <1>9 DEF SetupsDone, connVars
<1>10. ASSUME NEW k \in DOMAIN pending, LaunchGroup(k) PROVE TypeOK'
  <2> DEFINE first == pending[k]
             h == ConsumerOf(first)
  <2>1. consumers' = Append(consumers, h) /\ streams' = Ensured(first.stream)
    BY <1>10 DEF LaunchGroup
  <2>2. nc \in 1..MaxStarts
    BY <1>10 DEF LaunchGroup, Phases
  <2>3. \A j \in Members(Group(first)) :
           pending[j].key \in Pattern /\ Filter(pending[j].key) \in Seq(STRING \cup {">"})
    BY GroupType, FilterType DEF Members
  <2>4. h \in Consumer /\ h.nc = nc
    <3>1. /\ first.stream \in Streams /\ ConsumerName(first) \in Seq(STRING \cup {"svc"})
          /\ MaxDeliverOf(first) \in Int /\ BackOffOf(first) \in Nat
          /\ conf.observed \in SUBSET STRING
      BY GroupType DEF Conf
    <3>2. /\ {Filter(pending[j].key) : j \in Members(Group(first))}
               \in SUBSET Seq(STRING \cup {">"})
          /\ {pending[j].key : j \in Members(Group(first))} \in SUBSET Pattern
      BY <2>3
    <3> HIDE DEF first
    <3>3. QED
      BY <2>2, <3>1, <3>2 DEF Consumer, ConsumerOf
  <2>5. streams' \in [Streams -> Nat \cup {NoStream}]
    BY <2>1, GroupType, LimitType
  <2> HIDE DEF h
  <2>6. /\ consumers' \in Seq(Consumer)
        /\ \A j \in DOMAIN consumers' : consumers'[j].nc <= nc
    BY <2>1, <2>4
  <2>7. QED
    BY <1>0, <1>10, <2>5, <2>6 DEF LaunchGroup
<1>11. ASSUME NEW k \in DOMAIN pending, LaunchFails(k) PROVE TypeOK'
  <2>1. Ensured(pending[k].stream) \in [Streams -> Nat \cup {NoStream}]
    BY GroupType, LimitType
  <2>2. streams' \in [Streams -> Nat \cup {NoStream}] /\ faults' \in 0..MaxFaults
    BY <1>0, <1>11, <2>1 DEF LaunchFails, Fault
  <2>3. QED
    BY <1>0, <1>11, <2>2 DEF LaunchFails, Abort, connVars
<1>12. CASE LaunchDone
  BY <1>0, <1>12 DEF LaunchDone
<1>13. CASE Close
  <2>1. consumers' = [k \in DOMAIN consumers |-> [consumers[k] EXCEPT !.running = FALSE]]
    BY <1>13 DEF Close
  <2>2. /\ consumers' \in Seq(Consumer)
        /\ \A k \in DOMAIN consumers' : consumers'[k].nc <= nc
    <3>1. \A c \in Consumer : /\ [c EXCEPT !.running = FALSE] \in Consumer
                               /\ [c EXCEPT !.running = FALSE].nc = c.nc
      BY DEF Consumer
    <3>2. consumers' \in [1..Len(consumers) -> Consumer]
      BY <2>1, <3>1
    <3>3. consumers' \in Seq(Consumer) /\ DOMAIN consumers' = DOMAIN consumers
      BY <2>1, <3>2
    <3>4. \A k \in DOMAIN consumers : consumers'[k].nc = consumers[k].nc
      <4> TAKE k \in DOMAIN consumers
      <4>1. consumers[k] \in Consumer /\ consumers'[k] = [consumers[k] EXCEPT !.running = FALSE]
        BY <2>1
      <4>2. QED
        BY <3>1, <4>1
    <3>5. QED
      BY <3>3, <3>4
  <2>3. QED
    BY <1>0, <1>13, <2>2 DEF Close
<1>14. CASE DrainDone \/ UNCHANGED vars
  BY <1>0, <1>14 DEF DrainDone, vars, connVars
<1>15. QED
  BY <1>1, <1>2, <1>3, <1>4, <1>5, <1>6, <1>7, <1>8, <1>9, <1>10, <1>11, <1>12, <1>13,
     <1>14 DEF Next, RunSetup

\* A setup that returns nil leaves the connection's phase and consumers alone.
LEMMA PhasesDone ==
  ASSUME TypeOK, Phases, NEW s, Running(s), Done(s), opts' = opts,
         collectMode' = collectMode, consumers' = consumers,
         collectMode => subscriptions' = subscriptions
  PROVE  Phases'
  BY DEF Phases, Running, Done

\* An error closes the connection.
LEMMA PhasesAbort ==
  ASSUME TypeOK, Phases, Abort, phase # "idle", opts' = opts,
         collectMode' = collectMode, UNCHANGED <<consumers, subscriptions>>
  PROVE  Phases'
  BY DEF Phases, Abort, TypeOK

\* Every action keeps the phases of Start.
LEMMA PhasesStep == ASSUME TypeOK, Phases, [Next]_vars PROVE Phases'
<1>0. opts' = opts /\ collectMode' = collectMode
  BY ScriptKept
<1>1. CASE StartCall
  <2>1. \A k \in DOMAIN consumers : consumers[k].nc # calls + 1
    <3>1. \A k \in DOMAIN consumers : consumers[k] \in Consumer /\ consumers[k].nc <= nc
      BY DEF TypeOK
    <3>2. \A c \in Consumer : c.nc \in Int
      BY BoundsOK DEF Consumer
    <3>3. nc \in Int /\ calls \in Int /\ nc <= calls
      BY BoundsOK DEF TypeOK, Phases
    <3>4. QED
      BY <3>1, <3>2, <3>3
  <2>2. calls \in Nat /\ nc \in Nat
    BY BoundsOK DEF TypeOK
  <2>3. CASE collectMode
    BY <1>0, <1>1, <2>2, <2>3 DEF StartCall, Phases, connVars
  <2>4. CASE ~collectMode /\ phase' = "setup"
    BY <1>0, <1>1, <2>1, <2>2, <2>4 DEF StartCall, Phases, connVars
  <2>5. CASE ~collectMode /\ phase' # "setup"
    BY <1>0, <1>1, <2>2, <2>5 DEF StartCall, Phases, connVars
  <2>6. QED
    BY <2>3, <2>4, <2>5
<1>2. ASSUME NEW s, RunSetup(s) PROVE Phases'
  <2>1. Running(s) /\ phase # "idle"
    BY <1>2 DEF RunSetup, Configure, RefuseArgument, AddConsumer, AddStreamPublisher,
       AddServicePublisher, AddService, AddResponder, Subscribe, AddServiceResponse, Running
  <2>2. \/ Done(s) /\ consumers' = consumers
           /\ (collectMode => subscriptions' = subscriptions)
        \/ Abort /\ UNCHANGED <<consumers, subscriptions>>
    BY <1>2 DEF RunSetup, Configure, RefuseArgument, AddConsumer, AddStreamPublisher,
       AddServicePublisher, AddService, AddResponder, Subscribe, AddServiceResponse, connVars
  <2>3. QED
    BY <1>0, <2>1, <2>2, PhasesDone, PhasesAbort
<1>3. CASE SetupsDone
  <2>1. at = Len(opts) + 1
    BY <1>3, ScriptFields DEF SetupsDone, TypeOK
  <2>2. QED
    BY <1>0, <1>3, <2>1 DEF SetupsDone, Phases, connVars
<1>4. ASSUME NEW k \in DOMAIN pending, LaunchGroup(k) PROVE Phases'
  <2>1. PICK h : consumers' = Append(consumers, h) /\ h.running
    BY <1>4 DEF LaunchGroup, ConsumerOf
  <2>2. \A j \in DOMAIN consumers' :
           (j \in DOMAIN consumers /\ consumers'[j] = consumers[j]) \/ consumers'[j] = h
    BY <2>1 DEF TypeOK
  <2>3. ~collectMode
    BY <1>4 DEF LaunchGroup, Phases
  <2>4. QED
    BY <1>0, <1>4, <2>1, <2>2, <2>3 DEF LaunchGroup, Phases
<1>5. ASSUME NEW k \in DOMAIN pending, LaunchFails(k) PROVE Phases'
  BY <1>0, <1>5, PhasesAbort DEF LaunchFails, connVars
<1>6. CASE LaunchDone
  BY <1>0, <1>6 DEF LaunchDone, Phases
<1>7. CASE Close
  BY <1>0, <1>7 DEF Close, Phases
<1>8. CASE DrainDone \/ UNCHANGED vars
  BY <1>8 DEF DrainDone, vars, connVars, Phases
<1>9. QED
  BY <1>1, <1>2, <1>3, <1>4, <1>5, <1>6, <1>7, <1>8 DEF Next

\* A new Connection is idle and holds nothing.
LEMMA InitPhases == ASSUME Init PROVE TypeOK /\ Phases
<1>1. MaxStarts \in Nat \ {0} /\ MaxFaults \in Nat /\ opts \in Seq(Setup)
  BY BoundsOK, ScriptsOK DEF Init
<1>2. conf \in Conf
  BY DEF Init, Conf, DefaultConf, NoLimit
<1>3. wired \in [Publishers -> Wiring]
  BY <1>1 DEF Init, Unwired, Wiring, NoFn
<1>4. streams \in [Streams -> Nat \cup {NoStream}]
  BY DEF Init
<1>5. TypeOK
  <2>1. at \in 1..(Len(opts) + 1)
    BY <1>1 DEF Init
  <2>2. /\ pending \in Seq(Given({"consume"})) /\ endpoints \in Seq(Given(Endpoints))
        /\ consumers \in Seq(Consumer) /\ subscriptions \in Seq(Subscription)
        /\ DOMAIN consumers = {} /\ DOMAIN subscriptions = {}
    BY DEF Init
  <2>3. /\ collectMode \in BOOLEAN /\ opts \in Scripts /\ started \in BOOLEAN
        /\ phase \in {"idle", "setup", "launch"} /\ link \in {"none", "open", "draining", "closed"}
        /\ closes \in BOOLEAN
    BY DEF Init
  <2>4. nc \in 0..MaxStarts /\ calls \in 0..MaxStarts /\ faults \in 0..MaxFaults
    BY <1>1 DEF Init
  <2>5. QED
    BY <1>2, <1>3, <1>4, <2>1, <2>2, <2>3, <2>4 DEF TypeOK
<1>6. QED
  BY <1>1, <1>5 DEF Init, Phases

\* The state of a Connection keeps its types, whatever the setups and however
\* often Start is called and fails.
THEOREM LifecycleTypeCorrect == Spec => []TypeOK
<1>1. Init => TypeOK /\ Phases
  BY InitPhases
<1>2. TypeOK /\ Phases /\ [Next]_vars => TypeOK' /\ Phases'
  BY TypeStep, PhasesStep
<1>3. QED
  BY <1>1, <1>2, PTL DEF Spec

\* The phases of Start hold throughout.
LEMMA PhasesHold == Spec => [](TypeOK /\ Phases)
<1>1. Init => TypeOK /\ Phases
  BY InitPhases
<1>2. TypeOK /\ Phases /\ [Next]_vars => (TypeOK /\ Phases)'
  BY TypeStep, PhasesStep
<1>3. QED
  BY <1>1, <1>2, PTL DEF Spec

\* Whichever setup or group a Start fails in, nothing of it still consumes.
THEOREM FailedStartStopsAll == Spec => []NothingLeftRunning
<1>1. TypeOK /\ Phases => NothingLeftRunning
  BY DEF Phases, NothingLeftRunning, LiveConsumers, LiveSubscriptions
<1>2. QED
  BY <1>1, PhasesHold, PTL

\* No step after Close brings back a consumer or a subscription: what is left is
\* a draining connection's requests, and nothing when it has drained.
THEOREM ClosedStaysClosed == Spec => ClosedForGood
<1>1. TypeOK /\ Phases /\ [Next]_vars
      => [closes => /\ LiveConsumers' = {}
                    /\ LiveSubscriptions' \subseteq LiveSubscriptions
                    /\ link = "closed" => LiveSubscriptions' = {}]_vars
  <2> SUFFICES ASSUME TypeOK, Phases, [Next]_vars, closes
               PROVE  /\ LiveConsumers' = {}
                      /\ LiveSubscriptions' \subseteq LiveSubscriptions
                      /\ link = "closed" => LiveSubscriptions' = {}
    OBVIOUS
  <2>1. started /\ phase = "idle" /\ link \in {"draining", "closed"}
    BY DEF Phases
  <2>2. DrainDone \/ UNCHANGED vars
    BY <2>1 DEF Next, StartCall, RunSetup, Configure, RefuseArgument, AddConsumer,
       AddStreamPublisher, AddServicePublisher, AddService, AddResponder,
       AddServiceResponse, Running, SetupsDone, LaunchGroup, LaunchFails, LaunchDone,
       Close
  <2>3. /\ subscriptions' = subscriptions /\ nc' = nc
        /\ link' = link \/ link' = "closed"
    BY <2>2 DEF DrainDone, vars, connVars
  <2>4. QED
    BY <2>1, <2>3 DEF LiveConsumers, LiveSubscriptions
<1>2. QED
  BY <1>1, PhasesHold, PTL DEF Spec, ClosedForGood
-----------------------------------------------------------------------------
(* The setups and the groups *)

\* What a setup changes when it returns nil.
Wires(s) == wired' = [wired EXCEPT ![s.pub] =
  [fn |-> IF collectMode THEN @.fn
          ELSE [nc |-> nc, timeout |-> IF s.do = "publish" THEN 0
                                       ELSE IF conf.timeout = 0 THEN 30 ELSE conf.timeout],
   subjectFn |-> IF s.do = "publish" THEN @.subjectFn ELSE s.target,
   stream |-> IF s.do = "publish" THEN s.stream ELSE s.target,
   observed |-> conf.observed]]

Performed(s) ==
  /\ Done(s)
  /\ consumers' = consumers
  /\ pending' = IF s.do = "consume" THEN Append(pending, s) ELSE pending
  /\ subscriptions' = IF s.do \in {"serve", "respond"} /\ ~collectMode
                      THEN Append(subscriptions, [nc |-> nc, key |-> s.key,
                                                  observed |-> conf.observed])
                      ELSE subscriptions
  /\ Configure(s) \/ (s.do \notin Settings /\ conf' = conf)
  /\ \/ s.do \in {"publish", "request"} /\ Wires(s)
     \/ s.do \notin {"publish", "request"} /\ wired' = wired

\* A setup function either does all of its work or fails.
LEMMA SetupStep ==
  ASSUME NEW s, RunSetup(s)
  PROVE  /\ Running(s) /\ phase = "setup" /\ launched' = launched
         /\ Performed(s) \/ (Abort /\ UNCHANGED connVars)
<1>1. \A t : Done(t) \/ Abort => launched' = launched
  BY DEF Done, Abort
<1>2. Running(s) => phase = "setup"
  BY DEF Running
<1>3. CASE Configure(s)
  <2>1. /\ Running(s) /\ Done(s) /\ s.do \in Settings
        /\ UNCHANGED <<pending, consumers, subscriptions, wired>>
    BY <1>3 DEF Configure
  <2>2. s.do \notin {"consume", "serve", "respond", "publish", "request"}
    BY <2>1 DEF Settings
  <2>3. QED
    BY <1>1, <1>2, <1>3, <2>1, <2>2 DEF Performed
<1>4. CASE RefuseArgument(s)
  BY <1>1, <1>2, <1>4 DEF RefuseArgument
<1>5. CASE AddConsumer(s)
  BY <1>1, <1>2, <1>5 DEF AddConsumer, Performed, Settings
<1>6. CASE AddStreamPublisher(s)
  <2>1. Running(s) /\ s.do = "publish"
    BY <1>6 DEF AddStreamPublisher
  <2>2. \/ /\ wired' = [wired EXCEPT ![s.pub] =
                    [fn |-> IF collectMode THEN @.fn ELSE [nc |-> nc, timeout |-> 0],
                     subjectFn |-> @.subjectFn,
                     stream |-> s.stream,
                     observed |-> conf.observed]]
           /\ Done(s)
           /\ UNCHANGED <<conf, pending, consumers, subscriptions>>
        \/ Abort /\ UNCHANGED connVars
    BY <1>6 DEF AddStreamPublisher
  <2>3. QED
    BY <1>1, <1>2, <2>1, <2>2 DEF Performed, Wires, Settings
<1>7. CASE AddServicePublisher(s)
  BY <1>1, <1>2, <1>7 DEF AddServicePublisher, RequestTimeout, Performed, Wires, Settings
<1>8. CASE AddService(s) \/ AddResponder(s)
  BY <1>1, <1>2, <1>8 DEF AddService, AddResponder, Subscribe, Performed, Settings
<1>9. CASE AddServiceResponse(s)
  BY <1>1, <1>2, <1>9 DEF AddServiceResponse, Performed, Settings
<1>10. QED
  BY <1>3, <1>4, <1>5, <1>6, <1>7, <1>8, <1>9 DEF RunSetup

\* A new connection attempt has no consumers or subscriptions yet.
LEMMA FreshConnection ==
  ASSUME TypeOK, Phases
  PROVE  /\ \A k \in DOMAIN consumers : consumers[k].nc # calls + 1
         /\ \A k \in DOMAIN subscriptions : subscriptions[k].nc # calls + 1
<1>1. /\ \A k \in DOMAIN consumers : consumers[k] \in Consumer /\ consumers[k].nc <= nc
      /\ \A k \in DOMAIN subscriptions :
           subscriptions[k] \in Subscription /\ subscriptions[k].nc <= nc
  BY DEF TypeOK
<1>2. /\ \A c \in Consumer : c.nc \in Int
      /\ \A c \in Subscription : c.nc \in Int
  BY BoundsOK DEF Consumer, Subscription
<1>3. nc \in Int /\ calls \in Int /\ nc <= calls
  BY BoundsOK DEF TypeOK, Phases
<1>4. QED
  BY <1>1, <1>2, <1>3

\* The consumers of this connection, by their place in c.consumers.
Own == {k \in DOMAIN consumers : consumers[k].nc = nc}

\* Which consumers there are while the groups are launched: at most one for
\* each group, and only for groups the launch is done with.
GroupInv ==
  /\ \A j, k \in Own : j # k => \/ consumers[j].stream # consumers[k].stream
                                \/ consumers[j].durable # consumers[k].durable
  /\ phase = "launch" =>
       \A k \in Own : <<consumers[k].stream, consumers[k].durable>> \in launched

\* What LaunchGroup adds to c.consumers.
LEMMA LaunchAdds ==
  ASSUME TypeOK, Phases, NEW k \in DOMAIN pending, LaunchGroup(k)
  PROVE  /\ DOMAIN consumers' = DOMAIN consumers \cup {Len(consumers) + 1}
         /\ Len(consumers) + 1 \notin DOMAIN consumers
         /\ \A j \in DOMAIN consumers : consumers'[j] = consumers[j]
         /\ consumers'[Len(consumers) + 1] = ConsumerOf(pending[k])
         /\ Own' = Own \cup {Len(consumers) + 1}
<1> DEFINE h == ConsumerOf(pending[k])
           n == Len(consumers) + 1
<1>1. consumers' = Append(consumers, h) /\ nc' = nc
  BY DEF LaunchGroup
<1>2. h.nc = nc
  BY DEF ConsumerOf
<1> HIDE DEF h
<1>3. consumers \in Seq(Consumer)
  BY DEF TypeOK
<1>4. /\ DOMAIN consumers' = DOMAIN consumers \cup {n}
      /\ n \notin DOMAIN consumers
      /\ \A j \in DOMAIN consumers : consumers'[j] = consumers[j]
      /\ consumers'[n] = h
  BY <1>1, <1>3
<1>5. Own' = Own \cup {n}
  BY <1>1, <1>2, <1>4 DEF Own
<1>6. QED
  BY <1>4, <1>5 DEF h

\* Stopping the consumers changes nothing else in them.
LEMMA CloseKeeps ==
  ASSUME TypeOK, Close
  PROVE  /\ DOMAIN consumers' = DOMAIN consumers /\ Own' = Own
         /\ \A k \in DOMAIN consumers :
              /\ consumers'[k].nc = consumers[k].nc
              /\ consumers'[k].stream = consumers[k].stream
              /\ consumers'[k].durable = consumers[k].durable
              /\ consumers'[k].filter = consumers[k].filter
              /\ consumers'[k].handlers = consumers[k].handlers
<1>1. /\ consumers' = [k \in DOMAIN consumers |-> [consumers[k] EXCEPT !.running = FALSE]]
      /\ nc' = nc
  BY DEF Close
<1>2. \A k \in DOMAIN consumers : consumers[k] \in Consumer
  BY DEF TypeOK
<1>3. \A c \in Consumer : LET d == [c EXCEPT !.running = FALSE] IN
                          /\ d.nc = c.nc /\ d.stream = c.stream /\ d.durable = c.durable
                          /\ d.filter = c.filter /\ d.handlers = c.handlers
  BY DEF Consumer
<1>4. QED
  BY <1>1, <1>2, <1>3 DEF Own

\* A group is launched at most once on a connection.
LEMMA GroupStep == ASSUME TypeOK, Phases, GroupInv, [Next]_vars PROVE GroupInv'
<1>1. CASE StartCall
  <2>1. consumers' = consumers /\ (phase' = "setup" \/ phase' = "idle")
    BY <1>1 DEF StartCall, connVars
  <2>2. nc' = nc \/ nc' = calls + 1
    BY <1>1 DEF StartCall
  <2>3. Own' = Own \/ Own' = {}
    BY <2>1, <2>2, FreshConnection DEF Own
  <2>4. QED
    BY <2>1, <2>3 DEF GroupInv
<1>2. ASSUME NEW s, RunSetup(s) PROVE GroupInv'
  <2>1. /\ consumers' = consumers /\ nc' = nc /\ phase' # "launch"
    BY <1>2, SetupStep DEF Performed, Abort, Done, connVars
  <2>2. QED
    BY <2>1 DEF GroupInv, Own
<1>3. CASE SetupsDone
  <2>1. consumers' = consumers /\ nc' = nc /\ phase = "setup"
    BY <1>3 DEF SetupsDone, connVars
  <2>2. Own = {} /\ Own' = {}
    BY <2>1 DEF Own, Phases
  <2>3. QED
    BY <2>2 DEF GroupInv
<1>4. ASSUME NEW k \in DOMAIN pending, LaunchGroup(k) PROVE GroupInv'
  <2> DEFINE n == Len(consumers) + 1
  <2>1. /\ phase = "launch" /\ Group(pending[k]) \notin launched
        /\ launched' = launched \cup {Group(pending[k])}
    BY <1>4 DEF LaunchGroup, NextFirst
  <2>2. /\ Own' = Own \cup {n} /\ n \notin Own
        /\ \A j \in Own : consumers'[j] = consumers[j]
        /\ <<consumers'[n].stream, consumers'[n].durable>> = Group(pending[k])
    <3>1. /\ Own' = Own \cup {n} /\ n \notin DOMAIN consumers
          /\ \A j \in DOMAIN consumers : consumers'[j] = consumers[j]
          /\ consumers'[n].stream = pending[k].stream
          /\ consumers'[n].durable = ConsumerName(pending[k])
      <4>1. /\ Own' = Own \cup {n} /\ n \notin DOMAIN consumers
            /\ \A j \in DOMAIN consumers : consumers'[j] = consumers[j]
            /\ consumers'[n] = ConsumerOf(pending[k])
        BY <1>4, LaunchAdds
      <4>2. QED
        BY <4>1 DEF ConsumerOf
    <3>2. QED
      BY <3>1 DEF Own, Group
  <2> HIDE DEF n
  <2>3. \A j \in Own : <<consumers[j].stream, consumers[j].durable>> # Group(pending[k])
    BY <2>1 DEF GroupInv
  <2>4. QED
    BY <2>1, <2>2, <2>3 DEF GroupInv
<1>5. ASSUME NEW k \in DOMAIN pending, LaunchFails(k) PROVE GroupInv'
  BY <1>5 DEF LaunchFails, Abort, connVars, GroupInv, Own
<1>6. CASE LaunchDone
  BY <1>6 DEF LaunchDone, GroupInv, Own
<1>7. CASE Close
  <2>1. phase' = "idle"
    BY <1>7 DEF Close
  <2>2. QED
    BY <1>7, <2>1, CloseKeeps DEF GroupInv, Own
<1>8. CASE DrainDone \/ UNCHANGED vars
  BY <1>8 DEF DrainDone, vars, connVars, GroupInv, Own
<1>9. QED
  BY <1>1, <1>2, <1>3, <1>4, <1>5, <1>6, <1>7, <1>8 DEF Next

\* Registrations on the same stream and durable never get two consumers, in
\* whatever order they stand and however many Starts failed before.
THEOREM GroupsShareConsumer == Spec => []OneConsumerPerGroup
<1>1. Init => GroupInv
  BY DEF Init, GroupInv, Own
<1>2. TypeOK /\ Phases /\ GroupInv /\ [Next]_vars => GroupInv'
  BY GroupStep
<1>3. TypeOK /\ Phases /\ GroupInv => OneConsumerPerGroup
  <2> SUFFICES ASSUME GroupInv, NEW j \in DOMAIN consumers, NEW k \in DOMAIN consumers,
                      consumers[j] \in LiveConsumers, consumers[k] \in LiveConsumers, j # k
               PROVE  \/ consumers[j].stream # consumers[k].stream
                      \/ consumers[j].durable # consumers[k].durable
    BY DEF OneConsumerPerGroup
  <2>1. j \in Own /\ k \in Own
    BY DEF LiveConsumers, Own
  <2>2. QED
    BY <2>1 DEF GroupInv
<1>4. QED
  BY <1>1, <1>2, <1>3, PhasesHold, PTL DEF Spec
-----------------------------------------------------------------------------
(* Handlers and filters *)

\* The server's filter lets through what the handler's pattern matches, and
\* nothing else if the matching function knows its wildcards.
LEMMA FilterMeansPattern ==
  ASSUME NEW p \in Pattern, NEW key \in Seq(STRING),
         NEW rests \in {{"#"}, {"#", ">"}}
  PROVE  /\ MatchRoutingKey(p, key, rests) => Passes(Filter(p), key)
         /\ Known(p, rests) /\ Passes(Filter(p), key) => MatchRoutingKey(p, key, rests)
<1> DEFINE f == Filter(p)
<1>1. /\ Len(f) = Len(p) /\ DOMAIN f = DOMAIN p /\ Len(p) \in DOMAIN p
      /\ \A t \in DOMAIN p : f[t] = IF p[t] = "#" THEN ">" ELSE p[t]
  BY FilterType DEF Filter
<1> HIDE DEF f
<1>2. "#" \in rests /\ \A x \in rests : x \in {"#", ">"}
  OBVIOUS
<1>3. ASSUME NEW t \in DOMAIN p
      PROVE  /\ p[t] \in rests => f[t] = ">"
             /\ p[t] \in {key[t], "*"} \cup rests => f[t] \in {key[t], "*", ">"}
  BY <1>1, <1>2
<1>4. ASSUME NEW t \in DOMAIN p, Known(p, rests)
      PROVE  /\ f[t] = ">" => p[t] \in rests
             /\ f[t] \in {key[t], "*", ">"} => p[t] \in {key[t], "*"} \cup rests
  BY <1>1, <1>2, <1>4 DEF Known
<1>5. MatchRoutingKey(p, key, rests) => Passes(f, key)
  BY <1>1, <1>3 DEF Passes, MatchRoutingKey, Covers
<1>6. Known(p, rests) /\ Passes(f, key) => MatchRoutingKey(p, key, rests)
  BY <1>1, <1>4 DEF Passes, MatchRoutingKey, Covers
<1>7. QED
  BY <1>5, <1>6 DEF f

\* Filters that one key passes overlap.
LEMMA KeyPassesBoth ==
  ASSUME NEW f \in Seq(STRING \cup {">"}), NEW g \in Seq(STRING \cup {">"}),
         NEW key \in Seq(STRING), Passes(f, key), Passes(g, key)
  PROVE  Collide(f, g)
<1>1. Len(f) \in Nat /\ Len(g) \in Nat /\ Len(key) \in Nat
  OBVIOUS
<1>2. \A t \in DOMAIN f \cap DOMAIN g : f[t] = g[t] \/ {f[t], g[t]} \cap {"*", ">"} # {}
  BY DEF Passes, Covers
<1>3. \/ Len(f) = Len(g)
      \/ Len(f) < Len(g) /\ f[Len(f)] = ">"
      \/ Len(f) > Len(g) /\ g[Len(g)] = ">"
  BY <1>1 DEF Passes, Covers
<1>4. QED
  BY <1>2, <1>3 DEF Collide

\* A consumer's filter is that of its handlers, and no two of them overlap.
Distinct(h) ==
  /\ h.filter = {Filter(p) : p \in h.handlers}
  /\ \A p, q \in h.handlers : p # q => ~Collide(Filter(p), Filter(q))

HandlerInv == \A k \in DOMAIN consumers : Distinct(consumers[k])

\* The server accepts no group in which two registrations overlap.
LEMMA AcceptedIsDistinct ==
  ASSUME NEW k \in DOMAIN pending, ~Refused(pending[k])
  PROVE  Distinct(ConsumerOf(pending[k]))
<1> DEFINE M == Members(Group(pending[k]))
<1>1. \A i, j \in M : i # j => ~Collide(Filter(pending[i].key), Filter(pending[j].key))
  BY DEF Refused
<1>2. /\ ConsumerOf(pending[k]).filter = {Filter(pending[j].key) : j \in M}
      /\ ConsumerOf(pending[k]).handlers = {pending[j].key : j \in M}
  BY DEF ConsumerOf
<1> HIDE DEF M
<1>3. {Filter(pending[j].key) : j \in M} = {Filter(p) : p \in {pending[j].key : j \in M}}
  OBVIOUS
<1>4. \A p, q \in {pending[j].key : j \in M} : p # q => ~Collide(Filter(p), Filter(q))
  BY <1>1
<1>5. QED
  BY <1>2, <1>3, <1>4 DEF Distinct

\* Only the launch of a group adds to c.consumers, and only Close changes what
\* is in it.
LEMMA ConsumersKept ==
  ASSUME [Next]_vars
  PROVE  \/ consumers' = consumers
         \/ \E k \in DOMAIN pending : LaunchGroup(k)
         \/ Close
<1>1. \A s : RunSetup(s) => consumers' = consumers
  BY SetupStep DEF Performed, connVars
<1>2. QED
  BY <1>1 DEF Next, StartCall, SetupsDone, LaunchFails, LaunchDone, DrainDone, vars,
     connVars

\* No key has two handlers in a consumer, for any patterns, and one that arrives
\* has one if the matching function knows the patterns' wildcards: the order of
\* the handler map does not matter.
THEOREM OneHandler == Spec => []HandlerIsUnique
<1>1. Init => HandlerInv
  BY DEF Init, HandlerInv
<1>2. TypeOK /\ Phases /\ HandlerInv /\ [Next]_vars => HandlerInv'
  <2> SUFFICES ASSUME TypeOK, Phases, HandlerInv, [Next]_vars PROVE HandlerInv'
    OBVIOUS
  <2>1. CASE consumers' = consumers
    BY <2>1 DEF HandlerInv
  <2>2. ASSUME NEW k \in DOMAIN pending, LaunchGroup(k) PROVE HandlerInv'
    <3>1. Distinct(ConsumerOf(pending[k]))
      BY <2>2, AcceptedIsDistinct DEF LaunchGroup
    <3>2. \A j \in DOMAIN consumers' : Distinct(consumers'[j])
      BY <2>2, <3>1, LaunchAdds DEF HandlerInv
    <3>3. QED
      BY <3>2 DEF HandlerInv
  <2>3. CASE Close
    <3>1. \A k \in DOMAIN consumers : Distinct(consumers'[k]) <=> Distinct(consumers[k])
      BY <2>3, CloseKeeps DEF Distinct
    <3>2. QED
      BY <2>3, <3>1, CloseKeeps DEF HandlerInv
  <2>4. QED
    BY <2>1, <2>2, <2>3, ConsumersKept
<1>3. TypeOK /\ HandlerInv => HandlerIsUnique
  <2> SUFFICES ASSUME TypeOK, HandlerInv, NEW h \in LiveConsumers, NEW key \in RoutingKeys,
                      NEW rests \in {{"#"}, {"#", ">"}}
               PROVE  LET hits    == HandlersFor(h, key, rests)
                          arrives == \E f \in h.filter : Passes(f, key) IN
                      /\ \A p, q \in hits : p = q
                      /\ hits # {} => arrives
                      /\ arrives /\ (\A p \in h.handlers : Known(p, rests)) => hits # {}
    BY DEF HandlerIsUnique
  <2> DEFINE hits == HandlersFor(h, key, rests)
  <2>1. h \in Consumer /\ Distinct(h)
    BY DEF LiveConsumers, TypeOK, HandlerInv
  <2>2. h.handlers \subseteq Pattern /\ key \in Seq(STRING)
    BY <2>1, KeysOK DEF Consumer
  <2>3. \A p \in h.handlers :
          /\ p \in hits => Passes(Filter(p), key)
          /\ Known(p, rests) /\ Passes(Filter(p), key) => p \in hits
    BY <2>2, FilterMeansPattern DEF HandlersFor
  <2>4. hits \subseteq h.handlers
    BY DEF HandlersFor
  <2> HIDE DEF hits
  <2>5. hits # {} => \E f \in h.filter : Passes(f, key)
    BY <2>1, <2>3, <2>4 DEF Distinct
  <2>6. ASSUME NEW f \in h.filter, Passes(f, key), \A p \in h.handlers : Known(p, rests)
        PROVE  hits # {}
    BY <2>1, <2>3, <2>6 DEF Distinct
  <2>7. ASSUME NEW p \in hits, NEW q \in hits PROVE p = q
    <3>1. p \in h.handlers /\ q \in h.handlers
      BY <2>4
    <3>2. Collide(Filter(p), Filter(q))
      BY <2>2, <2>3, <3>1, FilterType, KeyPassesBoth
    <3>3. QED
      BY <2>1, <3>1, <3>2 DEF Distinct
  <2>8. QED
    BY <2>5, <2>6, <2>7 DEF hits
<1>4. QED
  BY <1>1, <1>2, <1>3, PhasesHold, PTL DEF Spec
-----------------------------------------------------------------------------
(* A started connection serves everything *)

\* A consumer of this connection reads for registration c.
Serves(h, c) == ReadsFor(h, c) /\ Filter(c.key) \in h.filter /\ c.key \in h.handlers
ConsumerFor(c) == \E k \in Own : Serves(consumers[k], c)

\* Start works on a connection, or has made one that is not closed.
Active == ~collectMode /\ (phase # "idle" \/ (started /\ ~closes))

\* The setups that ran are queued, subscribed or wired, and the groups the
\* launch is done with have their consumer.
QueueInv ==
  /\ phase = "setup" => launched = {}
  /\ phase # "idle" => \A j \in DOMAIN opts : j < at /\ opts[j].do = "consume" =>
                         \E k \in DOMAIN pending : pending[k] = opts[j]
ConsumeInv ==
  /\ phase = "launch" => \A k \in DOMAIN pending :
                           Group(pending[k]) \in launched => ConsumerFor(pending[k])
  /\ Up => \A j \in DOMAIN opts : opts[j].do = "consume" => ConsumerFor(opts[j])
WiredInv ==
  Active => \A j \in DOMAIN opts : j < at =>
    /\ opts[j].do \in {"serve", "respond"} => \E k \in DOMAIN subscriptions :
         subscriptions[k].nc = nc /\ subscriptions[k].key = opts[j].key
    /\ opts[j].do \in {"publish", "request"} => wired[opts[j].pub].fn.nc = nc

\* Registrations stay queued until their group is launched.
LEMMA QueueStep == ASSUME TypeOK, Phases, QueueInv, [Next]_vars PROVE QueueInv'
<1>0. opts' = opts
  BY ScriptKept
<1>1. CASE StartCall
  <2>1. at' = 1 /\ launched' = {}
    BY <1>1 DEF StartCall
  <2>2. \A j \in DOMAIN opts : ~(j < 1)
    BY ScriptFields
  <2>3. QED
    BY <1>0, <2>1, <2>2 DEF QueueInv
<1>2. ASSUME NEW s, RunSetup(s) PROVE QueueInv'
  <2>1. Running(s) /\ phase = "setup" /\ launched' = launched
    BY <1>2, SetupStep
  <2>2. CASE Performed(s)
    <3>1. at' = at + 1 /\ phase' = phase /\ s = opts[at] /\ at \in DOMAIN opts
      BY <2>1, <2>2, RunningSetup DEF Performed, Done
    <3>2. \A j \in DOMAIN opts : j < at' => j < at \/ j = at
      BY <3>1, ScriptFields
    <3>3. \A k \in DOMAIN pending : k \in DOMAIN pending' /\ pending'[k] = pending[k]
      BY <2>2 DEF Performed, TypeOK
    <3>4. s.do = "consume" => \E k \in DOMAIN pending' : pending'[k] = s
      <4>1. ASSUME s.do = "consume"
            PROVE  Len(pending) + 1 \in DOMAIN pending' /\ pending'[Len(pending) + 1] = s
        BY <2>2, <4>1 DEF Performed, TypeOK
      <4>2. QED
        BY <4>1
    <3>5. QED
      BY <1>0, <2>1, <3>1, <3>2, <3>3, <3>4 DEF QueueInv
  <2>3. CASE Abort
    BY <2>3 DEF Abort, QueueInv
  <2>4. QED
    BY <1>2, <2>2, <2>3, SetupStep
<1>3. CASE SetupsDone
  BY <1>0, <1>3 DEF SetupsDone, connVars, QueueInv
<1>4. ASSUME NEW k \in DOMAIN pending, LaunchGroup(k) PROVE QueueInv'
  BY <1>0, <1>4 DEF LaunchGroup, QueueInv
<1>5. ASSUME NEW k \in DOMAIN pending, LaunchFails(k) PROVE QueueInv'
  BY <1>5 DEF LaunchFails, Abort, QueueInv
<1>6. CASE LaunchDone
  BY <1>6 DEF LaunchDone, QueueInv
<1>7. CASE Close
  BY <1>7 DEF Close, QueueInv
<1>8. CASE DrainDone \/ UNCHANGED vars
  BY <1>8 DEF DrainDone, vars, connVars, QueueInv
<1>9. QED
  BY <1>1, <1>2, <1>3, <1>4, <1>5, <1>6, <1>7, <1>8 DEF Next

\* A launched group keeps its consumer until Close.
LEMMA ConsumeStep ==
  ASSUME TypeOK, Phases, QueueInv, ConsumeInv, [Next]_vars
  PROVE  ConsumeInv'
<1>0. opts' = opts /\ collectMode' = collectMode
  BY ScriptKept
<1>1. CASE StartCall
  BY <1>1 DEF StartCall, ConsumeInv, Up
<1>2. ASSUME NEW s, RunSetup(s) PROVE ConsumeInv'
  <2>1. phase = "setup" /\ ~started
    BY <1>2, SetupStep DEF Phases
  <2>2. started' = started /\ (phase' = phase \/ phase' = "idle")
    BY <1>2, SetupStep DEF Performed, Done, Abort
  <2>3. QED
    BY <2>1, <2>2 DEF ConsumeInv, Up
<1>3. CASE SetupsDone
  <2>1. launched' = {}
    BY <1>3 DEF SetupsDone, QueueInv
  <2>2. ~Up'
    BY <1>0, <1>3 DEF SetupsDone, Up
  <2>3. QED
    BY <2>1, <2>2 DEF ConsumeInv
<1>4. ASSUME NEW k \in DOMAIN pending, LaunchGroup(k) PROVE ConsumeInv'
  <2> DEFINE n == Len(consumers) + 1
             g == Group(pending[k])
  <2>1. /\ phase = "launch" /\ ~started /\ started' = started /\ pending' = pending
        /\ launched' = launched \cup {g}
    BY <1>4 DEF LaunchGroup, Phases
  <2>2. /\ Own' = Own \cup {n}
        /\ \A j \in Own : consumers'[j] = consumers[j]
        /\ consumers'[n] = ConsumerOf(pending[k])
    BY <1>4, LaunchAdds DEF Own
  <2> HIDE DEF n
  <2>3. ASSUME NEW j \in DOMAIN pending, Group(pending[j]) \in launched
        PROVE  \E m \in Own' : Serves(consumers'[m], pending[j])
    <3>1. \E m \in Own : Serves(consumers[m], pending[j])
      BY <2>1, <2>3 DEF ConsumeInv, ConsumerFor
    <3>2. QED
      BY <2>2, <3>1
  <2>4. ASSUME NEW j \in DOMAIN pending, Group(pending[j]) = g
        PROVE  \E m \in Own' : Serves(consumers'[m], pending[j])
    <3> DEFINE h == ConsumerOf(pending[k])
    <3>1. j \in Members(g)
      BY <2>4 DEF Members
    <3>2. Filter(pending[j].key) \in h.filter /\ pending[j].key \in h.handlers
      BY <3>1 DEF ConsumerOf
    <3>3. h.stream = pending[j].stream /\ h.durable = ConsumerName(pending[j])
      BY <2>4 DEF ConsumerOf, Group
    <3>4. n \in Own' /\ consumers'[n] = h
      BY <2>2
    <3> HIDE DEF h
    <3>5. QED
      BY <3>2, <3>3, <3>4 DEF Serves, ReadsFor
  <2> HIDE DEF g
  <2>5. \A j \in DOMAIN pending : Group(pending[j]) \in launched' =>
                                 \E m \in Own' : Serves(consumers'[m], pending[j])
    BY <2>1, <2>3, <2>4
  <2>6. ~Up'
    BY <2>1 DEF Up
  <2>7. QED
    BY <2>1, <2>5, <2>6 DEF ConsumeInv, ConsumerFor
<1>5. ASSUME NEW k \in DOMAIN pending, LaunchFails(k) PROVE ConsumeInv'
  BY <1>5 DEF LaunchFails, Abort, ConsumeInv, Phases, Up
<1>6. CASE LaunchDone
  <2>1. /\ phase = "launch" /\ at = Len(opts) + 1 /\ phase' = "idle"
        /\ consumers' = consumers /\ nc' = nc
        /\ \A k \in DOMAIN pending : ConsumerFor(pending[k])
    BY <1>6 DEF LaunchDone, Phases, ConsumeInv
  <2>2. \A j \in DOMAIN opts : j < at
    BY <2>1, ScriptFields
  <2>3. \A j \in DOMAIN opts : opts[j].do = "consume" => ConsumerFor(opts[j])
    BY <2>1, <2>2 DEF QueueInv
  <2>4. \A c : ConsumerFor(c)' <=> ConsumerFor(c)
    BY <2>1 DEF ConsumerFor, Own
  <2>5. QED
    BY <1>0, <2>1, <2>3, <2>4 DEF ConsumeInv
<1>7. CASE Close
  BY <1>7 DEF Close, ConsumeInv, Up
<1>8. CASE DrainDone \/ UNCHANGED vars
  <2>1. \A c : ConsumerFor(c)' <=> ConsumerFor(c)
    BY <1>8 DEF DrainDone, vars, connVars, ConsumerFor, Own
  <2>2. QED
    BY <1>0, <1>8, <2>1 DEF DrainDone, vars, connVars, ConsumeInv, Up
<1>9. QED
  BY <1>1, <1>2, <1>3, <1>4, <1>5, <1>6, <1>7, <1>8 DEF Next

\* Subscriptions and Publishers stay with their connection.
LEMMA WiredStep == ASSUME TypeOK, Phases, WiredInv, [Next]_vars PROVE WiredInv'
<1>0. opts' = opts /\ collectMode' = collectMode
  BY ScriptKept
<1>1. CASE StartCall
  <2>1. at' = 1
    BY <1>1 DEF StartCall
  <2>2. \A j \in DOMAIN opts : ~(j < 1)
    BY ScriptFields
  <2>3. QED
    BY <1>0, <2>1, <2>2 DEF WiredInv
<1>2. ASSUME NEW s, RunSetup(s) PROVE WiredInv'
  <2>1. Running(s) /\ phase = "setup" /\ ~started
    BY <1>2, SetupStep DEF Phases
  <2>2. CASE Performed(s) /\ ~collectMode
    <3>1. /\ at' = at + 1 /\ s = opts[at] /\ at \in DOMAIN opts /\ nc' = nc /\ s \in Setup
      BY <2>1, <2>2, RunningSetup DEF Performed, Done
    <3>2. \A j \in DOMAIN opts : j < at' => j < at \/ j = at
      BY <3>1, ScriptFields
    <3>3. /\ \A k \in DOMAIN subscriptions :
               k \in DOMAIN subscriptions' /\ subscriptions'[k] = subscriptions[k]
          /\ s.do \in {"serve", "respond"} => \E k \in DOMAIN subscriptions' :
               subscriptions'[k].nc = nc /\ subscriptions'[k].key = s.key
      <4> DEFINE h == [nc |-> nc, key |-> s.key, observed |-> conf.observed]
                 n == Len(subscriptions) + 1
      <4>1. subscriptions' = IF s.do \in {"serve", "respond"} THEN Append(subscriptions, h)
                             ELSE subscriptions
        BY <2>2 DEF Performed
      <4>2. h.nc = nc /\ h.key = s.key
        OBVIOUS
      <4> HIDE DEF h
      <4>3. subscriptions \in Seq(Subscription)
        BY DEF TypeOK
      <4>4. s.do \in {"serve", "respond"} => n \in DOMAIN subscriptions' /\ subscriptions'[n] = h
        BY <4>1, <4>3
      <4>5. \A k \in DOMAIN subscriptions :
              k \in DOMAIN subscriptions' /\ subscriptions'[k] = subscriptions[k]
        BY <4>1, <4>3
      <4>6. QED
        BY <4>2, <4>4, <4>5
    <3>4. /\ \A p \in Publishers : wired[p].fn.nc = nc => wired'[p].fn.nc = nc
          /\ s.do \in {"publish", "request"} => wired'[s.pub].fn.nc = nc
      <4>1. CASE s.do \in {"publish", "request"}
        <5>1. Wires(s) /\ s.pub \in Publishers
          BY <2>2, <3>1, <4>1, SetupFields DEF Performed
        <5>2. QED
          BY <2>2, <5>1 DEF Wires, TypeOK
      <4>2. CASE s.do \notin {"publish", "request"}
        BY <2>2, <4>2 DEF Performed
      <4>3. QED
        BY <4>1, <4>2
    <3>5. \A j \in DOMAIN opts : opts[j].do \in {"publish", "request"} =>
                                 opts[j].pub \in Publishers
      BY ScriptFields, SetupFields
    <3>6. Active
      BY <2>1, <2>2 DEF Active
    <3>7. QED
      BY <1>0, <3>1, <3>2, <3>3, <3>4, <3>5, <3>6 DEF WiredInv
  <2>3. CASE Abort
    BY <2>1, <2>3 DEF Abort, WiredInv, Active
  <2>4. CASE collectMode
    BY <1>0, <2>4 DEF WiredInv, Active
  <2>5. QED
    BY <1>2, <2>2, <2>3, <2>4, SetupStep
<1>3. CASE SetupsDone
  BY <1>0, <1>3 DEF SetupsDone, connVars, WiredInv, Active
<1>4. ASSUME NEW k \in DOMAIN pending, LaunchGroup(k) PROVE WiredInv'
  BY <1>0, <1>4 DEF LaunchGroup, WiredInv, Active
<1>5. ASSUME NEW k \in DOMAIN pending, LaunchFails(k) PROVE WiredInv'
  BY <1>5 DEF LaunchFails, Abort, WiredInv, Active, Phases
<1>6. CASE LaunchDone
  BY <1>0, <1>6 DEF LaunchDone, WiredInv, Active
<1>7. CASE Close
  BY <1>7 DEF Close, WiredInv, Active
<1>8. CASE DrainDone \/ UNCHANGED vars
  BY <1>8 DEF DrainDone, vars, connVars, WiredInv, Active
<1>9. QED
  BY <1>1, <1>2, <1>3, <1>4, <1>5, <1>6, <1>7, <1>8 DEF Next

\* What the setups queued, subscribed, wired and launched, in every state.
LEMMA ServedHold == Spec => [](QueueInv /\ ConsumeInv /\ WiredInv)
<1>1. Init => QueueInv /\ ConsumeInv /\ WiredInv
  BY DEF Init, QueueInv, ConsumeInv, WiredInv, Active, Up
<1>2. TypeOK /\ Phases /\ QueueInv /\ ConsumeInv /\ WiredInv /\ [Next]_vars
      => (QueueInv /\ ConsumeInv /\ WiredInv)'
  BY QueueStep, ConsumeStep, WiredStep
<1>3. QED
  BY <1>1, <1>2, PhasesHold, PTL DEF Spec

\* When Start returns nil every consumer, service and publisher it was given
\* works on this connection, for any list of setups and after any failed Start.
THEOREM StartedServesAll == Spec => []EverythingServed
<1>1. TypeOK /\ Phases /\ ConsumeInv /\ WiredInv => EverythingServed
  <2> SUFFICES ASSUME TypeOK, Phases, ConsumeInv, WiredInv, Up
               PROVE  /\ \A c \in Given({"consume"}) : \E h \in LiveConsumers :
                           ReadsFor(h, c) /\ Filter(c.key) \in h.filter /\ c.key \in h.handlers
                      /\ \A c \in Given({"serve", "respond"}) :
                           \E h \in LiveSubscriptions : h.key = c.key
                      /\ \A c \in Given({"publish", "request"}) : wired[c.pub].fn.nc = nc
    BY DEF EverythingServed
  <2>1. /\ Active /\ link = "open" /\ \A j \in DOMAIN opts : j < at
    BY ScriptFields DEF Up, Active, Phases
  <2>2. \A c : ConsumerFor(c) => \E h \in LiveConsumers :
           ReadsFor(h, c) /\ Filter(c.key) \in h.filter /\ c.key \in h.handlers
    BY <2>1 DEF ConsumerFor, Serves, LiveConsumers, Own, Phases
  <2>3. \A c \in Given({"consume"}) : ConsumerFor(c)
    BY ScriptFields DEF ConsumeInv
  <2>4. \A c \in Given({"serve", "respond"}) : \E h \in LiveSubscriptions : h.key = c.key
    <3> SUFFICES ASSUME NEW c \in Given({"serve", "respond"})
                 PROVE  \E h \in LiveSubscriptions : h.key = c.key
      OBVIOUS
    <3>1. PICK j \in DOMAIN opts : c = opts[j] /\ opts[j].do \in {"serve", "respond"}
      BY ScriptFields
    <3>2. PICK k \in DOMAIN subscriptions : subscriptions[k].nc = nc /\ subscriptions[k].key = c.key
      BY <2>1, <3>1 DEF WiredInv
    <3>3. QED
      BY <2>1, <3>2 DEF LiveSubscriptions
  <2>5. \A c \in Given({"publish", "request"}) : wired[c.pub].fn.nc = nc
    <3> TAKE c \in Given({"publish", "request"})
    <3>1. PICK j \in DOMAIN opts : c = opts[j] /\ opts[j].do \in {"publish", "request"}
      BY ScriptFields
    <3>2. QED
      BY <2>1, <3>1 DEF WiredInv
  <2>6. QED
    BY <2>2, <2>3, <2>4, <2>5
<1>2. QED
  BY <1>1, PhasesHold, ServedHold, PTL
-----------------------------------------------------------------------------
(* The topology *)

\* Declared, with the script as a parameter.
DeclaredIn(o, k) == Cardinality({j \in DOMAIN o : j <= k /\ o[j].do \in Endpoints})

\* Counting endpoints along a script.
LEMMA Counting ==
  ASSUME NEW o \in Seq(Setup)
  PROVE  /\ DeclaredIn(o, 0) = 0
         /\ \A k \in Nat : DeclaredIn(o, k) \in Nat
         /\ \A k, m \in Nat : k <= m => DeclaredIn(o, k) <= DeclaredIn(o, m)
         /\ \A k \in DOMAIN o :
              DeclaredIn(o, k) = DeclaredIn(o, k - 1) + IF o[k].do \in Endpoints THEN 1 ELSE 0
<1> DEFINE D(k) == {j \in DOMAIN o : j <= k /\ o[j].do \in Endpoints}
<1>1. Len(o) \in Nat /\ DOMAIN o = 1..Len(o)
  OBVIOUS
<1>2. \A k : IsFiniteSet(D(k))
  <2>1. IsFiniteSet(1..Len(o))
    BY <1>1, FS_Interval
  <2>2. \A k : D(k) \subseteq 1..Len(o)
    BY <1>1
  <2>3. QED
    BY <2>1, <2>2, FS_Subset
<1>3. \A k : DeclaredIn(o, k) = Cardinality(D(k))
  BY DEF DeclaredIn
<1>4. \A k \in Nat : DeclaredIn(o, k) \in Nat
  BY <1>2, <1>3, FS_CardinalityType
<1>5. DeclaredIn(o, 0) = 0
  <2>1. D(0) = {}
    BY <1>1
  <2>2. QED
    BY <1>3, <2>1, FS_EmptySet
<1>6. \A k, m \in Nat : k <= m => DeclaredIn(o, k) <= DeclaredIn(o, m)
  <2> SUFFICES ASSUME NEW k \in Nat, NEW m \in Nat, k <= m
               PROVE  Cardinality(D(k)) <= Cardinality(D(m))
    BY <1>3
  <2>1. D(k) \subseteq D(m)
    BY <1>1
  <2>2. QED
    BY <1>2, <2>1, FS_Subset
<1>7. ASSUME NEW k \in DOMAIN o
      PROVE  DeclaredIn(o, k) = DeclaredIn(o, k - 1) + IF o[k].do \in Endpoints THEN 1 ELSE 0
  <2>1. k - 1 \in Nat /\ k \notin D(k - 1)
    BY <1>1
  <2>2. CASE o[k].do \in Endpoints
    <3>1. D(k) = D(k - 1) \cup {k}
      BY <1>1, <2>2
    <3>2. IsFiniteSet(D(k - 1)) /\ DeclaredIn(o, k - 1) = Cardinality(D(k - 1))
          /\ DeclaredIn(o, k) = Cardinality(D(k))
      BY <1>2, <1>3
    <3> HIDE DEF D
    <3>3. Cardinality(D(k)) = Cardinality(D(k - 1)) + 1
      BY <2>1, <3>1, <3>2, FS_AddElement
    <3>4. QED
      BY <2>2, <3>2, <3>3
  <2>3. CASE o[k].do \notin Endpoints
    <3>1. D(k) = D(k - 1)
      BY <1>1, <2>3
    <3>2. DeclaredIn(o, k - 1) \in Nat
      BY <1>4, <2>1
    <3>3. DeclaredIn(o, k) = Cardinality(D(k)) /\ DeclaredIn(o, k - 1) = Cardinality(D(k - 1))
      BY <1>3
    <3> HIDE DEF D
    <3>4. QED
      BY <2>3, <3>1, <3>2, <3>3
  <2>4. QED
    BY <2>2, <2>3
<1>8. QED
  BY <1>4, <1>5, <1>6, <1>7

\* While Start runs, c.topology.Endpoints ends with what the setups up to here
\* declared, and begins with what earlier Starts left.
TopoInv ==
  /\ phase # "idle" => calls > 0
  /\ calls = 0 => endpoints = <<>>
  /\ phase # "idle" \/ started =>
       /\ DeclaredIn(opts, at - 1) <= Len(endpoints)
       /\ \A k \in DOMAIN opts : k < at /\ opts[k].do \in Endpoints =>
            endpoints[Len(endpoints) - DeclaredIn(opts, at - 1) + DeclaredIn(opts, k)] = opts[k]
       /\ calls = 1 => Len(endpoints) = DeclaredIn(opts, at - 1)

\* A setup appends the endpoint it declares, if any.
LEMMA TopoDone ==
  ASSUME TypeOK, Phases, TopoInv, NEW s, Running(s), Done(s)
  PROVE  TopoInv'
<1> DEFINE D(k) == DeclaredIn(opts, k)
           len  == Len(endpoints)
<1>1. /\ opts' = opts /\ calls' = calls /\ phase' = phase /\ started' = started
      /\ at' = at + 1 /\ phase = "setup" /\ at \in DOMAIN opts /\ s = opts[at]
      /\ endpoints' = IF s.do \in Endpoints THEN Append(endpoints, s) ELSE endpoints
  BY RunningSetup DEF Running, Done
<1>2. opts \in Seq(Setup) /\ at \in Nat /\ at >= 1 /\ len \in Nat /\ DOMAIN opts = 1..Len(opts)
      /\ Len(opts) \in Nat
  BY <1>1, ScriptFields DEF TypeOK
<1>3. /\ D(at) = D(at - 1) + IF s.do \in Endpoints THEN 1 ELSE 0
      /\ D(at) \in Nat /\ D(at - 1) \in Nat
  <2>1. at - 1 \in Nat
    BY <1>2
  <2>2. D(at) \in Nat /\ D(at - 1) \in Nat
    BY <1>2, <2>1, Counting
  <2>3. D(at) = D(at - 1) + IF opts[at].do \in Endpoints THEN 1 ELSE 0
    BY <1>1, <1>2, Counting
  <2>4. QED
    BY <1>1, <2>2, <2>3
<1>4. /\ D(at - 1) <= len
      /\ \A k \in DOMAIN opts : k < at /\ opts[k].do \in Endpoints =>
                                endpoints[len - D(at - 1) + D(k)] = opts[k]
      /\ calls = 1 => len = D(at - 1)
  BY <1>1 DEF TopoInv
<1>5. calls > 0 /\ calls \in Nat
  BY <1>1, BoundsOK DEF TopoInv, TypeOK
<1>6. at' - 1 = at
  BY <1>1, <1>2
<1>7. \A k \in DOMAIN opts : k < at' => k < at \/ k = at
  BY <1>1, <1>2
<1>8. \A k \in DOMAIN opts : k < at /\ opts[k].do \in Endpoints =>
                            D(k) \in Nat /\ 1 <= D(k) /\ D(k) <= D(at - 1)
  <2> SUFFICES ASSUME NEW k \in DOMAIN opts, k < at, opts[k].do \in Endpoints
               PROVE  D(k) \in Nat /\ 1 <= D(k) /\ D(k) <= D(at - 1)
    OBVIOUS
  <2>1. k \in Nat /\ k - 1 \in Nat /\ at - 1 \in Nat /\ k <= at - 1
    BY <1>2
  <2>2. D(k) = D(k - 1) + 1 /\ D(k - 1) \in Nat /\ D(k) <= D(at - 1)
    BY <1>2, <2>1, Counting
  <2>3. QED
    BY <2>2
<1> HIDE DEF D
<1>9. CASE s.do \in Endpoints
  <2>1. /\ Len(endpoints') = len + 1 /\ endpoints'[len + 1] = s
        /\ \A i \in 1..len : endpoints'[i] = endpoints[i]
    BY <1>1, <1>9 DEF TypeOK
  <2>2. \A k \in DOMAIN opts : k < at' /\ opts[k].do \in Endpoints =>
                              endpoints'[Len(endpoints') - D(at) + D(k)] = opts[k]
    <3> SUFFICES ASSUME NEW k \in DOMAIN opts, k < at', opts[k].do \in Endpoints
                 PROVE  endpoints'[Len(endpoints') - D(at) + D(k)] = opts[k]
      OBVIOUS
    <3>1. Len(endpoints') - D(at) = len - D(at - 1)
      BY <1>2, <1>3, <1>9, <2>1
    <3>2. CASE k < at
      <4>1. len - D(at - 1) + D(k) \in 1..len
        BY <1>2, <1>3, <1>4, <1>8, <3>2
      <4>2. QED
        BY <1>4, <2>1, <3>1, <3>2, <4>1
    <3>3. CASE k = at
      <4>1. len - D(at - 1) + D(k) = len + 1
        BY <1>2, <1>3, <1>9, <3>3
      <4>2. QED
        BY <1>1, <2>1, <3>1, <3>3, <4>1
    <3>4. QED
      BY <1>7, <3>2, <3>3
  <2>3. D(at) <= Len(endpoints') /\ (calls = 1 => Len(endpoints') = D(at))
    BY <1>2, <1>3, <1>4, <1>9, <2>1
  <2>4. /\ DeclaredIn(opts', at' - 1) = D(at) /\ \A k : DeclaredIn(opts', k) = D(k)
        /\ opts' = opts /\ phase' = phase /\ calls' = calls
    BY <1>1, <1>6 DEF D
  <2>5. \A k \in DOMAIN opts' : k < at' /\ opts'[k].do \in Endpoints =>
          endpoints'[Len(endpoints') - DeclaredIn(opts', at' - 1) + DeclaredIn(opts', k)]
            = opts'[k]
    BY <2>2, <2>4
  <2>6. /\ calls' > 0 /\ calls' # 0
        /\ DeclaredIn(opts', at' - 1) <= Len(endpoints')
        /\ calls' = 1 => Len(endpoints') = DeclaredIn(opts', at' - 1)
    BY <1>5, <2>3, <2>4
  <2>7. QED
    BY <2>5, <2>6 DEF TopoInv
<1>10. CASE s.do \notin Endpoints
  <2>1. endpoints' = endpoints /\ D(at) = D(at - 1)
    BY <1>1, <1>3, <1>10
  <2>2. QED
    BY <1>1, <1>4, <1>5, <1>6, <1>7, <1>10, <2>1 DEF TopoInv, D
<1>11. QED
  BY <1>9, <1>10

\* Nothing but the setups touches the topology.
LEMMA TopoStep == ASSUME TypeOK, Phases, TopoInv, [Next]_vars PROVE TopoInv'
<1>0. opts' = opts
  BY ScriptKept
<1>1. CASE StartCall
  <2>1. /\ at' = 1 /\ calls' = calls + 1 /\ calls \in Nat /\ endpoints' = endpoints
        /\ at' - 1 = 0
    BY <1>1, BoundsOK DEF StartCall, connVars, TypeOK
  <2>2. DeclaredIn(opts, 0) = 0 /\ Len(endpoints) \in Nat
    BY ScriptFields, Counting DEF TypeOK
  <2>3. \A k \in DOMAIN opts : ~(k < 1)
    BY ScriptFields
  <2>4. calls' = 1 => Len(endpoints) = 0
    BY <2>1 DEF TopoInv
  <2>5. QED
    BY <1>0, <2>1, <2>2, <2>3, <2>4 DEF TopoInv
<1>2. ASSUME NEW s, RunSetup(s) PROVE TopoInv'
  <2>1. Running(s) /\ (Done(s) \/ (Abort /\ endpoints' = endpoints))
    BY <1>2, SetupStep DEF Performed, connVars
  <2>2. CASE Done(s)
    BY <2>1, <2>2, TopoDone
  <2>3. CASE Abort /\ endpoints' = endpoints
    BY <2>1, <2>3 DEF Abort, Running, TopoInv, Phases
  <2>4. QED
    BY <2>1, <2>2, <2>3
<1>3. CASE SetupsDone
  BY <1>0, <1>3 DEF SetupsDone, connVars, TopoInv
<1>4. ASSUME NEW k \in DOMAIN pending, LaunchGroup(k) PROVE TopoInv'
  BY <1>0, <1>4 DEF LaunchGroup, TopoInv
<1>5. ASSUME NEW k \in DOMAIN pending, LaunchFails(k) PROVE TopoInv'
  BY <1>5 DEF LaunchFails, Abort, connVars, TopoInv, Phases
<1>6. CASE LaunchDone
  BY <1>0, <1>6 DEF LaunchDone, TopoInv
<1>7. CASE Close
  BY <1>0, <1>7 DEF Close, TopoInv
<1>8. CASE DrainDone \/ UNCHANGED vars
  BY <1>8 DEF DrainDone, vars, connVars, TopoInv
<1>9. QED
  BY <1>1, <1>2, <1>3, <1>4, <1>5, <1>6, <1>7, <1>8 DEF Next

\* A started or collected topology ends with the endpoints of the setups, each
\* once and in order, and is nothing else unless an earlier Start failed.
THEOREM TopologyOfSetups == Spec => []TopologyIsDeclared
<1>1. Init => TopoInv
  BY DEF Init, TopoInv
<1>2. TypeOK /\ Phases /\ TopoInv /\ [Next]_vars => TopoInv'
  BY TopoStep
<1>3. TypeOK /\ Phases /\ TopoInv => TopologyIsDeclared
  <2> SUFFICES ASSUME TypeOK, Phases, TopoInv, started
               PROVE  LET before == Len(endpoints) - Declared(Len(opts)) IN
                      /\ before >= 0
                      /\ \A k \in DOMAIN opts :
                           opts[k].do \in Endpoints => endpoints[before + Declared(k)] = opts[k]
                      /\ calls = 1 => before = 0
    BY DEF TopologyIsDeclared
  <2>1. \A k : Declared(k) = DeclaredIn(opts, k)
    BY DEF Declared, DeclaredIn
  <2>2. Len(opts) \in Nat /\ DOMAIN opts = 1..Len(opts) /\ Len(endpoints) \in Nat
    BY ScriptFields DEF TypeOK
  <2>3. at - 1 = Len(opts) /\ \A k \in DOMAIN opts : k < at
    BY <2>2 DEF Phases
  <2>4. DeclaredIn(opts, Len(opts)) \in Nat
    BY <2>2, ScriptFields, Counting
  <2>5. QED
    BY <2>1, <2>2, <2>3, <2>4 DEF TopoInv
<1>4. QED
  BY <1>1, <1>2, <1>3, PhasesHold, PTL DEF Spec
-----------------------------------------------------------------------------
(* Where a Publisher's messages go *)

IsWiring(s, p) == s.do \in {"publish", "request"} /\ s.pub = p

\* Setup k is the last one before n that wires Publisher p.
LastWiring(o, k, p, n) ==
  /\ k \in DOMAIN o /\ k < n /\ IsWiring(o[k], p)
  /\ \A j \in DOMAIN o : j < n /\ IsWiring(o[j], p) => j <= k

\* A Publisher with fields w sends where setup s says.
Goes(w, s) ==
  /\ (w.fn.timeout > 0) = (s.do = "request")
  /\ w.stream = IF s.do = "publish" THEN s.stream ELSE s.target
  /\ s.do = "request" => w.subjectFn = s.target

\* Every Publisher follows the last setup that has run, and has request
\* subjects only if some setup of the list gives them.
PubInv ==
  /\ Active => \A p \in Publishers : \A k \in DOMAIN opts :
                 LastWiring(opts, k, p, at) => Goes(wired[p], opts[k])
  /\ \A p \in Publishers : wired[p].subjectFn # None =>
       \E k \in DOMAIN opts : opts[k].do = "request" /\ opts[k].pub = p

\* A setup that wires a Publisher, and what it leaves alone.
LEMMA WiresEffect ==
  ASSUME TypeOK, NEW s \in Setup, Performed(s), NEW p \in Publishers
  PROVE  /\ ~IsWiring(s, p) => wired'[p] = wired[p]
         /\ IsWiring(s, p) /\ ~collectMode => Goes(wired'[p], s)
         /\ IsWiring(s, p) => wired'[p].subjectFn = IF s.do = "request" THEN s.target
                                                   ELSE wired[p].subjectFn
<1>1. CASE s.do \notin {"publish", "request"}
  BY <1>1 DEF Performed, IsWiring
<1>2. CASE s.do \in {"publish", "request"}
  <2>1. Wires(s) /\ s.pub \in Publishers
    BY <1>2, SetupFields DEF Performed
  <2>2. conf.timeout \in Nat /\ wired \in [Publishers -> Wiring]
    BY DEF TypeOK, Conf
  <2>3. s.pub # p => wired'[p] = wired[p]
    BY <2>1, <2>2 DEF Wires
  <2>4. CASE s.pub = p
    <3> DEFINE t == IF s.do = "publish" THEN 0 ELSE IF conf.timeout = 0 THEN 30 ELSE conf.timeout
    <3>1. /\ wired'[p].subjectFn = IF s.do = "publish" THEN wired[p].subjectFn ELSE s.target
          /\ wired'[p].stream = IF s.do = "publish" THEN s.stream ELSE s.target
          /\ ~collectMode => wired'[p].fn.timeout = t
      BY <2>1, <2>2, <2>4 DEF Wires
    <3>2. t \in Nat /\ (t > 0 <=> s.do = "request")
      BY <1>2, <2>2
    <3> HIDE DEF t
    <3>3. ~collectMode => (wired'[p].fn.timeout > 0) = (s.do = "request")
      BY <3>1, <3>2
    <3>4. QED
      BY <1>2, <2>4, <3>1, <3>3 DEF IsWiring, Goes
  <2>5. QED
    BY <2>3, <2>4 DEF IsWiring
<1>3. QED
  BY <1>1, <1>2

\* A setup rewires its own Publisher and no other.
LEMMA PubDone ==
  ASSUME TypeOK, Phases, PubInv, NEW s, Running(s), Performed(s)
  PROVE  PubInv'
<1>1. /\ opts' = opts /\ collectMode' = collectMode /\ phase = "setup" /\ phase' = phase
      /\ started' = started /\ closes' = closes /\ at' = at + 1
      /\ at \in DOMAIN opts /\ s = opts[at] /\ s \in Setup
  BY RunningSetup DEF Running, Performed, Done
<1>2. at \in Nat /\ \A k \in DOMAIN opts : k \in Nat /\ (k < at' => k < at \/ k = at)
  BY <1>1, ScriptFields
<1>3. ASSUME NEW p \in Publishers, NEW k \in DOMAIN opts, Active,
             LastWiring(opts, k, p, at'), ~collectMode
      PROVE  Goes(wired'[p], opts[k])
  <2>1. CASE IsWiring(s, p)
    <3>1. k = at
      BY <1>1, <1>2, <1>3, <2>1 DEF LastWiring
    <3>2. QED
      BY <1>1, <1>3, <2>1, <3>1, WiresEffect
  <2>2. CASE ~IsWiring(s, p)
    <3>1. LastWiring(opts, k, p, at)
      BY <1>1, <1>2, <1>3, <2>2 DEF LastWiring
    <3>2. wired'[p] = wired[p]
      BY <1>1, <2>2, WiresEffect
    <3>3. QED
      BY <1>3, <3>1, <3>2 DEF PubInv
  <2>3. QED
    BY <2>1, <2>2
<1>4. ASSUME NEW p \in Publishers, wired'[p].subjectFn # None
      PROVE  \E k \in DOMAIN opts : opts[k].do = "request" /\ opts[k].pub = p
  <2>1. CASE IsWiring(s, p) /\ s.do = "request"
    BY <1>1, <2>1 DEF IsWiring
  <2>2. CASE ~(IsWiring(s, p) /\ s.do = "request")
    <3>1. wired'[p].subjectFn = wired[p].subjectFn
      BY <1>1, <2>2, WiresEffect
    <3>2. QED
      BY <1>4, <3>1 DEF PubInv
  <2>3. QED
    BY <2>1, <2>2
<1>5. Active' <=> Active
  BY <1>1 DEF Active
<1>6. Active => ~collectMode
  BY DEF Active
<1>7. QED
  BY <1>1, <1>3, <1>4, <1>5, <1>6 DEF PubInv

\* Nothing but the setups wires a Publisher.
LEMMA PubStep == ASSUME TypeOK, Phases, PubInv, [Next]_vars PROVE PubInv'
<1>0. opts' = opts /\ collectMode' = collectMode
  BY ScriptKept
<1>1. CASE StartCall
  <2>1. at' = 1 /\ wired' = wired
    BY <1>1 DEF StartCall, connVars
  <2>2. \A j \in DOMAIN opts : ~(j < 1)
    BY ScriptFields
  <2>3. QED
    BY <1>0, <2>1, <2>2 DEF PubInv, LastWiring
<1>2. ASSUME NEW s, RunSetup(s) PROVE PubInv'
  <2>1. Running(s) /\ ~started
    BY <1>2, SetupStep DEF Phases
  <2>2. CASE Performed(s)
    BY <2>1, <2>2, PubDone
  <2>3. CASE Abort /\ UNCHANGED connVars
    BY <1>0, <2>1, <2>3 DEF Abort, connVars, PubInv, Active
  <2>4. QED
    BY <1>2, <2>2, <2>3, SetupStep
<1>3. CASE SetupsDone
  BY <1>0, <1>3 DEF SetupsDone, connVars, PubInv, Active
<1>4. ASSUME NEW k \in DOMAIN pending, LaunchGroup(k) PROVE PubInv'
  BY <1>0, <1>4 DEF LaunchGroup, PubInv, Active
<1>5. ASSUME NEW k \in DOMAIN pending, LaunchFails(k) PROVE PubInv'
  BY <1>0, <1>5 DEF LaunchFails, Abort, connVars, PubInv, Active, Phases
<1>6. CASE LaunchDone
  BY <1>0, <1>6 DEF LaunchDone, PubInv, Active
<1>7. CASE Close
  BY <1>0, <1>7 DEF Close, PubInv, Active
<1>8. CASE DrainDone \/ UNCHANGED vars
  BY <1>8 DEF DrainDone, vars, connVars, PubInv, Active
<1>9. QED
  BY <1>1, <1>2, <1>3, <1>4, <1>5, <1>6, <1>7, <1>8 DEF Next

\* On a started connection a Publisher sends where the last setup that wires it
\* says, and has no request subjects if no setup gives it some.
THEOREM PublishersFollowSetups == Spec => []PublisherGoesWhereWired
<1>1. Init => PubInv
  BY DEF Init, PubInv, Active, Unwired
<1>2. TypeOK /\ Phases /\ PubInv /\ [Next]_vars => PubInv'
  BY PubStep
<1>3. TypeOK /\ Phases /\ PubInv => PublisherGoesWhereWired
  <2> SUFFICES ASSUME TypeOK, Phases, PubInv, Up, NEW p \in Publishers,
                      NEW k \in DOMAIN opts, IsLast(k, WiringOf(p))
               PROVE  /\ Goes(wired[p], opts[k])
                      /\ (\A j \in WiringOf(p) : opts[j].do = "publish") =>
                           wired[p].subjectFn = None
    BY DEF PublisherGoesWhereWired, Goes
  <2>1. Active /\ \A j \in DOMAIN opts : j < at
    BY ScriptFields DEF Up, Active, Phases
  <2>2. LastWiring(opts, k, p, at)
    BY <2>1 DEF IsLast, WiringOf, LastWiring, IsWiring
  <2>3. wired[p].subjectFn # None => \E j \in WiringOf(p) : opts[j].do = "request"
    BY DEF PubInv, WiringOf
  <2>4. QED
    BY <2>1, <2>2, <2>3 DEF PubInv
<1>4. QED
  BY <1>1, <1>2, <1>3, PhasesHold, PTL DEF Spec
-----------------------------------------------------------------------------
(* The settings *)

\* v is what the last place of f before n holds, if there is one.
LatestIs(f, n, v) ==
  (\E j \in DOMAIN f : j < n) =>
    \E k \in DOMAIN f : /\ k < n /\ v = f[k]
                        /\ \A j \in DOMAIN f : j < n => j <= k

\* One place more.
LEMMA LatestStep ==
  ASSUME NEW f, DOMAIN f \subseteq Nat, NEW n \in Nat, NEW v, NEW w, LatestIs(f, n, v),
         n \in DOMAIN f => w = f[n], n \notin DOMAIN f => w = v
  PROVE  LatestIs(f, n + 1, w)
<1>1. \A j \in DOMAIN f : j \in Nat /\ (j < n + 1 <=> j < n \/ j = n)
  OBVIOUS
<1>2. CASE n \in DOMAIN f
  <2>1. \A j \in DOMAIN f : j < n + 1 => j <= n
    BY <1>1
  <2>2. QED
    BY <1>1, <1>2, <2>1 DEF LatestIs
<1>3. CASE n \notin DOMAIN f
  <2>1. \A j \in DOMAIN f : j < n + 1 <=> j < n
    BY <1>1, <1>3
  <2>2. QED
    BY <1>3, <2>1 DEF LatestIs
<1>4. QED
  BY <1>2, <1>3

\* The settings in the script, by their places.
Maxes     == [k \in Places("consumerDefaults") |-> opts[k].max]
BackOffs  == [k \in Places("consumerDefaults") |-> opts[k].backOff]
Limits    == [k \in Places("streamDefaults") |-> opts[k].limit]
OwnLimits(s) == [k \in {j \in Places("streamConfig") : opts[j].stream = s} |-> opts[k].limit]

\* The Connection holds the settings that have run, and nothing the script does
\* not have.
ConfInv ==
  /\ phase # "idle" \/ started =>
       /\ LatestIs(Maxes, at, conf.maxDeliver)
       /\ LatestIs(BackOffs, at, conf.backOff)
       /\ LatestIs(Limits, at, conf.limit)
       /\ \A s \in Streams : LatestIs(OwnLimits(s), at, conf.overrides[s])
       /\ \A j \in Places("observe") : j < at => opts[j].what \in conf.observed
  /\ Places("streamDefaults") = {} => conf.limit = 0
  /\ \A s \in Streams : (\A j \in Places("streamConfig") : opts[j].stream # s) =>
                         conf.overrides[s] = NoLimit
  /\ \A w \in conf.observed : \E j \in Places("observe") : opts[j].what = w

\* What a setup does to the settings.
LEMMA ConfEffect ==
  ASSUME TypeOK, NEW s \in Setup, Performed(s)
  PROVE  /\ conf'.maxDeliver = IF s.do = "consumerDefaults" THEN s.max ELSE conf.maxDeliver
         /\ conf'.backOff = IF s.do = "consumerDefaults" THEN s.backOff ELSE conf.backOff
         /\ conf'.limit = IF s.do = "streamDefaults" THEN s.limit ELSE conf.limit
         /\ \A t \in Streams : conf'.overrides[t] =
              IF s.do = "streamConfig" /\ s.stream = t THEN s.limit ELSE conf.overrides[t]
         /\ conf'.observed = IF s.do = "observe" THEN conf.observed \cup {s.what}
                             ELSE conf.observed
<1>0. conf \in Conf
  BY DEF TypeOK
<1>1. CASE s.do \notin Settings
  BY <1>1 DEF Performed, Configure, Settings
<1>2. CASE s.do = "consumerDefaults"
  BY <1>0, <1>2 DEF Performed, Configure, Settings, Conf
<1>3. CASE s.do = "streamDefaults"
  BY <1>0, <1>3 DEF Performed, Configure, Settings, Conf
<1>4. CASE s.do = "streamConfig"
  <2>1. conf' = [conf EXCEPT !.overrides[s.stream] = s.limit]
    BY <1>4 DEF Performed, Configure, Settings
  <2>2. QED
    BY <1>0, <1>4, <2>1 DEF Conf
<1>5. CASE s.do = "requestTimeout"
  BY <1>0, <1>5 DEF Performed, Configure, Settings, Conf
<1>6. CASE s.do = "observe"
  BY <1>0, <1>6 DEF Performed, Configure, Settings, Conf
<1>7. QED
  BY <1>1, <1>2, <1>3, <1>4, <1>5, <1>6 DEF Settings

\* A setup changes its own setting and no other.
LEMMA ConfDone ==
  ASSUME TypeOK, Phases, ConfInv, NEW s, Running(s), Performed(s)
  PROVE  ConfInv'
<1>1. /\ opts' = opts /\ phase = "setup" /\ at' = at + 1
      /\ at \in DOMAIN opts /\ s = opts[at] /\ s \in Setup
  BY RunningSetup DEF Running, Performed, Done
<1>2. at \in Nat /\ DOMAIN opts \subseteq Nat
  BY <1>1, ScriptFields
<1>3. /\ \A k : Places(k)' = Places(k)
      /\ \A k : at \in Places(k) <=> s.do = k
      /\ \A k : Places(k) \subseteq Nat
  BY <1>1, <1>2 DEF Places
<1>4. Maxes' = Maxes /\ BackOffs' = BackOffs /\ Limits' = Limits
      /\ \A t : OwnLimits(t)' = OwnLimits(t)
  BY <1>1 DEF Maxes, BackOffs, Limits, OwnLimits, Places
<1>5. LatestIs(Maxes, at + 1, conf'.maxDeliver)
  <2>1. /\ DOMAIN Maxes = Places("consumerDefaults") /\ LatestIs(Maxes, at, conf.maxDeliver)
        /\ \A k \in DOMAIN Maxes : Maxes[k] = opts[k].max
    BY <1>1 DEF Maxes, ConfInv
  <2>2. /\ at \in DOMAIN Maxes => conf'.maxDeliver = Maxes[at]
        /\ at \notin DOMAIN Maxes => conf'.maxDeliver = conf.maxDeliver
    BY <1>1, <1>3, <2>1, ConfEffect
  <2>3. QED
    BY <1>2, <1>3, <2>1, <2>2, LatestStep
<1>6. LatestIs(BackOffs, at + 1, conf'.backOff)
  <2>1. /\ DOMAIN BackOffs = Places("consumerDefaults") /\ LatestIs(BackOffs, at, conf.backOff)
        /\ \A k \in DOMAIN BackOffs : BackOffs[k] = opts[k].backOff
    BY <1>1 DEF BackOffs, ConfInv
  <2>2. /\ at \in DOMAIN BackOffs => conf'.backOff = BackOffs[at]
        /\ at \notin DOMAIN BackOffs => conf'.backOff = conf.backOff
    BY <1>1, <1>3, <2>1, ConfEffect
  <2>3. QED
    BY <1>2, <1>3, <2>1, <2>2, LatestStep
<1>7. LatestIs(Limits, at + 1, conf'.limit)
  <2>1. /\ DOMAIN Limits = Places("streamDefaults") /\ LatestIs(Limits, at, conf.limit)
        /\ \A k \in DOMAIN Limits : Limits[k] = opts[k].limit
    BY <1>1 DEF Limits, ConfInv
  <2>2. /\ at \in DOMAIN Limits => conf'.limit = Limits[at]
        /\ at \notin DOMAIN Limits => conf'.limit = conf.limit
    BY <1>1, <1>3, <2>1, ConfEffect
  <2>3. QED
    BY <1>2, <1>3, <2>1, <2>2, LatestStep
<1>8. ASSUME NEW t \in Streams PROVE LatestIs(OwnLimits(t), at + 1, conf'.overrides[t])
  <2> DEFINE f == OwnLimits(t)
  <2>1. /\ DOMAIN f = {j \in Places("streamConfig") : opts[j].stream = t}
        /\ LatestIs(f, at, conf.overrides[t])
        /\ \A k \in DOMAIN f : f[k] = opts[k].limit
    BY <1>1, <1>8 DEF OwnLimits, ConfInv
  <2>2. /\ at \in DOMAIN f => conf'.overrides[t] = f[at]
        /\ at \notin DOMAIN f => conf'.overrides[t] = conf.overrides[t]
    <3>1. at \in DOMAIN f <=> s.do = "streamConfig" /\ s.stream = t
      BY <1>1, <1>3, <2>1
    <3>2. conf'.overrides[t] = IF s.do = "streamConfig" /\ s.stream = t THEN s.limit
                               ELSE conf.overrides[t]
      BY <1>1, <1>8, ConfEffect
    <3>3. at \in DOMAIN f => f[at] = s.limit
      BY <1>1, <2>1
    <3> HIDE DEF f
    <3>4. QED
      BY <3>1, <3>2, <3>3
  <2>3. DOMAIN f \subseteq Nat
    BY <1>3, <2>1
  <2> HIDE DEF f
  <2>4. LatestIs(f, at + 1, conf'.overrides[t])
    BY <1>2, <2>1, <2>2, <2>3, LatestStep
  <2>5. QED
    BY <2>4 DEF f
<1>9. \A j \in Places("observe") : j < at + 1 => opts[j].what \in conf'.observed
  <2> SUFFICES ASSUME NEW j \in Places("observe"), j < at + 1
               PROVE  opts[j].what \in conf'.observed
    OBVIOUS
  <2>1. j < at \/ j = at
    BY <1>2, <1>3
  <2>2. CASE j < at
    BY <1>1, <2>2, ConfEffect DEF ConfInv
  <2>3. CASE j = at
    BY <1>1, <1>3, <2>3, ConfEffect
  <2>4. QED
    BY <2>1, <2>2, <2>3
<1>10. Places("streamDefaults") = {} => conf'.limit = 0
  BY <1>1, <1>3, ConfEffect DEF ConfInv
<1>11. ASSUME NEW t \in Streams, \A j \in Places("streamConfig") : opts[j].stream # t
       PROVE  conf'.overrides[t] = NoLimit
  <2>1. ~(s.do = "streamConfig" /\ s.stream = t)
    BY <1>1, <1>3, <1>11
  <2>2. QED
    BY <1>1, <1>11, <2>1, ConfEffect DEF ConfInv
<1>12. ASSUME NEW w \in conf'.observed PROVE \E j \in Places("observe") : opts[j].what = w
  <2>1. CASE w \in conf.observed
    BY <2>1 DEF ConfInv
  <2>2. CASE w \notin conf.observed
    <3>1. s.do = "observe" /\ w = s.what
      <4>1. conf'.observed = IF s.do = "observe" THEN conf.observed \cup {s.what}
                             ELSE conf.observed
        BY <1>1, ConfEffect
      <4>2. QED
        BY <1>12, <2>2, <4>1
    <3>2. QED
      BY <1>1, <1>3, <3>1
  <2>3. QED
    BY <2>1, <2>2
<1>13. QED
  BY <1>1, <1>3, <1>4, <1>5, <1>6, <1>7, <1>8, <1>9, <1>10, <1>11, <1>12 DEF ConfInv

\* Nothing but the setups changes the settings.
LEMMA ConfKept ==
  ASSUME ConfInv, opts' = opts, conf' = conf,
         at' = at, phase' # "idle" \/ started' => phase # "idle" \/ started
  PROVE  ConfInv'
  BY DEF ConfInv, Places, Maxes, BackOffs, Limits, OwnLimits

\* The settings are those of the setups that have run.
LEMMA ConfStep == ASSUME TypeOK, Phases, ConfInv, [Next]_vars PROVE ConfInv'
<1>0. opts' = opts
  BY ScriptKept
<1>1. CASE StartCall
  <2>1. at' = 1 /\ conf' = conf
    BY <1>1 DEF StartCall, connVars
  <2>2. \A j \in DOMAIN opts : ~(j < 1)
    BY ScriptFields
  <2>3. \A k : Places(k)' = Places(k) /\ Places(k) \subseteq DOMAIN opts
    BY <1>0 DEF Places
  <2>4. /\ LatestIs(Maxes', 1, conf.maxDeliver) /\ LatestIs(BackOffs', 1, conf.backOff)
        /\ LatestIs(Limits', 1, conf.limit)
        /\ \A s \in Streams : LatestIs(OwnLimits(s)', 1, conf.overrides[s])
    BY <1>0, <2>2, <2>3 DEF LatestIs, Maxes, BackOffs, Limits, OwnLimits
  <2>5. QED
    BY <1>0, <2>1, <2>2, <2>3, <2>4 DEF ConfInv
<1>2. ASSUME NEW s, RunSetup(s) PROVE ConfInv'
  <2>1. Running(s) /\ ~started
    BY <1>2, SetupStep DEF Phases
  <2>2. CASE Performed(s)
    BY <2>1, <2>2, ConfDone
  <2>3. CASE Abort /\ UNCHANGED connVars
    BY <1>0, <2>1, <2>3, ConfKept DEF Abort, connVars
  <2>4. QED
    BY <1>2, <2>2, <2>3, SetupStep
<1>3. CASE SetupsDone
  BY <1>0, <1>3, ConfKept DEF SetupsDone, connVars
<1>4. ASSUME NEW k \in DOMAIN pending, LaunchGroup(k) PROVE ConfInv'
  BY <1>0, <1>4, ConfKept DEF LaunchGroup
<1>5. ASSUME NEW k \in DOMAIN pending, LaunchFails(k) PROVE ConfInv'
  BY <1>0, <1>5, ConfKept DEF LaunchFails, Abort, connVars
<1>6. CASE LaunchDone
  BY <1>0, <1>6, ConfKept DEF LaunchDone
<1>7. CASE Close
  BY <1>0, <1>7, ConfKept DEF Close
<1>8. CASE DrainDone \/ UNCHANGED vars
  BY <1>8, ConfKept DEF DrainDone, vars, connVars
<1>9. QED
  BY <1>1, <1>2, <1>3, <1>4, <1>5, <1>6, <1>7, <1>8 DEF Next

\* What the consumers of this connection were made with: the settings of the
\* Connection, and the options of one registration of their group.
OptionsOf(h, c) ==
  /\ ReadsFor(h, c)
  /\ h.maxDeliver = MaxDeliverOf(c)
  /\ h.backOff = BackOffOf(c)
OptionsInv ==
  phase = "launch" \/ Up =>
    \A k \in Own : /\ consumers[k].observed = conf.observed
                   /\ streams[consumers[k].stream] = LimitOf(consumers[k].stream)
                   /\ \E c \in Given({"consume"}) : OptionsOf(consumers[k], c)

\* A launch gives a consumer the settings, and nothing changes them after it.
LEMMA OptionsStep == ASSUME TypeOK, Phases, OptionsInv, [Next]_vars PROVE OptionsInv'
<1>0. /\ opts' = opts /\ collectMode' = collectMode
      /\ Given({"consume"})' = Given({"consume"})
  BY ScriptKept
<1>1. CASE StartCall
  BY <1>1 DEF StartCall, OptionsInv, Up
<1>2. ASSUME NEW s, RunSetup(s) PROVE OptionsInv'
  <2>1. phase = "setup" /\ ~started
    BY <1>2, SetupStep DEF Phases
  <2>2. started' = started /\ (phase' = phase \/ phase' = "idle")
    BY <1>2, SetupStep DEF Performed, Done, Abort
  <2>3. QED
    BY <2>1, <2>2 DEF OptionsInv, Up
<1>3. CASE SetupsDone
  <2>1. Own' = {}
    BY <1>3 DEF SetupsDone, connVars, Own, Phases
  <2>2. QED
    BY <2>1 DEF OptionsInv
<1>4. ASSUME NEW k \in DOMAIN pending, LaunchGroup(k) PROVE OptionsInv'
  <2> DEFINE n == Len(consumers) + 1
             h == ConsumerOf(pending[k])
  <2>1. /\ phase = "launch" /\ conf' = conf /\ streams' = Ensured(pending[k].stream)
    BY <1>4 DEF LaunchGroup
  <2>2. /\ Own' = Own \cup {n}
        /\ \A j \in Own : consumers'[j] = consumers[j] /\ consumers[j] \in Consumer
        /\ consumers'[n] = h
    BY <1>4, LaunchAdds DEF Own, TypeOK
  <2>3. \A t \in Streams : streams'[t] = IF t = pending[k].stream THEN LimitOf(t) ELSE streams[t]
    BY <2>1, GroupType DEF Ensured, TypeOK
  <2>4. /\ h.observed = conf.observed /\ h.stream = pending[k].stream /\ h.stream \in Streams
        /\ pending[k] \in Given({"consume"}) /\ OptionsOf(h, pending[k])
    BY GroupType DEF ConsumerOf, OptionsOf, ReadsFor, TypeOK
  <2> HIDE DEF n, h
  <2>5. /\ \A t : LimitOf(t)' = LimitOf(t)
        /\ \A g, c : OptionsOf(g, c)' <=> OptionsOf(g, c)
    BY <2>1 DEF LimitOf, OptionsOf, MaxDeliverOf, BackOffOf
  <2>6. ASSUME NEW j \in Own'
        PROVE  /\ consumers'[j].observed = conf.observed
               /\ streams'[consumers'[j].stream] = LimitOf(consumers'[j].stream)
               /\ \E c \in Given({"consume"}) : OptionsOf(consumers'[j], c)
    <3>1. CASE j = n
      BY <2>2, <2>3, <2>4, <3>1
    <3>2. CASE j \in Own
      <4>1. consumers'[j] = consumers[j] /\ consumers[j].stream \in Streams
        BY <2>2, <3>2 DEF Consumer
      <4>2. /\ consumers[j].observed = conf.observed
            /\ streams[consumers[j].stream] = LimitOf(consumers[j].stream)
            /\ \E c \in Given({"consume"}) : OptionsOf(consumers[j], c)
        BY <2>1, <3>2 DEF OptionsInv
      <4>3. QED
        BY <2>3, <4>1, <4>2
    <3>3. QED
      BY <2>2, <2>6, <3>1, <3>2
  <2>7. QED
    BY <1>0, <2>1, <2>6 DEF OptionsInv, LimitOf, OptionsOf, MaxDeliverOf, BackOffOf
<1>5. ASSUME NEW k \in DOMAIN pending, LaunchFails(k) PROVE OptionsInv'
  BY <1>5 DEF LaunchFails, Abort, OptionsInv, Phases, Up
<1>6. CASE LaunchDone
  BY <1>0, <1>6 DEF LaunchDone, OptionsInv, Own, LimitOf, OptionsOf, MaxDeliverOf, BackOffOf
<1>7. CASE Close
  BY <1>7 DEF Close, OptionsInv, Up
<1>8. CASE DrainDone \/ UNCHANGED vars
  BY <1>0, <1>8 DEF DrainDone, vars, connVars, OptionsInv, Own, Up, LimitOf, OptionsOf,
                    MaxDeliverOf, BackOffOf
<1>9. QED
  BY <1>1, <1>2, <1>3, <1>4, <1>5, <1>6, <1>7, <1>8 DEF Next

\* When Start is done, a stream has the limit that is asked for it.
LEMMA LimitIsAsked ==
  ASSUME TypeOK, Phases, ConfInv, started, NEW s \in Streams
  PROVE  LimitOf(s) = AskedLimit(s)
<1> DEFINE own == {k \in Places("streamConfig") : opts[k].stream = s}
           all == Places("streamDefaults")
<1>1. /\ \A k \in DOMAIN opts : k < at /\ k \in Nat
      /\ own \subseteq DOMAIN opts /\ all \subseteq DOMAIN opts
  BY ScriptFields DEF Phases, Places
<1>2. \A S \in SUBSET DOMAIN opts : \A k, m : IsLast(k, S) /\ IsLast(m, S) => k = m
  BY <1>1 DEF IsLast
<1>3. CASE own # {}
  <2>1. LatestIs(OwnLimits(s), at, conf.overrides[s]) /\ DOMAIN OwnLimits(s) = own
    BY DEF ConfInv, OwnLimits
  <2>2. PICK k \in own : /\ conf.overrides[s] = OwnLimits(s)[k]
                         /\ \A j \in own : j <= k
    BY <1>1, <1>3, <2>1 DEF LatestIs
  <2>3. conf.overrides[s] = opts[k].limit /\ opts[k].limit \in Nat
    <3>1. opts[k] \in Setup /\ opts[k].do = "streamConfig"
      BY <1>1, ScriptFields DEF Places
    <3>2. QED
      BY <2>2, <3>1, SetupFields DEF OwnLimits
  <2>4. IsLast(k, own)
    BY <2>2 DEF IsLast
  <2>5. (CHOOSE j \in own : IsLast(j, own)) = k
    BY <1>1, <1>2, <2>4
  <2>6. AskedLimit(s) = opts[k].limit
    BY <1>3, <2>5 DEF AskedLimit
  <2>7. QED
    BY <2>3, <2>6 DEF LimitOf, NoLimit
<1>4. CASE own = {} /\ all # {}
  <2>1. LatestIs(Limits, at, conf.limit) /\ DOMAIN Limits = all /\ conf.overrides[s] = NoLimit
    BY <1>4 DEF ConfInv, Limits
  <2>2. PICK k \in all : conf.limit = Limits[k] /\ \A j \in all : j <= k
    BY <1>1, <1>4, <2>1 DEF LatestIs
  <2>3. conf.limit = opts[k].limit /\ IsLast(k, all)
    BY <2>2 DEF Limits, IsLast
  <2>4. (CHOOSE j \in all : IsLast(j, all)) = k
    BY <1>1, <1>2, <2>3
  <2>5. AskedLimit(s) = opts[k].limit
    BY <1>4, <2>4 DEF AskedLimit
  <2>6. QED
    BY <2>1, <2>3, <2>5 DEF LimitOf
<1>5. CASE own = {} /\ all = {}
  <2>1. conf.overrides[s] = NoLimit /\ conf.limit = 0
    BY <1>5 DEF ConfInv
  <2>2. AskedLimit(s) = 0
    BY <1>5 DEF AskedLimit
  <2>3. QED
    BY <2>1, <2>2 DEF LimitOf
<1>6. QED
  BY <1>3, <1>4, <1>5

\* Whatever the order of the setups, a consumer of a started connection has
\* the limits, the delivery defaults and the observers of the whole list.
THEOREM ConsumersGetSettings == Spec => []SettingsReachConsumers
<1>1. Init => ConfInv /\ OptionsInv
  BY DEF Init, ConfInv, OptionsInv, Up, DefaultConf
<1>2. TypeOK /\ Phases /\ ConfInv /\ OptionsInv /\ [Next]_vars => (ConfInv /\ OptionsInv)'
  BY ConfStep, OptionsStep
<1>3. TypeOK /\ Phases /\ ConfInv /\ OptionsInv => SettingsReachConsumers
  <2> SUFFICES ASSUME TypeOK, Phases, ConfInv, OptionsInv, Up,
                      NEW c \in Given({"consume"}), NEW h \in LiveConsumers,
                      ReadsFor(h, c)
               PROVE  LET group == {e \in Given({"consume"}) : ReadsFor(h, e)} IN
                      /\ streams[c.stream] = AskedLimit(c.stream)
                      /\ \A d \in DOMAIN opts : IsLast(d, Places("consumerDefaults")) =>
                           /\ (\A e \in group : e.max = 0) =>
                                h.maxDeliver = IF opts[d].max > 0 THEN opts[d].max ELSE 0
                           /\ (\A e \in group : e.backOff = NotGiven) =>
                                h.backOff = opts[d].backOff
                      /\ group = {c} /\ c.max > 0 => h.maxDeliver = c.max
                      /\ group = {c} /\ c.backOff # NotGiven => h.backOff = c.backOff
                      /\ h.observed = {o.what : o \in Given({"observe"})}
    BY DEF SettingsReachConsumers
  <2> DEFINE group == {e \in Given({"consume"}) : ReadsFor(h, e)}
  <2>1. started /\ \A k \in DOMAIN opts : k < at /\ k \in Nat
    BY ScriptFields DEF Up, Phases
  <2>2. PICK k \in Own : h = consumers[k]
    BY DEF LiveConsumers, Own
  <2>3. /\ h.observed = conf.observed /\ streams[h.stream] = LimitOf(h.stream)
        /\ \E e \in Given({"consume"}) : OptionsOf(h, e)
    BY <2>2 DEF OptionsInv
  <2>4. PICK e \in Given({"consume"}) : OptionsOf(h, e)
    BY <2>3
  <2>5. e \in group /\ e.max \in Int /\ c.stream \in Streams /\ h.stream = c.stream
    <3>1. e \in Setup /\ c \in Setup /\ e.do = "consume" /\ c.do = "consume"
      BY ScriptFields
    <3>2. QED
      BY <2>4, <3>1, SetupFields DEF OptionsOf, ReadsFor
  <2>6. streams[c.stream] = AskedLimit(c.stream)
    BY <2>1, <2>3, <2>5, LimitIsAsked
  <2>7. ASSUME NEW d \in DOMAIN opts, IsLast(d, Places("consumerDefaults"))
        PROVE  /\ conf.maxDeliver = opts[d].max /\ conf.backOff = opts[d].backOff
               /\ conf.maxDeliver \in Int
    <3>1. /\ LatestIs(Maxes, at, conf.maxDeliver) /\ LatestIs(BackOffs, at, conf.backOff)
          /\ DOMAIN Maxes = Places("consumerDefaults")
          /\ DOMAIN BackOffs = Places("consumerDefaults")
          /\ Places("consumerDefaults") \subseteq DOMAIN opts
      BY <2>1 DEF ConfInv, Maxes, BackOffs, Places
    <3>2. d \in Places("consumerDefaults") /\ \A j \in Places("consumerDefaults") : j <= d
      BY <2>7 DEF IsLast
    <3>3. PICK m \in Places("consumerDefaults") : conf.maxDeliver = Maxes[m] /\ d <= m
      BY <2>1, <3>1, <3>2 DEF LatestIs
    <3>4. PICK b \in Places("consumerDefaults") : conf.backOff = BackOffs[b] /\ d <= b
      BY <2>1, <3>1, <3>2 DEF LatestIs
    <3>5. m = d /\ b = d
      BY <2>1, <3>1, <3>2, <3>3, <3>4
    <3>6. QED
      BY <3>3, <3>4, <3>5 DEF Maxes, BackOffs, TypeOK, Conf
  <2>8. ASSUME NEW d \in DOMAIN opts, IsLast(d, Places("consumerDefaults"))
        PROVE  /\ (\A f \in group : f.max = 0) =>
                    h.maxDeliver = IF opts[d].max > 0 THEN opts[d].max ELSE 0
               /\ (\A f \in group : f.backOff = NotGiven) => h.backOff = opts[d].backOff
    BY <2>4, <2>5, <2>7, <2>8 DEF OptionsOf, MaxDeliverOf, BackOffOf
  <2>9. /\ group = {c} /\ c.max > 0 => h.maxDeliver = c.max
        /\ group = {c} /\ c.backOff # NotGiven => h.backOff = c.backOff
    <3>1. group = {c} => e = c
      BY <2>5
    <3>2. QED
      BY <2>4, <3>1 DEF OptionsOf, MaxDeliverOf, BackOffOf
  <2>10. h.observed = {o.what : o \in Given({"observe"})}
    <3>1. \A w : w \in conf.observed <=> \E j \in Places("observe") : opts[j].what = w
      <4>1. \A j \in Places("observe") : j < at
        BY <2>1 DEF Places
      <4>2. QED
        BY <2>1, <4>1 DEF ConfInv
    <3>2. \A w : w \in {o.what : o \in Given({"observe"})} <=>
                 \E j \in Places("observe") : opts[j].what = w
      BY DEF Given, Places
    <3>3. QED
      BY <2>3, <3>1, <3>2
  <2>11. QED
    BY <2>6, <2>8, <2>9, <2>10
<1>4. QED
  BY <1>1, <1>2, <1>3, PhasesHold, PTL DEF Spec
=============================================================================
