---------------------------- MODULE MCLifecycle -----------------------------
(* Scripts of setup functions for model checking Lifecycle. *)
EXTENDS Lifecycle

Consume(stream, key, max, backOff) ==
  [do |-> "consume", stream |-> stream, key |-> key, ephemeral |-> FALSE,
   suffix |-> None, max |-> max, backOff |-> backOff]

\* Every order of a set of setups.
Orders(S) == {s \in [1..Cardinality(S) -> S] :
                \A j, k \in DOMAIN s : s[j] = s[k] => j = k}

Created == <<"order", "created">>
Shipped == <<"order", "shipped">>
Login   == <<"login">>

OnCreated       == Consume("events", Created, 0, NotGiven)
OnShipped       == Consume("events", Shipped, 0, NotGiven)
OnLogin         == Consume("audit", Login, 0, NotGiven)
Transient       == [OnCreated EXCEPT !.ephemeral = TRUE]
Suffixed        == [OnCreated EXCEPT !.suffix = "b"]
EmptySuffix     == [OnCreated EXCEPT !.suffix = ""]
NegativeMax     == [OnCreated EXCEPT !.max = -1]
NoWaits         == [OnCreated EXCEPT !.backOff = 0]
ThreeWaits      == [OnCreated EXCEPT !.backOff = 3]
TwoTries        == [OnShipped EXCEPT !.max = 2]
EventsPublisher == [do |-> "publish", stream |-> "events", pub |-> "p1"]
AuditPublisher  == [do |-> "publish", stream |-> "audit", pub |-> "p2"]
BillingClient   == [do |-> "request", target |-> "billing", pub |-> "p2"]
BillingReplies  == [do |-> "expect", target |-> "billing", key |-> <<"ask">>]
Service         == [do |-> "serve", key |-> <<"ask">>]
Responder       == [do |-> "respond", key |-> <<"bill">>]
Defaults        == [do |-> "consumerDefaults", max |-> 5, backOff |-> 2]
NegativeDefault == [do |-> "consumerDefaults", max |-> -1, backOff |-> 2]
LongSchedule    == [do |-> "consumerDefaults", max |-> 0, backOff |-> 3]
Limits          == [do |-> "streamDefaults", limit |-> 7]
AuditLimits     == [do |-> "streamConfig", stream |-> "audit", limit |-> 9]
Timeout         == [do |-> "requestTimeout", timeout |-> 10]
BadTimeout      == [do |-> "requestTimeout", timeout |-> 0]
NoStreamName    == [do |-> "streamConfig", stream |-> "", limit |-> 9]
ErrorChannel    == [do |-> "observe", what |-> "errorCh"]
Tracing         == [do |-> "observe", what |-> "tracing"]

TwoStreams == Orders({OnCreated, OnShipped, OnLogin, EventsPublisher, Limits,
                      AuditLimits})
Mixed == Orders({OnCreated, Transient, Service, ErrorChannel, Defaults,
                 BillingClient})
Delivering == Orders({ThreeWaits, Suffixed, Defaults, Tracing})
      \cup Orders({OnCreated, TwoTries, LongSchedule})
      \cup Orders({NoWaits, OnLogin, NegativeDefault})
Refusing == Orders({OnCreated, Service, Timeout, BadTimeout, BillingReplies})
      \cup Orders({EventsPublisher, NoStreamName, BillingClient})
      \cup Orders({EventsPublisher, NegativeMax})
      \cup Orders({EventsPublisher, EmptySuffix})

\* One Publisher for requests and for a stream.
SharedPublisher == Orders({BillingClient, AuditPublisher, Responder})

\* Two or three patterns on one durable, overlapping or not.
Patterns == {Created, Shipped, <<"order", "*">>, <<"order", "#">>,
             <<"*", "created">>, <<"order">>, <<"#">>, <<"order", ">">>, <<">">>,
             <<"#", "created">>}
Grouped == {<<Consume("events", p, 0, NotGiven), Consume("events", q, 0, NotGiven)>> :
              p, q \in Patterns}
     \cup {<<Consume("events", p, 0, NotGiven), OnLogin, OnShipped>> : p \in Patterns}

AllScripts == TwoStreams \cup Mixed \cup Delivering \cup Refusing
              \cup SharedPublisher \cup Grouped

\* Keys of one to three tokens.
Tokens == {"order", "created", "x"}
AllKeys == UNION {[1..n -> Tokens] : n \in 1..3} \cup {Shipped, Login}

\* The README's example: defaults of 5, and one consumer with its own 10.
ReadmeExample == {<<Defaults, OnCreated, [OnShipped EXCEPT !.max = 10]>>}

\* A Publisher used for requests, then for a stream.
Rewired == {<<BillingClient, AuditPublisher>>}
=============================================================================
