--------------------------- MODULE PipelineProofs ---------------------------
(* Theorems about Pipeline: what holds of the publisher and of the durable  *)
(* each on its own holds of the two together, and what follows end to end.  *)
EXTENDS Pipeline, DeliveryProofs, FiniteSetTheorems

PubProofs == INSTANCE PublishingProofs WITH succeeded <- publishSucceed

(* Each side is as in its own module *)

\* To the durable, the publisher is someone who publishes.
LEMMA DurableStep == ASSUME [PipeNext]_pipeVars PROVE [Next]_vars
<1>1. CASE \E m \in wire : StoreMessage(m)
  BY <1>1 DEF StoreMessage, Next
<1>2. CASE Durable
  BY <1>2 DEF Durable, Next
<1>3. QED
  BY <1>1, <1>2 DEF PipeNext, pipeVars

\* Pipeline implements Delivery: all its theorems hold of a durable that is
\* fed by Publish and PublishRaw.
THEOREM PipelineIsDelivery == PipeSpec => Spec
<1>1. PipeInit => Init
  BY DEF PipeInit
<1>2. QED
  BY <1>1, DurableStep, PTL DEF PipeSpec, Spec

\* To the publisher, the durable does not exist.
LEMMA PublisherStep == ASSUME [PipeNext]_pipeVars PROVE [Pub!Next]_Pub!vars
<1>1. CASE \E m \in wire : StoreMessage(m)
  BY <1>1 DEF StoreMessage, Pub!Next
<1>2. CASE Publisher
  BY <1>2 DEF Publisher, Pub!Next
<1>3. CASE UNCHANGED publisherVars
  BY <1>3 DEF publisherVars, Pub!vars, Pub!callVars, Pub!networkVars, Pub!counters
<1>4. QED
  BY <1>1, <1>2, <1>3 DEF PipeNext, pipeVars

\* Pipeline implements Publishing.
THEOREM PipelineIsPublishing == PipeSpec => Pub!Spec
<1>1. PipeInit => Pub!Init
  BY DEF PipeInit
<1>2. QED
  BY <1>1, PublisherStep, PTL DEF PipeSpec, Pub!Spec

\* The publisher its theorems are about is the one of Pipeline.
LEMMA SamePublisher == PipeSpec => PubProofs!Spec
<1>1. Pub!Init => PubProofs!Init
  BY DEF Pub!Init, PubProofs!Init
<1>2. [Pub!Next]_Pub!vars => [PubProofs!Next]_PubProofs!vars
  BY DEF
      Pub!Next, PubProofs!Next, Pub!Caller, PubProofs!Caller, Pub!Wire,
      PubProofs!Wire, Pub!Publish, PubProofs!Publish, Pub!Refuse,
      PubProofs!Refuse, Pub!Acked, PubProofs!Acked, Pub!TimeOut,
      PubProofs!TimeOut, Pub!PublishRaw, PubProofs!PublishRaw,
      Pub!PublishRawTooEarly, PubProofs!PublishRawTooEarly, Pub!MarkSent,
      PubProofs!MarkSent, Pub!SendMessage, PubProofs!SendMessage, Pub!MayCall,
      PubProofs!MayCall, Pub!Store, PubProofs!Store, Pub!LoseMessage,
      PubProofs!LoseMessage, Pub!LoseAck, PubProofs!LoseAck, Pub!Crash,
      PubProofs!Crash, Pub!Fault, PubProofs!Fault, Pub!Hopeless,
      PubProofs!Hopeless, Pub!Message, PubProofs!Message, Pub!Ident,
      PubProofs!Ident, Pub!NoId, PubProofs!NoId, Pub!Sendable,
      PubProofs!Sendable, Pub!Counted, PubProofs!Counted, Pub!vars, PubProofs!vars, Pub!callVars,
      PubProofs!callVars, Pub!networkVars, PubProofs!networkVars, Pub!counters,
      PubProofs!counters
<1>3. QED
  BY <1>1, <1>2, PipelineIsPublishing, PTL DEF Pub!Spec, PubProofs!Spec

\* What the publisher's theorems assume of the constants.
LEMMA PublisherConstants == PubProofs!PublishingOK
  BY PipelineOK DEF Pub!PublishingOK, PubProofs!PublishingOK, Pub!IsFiniteSet,
                    PubProofs!IsFiniteSet

\* Types of the publisher's state, the messages of nil calls are stored, and
\* every call is stored at most once.
LEMMA PublisherFacts ==
  PipeSpec => [](PubProofs!TypeOK /\ PubProofs!NilMeansStored /\ PubProofs!StoredOnce)
<1>1. PubProofs!Spec => []PubProofs!TypeOK
  BY PublisherConstants, PubProofs!PublishingTypeCorrect
<1>2. PubProofs!Spec => []PubProofs!NilMeansStored
  BY PublisherConstants, PubProofs!NilIsStored
<1>3. PubProofs!Spec => []PubProofs!StoredOnce
  BY PublisherConstants, PubProofs!TriesStoredOnce
<1>4. QED
  BY <1>1, <1>2, <1>3, SamePublisher, PTL
-----------------------------------------------------------------------------
(* One stream *)

StreamsAgree == log \in Seq(PubProofs!Messages) /\ published = Len(log)

\* The durable's messages are the positions of the publisher's log.
LEMMA OneStream == PipeSpec => []StreamsAgree
<1>1. PipeInit => StreamsAgree
  BY DEF PipeInit, Init, Pub!Init, StreamsAgree
<1>2. ASSUME PubProofs!TypeOK, PubProofs!TypeOK', StreamsAgree, [PipeNext]_pipeVars
      PROVE  StreamsAgree'
  <2>1. log \in Seq(PubProofs!Messages) /\ published = Len(log)
    BY <1>2 DEF StreamsAgree
  <2>2. ASSUME NEW m \in wire, StoreMessage(m) PROVE published' = Len(log')
    <3>1. log' = Append(log, m) /\ published' = published + 1
      BY <2>2 DEF StoreMessage, Pub!Store, Publish
    <3>2. m \in PubProofs!Messages
      BY <1>2 DEF PubProofs!TypeOK
    <3>3. Len(log') = Len(log) + 1
      BY <2>1, <3>1, <3>2
    <3>4. QED
      BY <2>1, <3>1, <3>3
  <2>3. ASSUME Publisher, UNCHANGED vars PROVE UNCHANGED <<log, published>>
    <3>1. UNCHANGED log
      BY <2>3 DEF Publisher, Pub!Caller, Pub!Wire, Pub!Publish, Pub!Refuse, Pub!Acked,
         Pub!TimeOut, Pub!PublishRaw, Pub!PublishRawTooEarly, Pub!MarkSent,
         Pub!SendMessage, Pub!LoseMessage, Pub!LoseAck, Pub!Crash, Pub!networkVars
    <3>2. QED
      BY <2>3, <3>1 DEF vars, serverVars
  <2>4. ASSUME Durable, UNCHANGED publisherVars PROVE UNCHANGED <<log, published>>
    <3>1. UNCHANGED published
      BY <2>4 DEF Durable, Server, DeliverNew, Redeliver, Send, Exhaust,
         AckWaitExpires, Callback, RejectUnrouted, InvokeHandler, HandlerReturns,
         Settle, Process, Start, Close, DrainDone, Exit, Crash, ProcessGone,
         serverVars
    <3>2. QED
      BY <2>4, <3>1 DEF publisherVars
  <2>5. ASSUME UNCHANGED pipeVars PROVE UNCHANGED <<log, published>>
    BY <2>5 DEF pipeVars, vars, serverVars, publisherVars
  <2>6. published' = Len(log')
    BY <1>2, <2>1, <2>2, <2>3, <2>4, <2>5 DEF PipeNext
  <2>7. QED
    BY <1>2, <2>6 DEF StreamsAgree, PubProofs!TypeOK
<1>3. QED
  BY <1>1, <1>2, PublisherFacts, PTL DEF PipeSpec
-----------------------------------------------------------------------------
(* End to end *)

\* An event Publish returned nil for, or whose row is marked as sent, is ahead
\* of the durable or accounted for by it, whatever crashes and gets lost on
\* either side and whichever releases run, if all of them handle its key.
THEOREM ConfirmedReachesHandler == PipeSpec => []ConfirmedIsDelivered
<1>1. ASSUME TypeOK, AtLeastOnce, StreamsAgree, PubProofs!NilMeansStored
      PROVE  ConfirmedIsDelivered
  <2> SUFFICES ASSUME NEW e \in Events, Confirmed(e)
               PROVE  \E m \in Pub!Copies(e) :
                        /\ m <= published
                        /\ HandledByAll(m) => cursor <= m \/ Accounted(m)
    BY DEF ConfirmedIsDelivered
  <2>1. PICK m \in Pub!Copies(e) : TRUE
    BY <1>1 DEF Confirmed, PubProofs!NilMeansStored, PubProofs!Copies, Pub!Copies
  <2>2. m \in 1..published
    BY <1>1, <2>1 DEF StreamsAgree, Pub!Copies
  <2>3. m \in Msgs
    BY <1>1, <2>2, ConstantsOK DEF TypeOK, Msgs
  <2>4. m < cursor /\ HandledByAll(m) => Accounted(m)
    BY <1>1, <2>3 DEF AtLeastOnce
  <2>5. cursor <= m \/ m < cursor
    BY <1>1, <2>3 DEF TypeOK, Msgs
  <2>6. QED
    BY <2>1, <2>2, <2>4, <2>5
<1>2. QED
  BY <1>1, DeliveredAtLeastOnce, TypeCorrect, PipelineIsDelivery, OneStream,
     PublisherFacts, PTL

\* Handlers are called with stored messages only.
LEMMA CalledIsStored ==
  ASSUME TypeOK, AttemptInv, StreamsAgree, NEW d \in invoked
  PROVE  /\ d = <<d[1], d[2]>>
         /\ d[1] \in DOMAIN log
         /\ d[1] \in Msgs
         /\ d[2] \in Nat \ {0}
         /\ MaxDeliver > 0 => d[2] \in 1..MaxDeliver
<1>1. d = <<d[1], d[2]>> /\ d[1] \in Msgs /\ d[2] \in Nat
  BY DEF TypeOK, Deliveries
<1>2. 0 < d[2] /\ d[2] <= deliveries[d[1]] /\ deliveries[d[1]] \in Nat
  BY <1>1 DEF AttemptInv, Counted, TypeOK
<1>3. d[1] \in 1..published
  <2>1. ~(d[1] >= cursor)
    BY <1>1, <1>2 DEF AttemptInv, Unreached
  <2>2. QED
    BY <1>1, <2>1, ConstantsOK DEF AttemptInv, Unreached, TypeOK, Msgs
<1>4. d[1] \in DOMAIN log
  BY <1>3 DEF StreamsAgree
<1>5. MaxDeliver > 0 => d[2] <= MaxDeliver
  BY <1>1, <1>2, ConstantsOK DEF AttemptInv, Budget
<1>6. QED
  BY <1>1, <1>2, <1>4, <1>5, ConstantsOK

\* A handler call is named by the call of Publish whose copy it got and the
\* number of the attempt.
LEMMA CallsNamed ==
  ASSUME TypeOK, AttemptInv, StreamsAgree, PubProofs!TypeOK, PubProofs!StoredOnce,
         MaxDeliver > 0, NEW e \in Events
  PROVE  \E f : f \in Injection(CallsFor(e), (1..tries[e]) \X (1..MaxDeliver))
<1> DEFINE name == [d \in CallsFor(e) |-> <<log[d[1]].try, d[2]>>]
           names == (1..tries[e]) \X (1..MaxDeliver)
<1>1. ASSUME NEW d \in CallsFor(e)
      PROVE  /\ d = <<d[1], d[2]>> /\ d[1] \in DOMAIN log
             /\ log[d[1]].event = e
             /\ log[d[1]].try \in 1..tries[e]
             /\ d[2] \in 1..MaxDeliver
  <2>1. d \in invoked /\ log[d[1]].event = e
    BY <1>1 DEF CallsFor
  <2>2. <<log[d[1]].event, log[d[1]].try>> \in PubProofs!Made
    BY <2>1, CalledIsStored DEF PubProofs!StoredOnce
  <2>3. log[d[1]].try \in 1..tries[e]
    BY <2>1, <2>2 DEF PubProofs!Made, PubProofs!TypeOK
  <2>4. QED
    BY <2>1, <2>3, CalledIsStored
<1>2. name \in [CallsFor(e) -> names]
  BY <1>1
<1>3. ASSUME NEW c \in CallsFor(e), NEW d \in CallsFor(e), name[c] = name[d]
      PROVE  c = d
  <2>1. log[c[1]].try = log[d[1]].try /\ c[2] = d[2]
    BY <1>3
  <2>2. c[1] = d[1]
    BY <1>1, <2>1 DEF PubProofs!StoredOnce
  <2>3. QED
    BY <1>1, <2>1, <2>2
<1>4. name \in Injection(CallsFor(e), names)
  BY <1>2, <1>3 DEF Injection, IsInjective
<1>5. QED
  BY <1>4

\* Retried calls and redeliveries multiply, and nothing else: at most
\* MaxDeliver handler calls for every call of Publish that sent the event.
THEOREM DuplicatesBounded == PipeSpec => []CallsAreBounded
<1>1. ASSUME TypeOK, AttemptInv, StreamsAgree, PubProofs!TypeOK, PubProofs!StoredOnce
      PROVE  CallsAreBounded
  <2>1. \A d \in invoked : d[1] \in DOMAIN log
    BY <1>1, CalledIsStored
  <2>2. ASSUME MaxDeliver > 0, NEW e \in Events
        PROVE  Cardinality(CallsFor(e)) <= tries[e] * MaxDeliver
    <3> DEFINE S == 1..tries[e]
               T == 1..MaxDeliver
    <3>1. tries[e] \in Nat /\ MaxDeliver \in Nat
      BY <1>1, <2>2, ConstantsOK, PublisherConstants
      DEF PubProofs!TypeOK, PubProofs!PublishingOK
    <3>2. IsFiniteSet(S) /\ Cardinality(S) = tries[e]
      BY <3>1, FS_Interval
    <3>3. IsFiniteSet(T) /\ Cardinality(T) = MaxDeliver
      BY <3>1, FS_Interval
    <3> HIDE DEF S, T
    <3>4. IsFiniteSet(S \X T) /\ Cardinality(S \X T) = tries[e] * MaxDeliver
      BY <3>2, <3>3, FS_Product
    <3>5. PICK f : f \in Injection(CallsFor(e), S \X T)
      BY <1>1, <2>2, CallsNamed DEF S, T
    <3>6. Cardinality(CallsFor(e)) <= Cardinality(S \X T)
      BY <3>4, <3>5, FS_Injection
    <3>7. QED
      BY <3>4, <3>6
  <2>3. QED
    BY <2>1, <2>2 DEF CallsAreBounded
<1>2. QED
  BY <1>1, TypeCorrect, AttemptsCounted, PipelineIsDelivery, OneStream,
     PublisherFacts, PTL
=============================================================================
