------------------------------ MODULE Pipeline ------------------------------
(***************************************************************************)
(* From Publish to the handler: a service that publishes to a stream       *)
(* (Publishing) and a service whose processes share a durable on it        *)
(* (Delivery).  The two have the stream in common and nothing else: the    *)
(* message at position m of log is message m of the durable.               *)
(*                                                                         *)
(* All events are published with one routing key.                          *)
(***************************************************************************)
EXTENDS Delivery, FiniteSets

CONSTANTS Events, Rows, Unsendable, MaxFaults   \* of Publishing

VARIABLES
  keyed, wired, call, tries, wire, log, acks, sent, failed, past, faults,
  publishSucceed    \* Publishing's counter; succeeded is Delivery's history

Pub == INSTANCE Publishing WITH succeeded <- publishSucceed

publisherVars == <<keyed, wired, call, tries, wire, log, acks, sent, failed, past,
                   faults, publishSucceed>>
pipeVars      == <<vars, publisherVars>>

\* A routing key is a property of the event, not of its place in the stream.
ASSUME PipelineOK ==
  /\ Pub!PublishingOK
  /\ \A m, n \in Msgs : KeyOf[m] = KeyOf[n]
  /\ Malformed = {}

PipeInit == Init /\ Pub!Init

\* The server appends the message to the stream and will acknowledge it.
StoreMessage(m) == Pub!Store(m) /\ Publish

\* Steps of the publishing service and its network, and of the durable.
Publisher == \/ Pub!Wire
             \/ \E e \in Events : Pub!Caller(e)
             \/ \E m \in wire : Pub!LoseMessage(m)
             \/ \E a \in acks : Pub!LoseAck(a)
             \/ Pub!Crash

Durable == \/ \E m \in Msgs : Server(m)
           \/ \E i \in Instances : Callback(i) \/ Process(i)

PipeNext == \/ \E m \in wire : StoreMessage(m)
            \/ Publisher /\ UNCHANGED vars
            \/ Durable /\ UNCHANGED publisherVars

PipeSpec == PipeInit /\ [][PipeNext]_pipeVars

FairPipeSpec == PipeSpec /\ Fairness /\ Pub!Fairness
-----------------------------------------------------------------------------
(* Properties *)

\* Publish has returned nil for the event, or the relay has marked its row.
Confirmed(e) == call[e] = "nil" \/ e \in sent

\* At least once, end to end: a confirmed event has a copy in the stream that
\* the durable has still before it, is going to redeliver, or has settled for
\* a cause, given that every release handles its key.  Lost messages and
\* acknowledgements, retries, crashes of the publisher, of the relay between
\* PublishRaw and its mark, and of the consumers do not lose it.
ConfirmedIsDelivered ==
  \A e \in Events : Confirmed(e) =>
    \E m \in Pub!Copies(e) :
      /\ m <= published
      /\ HandledByAll(m) => cursor <= m \/ Accounted(m)

\* The deliveries of the event's copies a handler was called with.
CallsFor(e) == {d \in invoked : log[d[1]].event = e}

\* At most so often: retried calls of Publish and redeliveries multiply, and
\* nothing else does.  A handler is called for an event at most MaxDeliver
\* times per call of Publish that sent it, and not at all without one.
CallsAreBounded ==
  /\ \A d \in invoked : d[1] \in DOMAIN log
  /\ MaxDeliver > 0 => \A e \in Events :
       Cardinality(CallsFor(e)) <= tries[e] * MaxDeliver

\* Every row of the outbox is stored, and a copy of it eventually settled.
RowsGetSettled ==
  \A e \in Rows : <>(\E m \in Pub!Copies(e) : status[m] \in Settled)
=============================================================================
