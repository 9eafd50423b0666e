------------------------------ MODULE Delivery ------------------------------
(***************************************************************************)
(* Delivery of the messages of one JetStream stream to one durable         *)
(* consumer that all processes of a service share (consumer.go,            *)
(* setup_consumer.go, connection.go Close).                                *)
(*                                                                         *)
(* The server side (stream, durable, acknowledgements) is external: it is  *)
(* modelled from the calls the package makes.  The client side is the code *)
(* of src/: the handleMessage callback split where another process, the    *)
(* server or a crash can come in between.                                  *)
(***************************************************************************)
EXTENDS Integers, Sequences

CONSTANTS
  Instances,      \* processes of the service; they all use the same durable
  NumMsgs,        \* messages published in the run; a message is its sequence
  KeyOf,          \* [Msgs -> routing key]
  Malformed,      \* messages whose payload the handler cannot unmarshal
  HandlerKeys,    \* [Instances -> routing keys that release registers]
  MaxDeliver,     \* ConsumerConfig.MaxDeliver, 0 = unlimited
  DeliveryBound,  \* bound on attempts explored when MaxDeliver = 0
  MaxMsgs,        \* StreamConfig.MaxMsgs, 0 = unlimited
  BufCap,         \* messages a client buffers ahead of its handler
  MaxStops        \* bound on Close calls and crashes in a run

Msgs == 1..NumMsgs

ASSUME ConstantsOK ==
  /\ NumMsgs \in Nat
  /\ Malformed \subseteq Msgs
  /\ MaxDeliver \in Nat
  /\ DeliveryBound \in Nat \ {0}
  /\ MaxMsgs \in Nat
  /\ BufCap \in Nat
  /\ MaxStops \in Nat

VARIABLES
  \* --- NATS server -------------------------------------------------------
  published,   \* last sequence of the stream
  firstSeq,    \* first sequence retention has not discarded
  cursor,      \* next sequence the durable looks at
  filter,      \* FilterSubjects of the durable, as routing keys
  status,      \* [Msgs -> Status] what the durable records of a message
  deliveries,  \* [Msgs -> Nat] delivery attempts made
  \* --- one client process per instance -----------------------------------
  conn,        \* [Instances -> ConnState]
  buf,         \* [Instances -> Seq(Delivery)] received, not yet handled
  cur,         \* [Instances -> Delivery or NoDelivery] in handleDelivery
  verdict,     \* [Instances -> Verdict or "none"] what the handler returned
  \* --- history -----------------------------------------------------------
  invoked,     \* deliveries a handler was called with
  succeeded,   \* messages some handler call returned nil for
  refused,     \* messages a handler call returned a permanent error for
  unrouted,    \* messages terminated because no handler was registered
  stops        \* Close calls and crashes so far

serverVars == <<published, firstSeq, cursor, filter, status, deliveries>>
clientVars == <<conn, buf, cur, verdict>>
history    == <<invoked, succeeded, refused, unrouted, stops>>
vars       == <<serverVars, clientVars, history>>

Open      == {"pending", "requeued"}
Settled   == {"acked", "termed", "exhausted"}
Status    == {"unseen"} \cup Open \cup Settled
ConnState == {"down", "open", "draining", "closed"}
Verdict   == {"ok", "parse", "notype", "err"}

\* A delivery is a message and the number of the attempt (NumDelivered).
Deliveries == Msgs \X Nat
NoDelivery == <<0, 0>>

Evicted(m) == m < firstSeq

\* Attempts the durable makes before it gives the message up.
Limit == IF MaxDeliver = 0 THEN DeliveryBound ELSE MaxDeliver
-----------------------------------------------------------------------------
(* Client: routing, the wrapped handler and the acknowledgement it leads to *)

\* routingKeyHandler.get finds a handler for the message.
HasHandler(i, m) == KeyOf[m] \in HandlerKeys[i]

\* What a wrapped handler can return.  json.Unmarshal fails on a malformed
\* payload before the service's handler is reached; a TypeMappingHandler looks
\* for the type of the routing key first.  A handler of raw JSON unmarshals
\* nothing: to it no payload is malformed.
Verdicts(m) == IF m \in Malformed THEN {"parse", "notype"} ELSE Verdict

\* Faulty variants: the Ack is not skipped when the handler failed; every
\* failure is taken for a permanent one.
DispositionAlwaysAcks(v) == "ack"
DispositionTermsFailures(v) == IF v = "ok" THEN "ack" ELSE "term"

\* The call handleDelivery makes on the message for each handler result.
Disposition(v) == CASE v = "ok"                  -> "ack"
                    [] v \in {"parse", "notype"} -> "term"
                    [] v = "err"                 -> "nak"

\* Effect of an Ack, Term or Nak on the durable.  The server looks only at
\* the sequence: an answer to an earlier attempt counts, and one for a
\* message that is no longer open is ignored.
AckEffect(s, call) == IF s \notin Open THEN s
                      ELSE CASE call = "ack"  -> "acked"
                             [] call = "term" -> "termed"
                             [] call = "nak"  -> "requeued"

\* The call is fire-and-forget: its error is dropped, and it fails for
\* certain once the connection is closed.
Answer(i, m, call) ==
  \E arrives \in IF conn[i] = "closed" THEN {FALSE} ELSE BOOLEAN :
    status' = IF arrives
              THEN [status EXCEPT ![m] = AckEffect(status[m], call)]
              ELSE status
-----------------------------------------------------------------------------
Init ==
  /\ published = 0
  /\ firstSeq = 1
  /\ cursor = 1
  /\ filter = {}
  /\ status = [m \in Msgs |-> "unseen"]
  /\ deliveries = [m \in Msgs |-> 0]
  /\ conn = [i \in Instances |-> "down"]
  /\ buf = [i \in Instances |-> <<>>]
  /\ cur = [i \in Instances |-> NoDelivery]
  /\ verdict = [i \in Instances |-> "none"]
  /\ invoked = {}
  /\ succeeded = {}
  /\ refused = {}
  /\ unrouted = {}
  /\ stops = 0

\* js.PublishMsg stores the next message; a full stream discards its oldest.
Publish ==
  /\ published < NumMsgs
  /\ published' = published + 1
  /\ firstSeq' = IF MaxMsgs > 0 /\ published' - firstSeq >= MaxMsgs
                 THEN firstSeq + 1 ELSE firstSeq
  /\ UNCHANGED <<cursor, filter, status, deliveries, clientVars, history>>

\* Faulty variant: of the configs grouped on the durable only the first one's
\* filter subject is kept.
StartFirstKeyOnly(i) ==
  /\ conn[i] = "down"
  /\ conn' = [conn EXCEPT ![i] = "open"]
  /\ filter' = {CHOOSE k \in HandlerKeys[i] : TRUE}
  /\ UNCHANGED <<published, firstSeq, cursor, status, deliveries>>
  /\ UNCHANGED <<buf, cur, verdict, history>>

\* Start: CreateOrUpdateConsumer overwrites the filter of the shared durable
\* with the keys of this release, then Consume opens the subscription.
Start(i) ==
  /\ conn[i] = "down"
  /\ conn' = [conn EXCEPT ![i] = "open"]
  /\ filter' = HandlerKeys[i]
  /\ UNCHANGED <<published, firstSeq, cursor, status, deliveries>>
  /\ UNCHANGED <<buf, cur, verdict, history>>

\* The server hands attempt deliveries[m] + 1 of m to an open subscription;
\* it may get lost on the way, when the connection breaks and reconnects.
Send(i, m) ==
  /\ conn[i] = "open"
  /\ Len(buf[i]) < BufCap
  /\ deliveries' = [deliveries EXCEPT ![m] = deliveries[m] + 1]
  /\ \E arrives \in BOOLEAN :
       buf' = IF arrives
              THEN [buf EXCEPT ![i] = Append(buf[i], <<m, deliveries[m] + 1>>)]
              ELSE buf
  /\ status' = [status EXCEPT ![m] = "pending"]
  /\ UNCHANGED <<published, firstSeq, filter, conn, cur, verdict, history>>

\* Messages the cursor has not passed that match the filter.
Matching == {m \in Msgs : /\ cursor <= m
                          /\ m <= published
                          /\ ~Evicted(m)
                          /\ KeyOf[m] \in filter}

\* The first matching message is sent; the cursor passes all before it.
DeliverNew(i, m) ==
  /\ m \in Matching
  /\ \A n \in Matching : m <= n
  /\ cursor' = m + 1
  /\ Send(i, m)

\* Faulty variant: one attempt too many.
RedeliverOffByOne(i, m) ==
  /\ status[m] = "requeued"
  /\ ~Evicted(m)
  /\ deliveries[m] <= Limit
  /\ Send(i, m)
  /\ UNCHANGED cursor

\* A message due for redelivery is sent again while attempts are left.
Redeliver(i, m) ==
  /\ status[m] = "requeued"
  /\ ~Evicted(m)
  /\ deliveries[m] < Limit
  /\ Send(i, m)
  /\ UNCHANGED cursor

\* A message due for redelivery that has used up MaxDeliver is given up.
Exhaust(m) ==
  /\ status[m] = "requeued"
  /\ MaxDeliver > 0
  /\ deliveries[m] >= MaxDeliver
  /\ status' = [status EXCEPT ![m] = "exhausted"]
  /\ UNCHANGED <<published, firstSeq, cursor, filter, deliveries>>
  /\ UNCHANGED <<clientVars, history>>

\* AckWait runs from the delivery, also while the message waits in a buffer.
AckWaitExpires(m) ==
  /\ status[m] = "pending"
  /\ status' = [status EXCEPT ![m] = "requeued"]
  /\ UNCHANGED <<published, firstSeq, cursor, filter, deliveries>>
  /\ UNCHANGED <<clientVars, history>>
-----------------------------------------------------------------------------
(* handleMessage: one callback at a time per subscription *)

Idle(i) == cur[i] = NoDelivery

\* No handler for the routing key: Term and return.
RejectUnrouted(i) ==
  /\ Idle(i)
  /\ buf[i] # <<>>
  /\ LET m == Head(buf[i])[1] IN
       /\ ~HasHandler(i, m)
       /\ Answer(i, m, "term")
       /\ unrouted' = unrouted \cup {m}
  /\ buf' = [buf EXCEPT ![i] = Tail(buf[i])]
  /\ UNCHANGED <<published, firstSeq, cursor, filter, deliveries>>
  /\ UNCHANGED <<conn, cur, verdict, invoked, succeeded, refused, stops>>

\* Faulty variant: the message is not taken off the subscription.
InvokeHandlerKeepsMessage(i) ==
  /\ Idle(i)
  /\ buf[i] # <<>>
  /\ HasHandler(i, Head(buf[i])[1])
  /\ cur' = [cur EXCEPT ![i] = Head(buf[i])]
  /\ invoked' = invoked \cup {Head(buf[i])}
  /\ UNCHANGED <<serverVars, conn, buf, verdict>>
  /\ UNCHANGED <<succeeded, refused, unrouted, stops>>

\* A handler is registered: handleDelivery calls it with the message.
InvokeHandler(i) ==
  /\ Idle(i)
  /\ buf[i] # <<>>
  /\ HasHandler(i, Head(buf[i])[1])
  /\ cur' = [cur EXCEPT ![i] = Head(buf[i])]
  /\ buf' = [buf EXCEPT ![i] = Tail(buf[i])]
  /\ invoked' = invoked \cup {Head(buf[i])}
  /\ UNCHANGED <<serverVars, conn, verdict, succeeded, refused, unrouted, stops>>

\* Faulty variant: a recovered panic comes back as a result of its own.
HandlerReturnsPanic(i, v) ==
  /\ ~Idle(i)
  /\ verdict[i] = "none"
  /\ v \in Verdicts(cur[i][1])
  /\ verdict' = [verdict EXCEPT ![i] = "panic"]
  /\ UNCHANGED <<serverVars, conn, buf, cur, history>>

\* The wrapped handler returns; what it did is now visible to the service.
HandlerReturns(i, v) ==
  /\ ~Idle(i)
  /\ verdict[i] = "none"
  /\ v \in Verdicts(cur[i][1])
  /\ verdict' = [verdict EXCEPT ![i] = v]
  /\ succeeded' = IF v = "ok" THEN succeeded \cup {cur[i][1]} ELSE succeeded
  /\ refused' = IF v \in {"parse", "notype"}
                THEN refused \cup {cur[i][1]} ELSE refused
  /\ UNCHANGED <<serverVars, conn, buf, cur, invoked, unrouted, stops>>

\* The rest of handleDelivery: Ack, Term or Nak by the handler's result.
Settle(i) ==
  /\ ~Idle(i)
  /\ verdict[i] # "none"
  /\ Answer(i, cur[i][1], Disposition(verdict[i]))
  /\ cur' = [cur EXCEPT ![i] = NoDelivery]
  /\ verdict' = [verdict EXCEPT ![i] = "none"]
  /\ UNCHANGED <<published, firstSeq, cursor, filter, deliveries>>
  /\ UNCHANGED <<conn, buf, history>>
-----------------------------------------------------------------------------
(* Shutdown and failure *)

\* Close: Stop discards the messages buffered for the consumer, then Drain
\* starts to close the connection in the background and Close returns.
Close(i) ==
  /\ conn[i] = "open"
  /\ stops < MaxStops
  /\ stops' = stops + 1
  /\ conn' = [conn EXCEPT ![i] = "draining"]
  /\ buf' = [buf EXCEPT ![i] = <<>>]
  /\ UNCHANGED <<serverVars, cur, verdict, invoked, succeeded, refused, unrouted>>

\* The consumer's subscription is gone since Stop, so Drain does not wait
\* for its handler.
DrainDone(i) ==
  /\ conn[i] = "draining"
  /\ conn' = [conn EXCEPT ![i] = "closed"]
  /\ UNCHANGED <<serverVars, buf, cur, verdict, history>>

\* Everything the process held in memory is gone.
ProcessGone(i) ==
  /\ conn' = [conn EXCEPT ![i] = "down"]
  /\ buf' = [buf EXCEPT ![i] = <<>>]
  /\ cur' = [cur EXCEPT ![i] = NoDelivery]
  /\ verdict' = [verdict EXCEPT ![i] = "none"]
  /\ UNCHANGED <<serverVars, invoked, succeeded, refused, unrouted>>

\* main returns after Close.
Exit(i) ==
  /\ conn[i] \in {"draining", "closed"}
  /\ ProcessGone(i)
  /\ UNCHANGED stops

\* The process dies, for instance because a handler panicked.
Crash(i) ==
  /\ conn[i] = "open"
  /\ stops < MaxStops
  /\ stops' = stops + 1
  /\ ProcessGone(i)
-----------------------------------------------------------------------------
Server(m) == \/ \E i \in Instances : DeliverNew(i, m) \/ Redeliver(i, m)
             \/ Exhaust(m)
             \/ AckWaitExpires(m)

Callback(i) == \/ RejectUnrouted(i)
               \/ InvokeHandler(i)
               \/ \E v \in Verdict : HandlerReturns(i, v)
               \/ Settle(i)

Process(i) == Start(i) \/ Close(i) \/ DrainDone(i) \/ Exit(i) \/ Crash(i)

Next == \/ Publish
        \/ \E m \in Msgs : Server(m)
        \/ \E i \in Instances : Callback(i) \/ Process(i)

Spec == Init /\ [][Next]_vars

\* The server keeps serving every message it owes, the callback goroutine is
\* scheduled and the handler returns, and whoever runs the service ends a
\* closed process and restarts a stopped one.  Nobody has to publish, close or
\* crash.
Fairness ==
  /\ \A m \in Msgs : WF_vars(Server(m))
  /\ \A i \in Instances : WF_vars(Callback(i)) /\ WF_vars(Start(i) \/ Exit(i))

FairSpec == Spec /\ Fairness
-----------------------------------------------------------------------------
(* Properties *)

TypeOK ==
  /\ published \in 0..NumMsgs
  /\ firstSeq \in 1..(NumMsgs + 1)
  /\ cursor \in 1..(NumMsgs + 1)
  /\ status \in [Msgs -> Status]
  /\ deliveries \in [Msgs -> Nat]
  /\ conn \in [Instances -> ConnState]
  /\ buf \in [Instances -> Seq(Deliveries)]
  /\ cur \in [Instances -> Deliveries \cup {NoDelivery}]
  /\ verdict \in [Instances -> Verdict \cup {"none"}]
  /\ invoked \subseteq Deliveries
  /\ succeeded \subseteq Msgs
  /\ refused \subseteq Msgs
  /\ unrouted \subseteq Msgs
  /\ stops \in Nat

\* A message leaves the durable only for what a handler really answered:
\* acked after a call that returned nil, terminated after a permanent error
\* or because no handler was registered (handleDelivery, handleMessage),
\* whatever instances, timeouts, stale attempts and crashes came in between.
SettledByHandler ==
  \A m \in Msgs :
    /\ status[m] = "acked" => m \in succeeded
    /\ status[m] = "termed" => m \in refused \cup unrouted

\* The durable still has m to redeliver, or m got what it was owed.
Accounted(m) ==
  \/ status[m] \in Open
  \/ m \in succeeded \cup refused
  \/ status[m] = "exhausted"
  \/ Evicted(m)

\* Every release that runs has a handler for the message.
HandledByAll(m) == \A i \in Instances : HasHandler(i, m)

\* At-least-once: a message the durable has moved past is still going to be
\* redelivered, or a handler succeeded on it, or a handler refused it for
\* good, or it ran out of MaxDeliver, or retention discarded it.  Only keys
\* that every release registers are owed that, whatever other keys come and
\* go with the releases that overwrite the filter.
AtLeastOnce ==
  \A m \in Msgs : m < cursor /\ HandledByAll(m) => Accounted(m)

\* The README's "at-least-once delivery" for a message the durable did pick
\* for delivery, because a process that handles it registered its key.
AtLeastOnceIfDelivered ==
  \A m \in Msgs : deliveries[m] > 0 => Accounted(m)

\* A delivery waits in at most one place, ...
HeldOnce ==
  \A i, j \in Instances : \A p \in DOMAIN buf[i], q \in DOMAIN buf[j] :
    buf[i][p] = buf[j][q] => i = j /\ p = q

\* ... no handler was called with it yet, ...
NotYetCalled ==
  \A i \in Instances : \A p \in DOMAIN buf[i] : buf[i][p] \notin invoked

\* ... and no handler call is for an attempt beyond MaxDeliver.
WithinMaxDeliver ==
  MaxDeliver > 0 => \A d \in invoked : d[2] <= MaxDeliver

\* One delivery is handed to at most one handler call, in one process, and
\* with a MaxDeliver no handler sees an attempt beyond it.
OneCallPerDelivery == HeldOnce /\ NotYetCalled /\ WithinMaxDeliver

\* What a status means for the message.
OutcomeOf(s) == CASE s = "acked"     -> "done"
                  [] s = "termed"    -> "refused"
                  [] s = "exhausted" -> "dropped"
                  [] s \notin Settled -> "owed"

\* The durable and its processes implement the per-message promise of
\* Settlement: attempts within MaxDeliver, one outcome, and only for a cause.
Promise == INSTANCE Settlement WITH
  stored   <- published,
  tries    <- deliveries,
  handled  <- succeeded,
  rejected <- refused \cup unrouted,
  outcome  <- [m \in Msgs |-> OutcomeOf(status[m])]

KeepsPromise == Promise!Spec

\* Close "waits for in-flight messages to be processed, then disconnects".
CloseWaitsForHandler ==
  \A i \in Instances : conn[i] = "closed" => Idle(i)

\* The durable owes an outcome to a published message that every release
\* handles, and to any message it has sent once.
Owed(m) == deliveries[m] > 0 \/ (m <= published /\ HandledByAll(m))

\* With a MaxDeliver every message that is owed an outcome gets it, unless
\* retention discards the message, however often handlers fail, answers get
\* lost, filters change or processes are stopped (finitely often): sooner or
\* later none is left to settle.
EventuallySettled ==
  []<>(\A m \in Msgs : Owed(m) => status[m] \in Settled \/ Evicted(m))
=============================================================================
