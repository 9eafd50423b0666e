------------------------------ MODULE Backoff -------------------------------
(***************************************************************************)
(* When the attempts of one message are made: the BackOff schedule that    *)
(* startPendingJSConsumers passes to the server, the buffer of Consume in  *)
(* which an attempt waits for the callback, and the Ack, Term and Nak of   *)
(* handleDelivery (setup_consumer.go, consumer.go).                        *)
(*                                                                         *)
(* The server and the client library are external.  BackOff replaces the   *)
(* ack wait: attempt k is due again when it has had no answer for as long  *)
(* as the schedule says for k, the last entry serving all later attempts;  *)
(* after a plain Nak it is due at once.  The wait runs from the delivery   *)
(* to the buffer, not from the start of the callback.  Time is counted in  *)
(* steps of a global clock.                                                *)
(***************************************************************************)
EXTENDS Integers, Sequences

CONSTANTS
  Instances,     \* processes that share the durable
  BackOff,       \* the schedule, a non-empty sequence of positive durations
  MaxDeliver,    \* attempts; the server wants no fewer than the schedule has
  Cap,           \* messages a process holds, the one in the callback included
  HandlerTimes,  \* how long the slowest callback may take
  MaxTime        \* bound on the clock

ASSUME ScheduleOK ==
  /\ BackOff \in Seq(Nat \ {0})
  /\ BackOff # <<>>
  /\ MaxDeliver \in Nat
  /\ MaxDeliver >= Len(BackOff)
  /\ Cap \in Nat \ {0}
  /\ HandlerTimes \subseteq Nat \ {0}
  /\ MaxTime \in Nat

VARIABLES
  slowest,  \* the longest a callback takes in this run
  now,      \* the clock
  sentAt,   \* when the attempts so far were made
  state,    \* what the durable records of the message
  queue,    \* what each process holds, in order; the head is in the callback
  busyFor,  \* how long the callback of each process has been at its head
  finished, \* calls for the message that ended in an Ack or a Term
  lost      \* did an answer for the message get lost

vars == <<slowest, now, sentAt, state, queue, busyFor, finished, lost>>

Attempts == Len(sentAt)

\* A queue holds attempts, by their number, and other messages.
Another == 0

\* What the schedule says after attempt k.
Wait(k) == BackOff[IF k <= Len(BackOff) THEN k ELSE Len(BackOff)]

Busy == {i \in Instances : queue[i] # <<>>}
-----------------------------------------------------------------------------
Init ==
  /\ slowest \in HandlerTimes
  /\ now = 0
  /\ sentAt = <<>>
  /\ state = "due"
  /\ queue = [i \in Instances |-> <<>>]
  /\ busyFor = [i \in Instances |-> 0]
  /\ finished = 0
  /\ lost = FALSE

\* Another message of the stream arrives at a process.
DeliverOther(i) ==
  /\ Len(queue[i]) < Cap
  /\ queue' = [queue EXCEPT ![i] = Append(@, Another)]
  /\ UNCHANGED <<slowest, now, sentAt, state, busyFor, finished, lost>>

\* Faulty variant: one attempt too many.
DeliverOffByOne(i) ==
  /\ state = "due"
  /\ Attempts <= MaxDeliver
  /\ Len(queue[i]) < Cap
  /\ sentAt' = Append(sentAt, now)
  /\ state' = "pending"
  /\ queue' = [queue EXCEPT ![i] = Append(@, Attempts + 1)]
  /\ UNCHANGED <<slowest, now, busyFor, finished, lost>>

\* The first or a further attempt, to a process with room for it.
Deliver(i) ==
  /\ state = "due"
  /\ Attempts < MaxDeliver
  /\ Len(queue[i]) < Cap
  /\ sentAt' = Append(sentAt, now)
  /\ state' = "pending"
  /\ queue' = [queue EXCEPT ![i] = Append(@, Attempts + 1)]
  /\ UNCHANGED <<slowest, now, busyFor, finished, lost>>

\* No answer to the latest attempt in time, or later: timers may be late.
Expire ==
  /\ state = "pending"
  /\ now >= sentAt[Attempts] + Wait(Attempts)
  /\ state' = "due"
  /\ UNCHANGED <<slowest, now, sentAt, queue, busyFor, finished, lost>>

\* The durable gives the message up.
Exhaust ==
  /\ state = "due"
  /\ Attempts = MaxDeliver
  /\ state' = "exhausted"
  /\ UNCHANGED <<slowest, now, sentAt, queue, busyFor, finished, lost>>

\* An Ack or Term settles the message, a Nak makes it due; the answer of any
\* attempt counts while the message is open.
Answer(call) ==
  state' = IF state \notin {"pending", "due"} THEN state
           ELSE IF call = "nak" THEN "due" ELSE "settled"

\* The callback is done with its head and starts on the next message.
Advance(i) ==
  /\ i \in Busy
  /\ queue' = [queue EXCEPT ![i] = Tail(@)]
  /\ busyFor' = [busyFor EXCEPT ![i] = 0]
  /\ UNCHANGED <<slowest, now, sentAt>>

\* The callback of another message returns.
ReturnOther(i) ==
  /\ Advance(i)
  /\ Head(queue[i]) = Another
  /\ UNCHANGED <<state, finished, lost>>

\* Faulty variant: the answer goes out while the handler is still at work.
ReturnAnswersEarly(i, call) ==
  /\ i \in Busy
  /\ Head(queue[i]) # Another
  /\ Answer(call)
  /\ UNCHANGED <<slowest, now, sentAt, queue, busyFor, finished, lost>>

\* Faulty variant: a success returns without its Ack.
ReturnForgetsAck(i, call) ==
  /\ Advance(i)
  /\ Head(queue[i]) # Another
  /\ finished' = IF call = "nak" THEN finished ELSE finished + 1
  /\ IF call = "ack" THEN UNCHANGED state ELSE Answer(call)
  /\ UNCHANGED lost

\* The handler returns and handleDelivery calls Ack, Term or Nak, which may
\* get lost.
Return(i, call) ==
  /\ Advance(i)
  /\ Head(queue[i]) # Another
  /\ finished' = IF call = "nak" THEN finished ELSE finished + 1
  /\ \/ Answer(call) /\ UNCHANGED lost
     \/ lost' = TRUE /\ UNCHANGED state

\* Time passes, while no callback is at its limit.
Tick ==
  /\ now < MaxTime
  /\ \A i \in Busy : busyFor[i] < slowest
  /\ now' = now + 1
  /\ busyFor' = [i \in Instances |-> IF i \in Busy THEN busyFor[i] + 1 ELSE 0]
  /\ UNCHANGED <<slowest, sentAt, state, queue, finished, lost>>
-----------------------------------------------------------------------------
Next == \/ \E i \in Instances : DeliverOther(i) \/ Deliver(i) \/ ReturnOther(i)
        \/ \E i \in Instances, call \in {"ack", "term", "nak"} : Return(i, call)
        \/ Expire
        \/ Exhaust
        \/ Tick

Spec == Init /\ [][Next]_vars
-----------------------------------------------------------------------------
(* Properties *)

TypeOK ==
  /\ slowest \in HandlerTimes
  /\ now \in 0..MaxTime
  /\ sentAt \in Seq(0..now)
  /\ Attempts <= MaxDeliver
  /\ state \in {"due", "pending", "settled", "exhausted"}
  /\ queue \in [Instances -> Seq(0..Attempts)]
  /\ \A i \in Instances : Len(queue[i]) <= Cap
  /\ busyFor \in [Instances -> 0..slowest]
  /\ finished \in Nat
  /\ lost \in BOOLEAN

\* A full buffer of callbacks is done before the shortest entry of the
\* schedule is over.
InTime == \A k \in DOMAIN BackOff : Cap * slowest < BackOff[k]

\* The places, in the processes' queues, that hold an attempt.
Held == {h \in Instances \X (1..Cap) :
           h[2] <= Len(queue[h[1]]) /\ queue[h[1]][h[2]] # Another}

\* If a full buffer is handled within every entry of the schedule, only one
\* process has the message, once: no two calls for it overlap and none is
\* queued behind another.  A short handler is not enough, as the schedule
\* runs while the message waits behind others.
NoOverlap == InTime => \A g, h \in Held : g = h

\* Under the same bound, and as long as no answer gets lost, a message whose
\* handler succeeded, or refused it for good, is never handled again.
NoNeedlessRepeat == InTime /\ ~lost => finished <= 1

\* A Nak'd message is "redelivered per backoff schedule".
NakFollowsSchedule ==
  \A k \in 1..(Attempts - 1) : sentAt[k + 1] - sentAt[k] >= Wait(k)
=============================================================================
