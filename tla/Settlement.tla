----------------------------- MODULE Settlement -----------------------------
(***************************************************************************)
(* What a durable consumer of the package promises for each message of its *)
(* stream, without instances, buffers, acknowledgements or crashes: the    *)
(* message is attempted while it is owed, at most MaxDeliver times, and it *)
(* is closed once, for a reason: a handler succeeded, the service refused  *)
(* it for good, or its attempts ran out.  Delivery.tla implements this.    *)
(***************************************************************************)
EXTENDS Naturals

CONSTANTS
  NumMsgs,      \* messages published in the run
  MaxDeliver    \* attempts per message, 0 = unlimited

VARIABLES
  stored,       \* messages 1..stored are in the stream
  tries,        \* [1..NumMsgs -> Nat] attempts made
  handled,      \* messages a handler returned nil for
  rejected,     \* messages the service refused for good
  outcome       \* [1..NumMsgs -> Outcome]

vars == <<stored, tries, handled, rejected, outcome>>

Outcome == {"owed", "done", "refused", "dropped"}

Init ==
  /\ stored = 0
  /\ tries = [m \in 1..NumMsgs |-> 0]
  /\ handled = {}
  /\ rejected = {}
  /\ outcome = [m \in 1..NumMsgs |-> "owed"]

Store ==
  /\ stored < NumMsgs
  /\ stored' = stored + 1
  /\ UNCHANGED <<tries, handled, rejected, outcome>>

\* Attempts are made only while the message is owed and within MaxDeliver.
Attempt(m) ==
  /\ m <= stored
  /\ outcome[m] = "owed"
  /\ MaxDeliver > 0 => tries[m] < MaxDeliver
  /\ tries' = [tries EXCEPT ![m] = tries[m] + 1]
  /\ UNCHANGED <<stored, handled, rejected, outcome>>

\* A handler call of some attempt returns nil.  An attempt can outlive the
\* message's outcome: delivery is at least once.
Handle(m) ==
  /\ tries[m] > 0
  /\ handled' = handled \cup {m}
  /\ UNCHANGED <<stored, tries, rejected, outcome>>

Reject(m) ==
  /\ tries[m] > 0
  /\ rejected' = rejected \cup {m}
  /\ UNCHANGED <<stored, tries, handled, outcome>>

Conclude(m, o) ==
  /\ outcome[m] = "owed"
  /\ outcome' = [outcome EXCEPT ![m] = o]
  /\ UNCHANGED <<stored, tries, handled>>

Complete(m) == m \in handled /\ Conclude(m, "done") /\ UNCHANGED rejected

\* The message is rejected earlier or, for want of a handler, in this step.
Refuse(m) ==
  /\ tries[m] > 0
  /\ rejected' \in {rejected, rejected \cup {m}}
  /\ m \in rejected'
  /\ Conclude(m, "refused")

GiveUp(m) ==
  /\ MaxDeliver > 0
  /\ tries[m] >= MaxDeliver
  /\ Conclude(m, "dropped")
  /\ UNCHANGED rejected

Next == \/ Store
        \/ \E m \in 1..NumMsgs : \/ Attempt(m)
                                 \/ Handle(m)
                                 \/ Reject(m)
                                 \/ Complete(m)
                                 \/ Refuse(m)
                                 \/ GiveUp(m)

Spec == Init /\ [][Next]_vars
=============================================================================
