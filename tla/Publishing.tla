----------------------------- MODULE Publishing -----------------------------
(***************************************************************************)
(* Publishing to a JetStream stream: Publisher.Publish, called and retried *)
(* by the service, and PublishRaw, called by the relay of an outbox        *)
(* (publisher.go, headers.go, outbox_adapter.go, metrics.go).              *)
(*                                                                         *)
(* The server and the relay are external: a message or its acknowledgement *)
(* can be lost or late, and the relay publishes a row until it could mark  *)
(* it as sent.                                                             *)
(***************************************************************************)
EXTENDS Integers, Sequences, FiniteSets

CONSTANTS
  Events,      \* what the service publishes
  Rows,        \* events stored in the outbox, published by the relay
  Unsendable,  \* events with a reserved or empty header key, or no JSON form
  MaxFaults    \* bound on losses, early timeouts and crashes

ASSUME PublishingOK ==
  /\ IsFiniteSet(Events)
  /\ Rows \subseteq Events
  /\ Unsendable \subseteq Events \ Rows
  /\ MaxFaults \in Nat

VARIABLES
  keyed,     \* events and rows that bring a ce_id header of their own
  wired,     \* Start has wired the Publisher (publishFn is set)
  call,      \* [Events -> CallState] the latest call for the event
  tries,     \* [Events -> Nat] calls that sent a message
  wire,      \* messages on their way to the server
  log,       \* the stream
  acks,      \* stored tries whose acknowledgement is on its way
  sent,      \* rows the relay has marked as sent
  succeeded, \* nats_events_publish_succeed
  failed,    \* nats_events_publish_failed
  past,      \* [Events -> Nat] tries made before the process last started
  faults     \* losses, early timeouts and crashes so far

callVars    == <<call, tries, sent>>
networkVars == <<wire, log, acks>>
counters    == <<succeeded, failed, past>>
vars        == <<keyed, wired, callVars, networkVars, counters, faults>>

CallState == {"idle", "waiting", "nil", "error"}

\* Faulty variant: an id of the caller's is replaced by a fresh one.
IdentFresh(e, try) == <<e, try>>

NoId == <<>>

\* ce_id: the one the caller or the row brings.  Without it Publish makes a
\* new UUID for every call, PublishRaw sends none.
Ident(e, try) == CASE e \in keyed        -> <<e, 0>>
                   [] e \in Rows \ keyed -> NoId
                   [] OTHER              -> <<e, try>>

Message(e, try) == [event |-> e, try |-> try, id |-> Ident(e, try)]

\* Calls of Publish are counted, calls of PublishRaw are not.
Counted(e) == IF e \in Rows THEN 0 ELSE 1

Fault ==
  /\ faults < MaxFaults
  /\ faults' = faults + 1
-----------------------------------------------------------------------------
Init ==
  /\ keyed \in SUBSET (Events \ Unsendable)
  /\ wired = FALSE
  /\ call = [e \in Events |-> "idle"]
  /\ tries = [e \in Events |-> 0]
  /\ wire = {}
  /\ log = <<>>
  /\ acks = {}
  /\ sent = {}
  /\ succeeded = 0
  /\ failed = 0
  /\ past = [e \in Events |-> 0]
  /\ faults = 0

\* Faulty variant: an error is never retried.
MayCallOnce(e) == call[e] = "idle"

\* Nobody works on the event, or the last call returned an error.
MayCall(e) == call[e] \in {"idle", "error"}

SendMessage(e) ==
  /\ call' = [call EXCEPT ![e] = "waiting"]
  /\ tries' = [tries EXCEPT ![e] = @ + 1]
  /\ wire' = wire \cup {Message(e, tries[e] + 1)}
  /\ UNCHANGED <<keyed, wired, log, acks, sent, counters, faults>>

\* Start of the service's Connection runs StreamPublisher.
Wire ==
  /\ ~wired
  /\ wired' = TRUE
  /\ UNCHANGED <<keyed, callVars, networkVars, counters, faults>>

\* Every header key is valid and the value can be marshalled.
Sendable(e) == e \notin Unsendable

\* Publish, up to the wait in js.PublishMsg.
Publish(e) ==
  /\ wired
  /\ e \notin Rows
  /\ Sendable(e)
  /\ MayCall(e)
  /\ SendMessage(e)

\* Faulty variant: a refused call is counted as failed.
RefuseCounts(e) ==
  /\ ~Sendable(e)
  /\ call[e] = "idle"
  /\ call' = [call EXCEPT ![e] = "error"]
  /\ failed' = failed + 1
  /\ UNCHANGED <<keyed, wired, tries, sent, networkVars, succeeded, past, faults>>

\* validateKey or json.Marshal fails: the error is returned and nothing is
\* sent or counted.
Refuse(e) ==
  /\ ~Sendable(e)
  /\ call[e] = "idle"
  /\ call' = [call EXCEPT ![e] = "error"]
  /\ UNCHANGED <<keyed, wired, tries, sent, networkVars, counters, faults>>

\* PublishRaw with the headers of the row and no others.
PublishRaw(e) ==
  /\ wired
  /\ e \in Rows \ sent
  /\ MayCall(e)
  /\ SendMessage(e)

\* ErrPublisherNotWired: the relay runs already and the Connection does not.
PublishRawTooEarly(e) ==
  /\ ~wired
  /\ e \in Rows \ sent
  /\ call[e] = "idle"
  /\ call' = [call EXCEPT ![e] = "error"]
  /\ UNCHANGED <<keyed, wired, tries, sent, networkVars, counters, faults>>

\* The server stores what arrives; without a Nats-Msg-Id header it does not
\* look for duplicates.
Store(m) ==
  /\ m \in wire
  /\ wire' = wire \ {m}
  /\ log' = Append(log, m)
  /\ acks' = acks \cup {<<m.event, m.try>>}
  /\ UNCHANGED <<keyed, wired, callVars, counters, faults>>

LoseMessage(m) ==
  /\ m \in wire
  /\ Fault
  /\ wire' = wire \ {m}
  /\ UNCHANGED <<keyed, wired, log, acks, callVars, counters>>

LoseAck(a) ==
  /\ a \in acks
  /\ Fault
  /\ acks' = acks \ {a}
  /\ UNCHANGED <<keyed, wired, wire, log, callVars, counters>>

\* Faulty variant: the call does not wait for the acknowledgement.
AckedEarly(e) ==
  /\ call[e] = "waiting"
  /\ call' = [call EXCEPT ![e] = "nil"]
  /\ succeeded' = succeeded + Counted(e)
  /\ UNCHANGED <<keyed, wired, tries, sent, networkVars, failed, past, faults>>

\* The acknowledgement of this very call: nil, eventPublishSucceed.
Acked(e) ==
  /\ call[e] = "waiting"
  /\ <<e, tries[e]>> \in acks
  /\ call' = [call EXCEPT ![e] = "nil"]
  /\ acks' = acks \ {<<e, tries[e]>>}
  /\ succeeded' = succeeded + Counted(e)
  /\ UNCHANGED <<keyed, wired, tries, sent, wire, log, failed, past, faults>>

\* Nothing of the call is left in the network.
Hopeless(e) ==
  /\ Message(e, tries[e]) \notin wire
  /\ <<e, tries[e]>> \notin acks

\* Faulty variant: the call gives up whenever no acknowledgement is there yet.
TimeOutAtOnce(e) ==
  /\ call[e] = "waiting"
  /\ call' = [call EXCEPT ![e] = "error"]
  /\ failed' = failed + Counted(e)
  /\ UNCHANGED <<keyed, wired, tries, sent, networkVars, succeeded, past, faults>>

\* No acknowledgement within the time allowed: error, eventPublishFailed.
\* The message may still be stored later.
TimeOut(e) ==
  /\ call[e] = "waiting"
  /\ \/ Hopeless(e) /\ UNCHANGED faults
     \/ ~Hopeless(e) /\ Fault
  /\ call' = [call EXCEPT ![e] = "error"]
  /\ failed' = failed + Counted(e)
  /\ UNCHANGED <<keyed, wired, tries, sent, networkVars, succeeded, past>>

\* The relay's transaction after PublishRaw has returned nil.
MarkSent(e) ==
  /\ e \in Rows \ sent
  /\ call[e] = "nil"
  /\ sent' = sent \cup {e}
  /\ UNCHANGED <<keyed, wired, call, tries, networkVars, counters, faults>>

\* The process dies and comes back: calls and counters are gone, rows not
\* marked as sent are published again, messages on the wire may still arrive.
Crash ==
  /\ Fault
  /\ wired' = FALSE
  /\ call' = [e \in Events |-> IF call[e] = "waiting" \/ e \in Rows \ sent
                               THEN "idle" ELSE call[e]]
  /\ acks' = {}
  /\ succeeded' = 0
  /\ failed' = 0
  /\ past' = tries
  /\ UNCHANGED <<keyed, tries, sent, wire, log>>
-----------------------------------------------------------------------------
Caller(e) == \/ Publish(e) \/ Refuse(e) \/ Acked(e) \/ TimeOut(e)
             \/ PublishRaw(e) \/ PublishRawTooEarly(e) \/ MarkSent(e)

Next == \/ Wire
        \/ \E e \in Events : Caller(e)
        \/ \E m \in wire : Store(m) \/ LoseMessage(m)
        \/ \E a \in acks : LoseAck(a)
        \/ Crash

Spec == Init /\ [][Next]_vars

\* A service that died is started again, the relay keeps going through unsent
\* rows and marks them, the network delivers what it does not lose, and
\* js.PublishMsg gives up in time.  There are at most MaxFaults failures; no
\* service has to call Publish.
Fairness ==
  /\ WF_vars(Wire)
  /\ \A e \in Events :
       /\ WF_vars(PublishRaw(e))
       /\ WF_vars(MarkSent(e))
       /\ WF_vars(\E m \in wire : m.event = e /\ Store(m))
       /\ WF_vars(Acked(e))
       /\ WF_vars(TimeOut(e))

FairSpec == Spec /\ Fairness
-----------------------------------------------------------------------------
(* Properties *)

Messages == {Message(e, n) : e \in Events, n \in 1..(MaxFaults + 1)}
Copies(e) == {k \in DOMAIN log : log[k].event = e}

\* The calls of Publish of the running process that sent a message, those that
\* have not returned, and the messages they stored.
Sending == {c \in (Events \ Rows) \X (1..(MaxFaults + 1)) :
              past[c[1]] < c[2] /\ c[2] <= tries[c[1]]}
Waiting == {e \in Events \ Rows : call[e] = "waiting"}
Stored  == {k \in DOMAIN log : /\ log[k].event \notin Rows
                               /\ past[log[k].event] < log[k].try}

TypeOK ==
  /\ keyed \subseteq Events
  /\ wired \in BOOLEAN
  /\ call \in [Events -> CallState]
  /\ tries \in [Events -> 0..(MaxFaults + 1)]
  /\ wire \subseteq Messages
  /\ log \in Seq(Messages)
  /\ acks \subseteq Events \X (1..(MaxFaults + 1))
  /\ sent \subseteq Rows
  /\ past \in [Events -> 0..(MaxFaults + 1)]
  /\ succeeded \in Nat /\ failed \in Nat
  /\ faults \in 0..MaxFaults

\* An event for which Publish returned nil, or a row marked as sent, is in
\* the stream: no lost message, stale acknowledgement of an earlier try or
\* crash between PublishRaw and the mark can lose it.
NilMeansStored ==
  \A e \in Events :
    /\ call[e] = "nil" => \E k \in Copies(e) : log[k].try = tries[e]
    /\ e \in sent => Copies(e) # {}

\* Copies stored by retries can be told to be copies exactly when the event or
\* row brings its own ce_id.  They cannot when Publish makes up the id
\* (uuid.New for every call) or PublishRaw forwards headers without one.
CopiesShareId ==
  \A e \in Events : \A j, k \in Copies(e) :
    j # k => (log[j].id = log[k].id /\ log[j].id # NoId <=> e \in keyed)

\* The publish counters of a process bracket what it put into the stream since
\* it started: every call that sent a message is counted once or still waiting,
\* and the stream holds at least the successes and at most the calls.
PublishesCounted ==
  /\ Cardinality(Sending) = succeeded + failed + Cardinality(Waiting)
  /\ succeeded <= Cardinality(Stored)
  /\ Cardinality(Stored) <= Cardinality(Sending)

\* The outbox loses nothing and the relay gets done: every row is stored and
\* marked as sent in the end.
RowsGetSent == \A e \in Rows : <>(e \in sent)
=============================================================================
