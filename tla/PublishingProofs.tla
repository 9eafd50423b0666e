-------------------------- MODULE PublishingProofs --------------------------
(* Theorems about Publishing, for any events, rows and number of faults. *)
EXTENDS Publishing, TLAPS, FiniteSetTheorems

\* What a message says of the call that sent it.
LEMMA MessageFields ==
  ASSUME NEW e, NEW n
  PROVE  /\ Message(e, n).event = e
         /\ Message(e, n).try = n
         /\ Message(e, n).id = Ident(e, n)
  BY DEF Message

\* A message names the event and the call it is from.
LEMMA MessageOfCall ==
  ASSUME NEW m \in Messages
  PROVE  /\ m.event \in Events
         /\ m.try \in 1..(MaxFaults + 1)
         /\ m = Message(m.event, m.try)
<1>1. PICK e \in Events, n \in 1..(MaxFaults + 1) : m = Message(e, n)
  BY DEF Messages
<1>2. QED
  BY <1>1, MessageFields

\* Storing a message leaves the rest of the stream as it is.
LEMMA LogGrows ==
  ASSUME NEW S, NEW s \in Seq(S), NEW m \in S
  PROVE  /\ Append(s, m) \in Seq(S)
         /\ DOMAIN Append(s, m) = DOMAIN s \cup {Len(s) + 1}
         /\ Len(s) + 1 \notin DOMAIN s
         /\ \A k \in DOMAIN s : Append(s, m)[k] = s[k] /\ s[k] \in S
         /\ Append(s, m)[Len(s) + 1] = m
<1>1. /\ Append(s, m) \in Seq(S)
      /\ DOMAIN s = 1..Len(s) /\ Len(s) \in Nat
      /\ DOMAIN Append(s, m) = 1..(Len(s) + 1)
      /\ \A k \in 1..Len(s) : Append(s, m)[k] = s[k] /\ s[k] \in S
      /\ Append(s, m)[Len(s) + 1] = m
  OBVIOUS
<1>2. QED
  BY <1>1

\* Which of the service's calls carry an id of their own never changes, so a
\* message is the same in every state.
LEMMA SameMessages ==
  ASSUME [Next]_vars
  PROVE  /\ keyed' = keyed
         /\ Messages' = Messages
         /\ \A e, n : Message(e, n)' = Message(e, n)
<1>1. keyed' = keyed
  BY DEF Next, Caller, vars, Wire, Publish, Refuse, Acked, TimeOut, PublishRaw,
         PublishRawTooEarly, MarkSent, SendMessage, Store, LoseMessage, LoseAck,
         Crash
<1>2. QED
  BY <1>1 DEF Messages, Message, Ident, NoId
-----------------------------------------------------------------------------
(* Types, and how often a call is made *)

\* The latest call has succeeded, or its message or acknowledgement is on its
\* way.
Hopeful(e) == call[e] = "nil" \/ (call[e] = "waiting" /\ ~Hopeless(e))

\* Every call but the latest has cost a fault, and the latest has too once
\* nothing can come of it.
TriesCostFaults ==
  \A e \in Events : /\ tries[e] <= faults + 1
                    /\ ~Hopeful(e) => tries[e] <= faults

PublishingInv == TypeOK /\ TriesCostFaults

\* The types hold, and retries are bounded by what goes wrong.
LEMMA TypesAndTries == Spec => []PublishingInv
<1>1. Init => PublishingInv
  <2> SUFFICES ASSUME Init PROVE PublishingInv
    OBVIOUS
  <2>1. TypeOK
    <3>1. /\ keyed \subseteq Events
          /\ wire \subseteq Messages /\ log \in Seq(Messages)
          /\ acks = {} /\ sent = {}
      BY DEF Init
    <3>2. /\ call \in [Events -> CallState]
          /\ tries \in [Events -> 0..(MaxFaults + 1)]
          /\ past \in [Events -> 0..(MaxFaults + 1)]
          /\ faults \in 0..MaxFaults
      BY PublishingOK DEF Init, CallState
    <3>3. QED
      BY <3>1, <3>2 DEF Init, TypeOK
  <2>2. TriesCostFaults
    BY DEF Init, TriesCostFaults
  <2>3. QED
    BY <2>1, <2>2 DEF PublishingInv
<1>2. PublishingInv /\ [Next]_vars => PublishingInv'
  <2> SUFFICES ASSUME PublishingInv, [Next]_vars PROVE PublishingInv'
    OBVIOUS
  <2>0. /\ keyed' = keyed
        /\ Messages' = Messages
        /\ \A e, n : Message(e, n)' = Message(e, n)
    BY SameMessages
  <2> USE PublishingOK DEF PublishingInv, TypeOK, TriesCostFaults, CallState
  <2>1. CASE Wire
    BY <2>0, <2>1 DEF Wire, callVars, networkVars, counters, Hopeful, Hopeless
  <2>2. ASSUME NEW e \in Events, MayCall(e), SendMessage(e) PROVE PublishingInv'
    <3>1. ~Hopeful(e)
      BY <2>2 DEF MayCall, Hopeful
    <3>2. tries[e] + 1 \in 1..(MaxFaults + 1)
      BY <3>1
    <3>3. tries' \in [Events -> 0..(MaxFaults + 1)] /\ tries'[e] = tries[e] + 1
      BY <2>2, <3>2 DEF SendMessage
    <3>4. Message(e, tries[e] + 1) \in Messages
      BY <3>2 DEF Messages
    <3>5. TypeOK'
      BY <2>0, <2>2, <3>3, <3>4 DEF SendMessage, counters
    <3>6. Hopeful(e)'
      BY <2>0, <2>2, <3>3 DEF SendMessage, Hopeful, Hopeless
    <3>7. ASSUME NEW f \in Events \ {e}, Hopeful(f) PROVE Hopeful(f)'
      BY <2>0, <2>2, <3>7 DEF SendMessage, Hopeful, Hopeless
    <3>8. TriesCostFaults'
      BY <2>2, <3>1, <3>3, <3>6, <3>7 DEF SendMessage
    <3>9. QED
      BY <3>5, <3>8
  <2>3. ASSUME NEW e \in Events, Publish(e) PROVE PublishingInv'
    BY <2>2, <2>3 DEF Publish
  <2>4. ASSUME NEW e \in Events, PublishRaw(e) PROVE PublishingInv'
    BY <2>2, <2>4 DEF PublishRaw
  <2>5. ASSUME NEW e \in Events, call[e] = "idle", call' = [call EXCEPT ![e] = "error"],
               UNCHANGED <<keyed, wired, tries, sent, networkVars, counters, faults>>
        PROVE  PublishingInv'
    <3>1. TypeOK'
      BY <2>0, <2>5 DEF networkVars, counters
    <3>2. \A f \in Events : Hopeful(f)' = Hopeful(f)
      BY <2>0, <2>5 DEF networkVars, Hopeful, Hopeless
    <3>3. QED
      BY <2>5, <3>1, <3>2
  <2>6. ASSUME NEW e \in Events, Refuse(e) PROVE PublishingInv'
    BY <2>5, <2>6 DEF Refuse
  <2>7. ASSUME NEW e \in Events, PublishRawTooEarly(e) PROVE PublishingInv'
    BY <2>5, <2>7 DEF PublishRawTooEarly
  <2>8. ASSUME NEW m \in wire, Store(m) PROVE PublishingInv'
    <3>1. m \in Messages /\ <<m.event, m.try>> \in Events \X (1..(MaxFaults + 1))
      BY MessageOfCall
    <3>2. log' \in Seq(Messages)
      BY <2>8, <3>1, LogGrows DEF Store
    <3>3. TypeOK'
      BY <2>0, <2>8, <3>1, <3>2 DEF Store, callVars, counters
    <3>4. ASSUME NEW e \in Events, Hopeful(e) PROVE Hopeful(e)'
      <4>1. CASE Message(e, tries[e]) = m
        <5>1. m.event = e /\ m.try = tries[e]
          BY <4>1, MessageFields
        <5>2. <<e, tries[e]>> \in acks'
          BY <2>8, <5>1 DEF Store
        <5>3. QED
          BY <2>8, <3>4, <5>2 DEF Store, callVars, Hopeful, Hopeless
      <4>2. CASE Message(e, tries[e]) # m
        BY <2>0, <2>8, <3>4, <4>2 DEF Store, callVars, Hopeful, Hopeless
      <4>3. QED
        BY <4>1, <4>2
    <3>5. QED
      BY <2>8, <3>3, <3>4 DEF Store, callVars
  <2>9. ASSUME Fault, TypeOK', UNCHANGED tries PROVE PublishingInv'
    BY <2>9 DEF Fault
  <2>10. ASSUME NEW m \in wire, LoseMessage(m) PROVE PublishingInv'
    <3>1. TypeOK'
      BY <2>0, <2>10 DEF LoseMessage, Fault, callVars, counters
    <3>2. QED
      BY <2>9, <2>10, <3>1 DEF LoseMessage, callVars
  <2>11. ASSUME NEW a \in acks, LoseAck(a) PROVE PublishingInv'
    <3>1. TypeOK'
      BY <2>0, <2>11 DEF LoseAck, Fault, callVars, counters
    <3>2. QED
      BY <2>9, <2>11, <3>1 DEF LoseAck, callVars
  <2>12. ASSUME NEW e \in Events, Acked(e) PROVE PublishingInv'
    <3>1. TypeOK'
      BY <2>0, <2>12 DEF Acked, Counted
    <3>2. ASSUME NEW f \in Events, Hopeful(f) PROVE Hopeful(f)'
      BY <2>0, <2>12, <3>2 DEF Acked, Hopeful, Hopeless
    <3>3. QED
      BY <2>12, <3>1, <3>2 DEF Acked
  <2>13. ASSUME NEW e \in Events, TimeOut(e) PROVE PublishingInv'
    <3>1. TypeOK'
      BY <2>0, <2>13 DEF TimeOut, Fault, Counted, networkVars
    <3>2. CASE Fault
      BY <2>9, <2>13, <3>1, <3>2 DEF TimeOut
    <3>3. CASE Hopeless(e) /\ UNCHANGED faults
      <4>1. ~Hopeful(e)
        BY <2>13, <3>3 DEF TimeOut, Hopeful
      <4>2. ASSUME NEW f \in Events \ {e}, Hopeful(f) PROVE Hopeful(f)'
        BY <2>0, <2>13, <4>2 DEF TimeOut, Hopeful, Hopeless, networkVars
      <4>3. QED
        BY <2>13, <3>1, <3>3, <4>1, <4>2 DEF TimeOut
    <3>4. QED
      BY <2>13, <3>2, <3>3 DEF TimeOut
  <2>14. ASSUME NEW e \in Events, MarkSent(e) PROVE PublishingInv'
    BY <2>0, <2>14 DEF MarkSent, networkVars, counters, Hopeful, Hopeless
  <2>15. CASE Crash
    <3>1. call' \in [Events -> CallState]
      BY <2>15 DEF Crash
    <3>2. TypeOK'
      <4>1. faults' \in 0..MaxFaults
        BY <2>15 DEF Crash, Fault
      <4>2. acks' \subseteq Events \X (1..(MaxFaults + 1))
        BY <2>15 DEF Crash
      <4>3. QED
        BY <2>0, <2>15, <3>1, <4>1, <4>2 DEF Crash
    <3>3. QED
      BY <2>9, <2>15, <3>2 DEF Crash
  <2>16. CASE UNCHANGED vars
    BY <2>0, <2>16 DEF vars, callVars, networkVars, counters, Hopeful, Hopeless
  <2>17. QED
    BY <2>1, <2>3, <2>4, <2>6, <2>7, <2>8, <2>10, <2>11, <2>12, <2>13, <2>14,
       <2>15, <2>16
    DEF Next, Caller
<1>3. QED
  BY <1>1, <1>2, PTL DEF Spec

\* Every variable keeps its type; in particular no event is published more
\* often than MaxFaults + 1 times.
THEOREM PublishingTypeCorrect == Spec => []TypeOK
  BY TypesAndTries, PTL DEF PublishingInv
-----------------------------------------------------------------------------
(* The stream *)

\* The message of try n of event e is entry k of the stream.
IsCopy(k, e, n) == log[k].event = e /\ log[k].try = n

\* What a step does to the stream: nothing, or it stores a message.
LEMMA LogStep ==
  ASSUME TypeOK, [Next]_vars
  PROVE  \/ log' = log /\ wire' \subseteq wire
         \/ /\ log' = log
            /\ \E e \in Events : MayCall(e) /\ SendMessage(e)
         \/ \E m \in wire : Store(m)
<1>1. CASE Wire \/ Crash \/ UNCHANGED vars
  BY <1>1 DEF Wire, Crash, vars, networkVars
<1>2. ASSUME NEW e \in Events, Publish(e) \/ PublishRaw(e)
      PROVE  MayCall(e) /\ SendMessage(e) /\ log' = log
  BY <1>2 DEF Publish, PublishRaw, SendMessage
<1>3. ASSUME NEW e \in Events,
             Refuse(e) \/ Acked(e) \/ TimeOut(e) \/ PublishRawTooEarly(e) \/ MarkSent(e)
      PROVE  log' = log /\ wire' = wire
  BY <1>3 DEF Refuse, Acked, TimeOut, PublishRawTooEarly, MarkSent, networkVars
<1>4. ASSUME NEW m \in wire, LoseMessage(m) PROVE log' = log /\ wire' \subseteq wire
  BY <1>4 DEF LoseMessage
<1>5. ASSUME NEW a \in acks, LoseAck(a) PROVE log' = log /\ wire' = wire
  BY <1>5 DEF LoseAck
<1>6. QED
  BY <1>1, <1>2, <1>3, <1>4, <1>5 DEF Next, Caller

\* The stream only grows.
LEMMA LogKept ==
  ASSUME TypeOK, [Next]_vars
  PROVE  /\ DOMAIN log \subseteq DOMAIN log'
         /\ \A k \in DOMAIN log : log'[k] = log[k]
<1>1. CASE log' = log
  BY <1>1
<1>2. ASSUME NEW m \in wire, Store(m) 
      PROVE  /\ DOMAIN log \subseteq DOMAIN log'
             /\ \A k \in DOMAIN log : log'[k] = log[k]
  BY <1>2, LogGrows DEF Store, TypeOK
<1>3. QED
  BY <1>1, <1>2, LogStep

\* An acknowledgement on its way is for a message in the stream.
AcksStored ==
  \A a \in acks : \E k \in DOMAIN log : IsCopy(k, a[1], a[2])

NilInv == AcksStored /\ NilMeansStored

\* What Publish or PublishRaw returned nil for, and what the relay has marked
\* as sent, is in the stream, whatever is lost, late or interrupted.
THEOREM NilIsStored == Spec => []NilMeansStored
<1>1. Init => NilInv
  BY DEF Init, NilInv, AcksStored, NilMeansStored
<1>2. TypeOK /\ TypeOK' /\ NilInv /\ [Next]_vars => NilInv'
  <2> SUFFICES ASSUME TypeOK, TypeOK', NilInv, [Next]_vars PROVE NilInv'
    OBVIOUS
  <2> USE DEF NilInv, IsCopy, Copies
  <2>0. /\ DOMAIN log \subseteq DOMAIN log'
        /\ \A k \in DOMAIN log : log'[k] = log[k]
    BY LogKept
  <2>1. ASSUME acks' \subseteq acks PROVE AcksStored'
    BY <2>0, <2>1 DEF AcksStored
  <2>2. ASSUME UNCHANGED sent,
               \A e \in Events : call'[e] = "nil" => call[e] = "nil" /\ tries'[e] = tries[e]
        PROVE  NilMeansStored'
    BY <2>0, <2>2 DEF NilMeansStored
  <2>3. CASE Wire
    BY <2>1, <2>2, <2>3 DEF Wire, callVars, networkVars
  <2>4. ASSUME NEW e \in Events, SendMessage(e) PROVE NilInv'
    <3>1. \A f \in Events : call'[f] = "nil" => call[f] = "nil" /\ tries'[f] = tries[f]
      BY <2>4 DEF SendMessage, TypeOK
    <3>2. QED
      BY <2>1, <2>2, <2>4, <3>1 DEF SendMessage
  <2>5. ASSUME NEW e \in Events, call' = [call EXCEPT ![e] = "error"],
               UNCHANGED <<tries, sent, acks>>
        PROVE  NilInv'
    <3>1. \A f \in Events : call'[f] = "nil" => call[f] = "nil"
      BY <2>5 DEF TypeOK
    <3>2. QED
      BY <2>1, <2>2, <2>5, <3>1
  <2>6. ASSUME NEW m \in wire, Store(m) PROVE NilInv'
    <3>1. m \in Messages
      BY DEF TypeOK
    <3>2. Len(log) + 1 \in DOMAIN log' /\ log'[Len(log) + 1] = m
      BY <2>6, <3>1, LogGrows DEF Store, TypeOK
    <3>3. AcksStored'
      BY <2>0, <2>6, <3>2 DEF AcksStored, Store
    <3>4. QED
      BY <2>2, <2>6, <3>3 DEF Store, callVars
  <2>7. ASSUME NEW m \in wire, LoseMessage(m) PROVE NilInv'
    BY <2>1, <2>2, <2>7 DEF LoseMessage, callVars
  <2>8. ASSUME NEW a \in acks, LoseAck(a) PROVE NilInv'
    BY <2>1, <2>2, <2>8 DEF LoseAck, callVars
  <2>9. ASSUME NEW e \in Events, Acked(e) PROVE NilInv'
    <3>1. \E k \in DOMAIN log : IsCopy(k, e, tries[e])
      BY <2>9 DEF Acked, AcksStored
    <3>2. \A f \in Events \ {e} : call'[f] = call[f]
      BY <2>9 DEF Acked, TypeOK
    <3>3. NilMeansStored'
      BY <2>0, <2>9, <3>1, <3>2 DEF Acked, NilMeansStored
    <3>4. QED
      BY <2>1, <2>9, <3>3 DEF Acked
  <2>10. ASSUME NEW e \in Events, MarkSent(e) PROVE NilInv'
    <3>1. \E k \in DOMAIN log : IsCopy(k, e, tries[e])
      BY <2>10 DEF MarkSent, NilMeansStored
    <3>2. NilMeansStored'
      BY <2>0, <2>10, <3>1 DEF MarkSent, NilMeansStored
    <3>3. QED
      BY <2>1, <2>10, <3>2 DEF MarkSent, networkVars
  <2>11. CASE Crash
    <3>1. \A f \in Events : call'[f] = "nil" => call[f] = "nil"
      BY <2>11 DEF Crash, TypeOK
    <3>2. QED
      BY <2>1, <2>2, <2>11, <3>1 DEF Crash
  <2>12. CASE UNCHANGED vars
    BY <2>1, <2>2, <2>12 DEF vars, callVars, networkVars
  <2>13. QED
    BY <2>3, <2>4, <2>5, <2>6, <2>7, <2>8, <2>9, <2>10, <2>11, <2>12
    DEF Next, Caller, Publish, Refuse, TimeOut, PublishRaw, PublishRawTooEarly,
        networkVars
<1>3. NilInv => NilMeansStored
  BY DEF NilInv
<1>4. QED
  BY <1>1, <1>2, <1>3, PublishingTypeCorrect, PTL DEF Spec
-----------------------------------------------------------------------------
(* Copies of an event *)

\* The tries made so far.
Made == {c \in Events \X Nat : 1 <= c[2] /\ c[2] <= tries[c[1]]}

\* Every try is stored at most once: the message of a try is on the wire or in
\* the stream, not both, and only if the try was made.
StoredOnce ==
  /\ \A j, k \in DOMAIN log :
       log[j].event = log[k].event /\ log[j].try = log[k].try => j = k
  /\ \A m \in wire, k \in DOMAIN log : ~IsCopy(k, m.event, m.try)
  /\ \A m \in wire : <<m.event, m.try>> \in Made
  /\ \A k \in DOMAIN log : <<log[k].event, log[k].try>> \in Made

\* The server never stores the message of a try twice.
LEMMA TriesStoredOnce == Spec => []StoredOnce
<1>1. Init => StoredOnce
  BY DEF Init, StoredOnce
<1>2. TypeOK /\ TypeOK' /\ StoredOnce /\ [Next]_vars => StoredOnce'
  <2> SUFFICES ASSUME TypeOK, TypeOK', StoredOnce, [Next]_vars PROVE StoredOnce'
    OBVIOUS
  <2> USE DEF IsCopy
  <2>0. tries \in [Events -> Nat] /\ tries' \in [Events -> Nat]
    BY PublishingOK DEF TypeOK
  <2>1. tries' = tries \/ \E e \in Events : SendMessage(e)
    BY DEF Next, Caller, vars, Wire, Publish, Refuse, Acked, TimeOut, PublishRaw,
           PublishRawTooEarly, MarkSent, Store, LoseMessage, LoseAck, Crash, callVars
  <2>2. Made \subseteq Made'
    BY <2>0, <2>1 DEF Made, SendMessage
  <2>3. CASE log' = log /\ wire' \subseteq wire
    BY <2>2, <2>3 DEF StoredOnce
  <2>4. ASSUME NEW e \in Events, SendMessage(e), log' = log PROVE StoredOnce'
    <3> DEFINE m == Message(e, tries[e] + 1)
    <3>1. wire' = wire \cup {m} /\ m.event = e /\ m.try = tries[e] + 1
      BY <2>4, MessageFields DEF SendMessage
    <3>2. <<e, tries[e] + 1>> \in Made' /\ <<e, tries[e] + 1>> \notin Made
      BY <2>0, <2>4 DEF SendMessage, Made
    <3> HIDE DEF m
    <3>3. \A k \in DOMAIN log : ~IsCopy(k, m.event, m.try)
      BY <3>1, <3>2 DEF StoredOnce
    <3>4. QED
      BY <2>2, <2>4, <3>1, <3>2, <3>3 DEF StoredOnce
  <2>5. ASSUME NEW m \in wire, Store(m) PROVE StoredOnce'
    <3>1. m \in Messages /\ m = Message(m.event, m.try)
      BY MessageOfCall DEF TypeOK
    <3>2. /\ DOMAIN log' = DOMAIN log \cup {Len(log) + 1}
          /\ \A k \in DOMAIN log : log'[k] = log[k]
          /\ log'[Len(log) + 1] = m
      BY <2>5, <3>1, LogGrows DEF Store, TypeOK
    <3>3. \A n \in wire : n.event = m.event /\ n.try = m.try => n = m
      BY <3>1, MessageOfCall DEF TypeOK
    <3>4. wire' = wire \ {m}
      BY <2>5 DEF Store
    <3>5. QED
      BY <2>2, <3>2, <3>3, <3>4 DEF StoredOnce
  <2>6. QED
    BY <2>3, <2>4, <2>5, LogStep
<1>3. QED
  BY <1>1, <1>2, PublishingTypeCorrect, PTL DEF Spec

\* Copies that retries stored carry one id exactly when the event has an id of
\* its own.
THEOREM CopiesRecognisable == Spec => []CopiesShareId
<1>1. TypeOK /\ StoredOnce => CopiesShareId
  <2> SUFFICES ASSUME TypeOK, StoredOnce, NEW e \in Events,
                      NEW j \in Copies(e), NEW k \in Copies(e), j # k
               PROVE  log[j].id = log[k].id /\ log[j].id # NoId <=> e \in keyed
    BY DEF CopiesShareId
  <2>1. log[j] \in Messages /\ log[k] \in Messages
    BY DEF TypeOK, Copies
  <2>2. /\ log[j] = Message(e, log[j].try)
        /\ log[k] = Message(e, log[k].try)
    BY <2>1, MessageOfCall DEF Copies
  <2>3. log[j].id = Ident(e, log[j].try) /\ log[k].id = Ident(e, log[k].try)
    BY <2>2, MessageFields
  <2>4. log[j].try # log[k].try
    BY DEF StoredOnce, Copies
  <2>5. <<e, 0>> # NoId
    BY DEF NoId
  <2>6. QED
    BY <2>3, <2>4, <2>5 DEF Ident
<1>2. QED
  BY <1>1, PublishingTypeCorrect, TriesStoredOnce, PTL
-----------------------------------------------------------------------------
(* The counters *)

\* Events for which a call of Publish of the running process returned nil.
Done == {e \in Events \ Rows : call[e] = "nil" /\ past[e] < tries[e]}

CountInv ==
  /\ Cardinality(Sending) = succeeded + failed + Cardinality(Waiting)
  /\ succeeded = Cardinality(Done)
  /\ \A e \in Events : past[e] <= tries[e]
  /\ \A e \in Waiting : past[e] < tries[e]

\* What is counted is finite.
LEMMA CountedFinite ==
  ASSUME TypeOK
  PROVE  /\ IsFiniteSet(Sending) /\ Cardinality(Sending) \in Nat
         /\ IsFiniteSet(Waiting) /\ Cardinality(Waiting) \in Nat
         /\ IsFiniteSet(Done) /\ Cardinality(Done) \in Nat
         /\ IsFiniteSet(Stored) /\ Cardinality(Stored) \in Nat
<1>1. IsFiniteSet(Events \ Rows) /\ IsFiniteSet(1..(MaxFaults + 1))
  BY PublishingOK, FS_Subset, FS_Interval
<1>2. IsFiniteSet((Events \ Rows) \X (1..(MaxFaults + 1)))
  BY <1>1, FS_Product
<1>3. Sending \subseteq (Events \ Rows) \X (1..(MaxFaults + 1))
  BY DEF Sending
<1>4. Waiting \subseteq Events \ Rows /\ Done \subseteq Events \ Rows
  BY DEF Waiting, Done
<1>5. DOMAIN log = 1..Len(log) /\ Len(log) \in Nat
  BY DEF TypeOK
<1>6. IsFiniteSet(DOMAIN log)
  BY <1>5, FS_Interval
<1>7. Stored \subseteq DOMAIN log
  BY DEF Stored
<1>8. IsFiniteSet(Sending) /\ IsFiniteSet(Waiting) /\ IsFiniteSet(Done) /\ IsFiniteSet(Stored)
  BY <1>1, <1>2, <1>3, <1>4, <1>6, <1>7, FS_Subset
<1>9. QED
  BY <1>8, FS_CardinalityType

\* Calls that are not counted leave the counted ones alone.
LEMMA NotCounted ==
  ASSUME UNCHANGED <<succeeded, failed, past>>, CountInv,
         \A e \in Events : tries[e] \in Nat /\ tries'[e] \in Nat /\ past[e] \in Nat,
         \A e \in Events : tries[e] <= tries'[e],
         \A e \in Events \ Rows : tries'[e] = tries[e] /\ call'[e] = call[e]
  PROVE  CountInv'
<1>1. Sending' = Sending
  BY DEF Sending
<1>2. Waiting' = Waiting /\ Done' = Done
  BY DEF Waiting, Done
<1>3. /\ \A e \in Events : past'[e] <= tries'[e]
      /\ \A e \in Waiting : past'[e] < tries'[e]
  BY DEF CountInv, Waiting
<1>4. QED
  BY <1>1, <1>2, <1>3 DEF CountInv

\* The end of a call of Publish moves its event from the waiting ones.
LEMMA CallEnds ==
  ASSUME TypeOK, TypeOK', NEW e \in Events \ Rows, call[e] = "waiting",
         UNCHANGED <<tries, past>>, past[e] < tries[e],
         NEW r \in {"nil", "error"}, call' = [call EXCEPT ![e] = r]
  PROVE  /\ Sending' = Sending
         /\ Cardinality(Waiting') = Cardinality(Waiting) - 1
         /\ Cardinality(Done') = IF r = "nil" THEN Cardinality(Done) + 1
                                 ELSE Cardinality(Done)
<1>1. Sending' = Sending
  BY DEF Sending
<1>2. e \in Waiting /\ e \notin Done
  BY DEF Waiting, Done
<1>3. Waiting' = Waiting \ {e}
  BY DEF Waiting, TypeOK
<1>4. Done' = IF r = "nil" THEN Done \cup {e} ELSE Done
  BY DEF Done, TypeOK
<1>5. Cardinality(Waiting') = Cardinality(Waiting) - 1
  BY <1>2, <1>3, CountedFinite, FS_RemoveElement
<1>6. Cardinality(Done \cup {e}) = Cardinality(Done) + 1
  BY <1>2, CountedFinite, FS_AddElement
<1>7. QED
  BY <1>1, <1>4, <1>5, <1>6

\* Every call of the running process that sent a message is counted once or
\* waiting.
LEMMA CallsCounted == Spec => []CountInv
<1>1. Init => CountInv
  <2> SUFFICES ASSUME Init PROVE CountInv
    OBVIOUS
  <2>1. Sending = {} /\ Waiting = {} /\ Done = {}
    BY PublishingOK DEF Init, Sending, Waiting, Done
  <2>2. QED
    BY <2>1, FS_EmptySet DEF CountInv, Init
<1>2. TypeOK /\ TypeOK' /\ CountInv /\ [Next]_vars => CountInv'
  <2> SUFFICES ASSUME TypeOK, TypeOK', CountInv, [Next]_vars PROVE CountInv'
    OBVIOUS
  <2>0. /\ succeeded \in Nat /\ failed \in Nat
        /\ Cardinality(Sending) \in Nat
        /\ Cardinality(Waiting) \in Nat
        /\ Cardinality(Done) \in Nat
    BY CountedFinite DEF TypeOK
  <2>a. \A e \in Events : tries[e] \in Nat /\ tries'[e] \in Nat /\ past[e] \in Nat
    BY PublishingOK DEF TypeOK
  <2>1. CASE Wire
    BY <2>a, <2>1, NotCounted DEF Wire, callVars, counters
  <2>2. ASSUME NEW e \in Events, MayCall(e), SendMessage(e) PROVE CountInv'
    <3>1. CASE e \in Rows
      <4>1. /\ \A f \in Events \ Rows : tries'[f] = tries[f] /\ call'[f] = call[f]
            /\ \A f \in Events : tries[f] <= tries'[f]
        BY <2>2, <2>a, <3>1 DEF SendMessage, TypeOK
      <4>2. QED
        BY <2>2, <2>a, <4>1, NotCounted DEF SendMessage, counters
    <3>2. CASE e \notin Rows
      <4> DEFINE c == <<e, tries[e] + 1>>
      <4>1. tries[e] + 1 \in 1..(MaxFaults + 1) /\ tries \in [Events -> Nat]
        BY <2>2, PublishingOK DEF SendMessage, TypeOK
      <4>2. Sending' = Sending \cup {c}
        <5>1. /\ past' = past /\ past[e] <= tries[e]
              /\ tries'[e] = tries[e] + 1 /\ \A f \in Events \ {e} : tries'[f] = tries[f]
          BY <2>2, <4>1 DEF SendMessage, counters, CountInv
        <5>2. ASSUME NEW d \in (Events \ Rows) \X (1..(MaxFaults + 1))
              PROVE  d \in Sending' <=> d \in Sending \/ d = c
          <6>1. d = <<d[1], d[2]>> /\ d[1] \in Events /\ d[2] \in Nat
            OBVIOUS
          <6>2. d \in Sending' <=> past[d[1]] < d[2] /\ d[2] <= tries'[d[1]]
            BY <5>1 DEF Sending
          <6>3. QED
            BY <2>a, <5>1, <6>1, <6>2 DEF Sending
        <5>3. c \in (Events \ Rows) \X (1..(MaxFaults + 1))
          BY <3>2, <4>1
        <5>4. QED
          BY <5>2, <5>3 DEF Sending
      <4>3. c \notin Sending
        BY <4>1 DEF Sending
      <4>4. Cardinality(Sending') = Cardinality(Sending) + 1
        BY <4>2, <4>3, CountedFinite, FS_AddElement
      <4>5. Waiting' = Waiting \cup {e} /\ e \notin Waiting
        BY <2>2, <3>2 DEF SendMessage, Waiting, MayCall, TypeOK
      <4>6. Cardinality(Waiting') = Cardinality(Waiting) + 1
        BY <4>5, CountedFinite, FS_AddElement
      <4>7. Done' = Done
        BY <2>2 DEF SendMessage, Done, MayCall, TypeOK, counters
      <4>8. /\ \A f \in Events : past'[f] <= tries'[f]
            /\ \A f \in Waiting' : past'[f] < tries'[f]
        BY <2>2, <2>a, <4>5 DEF SendMessage, counters, CountInv, Waiting, TypeOK
      <4>9. QED
        BY <2>0, <2>2, <4>4, <4>6, <4>7, <4>8 DEF SendMessage, counters, CountInv
    <3>3. QED
      BY <3>1, <3>2
  <2>3. ASSUME NEW e \in Events, call[e] = "idle", call' = [call EXCEPT ![e] = "error"],
               UNCHANGED <<tries, counters>>
        PROVE  CountInv'
    <3>1. Sending' = Sending /\ Waiting' = Waiting /\ Done' = Done
      BY <2>3 DEF Sending, Waiting, Done, TypeOK, counters
    <3>2. QED
      BY <2>3, <3>1 DEF CountInv, counters
  <2>4. ASSUME NEW m \in wire, Store(m) \/ LoseMessage(m) PROVE CountInv'
    BY <2>a, <2>4, NotCounted DEF Store, LoseMessage, callVars, counters
  <2>5. ASSUME NEW a \in acks, LoseAck(a) PROVE CountInv'
    BY <2>a, <2>5, NotCounted DEF LoseAck, callVars, counters
  <2>6. ASSUME NEW e \in Events, Acked(e) PROVE CountInv'
    <3>1. CASE e \in Rows
      <4>1. \A f \in Events \ Rows : call'[f] = call[f]
        BY <2>6, <3>1 DEF Acked, TypeOK
      <4>2. QED
        BY <2>0, <2>a, <2>6, <3>1, <4>1, NotCounted DEF Acked, Counted
    <3>2. CASE e \notin Rows
      <4>1. /\ Sending' = Sending
            /\ Cardinality(Waiting') = Cardinality(Waiting) - 1
            /\ Cardinality(Done') = Cardinality(Done) + 1
        BY <2>6, <3>2, CallEnds DEF Acked, CountInv, Waiting
      <4>2. \A f \in Waiting' : past'[f] < tries'[f]
        BY <2>6 DEF Acked, CountInv, Waiting, TypeOK
      <4>3. QED
        BY <2>0, <2>6, <3>2, <4>1, <4>2 DEF Acked, Counted, CountInv
    <3>3. QED
      BY <3>1, <3>2
  <2>7. ASSUME NEW e \in Events, TimeOut(e) PROVE CountInv'
    <3>1. CASE e \in Rows
      <4>1. \A f \in Events \ Rows : call'[f] = call[f]
        BY <2>7, <3>1 DEF TimeOut, TypeOK
      <4>2. QED
        BY <2>0, <2>a, <2>7, <3>1, <4>1, NotCounted DEF TimeOut, Counted
    <3>2. CASE e \notin Rows
      <4>1. /\ Sending' = Sending
            /\ Cardinality(Waiting') = Cardinality(Waiting) - 1
            /\ Cardinality(Done') = Cardinality(Done)
        BY <2>7, <3>2, CallEnds DEF TimeOut, CountInv, Waiting
      <4>2. \A f \in Waiting' : past'[f] < tries'[f]
        BY <2>7 DEF TimeOut, CountInv, Waiting, TypeOK
      <4>3. QED
        BY <2>0, <2>7, <3>2, <4>1, <4>2 DEF TimeOut, Counted, CountInv
    <3>3. QED
      BY <3>1, <3>2
  <2>8. ASSUME NEW e \in Events, MarkSent(e) PROVE CountInv'
    BY <2>a, <2>8, NotCounted DEF MarkSent, counters
  <2>9. CASE Crash
    <3>1. Waiting' = {} /\ Done' = {} /\ Sending' = {}
      BY <2>9, <2>a DEF Crash, Waiting, Done, Sending
    <3>2. \A e \in Events : past'[e] <= tries'[e]
      BY <2>9, <2>a DEF Crash
    <3>3. QED
      BY <2>9, <3>1, <3>2, FS_EmptySet DEF Crash, CountInv
  <2>10. CASE UNCHANGED vars
    BY <2>a, <2>10, NotCounted DEF vars, callVars, counters
  <2>11. QED
    BY <2>1, <2>2, <2>3, <2>4, <2>5, <2>6, <2>7, <2>8, <2>9, <2>10
    DEF Next, Caller, Publish, Refuse, PublishRaw, PublishRawTooEarly
<1>3. QED
  BY <1>1, <1>2, PublishingTypeCorrect, PTL DEF Spec

\* The counters of a process bracket what it put into the stream: at least the
\* calls counted as succeeded and at most the calls that sent a message.
THEOREM CountersBracketStream == Spec => []PublishesCounted
<1>1. ASSUME TypeOK, NilMeansStored PROVE Cardinality(Done) <= Cardinality(Stored)
  <2> DEFINE f == [e \in Done |-> CHOOSE k \in Copies(e) : log[k].try = tries[e]]
  <2>1. ASSUME NEW e \in Done PROVE f[e] \in Stored /\ log[f[e]].event = e
    <3>1. e \notin Rows /\ \E k \in Copies(e) : log[k].try = tries[e]
      BY <1>1 DEF Done, NilMeansStored
    <3>2. f[e] \in Copies(e) /\ log[f[e]].try = tries[e]
      BY <3>1
    <3>3. QED
      BY <3>1, <3>2 DEF Copies, Stored, Done
  <2>2. f \in [Done -> Stored]
    BY <2>1
  <2>3. \A d, e \in Done : f[d] = f[e] => d = e
    BY <2>1
  <2> HIDE DEF f
  <2>4. f \in Injection(Done, Stored)
    BY <2>2, <2>3 DEF Injection, IsInjective
  <2>5. QED
    BY <1>1, <2>4, CountedFinite, FS_Injection
<1>2. ASSUME TypeOK, StoredOnce PROVE Cardinality(Stored) <= Cardinality(Sending)
  <2> DEFINE g == [k \in Stored |-> <<log[k].event, log[k].try>>]
  <2>1. ASSUME NEW k \in Stored PROVE g[k] \in Sending
    <3>1. /\ log[k] \in Messages /\ k \in DOMAIN log /\ log[k].event \notin Rows
          /\ past[log[k].event] < log[k].try
      BY <1>2 DEF TypeOK, Stored
    <3>2. <<log[k].event, log[k].try>> \in Made
      BY <1>2, <3>1 DEF StoredOnce
    <3>3. QED
      BY <3>1, <3>2, MessageOfCall DEF Sending, Made
  <2>2. g \in [Stored -> Sending]
    BY <2>1
  <2>3. \A j, k \in Stored : g[j] = g[k] => j = k
    BY <1>2 DEF StoredOnce, Stored
  <2> HIDE DEF g
  <2>4. g \in Injection(Stored, Sending)
    BY <2>2, <2>3 DEF Injection, IsInjective
  <2>5. QED
    BY <1>2, <2>4, CountedFinite, FS_Injection
<1>3. TypeOK /\ NilMeansStored /\ StoredOnce /\ CountInv => PublishesCounted
  BY <1>1, <1>2 DEF CountInv, PublishesCounted
<1>4. QED
  BY <1>3, PublishingTypeCorrect, NilIsStored, TriesStoredOnce, CallsCounted, PTL
=============================================================================
