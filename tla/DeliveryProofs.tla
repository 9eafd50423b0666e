--------------------------- MODULE DeliveryProofs ---------------------------
(* Theorems about Delivery, for any number of processes and messages. *)
EXTENDS Delivery, TLAPS

\* The parts of a sequence a subscription's callback takes.
LEMMA HeadTail ==
  ASSUME NEW S, NEW s \in Seq(S), s # <<>>
  PROVE  /\ Head(s) \in S
         /\ Head(s) = s[1]
         /\ 1 \in DOMAIN s
         /\ Tail(s) \in Seq(S)
         /\ DOMAIN Tail(s) = 1..(Len(s) - 1)
         /\ \A p \in DOMAIN Tail(s) : p + 1 \in DOMAIN s /\ Tail(s)[p] = s[p + 1]
  OBVIOUS

\* What appending a delivery to a subscription's buffer does.
LEMMA Appended ==
  ASSUME NEW S, NEW s \in Seq(S), NEW e \in S
  PROVE  /\ Append(s, e) \in Seq(S)
         /\ DOMAIN Append(s, e) = 1..(Len(s) + 1)
         /\ DOMAIN s = 1..Len(s)
         /\ \A p \in DOMAIN s : Append(s, e)[p] = s[p]
         /\ Append(s, e)[Len(s) + 1] = e
  OBVIOUS

\* The state of every variable stays in its type, in every step of the server,
\* the callbacks and the processes.
THEOREM TypeCorrect == Spec => []TypeOK
<1>1. Init => TypeOK
  BY ConstantsOK DEF Init, TypeOK, Msgs, Status, ConnState, Deliveries
<1>2. TypeOK /\ [Next]_vars => TypeOK'
  <2> SUFFICES ASSUME TypeOK, [Next]_vars PROVE TypeOK'
    OBVIOUS
  <2> USE ConstantsOK
  <2> USE DEF TypeOK
  <2>1. CASE Publish
    BY <2>1 DEF Publish, clientVars, history
  <2>2. ASSUME NEW i \in Instances, Start(i) PROVE TypeOK'
    BY <2>2 DEF Start, history, ConnState
  <2>3. ASSUME NEW i \in Instances, NEW m \in Msgs, Send(i, m),
               cursor' \in 1..(NumMsgs + 1)
        PROVE  TypeOK'
    <3>1. <<m, deliveries[m] + 1>> \in Deliveries
      BY DEF Deliveries
    <3>2. Append(buf[i], <<m, deliveries[m] + 1>>) \in Seq(Deliveries)
      BY <3>1, Appended
    <3>3. buf' \in [Instances -> Seq(Deliveries)]
      BY <2>3, <3>2 DEF Send
    <3>4. QED
      BY <2>3, <3>3 DEF Send, history, Status, Open
  <2>4. ASSUME NEW i \in Instances, NEW m \in Msgs, DeliverNew(i, m)
        PROVE  TypeOK'
    <3>1. cursor' \in 1..(NumMsgs + 1)
      BY <2>4 DEF DeliverNew, Msgs
    <3>2. QED
      BY <2>3, <2>4, <3>1 DEF DeliverNew
  <2>5. ASSUME NEW i \in Instances, NEW m \in Msgs, Redeliver(i, m)
        PROVE  TypeOK'
    BY <2>3, <2>5 DEF Redeliver
  <2>6. ASSUME NEW m \in Msgs, Exhaust(m) PROVE TypeOK'
    BY <2>6 DEF Exhaust, clientVars, history, Status, Settled
  <2>7. ASSUME NEW m \in Msgs, AckWaitExpires(m) PROVE TypeOK'
    BY <2>7 DEF AckWaitExpires, clientVars, history, Status, Open
  <2>8. ASSUME NEW i \in Instances, NEW m \in Msgs,
               NEW call \in {"ack", "term", "nak"}, Answer(i, m, call)
        PROVE  status' \in [Msgs -> Status]
    BY <2>8 DEF Answer, AckEffect, Status, Open, Settled
  <2>9. ASSUME NEW i \in Instances, RejectUnrouted(i) PROVE TypeOK'
    <3>1. Head(buf[i]) \in Deliveries /\ Tail(buf[i]) \in Seq(Deliveries)
      BY <2>9, HeadTail DEF RejectUnrouted
    <3>2. Head(buf[i])[1] \in Msgs
      BY <3>1 DEF Deliveries
    <3>3. status' \in [Msgs -> Status]
      BY <2>8, <2>9, <3>2 DEF RejectUnrouted
    <3>4. QED
      BY <2>9, <3>1, <3>2, <3>3 DEF RejectUnrouted
  <2>10. ASSUME NEW i \in Instances, InvokeHandler(i) PROVE TypeOK'
    <3>1. Head(buf[i]) \in Deliveries /\ Tail(buf[i]) \in Seq(Deliveries)
      BY <2>10, HeadTail DEF InvokeHandler
    <3>2. QED
      BY <2>10, <3>1 DEF InvokeHandler, serverVars
  <2>11. ASSUME NEW i \in Instances, ~Idle(i) PROVE cur[i][1] \in Msgs
    BY <2>11 DEF Idle, Deliveries
  <2>12. ASSUME NEW i \in Instances, NEW v \in Verdict, HandlerReturns(i, v)
         PROVE  TypeOK'
    BY <2>11, <2>12 DEF HandlerReturns, serverVars
  <2>13. ASSUME NEW i \in Instances, Settle(i) PROVE TypeOK'
    <3>1. verdict[i] \in Verdict
      BY <2>13 DEF Settle
    <3>2. Disposition(verdict[i]) \in {"ack", "term", "nak"}
      BY <3>1 DEF Disposition, Verdict
    <3>3. status' \in [Msgs -> Status]
      BY <2>8, <2>11, <2>13, <3>2 DEF Settle
    <3>4. QED
      BY <2>13, <3>3 DEF Settle, history
  <2>14. ASSUME NEW i \in Instances, Close(i) PROVE TypeOK'
    BY <2>14 DEF Close, serverVars, ConnState
  <2>15. ASSUME NEW i \in Instances, DrainDone(i) PROVE TypeOK'
    BY <2>15 DEF DrainDone, serverVars, history, ConnState
  <2>16. ASSUME NEW i \in Instances, Exit(i) PROVE TypeOK'
    BY <2>16 DEF Exit, ProcessGone, serverVars, ConnState
  <2>17. ASSUME NEW i \in Instances, Crash(i) PROVE TypeOK'
    BY <2>17 DEF Crash, ProcessGone, serverVars, ConnState
  <2>18. CASE UNCHANGED vars
    BY <2>18 DEF vars, serverVars, clientVars, history
  <2>19. QED
    BY <2>1, <2>2, <2>4, <2>5, <2>6, <2>7, <2>9, <2>10, <2>12, <2>13,
       <2>14, <2>15, <2>16, <2>17, <2>18
    DEF Next, Server, Callback, Process
<1>3. QED
  BY <1>1, <1>2, PTL DEF Spec
-----------------------------------------------------------------------------
(* A message is settled only for what a handler answered *)

\* What handleDelivery is about to answer is what the handler returned.
Grounded ==
  \A i \in Instances :
    /\ Idle(i) => verdict[i] = "none"
    /\ verdict[i] = "ok" => cur[i][1] \in succeeded
    /\ verdict[i] \in {"parse", "notype"} => cur[i][1] \in refused

CausedInv == Grounded /\ SettledByHandler

\* A message in progress is a message of the stream.
LEMMA CurIsMsg ==
  ASSUME TypeOK, NEW i \in Instances, ~Idle(i)
  PROVE  cur[i][1] \in Msgs
  BY DEF TypeOK, Idle, Deliveries

\* An answer changes one message, and only by the effect of the call on it.
LEMMA AnswerEffect ==
  ASSUME TypeOK, NEW i \in Instances, NEW m \in Msgs,
         NEW call \in {"ack", "term", "nak"}, Answer(i, m, call)
  PROVE  /\ \A n \in Msgs : n # m => status'[n] = status[n]
         /\ \/ status' = status
            \/ /\ status[m] \in Open
               /\ call = "ack"
               /\ status' = [status EXCEPT ![m] = "acked"]
            \/ /\ status[m] \in Open
               /\ call = "term"
               /\ status' = [status EXCEPT ![m] = "termed"]
            \/ /\ status[m] \in Open
               /\ call = "nak"
               /\ status' = [status EXCEPT ![m] = "requeued"]
<1>1. \/ status[m] \notin Open /\ AckEffect(status[m], call) = status[m]
      \/ status[m] \in Open /\ call = "ack" /\ AckEffect(status[m], call) = "acked"
      \/ status[m] \in Open /\ call = "term" /\ AckEffect(status[m], call) = "termed"
      \/ status[m] \in Open /\ call = "nak" /\ AckEffect(status[m], call) = "requeued"
  BY DEF AckEffect
<1>2. status' = status \/ status' = [status EXCEPT ![m] = AckEffect(status[m], call)]
  BY DEF Answer
<1>3. QED
  BY <1>1, <1>2 DEF TypeOK

\* No answer changes whether a message was ever sent.
LEMMA AnswerSeen ==
  ASSUME TypeOK, NEW i \in Instances, NEW m \in Msgs,
         NEW call \in {"ack", "term", "nak"}, Answer(i, m, call)
  PROVE  \A n \in Msgs : status[n] = "unseen" <=> status'[n] = "unseen"
  BY AnswerEffect DEF Open, TypeOK

\* Disposition by cases.
LEMMA DispositionCases ==
  /\ Disposition("ok") = "ack"
  /\ Disposition("parse") = "term"
  /\ Disposition("notype") = "term"
  /\ Disposition("err") = "nak"
  BY DEF Disposition

\* The invariant that makes SettledByHandler inductive.
LEMMA Caused == Spec => []CausedInv
<1>1. Init => CausedInv
  BY DEF Init, CausedInv, Grounded, SettledByHandler, Idle
<1>2. TypeOK /\ TypeOK' /\ CausedInv /\ [Next]_vars => CausedInv'
  <2> SUFFICES ASSUME TypeOK, TypeOK', CausedInv, [Next]_vars
               PROVE  CausedInv'
    OBVIOUS
  <2> USE DEF CausedInv, Grounded, SettledByHandler, Idle
  <2>1. CASE Publish
    BY <2>1 DEF Publish, clientVars, history
  <2>2. ASSUME NEW i \in Instances, Start(i) PROVE CausedInv'
    BY <2>2 DEF Start, history
  <2>3. ASSUME NEW i \in Instances, NEW m \in Msgs, Send(i, m)
        PROVE  CausedInv'
    BY <2>3 DEF Send, history, TypeOK
  <2>4. ASSUME NEW m \in Msgs, Exhaust(m) PROVE CausedInv'
    BY <2>4 DEF Exhaust, clientVars, history, TypeOK
  <2>5. ASSUME NEW m \in Msgs, AckWaitExpires(m) PROVE CausedInv'
    BY <2>5 DEF AckWaitExpires, clientVars, history, TypeOK
  <2>6. ASSUME NEW i \in Instances, RejectUnrouted(i) PROVE CausedInv'
    <3> DEFINE m == Head(buf[i])[1]
    <3>1. m \in Msgs
      BY <2>6, HeadTail DEF RejectUnrouted, TypeOK, Deliveries
    <3>2. Answer(i, m, "term") /\ unrouted' = unrouted \cup {m}
      BY <2>6 DEF RejectUnrouted
    <3> HIDE DEF m
    <3>3. SettledByHandler'
      BY <2>6, <3>1, <3>2, AnswerEffect DEF RejectUnrouted, TypeOK
    <3>4. Grounded'
      BY <2>6 DEF RejectUnrouted
    <3>5. QED
      BY <3>3, <3>4
  <2>7. ASSUME NEW i \in Instances, InvokeHandler(i) PROVE CausedInv'
    <3>1. verdict[i] = "none"
      BY <2>7 DEF InvokeHandler
    <3>2. Grounded'
      BY <2>7, <3>1 DEF InvokeHandler, TypeOK, Idle
    <3>3. SettledByHandler'
      BY <2>7 DEF InvokeHandler, serverVars
    <3>4. QED
      BY <3>2, <3>3
  <2>8. ASSUME NEW i \in Instances, NEW v \in Verdict, HandlerReturns(i, v)
        PROVE  CausedInv'
    BY <2>8 DEF HandlerReturns, serverVars, TypeOK
  <2>9. ASSUME NEW i \in Instances, Settle(i) PROVE CausedInv'
    <3> DEFINE m == cur[i][1]
    <3>1. m \in Msgs
      BY <2>9, CurIsMsg DEF Settle
    <3>2. verdict[i] \in {"ok", "parse", "notype", "err"}
      BY <2>9 DEF Settle, TypeOK, Verdict
    <3>3. Answer(i, m, Disposition(verdict[i]))
      BY <2>9 DEF Settle
    <3> HIDE DEF m
    <3>4. SettledByHandler'
      <4>1. CASE verdict[i] = "ok"
        BY <2>9, <4>1, <3>1, <3>3, DispositionCases, AnswerEffect
        DEF Settle, history, TypeOK, m
      <4>2. CASE verdict[i] \in {"parse", "notype"}
        BY <2>9, <4>2, <3>1, <3>3, DispositionCases, AnswerEffect
        DEF Settle, history, TypeOK, m
      <4>3. CASE verdict[i] = "err"
        <5>1. Answer(i, m, "nak")
          BY <3>3, <4>3, DispositionCases
        <5>2. \A n \in Msgs : status'[n] \in {status[n], "requeued"}
          BY <3>1, <5>1, AnswerEffect DEF TypeOK
        <5>3. QED
          BY <2>9, <5>2 DEF Settle, history
      <4>4. QED
        BY <3>2, <4>1, <4>2, <4>3
    <3>5. Grounded'
      BY <2>9 DEF Settle, history, TypeOK
    <3>6. QED
      BY <3>4, <3>5
  <2>10. ASSUME NEW i \in Instances, Close(i) PROVE CausedInv'
    BY <2>10 DEF Close, serverVars
  <2>11. ASSUME NEW i \in Instances, DrainDone(i) PROVE CausedInv'
    BY <2>11 DEF DrainDone, serverVars, history
  <2>12. ASSUME NEW i \in Instances, Exit(i) \/ Crash(i) PROVE CausedInv'
    BY <2>12 DEF Exit, Crash, ProcessGone, serverVars, TypeOK
  <2>13. CASE UNCHANGED vars
    BY <2>13 DEF vars, serverVars, clientVars, history
  <2>14. QED
    BY <2>1, <2>2, <2>3, <2>4, <2>5, <2>6, <2>7, <2>8, <2>9, <2>10, <2>11,
       <2>12, <2>13
    DEF Next, Server, Callback, Process, DeliverNew, Redeliver
<1>3. QED
  BY <1>1, <1>2, TypeCorrect, PTL DEF Spec

\* A message is acked or terminated only for a handler's own answer or for
\* want of a handler, with any processes, timeouts, lost answers and crashes.
THEOREM SettledForCause == Spec => []SettledByHandler
<1>1. CausedInv => SettledByHandler
  BY DEF CausedInv
<1>2. QED
  BY <1>1, Caused, PTL
-----------------------------------------------------------------------------
(* Attempts are counted, and every delivery is handed over once *)

\* The durable has done nothing yet for messages the cursor has not reached.
Unreached ==
  /\ cursor <= published + 1
  /\ \A m \in Msgs : m >= cursor => status[m] = "unseen" /\ deliveries[m] = 0

Budget == MaxDeliver > 0 => \A m \in Msgs : deliveries[m] <= MaxDeliver

\* No delivery a process knows of is from an attempt not made yet.
Counted ==
  /\ \A i \in Instances : \A p \in DOMAIN buf[i] :
       0 < buf[i][p][2] /\ buf[i][p][2] <= deliveries[buf[i][p][1]]
  /\ \A i \in Instances : ~Idle(i) => deliveries[cur[i][1]] > 0
  /\ \A d \in invoked : 0 < d[2] /\ d[2] <= deliveries[d[1]]

AttemptInv == Unreached /\ Budget /\ Counted

\* Taking the head off one buffer leaves the rest in place.
LEMMA TakeHead ==
  ASSUME TypeOK, NEW i \in Instances, buf[i] # <<>>,
         buf' = [buf EXCEPT ![i] = Tail(buf[i])]
  PROVE  \A j \in Instances : \A p \in DOMAIN buf'[j] :
           IF j = i THEN p + 1 \in DOMAIN buf[j] /\ buf'[j][p] = buf[j][p + 1]
                    ELSE p \in DOMAIN buf[j] /\ buf'[j][p] = buf[j][p]
<1>1. buf[i] \in Seq(Deliveries)
  BY DEF TypeOK
<1>2. \A p \in DOMAIN Tail(buf[i]) :
        p + 1 \in DOMAIN buf[i] /\ Tail(buf[i])[p] = buf[i][p + 1]
  BY <1>1, HeadTail
<1>3. QED
  BY <1>2 DEF TypeOK

\* Emptying one buffer leaves the others in place.
LEMMA Dropped ==
  ASSUME TypeOK, NEW i \in Instances,
         buf' = buf \/ buf' = [buf EXCEPT ![i] = <<>>]
  PROVE  \A j \in Instances : \A p \in DOMAIN buf'[j] :
           p \in DOMAIN buf[j] /\ buf'[j][p] = buf[j][p]
<1>1. \A p : p \notin DOMAIN <<>>
  OBVIOUS
<1>2. CASE buf' = buf
  BY <1>2
<1>3. CASE buf' = [buf EXCEPT ![i] = <<>>]
  <2>1. \A j \in Instances : buf'[j] = IF j = i THEN <<>> ELSE buf[j]
    BY <1>3 DEF TypeOK
  <2>2. QED
    BY <1>1, <2>1
<1>4. QED
  BY <1>2, <1>3

\* A sent delivery is the last of one buffer, or of none when it is lost.
LEMMA SentLast ==
  ASSUME TypeOK, NEW i \in Instances, NEW m \in Msgs, Send(i, m)
  PROVE  \A j \in Instances : \A p \in DOMAIN buf'[j] :
           \/ p \in DOMAIN buf[j] /\ buf'[j][p] = buf[j][p]
           \/ /\ j = i
              /\ p = Len(buf[i]) + 1
              /\ buf'[j][p] = <<m, deliveries[m] + 1>>
<1>1. buf[i] \in Seq(Deliveries) /\ <<m, deliveries[m] + 1>> \in Deliveries
  BY DEF TypeOK, Deliveries
<1> DEFINE longer == Append(buf[i], <<m, deliveries[m] + 1>>)
<1>2. /\ DOMAIN longer = 1..(Len(buf[i]) + 1)
      /\ DOMAIN buf[i] = 1..Len(buf[i])
      /\ \A p \in DOMAIN buf[i] : longer[p] = buf[i][p]
      /\ longer[Len(buf[i]) + 1] = <<m, deliveries[m] + 1>>
      /\ Len(buf[i]) \in Nat
  BY <1>1, Appended
<1>3. \A p \in DOMAIN longer : p \in DOMAIN buf[i] \/ p = Len(buf[i]) + 1
  BY <1>2
<1>4. buf' = buf \/ buf' = [buf EXCEPT ![i] = longer]
  BY DEF Send
<1> HIDE DEF longer
<1>5. QED
  BY <1>2, <1>3, <1>4 DEF TypeOK

\* The entries of a buffer are deliveries of messages of the stream.
LEMMA BufEntry ==
  ASSUME TypeOK, NEW i \in Instances, NEW p \in DOMAIN buf[i]
  PROVE  /\ buf[i][p] \in Deliveries
         /\ buf[i][p][1] \in Msgs
         /\ buf[i][p][2] \in Nat
<1>1. buf[i] \in Seq(Deliveries)
  BY DEF TypeOK
<1>2. buf[i][p] \in Deliveries
  BY <1>1
<1>3. QED
  BY <1>2 DEF Deliveries

\* Server steps touch messages the cursor has passed; every attempt is counted.
LEMMA AttemptsCounted == Spec => []AttemptInv
<1>1. Init => AttemptInv
  BY ConstantsOK DEF Init, AttemptInv, Unreached, Budget, Counted, Msgs, Idle
<1>2. TypeOK /\ TypeOK' /\ AttemptInv /\ [Next]_vars => AttemptInv'
  <2> SUFFICES ASSUME TypeOK, TypeOK', AttemptInv, [Next]_vars
               PROVE  AttemptInv'
    OBVIOUS
  <2> USE ConstantsOK
  <2> USE DEF AttemptInv
  <2>1. CASE Publish
    BY <2>1 DEF Publish, clientVars, history, Unreached, Budget, Counted, Idle,
                TypeOK
  <2>2. ASSUME NEW i \in Instances, Start(i) PROVE AttemptInv'
    BY <2>2 DEF Start, history, Unreached, Budget, Counted, Idle
  <2>3. ASSUME NEW i \in Instances, NEW m \in Msgs, Send(i, m),
               MaxDeliver > 0 => deliveries[m] < MaxDeliver
        PROVE  Budget' /\ Counted'
    <3>1. /\ deliveries' = [deliveries EXCEPT ![m] = deliveries[m] + 1]
          /\ cur' = cur
          /\ invoked' = invoked
      BY <2>3 DEF Send, history
    <3>2. \A n \in Msgs : deliveries[n] \in Nat /\ deliveries'[n] \in Nat
      BY DEF TypeOK
    <3>3. \A n \in Msgs : deliveries[n] <= deliveries'[n]
      BY <3>1, <3>2 DEF TypeOK
    <3>4. deliveries'[m] = deliveries[m] + 1
      BY <3>1 DEF TypeOK
    <3>5. Budget'
      BY <2>3, <3>1, <3>4 DEF Budget, TypeOK
    <3>6. ASSUME NEW j \in Instances, NEW p \in DOMAIN buf'[j]
          PROVE  0 < buf'[j][p][2] /\ buf'[j][p][2] <= deliveries'[buf'[j][p][1]]
      <4>1. CASE p \in DOMAIN buf[j] /\ buf'[j][p] = buf[j][p]
        <5>1. buf[j][p][1] \in Msgs /\ buf[j][p][2] \in Nat
          BY <4>1, BufEntry
        <5>2. 0 < buf[j][p][2] /\ buf[j][p][2] <= deliveries[buf[j][p][1]]
          BY <4>1 DEF Counted
        <5>3. QED
          BY <4>1, <5>1, <5>2, <3>2, <3>3
      <4>2. CASE buf'[j][p] = <<m, deliveries[m] + 1>>
        BY <4>2, <3>2, <3>4
      <4>3. QED
        BY <2>3, <4>1, <4>2, SentLast
    <3>7. ASSUME NEW j \in Instances, ~Idle(j)
          PROVE  deliveries'[cur[j][1]] > 0
      BY <3>2, <3>3, <3>7, CurIsMsg DEF Counted
    <3>8. ASSUME NEW d \in invoked
          PROVE  d[2] <= deliveries'[d[1]]
      <4>1. d[1] \in Msgs /\ d[2] \in Nat
        BY DEF TypeOK, Deliveries
      <4>2. QED
        BY <4>1, <3>2, <3>3 DEF Counted
    <3>9. QED
      BY <3>1, <3>5, <3>6, <3>7, <3>8 DEF Counted, Idle
  <2>4. ASSUME NEW i \in Instances, NEW m \in Msgs, DeliverNew(i, m)
        PROVE  AttemptInv'
    <3>1. m >= cursor /\ m <= published /\ cursor' = m + 1 /\ Send(i, m)
      BY <2>4 DEF DeliverNew, Matching
    <3>2. deliveries[m] = 0
      BY <3>1 DEF Unreached
    <3>3. Budget' /\ Counted'
      BY <2>3, <3>1, <3>2
    <3>4. Unreached'
      BY <3>1 DEF Send, Unreached, TypeOK, Msgs
    <3>5. QED
      BY <3>3, <3>4
  <2>5. ASSUME NEW i \in Instances, NEW m \in Msgs, Redeliver(i, m)
        PROVE  AttemptInv'
    <3>1. Budget' /\ Counted'
      BY <2>3, <2>5 DEF Redeliver, Limit
    <3>2. Unreached'
      BY <2>5 DEF Redeliver, Send, Unreached, TypeOK
    <3>3. QED
      BY <3>1, <3>2
  <2>6. ASSUME NEW m \in Msgs, Exhaust(m) PROVE AttemptInv'
    BY <2>6 DEF Exhaust, clientVars, history, Unreached, Budget, Counted, Idle,
                TypeOK
  <2>7. ASSUME NEW m \in Msgs, AckWaitExpires(m) PROVE AttemptInv'
    BY <2>7 DEF AckWaitExpires, clientVars, history, Unreached, Budget, Counted,
                Idle, TypeOK
  <2>8. ASSUME NEW i \in Instances, NEW m \in Msgs,
               NEW call \in {"ack", "term", "nak"}, Answer(i, m, call),
               UNCHANGED <<published, cursor, deliveries>>
        PROVE  Unreached'
    BY <2>8, AnswerEffect DEF Unreached, Open, TypeOK
  <2>9. ASSUME NEW i \in Instances, buf[i] # <<>>,
               buf' = [buf EXCEPT ![i] = Tail(buf[i])], deliveries' = deliveries
        PROVE  \A j \in Instances : \A p \in DOMAIN buf'[j] :
                 0 < buf'[j][p][2] /\ buf'[j][p][2] <= deliveries'[buf'[j][p][1]]
    <3> TAKE j \in Instances
    <3> TAKE p \in DOMAIN buf'[j]
    <3>1. PICK q \in DOMAIN buf[j] : buf'[j][p] = buf[j][q]
      <4>1. IF j = i THEN p + 1 \in DOMAIN buf[j] /\ buf'[j][p] = buf[j][p + 1]
                     ELSE p \in DOMAIN buf[j] /\ buf'[j][p] = buf[j][p]
        BY <2>9, TakeHead
      <4>2. QED
        BY <4>1
    <3>2. 0 < buf[j][q][2] /\ buf[j][q][2] <= deliveries[buf[j][q][1]]
      BY DEF Counted
    <3>3. QED
      BY <2>9, <3>1, <3>2
  <2>10. ASSUME NEW i \in Instances, RejectUnrouted(i) PROVE AttemptInv'
    <3>1. Head(buf[i])[1] \in Msgs
      BY <2>10, HeadTail DEF RejectUnrouted, TypeOK, Deliveries
    <3>2. Unreached'
      BY <2>8, <2>10, <3>1 DEF RejectUnrouted
    <3>3. Budget'
      BY <2>10 DEF RejectUnrouted, Budget
    <3>4. Counted'
      BY <2>9, <2>10 DEF RejectUnrouted, Counted, Idle
    <3>5. QED
      BY <3>2, <3>3, <3>4
  <2>11. ASSUME NEW i \in Instances, InvokeHandler(i) PROVE AttemptInv'
    <3>1. buf[i] \in Seq(Deliveries) /\ buf[i] # <<>>
      BY <2>11 DEF InvokeHandler, TypeOK
    <3>2. /\ 1 \in DOMAIN buf[i]
          /\ Head(buf[i]) = buf[i][1]
      BY <3>1, HeadTail
    <3>3. /\ 0 < Head(buf[i])[2]
          /\ Head(buf[i])[2] <= deliveries[Head(buf[i])[1]]
          /\ Head(buf[i])[1] \in Msgs
          /\ Head(buf[i])[2] \in Nat
      BY <3>2, BufEntry DEF Counted
    <3>4. Unreached' /\ Budget'
      BY <2>11 DEF InvokeHandler, serverVars, Unreached, Budget
    <3>5. deliveries[Head(buf[i])[1]] > 0
      BY <3>3 DEF TypeOK
    <3>6. \A j \in Instances : ~Idle(j)' => deliveries'[cur'[j][1]] > 0
      BY <2>11, <3>5 DEF InvokeHandler, serverVars, Counted, Idle, TypeOK
    <3>7. \A d \in invoked' : 0 < d[2] /\ d[2] <= deliveries'[d[1]]
      BY <2>11, <3>3 DEF InvokeHandler, serverVars, Counted
    <3>8. Counted'
      BY <2>9, <2>11, <3>6, <3>7 DEF InvokeHandler, serverVars, Counted
    <3>9. QED
      BY <3>4, <3>8
  <2>12. ASSUME NEW i \in Instances, NEW v \in Verdict, HandlerReturns(i, v)
         PROVE  AttemptInv'
    BY <2>12 DEF HandlerReturns, serverVars, Unreached, Budget, Counted, Idle
  <2>13. ASSUME NEW i \in Instances, Settle(i) PROVE AttemptInv'
    <3>1. Disposition(verdict[i]) \in {"ack", "term", "nak"}
      BY <2>13, DispositionCases DEF Settle, TypeOK, Verdict
    <3>2. Unreached'
      BY <2>8, <2>13, <3>1, CurIsMsg DEF Settle
    <3>3. Budget' /\ Counted'
      BY <2>13 DEF Settle, history, Budget, Counted, Idle, TypeOK
    <3>4. QED
      BY <3>2, <3>3
  <2>14. ASSUME NEW i \in Instances,
                Close(i) \/ DrainDone(i) \/ Exit(i) \/ Crash(i)
         PROVE  AttemptInv'
    <3>1. /\ UNCHANGED <<serverVars, invoked>>
          /\ buf' = buf \/ buf' = [buf EXCEPT ![i] = <<>>]
          /\ cur' = cur \/ cur' = [cur EXCEPT ![i] = NoDelivery]
      BY <2>14 DEF Close, DrainDone, Exit, Crash, ProcessGone, history
    <3>2. \A j \in Instances : \A p \in DOMAIN buf'[j] :
            p \in DOMAIN buf[j] /\ buf'[j][p] = buf[j][p]
      BY <3>1, Dropped
    <3>3. \A j \in Instances : ~Idle(j)' => ~Idle(j) /\ cur'[j] = cur[j]
      BY <3>1 DEF Idle, TypeOK
    <3>4. QED
      BY <3>1, <3>2, <3>3 DEF serverVars, Unreached, Budget, Counted
  <2>15. CASE UNCHANGED vars
    BY <2>15 DEF vars, serverVars, clientVars, history, Unreached, Budget,
                 Counted, Idle
  <2>16. QED
    BY <2>1, <2>2, <2>4, <2>5, <2>6, <2>7, <2>10, <2>11, <2>12, <2>13, <2>14,
       <2>15
    DEF Next, Server, Callback, Process
<1>3. QED
  BY <1>1, <1>2, TypeCorrect, PTL DEF Spec
-----------------------------------------------------------------------------
(* One handler call per delivery *)

\* A delivery is given to at most one handler call, and none is beyond
\* MaxDeliver, for any number of processes sharing the durable.
THEOREM CalledOnce == Spec => []OneCallPerDelivery
<1> DEFINE Once == HeldOnce /\ NotYetCalled
<1>1. Init => Once
  <2>1. \A p : p \notin DOMAIN <<>>
    OBVIOUS
  <2>2. QED
    BY <2>1 DEF Init, HeldOnce, NotYetCalled
<1>2. TypeOK /\ AttemptInv /\ Once /\ [Next]_vars => Once'
  <2> SUFFICES ASSUME TypeOK, AttemptInv, Once, [Next]_vars PROVE Once'
    OBVIOUS
  <2>1. ASSUME UNCHANGED <<buf, invoked>> PROVE Once'
    BY <2>1 DEF HeldOnce, NotYetCalled
  <2>2. ASSUME NEW i \in Instances, NEW m \in Msgs, Send(i, m)
        PROVE  Once'
    <3> DEFINE d == <<m, deliveries[m] + 1>>
    <3>1. \A j \in Instances : \A p \in DOMAIN buf[j] : buf[j][p] # d
      <4> SUFFICES ASSUME NEW j \in Instances, NEW p \in DOMAIN buf[j],
                          buf[j][p] = d
                   PROVE  FALSE
        OBVIOUS
      <4>1. buf[j][p][2] <= deliveries[buf[j][p][1]]
        BY DEF AttemptInv, Counted
      <4>2. deliveries[m] \in Nat
        BY DEF TypeOK
      <4>3. QED
        BY <4>1, <4>2
    <3>2. d \notin invoked
      <4>1. \A e \in invoked : e[2] <= deliveries[e[1]]
        BY DEF AttemptInv, Counted
      <4>2. deliveries[m] \in Nat
        BY DEF TypeOK
      <4>3. QED
        BY <4>1, <4>2
    <3> HIDE DEF d
    <3>3. \A j \in Instances : \A p \in DOMAIN buf'[j] :
            \/ p \in DOMAIN buf[j] /\ buf'[j][p] = buf[j][p]
            \/ j = i /\ p = Len(buf[i]) + 1 /\ buf'[j][p] = d
      BY <2>2, SentLast DEF d
    <3>4. invoked' = invoked
      BY <2>2 DEF Send, history
    <3>5. NotYetCalled'
      BY <3>2, <3>3, <3>4 DEF NotYetCalled
    <3>6. HeldOnce'
      BY <3>1, <3>3 DEF HeldOnce
    <3>7. QED
      BY <3>5, <3>6
  <2>3. ASSUME NEW i \in Instances, buf[i] # <<>>,
               buf' = [buf EXCEPT ![i] = Tail(buf[i])],
               invoked' \in {invoked, invoked \cup {Head(buf[i])}}
        PROVE  Once'
    <3>1. buf[i] \in Seq(Deliveries)
      BY DEF TypeOK
    <3>2. Head(buf[i]) = buf[i][1] /\ 1 \in DOMAIN buf[i]
      BY <2>3, <3>1, HeadTail
    <3>3. \A j \in Instances : \A p \in DOMAIN buf'[j] :
            IF j = i THEN p + 1 \in DOMAIN buf[j] /\ buf'[j][p] = buf[j][p + 1]
                     ELSE p \in DOMAIN buf[j] /\ buf'[j][p] = buf[j][p]
      BY <2>3, TakeHead
    <3>4. \A p \in DOMAIN buf'[i] : p \in Nat /\ p + 1 # 1
      <4>1. DOMAIN Tail(buf[i]) = 1..(Len(buf[i]) - 1)
        BY <2>3, <3>1, HeadTail
      <4>2. buf'[i] = Tail(buf[i])
        BY <2>3 DEF TypeOK
      <4>3. QED
        BY <3>1, <4>1, <4>2
    <3>5. HeldOnce'
      <4> SUFFICES ASSUME NEW j \in Instances, NEW k \in Instances,
                          NEW p \in DOMAIN buf'[j], NEW q \in DOMAIN buf'[k],
                          buf'[j][p] = buf'[k][q]
                   PROVE  j = k /\ p = q
        BY DEF HeldOnce
      <4>1. PICK pp \in DOMAIN buf[j] :
              /\ buf'[j][p] = buf[j][pp]
              /\ pp = IF j = i THEN p + 1 ELSE p
        BY <3>3
      <4>2. PICK qq \in DOMAIN buf[k] :
              /\ buf'[k][q] = buf[k][qq]
              /\ qq = IF k = i THEN q + 1 ELSE q
        BY <3>3
      <4>3. j = k /\ pp = qq
        <5>1. buf[j][pp] = buf[k][qq]
          BY <4>1, <4>2
        <5>2. HeldOnce
          OBVIOUS
        <5>3. QED
          BY <5>1, <5>2 DEF HeldOnce
      <4>4. CASE j = i
        BY <3>4, <4>1, <4>2, <4>3, <4>4
      <4>5. CASE j # i
        BY <4>1, <4>2, <4>3, <4>5
      <4>6. QED
        BY <4>4, <4>5
    <3>6. NotYetCalled'
      <4> SUFFICES ASSUME NEW j \in Instances, NEW p \in DOMAIN buf'[j]
                   PROVE  buf'[j][p] \notin invoked'
        BY DEF NotYetCalled
      <4>1. PICK pp \in DOMAIN buf[j] :
              /\ buf'[j][p] = buf[j][pp]
              /\ pp = IF j = i THEN p + 1 ELSE p
        BY <3>3
      <4>2. buf[j][pp] # buf[i][1]
        BY <3>2, <3>4, <4>1 DEF HeldOnce
      <4>3. QED
        BY <2>3, <3>2, <4>1, <4>2 DEF NotYetCalled
    <3>7. QED
      BY <3>5, <3>6
  <2>4. ASSUME NEW i \in Instances,
               buf' = buf \/ buf' = [buf EXCEPT ![i] = <<>>],
               invoked' = invoked
        PROVE  Once'
    <3>1. \A j \in Instances : \A p \in DOMAIN buf'[j] :
            p \in DOMAIN buf[j] /\ buf'[j][p] = buf[j][p]
      BY <2>4, Dropped
    <3>2. QED
      BY <2>4, <3>1 DEF HeldOnce, NotYetCalled
  <2>5. ASSUME NEW i \in Instances, RejectUnrouted(i) \/ InvokeHandler(i)
        PROVE  Once'
    BY <2>3, <2>5 DEF RejectUnrouted, InvokeHandler
  <2>6. ASSUME NEW i \in Instances, Process(i) PROVE Once'
    BY <2>4, <2>6 DEF Process, Start, Close, DrainDone, Exit, Crash,
                      ProcessGone, history
  <2>7. ASSUME NEW i \in Instances,
               (\E v \in Verdict : HandlerReturns(i, v)) \/ Settle(i)
        PROVE  Once'
    BY <2>1, <2>7 DEF HandlerReturns, Settle, history
  <2>8. ASSUME NEW m \in Msgs, Exhaust(m) \/ AckWaitExpires(m) PROVE Once'
    BY <2>1, <2>8 DEF Exhaust, AckWaitExpires, clientVars, history
  <2>9. CASE Publish
    BY <2>1, <2>9 DEF Publish, clientVars, history
  <2>10. CASE UNCHANGED vars
    BY <2>1, <2>10 DEF vars, clientVars, history
  <2> HIDE DEF Once
  <2>11. QED
    BY <2>2, <2>5, <2>6, <2>7, <2>8, <2>9, <2>10
    DEF Next, Server, Callback, DeliverNew, Redeliver
<1>3. TypeOK /\ AttemptInv => WithinMaxDeliver
  <2> SUFFICES ASSUME TypeOK, AttemptInv, MaxDeliver > 0, NEW d \in invoked
               PROVE  d[2] <= MaxDeliver
    BY DEF WithinMaxDeliver
  <2>1. d[1] \in Msgs /\ d[2] \in Nat
    BY DEF TypeOK, Deliveries
  <2>2. d[2] <= deliveries[d[1]] /\ deliveries[d[1]] <= MaxDeliver
    BY <2>1 DEF AttemptInv, Counted, Budget
  <2>3. QED
    BY <2>1, <2>2, ConstantsOK DEF TypeOK
<1>4. Once /\ WithinMaxDeliver => OneCallPerDelivery
  BY DEF OneCallPerDelivery
<1>5. QED
  BY <1>1, <1>2, <1>3, <1>4, TypeCorrect, AttemptsCounted, PTL DEF Spec
-----------------------------------------------------------------------------
(* Refinement: the durable keeps the promise stated in Settlement *)

\* OutcomeOf by cases.
LEMMA OutcomeCases ==
  /\ OutcomeOf("acked") = "done"
  /\ OutcomeOf("termed") = "refused"
  /\ OutcomeOf("exhausted") = "dropped"
  /\ \A s : s \notin Settled => OutcomeOf(s) = "owed"
<1>1. OutcomeOf("acked") = "done"
  BY DEF OutcomeOf, Settled
<1>2. OutcomeOf("termed") = "refused"
  BY DEF OutcomeOf, Settled
<1>3. OutcomeOf("exhausted") = "dropped"
  BY DEF OutcomeOf, Settled
<1>4. ASSUME NEW s, s \notin Settled PROVE OutcomeOf(s) = "owed"
  BY <1>4 DEF OutcomeOf, Settled
<1>5. QED
  BY <1>1, <1>2, <1>3, <1>4

\* Every behaviour of the durable and its processes is one Settlement allows:
\* attempts within MaxDeliver while owed, one outcome per message, for a cause.
THEOREM DurableKeepsPromise == Spec => KeepsPromise
<1> DEFINE fate == [m \in Msgs |-> OutcomeOf(status[m])]
<1>1. Init => Promise!Init
  <2>1. "unseen" \notin Settled
    BY DEF Settled
  <2>2. QED
    BY <2>1, OutcomeCases DEF Init, Promise!Init, Msgs
<1>2. TypeOK /\ TypeOK' /\ AttemptInv /\ CausedInv /\ [Next]_vars
        => [Promise!Next]_(Promise!vars)
  <2> SUFFICES ASSUME TypeOK, TypeOK', AttemptInv, CausedInv, [Next]_vars
               PROVE  [Promise!Next]_(Promise!vars)
    OBVIOUS
  <2> USE DEF fate
  <2>0. ASSUME NEW m \in Msgs, status' = [status EXCEPT ![m] = status'[m]]
        PROVE  /\ fate[m] = OutcomeOf(status[m])
               /\ fate' = [fate EXCEPT ![m] = OutcomeOf(status'[m])]
    BY <2>0 DEF TypeOK
  <2>1. CASE Publish
    BY <2>1 DEF Publish, history, Promise!Next, Promise!Store
  <2>2. ASSUME NEW i \in Instances, NEW m \in Msgs, Send(i, m),
               m <= published, status[m] \notin Settled,
               MaxDeliver > 0 => deliveries[m] < MaxDeliver
        PROVE  Promise!Attempt(m)
    <3>1. /\ status' = [status EXCEPT ![m] = "pending"]
          /\ deliveries' = [deliveries EXCEPT ![m] = deliveries[m] + 1]
          /\ UNCHANGED <<published, succeeded, refused, unrouted>>
      BY <2>2 DEF Send, history
    <3>2. status'[m] = "pending"
      BY <3>1 DEF TypeOK
    <3>3. OutcomeOf(status[m]) = "owed" /\ OutcomeOf("pending") = "owed"
      BY <2>2, OutcomeCases DEF Settled
    <3>4. fate[m] = "owed" /\ fate' = [fate EXCEPT ![m] = "owed"]
      BY <2>0, <3>1, <3>2, <3>3
    <3>5. fate' = fate
      BY <3>4
    <3>6. QED
      BY <2>2, <3>1, <3>4, <3>5 DEF Promise!Attempt
  <2>3. ASSUME NEW i \in Instances, NEW m \in Msgs, DeliverNew(i, m)
        PROVE  Promise!Attempt(m)
    <3>1. Send(i, m) /\ m >= cursor /\ m <= published
      BY <2>3 DEF DeliverNew, Matching
    <3>2. status[m] \notin Settled /\ deliveries[m] = 0
      BY <3>1 DEF AttemptInv, Unreached, Settled
    <3>3. QED
      BY <2>2, <3>1, <3>2
  <2>4. ASSUME NEW i \in Instances, NEW m \in Msgs, Redeliver(i, m)
        PROVE  Promise!Attempt(m)
    <3>1. Send(i, m) /\ status[m] = "requeued"
      BY <2>4 DEF Redeliver
    <3>2. MaxDeliver > 0 => deliveries[m] < MaxDeliver
      BY <2>4, ConstantsOK DEF Redeliver, Limit
    <3>3. m <= published
      BY <3>1 DEF AttemptInv, Unreached, TypeOK, Msgs
    <3>4. QED
      BY <2>2, <3>1, <3>2, <3>3 DEF Settled
  <2>5. ASSUME NEW m \in Msgs, Exhaust(m) PROVE Promise!GiveUp(m)
    <3>1. /\ status[m] = "requeued"
          /\ status' = [status EXCEPT ![m] = "exhausted"]
          /\ MaxDeliver > 0
          /\ deliveries[m] >= MaxDeliver
          /\ UNCHANGED <<published, deliveries, succeeded, refused, unrouted>>
      BY <2>5 DEF Exhaust, history
    <3>2. status'[m] = "exhausted"
      BY <3>1 DEF TypeOK
    <3>3. fate[m] = "owed" /\ fate' = [fate EXCEPT ![m] = "dropped"]
      BY <2>0, <3>1, <3>2, OutcomeCases DEF Settled
    <3>4. QED
      BY <3>1, <3>3 DEF Promise!GiveUp, Promise!Conclude
  <2>6. ASSUME NEW m \in Msgs, status[m] \notin Settled,
               status' = status
                 \/ status' = [status EXCEPT ![m] = "requeued"],
               UNCHANGED <<published, deliveries, succeeded, refused, unrouted>>
        PROVE  UNCHANGED Promise!vars
    <3>1. OutcomeOf(status[m]) = "owed" /\ OutcomeOf("requeued") = "owed"
      BY <2>6, OutcomeCases DEF Settled
    <3>2. fate' = fate
      BY <2>6, <3>1 DEF TypeOK
    <3>3. QED
      BY <2>6, <3>2 DEF Promise!vars
  <2>7. ASSUME NEW m \in Msgs, AckWaitExpires(m) PROVE UNCHANGED Promise!vars
    BY <2>6, <2>7 DEF AckWaitExpires, history, Settled
  <2>8. ASSUME UNCHANGED <<published, deliveries, status,
                           succeeded, refused, unrouted>>
        PROVE  UNCHANGED Promise!vars
    BY <2>8 DEF Promise!vars
  <2>9. ASSUME NEW i \in Instances, RejectUnrouted(i)
        PROVE  \E m \in Msgs : Promise!Reject(m) \/ Promise!Refuse(m)
    <3> DEFINE m == Head(buf[i])[1]
    <3>1. buf[i] \in Seq(Deliveries) /\ buf[i] # <<>>
      BY <2>9 DEF RejectUnrouted, TypeOK
    <3>2. Head(buf[i]) = buf[i][1] /\ 1 \in DOMAIN buf[i]
      BY <3>1, HeadTail
    <3>3. m \in Msgs /\ deliveries[m] > 0
      <4>1. m \in Msgs /\ buf[i][1][2] \in Nat
        BY <3>2, BufEntry
      <4>2. 0 < buf[i][1][2] /\ buf[i][1][2] <= deliveries[m]
        BY <3>2 DEF AttemptInv, Counted
      <4> HIDE DEF m
      <4>3. deliveries[m] \in Nat
        BY <4>1 DEF TypeOK
      <4>4. QED
        BY <4>1, <4>2, <4>3
    <3>4. /\ Answer(i, m, "term")
          /\ unrouted' = unrouted \cup {m}
          /\ UNCHANGED <<published, deliveries, succeeded, refused>>
      BY <2>9 DEF RejectUnrouted
    <3> HIDE DEF m
    <3>5. (refused \cup unrouted)' = (refused \cup unrouted) \cup {m}
      BY <3>4
    <3>6. CASE status' = status
      BY <3>3, <3>4, <3>5, <3>6 DEF Promise!Reject
    <3>7. CASE status[m] \in Open /\ status' = [status EXCEPT ![m] = "termed"]
      <4>1. status'[m] = "termed"
        BY <3>3, <3>7 DEF TypeOK
      <4>2. fate[m] = "owed" /\ fate' = [fate EXCEPT ![m] = "refused"]
        BY <2>0, <3>3, <3>7, <4>1, OutcomeCases DEF Open, Settled
      <4>3. Promise!Refuse(m)
        BY <3>3, <3>4, <3>5, <4>2 DEF Promise!Refuse, Promise!Conclude
      <4>4. QED
        BY <3>3, <4>3
    <3>8. QED
      BY <3>3, <3>4, <3>6, <3>7, AnswerEffect
  <2>10. ASSUME NEW i \in Instances, NEW v \in Verdict, HandlerReturns(i, v)
         PROVE  [Promise!Next]_(Promise!vars)
    <3> DEFINE m == cur[i][1]
    <3>1. m \in Msgs /\ deliveries[m] > 0
      BY <2>10, CurIsMsg DEF HandlerReturns, AttemptInv, Counted
    <3>2. /\ UNCHANGED <<published, deliveries, status, unrouted>>
          /\ succeeded' = IF v = "ok" THEN succeeded \cup {m} ELSE succeeded
          /\ refused' = IF v \in {"parse", "notype"}
                         THEN refused \cup {m} ELSE refused
      BY <2>10 DEF HandlerReturns, serverVars
    <3> HIDE DEF m
    <3>3. CASE v = "ok"
      <4>1. Promise!Handle(m)
        BY <3>1, <3>2, <3>3 DEF Promise!Handle
      <4>2. QED
        BY <3>1, <4>1 DEF Promise!Next, Msgs
    <3>4. CASE v \in {"parse", "notype"}
      <4>1. (refused \cup unrouted)' = (refused \cup unrouted) \cup {m}
        BY <3>2, <3>4
      <4>2. Promise!Reject(m)
        BY <3>1, <3>2, <3>4, <4>1 DEF Promise!Reject
      <4>3. QED
        BY <3>1, <4>2 DEF Promise!Next, Msgs
    <3>5. CASE v = "err"
      BY <2>8, <3>2, <3>5
    <3>6. QED
      BY <3>3, <3>4, <3>5 DEF Verdict
  <2>11. ASSUME NEW i \in Instances, Settle(i)
         PROVE  [Promise!Next]_(Promise!vars)
    <3> DEFINE m == cur[i][1]
    <3>1. m \in Msgs /\ deliveries[m] > 0
      BY <2>11, CurIsMsg DEF Settle, AttemptInv, Counted
    <3>2. /\ UNCHANGED <<published, deliveries, succeeded, refused, unrouted>>
          /\ Answer(i, m, Disposition(verdict[i]))
          /\ verdict[i] \in {"ok", "parse", "notype", "err"}
      BY <2>11 DEF Settle, history, TypeOK, Verdict
    <3>3. /\ verdict[i] = "ok" => m \in succeeded
          /\ verdict[i] \in {"parse", "notype"} => m \in refused
      BY DEF CausedInv, Grounded
    <3> HIDE DEF m
    <3>4. CASE status' = status
      BY <2>8, <3>2, <3>4
    <3>5. CASE status[m] \in Open /\ verdict[i] = "ok"
               /\ status' = [status EXCEPT ![m] = "acked"]
      <4>1. status'[m] = "acked"
        BY <3>1, <3>5 DEF TypeOK
      <4>2. fate[m] = "owed" /\ fate' = [fate EXCEPT ![m] = "done"]
        BY <2>0, <3>1, <3>5, <4>1, OutcomeCases DEF Open, Settled
      <4>3. Promise!Complete(m)
        BY <3>2, <3>3, <3>5, <4>2 DEF Promise!Complete, Promise!Conclude
      <4>4. QED
        BY <3>1, <4>3 DEF Promise!Next, Msgs
    <3>6. CASE status[m] \in Open /\ verdict[i] \in {"parse", "notype"}
               /\ status' = [status EXCEPT ![m] = "termed"]
      <4>1. status'[m] = "termed"
        BY <3>1, <3>6 DEF TypeOK
      <4>2. fate[m] = "owed" /\ fate' = [fate EXCEPT ![m] = "refused"]
        BY <2>0, <3>1, <3>6, <4>1, OutcomeCases DEF Open, Settled
      <4>3. Promise!Refuse(m)
        BY <3>1, <3>2, <3>3, <3>6, <4>2 DEF Promise!Refuse, Promise!Conclude
      <4>4. QED
        BY <3>1, <4>3 DEF Promise!Next, Msgs
    <3>7. CASE status[m] \in Open /\ status' = [status EXCEPT ![m] = "requeued"]
      BY <2>6, <3>1, <3>2, <3>7 DEF Open, Settled
    <3>8. QED
      BY <3>1, <3>2, <3>4, <3>5, <3>6, <3>7, DispositionCases, AnswerEffect
  <2>12. ASSUME NEW i \in Instances, InvokeHandler(i) \/ Process(i)
         PROVE  UNCHANGED Promise!vars
    BY <2>8, <2>12 DEF InvokeHandler, Process, Start, Close, DrainDone, Exit,
                       Crash, ProcessGone, serverVars, history
  <2>13. CASE UNCHANGED vars
    BY <2>8, <2>13 DEF vars, serverVars, history
  <2> HIDE DEF fate
  <2>14. CASE \E m \in Msgs : Server(m)
    BY <2>3, <2>4, <2>5, <2>7, <2>14 DEF Server, Promise!Next, Msgs
  <2>15. CASE \E i \in Instances : Callback(i) \/ Process(i)
    <3>1. PICK i \in Instances : Callback(i) \/ Process(i)
      BY <2>15
    <3>2. CASE RejectUnrouted(i)
      BY <2>9, <3>2 DEF Promise!Next, Msgs
    <3>3. QED
      BY <2>10, <2>11, <2>12, <3>1, <3>2 DEF Callback
  <2>16. QED
    BY <2>1, <2>13, <2>14, <2>15 DEF Next
<1>3. QED
  BY <1>1, <1>2, TypeCorrect, AttemptsCounted, Caused, PTL
  DEF Spec, KeepsPromise, Promise!Spec
-----------------------------------------------------------------------------
(* At-least-once delivery of what every release handles *)

\* The filter of a durable in use is that of some release.
FilterOfRelease ==
  (\E i \in Instances : conn[i] = "open") =>
    \E j \in Instances : filter = HandlerKeys[j]

\* What every release handles is not left behind by the cursor, and no process
\* terminates it for want of a handler.
RouteInv ==
  /\ FilterOfRelease
  /\ \A m \in Msgs : HandledByAll(m) =>
       /\ m \notin unrouted
       /\ m < cursor => status[m] # "unseen" \/ Evicted(m)

\* Steps that leave cursor, filter and unrouted alone keep RouteInv when they
\* open no connection and make no message unseen.
LEMMA RouteKept ==
  ASSUME RouteInv,
         UNCHANGED <<cursor, filter, unrouted>>,
         firstSeq \in Int, firstSeq' \in Int, firstSeq <= firstSeq',
         Msgs \subseteq Int,
         \A i \in Instances : conn'[i] = "open" => conn[i] = "open",
         \A m \in Msgs : status[m] # "unseen" => status'[m] # "unseen"
  PROVE  RouteInv'
<1>1. \A m \in Msgs : Evicted(m) => Evicted(m)'
  BY DEF Evicted
<1>2. FilterOfRelease'
  BY DEF RouteInv, FilterOfRelease
<1>3. ASSUME NEW m \in Msgs, HandledByAll(m)
      PROVE  /\ m \notin unrouted'
             /\ m < cursor' => status'[m] # "unseen" \/ Evicted(m)'
  BY <1>1, <1>3 DEF RouteInv
<1>4. QED
  BY <1>2, <1>3 DEF RouteInv, HandledByAll, HasHandler

\* Whatever releases run, routing leaves no message of theirs all behind.
LEMMA RoutesKept == Spec => []RouteInv
<1>1. Init => RouteInv
  BY DEF Init, RouteInv, FilterOfRelease, Msgs
<1>2. TypeOK /\ TypeOK' /\ RouteInv /\ [Next]_vars => RouteInv'
  <2> SUFFICES ASSUME TypeOK, TypeOK', RouteInv, [Next]_vars PROVE RouteInv'
    OBVIOUS
  <2>0. /\ firstSeq \in Int /\ firstSeq' \in Int /\ cursor \in Int
        /\ published \in Int /\ Msgs \subseteq Int
    BY DEF TypeOK, Msgs
  <2>1. CASE Publish
    <3>1. firstSeq <= firstSeq'
      BY <2>0, <2>1 DEF Publish
    <3>2. QED
      BY <2>0, <2>1, <3>1, RouteKept DEF Publish, clientVars, history
  <2>2. ASSUME NEW i \in Instances, Start(i) PROVE RouteInv'
    <3>1. FilterOfRelease'
      BY <2>2 DEF Start, FilterOfRelease
    <3>2. QED
      BY <2>2, <3>1 DEF Start, history, RouteInv, HandledByAll, HasHandler,
                        Evicted
  <2>3. ASSUME NEW i \in Instances, NEW m \in Msgs, DeliverNew(i, m)
        PROVE  RouteInv'
    <3>1. /\ conn[i] = "open"
          /\ cursor' = m + 1
          /\ m \in Matching
          /\ \A n \in Matching : m <= n
          /\ UNCHANGED <<firstSeq, published, filter, conn, unrouted>>
          /\ status' = [status EXCEPT ![m] = "pending"]
      BY <2>3 DEF DeliverNew, Send, history
    <3>2. PICK j \in Instances : filter = HandlerKeys[j]
      BY <3>1 DEF RouteInv, FilterOfRelease
    <3>3. ASSUME NEW n \in Msgs, n < cursor', HandledByAll(n)
          PROVE  status'[n] # "unseen" \/ Evicted(n)'
      <4>1. CASE n = m
        BY <3>1, <4>1 DEF TypeOK
      <4>2. CASE n < cursor /\ n # m
        BY <3>1, <3>3, <4>2 DEF RouteInv, Evicted, TypeOK
      <4>3. CASE n >= cursor /\ n # m
        <5>1. n < m /\ m <= published
          BY <2>0, <3>1, <3>3, <4>3 DEF Matching
        <5>2. n \notin Matching
          BY <2>0, <3>1, <5>1
        <5>3. KeyOf[n] \in filter
          BY <3>2, <3>3 DEF HandledByAll, HasHandler
        <5>4. Evicted(n)
          BY <2>0, <4>3, <5>1, <5>2, <5>3 DEF Matching
        <5>5. QED
          BY <3>1, <5>4 DEF Evicted
      <4>4. QED
        BY <2>0, <4>1, <4>2, <4>3
    <3>4. FilterOfRelease'
      BY <3>1, <3>2 DEF FilterOfRelease
    <3>5. QED
      BY <3>1, <3>3, <3>4 DEF RouteInv, HandledByAll, HasHandler
  <2>4. ASSUME NEW i \in Instances, NEW m \in Msgs, Redeliver(i, m)
        PROVE  RouteInv'
    <3>1. /\ UNCHANGED <<cursor, filter, firstSeq, unrouted, conn>>
          /\ status' = [status EXCEPT ![m] = "pending"]
      BY <2>4 DEF Redeliver, Send, history
    <3>2. \A n \in Msgs : status[n] # "unseen" => status'[n] # "unseen"
      BY <3>1 DEF TypeOK
    <3>3. QED
      BY <2>0, <3>1, <3>2, RouteKept
  <2>5. ASSUME NEW m \in Msgs, Exhaust(m) \/ AckWaitExpires(m)
        PROVE  RouteInv'
    <3>1. /\ \/ status' = [status EXCEPT ![m] = "exhausted"]
             \/ status' = [status EXCEPT ![m] = "requeued"]
          /\ UNCHANGED <<cursor, filter, firstSeq, unrouted, conn>>
      BY <2>5 DEF Exhaust, AckWaitExpires, clientVars, history
    <3>2. \A n \in Msgs : status[n] # "unseen" => status'[n] # "unseen"
      BY <3>1 DEF TypeOK
    <3>3. QED
      BY <2>0, <3>1, <3>2, RouteKept
  <2>6. ASSUME NEW i \in Instances, RejectUnrouted(i) PROVE RouteInv'
    <3> DEFINE m == Head(buf[i])[1]
    <3>1. m \in Msgs
      BY <2>6, HeadTail DEF RejectUnrouted, TypeOK, Deliveries
    <3>2. ~HandledByAll(m)
      BY <2>6 DEF RejectUnrouted, HandledByAll
    <3>3. /\ Answer(i, m, "term")
          /\ unrouted' = unrouted \cup {m}
          /\ UNCHANGED <<cursor, filter, firstSeq, conn>>
      BY <2>6 DEF RejectUnrouted
    <3> HIDE DEF m
    <3>4. \A n \in Msgs : status[n] = "unseen" <=> status'[n] = "unseen"
      BY <3>1, <3>3, AnswerSeen
    <3>5. FilterOfRelease'
      BY <3>3 DEF RouteInv, FilterOfRelease
    <3>6. ASSUME NEW n \in Msgs, HandledByAll(n)
          PROVE  /\ n \notin unrouted'
                 /\ n < cursor' => status'[n] # "unseen" \/ Evicted(n)'
      BY <3>2, <3>3, <3>4, <3>6 DEF RouteInv, Evicted
    <3>7. QED
      BY <3>5, <3>6 DEF RouteInv, HandledByAll, HasHandler
  <2>7. ASSUME NEW i \in Instances, InvokeHandler(i) PROVE RouteInv'
    BY <2>0, <2>7, RouteKept DEF InvokeHandler, serverVars
  <2>8. ASSUME NEW i \in Instances, NEW v \in Verdict, HandlerReturns(i, v)
        PROVE  RouteInv'
    BY <2>0, <2>8, RouteKept DEF HandlerReturns, serverVars
  <2>9. ASSUME NEW i \in Instances, Settle(i) PROVE RouteInv'
    <3>1. Disposition(verdict[i]) \in {"ack", "term", "nak"}
      BY <2>9, DispositionCases DEF Settle, TypeOK, Verdict
    <3>2. \A n \in Msgs : status[n] = "unseen" <=> status'[n] = "unseen"
      <4>1. cur[i][1] \in Msgs /\ Answer(i, cur[i][1], Disposition(verdict[i]))
        BY <2>9, CurIsMsg DEF Settle
      <4>2. QED
        BY <3>1, <4>1, AnswerSeen
    <3>3. UNCHANGED <<cursor, filter, firstSeq, unrouted, conn>>
      BY <2>9 DEF Settle, history
    <3>4. QED
      BY <2>0, <3>2, <3>3, RouteKept
  <2>10. ASSUME NEW i \in Instances,
                Close(i) \/ DrainDone(i) \/ Exit(i) \/ Crash(i)
         PROVE  RouteInv'
    <3>1. /\ UNCHANGED <<cursor, filter, firstSeq, status, unrouted>>
          /\ \/ conn' = [conn EXCEPT ![i] = "draining"]
             \/ conn' = [conn EXCEPT ![i] = "closed"]
             \/ conn' = [conn EXCEPT ![i] = "down"]
      BY <2>10 DEF Close, DrainDone, Exit, Crash, ProcessGone, serverVars, history
    <3>2. \A j \in Instances : conn'[j] = "open" => conn[j] = "open"
      BY <3>1 DEF TypeOK
    <3>3. QED
      BY <2>0, <3>1, <3>2, RouteKept
  <2>11. CASE UNCHANGED vars
    BY <2>0, <2>11, RouteKept DEF vars, serverVars, clientVars, history
  <2>12. QED
    BY <2>1, <2>2, <2>3, <2>4, <2>5, <2>6, <2>7, <2>8, <2>9, <2>10, <2>11
    DEF Next, Server, Callback, Process
<1>3. QED
  BY <1>1, <1>2, TypeCorrect, PTL DEF Spec

\* A message that every running release handles and the durable has moved past
\* is still to be redelivered or got an answer of a handler, ran out of
\* attempts or was discarded by retention; Close, crashes, lost answers and
\* releases that overwrite each other's filter lose none of them.
THEOREM DeliveredAtLeastOnce == Spec => []AtLeastOnce
<1>1. TypeOK /\ CausedInv /\ RouteInv => AtLeastOnce
  <2> SUFFICES ASSUME TypeOK, CausedInv, RouteInv,
                      NEW m \in Msgs, m < cursor, HandledByAll(m), ~Evicted(m)
               PROVE  \/ status[m] \in Open
                      \/ m \in succeeded \cup refused
                      \/ status[m] = "exhausted"
    BY DEF AtLeastOnce, Accounted
  <2>1. status[m] \in Open \cup Settled
    BY DEF RouteInv, TypeOK, Status
  <2>2. QED
    BY <2>1 DEF RouteInv, CausedInv, SettledByHandler, Settled
<1>2. QED
  BY <1>1, TypeCorrect, Caused, RoutesKept, PTL
=============================================================================
