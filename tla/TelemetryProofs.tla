-------------------------- MODULE TelemetryProofs ---------------------------
(* Theorems about Telemetry, for any finite number of processes, any number *)
(* of messages and any channel sizes.                                      *)
EXTENDS Telemetry, DeliveryProofs, FiniteSetTheorems

(* Counting and telling change nothing about the delivery *)

\* A step of a consumer that counts and notifies is a step of the delivery.
LEMMA TelStep == ASSUME [TelNext]_telVars PROVE [Next]_vars
<1>1. CASE \E i \in Instances : Deliver(i)
  <2>1. CASE \E i \in Instances : CountAck(i)
    BY <2>1 DEF CountAck
  <2>2. QED
    BY <1>1, <2>1 DEF Deliver, CountUnrouted, CountReceived, Report, Acknowledge,
                      Next, Callback
<1>2. CASE \E i \in Instances : Forget(i)
  BY <1>2 DEF Forget, Next, Process
<1>3. CASE \E i \in Instances, c \in Channels : Read(i, c)
  BY <1>3 DEF Read
<1>4. CASE Silent
  BY <1>4 DEF Silent, Next, Process
<1>5. CASE UNCHANGED telVars
  BY <1>5 DEF telVars
<1>6. QED
  BY <1>1, <1>2, <1>3, <1>4, <1>5 DEF TelNext

\* Metrics and notifications never change what becomes of a message: whatever
\* happens with them is a behaviour of Delivery.
THEOREM TelemetryIsTransparent == TelSpec => Spec
<1>1. TelInit => Init
  BY DEF TelInit
<1>2. QED
  BY <1>1, TelStep, PTL DEF TelSpec, Spec

\* So the consumers that count and notify keep the promise of Settlement.
THEOREM TelemetryKeepsPromise == TelSpec => KeepsPromise
  BY TelemetryIsTransparent, DurableKeepsPromise, PTL

\* Nor do they settle a message without a handler's answer.
THEOREM TelemetrySettledForCause == TelSpec => []SettledByHandler
  BY TelemetryIsTransparent, SettledForCause, PTL
-----------------------------------------------------------------------------
(* Types *)

\* What the increments of a step do to the counters.
LEMMA CountEffect ==
  ASSUME TelTypeOK, NEW i \in Instances, NEW ms, Count(i, ms)
  PROVE  /\ counter' \in [Instances -> [Metrics -> Nat]]
         /\ \A j \in Instances : j # i => counter'[j] = counter[j]
         /\ \A k \in Metrics : counter'[i][k] = IF k \in ms THEN counter[i][k] + 1
                                                ELSE counter[i][k]
<1>1. \A k \in Metrics : counter[i][k] \in Nat
  BY DEF TelTypeOK
<1>2. [k \in Metrics |-> IF k \in ms THEN counter[i][k] + 1 ELSE counter[i][k]]
        \in [Metrics -> Nat]
  BY <1>1
<1>3. QED
  BY <1>2 DEF Count, TelTypeOK

\* What a notification does to the channels, full or not.
LEMMA NotifyEffect ==
  ASSUME TelTypeOK, NEW i \in Instances, NEW c \in Channels, Notify(i, c)
  PROVE  /\ queued' \in [Instances -> [Channels -> Nat]]
         /\ \A j \in Instances, d \in Channels : queued'[j][d] <= Cap[d]
         /\ told' \in [Instances -> [Channels -> Nat]]
         /\ \A j \in Instances : j # i => told'[j] = told[j]
         /\ \A d \in Channels : told'[i][d] = IF d = c THEN told[i][d] + 1
                                              ELSE told[i][d]
<1> DEFINE q == IF queued[i][c] < Cap[c] THEN queued[i][c] + 1 ELSE queued[i][c]
<1>1. \A d \in Channels : queued[i][d] \in Nat /\ told[i][d] \in Nat
  BY DEF TelTypeOK
<1>2. q \in Nat /\ q <= Cap[c]
  BY <1>1, CapOK DEF TelTypeOK
<1>3. queued' = [queued EXCEPT ![i][c] = q]
  BY DEF Notify
<1> HIDE DEF q
<1>4. /\ queued' \in [Instances -> [Channels -> Nat]]
      /\ \A j \in Instances, d \in Channels : queued'[j][d] <= Cap[d]
  BY <1>1, <1>2, <1>3 DEF TelTypeOK
<1>5. QED
  BY <1>1, <1>4 DEF Notify, TelTypeOK

\* The counters count, and no channel ever holds more than its buffer.
THEOREM TelTypeCorrect == TelSpec => []TelTypeOK
<1>1. TelInit => TelTypeOK
  BY CapOK DEF TelInit, TelTypeOK, NoCounts, NoneTold
<1>2. TelTypeOK /\ [TelNext]_telVars => TelTypeOK'
  <2> SUFFICES ASSUME TelTypeOK, [TelNext]_telVars PROVE TelTypeOK'
    OBVIOUS
  <2>1. ASSUME NEW i \in Instances, CountUnrouted(i) PROVE TelTypeOK'
    BY <2>1, CountEffect DEF CountUnrouted, TelTypeOK
  <2>2. ASSUME NEW i \in Instances, CountReceived(i) PROVE TelTypeOK'
    BY <2>2, CountEffect DEF CountReceived, TelTypeOK
  <2>3. ASSUME NEW i \in Instances, NEW v \in Verdict, Report(i, v) PROVE TelTypeOK'
    <3> DEFINE c == IF v = "ok" THEN "success" ELSE "failure"
    <3>1. c \in Channels /\ Notify(i, c) /\ UNCHANGED <<counter, acking>>
      BY <2>3 DEF Report, Channels
    <3>2. QED
      BY <3>1, NotifyEffect DEF TelTypeOK
  <2>4. ASSUME NEW i \in Instances, Acknowledge(i) PROVE TelTypeOK'
    BY <2>4, CountEffect DEF Acknowledge, TelTypeOK
  <2>5. ASSUME NEW i \in Instances, CountAck(i) PROVE TelTypeOK'
    BY <2>5, CountEffect DEF CountAck, TelTypeOK
  <2>6. ASSUME NEW i \in Instances, Forget(i) PROVE TelTypeOK'
    BY <2>6, CapOK DEF Forget, TelTypeOK, NoCounts, NoneTold
  <2>7. ASSUME NEW i \in Instances, NEW c \in Channels, Read(i, c) PROVE TelTypeOK'
    <3>1. queued[i][c] - 1 \in Nat /\ queued[i][c] - 1 <= Cap[c]
      BY <2>7, CapOK DEF Read, TelTypeOK
    <3>2. QED
      BY <2>7, <3>1 DEF Read, TelTypeOK
  <2>8. CASE Silent \/ UNCHANGED telVars
    BY <2>8 DEF Silent, telVars, telemetry, TelTypeOK
  <2>9. QED
    BY <2>1, <2>2, <2>3, <2>4, <2>5, <2>6, <2>7, <2>8 DEF TelNext, Deliver
<1>3. QED
  BY <1>1, <1>2, PTL DEF TelSpec
-----------------------------------------------------------------------------
(* Every message received is accounted for *)

\* What a handler's failure is counted as.
LEMMA FailureMetricCases ==
  /\ FailureMetric("ok") = {}
  /\ FailureMetric("parse") = {"notParsable"}
  /\ FailureMetric("notype") = {"withoutHandler"}
  /\ FailureMetric("err") = {"nak"}
  BY DEF FailureMetric

\* The parts of the two properties that concern process i; a process counts an
\* Ack when it has no message in hand any more.
Balanced(i) ==
  LET n == counter[i] IN
  /\ i \in acking => Idle(i)
  /\ n["received"] = n["withoutHandler"] + n["notParsable"] + n["nak"] + n["ack"]
                       + InHand(i)
  /\ told[i]["success"] = n["ack"] + Returned(i, {"ok"}) + AckSent(i)
  /\ told[i]["failure"] >= n["notParsable"] + n["nak"] + Returned(i, {"parse", "err"})
  /\ told[i]["failure"] <= n["notParsable"] + n["nak"] + n["withoutHandler"]
                             + Returned(i, {"parse", "notype", "err"})

AccountInv == \A i \in Instances : Balanced(i)

\* A process no step of which is taken keeps its balance.
LEMMA BalanceKept ==
  ASSUME NEW i \in Instances, Balanced(i),
         counter'[i] = counter[i], told'[i] = told[i],
         i \in acking' <=> i \in acking,
         cur'[i] = cur[i], verdict'[i] = verdict[i]
  PROVE  Balanced(i)'
  BY DEF Balanced, InHand, Returned, AckSent, Idle

\* Counters, notifications and what is in flight balance in every state.
LEMMA CountersBalance == TelSpec => []AccountInv
<1>1. TelInit => AccountInv
  <2> SUFFICES ASSUME TelInit, NEW i \in Instances PROVE Balanced(i)
    BY DEF AccountInv
  <2>1. counter[i] = NoCounts /\ told[i] = NoneTold
    BY DEF TelInit
  <2>2. Idle(i) /\ i \notin acking /\ verdict[i] = "none"
    BY DEF TelInit, Init, Idle
  <2>3. QED
    BY <2>1, <2>2 DEF Balanced, InHand, Returned, AckSent, NoCounts, NoneTold,
                      Metrics, Channels
<1>2. TypeOK /\ CausedInv /\ TelTypeOK /\ AccountInv /\ [TelNext]_telVars => AccountInv'
  <2> SUFFICES ASSUME TypeOK, CausedInv, TelTypeOK, AccountInv, [TelNext]_telVars
               PROVE  AccountInv'
    OBVIOUS
  <2>0. ASSUME NEW i \in Instances
        PROVE  /\ counter[i]["received"] \in Nat /\ counter[i]["withoutHandler"] \in Nat
               /\ counter[i]["notParsable"] \in Nat /\ counter[i]["nak"] \in Nat
               /\ counter[i]["ack"] \in Nat
               /\ told[i]["success"] \in Nat /\ told[i]["failure"] \in Nat
               /\ Balanced(i)
               /\ Idle(i) => verdict[i] = "none"
    BY DEF TelTypeOK, Metrics, Channels, AccountInv, CausedInv, Grounded
  <2>1. ASSUME NEW i \in Instances, CountUnrouted(i) PROVE AccountInv'
    <3>1. /\ UNCHANGED <<cur, verdict, told, acking>>
          /\ Count(i, {"received", "withoutHandler"})
      BY <2>1 DEF CountUnrouted, RejectUnrouted
    <3>2. Balanced(i)'
      BY <2>0, <3>1, CountEffect
      DEF Balanced, InHand, Returned, AckSent, Idle, Metrics
    <3>3. ASSUME NEW j \in Instances \ {i} PROVE Balanced(j)'
      BY <2>0, <3>1, CountEffect, BalanceKept
    <3>4. QED
      BY <3>2, <3>3 DEF AccountInv
  <2>2. ASSUME NEW i \in Instances, CountReceived(i) PROVE AccountInv'
    <3>1. /\ Idle(i) /\ i \notin acking /\ cur' = [cur EXCEPT ![i] = Head(buf[i])]
          /\ UNCHANGED <<verdict, told, acking>>
          /\ Count(i, {"received"})
      BY <2>2 DEF CountReceived, InvokeHandler
    <3>2. Head(buf[i])[1] \in Msgs
      BY <2>2, HeadTail DEF CountReceived, InvokeHandler, TypeOK, Deliveries
    <3>3. Head(buf[i]) # NoDelivery
      BY <3>2, ConstantsOK DEF NoDelivery, Msgs
    <3>4. cur'[i] = Head(buf[i]) /\ \A j \in Instances \ {i} : cur'[j] = cur[j]
      BY <3>1 DEF TypeOK
    <3>5. InHand(i) = 0 /\ InHand(i)' = 1
      BY <3>1, <3>3, <3>4 DEF InHand, Idle
    <3>6. Balanced(i)'
      BY <2>0, <3>1, <3>5, CountEffect DEF Balanced, Returned, AckSent, Metrics
    <3>7. ASSUME NEW j \in Instances \ {i} PROVE Balanced(j)'
      BY <2>0, <3>1, <3>4, CountEffect, BalanceKept
    <3>8. QED
      BY <3>6, <3>7 DEF AccountInv
  <2>3. ASSUME NEW i \in Instances, NEW v \in Verdict, Report(i, v) PROVE AccountInv'
    <3> DEFINE c == IF v = "ok" THEN "success" ELSE "failure"
    <3>1. /\ ~Idle(i) /\ verdict[i] = "none"
          /\ verdict' = [verdict EXCEPT ![i] = v]
          /\ c \in Channels /\ Notify(i, c)
          /\ UNCHANGED <<cur, counter, acking>>
      BY <2>3 DEF Report, HandlerReturns, Channels
    <3>2. verdict'[i] = v /\ \A j \in Instances \ {i} : verdict'[j] = verdict[j]
      BY <3>1 DEF TypeOK
    <3>3. \A d \in Channels : told'[i][d] = IF d = c THEN told[i][d] + 1 ELSE told[i][d]
      BY <3>1, NotifyEffect
    <3>4. InHand(i)' = InHand(i) /\ AckSent(i)' = AckSent(i)
      BY <3>1 DEF InHand, AckSent, Idle
    <3>5. \A V : Returned(i, V)' = IF v \in V THEN 1 ELSE 0
      BY <3>2 DEF Returned
    <3>6. /\ Returned(i, {"ok"}) = 0 /\ Returned(i, {"parse", "err"}) = 0
          /\ Returned(i, {"parse", "notype", "err"}) = 0
      BY <3>1 DEF Returned
    <3>7. Balanced(i)'
      BY <2>0, <3>1, <3>3, <3>4, <3>5, <3>6
      DEF Balanced, AckSent, Idle, Channels, Verdict
    <3>8. ASSUME NEW j \in Instances \ {i} PROVE Balanced(j)'
      BY <2>0, <3>1, <3>2, NotifyEffect, BalanceKept
    <3>9. QED
      BY <3>7, <3>8 DEF AccountInv
  <2>4. ASSUME NEW i \in Instances, Acknowledge(i) PROVE AccountInv'
    <3> DEFINE v == verdict[i]
    <3>1. /\ ~Idle(i) /\ v \in Verdict /\ told' = told
          /\ cur' = [cur EXCEPT ![i] = NoDelivery]
          /\ verdict' = [verdict EXCEPT ![i] = "none"]
          /\ Count(i, FailureMetric(v))
          /\ acking' = IF v = "ok" THEN acking \cup {i} ELSE acking
      BY <2>4 DEF Acknowledge, Settle, TypeOK
    <3>2. /\ verdict'[i] = "none" /\ cur'[i] = NoDelivery
          /\ \A j \in Instances \ {i} : verdict'[j] = verdict[j] /\ cur'[j] = cur[j]
      BY <3>1 DEF TypeOK
    <3>3. i \notin acking
      BY <2>0, <3>1 DEF Balanced
    <3>4. /\ InHand(i) = 1 /\ InHand(i)' = IF v = "ok" THEN 1 ELSE 0
          /\ AckSent(i) = 0 /\ AckSent(i)' = IF v = "ok" THEN 1 ELSE 0
          /\ (i \in acking => Idle(i))'
      BY <3>1, <3>2, <3>3 DEF InHand, AckSent, Idle
    <3>5. /\ Returned(i, {"ok"})' = 0 /\ Returned(i, {"parse", "err"})' = 0
          /\ Returned(i, {"parse", "notype", "err"})' = 0
          /\ Returned(i, {"ok"}) = (IF v = "ok" THEN 1 ELSE 0)
          /\ Returned(i, {"parse", "err"}) = (IF v \in {"parse", "err"} THEN 1 ELSE 0)
          /\ Returned(i, {"parse", "notype", "err"}) =
               (IF v \in {"parse", "notype", "err"} THEN 1 ELSE 0)
      BY <3>2 DEF Returned
    <3>6. \A k \in Metrics : counter'[i][k] = IF k \in FailureMetric(v)
                                              THEN counter[i][k] + 1 ELSE counter[i][k]
      BY <3>1, CountEffect
    <3> HIDE DEF v
    <3>7. Balanced(i)'
      <4>1. CASE v = "ok"
        BY <2>0, <3>1, <3>4, <3>5, <3>6, <4>1, FailureMetricCases DEF Balanced, Metrics
      <4>2. CASE v = "parse"
        BY <2>0, <3>1, <3>4, <3>5, <3>6, <4>2, FailureMetricCases DEF Balanced, Metrics
      <4>3. CASE v = "notype"
        BY <2>0, <3>1, <3>4, <3>5, <3>6, <4>3, FailureMetricCases DEF Balanced, Metrics
      <4>4. CASE v = "err"
        BY <2>0, <3>1, <3>4, <3>5, <3>6, <4>4, FailureMetricCases DEF Balanced, Metrics
      <4>5. QED
        BY <3>1, <4>1, <4>2, <4>3, <4>4 DEF Verdict
    <3>8. ASSUME NEW j \in Instances \ {i} PROVE Balanced(j)'
      BY <2>0, <3>1, <3>2, CountEffect, BalanceKept
    <3>9. QED
      BY <3>7, <3>8 DEF AccountInv
  <2>5. ASSUME NEW i \in Instances, CountAck(i) PROVE AccountInv'
    <3>1. /\ i \in acking /\ acking' = acking \ {i}
          /\ UNCHANGED <<cur, verdict, told>>
          /\ Count(i, {"ack"})
      BY <2>5 DEF CountAck, vars, clientVars
    <3>2. /\ Idle(i) /\ Idle(i)'
          /\ InHand(i) = 1 /\ InHand(i)' = 0 /\ AckSent(i) = 1 /\ AckSent(i)' = 0
      BY <2>0, <3>1 DEF Balanced, InHand, AckSent, Idle
    <3>3. Balanced(i)'
      BY <2>0, <3>1, <3>2, CountEffect DEF Balanced, Returned, Metrics
    <3>4. ASSUME NEW j \in Instances \ {i} PROVE Balanced(j)'
      BY <2>0, <3>1, CountEffect, BalanceKept
    <3>5. QED
      BY <3>3, <3>4 DEF AccountInv
  <2>6. ASSUME NEW i \in Instances, Forget(i) PROVE AccountInv'
    <3>1. /\ cur' = [cur EXCEPT ![i] = NoDelivery]
          /\ verdict' = [verdict EXCEPT ![i] = "none"]
          /\ counter' = [counter EXCEPT ![i] = NoCounts]
          /\ told' = [told EXCEPT ![i] = NoneTold]
          /\ acking' = acking \ {i}
      BY <2>6 DEF Forget, Exit, Crash, ProcessGone
    <3>2. /\ cur'[i] = NoDelivery /\ verdict'[i] = "none" /\ i \notin acking'
          /\ counter'[i] = NoCounts /\ told'[i] = NoneTold
      BY <3>1 DEF TypeOK, TelTypeOK
    <3>3. Balanced(i)'
      BY <3>2 DEF Balanced, InHand, Returned, AckSent, Idle, NoCounts, NoneTold,
                  Metrics, Channels
    <3>4. ASSUME NEW j \in Instances \ {i} PROVE Balanced(j)'
      BY <2>0, <3>1, BalanceKept DEF TypeOK, TelTypeOK
    <3>5. QED
      BY <3>3, <3>4 DEF AccountInv
  <2>7. ASSUME UNCHANGED <<counter, told, acking, cur, verdict>> PROVE AccountInv'
    BY <2>0, <2>7, BalanceKept DEF AccountInv
  <2>8. ASSUME NEW i \in Instances, NEW c \in Channels, Read(i, c) PROVE AccountInv'
    BY <2>7, <2>8 DEF Read, vars, clientVars
  <2>9. CASE Silent
    <3>1. UNCHANGED <<cur, verdict>>
      BY <2>9 DEF Silent, Publish, Server, DeliverNew, Redeliver, Send, Exhaust,
                  AckWaitExpires, Start, Close, DrainDone, clientVars
    <3>2. QED
      BY <2>7, <2>9, <3>1 DEF Silent, telemetry
  <2>10. CASE UNCHANGED telVars
    BY <2>7, <2>10 DEF telVars, telemetry, vars, clientVars
  <2>11. QED
    BY <2>1, <2>2, <2>3, <2>4, <2>5, <2>6, <2>8, <2>9, <2>10 DEF TelNext, Deliver
<1>3. QED
  BY <1>1, <1>2, TelemetryIsTransparent, TypeCorrect, Caused, TelTypeCorrect, PTL
  DEF TelSpec

\* received is the sum of the outcomes and of what is in flight, in every
\* process and at every moment.
THEOREM ReceivedBalances == TelSpec => []ReceivedAccounted
<1>1. AccountInv => ReceivedAccounted
  BY DEF AccountInv, Balanced, ReceivedAccounted
<1>2. QED
  BY <1>1, CountersBalance, PTL

\* Notifications and counters agree on how many handler calls returned.
THEOREM NotificationsBalance == TelSpec => []NotificationsMatchCounters
<1>1. AccountInv => NotificationsMatchCounters
  BY DEF AccountInv, Balanced, NotificationsMatchCounters
<1>2. QED
  BY <1>1, CountersBalance, PTL
-----------------------------------------------------------------------------
(* The counters of all processes against what the server records *)

TermMetrics == {"notParsable", "withoutHandler"}

\* Attempts that wait in a buffer.
Held == {d \in AttemptsMade : \E i \in Instances : \E p \in DOMAIN buf[i] : buf[i][p] = d}

\* While no process has stopped: attempts taken off a buffer cover what is
\* counted as received, and what is counted as terminated, or counted as acked
\* or about to be, covers what the durable records.
Covered ==
  /\ \A i \in Instances : conn[i] \in {"down", "open"}
  /\ IsFiniteSet(Ticks({"received"}))
  /\ IsFiniteSet(Ticks({"ack"}))
  /\ IsFiniteSet(Ticks(TermMetrics))
  /\ IsFiniteSet(AttemptsMade)
  /\ Cardinality(Ticks({"received"})) <= Cardinality(AttemptsMade \ Held)
  /\ Cardinality(WithStatus("acked"))
       <= Cardinality(Ticks({"ack"})) + Cardinality(acking)
  /\ Cardinality(WithStatus("termed")) <= Cardinality(Ticks(TermMetrics))

CoverInv == stops = 0 => Covered

\* The elements of Ticks, one for each increment.
LEMMA InTicks ==
  ASSUME NEW M
  PROVE  \A t : t \in Ticks(M) <=>
           \E i \in Instances, k \in M : \E n \in 1..counter[i][k] : t = <<i, k, n>>
  BY DEF Ticks

\* The elements of AttemptsMade, one for each attempt.
LEMMA InAttemptsMade ==
  \A d : d \in AttemptsMade <=>
    \E m \in Msgs : \E n \in 1..deliveries[m] : d = <<m, n>>
  BY DEF AttemptsMade

\* A finite set that loses elements.
LEMMA SmallerSet ==
  ASSUME NEW S, NEW T, IsFiniteSet(S), T \subseteq S
  PROVE  /\ IsFiniteSet(T) /\ Cardinality(T) \in Nat /\ Cardinality(S) \in Nat
         /\ Cardinality(T) <= Cardinality(S)
  BY FS_Subset, FS_CardinalityType

\* A set that gains at most one element.
LEMMA OneMore ==
  ASSUME NEW S, NEW T, NEW x, IsFiniteSet(S), T \subseteq S \cup {x}
  PROVE  /\ IsFiniteSet(T) /\ Cardinality(T) \in Nat /\ Cardinality(S) \in Nat
         /\ Cardinality(T) <= Cardinality(S) + 1
<1>1. /\ IsFiniteSet(S \cup {x})
      /\ Cardinality(S \cup {x}) \in {Cardinality(S), Cardinality(S) + 1}
  BY FS_AddElement
<1>2. Cardinality(T) <= Cardinality(S \cup {x}) /\ IsFiniteSet(T)
  BY <1>1, SmallerSet
<1>3. Cardinality(S) \in Nat /\ Cardinality(T) \in Nat
  BY <1>2, FS_CardinalityType
<1>4. QED
  BY <1>1, <1>2, <1>3

\* Messages and processes are finite in number.
LEMMA FewMessages ==
  ASSUME TelTypeOK
  PROVE  /\ \A s : IsFiniteSet(WithStatus(s)) /\ Cardinality(WithStatus(s)) \in Nat
         /\ IsFiniteSet(acking) /\ Cardinality(acking) \in Nat
<1>1. IsFiniteSet(Msgs)
  BY ConstantsOK, FS_Interval DEF Msgs
<1>2. \A s : WithStatus(s) \subseteq Msgs
  BY DEF WithStatus
<1>3. acking \subseteq Instances
  BY DEF TelTypeOK
<1>4. QED
  BY <1>1, <1>2, <1>3, CapOK, SmallerSet

\* A step that increments no counter of M leaves their ticks alone, ...
LEMMA NoTick ==
  ASSUME TelTypeOK, NEW i \in Instances, NEW ms, Count(i, ms),
         NEW M \in SUBSET Metrics, ms \cap M = {}
  PROVE  Ticks(M)' = Ticks(M)
<1>1. \A j \in Instances, k \in M : counter'[j][k] = counter[j][k]
  BY CountEffect
<1>2. QED
  BY <1>1 DEF Ticks

\* ... and one that increments one of them adds one.
LEMMA OneTick ==
  ASSUME TelTypeOK, NEW i \in Instances, NEW ms, Count(i, ms),
         NEW M \in SUBSET Metrics, NEW k \in M, ms \cap M = {k},
         IsFiniteSet(Ticks(M))
  PROVE  /\ IsFiniteSet(Ticks(M)')
         /\ Cardinality(Ticks(M)') = Cardinality(Ticks(M)) + 1
         /\ Cardinality(Ticks(M)) \in Nat
<1> DEFINE t == <<i, k, counter[i][k] + 1>>
<1>1. /\ counter[i][k] \in Nat
      /\ counter'[i][k] = counter[i][k] + 1
      /\ \A j \in Instances, l \in M : j # i \/ l # k => counter'[j][l] = counter[j][l]
  BY CountEffect DEF TelTypeOK
<1>2. t \notin Ticks(M)
  BY <1>1, InTicks
<1>3. 1..(counter[i][k] + 1) = (1..counter[i][k]) \cup {counter[i][k] + 1}
  BY <1>1
<1>4. \A x : x \in Ticks(M)' <=>
        \E j \in Instances, l \in M : \E n \in 1..counter'[j][l] : x = <<j, l, n>>
  BY DEF Ticks
<1>5. ASSUME NEW x \in Ticks(M)' PROVE x \in Ticks(M) \cup {t}
  <2>1. PICK j \in Instances, l \in M : \E n \in 1..counter'[j][l] : x = <<j, l, n>>
    BY <1>4, <1>5
  <2>2. PICK n \in 1..counter'[j][l] : x = <<j, l, n>>
    BY <2>1
  <2>3. CASE j = i /\ l = k
    BY <1>1, <1>3, <2>2, <2>3, InTicks
  <2>4. CASE j # i \/ l # k
    BY <1>1, <2>2, <2>4, InTicks
  <2>5. QED
    BY <2>3, <2>4
<1>6. ASSUME NEW x \in Ticks(M) PROVE x \in Ticks(M)'
  <2>1. PICK j \in Instances, l \in M : \E n \in 1..counter[j][l] : x = <<j, l, n>>
    BY <1>6, InTicks
  <2>2. 1..counter[j][l] \subseteq 1..counter'[j][l]
    BY <1>1, <1>3
  <2>3. QED
    BY <1>4, <2>1, <2>2
<1>7. t \in Ticks(M)'
  <2>1. counter[i][k] + 1 \in 1..counter'[i][k]
    BY <1>1
  <2>2. QED
    BY <1>4, <2>1
<1>8. Ticks(M)' = Ticks(M) \cup {t}
  BY <1>5, <1>6, <1>7
<1> HIDE DEF t
<1>9. QED
  BY <1>2, <1>8, FS_AddElement, FS_CardinalityType

\* An answer adds at most its message to what is acked or terminated.
LEMMA AnswerRecorded ==
  ASSUME TypeOK, NEW i \in Instances, NEW m \in Msgs,
         NEW call \in {"ack", "term", "nak"}, Answer(i, m, call)
  PROVE  /\ WithStatus("acked")' \subseteq
              WithStatus("acked") \cup (IF call = "ack" THEN {m} ELSE {})
         /\ WithStatus("termed")' \subseteq
              WithStatus("termed") \cup (IF call = "term" THEN {m} ELSE {})
<1>1. \A n \in Msgs \ {m} : status'[n] = status[n]
  BY AnswerEffect
<1>2. \/ status'[m] = status[m]
      \/ call = "ack" /\ status'[m] = "acked"
      \/ call = "term" /\ status'[m] = "termed"
      \/ call = "nak" /\ status'[m] = "requeued"
  BY AnswerEffect DEF TypeOK
<1>3. QED
  BY <1>1, <1>2 DEF WithStatus

\* Steps that count nothing and take nothing off a buffer keep the cover.
LEMMA CoverKept ==
  ASSUME TelTypeOK, Covered, \A i \in Instances : conn'[i] \in {"down", "open"},
         UNCHANGED <<counter, acking>>,
         WithStatus("acked")' \subseteq WithStatus("acked"),
         WithStatus("termed")' \subseteq WithStatus("termed"),
         IsFiniteSet(AttemptsMade'),
         AttemptsMade \ Held \subseteq AttemptsMade' \ Held'
  PROVE  Covered'
<1>1. \A M : Ticks(M)' = Ticks(M)
  BY DEF Ticks
<1>2. Cardinality(acking') = Cardinality(acking)
  OBVIOUS
<1>3. /\ Cardinality(WithStatus("acked")') <= Cardinality(WithStatus("acked"))
      /\ Cardinality(WithStatus("termed")') <= Cardinality(WithStatus("termed"))
      /\ Cardinality(WithStatus("acked")) \in Nat /\ Cardinality(WithStatus("termed")) \in Nat
      /\ Cardinality(WithStatus("acked")') \in Nat /\ Cardinality(WithStatus("termed")') \in Nat
  BY FewMessages, SmallerSet
<1>4. IsFiniteSet(AttemptsMade' \ Held')
  BY SmallerSet
<1>5. /\ Cardinality(AttemptsMade \ Held) <= Cardinality(AttemptsMade' \ Held')
      /\ Cardinality(AttemptsMade \ Held) \in Nat /\ Cardinality(AttemptsMade' \ Held') \in Nat
  BY <1>4, SmallerSet
<1>6. /\ Cardinality(Ticks({"received"})) \in Nat /\ Cardinality(Ticks({"ack"})) \in Nat
      /\ Cardinality(Ticks(TermMetrics)) \in Nat /\ Cardinality(acking) \in Nat
  BY FewMessages, FS_CardinalityType DEF Covered
<1>7. QED
  BY <1>1, <1>2, <1>3, <1>5, <1>6 DEF Covered, TermMetrics

\* A message taken off a buffer is one attempt more that is not held.
LEMMA TakenOff ==
  ASSUME TypeOK, AttemptInv, HeldOnce, Covered, NEW i \in Instances, buf[i] # <<>>,
         buf' = [buf EXCEPT ![i] = Tail(buf[i])], UNCHANGED deliveries
  PROVE  /\ AttemptsMade' = AttemptsMade
         /\ Cardinality(AttemptsMade' \ Held') >= Cardinality(AttemptsMade \ Held) + 1
         /\ Cardinality(AttemptsMade \ Held) \in Nat
         /\ Cardinality(AttemptsMade' \ Held') \in Nat
<1> DEFINE d == Head(buf[i])
<1>1. AttemptsMade' = AttemptsMade
  BY DEF AttemptsMade
<1>2. d = buf[i][1] /\ 1 \in DOMAIN buf[i] /\ d \in Deliveries
  BY HeadTail DEF TypeOK
<1>3. d[1] \in Msgs /\ d[2] \in 1..deliveries[d[1]] /\ d = <<d[1], d[2]>>
  BY <1>2 DEF AttemptInv, Counted, Deliveries, TypeOK
<1>4. d \in AttemptsMade
  BY <1>3, InAttemptsMade
<1>5. d \in Held
  BY <1>2, <1>4 DEF Held
<1>6. ASSUME NEW j \in Instances, NEW p \in DOMAIN buf'[j]
      PROVE  /\ buf'[j][p] # d
             /\ \E q \in DOMAIN buf[j] : buf[j][q] = buf'[j][p]
  <2>1. CASE j = i
    <3>1. p + 1 \in DOMAIN buf[i] /\ buf'[i][p] = buf[i][p + 1]
      BY <2>1, TakeHead
    <3>2. p \in Nat /\ p + 1 # 1
      BY <1>6, <2>1, HeadTail DEF TypeOK
    <3>3. QED
      BY <1>2, <2>1, <3>1, <3>2 DEF HeldOnce
  <2>2. CASE j # i
    <3>1. p \in DOMAIN buf[j] /\ buf'[j][p] = buf[j][p]
      BY <2>2, TakeHead
    <3>2. QED
      BY <1>2, <2>2, <3>1 DEF HeldOnce
  <2>3. QED
    BY <2>1, <2>2
<1>7. Held' \subseteq Held \ {d}
  BY <1>1, <1>6 DEF Held
<1> HIDE DEF d
<1>8. /\ (AttemptsMade \ Held) \cup {d} \subseteq AttemptsMade' \ Held'
      /\ d \notin AttemptsMade \ Held
  BY <1>1, <1>4, <1>5, <1>7
<1>9. /\ IsFiniteSet(AttemptsMade \ Held) /\ IsFiniteSet(AttemptsMade' \ Held')
  BY <1>1, SmallerSet DEF Covered
<1>10. Cardinality((AttemptsMade \ Held) \cup {d}) = Cardinality(AttemptsMade \ Held) + 1
  BY <1>8, <1>9, FS_AddElement
<1>11. QED
  BY <1>1, <1>8, <1>9, <1>10, SmallerSet

\* A sent attempt is one more, whether it arrives in a buffer or not.
LEMMA SentIsMore ==
  ASSUME TypeOK, TypeOK', Covered, NEW i \in Instances, NEW m \in Msgs, Send(i, m)
  PROVE  /\ IsFiniteSet(AttemptsMade')
         /\ AttemptsMade \ Held \subseteq AttemptsMade' \ Held'
<1> DEFINE d == <<m, deliveries[m] + 1>>
<1>1. /\ deliveries[m] \in Nat /\ deliveries'[m] = deliveries[m] + 1
      /\ \A n \in Msgs \ {m} : deliveries'[n] = deliveries[n]
  BY DEF Send, TypeOK
<1>2. 1..(deliveries[m] + 1) = (1..deliveries[m]) \cup {deliveries[m] + 1}
  BY <1>1
<1>3. \A x : x \in AttemptsMade' <=>
        \E n \in Msgs : \E k \in 1..deliveries'[n] : x = <<n, k>>
  BY DEF AttemptsMade
<1>4. AttemptsMade' \subseteq AttemptsMade \cup {d}
  BY <1>1, <1>2, <1>3, InAttemptsMade
<1>5. AttemptsMade \subseteq AttemptsMade'
  BY <1>1, <1>2, <1>3, InAttemptsMade
<1>6. d \notin AttemptsMade
  BY <1>1, InAttemptsMade
<1>7. \A j \in Instances : \A p \in DOMAIN buf'[j] :
        \/ p \in DOMAIN buf[j] /\ buf'[j][p] = buf[j][p]
        \/ buf'[j][p] = d
  BY SentLast
<1> HIDE DEF d
<1>8. Held' \cap AttemptsMade \subseteq Held
  BY <1>6, <1>7 DEF Held
<1>9. IsFiniteSet(AttemptsMade')
  BY <1>4, OneMore DEF Covered
<1>10. QED
  BY <1>5, <1>8, <1>9

\* Every step keeps the cover while no process stops.
LEMMA CoverStep ==
  ASSUME TypeOK, TypeOK', AttemptInv, HeldOnce, TelTypeOK, AccountInv, Covered,
         stops = 0, stops' = 0, [TelNext]_telVars
  PROVE  Covered'
<1> DEFINE rec   == Cardinality(Ticks({"received"}))
           ack   == Cardinality(Ticks({"ack"}))
           term  == Cardinality(Ticks(TermMetrics))
           free  == Cardinality(AttemptsMade \ Held)
           acked == Cardinality(WithStatus("acked"))
           termd == Cardinality(WithStatus("termed"))
           acks  == Cardinality(acking)
<1>0. /\ rec \in Nat /\ ack \in Nat /\ term \in Nat
      /\ free \in Nat /\ acked \in Nat /\ termd \in Nat /\ acks \in Nat
      /\ rec <= free /\ acked <= ack + acks /\ termd <= term
  <2>1. free \in Nat
    BY SmallerSet DEF Covered
  <2>2. QED
    BY <2>1, FewMessages, FS_CardinalityType DEF Covered
<1>1. {"received"} \subseteq Metrics /\ {"ack"} \subseteq Metrics /\ TermMetrics \subseteq Metrics
  BY DEF Metrics, TermMetrics
<1>2. ASSUME UNCHANGED <<buf, deliveries>>
      PROVE  AttemptsMade' = AttemptsMade /\ Held' = Held
  BY <1>2 DEF AttemptsMade, Held
<1>3. ASSUME NEW i \in Instances, CountUnrouted(i) PROVE Covered'
  <2> DEFINE m == Head(buf[i])[1]
  <2>1. m \in Msgs
    BY <1>3, HeadTail DEF CountUnrouted, RejectUnrouted, TypeOK, Deliveries
  <2>2. /\ Answer(i, m, "term") /\ Count(i, {"received", "withoutHandler"})
        /\ UNCHANGED <<deliveries, conn, acking>>
        /\ buf[i] # <<>> /\ buf' = [buf EXCEPT ![i] = Tail(buf[i])]
    BY <1>3 DEF CountUnrouted, RejectUnrouted
  <2> HIDE DEF m
  <2>3. /\ IsFiniteSet(Ticks({"received"})') /\ rec' = rec + 1
    <3>1. {"received", "withoutHandler"} \cap {"received"} = {"received"}
      OBVIOUS
    <3>2. IsFiniteSet(Ticks({"received"})) /\ "received" \in Metrics
      BY DEF Covered, Metrics
    <3>3. QED
      BY <1>1, <2>2, <3>1, <3>2, OneTick
  <2>4. /\ IsFiniteSet(Ticks(TermMetrics)') /\ term' = term + 1
    <3>1. {"received", "withoutHandler"} \cap TermMetrics = {"withoutHandler"}
      BY DEF TermMetrics
    <3>2. IsFiniteSet(Ticks(TermMetrics)) /\ "withoutHandler" \in TermMetrics
      BY DEF Covered, TermMetrics
    <3>3. QED
      BY <1>1, <2>2, <3>1, <3>2, OneTick
  <2>5. Ticks({"ack"})' = Ticks({"ack"})
    BY <1>1, <2>2, NoTick
  <2>6. AttemptsMade' = AttemptsMade /\ free' >= free + 1 /\ free' \in Nat
    BY <2>2, TakenOff
  <2>7. /\ WithStatus("acked")' \subseteq WithStatus("acked")
        /\ WithStatus("termed")' \subseteq WithStatus("termed") \cup {m}
    BY <2>1, <2>2, AnswerRecorded
  <2>8. acked' <= acked /\ termd' <= termd + 1 /\ acked' \in Nat /\ termd' \in Nat
    BY <2>7, FewMessages, SmallerSet, OneMore
  <2>9. rec' <= free' /\ acked' <= ack' + acks' /\ termd' <= term'
    BY <1>0, <2>2, <2>3, <2>4, <2>5, <2>6, <2>8
  <2>10. QED
    BY <2>2, <2>3, <2>4, <2>5, <2>6, <2>9 DEF Covered
<1>4. ASSUME NEW i \in Instances, CountReceived(i) PROVE Covered'
  <2>1. /\ Count(i, {"received"})
        /\ UNCHANGED <<deliveries, status, conn, acking>>
        /\ buf[i] # <<>> /\ buf' = [buf EXCEPT ![i] = Tail(buf[i])]
    BY <1>4 DEF CountReceived, InvokeHandler, serverVars
  <2>2. IsFiniteSet(Ticks({"received"})') /\ rec' = rec + 1
    BY <1>1, <2>1, OneTick DEF Covered
  <2>3. Ticks(TermMetrics)' = Ticks(TermMetrics) /\ Ticks({"ack"})' = Ticks({"ack"})
    BY <1>1, <2>1, NoTick DEF TermMetrics
  <2>4. AttemptsMade' = AttemptsMade /\ free' >= free + 1 /\ free' \in Nat
    BY <2>1, TakenOff
  <2>5. \A s : WithStatus(s)' = WithStatus(s)
    BY <2>1 DEF WithStatus
  <2>6. rec' <= free' /\ acked' <= ack' + acks' /\ termd' <= term'
    BY <1>0, <2>1, <2>2, <2>3, <2>4, <2>5
  <2>7. QED
    BY <2>1, <2>2, <2>3, <2>4, <2>6 DEF Covered
<1>5. ASSUME UNCHANGED <<counter, acking, conn, status, buf, deliveries>>
      PROVE  Covered'
  <2>1. AttemptsMade' = AttemptsMade /\ Held' = Held
    BY <1>2, <1>5
  <2>2. \A s : WithStatus(s)' = WithStatus(s)
    BY <1>5 DEF WithStatus
  <2>3. QED
    BY <1>5, <2>1, <2>2, CoverKept DEF Covered
<1>6. ASSUME NEW i \in Instances, NEW v \in Verdict, Report(i, v) PROVE Covered'
  BY <1>5, <1>6 DEF Report, HandlerReturns, serverVars
<1>7. ASSUME NEW i \in Instances, Acknowledge(i) PROVE Covered'
  <2> DEFINE m == cur[i][1]
             v == verdict[i]
  <2>1. m \in Msgs /\ v \in Verdict
    BY <1>7, CurIsMsg DEF Acknowledge, Settle, TypeOK
  <2>2. /\ Answer(i, m, Disposition(v))
        /\ Count(i, FailureMetric(v))
        /\ acking' = IF v = "ok" THEN acking \cup {i} ELSE acking
        /\ UNCHANGED <<deliveries, buf, conn>>
    BY <1>7 DEF Acknowledge, Settle
  <2>3. i \notin acking
    BY <1>7 DEF Acknowledge, Settle, AccountInv, Balanced
  <2> HIDE DEF m, v
  <2>4. AttemptsMade' = AttemptsMade /\ Held' = Held
    BY <1>2, <2>2
  <2>5. "received" \notin FailureMetric(v) /\ "ack" \notin FailureMetric(v)
    BY <2>1, FailureMetricCases DEF Verdict
  <2>6. Ticks({"received"})' = Ticks({"received"}) /\ Ticks({"ack"})' = Ticks({"ack"})
    BY <1>1, <2>2, <2>5, NoTick
  <2>7. CASE v = "ok"
    <3>1. Ticks(TermMetrics)' = Ticks(TermMetrics)
      BY <1>1, <2>2, <2>7, NoTick, FailureMetricCases
    <3>2. acks' = acks + 1
      BY <2>2, <2>3, <2>7, FewMessages, FS_AddElement
    <3>3. /\ WithStatus("acked")' \subseteq WithStatus("acked") \cup {m}
          /\ WithStatus("termed")' \subseteq WithStatus("termed")
      BY <2>1, <2>2, <2>7, DispositionCases, AnswerRecorded
    <3>4. acked' <= acked + 1 /\ termd' <= termd /\ acked' \in Nat /\ termd' \in Nat
      BY <3>3, FewMessages, SmallerSet, OneMore
    <3>5. rec' <= free' /\ acked' <= ack' + acks' /\ termd' <= term'
      BY <1>0, <2>4, <2>6, <3>1, <3>2, <3>4
    <3>6. QED
      BY <2>2, <2>4, <2>6, <3>1, <3>5 DEF Covered
  <2>8. CASE v \in {"parse", "notype"}
    <3>1. IsFiniteSet(Ticks(TermMetrics)') /\ term' = term + 1
      <4>1. \/ FailureMetric(v) \cap TermMetrics = {"notParsable"}
            \/ FailureMetric(v) \cap TermMetrics = {"withoutHandler"}
        BY <2>8, FailureMetricCases DEF TermMetrics
      <4>2. QED
        BY <1>1, <2>2, <4>1, OneTick DEF Covered, TermMetrics
    <3>2. /\ WithStatus("acked")' \subseteq WithStatus("acked")
          /\ WithStatus("termed")' \subseteq WithStatus("termed") \cup {m}
      BY <2>1, <2>2, <2>8, DispositionCases, AnswerRecorded
    <3>3. acked' <= acked /\ termd' <= termd + 1 /\ acked' \in Nat /\ termd' \in Nat
      BY <3>2, FewMessages, SmallerSet, OneMore
    <3>4. acking' = acking
      BY <2>2, <2>8
    <3>5. rec' <= free' /\ acked' <= ack' + acks' /\ termd' <= term'
      BY <1>0, <2>4, <2>6, <3>1, <3>3, <3>4
    <3>6. QED
      BY <2>2, <2>4, <2>6, <3>1, <3>5 DEF Covered
  <2>9. CASE v = "err"
    <3>1. Ticks(TermMetrics)' = Ticks(TermMetrics)
      BY <1>1, <2>2, <2>9, NoTick, FailureMetricCases DEF TermMetrics
    <3>2. /\ WithStatus("acked")' \subseteq WithStatus("acked")
          /\ WithStatus("termed")' \subseteq WithStatus("termed")
      BY <2>1, <2>2, <2>9, DispositionCases, AnswerRecorded
    <3>3. acked' <= acked /\ termd' <= termd /\ acked' \in Nat /\ termd' \in Nat
      BY <3>2, FewMessages, SmallerSet
    <3>4. acking' = acking
      BY <2>2, <2>9
    <3>5. rec' <= free' /\ acked' <= ack' + acks' /\ termd' <= term'
      BY <1>0, <2>4, <2>6, <3>1, <3>3, <3>4
    <3>6. QED
      BY <2>2, <2>4, <2>6, <3>1, <3>5 DEF Covered
  <2>10. QED
    BY <2>1, <2>7, <2>8, <2>9 DEF Verdict
<1>8. ASSUME NEW i \in Instances, CountAck(i) PROVE Covered'
  <2>1. /\ i \in acking /\ acking' = acking \ {i} /\ Count(i, {"ack"})
        /\ UNCHANGED <<deliveries, buf, conn, status>>
    BY <1>8 DEF CountAck, vars, serverVars, clientVars
  <2>2. IsFiniteSet(Ticks({"ack"})') /\ ack' = ack + 1
    BY <1>1, <2>1, OneTick DEF Covered
  <2>3. /\ Ticks({"received"})' = Ticks({"received"})
        /\ Ticks(TermMetrics)' = Ticks(TermMetrics)
    BY <1>1, <2>1, NoTick DEF TermMetrics
  <2>4. acks' = acks - 1
    BY <2>1, FewMessages, FS_RemoveElement
  <2>5. /\ AttemptsMade' = AttemptsMade /\ Held' = Held
        /\ \A s : WithStatus(s)' = WithStatus(s)
    BY <1>2, <2>1 DEF WithStatus
  <2>6. rec' <= free' /\ acked' <= ack' + acks' /\ termd' <= term'
    BY <1>0, <2>2, <2>3, <2>4, <2>5
  <2>7. QED
    BY <2>1, <2>2, <2>3, <2>5, <2>6 DEF Covered
<1>9. ASSUME NEW i \in Instances, Forget(i) PROVE FALSE
  BY <1>9 DEF Forget, Exit, Crash, Covered
<1>10. ASSUME NEW i \in Instances, NEW c \in Channels, Read(i, c) PROVE Covered'
  BY <1>5, <1>10 DEF Read, vars, serverVars, clientVars
<1>11. ASSUME Silent PROVE Covered'
  <2>1. UNCHANGED <<counter, acking>>
    BY <1>11 DEF Silent, telemetry
  <2>2. CASE Publish
    BY <1>5, <2>1, <2>2 DEF Publish, clientVars
  <2>3. ASSUME NEW i \in Instances, NEW m \in Msgs, Send(i, m) PROVE Covered'
    <3>1. /\ IsFiniteSet(AttemptsMade')
          /\ AttemptsMade \ Held \subseteq AttemptsMade' \ Held'
      BY <2>3, SentIsMore
    <3>2. /\ WithStatus("acked")' \subseteq WithStatus("acked")
          /\ WithStatus("termed")' \subseteq WithStatus("termed")
      BY <2>3 DEF Send, WithStatus, TypeOK
    <3>3. QED
      BY <2>1, <2>3, <3>1, <3>2, CoverKept DEF Send, Covered
  <2>4. ASSUME NEW m \in Msgs, Exhaust(m) \/ AckWaitExpires(m) PROVE Covered'
    <3>1. UNCHANGED <<deliveries, buf, conn>>
      BY <2>4 DEF Exhaust, AckWaitExpires, clientVars
    <3>2. /\ WithStatus("acked")' \subseteq WithStatus("acked")
          /\ WithStatus("termed")' \subseteq WithStatus("termed")
      BY <2>4 DEF Exhaust, AckWaitExpires, WithStatus, TypeOK
    <3>3. AttemptsMade' = AttemptsMade /\ Held' = Held
      BY <1>2, <3>1
    <3>4. QED
      BY <2>1, <3>1, <3>2, <3>3, CoverKept DEF Covered
  <2>5. ASSUME NEW i \in Instances, Start(i) PROVE Covered'
    <3>1. /\ UNCHANGED <<deliveries, buf, status>>
          /\ \A j \in Instances : conn'[j] \in {"down", "open"}
      BY <2>5 DEF Start, Covered, TypeOK
    <3>2. \A s : WithStatus(s)' = WithStatus(s)
      BY <3>1 DEF WithStatus
    <3>3. AttemptsMade' = AttemptsMade /\ Held' = Held
      BY <1>2, <3>1
    <3>4. QED
      BY <2>1, <3>1, <3>2, <3>3, CoverKept DEF Covered
  <2>6. ASSUME NEW i \in Instances, Close(i) \/ DrainDone(i) PROVE FALSE
    BY <2>6 DEF Close, DrainDone, Covered
  <2>7. QED
    BY <1>11, <2>2, <2>3, <2>4, <2>5, <2>6
    DEF Silent, Server, DeliverNew, Redeliver
<1>12. CASE UNCHANGED telVars
  BY <1>5, <1>12 DEF telVars, telemetry, vars, serverVars, clientVars
<1>13. QED
  BY <1>3, <1>4, <1>6, <1>7, <1>8, <1>9, <1>10, <1>11, <1>12 DEF TelNext, Deliver

\* While no process has stopped, no message is received or terminated without
\* some process having counted it, nor acked unless some process has counted
\* that or is about to.
THEOREM ServerIsCovered == TelSpec => []CountersCoverServer
<1>1. TelInit => CoverInv
  <2> SUFFICES ASSUME TelInit PROVE Covered
    BY DEF CoverInv
  <2>1. \A M \in SUBSET Metrics : Ticks(M) = {}
    <3>1. \A i \in Instances, k \in Metrics : counter[i][k] = 0
      BY DEF TelInit, NoCounts
    <3>2. QED
      BY <3>1, InTicks
  <2>2. AttemptsMade = {}
    BY InAttemptsMade DEF TelInit, Init
  <2>3. WithStatus("acked") = {} /\ WithStatus("termed") = {} /\ acking = {}
    BY DEF TelInit, Init, WithStatus
  <2>4. /\ Ticks({"received"}) = {} /\ Ticks({"ack"}) = {} /\ Ticks(TermMetrics) = {}
        /\ AttemptsMade \ Held = {}
    BY <2>1, <2>2 DEF Metrics, TermMetrics
  <2>5. \A i \in Instances : conn[i] = "down"
    BY DEF TelInit, Init
  <2>6. QED
    BY <2>2, <2>3, <2>4, <2>5, FS_EmptySet DEF Covered
<1>2. TypeOK /\ TypeOK' /\ AttemptInv /\ OneCallPerDelivery
      /\ TelTypeOK /\ AccountInv /\ CoverInv /\ [TelNext]_telVars => CoverInv'
  <2> SUFFICES ASSUME TypeOK, TypeOK', AttemptInv, OneCallPerDelivery,
                      TelTypeOK, AccountInv, CoverInv, [TelNext]_telVars
               PROVE  (stops = 0)' => Covered'
    BY Zenon DEF CoverInv
  <2> HAVE (stops = 0)'
  <2>1. stops = 0
    <3>1. [Next]_vars
      BY TelStep
    <3>2. stops' = stops \/ stops' = stops + 1
      BY <3>1 DEF Next, Publish, Server, DeliverNew, Redeliver, Send, Exhaust,
         AckWaitExpires, Callback, RejectUnrouted, InvokeHandler, HandlerReturns,
         Settle, Process, Start, Close, DrainDone, Exit, Crash, history, vars
    <3>3. stops \in Nat
      BY DEF TypeOK
    <3>4. QED
      BY <3>2, <3>3
  <2>2. QED
    BY <2>1, CoverStep DEF CoverInv, OneCallPerDelivery
<1>3. TelTypeOK /\ CoverInv => CountersCoverServer
  <2> SUFFICES ASSUME TelTypeOK, Covered PROVE CountersCoverServer
    BY DEF CoverInv, CountersCoverServer
  <2>1. Cardinality(AttemptsMade \ Held) <= Cardinality(AttemptsMade)
    BY SmallerSet DEF Covered
  <2>2. /\ Cardinality(AttemptsMade \ Held) \in Nat /\ Cardinality(AttemptsMade) \in Nat
        /\ Cardinality(Ticks({"received"})) \in Nat
        /\ Cardinality(Ticks(TermMetrics)) \in Nat
    BY SmallerSet, FS_CardinalityType DEF Covered
  <2>3. QED
    BY <2>1, <2>2, FewMessages DEF Covered, CountersCoverServer, TermMetrics
<1>4. QED
  BY <1>1, <1>2, <1>3, TelemetryIsTransparent, TypeCorrect, AttemptsCounted,
     CalledOnce, TelTypeCorrect, CountersBalance, PTL
  DEF TelSpec
=============================================================================
