--------------------------- MODULE BackoffProofs ----------------------------
(* Theorems about Backoff, for any schedule and any number of processes. *)
EXTENDS Backoff, TLAPS

\* An attempt more.
LEMMA SentMore ==
  ASSUME NEW S, NEW s \in Seq(S), NEW t \in S
  PROVE  /\ Append(s, t) \in Seq(S)
         /\ Len(Append(s, t)) = Len(s) + 1
         /\ \A k \in 1..Len(s) : Append(s, t)[k] = s[k]
         /\ Append(s, t)[Len(s) + 1] = t
  OBVIOUS

\* A schedule has a first entry.
LEMMA NotEmpty ==
  ASSUME NEW S, NEW s \in Seq(S), s # <<>>
  PROVE  Len(s) \in Nat \ {0} /\ DOMAIN s = 1..Len(s)
  OBVIOUS

\* The times of the attempts stay in the past.
LEMMA SentEarlier ==
  ASSUME NEW n \in Nat, NEW s \in Seq(0..n)
  PROVE  s \in Seq(0..(n + 1))
<1>1. \A k \in 1..Len(s) : s[k] \in 0..(n + 1)
  OBVIOUS
<1>2. QED
  BY <1>1

\* Every entry of the schedule is a positive duration, the last one serving
\* all later attempts.
LEMMA WaitIsEntry ==
  ASSUME NEW k \in Nat \ {0}
  PROVE  /\ Wait(k) \in Nat \ {0}
         /\ \E e \in DOMAIN BackOff : Wait(k) = BackOff[e]
<1>1. Len(BackOff) \in Nat \ {0} /\ DOMAIN BackOff = 1..Len(BackOff)
  BY ScheduleOK, NotEmpty
<1>2. (IF k <= Len(BackOff) THEN k ELSE Len(BackOff)) \in DOMAIN BackOff
  BY <1>1
<1>3. QED
  BY <1>2, ScheduleOK DEF Wait

\* More attempts, same queue.
LEMMA Widened ==
  ASSUME NEW n \in Nat, NEW m \in Nat, n <= m, NEW q \in Seq(0..n)
  PROVE  q \in Seq(0..m)
<1>1. \A p \in 1..Len(q) : q[p] \in 0..m
  OBVIOUS
<1>2. QED
  BY <1>1

\* A message more in a queue.
LEMMA Queued ==
  ASSUME NEW n \in Nat, NEW m \in Nat, n <= m, NEW q \in Seq(0..n), NEW x \in 0..m
  PROVE  /\ Append(q, x) \in Seq(0..m)
         /\ Len(Append(q, x)) = Len(q) + 1
         /\ \A p \in 1..Len(q) : Append(q, x)[p] = q[p]
         /\ Append(q, x)[Len(q) + 1] = x
<1>1. q \in Seq(0..m)
  BY Widened
<1>2. QED
  BY <1>1, SentMore

\* A message less.
LEMMA Popped ==
  ASSUME NEW S, NEW q \in Seq(S), q # <<>>
  PROVE  /\ Len(q) \in Nat \ {0}
         /\ Head(q) = q[1]
         /\ Head(q) \in S
         /\ Tail(q) \in Seq(S)
         /\ Len(Tail(q)) = Len(q) - 1
         /\ \A p \in 1..Len(Tail(q)) : Tail(q)[p] = q[p + 1]
  OBVIOUS

\* The clock, the attempts, the buffers and the answers keep their types; no
\* attempt is made in the future or beyond MaxDeliver, and no buffer exceeds
\* its capacity.
THEOREM BackoffTypeCorrect == Spec => []TypeOK
<1>1. Init => TypeOK
  <2> SUFFICES ASSUME Init PROVE TypeOK
    OBVIOUS
  <2>1. sentAt = <<>> /\ sentAt \in Seq(0..now) /\ Attempts = 0
    BY DEF Init, Attempts
  <2>2. /\ queue \in [Instances -> Seq(0..Attempts)]
        /\ \A i \in Instances : Len(queue[i]) <= Cap
    BY <2>1, ScheduleOK DEF Init
  <2>3. slowest \in Nat /\ busyFor \in [Instances -> 0..slowest]
    BY ScheduleOK DEF Init
  <2>4. lost \in BOOLEAN
    BY DEF Init
  <2>5. QED
    BY <2>1, <2>2, <2>3, <2>4, ScheduleOK DEF Init, TypeOK
<1>2. TypeOK /\ [Next]_vars => TypeOK'
  <2> SUFFICES ASSUME TypeOK, [Next]_vars PROVE TypeOK'
    OBVIOUS
  <2> USE ScheduleOK DEF TypeOK, Attempts
  <2>0. Attempts \in Nat /\ now \in Nat /\ slowest \in Nat \ {0}
    OBVIOUS
  <2>1. ASSUME NEW i \in Instances, DeliverOther(i) PROVE TypeOK'
    <3>1. /\ Append(queue[i], Another) \in Seq(0..Attempts)
          /\ Len(Append(queue[i], Another)) <= Cap
      BY <2>0, <2>1, Queued DEF DeliverOther, Another
    <3>2. QED
      BY <2>1, <3>1 DEF DeliverOther
  <2>2. ASSUME NEW i \in Instances, Deliver(i) PROVE TypeOK'
    <3>1. sentAt' \in Seq(0..now) /\ Attempts' = Attempts + 1
      BY <2>2, SentMore DEF Deliver
    <3>2. /\ Append(queue[i], Attempts + 1) \in Seq(0..Attempts')
          /\ Len(Append(queue[i], Attempts + 1)) <= Cap
      BY <2>0, <2>2, <3>1, Queued DEF Deliver
    <3>3. \A j \in Instances : queue[j] \in Seq(0..Attempts')
      <4>1. \A j \in Instances : queue[j] \in Seq(0..Attempts)
        OBVIOUS
      <4>2. QED
        BY <2>0, <3>1, <4>1, Widened
    <3>4. /\ queue' \in [Instances -> Seq(0..Attempts')]
          /\ \A j \in Instances : Len(queue'[j]) <= Cap
      BY <2>2, <3>2, <3>3 DEF Deliver
    <3>5. QED
      BY <2>0, <2>2, <3>1, <3>4 DEF Deliver
  <2>3. ASSUME NEW i \in Instances, Advance(i)
        PROVE  /\ queue' \in [Instances -> Seq(0..Attempts)]
               /\ \A j \in Instances : Len(queue'[j]) <= Cap
               /\ busyFor' \in [Instances -> 0..slowest]
    <3>1. /\ Tail(queue[i]) \in Seq(0..Attempts)
          /\ Len(Tail(queue[i])) <= Cap
      BY <2>0, <2>3, Popped DEF Advance, Busy
    <3>2. QED
      BY <2>0, <2>3, <3>1 DEF Advance
  <2>4. ASSUME NEW i \in Instances, ReturnOther(i) PROVE TypeOK'
    BY <2>3, <2>4 DEF ReturnOther, Advance
  <2>5. ASSUME NEW i \in Instances, NEW call \in {"ack", "term", "nak"},
               Return(i, call)
        PROVE  TypeOK'
    <3>1. /\ state' \in {"due", "pending", "settled", "exhausted"}
          /\ lost' \in BOOLEAN
      BY <2>5 DEF Return, Answer
    <3>2. finished' \in Nat
      BY <2>5 DEF Return
    <3>3. QED
      BY <2>3, <2>5, <3>1, <3>2 DEF Return, Advance
  <2>6. CASE Expire
    BY <2>6 DEF Expire
  <2>7. CASE Exhaust
    BY <2>7 DEF Exhaust
  <2>8. CASE Tick
    <3>1. sentAt \in Seq(0..(now + 1))
      BY <2>0, SentEarlier
    <3>2. busyFor' \in [Instances -> 0..slowest]
      BY <2>0, <2>8 DEF Tick
    <3>3. QED
      BY <2>0, <2>8, <3>1, <3>2 DEF Tick
  <2>9. CASE UNCHANGED vars
    BY <2>9 DEF vars
  <2>10. QED
    BY <2>1, <2>2, <2>4, <2>5, <2>6, <2>7, <2>8, <2>9 DEF Next
<1>3. QED
  BY <1>1, <1>2, PTL DEF Spec
-----------------------------------------------------------------------------
(* The message is in one place, as long as buffers are handled in time *)

\* How long p messages take at most, s each.
Span(p, s) == p * s

\* When the callback is done with what is in place p of process i, at latest.
DoneBy(i, p) == (now - busyFor[i]) + Span(p, slowest)

\* An attempt is in place p of process i.
Holds(i, p) == p \in 1..Len(queue[i]) /\ queue[i][p] # Another

\* While full buffers are handled in time, an attempt in a queue is the only
\* one, the server still waits for its answer, and the callback will be done
\* with it before the schedule is over.
AloneInTime ==
  InTime =>
    /\ \A i, j \in Instances, p, r \in Nat : Holds(i, p) /\ Holds(j, r) => i = j /\ p = r
    /\ \A i \in Instances, p \in Nat :
         Holds(i, p) => /\ state = "pending"
                        /\ Attempts > 0
                        /\ DoneBy(i, p) <= sentAt[Attempts] + Span(Cap, slowest)

\* Places in a queue and the time they take.
LEMMA Places ==
  ASSUME NEW s \in Nat, NEW p \in Nat, NEW c \in Nat
  PROVE  /\ p * s \in Nat
         /\ (p + 1) * s = p * s + s
         /\ p <= c => p * s <= c * s
<1>1. p * s \in Nat /\ (p + 1) * s = p * s + s
  OBVIOUS
<1>2. ASSUME p <= c PROVE p * s <= c * s
  <2>1. PICK d \in Nat : c = p + d
    <3>1. c - p \in Nat /\ c = p + (c - p)
      BY <1>2
    <3>2. QED
      BY <3>1
  <2>2. (p + d) * s = p * s + d * s /\ d * s \in Nat /\ p * s \in Nat
    OBVIOUS
  <2>3. QED
    BY <2>1, <2>2
<1>3. QED
  BY <1>1, <1>2

\* The numbers of a state.
LEMMA Numbers ==
  ASSUME TypeOK
  PROVE  /\ now \in Nat /\ slowest \in Nat /\ Cap \in Nat /\ Attempts \in Nat
         /\ \A k \in 1..Attempts : sentAt[k] \in Nat
         /\ \A i \in Instances : /\ queue[i] \in Seq(0..Attempts)
                                 /\ Len(queue[i]) \in Nat
                                 /\ Len(queue[i]) <= Cap
                                 /\ busyFor[i] \in Nat
                                 /\ busyFor[i] <= slowest
  BY ScheduleOK DEF TypeOK, Attempts

\* The time that p messages take, one by one.
LEMMA Spans ==
  ASSUME TypeOK, NEW p \in Nat
  PROVE  /\ Span(p, slowest) \in Nat
         /\ Span(p + 1, slowest) = Span(p, slowest) + slowest
         /\ \A c \in Nat : p <= c => Span(p, slowest) <= Span(c, slowest)
         /\ Span(1, slowest) = slowest
<1>1. slowest \in Nat
  BY Numbers
<1>2. /\ p * slowest \in Nat
      /\ (p + 1) * slowest = p * slowest + slowest
      /\ \A c \in Nat : p <= c => p * slowest <= c * slowest
  BY <1>1, Places
<1>3. 1 * slowest = slowest
  BY <1>1
<1>4. QED
  BY <1>2, <1>3 DEF Span

\* AloneInTime says as much of the next state as of this one.
LEMMA AloneByStep ==
  ASSUME TypeOK, TypeOK', AloneInTime, [Next]_vars
  PROVE  AloneInTime'
<1> SUFFICES ASSUME InTime'
             PROVE  /\ \A i, j \in Instances, p, r \in Nat :
                         Holds(i, p)' /\ Holds(j, r)' => i = j /\ p = r
                    /\ \A i \in Instances, p \in Nat :
                         Holds(i, p)' =>
                           /\ state' = "pending"
                           /\ Attempts' > 0
                           /\ DoneBy(i, p)' <= sentAt'[Attempts'] + Span(Cap, slowest')
  BY DEF AloneInTime
<1> DEFINE Alone == \A i, j \in Instances, p, r \in Nat :
                      Holds(i, p)' /\ Holds(j, r)' => i = j /\ p = r
           Done == \A i \in Instances, p \in Nat :
                     Holds(i, p)' =>
                       /\ state' = "pending"
                       /\ Attempts' > 0
                       /\ DoneBy(i, p)' <= sentAt'[Attempts'] + Span(Cap, slowest')
<1>0. /\ slowest' = slowest
      /\ InTime
  BY DEF Next, vars, DeliverOther, Deliver, ReturnOther, Return, Advance, Expire,
         Exhaust, Tick, InTime
<1>1. /\ \A i, j \in Instances, p, r \in Nat : Holds(i, p) /\ Holds(j, r) => i = j /\ p = r
      /\ \A i \in Instances, p \in Nat :
           Holds(i, p) => /\ state = "pending"
                          /\ Attempts > 0
                          /\ DoneBy(i, p) <= sentAt[Attempts] + Span(Cap, slowest)
  BY <1>0 DEF AloneInTime
<1>2. ASSUME NEW i \in Instances, DeliverOther(i) PROVE Alone /\ Done
  <2>1. /\ queue[i] \in Seq(0..Attempts)
        /\ queue' = [queue EXCEPT ![i] = Append(queue[i], Another)]
        /\ queue'[i] = Append(queue[i], Another)
        /\ \A j \in Instances : j # i => queue'[j] = queue[j]
    BY <1>2, Numbers DEF DeliverOther, TypeOK
  <2>2. /\ Len(queue'[i]) = Len(queue[i]) + 1
        /\ \A p \in 1..Len(queue[i]) : queue'[i][p] = queue[i][p]
        /\ queue'[i][Len(queue[i]) + 1] = Another
    BY <2>1, Numbers, Queued DEF Another
  <2>3. ASSUME NEW j \in Instances, NEW p \in Nat, Holds(j, p)' PROVE Holds(j, p)
    <3>1. CASE j = i
      <4>1. p \in 1..Len(queue[i])
        BY <2>2, <2>3, <3>1, Numbers DEF Holds
      <4>2. QED
        BY <2>2, <2>3, <3>1, <4>1 DEF Holds
    <3>2. CASE j # i
      BY <2>1, <2>3, <3>2 DEF Holds
    <3>3. QED
      BY <3>1, <3>2
  <2>4. QED
    BY <1>1, <1>2, <2>3 DEF DeliverOther, DoneBy, Attempts
<1>3. ASSUME NEW i \in Instances, Deliver(i) PROVE Alone /\ Done
  <2>0. \A j \in Instances, p \in Nat : ~Holds(j, p)
    BY <1>1, <1>3 DEF Deliver
  <2>1. /\ queue[i] \in Seq(0..Attempts)
        /\ queue'[i] = Append(queue[i], Attempts + 1)
        /\ \A j \in Instances : j # i => queue'[j] = queue[j]
    BY <1>3, Numbers DEF Deliver, TypeOK
  <2>2. /\ Len(queue'[i]) = Len(queue[i]) + 1
        /\ \A p \in 1..Len(queue[i]) : queue'[i][p] = queue[i][p]
    BY <2>1, Numbers, Queued
  <2>3. ASSUME NEW j \in Instances, NEW p \in Nat, Holds(j, p)'
        PROVE  j = i /\ p = Len(queue[i]) + 1
    <3>1. j = i
      BY <2>0, <2>1, <2>3 DEF Holds
    <3>2. p \in 1..(Len(queue[i]) + 1) /\ p \notin 1..Len(queue[i])
      BY <2>0, <2>2, <2>3, <3>1 DEF Holds
    <3>3. QED
      BY <3>1, <3>2, Numbers
  <2>4. /\ Attempts' = Attempts + 1
        /\ sentAt'[Attempts + 1] = now
        /\ state' = "pending" /\ now' = now /\ busyFor' = busyFor
        /\ Len(queue[i]) + 1 <= Cap
    BY <1>3, Numbers, SentMore DEF Deliver, TypeOK, Attempts
  <2>5. /\ Len(queue[i]) + 1 \in Nat /\ Cap \in Nat /\ now \in Nat
        /\ busyFor[i] \in Nat /\ Attempts \in Nat
    BY Numbers
  <2>6. /\ Span(Len(queue[i]) + 1, slowest) \in Nat /\ Span(Cap, slowest) \in Nat
        /\ Span(Len(queue[i]) + 1, slowest) <= Span(Cap, slowest)
    BY <2>4, <2>5, Spans
  <2>7. ASSUME NEW p, p = Len(queue[i]) + 1
        PROVE  DoneBy(i, p)' <= now + Span(Cap, slowest)
    BY <1>0, <2>4, <2>5, <2>6, <2>7 DEF DoneBy
  <2>8. Alone
    BY <2>3
  <2>9. Done
    <3> SUFFICES ASSUME NEW j \in Instances, NEW p \in Nat, Holds(j, p)'
                 PROVE  /\ state' = "pending"
                        /\ Attempts' > 0
                        /\ DoneBy(j, p)' <= sentAt'[Attempts'] + Span(Cap, slowest')
      OBVIOUS
    <3>1. j = i /\ p = Len(queue[i]) + 1
      BY <2>3
    <3>2. DoneBy(j, p)' <= now + Span(Cap, slowest)
      BY <2>7, <3>1
    <3>3. QED
      BY <1>0, <2>4, <2>5, <3>2
  <2>10. QED
    BY <2>8, <2>9
<1>4. ASSUME NEW i \in Instances, Advance(i)
      PROVE  /\ \A j \in Instances, p \in Nat :
                  Holds(j, p)' => Holds(j, IF j = i THEN p + 1 ELSE p)
             /\ \A j \in Instances, p \in Nat :
                  Holds(j, p)' => DoneBy(j, p)' <= DoneBy(j, IF j = i THEN p + 1 ELSE p)
  <2>1. /\ queue[i] # <<>> /\ queue[i] \in Seq(0..Attempts)
        /\ queue'[i] = Tail(queue[i]) /\ busyFor'[i] = 0
        /\ \A j \in Instances : j # i => queue'[j] = queue[j] /\ busyFor'[j] = busyFor[j]
        /\ now' = now
    BY <1>4, Numbers DEF Advance, Busy, TypeOK
  <2>2. /\ Len(queue[i]) \in Nat \ {0}
        /\ Len(queue'[i]) = Len(queue[i]) - 1
        /\ \A p \in 1..Len(queue'[i]) : queue'[i][p] = queue[i][p + 1]
    BY <2>1, Popped
  <2>3. ASSUME NEW p \in Nat, Holds(i, p)' PROVE Holds(i, p + 1)
    <3>1. p \in 1..Len(queue'[i]) /\ queue'[i][p] # Another
      BY <2>3 DEF Holds
    <3>2. p + 1 \in 1..Len(queue[i])
      BY <2>2, <3>1
    <3>3. QED
      BY <2>2, <3>1, <3>2 DEF Holds
  <2>4. ASSUME NEW p \in Nat PROVE DoneBy(i, p)' <= DoneBy(i, p + 1)
    <3>1. Span(p, slowest) \in Nat /\ Span(p + 1, slowest) = Span(p, slowest) + slowest
      BY Spans
    <3>2. QED
      BY <1>0, <2>1, <3>1, Numbers DEF DoneBy
  <2>5. ASSUME NEW j \in Instances, NEW p \in Nat, j # i
        PROVE  /\ Holds(j, p)' => Holds(j, p)
               /\ DoneBy(j, p)' <= DoneBy(j, p)
    <3>1. Span(p, slowest) \in Nat
      BY Spans
    <3>2. now \in Nat /\ busyFor[j] \in Nat
      BY Numbers
    <3>3. DoneBy(j, p)' = DoneBy(j, p) /\ DoneBy(j, p) \in Int
      BY <1>0, <2>1, <2>5, <3>1, <3>2 DEF DoneBy
    <3>4. Holds(j, p)' => Holds(j, p)
      BY <2>1, <2>5 DEF Holds
    <3>5. QED
      BY <3>3, <3>4
  <2>6. QED
    BY <2>3, <2>4, <2>5
<1>5. ASSUME NEW i \in Instances, ReturnOther(i) PROVE Alone /\ Done
  <2>1. Advance(i) /\ state' = state /\ sentAt' = sentAt /\ Attempts' = Attempts
    BY <1>5 DEF ReturnOther, Advance, Attempts
  <2>2. Alone
    <3> SUFFICES ASSUME NEW j \in Instances, NEW k \in Instances, NEW p \in Nat,
                        NEW r \in Nat, Holds(j, p)', Holds(k, r)'
                 PROVE  j = k /\ p = r
      OBVIOUS
    <3>1. /\ Holds(j, IF j = i THEN p + 1 ELSE p)
          /\ Holds(k, IF k = i THEN r + 1 ELSE r)
      BY <1>4, <2>1
    <3>2. j = k /\ (IF j = i THEN p + 1 ELSE p) = (IF k = i THEN r + 1 ELSE r)
      BY <1>1, <3>1
    <3>3. QED
      BY <3>2
  <2>3. Done
    <3> SUFFICES ASSUME NEW j \in Instances, NEW p \in Nat, Holds(j, p)'
                 PROVE  /\ state' = "pending"
                        /\ Attempts' > 0
                        /\ DoneBy(j, p)' <= sentAt'[Attempts'] + Span(Cap, slowest')
      OBVIOUS
    <3> DEFINE q == IF j = i THEN p + 1 ELSE p
    <3>1. q \in Nat /\ Holds(j, q) /\ DoneBy(j, p)' <= DoneBy(j, q)
      BY <1>4, <2>1
    <3>2. /\ state = "pending" /\ Attempts > 0
          /\ DoneBy(j, q) <= sentAt[Attempts] + Span(Cap, slowest)
      BY <1>1, <3>1
    <3>3. DoneBy(j, q) \in Int /\ DoneBy(j, p)' \in Int
      <4>1. Span(q, slowest) \in Nat /\ Span(p, slowest) \in Nat
        BY <3>1, Spans
      <4>2. now' \in Nat /\ busyFor'[j] \in Nat
        BY ScheduleOK DEF TypeOK
      <4>3. now \in Nat /\ busyFor[j] \in Nat
        BY Numbers
      <4>4. QED
        BY <1>0, <4>1, <4>2, <4>3 DEF DoneBy
    <3>4. sentAt[Attempts] \in Nat /\ Span(Cap, slowest) \in Nat
      <4>1. Attempts \in 1..Attempts /\ Cap \in Nat
        BY <3>2, Numbers
      <4>2. sentAt[Attempts] \in Nat
        BY <4>1, Numbers
      <4>3. QED
        BY <4>1, <4>2, Spans
    <3>5. QED
      BY <1>0, <2>1, <3>1, <3>2, <3>3, <3>4
  <2>4. QED
    BY <2>2, <2>3
<1>6. ASSUME NEW i \in Instances, NEW call \in {"ack", "term", "nak"}, Return(i, call)
      PROVE  Alone /\ Done
  <2>1. Holds(i, 1)
    <3>1. queue[i] # <<>> /\ queue[i] \in Seq(0..Attempts) /\ Head(queue[i]) # Another
      BY <1>6, Numbers DEF Return, Advance, Busy
    <3>2. QED
      BY <3>1, Popped DEF Holds
  <2>2. \A j \in Instances, p \in Nat : ~Holds(j, p)'
    <3> SUFFICES ASSUME NEW j \in Instances, NEW p \in Nat, Holds(j, p)' PROVE FALSE
      OBVIOUS
    <3>1. Holds(j, IF j = i THEN p + 1 ELSE p)
      BY <1>4, <1>6 DEF Return
    <3>2. p # 0
      BY DEF Holds
    <3>3. QED
      BY <1>1, <2>1, <3>1, <3>2
  <2>3. QED
    BY <2>2
<1>7. CASE Expire
  <2>1. /\ queue' = queue /\ state = "pending"
        /\ now >= sentAt[Attempts] + Wait(Attempts)
    BY <1>7 DEF Expire
  <2>2. \A j \in Instances, p \in Nat : ~Holds(j, p)
    <3> SUFFICES ASSUME NEW j \in Instances, NEW p \in Nat, Holds(j, p) PROVE FALSE
      OBVIOUS
    <3>1. Attempts > 0 /\ DoneBy(j, p) <= sentAt[Attempts] + Span(Cap, slowest)
      BY <1>1
    <3>2. /\ Attempts \in 1..Attempts /\ Attempts \in Nat \ {0}
          /\ sentAt[Attempts] \in Nat /\ Cap \in Nat
      BY <3>1, Numbers
    <3>3. /\ Span(Cap, slowest) < Wait(Attempts) /\ Wait(Attempts) \in Nat
          /\ Span(Cap, slowest) \in Nat
      BY <1>0, <3>2, WaitIsEntry, Spans DEF InTime, Span
    <3>4. Span(p, slowest) >= slowest /\ Span(p, slowest) \in Nat
      <4>1. 1 <= p
        BY DEF Holds
      <4>2. /\ Span(1, slowest) = slowest /\ Span(p, slowest) \in Nat
            /\ Span(1, slowest) <= Span(p, slowest)
        BY <4>1, Spans
      <4>3. QED
        BY <4>1, <4>2
    <3>5. now <= DoneBy(j, p)
      BY <3>4, Numbers DEF DoneBy
    <3>6. DoneBy(j, p) \in Int
      BY <3>4, Numbers DEF DoneBy
    <3>7. QED
      BY <2>1, <3>1, <3>2, <3>3, <3>5, <3>6, Numbers
  <2>3. QED
    BY <2>1, <2>2 DEF Holds
<1>8. CASE Exhaust
  <2>1. queue' = queue /\ state = "due"
    BY <1>8 DEF Exhaust
  <2>2. \A j \in Instances, p \in Nat : ~Holds(j, p)
    BY <1>1, <2>1
  <2>3. QED
    BY <2>1, <2>2 DEF Holds
<1>9. CASE Tick
  <2>1. /\ queue' = queue /\ state' = state /\ sentAt' = sentAt /\ Attempts' = Attempts
        /\ now' = now + 1
        /\ \A i \in Busy : busyFor'[i] = busyFor[i] + 1
    BY <1>9 DEF Tick, Busy, Attempts
  <2>2. ASSUME NEW i \in Instances, NEW p \in Nat, Holds(i, p)
        PROVE  DoneBy(i, p)' = DoneBy(i, p)
    <3>1. i \in Busy
      BY <2>2 DEF Holds, Busy
    <3>2. Span(p, slowest) \in Nat
      BY Spans
    <3>3. now \in Nat /\ busyFor[i] \in Nat
      BY Numbers
    <3>4. busyFor'[i] = busyFor[i] + 1
      BY <2>1, <3>1
    <3>5. QED
      BY <1>0, <2>1, <3>2, <3>3, <3>4 DEF DoneBy
  <2>3. QED
    BY <1>0, <1>1, <2>1, <2>2 DEF Holds
<1>10. CASE UNCHANGED vars
  BY <1>1, <1>10 DEF vars, Holds, DoneBy, Attempts
<1>11. QED
  BY <1>2, <1>3, <1>5, <1>6, <1>7, <1>8, <1>9, <1>10 DEF Next

LEMMA AloneAlways == Spec => []AloneInTime
<1>1. Init => AloneInTime
  BY DEF Init, AloneInTime, Holds
<1>2. QED
  BY <1>1, AloneByStep, BackoffTypeCorrect, PTL DEF Spec

\* The message is in one buffer, once, unless a full buffer takes as long as
\* an entry of the schedule.
THEOREM FastBuffersHoldOne == Spec => []NoOverlap
<1>1. TypeOK /\ AloneInTime => NoOverlap
  <2> SUFFICES ASSUME TypeOK, AloneInTime, InTime, NEW g \in Held, NEW h \in Held
               PROVE  g = h
    BY DEF NoOverlap
  <2>1. /\ g = <<g[1], g[2]>> /\ h = <<h[1], h[2]>>
        /\ g[1] \in Instances /\ h[1] \in Instances
        /\ g[2] \in Nat /\ h[2] \in Nat
        /\ Holds(g[1], g[2]) /\ Holds(h[1], h[2])
    BY Numbers DEF Held, Holds
  <2>2. g[1] = h[1] /\ g[2] = h[2]
    BY <2>1 DEF AloneInTime
  <2>3. QED
    BY <2>1, <2>2
<1>2. QED
  BY <1>1, AloneAlways, BackoffTypeCorrect, PTL

\* In time and with no answer lost, the only call that ended for good settled
\* the message.
FinishedIsSettled ==
  InTime /\ ~lost => finished = 0 \/ (finished = 1 /\ state = "settled")

\* A message handled for good is not handled again, unless an answer is lost
\* or a full buffer takes as long as an entry of the schedule.
THEOREM HandledOnce == Spec => []NoNeedlessRepeat
<1>1. Init => FinishedIsSettled
  <2>1. Init => finished = 0
    BY DEF Init
  <2>2. QED
    BY <2>1 DEF FinishedIsSettled
<1>2. TypeOK /\ AloneInTime /\ FinishedIsSettled /\ [Next]_vars => FinishedIsSettled'
  <2> SUFFICES ASSUME TypeOK, AloneInTime, FinishedIsSettled, [Next]_vars,
                      InTime', ~lost'
               PROVE  finished' = 0 \/ (finished' = 1 /\ state' = "settled")
    BY DEF FinishedIsSettled
  <2>0. InTime /\ ~lost
    BY DEF Next, vars, DeliverOther, Deliver, ReturnOther, Return, Advance, Expire,
           Exhaust, Tick, InTime
  <2>1. finished = 0 \/ (finished = 1 /\ state = "settled")
    BY <2>0 DEF FinishedIsSettled
  <2>2. ASSUME NEW i \in Instances, NEW call \in {"ack", "term", "nak"}, Return(i, call)
        PROVE  finished' = 0 \/ (finished' = 1 /\ state' = "settled")
    <3>1. queue[i] # <<>> /\ queue[i] \in Seq(0..Attempts) /\ Head(queue[i]) # Another
      BY <2>2, Numbers DEF Return, Advance, Busy
    <3>2. Holds(i, 1)
      BY <3>1, Popped DEF Holds
    <3>3. state = "pending"
      BY <2>0, <3>2 DEF AloneInTime
    <3>4. Answer(call)
      BY <2>2 DEF Return
    <3>5. QED
      BY <2>1, <2>2, <3>3, <3>4 DEF Return, Answer
  <2>3. QED
    BY <2>1, <2>2 DEF Next, vars, DeliverOther, Deliver, ReturnOther, Advance, Expire,
                      Exhaust, Tick
<1>3. FinishedIsSettled => NoNeedlessRepeat
  BY DEF FinishedIsSettled, NoNeedlessRepeat
<1>4. QED
  BY <1>1, <1>2, <1>3, AloneAlways, BackoffTypeCorrect, PTL DEF Spec
=============================================================================
