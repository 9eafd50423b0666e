------------------------- MODULE RequestReplyProofs -------------------------
(* Theorems about RequestReply, for any requests, replicas and retries. *)
EXTENDS RequestReply, TLAPS

\* What the subscription's callback takes off its queue.
LEMMA QueueParts ==
  ASSUME NEW S, NEW q \in Seq(S), q # <<>>
  PROVE  /\ Head(q) \in S
         /\ Head(q) = q[1]
         /\ 1 \in DOMAIN q
         /\ Tail(q) \in Seq(S)
         /\ \A p \in DOMAIN Tail(q) : /\ p + 1 \in DOMAIN q
                                      /\ p \in Nat
                                      /\ p + 1 # 1
                                      /\ Tail(q)[p] = q[p + 1]
  OBVIOUS

\* What the server appends to it.
LEMMA QueueGrows ==
  ASSUME NEW S, NEW q \in Seq(S), NEW c \in S
  PROVE  /\ Append(q, c) \in Seq(S)
         /\ \A p \in DOMAIN Append(q, c) :
              \/ p \in DOMAIN q /\ Append(q, c)[p] = q[p]
              \/ p = Len(q) + 1 /\ p \notin DOMAIN q /\ Append(q, c)[p] = c
  OBVIOUS

\* An idle callback is not handling a call.
LEMMA NothingIsNoCall == Nothing \notin Calls
  BY DEF Nothing, Calls

\* Every variable of the caller, the network and the replicas stays in its
\* type, however often requests are lost, retried or late.
THEOREM RequestTypeCorrect == Spec => []TypeOK
<1>1. Init => TypeOK
  BY RequestConstantsOK DEF Init, TypeOK, Nothing
<1>2. TypeOK /\ [Next]_vars => TypeOK'
  <2> SUFFICES ASSUME TypeOK, [Next]_vars PROVE TypeOK'
    OBVIOUS
  <2> USE RequestConstantsOK DEF TypeOK
  <2>1. ASSUME NEW r \in Requests, Request(r) PROVE TypeOK'
    <3>1. <<r, tries'[r]>> \in Calls
      BY <2>1 DEF Request, Calls
    <3>2. \A i \in Replicas : Append(inbox[i], <<r, tries'[r]>>) \in Seq(Calls)
      BY <3>1, QueueGrows
    <3>3. inbox' \in [Replicas -> Seq(Calls)]
      BY <2>1, <3>2 DEF Request
    <3>4. tries' \in [Requests -> 0..MaxTries]
      BY <2>1 DEF Request
    <3>5. QED
      BY <2>1, <3>3, <3>4 DEF Request
  <2>2. ASSUME NEW r \in Requests, NEW reply \in replies, ReplyArrives(r, reply)
        PROVE  TypeOK'
    BY <2>2 DEF ReplyArrives, replicaVars
  <2>3. ASSUME NEW r \in Requests, Timeout(r) PROVE TypeOK'
    BY <2>3 DEF Timeout, replicaVars
  <2>4. ASSUME NEW i \in Replicas, Subscribe(i) PROVE TypeOK'
    BY <2>4 DEF Subscribe, callerVars
  <2>5. ASSUME NEW i \in Replicas, Take(i) PROVE TypeOK'
    <3>1. Head(inbox[i]) \in Calls /\ Tail(inbox[i]) \in Seq(Calls)
      BY <2>5, QueueParts DEF Take
    <3>2. QED
      BY <2>5, <3>1 DEF Take, callerVars
  <2>6. ASSUME NEW i \in Replicas, NEW body \in {"response", "error"},
               Return(i, body)
        PROVE  TypeOK'
    BY <2>6 DEF Return, callerVars
  <2>7. ASSUME NEW i \in Replicas, Stop(i) PROVE TypeOK'
    BY <2>7 DEF Stop, callerVars
  <2>8. ASSUME NEW i \in Replicas, Close(i) PROVE TypeOK'
    BY <2>8 DEF Close, callerVars
  <2>9. CASE UNCHANGED vars
    BY <2>9 DEF vars
  <2>10. QED
    BY <2>1, <2>2, <2>3, <2>4, <2>5, <2>6, <2>7, <2>8, <2>9
    DEF Next, Caller, Replica
<1>3. QED
  BY <1>1, <1>2, PTL DEF Spec
-----------------------------------------------------------------------------
(* What nil means to the caller *)

\* A reply on its way stems from a handler call that returned, and a
\* ServiceRequestConsumer sends failures only.
RepliesStem ==
  \A reply \in replies :
    /\ \E run \in finished : run.call = reply.call /\ run.body = reply.body
    /\ reply.body = "error" \/ responds

\* So does what Publish heard.
HeardStems ==
  \A r \in Requests : heard[r] = "response" => responds

NilInv == RepliesStem /\ HeardStems /\ NilMeansHandled

\* Retries, timeouts and late replies preserve where a nil stems from.
LEMMA NilStems == Spec => []NilInv
<1>1. Init => NilInv
  BY DEF Init, NilInv, RepliesStem, HeardStems, NilMeansHandled
<1>2. TypeOK /\ TypeOK' /\ NilInv /\ [Next]_vars => NilInv'
  <2> SUFFICES ASSUME TypeOK, TypeOK', NilInv, [Next]_vars PROVE NilInv'
    OBVIOUS
  <2> USE DEF NilInv, RepliesStem, HeardStems, NilMeansHandled
  <2>1. ASSUME NEW r \in Requests, Request(r) PROVE NilInv'
    <3>1. publish'[r] # "nil"
      BY <2>1 DEF Request, TypeOK
    <3>2. \A s \in Requests \ {r} : /\ publish'[s] = publish[s]
                                    /\ tries'[s] = tries[s]
                                    /\ heard'[s] = heard[s]
      BY <2>1 DEF Request, TypeOK
    <3>3. NilMeansHandled'
      BY <2>1, <3>1, <3>2 DEF Request
    <3>4. QED
      BY <2>1, <3>3 DEF Request, TypeOK
  <2>2. ASSUME NEW r \in Requests, NEW reply \in replies, ReplyArrives(r, reply)
        PROVE  NilInv'
    <3>1. PICK run \in finished : run.call = reply.call /\ run.body = reply.body
      BY <2>2
    <3>2. run.call = <<r, tries'[r]>> /\ run.body = heard'[r]
      BY <2>2, <3>1 DEF ReplyArrives, replicaVars, TypeOK
    <3>3. finished' = finished /\ tries' = tries
      BY <2>2 DEF ReplyArrives, replicaVars
    <3>4. \A s \in Requests \ {r} : publish'[s] = publish[s] /\ heard'[s] = heard[s]
      BY <2>2 DEF ReplyArrives, TypeOK
    <3>5. NilMeansHandled'
      BY <3>2, <3>3, <3>4
    <3>6. RepliesStem'
      BY <2>2, <3>3 DEF ReplyArrives
    <3>7. HeardStems'
      BY <2>2 DEF ReplyArrives, TypeOK
    <3>8. QED
      BY <3>5, <3>6, <3>7
  <2>3. ASSUME NEW r \in Requests, Timeout(r) PROVE NilInv'
    <3>1. \A s \in Requests : publish'[s] = "nil" => publish[s] = "nil"
      BY <2>3 DEF Timeout, TypeOK
    <3>2. QED
      BY <2>3, <3>1 DEF Timeout, replicaVars
  <2>4. ASSUME NEW i \in Replicas, Subscribe(i) PROVE NilInv'
    BY <2>4 DEF Subscribe, callerVars
  <2>5. ASSUME NEW i \in Replicas, Take(i) PROVE NilInv'
    BY <2>5 DEF Take, callerVars
  <2>6. ASSUME NEW i \in Replicas, NEW body \in {"response", "error"},
               Return(i, body)
        PROVE  NilInv'
    <3> DEFINE run == [replica |-> i, call |-> cur[i], body |-> body]
               sent == [call |-> cur[i], body |-> body]
    <3>1. /\ finished' = finished \cup {run}
          /\ \/ replies' = replies
             \/ replies' = replies \cup {sent} /\ RespondsTo(body)
          /\ UNCHANGED callerVars
      BY <2>6 DEF Return
    <3>2. run.call = sent.call /\ run.body = sent.body /\ sent.body = body
      OBVIOUS
    <3> HIDE DEF run, sent
    <3>3. RepliesStem'
      BY <3>1, <3>2 DEF RespondsTo, callerVars
    <3>4. NilMeansHandled' /\ HeardStems'
      BY <3>1 DEF callerVars
    <3>5. QED
      BY <3>3, <3>4
  <2>7. ASSUME NEW i \in Replicas, Stop(i) PROVE NilInv'
    BY <2>7 DEF Stop, callerVars
  <2>8. ASSUME NEW i \in Replicas, Close(i) PROVE NilInv'
    BY <2>8 DEF Close, callerVars
  <2>9. CASE UNCHANGED vars
    BY <2>9 DEF vars
  <2>10. QED
    BY <2>1, <2>2, <2>3, <2>4, <2>5, <2>6, <2>7, <2>8, <2>9
    DEF Next, Caller, Replica
<1>3. QED
  BY <1>1, <1>2, RequestTypeCorrect, PTL DEF Spec

\* Publish of a ServicePublisher returns nil only for a call that a replica
\* has finished handling, never on a late reply to an earlier one.
THEOREM NilIsForThisCall == Spec => []NilMeansHandled
  BY NilStems, PTL DEF NilInv

\* To the caller of a ServiceRequestConsumer nil means failure.
THEOREM ConsumerNilIsFailure == Spec => []NilFromConsumerIsFailure
<1>1. TypeOK /\ NilInv => NilFromConsumerIsFailure
  <2> SUFFICES ASSUME TypeOK, NilInv, ~responds,
                      NEW r \in Requests, publish[r] = "nil"
               PROVE  \E run \in finished : run.call = <<r, tries[r]>> /\ run.body = "error"
    BY DEF NilFromConsumerIsFailure
  <2>1. PICK run \in finished : run.call = <<r, tries[r]>> /\ run.body = heard[r]
    BY DEF NilInv, NilMeansHandled
  <2>2. run.body \in {"response", "error"}
    BY DEF TypeOK
  <2>3. heard[r] # "response"
    BY DEF NilInv, HeardStems
  <2>4. QED
    BY <2>1, <2>2, <2>3
<1>2. QED
  BY <1>1, RequestTypeCorrect, NilStems, PTL
-----------------------------------------------------------------------------
(* A replica handles a call once *)

\* The calls made so far; no replica has met any other.
Made == {c \in Calls : c[2] <= tries[c[1]]}

CallsAreMade ==
  /\ \A i \in Replicas : /\ \A p \in DOMAIN inbox[i] : inbox[i][p] \in Made
                         /\ cur[i] # Nothing => cur[i] \in Made
  /\ \A run \in finished : run.call \in Made

OnceInv == CallsAreMade /\ OncePerReplica

\* A replica that receives, stops and subscribes again never meets a call
\* a second time.
THEOREM HandledOncePerReplica == Spec => []OncePerReplica
<1>1. Init => OnceInv
  BY DEF Init, OnceInv, CallsAreMade, OncePerReplica, WaitsOnce,
         HandledOnce, Nothing
<1>2. TypeOK /\ TypeOK' /\ OnceInv /\ [Next]_vars => OnceInv'
  <2> SUFFICES ASSUME TypeOK, TypeOK', OnceInv, [Next]_vars PROVE OnceInv'
    OBVIOUS
  <2> USE DEF OnceInv, CallsAreMade, OncePerReplica, WaitsOnce, HandledOnce
  <2> finished \subseteq [replica : Replicas, call : Calls, body : {"response", "error"}]
    BY DEF TypeOK
  <2>1. ASSUME NEW r \in Requests, Request(r) PROVE OnceInv'
    <3> DEFINE c == <<r, tries[r] + 1>>
    <3>1. c \in Calls
      BY <2>1, RequestConstantsOK DEF Request, Calls, TypeOK
    <3>2. c \notin Made /\ c \in Made'
      BY <2>1, <3>1, RequestConstantsOK DEF Made, Request, TypeOK
    <3>3. Made \subseteq Made'
      BY <2>1, RequestConstantsOK DEF Made, Request, TypeOK, Calls
    <3>4. \A i \in Replicas : inbox'[i] = inbox[i] \/ inbox'[i] = Append(inbox[i], c)
      BY <2>1 DEF Request, TypeOK
    <3> HIDE DEF c
    <3>5. ASSUME NEW i \in Replicas, NEW p \in DOMAIN inbox'[i]
          PROVE  \/ p \in DOMAIN inbox[i] /\ inbox'[i][p] = inbox[i][p]
                 \/ p = Len(inbox[i]) + 1 /\ inbox'[i][p] = c
      <4>1. inbox[i] \in Seq(Calls)
        BY DEF TypeOK
      <4>2. CASE inbox'[i] = inbox[i]
        BY <4>2
      <4>3. CASE inbox'[i] = Append(inbox[i], c)
        BY <3>1, <4>1, <4>3, QueueGrows
      <4>4. QED
        BY <3>4, <4>2, <4>3
    <3>6. cur' = cur /\ finished' = finished
      BY <2>1 DEF Request
    <3>7. CallsAreMade'
      BY <3>2, <3>3, <3>5, <3>6
    <3>8. WaitsOnce'
      <4> SUFFICES ASSUME NEW i \in Replicas,
                          NEW p \in DOMAIN inbox'[i], NEW q \in DOMAIN inbox'[i]
                   PROVE  /\ inbox'[i][p] = inbox'[i][q] => p = q
                          /\ inbox'[i][p] # cur'[i]
                          /\ \A run \in finished' :
                               run.replica = i => run.call # inbox'[i][p]
        OBVIOUS
      <4>1. inbox'[i][p] = inbox'[i][q] => p = q
        BY <3>2, <3>5
      <4>2. inbox'[i][p] # cur'[i]
        BY <3>1, <3>2, <3>5, <3>6, NothingIsNoCall
      <4>3. \A run \in finished' : run.replica = i => run.call # inbox'[i][p]
        BY <3>2, <3>5, <3>6
      <4>4. QED
        BY <4>1, <4>2, <4>3
    <3>9. HandledOnce'
      BY <3>6
    <3>10. QED
      BY <3>7, <3>8, <3>9
  <2>2. ASSUME NEW r \in Requests, NEW reply \in replies, ReplyArrives(r, reply)
        PROVE  OnceInv'
    BY <2>2 DEF ReplyArrives, replicaVars, Made
  <2>3. ASSUME NEW r \in Requests, Timeout(r) PROVE OnceInv'
    BY <2>3 DEF Timeout, replicaVars, Made
  <2>4. ASSUME NEW i \in Replicas, Subscribe(i) PROVE OnceInv'
    BY <2>4 DEF Subscribe, callerVars, Made
  <2>5. ASSUME NEW i \in Replicas, Take(i) PROVE OnceInv'
    <3>1. /\ inbox[i] # <<>>
          /\ cur'[i] = Head(inbox[i])
          /\ inbox'[i] = Tail(inbox[i])
          /\ \A j \in Replicas \ {i} : cur'[j] = cur[j] /\ inbox'[j] = inbox[j]
          /\ tries' = tries /\ finished' = finished
      BY <2>5 DEF Take, callerVars, TypeOK
    <3>2. /\ Head(inbox[i]) = inbox[i][1]
          /\ 1 \in DOMAIN inbox[i]
          /\ \A p \in DOMAIN Tail(inbox[i]) : /\ p + 1 \in DOMAIN inbox[i]
                                              /\ p \in Nat
                                              /\ p + 1 # 1
                                              /\ Tail(inbox[i])[p] = inbox[i][p + 1]
      BY <3>1, QueueParts DEF TypeOK
    <3>3. CallsAreMade'
      <4>1. Made' = Made
        BY <3>1 DEF Made
      <4>2. \A p \in DOMAIN inbox'[i] : inbox'[i][p] \in Made
        BY <3>1, <3>2
      <4>3. \A j \in Replicas : \A p \in DOMAIN inbox'[j] : inbox'[j][p] \in Made
        BY <3>1, <4>2
      <4>4. QED
        BY <3>1, <3>2, <4>1, <4>3
    <3>4. ASSUME NEW p \in DOMAIN inbox'[i], NEW q \in DOMAIN inbox'[i]
          PROVE  /\ inbox'[i][p] = inbox'[i][q] => p = q
                 /\ inbox'[i][p] # cur'[i]
                 /\ \A run \in finished' : run.replica = i => run.call # inbox'[i][p]
      BY <3>1, <3>2
    <3>5. ASSUME NEW j \in Replicas \ {i},
                 NEW p \in DOMAIN inbox'[j], NEW q \in DOMAIN inbox'[j]
          PROVE  /\ inbox'[j][p] = inbox'[j][q] => p = q
                 /\ inbox'[j][p] # cur'[j]
                 /\ \A run \in finished' : run.replica = j => run.call # inbox'[j][p]
      BY <3>1
    <3>6. WaitsOnce'
      BY <3>4, <3>5
    <3>7. HandledOnce'
      BY <3>1, <3>2
    <3>8. QED
      BY <3>3, <3>6, <3>7
  <2>6. ASSUME NEW i \in Replicas, NEW body \in {"response", "error"},
               Return(i, body)
        PROVE  OnceInv'
    <3> DEFINE run == [replica |-> i, call |-> cur[i], body |-> body]
    <3>1. /\ finished' = finished \cup {run}
          /\ cur[i] # Nothing
          /\ cur'[i] = Nothing
          /\ \A j \in Replicas \ {i} : cur'[j] = cur[j]
          /\ inbox' = inbox /\ tries' = tries
      BY <2>6 DEF Return, callerVars, TypeOK
    <3>2. run.call = cur[i] /\ run.replica = i
      OBVIOUS
    <3> HIDE DEF run
    <3>3. CallsAreMade'
      BY <3>1, <3>2 DEF Made
    <3>4. \A j \in Replicas : \A p \in DOMAIN inbox[j] : inbox[j][p] # Nothing
      BY NothingIsNoCall DEF TypeOK
    <3>5. WaitsOnce'
      BY <3>1, <3>2, <3>4
    <3>6. \A x \in finished : ~(x.replica = run.replica /\ x.call = run.call)
      BY <3>2
    <3>7. HandledOnce'
      <4>1. \A x \in finished' : cur'[x.replica] # x.call
        <5> SUFFICES ASSUME NEW x \in finished' PROVE cur'[x.replica] # x.call
          OBVIOUS
        <5>1. x.replica \in Replicas /\ x.call \in Calls
          BY DEF TypeOK
        <5>2. CASE x.replica = i
          BY <3>1, <5>1, <5>2, NothingIsNoCall
        <5>3. CASE x.replica # i
          BY <3>1, <3>2, <5>1, <5>3
        <5>4. QED
          BY <5>2, <5>3
      <4>2. QED
        BY <3>1, <3>6, <4>1
    <3>8. QED
      BY <3>3, <3>5, <3>7
  <2>7. ASSUME NEW i \in Replicas, Stop(i) PROVE OnceInv'
    <3>1. /\ inbox'[i] = <<>> /\ cur'[i] = Nothing
          /\ \A j \in Replicas \ {i} : inbox'[j] = inbox[j] /\ cur'[j] = cur[j]
          /\ tries' = tries /\ finished' = finished
      BY <2>7 DEF Stop, callerVars, TypeOK
    <3>2. CallsAreMade' /\ WaitsOnce'
      BY <3>1 DEF Made
    <3>3. \A run \in finished : run.replica \in Replicas /\ run.call # Nothing
      BY NothingIsNoCall
    <3>4. HandledOnce'
      BY <3>1, <3>3
    <3>5. QED
      BY <3>2, <3>4
  <2>8. ASSUME NEW i \in Replicas, Close(i) PROVE OnceInv'
    BY <2>8 DEF Close, callerVars, Made
  <2>9. CASE UNCHANGED vars
    BY <2>9 DEF vars, Made
  <2>10. QED
    BY <2>1, <2>2, <2>3, <2>4, <2>5, <2>6, <2>7, <2>8, <2>9
    DEF Next, Caller, Replica
<1>3. OnceInv => OncePerReplica
  BY DEF OnceInv
<1>4. QED
  BY <1>1, <1>2, <1>3, RequestTypeCorrect, PTL DEF Spec
=============================================================================
