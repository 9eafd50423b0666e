---------------------------- MODULE RequestReply ----------------------------
(***************************************************************************)
(* A service request over Core NATS: Publish of a ServicePublisher waits   *)
(* for the first reply or its timeout (publisher.go), while every replica  *)
(* of the target service handles its own copy of the request               *)
(* (consumer.go handleCoreMessage, request_response.go).                   *)
(*                                                                         *)
(* Core NATS is external: requests and replies can get lost, nothing is    *)
(* stored, and every RequestMsg has a reply subject of its own.  A reply   *)
(* that is lost is one that never arrives.                                 *)
(***************************************************************************)
EXTENDS Naturals, Sequences

CONSTANTS
  Requests,      \* requests of the calling service
  Replicas,      \* processes of the target service
  Malformed,     \* requests whose payload does not parse
  MaxTries,      \* bound on the times the caller publishes a request
  MaxStops       \* bound on replicas that stop or are closed

ASSUME RequestConstantsOK ==
  /\ Malformed \subseteq Requests
  /\ MaxTries \in Nat
  /\ MaxStops \in Nat

\* One call of RequestMsg, and the reply subject made for it.
Calls == Requests \X (1..MaxTries)

Nothing == <<>>

VARIABLES
  responds,  \* TRUE: RequestResponseHandler, FALSE: ServiceRequestConsumer
  publish,   \* [Requests -> "idle", "waiting", "nil", "error"] Publish
  tries,     \* [Requests -> 0..MaxTries] calls of Publish
  inbox,     \* [Replicas -> Seq(Calls)] received by the subscription
  cur,       \* [Replicas -> call its callback is handling or Nothing]
  up,        \* replicas with an open subscription
  draining,  \* replicas that are closed and handle what they have received
  replies,   \* replies on their way or lost: [call, body]
  heard,     \* [Requests -> body of the reply Publish returned on, or "none"]
  finished,  \* handler calls that returned: [replica, call, body]
  stops      \* replicas stopped or closed so far

vars == <<responds, publish, tries, inbox, cur, up, draining, replies, heard, finished,
          stops>>

callerVars  == <<responds, publish, tries, heard>>
replicaVars == <<inbox, cur, up, draining, finished, stops>>

Init ==
  /\ responds \in BOOLEAN
  /\ publish = [r \in Requests |-> "idle"]
  /\ tries = [r \in Requests |-> 0]
  /\ inbox = [i \in Replicas |-> <<>>]
  /\ cur = [i \in Replicas |-> Nothing]
  /\ up = {}
  /\ draining = {}
  /\ replies = {}
  /\ heard = [r \in Requests |-> "none"]
  /\ finished = {}
  /\ stops = 0
-----------------------------------------------------------------------------
(* The caller: Publisher.Publish through coreRequestFn *)

\* Faulty variant: calls share one reply subject.
RequestSameSubject(r) ==
  /\ publish[r] \in {"idle", "error"}
  /\ tries[r] < MaxTries
  /\ publish' = [publish EXCEPT ![r] = IF up = {} THEN "error" ELSE "waiting"]
  /\ inbox' = [i \in Replicas |-> IF i \in up THEN Append(inbox[i], <<r, tries[r]>>)
                                 ELSE inbox[i]]
  /\ heard' = [heard EXCEPT ![r] = "none"]
  /\ UNCHANGED <<responds, tries, cur, up, draining, replies, finished, stops>>

\* RequestMsg: each subscribed replica gets a copy, which may get lost; with
\* no subscriber the server says so at once.  After an error the caller may
\* publish again.
Request(r) ==
  /\ publish[r] \in {"idle", "error"}
  /\ tries[r] < MaxTries
  /\ tries' = [tries EXCEPT ![r] = @ + 1]
  /\ publish' = [publish EXCEPT ![r] = IF up = {} THEN "error" ELSE "waiting"]
  /\ \E reached \in SUBSET up :
       inbox' = [i \in Replicas |->
                   IF i \in reached THEN Append(inbox[i], <<r, tries'[r]>>)
                   ELSE inbox[i]]
  /\ heard' = [heard EXCEPT ![r] = "none"]
  /\ UNCHANGED <<responds, cur, up, draining, replies, finished, stops>>

\* The first reply on the reply subject ends the wait.  Its body is dropped:
\* Publish returns nil for a response and for an error response.
ReplyArrives(r, reply) ==
  /\ reply \in replies
  /\ reply.call = <<r, tries[r]>>
  /\ publish[r] = "waiting"
  /\ publish' = [publish EXCEPT ![r] = "nil"]
  /\ heard' = [heard EXCEPT ![r] = reply.body]
  /\ replies' = replies \ {reply}
  /\ UNCHANGED <<responds, tries, replicaVars>>

\* The request timeout expires first.
Timeout(r) ==
  /\ publish[r] = "waiting"
  /\ publish' = [publish EXCEPT ![r] = "error"]
  /\ UNCHANGED <<responds, tries, heard, replies, replicaVars>>
-----------------------------------------------------------------------------
(* The replicas of the target service *)

\* Start of a replica: nc.Subscribe without a queue group.
Subscribe(i) ==
  /\ i \notin up \cup draining
  /\ up' = up \cup {i}
  /\ UNCHANGED <<callerVars, inbox, cur, draining, replies, finished, stops>>

\* Faulty variant: the response is sent before the handler has run.
TakeReplies(i) ==
  /\ i \in up \cup draining
  /\ cur[i] = Nothing
  /\ inbox[i] # <<>>
  /\ cur' = [cur EXCEPT ![i] = Head(inbox[i])]
  /\ inbox' = [inbox EXCEPT ![i] = Tail(inbox[i])]
  /\ replies' = replies \cup {[call |-> Head(inbox[i]), body |-> "response"]}
  /\ UNCHANGED <<callerVars, up, draining, finished, stops>>

\* The subscription calls its callback, one message at a time.
Take(i) ==
  /\ i \in up \cup draining
  /\ cur[i] = Nothing
  /\ inbox[i] # <<>>
  /\ cur' = [cur EXCEPT ![i] = Head(inbox[i])]
  /\ inbox' = [inbox EXCEPT ![i] = Tail(inbox[i])]
  /\ UNCHANGED <<callerVars, up, draining, replies, finished, stops>>

\* A malformed payload is an error before the handler is reached.
Bodies(call) == IF call[1] \in Malformed THEN {"error"} ELSE {"response", "error"}

\* Faulty variant: handleCoreMessage answers a success too.
RespondsToAll(body) == TRUE

\* An error is always sent back; a result only by RequestResponseHandler.
RespondsTo(body) == body = "error" \/ responds

\* The handler returns and the callback responds, or not.  Every request has
\* a reply subject here.
Return(i, body) ==
  /\ cur[i] # Nothing
  /\ body \in Bodies(cur[i])
  /\ finished' = finished \cup {[replica |-> i, call |-> cur[i], body |-> body]}
  /\ replies' = IF RespondsTo(body)
                THEN replies \cup {[call |-> cur[i], body |-> body]} ELSE replies
  /\ cur' = [cur EXCEPT ![i] = Nothing]
  /\ UNCHANGED <<callerVars, inbox, up, draining, stops>>

\* Close: Drain ends the subscription, and goes on with what it has received.
Close(i) ==
  /\ i \in up
  /\ stops < MaxStops
  /\ stops' = stops + 1
  /\ up' = up \ {i}
  /\ draining' = draining \cup {i}
  /\ UNCHANGED <<callerVars, inbox, cur, replies, finished>>

\* The process ends, by a crash, or after Close, when it has drained or did not
\* wait for that.  What it had received is gone.
Stop(i) ==
  /\ \/ i \in up /\ stops < MaxStops /\ stops' = stops + 1
     \/ i \in draining /\ UNCHANGED stops
  /\ up' = up \ {i}
  /\ draining' = draining \ {i}
  /\ inbox' = [inbox EXCEPT ![i] = <<>>]
  /\ cur' = [cur EXCEPT ![i] = Nothing]
  /\ UNCHANGED <<callerVars, replies, finished>>
-----------------------------------------------------------------------------
Caller(r) == \/ Request(r)
             \/ \E reply \in replies : ReplyArrives(r, reply)
             \/ Timeout(r)

Replica(i) == \/ Subscribe(i)
              \/ Take(i)
              \/ \E body \in {"response", "error"} : Return(i, body)
              \/ Close(i)
              \/ Stop(i)

Next == \/ \E r \in Requests : Caller(r)
        \/ \E i \in Replicas : Replica(i)

Spec == Init /\ [][Next]_vars
-----------------------------------------------------------------------------
(* Properties *)

TypeOK ==
  /\ responds \in BOOLEAN
  /\ publish \in [Requests -> {"idle", "waiting", "nil", "error"}]
  /\ tries \in [Requests -> 0..MaxTries]
  /\ inbox \in [Replicas -> Seq(Calls)]
  /\ cur \in [Replicas -> Calls \cup {Nothing}]
  /\ up \subseteq Replicas /\ draining \subseteq Replicas \ up
  /\ replies \subseteq [call : Calls, body : {"response", "error"}]
  /\ heard \in [Requests -> {"none", "response", "error"}]
  /\ finished \subseteq [replica : Replicas, call : Calls,
                         body : {"response", "error"}]
  /\ stops \in Nat

\* Publish returns nil only when a replica has finished handling this very
\* call, not an earlier one that timed out, and with the reply it heard.
NilMeansHandled ==
  \A r \in Requests : publish[r] = "nil" =>
    \E run \in finished : run.call = <<r, tries[r]>> /\ run.body = heard[r]

\* What waits in a subscription is neither there twice, nor being handled,
\* nor handled already.
WaitsOnce ==
  \A i \in Replicas : \A p, q \in DOMAIN inbox[i] :
    /\ inbox[i][p] = inbox[i][q] => p = q
    /\ inbox[i][p] # cur[i]
    /\ \A run \in finished : run.replica = i => run.call # inbox[i][p]

\* A replica is not handling what it has handled, and its answer to a call
\* is not followed by another.
HandledOnce ==
  /\ \A run \in finished : cur[run.replica] # run.call
  /\ \A x, y \in finished : x.replica = y.replica /\ x.call = y.call => x = y

\* Over any sequence of Publish retries, stops and new subscriptions, a
\* replica takes each call at most once and gives it one result.
OncePerReplica == WaitsOnce /\ HandledOnce

\* A ServiceRequestConsumer answers failures only (handleCoreMessage), so to
\* its caller nil says that a replica has failed on this call: a request all
\* replicas handle ends with a timeout error, and is published again by a
\* caller that retries errors.
NilFromConsumerIsFailure ==
  ~responds => \A r \in Requests : publish[r] = "nil" =>
    \E run \in finished : run.call = <<r, tries[r]>> /\ run.body = "error"
=============================================================================
