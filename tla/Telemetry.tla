----------------------------- MODULE Telemetry ------------------------------
(***************************************************************************)
(* What the consumers of Delivery tell about themselves: the counters of   *)
(* metrics.go and the notification and error channels of notifications.go. *)
(* Every step is a step of Delivery; this module adds what it counts and   *)
(* sends.                                                                  *)
(*                                                                         *)
(* Label values, durations and the contents of a notification are left     *)
(* out.  The reader of the channels belongs to the service.                *)
(***************************************************************************)
EXTENDS Delivery, FiniteSets

Metrics  == {"received", "withoutHandler", "notParsable", "nak", "ack"}
Channels == {"success", "failure"}   \* notificationCh and errorCh

CONSTANT Cap    \* [Channels -> Nat] their buffers, 0 for a nil channel

ASSUME CapOK == Cap \in [Channels -> Nat] /\ IsFiniteSet(Instances)

VARIABLES
  counter,  \* [Instances -> [Metrics -> Nat]]
  acking,   \* processes that have sent an Ack and count it next
  queued,   \* [Instances -> [Channels -> Nat]] notifications not yet read
  told      \* [Instances -> [Channels -> Nat]] notifications made so far

telemetry == <<counter, acking, queued, told>>
telVars   == <<vars, telemetry>>

NoCounts == [k \in Metrics |-> 0]
NoneTold == [c \in Channels |-> 0]

TelInit ==
  /\ Init
  /\ counter = [i \in Instances |-> NoCounts]
  /\ acking = {}
  /\ queued = [i \in Instances |-> NoneTold]
  /\ told = [i \in Instances |-> NoneTold]

Count(i, metrics) ==
  counter' = [counter EXCEPT ![i] =
                [k \in Metrics |-> IF k \in metrics THEN @[k] + 1 ELSE @[k]]]

\* Faulty variants: a queue without limit; a plain send, which waits for room
\* in the channel.
NotifyUnbounded(i, c) ==
  /\ queued' = [queued EXCEPT ![i][c] = @ + 1]
  /\ told' = [told EXCEPT ![i][c] = @ + 1]

NotifyBlocks(i, c) ==
  /\ queued[i][c] < Cap[c]
  /\ queued' = [queued EXCEPT ![i][c] = @ + 1]
  /\ told' = [told EXCEPT ![i][c] = @ + 1]

\* A select with an empty default: a full channel drops the notification.
Notify(i, c) ==
  /\ queued' = [queued EXCEPT ![i][c] = IF @ < Cap[c] THEN @ + 1 ELSE @]
  /\ told' = [told EXCEPT ![i][c] = @ + 1]
-----------------------------------------------------------------------------
(* The callback *)

\* Faulty variant: the rejected message is not counted as received.
CountUnroutedOnce(i) ==
  /\ i \notin acking
  /\ RejectUnrouted(i)
  /\ Count(i, {"withoutHandler"})
  /\ UNCHANGED <<acking, queued, told>>

\* eventReceived, eventWithoutHandler, Term; no notification.
CountUnrouted(i) ==
  /\ i \notin acking
  /\ RejectUnrouted(i)
  /\ Count(i, {"received", "withoutHandler"})
  /\ UNCHANGED <<acking, queued, told>>

CountReceived(i) ==
  /\ i \notin acking
  /\ InvokeHandler(i)
  /\ Count(i, {"received"})
  /\ UNCHANGED <<acking, queued, told>>

\* Faulty variant: permanent errors are settled without a notification.
ReportNakOnly(i, v) ==
  /\ HandlerReturns(i, v)
  /\ IF v \in {"parse", "notype"} THEN UNCHANGED <<queued, told>>
     ELSE Notify(i, IF v = "ok" THEN "success" ELSE "failure")
  /\ UNCHANGED <<counter, acking>>

\* The handler has returned: its result is notified before all else.
Report(i, v) ==
  /\ HandlerReturns(i, v)
  /\ Notify(i, IF v = "ok" THEN "success" ELSE "failure")
  /\ UNCHANGED <<counter, acking>>

\* Faulty variant: a missing type mapping is not counted.
FailureMetricDropsNoType(v) == CASE v = "ok"     -> {}
                                 [] v = "parse"  -> {"notParsable"}
                                 [] v = "notype" -> {}
                                 [] v = "err"    -> {"nak"}

\* The counter incremented before the message is terminated or Nak'd.
FailureMetric(v) == CASE v = "ok"     -> {}
                      [] v = "parse"  -> {"notParsable"}
                      [] v = "notype" -> {"withoutHandler"}
                      [] v = "err"    -> {"nak"}

\* A failure is counted, then comes the Term or the Nak.  An Ack comes first:
\* it is counted in a step of its own, and the server may act on it before.
Acknowledge(i) ==
  /\ Settle(i)
  /\ Count(i, FailureMetric(verdict[i]))
  /\ acking' = IF verdict[i] = "ok" THEN acking \cup {i} ELSE acking
  /\ UNCHANGED <<queued, told>>

\* eventAck, whatever became of the Ack.
CountAck(i) ==
  /\ i \in acking
  /\ Count(i, {"ack"})
  /\ acking' = acking \ {i}
  /\ UNCHANGED <<vars, queued, told>>

Deliver(i) == \/ CountUnrouted(i)
              \/ CountReceived(i)
              \/ \E v \in Verdict : Report(i, v)
              \/ Acknowledge(i)
              \/ CountAck(i)
-----------------------------------------------------------------------------
\* The service takes a notification off a channel, if it ever does.
Read(i, c) ==
  /\ queued[i][c] > 0
  /\ queued' = [queued EXCEPT ![i][c] = @ - 1]
  /\ UNCHANGED <<vars, counter, acking, told>>

\* Counters and channels are in the memory of the process.
Forget(i) ==
  /\ Exit(i) \/ Crash(i)
  /\ counter' = [counter EXCEPT ![i] = NoCounts]
  /\ acking' = acking \ {i}
  /\ queued' = [queued EXCEPT ![i] = NoneTold]
  /\ told' = [told EXCEPT ![i] = NoneTold]

\* Steps that count and tell nothing.
Silent ==
  /\ \/ Publish
     \/ \E m \in Msgs : Server(m)
     \/ \E i \in Instances : Start(i) \/ Close(i) \/ DrainDone(i)
  /\ UNCHANGED telemetry

TelNext == \/ \E i \in Instances : Deliver(i) \/ Forget(i)
           \/ \E i \in Instances, c \in Channels : Read(i, c)
           \/ Silent

TelSpec == TelInit /\ [][TelNext]_telVars
-----------------------------------------------------------------------------
(* Properties *)

\* Process i is between receiving a message and counting its outcome; its
\* handler has returned one of the verdicts and it has not answered yet; it has
\* sent an Ack and not counted it yet.
InHand(i)             == IF ~Idle(i) \/ i \in acking THEN 1 ELSE 0
Returned(i, verdicts) == IF verdict[i] \in verdicts THEN 1 ELSE 0
AckSent(i)            == IF i \in acking THEN 1 ELSE 0

\* What the counters of all processes have counted, one element each, and the
\* attempts the durable has made.
Ticks(metrics) ==
  UNION {UNION {{<<i, k, n>> : n \in 1..counter[i][k]} : k \in metrics} : i \in Instances}
AttemptsMade == UNION {{<<m, n>> : n \in 1..deliveries[m]} : m \in Msgs}

WithStatus(s) == {m \in Msgs : status[m] = s}

\* Counters and channels hold numbers, a channel no more than its buffer.
TelTypeOK ==
  /\ counter \in [Instances -> [Metrics -> Nat]]
  /\ acking \subseteq Instances
  /\ queued \in [Instances -> [Channels -> Nat]]
  /\ \A i \in Instances, c \in Channels : queued[i][c] <= Cap[c]
  /\ told \in [Instances -> [Channels -> Nat]]

\* A received message is counted under exactly one outcome, or the process has
\* it in hand: received minus the outcomes is what is in flight in the
\* process, at every moment.
ReceivedAccounted ==
  \A i \in Instances :
    LET n == counter[i] IN
    n["received"] = n["withoutHandler"] + n["notParsable"] + n["nak"] + n["ack"]
                      + InHand(i)

\* Channels and counters tell the same story: a notification for every call
\* of a handler that returned, and for nothing else.  withoutHandler counts
\* both a failed call and a message no handler was called for.
NotificationsMatchCounters ==
  \A i \in Instances :
    LET n == counter[i] IN
    /\ told[i]["success"] = n["ack"] + Returned(i, {"ok"}) + AckSent(i)
    /\ told[i]["failure"] >= n["notParsable"] + n["nak"] + Returned(i, {"parse", "err"})
    /\ told[i]["failure"] <= n["notParsable"] + n["nak"] + n["withoutHandler"]
                               + Returned(i, {"parse", "notype", "err"})

\* While no process has stopped, the counters of all processes bound what the
\* durable records.  They may exceed it (lost answers, stale attempts); they
\* fall short of it by no more than the Acks sent and not counted yet, since a
\* Term is counted before the call and an Ack after it.
CountersCoverServer ==
  stops = 0 =>
    /\ Cardinality(Ticks({"received"})) <= Cardinality(AttemptsMade)
    /\ Cardinality(WithStatus("acked"))
         <= Cardinality(Ticks({"ack"})) + Cardinality(acking)
    /\ Cardinality(WithStatus("termed"))
         <= Cardinality(Ticks({"notParsable", "withoutHandler"}))

\* A callback that has a message can always go on, also when nobody reads the
\* channels and they are full.
CallbackNeverBlocks ==
  \A i \in Instances :
    buf[i] # <<>> \/ ~Idle(i) \/ i \in acking => ENABLED Deliver(i)
=============================================================================
