# A verification project for go-messaging-nats

TLA+ models of the NATS transport of gomessaging: how messages of a JetStream
stream reach the handlers of a service and are settled, how a `Connection` is
put together by `Start` and taken down by `Close`, how a service request is
answered, how events and outbox rows are published and reach a handler, when
failed attempts are repeated, and what the consumers count and report. Each
module is model-checked with TLC on small instances, and has theorems that TLAPS
proves for every number of processes, messages, requests and setups.

    tlc -config delivery.cfg MCDelivery      # one run; the runs are listed below
    tlapm DeliveryProofs.tla                 # the proofs of one module

Paths below are relative to `src/`. `PROJECT.json` maps every definition that
models code to the lines it stands for.

## 1. The system

A service creates one `Connection`, passes a list of `Setup` functions to
`Start`, and the package does the rest. Event and custom streams use JetStream
(stored messages, a durable consumer, acknowledgements); service requests use
Core NATS (nothing stored, a reply subject per request).

| Component | State | Operations | Interacts with |
|---|---|---|---|
| Connection lifecycle (`connection.go`, `setup.go`, `topology_export.go`) | `started`, `nc`, `js`, defaults and overrides, `pendingJSConsumers`, `consumers`, `subscriptions`, `topology` | `Start`, `Close`, `CollectTopology`, `With...` settings | runs the setups in list order, creates streams and consumers on the server |
| Stream consumer registration (`setup_consumer.go`) | the pending configs, grouped by stream and durable | `StreamConsumer`, `TransientStreamConsumer`, `startPendingJSConsumers` | one server-side durable per group, shared by all processes of the service |
| Delivery and settlement (`consumer.go`, `handler.go`, `routingkey_handlers.go`) | the client's buffer, the message in progress; on the server cursor, pending set and delivery counts | `handleMessage`, `handleDelivery`, wrapped handlers | Ack, Nak and Term to the server; metrics, notifications |
| Service request-reply (`request_response.go`, `consumer.go`, `publisher.go`) | requests waiting, subscriptions of each replica | `coreRequestFn`, `handleCoreMessage`, `startRequestResponseConsumer` | caller and every replica of the target, over Core NATS |
| Publishing (`publisher.go`, `setup_publisher.go`, `headers.go`, `outbox_adapter.go`) | `publishFn`, `subjectFn`, default headers | `Publish`, `setup`, the outbox relay | stream or target service |
| Routing keys and names (`naming.go`, `routingkey_handlers.go`) | the handler map | subject and durable names, wildcard translation, `get` | filters of consumers, handler choice |
| Metrics and notifications (`metrics.go`, `notifications.go`) | counters, channels | calls around a handler and a publish | the service reads the channels; must never change what happens to a message |
| Redelivery backoff (`setup.go`, `consumer.go`) | the schedule of a consumer | `WithBackOff`, `WithConsumerDefaults` | the server's timers, `Nak` |
| Tracing (`tracing.go`) | none | span attributes, context in headers | never changes what happens to a message |
| TCK adapter (`cmd/tck-adapter`) | a test harness | drives the package over standard input and output | |

What is hard here, and rarely reached by a unit test:

- **Several processes, one durable.** The durable is named after the service, so
  replicas and successive releases share it. Attempts of one message overlap
  in several processes once an ack wait expires, and late answers of stale
  attempts meet the server in any order.
- **Fire-and-forget answers.** The errors of `Ack`, `Nak` and `Term` are dropped.
- **Shutdown.** `Stop` throws the client's buffer away and `Drain` runs on in
  the background after `Close` has returned; a crash may happen at any point.
- **Order of setups.** Some setups act when their turn comes, others at the end
  of `Start`; any of them can fail, and `Start` may be called again after that.
- **Lost publish acknowledgements.** An error of `Publish` does not say whether the
  message is stored; a retry stores it again, and only an id of the event's own
  makes the copy recognisable.
- **Time.** A back-off schedule replaces the ack wait and runs while a message sits
  in the client's buffer, so a short entry lets the next attempt overtake a slow
  handler, or many fast ones; a Nak does not wait at all.
- **Channels nobody reads.** Notifications are sent from the callback.
- **Core NATS.** Requests and replies get lost, replicas all handle every
  request, and a reply can come after the caller gave up and asked again.

What makes each component correct: every stored message that somebody handles is
redelivered until it is settled, is settled once and only for what a handler
answered (delivery); an event confirmed to its publisher reaches a handler of the
consuming service, and not without bound (pipeline); a started connection serves all
it was given and a failed or closed one nothing (lifecycle); `Publish` returns nil
only for the very call that was handled (request-reply) or stored (publishing), and
no outbox row is lost; a message that is handled in time is handled by one process,
once (backoff); counters and notifications account for all that was received, and
reporting never holds up a callback (telemetry). The full list of hazards, each at
its line with the properties that watch it, is in `PROJECT.json`.

## 2. The modules

| Module | Contents |
|---|---|
| `Delivery` | one stream, one durable, the processes that share it |
| `Settlement` | abstract: what the durable promises for one message |
| `DeliveryProofs` | theorems about `Delivery`, among them that it implements `Settlement` |
| `LifecycleProofs`, `RequestReplyProofs`, `TelemetryProofs`, `PublishingProofs`, `PipelineProofs`, `BackoffProofs` | theorems about the module each is named after |
| `Lifecycle` | one `Connection` from `Start` to `Close` |
| `RequestReply` | service requests between a caller and the replicas of a service |
| `Telemetry` | counters and notification channels, on top of `Delivery` |
| `Publishing` | `Publish` and `PublishRaw` to a stream, with an outbox relay |
| `Pipeline` | `Publishing` and `Delivery` on one stream: from `Publish` to the handler |
| `Backoff` | the attempts of one message against a clock |
| `MCDelivery`, `MCTelemetry`, `MCPipeline`, `MCLifecycle`, `MCRequestReply`, `MCBackoff` | constant values for TLC |

Definitions commented as a *faulty variant* are not used by any specification.
Each is a plausible mistake in the definition after it; putting it in place of
that definition breaks the property it is listed with under `mutants` in
`PROJECT.json`, which shows that the property depends on the code being as it is.

### Delivery

The client half is the code of `consumer.go`. `handleMessage` is cut where
something else can happen in between: taking a message and calling its handler
(`InvokeHandler`), the handler's return (`HandlerReturns`) and the answer it leads
to (`Settle`, the rest of `handleDelivery`). A message without a handler is
terminated in the same step (`RejectUnrouted`), as `handleMessage` does. The
wrapped handler's four results are `ok`, `parse` (`ErrParseJSON`), `notype`
(`ErrNoMessageTypeForRouteKey`) and `err`; `Disposition` gives the call made for each.
A malformed payload yields `parse`, or `notype` where `TypeMappingHandler` looks for
the type first, and the service's handler is not reached.
`Start` is the part of `startPendingJSConsumers` that concerns one durable:
`CreateOrUpdateConsumer` with this release's filter and `Consume`. `Close`,
`DrainDone` and `Exit` are `Connection.Close`, the drain it leaves behind and the
end of the process; `Crash` is a panic or a kill at any point.

The server half is external and modelled from how the package uses it:
a delivery counts an attempt whether or not it arrives; an answer is judged by the
sequence alone, so one for an earlier attempt of a message that is still open counts
and one for a settled message is ignored; an expired ack wait or a Nak makes the
message due again; a message due again after `MaxDeliver` attempts is given up;
`MaxMsgs` discards the oldest message, delivered or not; the cursor never goes back,
whatever happens to the filter.

Left out: time (ack wait and back-off are an action that may happen whenever a
message is pending; `Backoff` has a clock), metrics and notifications (`Telemetry`
adds them), spans and the contents of payloads.
`succeeded`, `refused`, `unrouted` and `invoked` record history for the properties.

### Settlement

For each message: attempts while it is owed, at most `MaxDeliver`; then one
outcome, *done* only if a handler returned nil for it, *refused* only if the service
refused it, *dropped* only when the attempts are used up. The mapping is in
`Delivery` (`Promise`): acked, termed and exhausted messages are done,
refused and dropped; all others are owed.

### Lifecycle

`opts` is the list given to `Start`, each setup a record. `StartCall` is `Start` up
to the connection (`nc` is the number of the attempt the connection stems from),
then each setup is an action in list order: the settings (`Configure`),
`AddConsumer`, which only queues, `AddStreamPublisher`, which creates its stream at
once, `AddServicePublisher`, which reads the timeout set so far, `AddService` and
`AddResponder` (`RequestResponseHandler`), which subscribe at once, and
`AddServiceResponse`, which only describes an endpoint.
`LaunchGroup` is one round of the loop of `startPendingJSConsumers`, in
registration order. Every server call can fail, and `Abort` is the common error
path: the NATS connection is closed and the error returned, while everything the
setups have stored in the `Connection` stays, so that a second `Start` meets it.
`Close` stops the consumers and leaves the connection draining: its Core
subscriptions still handle the requests they have received, until `DrainDone`.
`collectMode`, chosen at the start, is `CollectTopology`: one `Start`, no connection,
only endpoints.

A consumer's name comes from the service and its suffix as in `newConsumerConfig`;
registrations with the same stream and name form a group, transient ones (no name)
among them. Routing keys are sequences of tokens. `Filter` translates a pattern to
the server's notation, and `HandlersFor` is the choice `routingKeyHandler.get` has
when it ranges over the map. Limits, delivery settings and a schedule are one
number each; logger, tracer, propagator, span names and channels are members of
the set `observed`, which consumers, subscriptions and publishers copy when they
are made. `wired` holds what the setups store in a `Publisher`: `publishFn`,
`subjectFn`, which only `ServicePublisher` sets, and the destination.

External: the server refuses a consumer whose filter subjects overlap or hold a `>`
that is not last, or whose schedule is longer than its `MaxDeliver`. Patterns may
hold `*`, `#` and `>` anywhere. The matching function of the messaging module treats
`*` as one token and a last `#` as one or more, which is what
`routingkey_handlers_test.go` shows of it; whether it knows `>` the repository does
not show, so `HandlerIsUnique` is about both cases (`rests`). Should it take `#` for no
token as well, the patterns `a` and `a.#` would be two handlers for the key `a`. A
service's own routing key is assumed to be a subject, with no `>` before its end.

### RequestReply

`Request`, `ReplyArrives` and `Timeout` are `coreRequestFn` as `Publish` uses it: the
first reply on the call's own reply subject ends the wait and its body is dropped.
A caller may publish again after an error. Each replica has its own
subscription without a queue group, takes one message at a time (`Take`), and
`Return` is the rest of the callback. An error is answered by both kinds of
service, a result only by `RequestResponseHandler` (`responds`, chosen at the start).
`Close` ends a replica's subscription and lets it go on with what it has received
(`draining`); `Stop` is the end of the drain, or of the process at any moment.
External: Core NATS stores nothing, loses requests, loses replies (one that is lost is
one that never arrives), makes a new reply subject for every request, and says at
once when nobody is subscribed. The modelled requests all have the same
routing key, hence one subscription per replica.

### Telemetry

Every step is a step of `Delivery` together with what it counts and sends:
`eventReceived` when a message is taken, `eventWithoutHandler` when it is rejected,
then, after the handler, the notification (`Report`), the counter of a failure with
the Term or Nak that follows it (`Acknowledge`), and `eventAck` in a step of its own
after the Ack (`CountAck`): in between the server may have recorded the Ack, the
process may be closed or die (`acking`). A notification to a full channel, or to one
that was never given (`Cap` 0), is dropped. The reader of the channels may read
or not. Counters and channels are in the memory of a process and go with it.
`RequestResponseHandler` neither counts nor notifies.

### Publishing

`Publish` is cut where it waits in `js.PublishMsg`: up to the message on the wire,
and its return by `Acked` or `TimeOut`, with the counter of each. A call that
`validateKey` or `json.Marshal` refuses is not counted. `Ident` is the `ce_id`: the
caller's or the row's own, a new one for every call of `Publish` without one, and none
for a row that was stored without one (`keyed`, chosen at the start). `PublishRaw` sends
a row with the headers it was stored with, counts nothing, and returns an error while
no `Start` has wired the Publisher (there `Publish` would panic, which is a `Crash`).
The counters are in the memory of the process: `Crash` resets them, and `past` keeps the
calls made before.
External: the network, a server that stores every copy (the package sets no
`Nats-Msg-Id`), and a relay that publishes a row until it has marked it as sent.

### Pipeline

`Pipeline` extends `Delivery` and instantiates `Publishing`, whose counter `succeeded` is
renamed. The two have the stream in common: `StoreMessage` is `Store` of the
publisher and `Publish` of the durable in one step, position *m* of `log` being
message *m*; every other step is one of either side. In `Delivery` a message's key
goes with its position, in `Publishing` with its event, so the composition is for
events of one routing key, none of them malformed (`PipelineOK`).

### Backoff

One message among others, and a clock. Each process holds up to `Cap` messages in
order, the head in the callback: the buffer of `Consume`, whose callback takes one
message after the other. `Return` is the end of `handleDelivery`, whose Ack, Term or
Nak may get lost; `ReturnOther` that of another message. A callback takes at most
`slowest`, chosen at the start. External: an attempt without an answer is due again
after its entry of the schedule, counted from the delivery to the buffer, the last
entry serving all later ones; after a Nak without delay the message is due at once.
The way to the server and back takes no time of its own; crashes are in `Delivery`.

## 3. What is checked

| Run | Result | What it shows |
|---|---|---|
| `delivery` | holds | two processes of two releases, two messages (one malformed), `MaxDeliver` 2, a stop or crash: `SettledByHandler`, `AtLeastOnce`, `OneCallPerDelivery`, the refinement `KeepsPromise`, and under fairness `EventuallySettled`: a message every release handles, or that was sent once, is eventually settled or discarded by retention |
| `delivery_rolling` | holds | `Telemetry` with two releases of different routing keys, no `MaxDeliver`, a stream that keeps one message, an error channel of one and no success channel: settlement still has a cause, `Settlement` is still implemented, `ReceivedAccounted`, `NotificationsMatchCounters`, `CountersCoverServer`, `CallbackNeverBlocks` |
| `delivery_rolling_loss` | violated | during a rolling release a message is terminated by a process that does not know its key, although another one handles it |
| `delivery_close` | violated | the connection is closed while a handler still runs |
| `lifecycle` | holds | every order of each list of setups, connected or collecting, one failing server call, one retry: `EverythingServed`, `NothingLeftRunning`, `OneConsumerPerGroup`, `SettingsReachConsumers`, `TopologyIsDeclared`, `HandlerIsUnique`, `PublisherGoesWhereWired`, `ClosedForGood` |
| `lifecycle_max_deliver` | violated | a consumer's own `WithMaxDeliver` is dropped when it is not first in its group |
| `lifecycle_stale_subject` | violated | a Publisher wired for requests and then for a stream keeps its request subjects |
| `request_reply` | holds | both kinds of handler, two requests, two tries each, two replicas, two of them closed or stopped: `NilMeansHandled`, `OncePerReplica`, `NilFromConsumerIsFailure` |
| `publishing` | holds | an outbox row and an event, each with or without an id of its own, a refused event, two faults: `NilMeansStored`, `CopiesShareId`, `PublishesCounted`, and under fairness `RowsGetSent` |
| `pipeline` | holds | an outbox row, published and consumed by one process each, with a fault on the way to the stream and a stop behind it: `ConfirmedIsDelivered`, `CallsAreBounded`, and under fairness `RowsGetSettled` |
| `backoff` | holds | two processes with buffers of two, a schedule of 3 and 4 for three attempts, callbacks of 1 or up to 2: `NoOverlap`, `NoNeedlessRepeat` |
| `backoff_nak` | violated | an attempt after a Nak is made at once |

**Bounds.** Two processes and two messages are the least with which an attempt in
one process meets a later attempt in another, and one message can overtake the
other. `MaxDeliver` 2 gives a first attempt, a last attempt and its exhaustion.
`BufCap` 1 is a message that waits behind the one in the handler. `MaxStops` bounds
`Close` calls and crashes; after one, the process that stopped and the other one
meet each other's attempts, and the proofs have any number. In `delivery_rolling`
there is no `MaxDeliver`, and `DeliveryBound` caps the attempts explored. In the
lifecycle runs, `MaxStarts` 2 and `MaxFaults` 1 are a failed `Start` and its retry;
the scripts are all permutations of lists that hold two registrations of one group,
a second stream, a transient consumer, publishers of both kinds, a service, and
settings with good and bad arguments, an empty schedule and a negative default among
them, one Publisher wired twice, and pairs of patterns on one durable, with `*`, `#`
and `>` in good and bad places, checked with all keys of up to three tokens. In
`delivery_rolling`, a channel of one is full after one notification and one that is
not given always is; message 2 is malformed there, which keeps the counters few. In
`publishing`, `MaxFaults` 2 allows a lost acknowledgement and a crash or a second
loss in one run, hence three copies of an event. In `pipeline`, one fault gives a
row two calls, hence two copies (`NumMsgs` 2 is all that can be stored), each with
two attempts; one process is enough, since `delivery` has the races of two; no step
there reads an id, so `KeyedSpec` fixes which events have one. In `backoff`, three
attempts go one beyond the schedule, and the clock runs to the end of it. Two
callbacks of 1 are shorter than both entries; two of 2 are not, though one is, and
there the message is handled by both processes at once: the premise of `NoOverlap`
is needed, and tight. In `request_reply`, two tries are what a late reply needs to
meet a new call. Symmetry of processes is used in `request_reply` only, a safety run
whose constants treat the replicas alike.

**Deadlock** is not checked: once all messages are settled, all calls have
returned or the bounds are used up, the system may stop.

**Fairness.** In `delivery` the server keeps serving every message it owes: as long
as it can deliver, redeliver, expire or give up a message, it does one of these in
the end. The callback goroutine of a process is scheduled and its handlers return;
and whoever runs the service ends a closed process and restarts a stopped one. These
are weak fairness of `Server(m)`, `Callback(i)` and `Start(i) \/ Exit(i)`. Nobody is
obliged to publish, to close or to crash, and an answer may be lost every time: the
message then runs out of `MaxDeliver`. In `publishing` a service that died is
started again, the relay keeps going through its rows, the network delivers what it
does not lose and `js.PublishMsg` gives up in time; faults are finitely many.
`pipeline` takes the fairness of both modules and no more. No reader of a channel is
fair, and none is needed.

## 4. What is proved

Each theorem holds for every value of the constants that satisfies the named
assumptions of its module; all are of the form `Spec => []Property` unless said
otherwise. Every invariant and action property that a run checks is proved, except
`CallbackNeverBlocks`.

| Theorem | Property |
|---|---|
| `DeliveryProofs` | |
| `TypeCorrect` | `TypeOK` |
| `SettledForCause` | `SettledByHandler` |
| `CalledOnce` | `OneCallPerDelivery` |
| `DurableKeepsPromise` | `KeepsPromise`: `Delivery` implements `Settlement` |
| `DeliveredAtLeastOnce` | `AtLeastOnce` |
| `TelemetryProofs` | |
| `TelemetryIsTransparent` | `TelSpec => Spec`: `Telemetry` implements `Delivery` |
| `TelemetryKeepsPromise`, `TelemetrySettledForCause` | `KeepsPromise`, `SettledByHandler` of `TelSpec` |
| `TelTypeCorrect` | `TelTypeOK` |
| `ReceivedBalances`, `NotificationsBalance` | `ReceivedAccounted`, `NotificationsMatchCounters` |
| `ServerIsCovered` | `CountersCoverServer` |
| `LifecycleProofs` | |
| `LifecycleTypeCorrect` | `TypeOK` |
| `FailedStartStopsAll` | `NothingLeftRunning` |
| `ClosedStaysClosed` | `ClosedForGood`, an action property |
| `GroupsShareConsumer` | `OneConsumerPerGroup` |
| `OneHandler` | `HandlerIsUnique` |
| `StartedServesAll` | `EverythingServed` |
| `TopologyOfSetups` | `TopologyIsDeclared` |
| `PublishersFollowSetups` | `PublisherGoesWhereWired` |
| `ConsumersGetSettings` | `SettingsReachConsumers` |
| `RequestReplyProofs` | |
| `RequestTypeCorrect` | `TypeOK` |
| `NilIsForThisCall` | `NilMeansHandled` |
| `ConsumerNilIsFailure` | `NilFromConsumerIsFailure` |
| `HandledOncePerReplica` | `OncePerReplica` |
| `PublishingProofs` | |
| `PublishingTypeCorrect` | `TypeOK` |
| `NilIsStored` | `NilMeansStored` |
| `CopiesRecognisable` | `CopiesShareId` |
| `CountersBracketStream` | `PublishesCounted` |
| `PipelineProofs` | |
| `PipelineIsDelivery` | `PipeSpec => Spec`: `Pipeline` implements `Delivery` |
| `PipelineIsPublishing` | `PipeSpec => Pub!Spec`: and `Publishing` |
| `ConfirmedReachesHandler` | `ConfirmedIsDelivered` |
| `DuplicatesBounded` | `CallsAreBounded` |
| `BackoffProofs` | |
| `BackoffTypeCorrect` | `TypeOK` |
| `FastBuffersHoldOne` | `NoOverlap` |
| `HandledOnce` | `NoNeedlessRepeat` |

**Assumptions.** `ConstantsOK` (`Delivery`): counts are naturals. `CapOK`
(`Telemetry`): natural channel sizes and finitely many processes. `PublishingOK`:
finitely many events. `PipelineOK` (`Pipeline`): that of `Publishing`, one routing
key, well-formed payloads. `ScheduleOK` (`Backoff`): a schedule has at least one entry, its
entries are positive, `MaxDeliver` is no smaller than its length (`consumer.go:83`
requires it), a process holds at least one message, and a callback takes at least one
unit of time. `BoundsOK`, `ScriptsOK`, `KeysOK` (`Lifecycle`): at least one
`Start`; scripts are lists of the setup records of `Setup`, with good and bad
arguments; patterns and keys are sequences of tokens. TLC evaluates each
on every run of its module.

The argument, invariant by invariant:

*Delivery*

- `SettledByHandler` says nothing of an answer still to be sent. `Grounded` adds
  what `Settle` relies on: a result waiting in `handleDelivery` is recorded in the
  history, and an idle callback has no result. Together they are inductive.
- `AttemptInv` ties the server's counts to what the clients hold. `Unreached`: the
  durable has done nothing for messages beyond its cursor; `Budget`: no more than
  `MaxDeliver` attempts; `Counted`: no process holds or has handled an attempt
  that was not made, and attempts are numbered from one. It gives
  the guards of `Settlement`'s actions.
- `OneCallPerDelivery` follows from `Counted`: a new delivery's number is larger
  than that of every delivery of the message anywhere, so it is in no buffer and
  in no handler's past.
- The refinement maps each action to one action of `Settlement` or to a stutter; an
  answer is a *done*, a *refused* or nothing, depending on whether it arrives and
  finds the message open.
- `RouteInv` carries at-least-once delivery: the filter is that of some release
  whenever a process is open, so of a message that every release handles the cursor
  does not pass it by and no process lacks its handler. That every release handles
  it cannot be dropped: `delivery_rolling_loss` is the counterexample.

*Telemetry*

- Every step is a step of `Delivery` (`TelStep`), so its theorems carry over.
- `AccountInv` balances, for each process, the counters, the notifications sent
  (those a full channel dropped included) and the one message in flight; both
  balances follow from it, neither is inductive alone.
- `CoverInv` compares sets of increments with sets of attempts and messages by
  their cardinality. `CountersCoverServer` is not inductive: an attempt is made
  before it is counted, and a message terminated after. The invariant leaves out the
  attempts still in buffers, and an Ack sent and not counted (`acking`) makes up for
  the counter that follows it.

*Lifecycle*

- `Phases` says where `Start` is and what follows for the connection: open from the
  dial to the error or `Close`, draining only after `Close`, number `nc` not used before, no consumer of it
  before the launch, all of them running until `Close`. With `TypeOK` it is
  inductive, and `NothingLeftRunning` and `ClosedForGood` follow.
- `GroupInv`: consumers of this connection belong to groups already launched, so
  the next group, which is not, gets a consumer of its own.
- `HandlerInv`: a consumer has the filters of its handlers and no two overlap. The
  rest is about the operators: `FilterMeansPattern`, a filter passes what the pattern
  matches, and nothing else if its wildcards are known; `KeyPassesBoth`, filters that one key passes overlap.
- `QueueInv`, `ConsumeInv` and `WiredInv` follow a registration from the script to the
  queue, to its group and to the consumer, and services and publishers to this
  connection's subscription and function.
- `TopoInv` gives every endpoint its place by counting those declared before it.
- `PubInv` and `ConfInv` say that what is stored is what the *latest* setup of its
  kind asked for, up to the one that runs next, and that nothing stems from outside
  the script. What a failed `Start` left is overwritten by the time the list has
  run. `OptionsInv` ties consumers to the settings at their launch.

*RequestReply*: `NilInv` follows a reply back to the call that asked for it, on the
wire and in the caller's hands; `OnceInv` adds that every call anywhere was made,
so a new one is in nobody's past. `OncePerReplica` is about what waits (`WaitsOnce`)
and about what was handled (`HandledOnce`), which is not inductive without it.

*Publishing*: `TriesCostFaults` bounds the calls of an event by the faults; `AcksStored`,
an acknowledgement on the wire is for a stored message; `StoredOnce`, no call is
stored twice or both stored and still on the wire, which counts the copies.
`CountInv` relates counters, calls since the last start and copies by cardinality.

*Pipeline*: every step is a step, or a stutter, of each side (`DurableStep`,
`PublisherStep`), so the theorems of both hold. `StreamsAgree` ties them together:
the durable's messages are the positions of `log`. `ConfirmedReachesHandler` then
puts `NilMeansStored` before `AtLeastOnce`. For `DuplicatesBounded`, a handler call of an
event is named by the call of `Publish` whose copy it got and the number of the
attempt (`CallsNamed`): `StoredOnce` makes the first part determine the position,
`Counted` and `Budget` bound the second, and an injection into a product bounds the
cardinality.

*Backoff*: `AloneInTime` says that, while full buffers are handled in time, an attempt in
a queue is the only one, the server still waits for its answer, and the callback is
done with it, by its place in the queue, no later than a full buffer after it was
sent. Then neither an expiry nor a Nak makes the message due while it is held.
`FinishedIsSettled` adds that the one call that ended for good settled the message.

Only model-checked: liveness (`EventuallySettled`, `RowsGetSent`, `RowsGetSettled`),
since the prover has no fairness, and `CallbackNeverBlocks`, which is about
`ENABLED`. The violated properties of section 5 have no theorem;
`SettingsReachConsumers` says when a consumer's own options do win: when it is alone
in its group.

## 5. What the models found

- A process without a handler for a key terminates the message for all processes
  of the service (`consumer.go:163`); in a rolling release a new key's messages
  are lost, against "at-least-once delivery" in the README.
- `Close` does not wait for handlers of stream consumers, against
  `docs/connection.md:94`. Nothing is lost by it (`AtLeastOnce` holds), but work is
  done again.
- Options of a group's first registration decide for the group
  (`setup_consumer.go:250`); the README's own `WithMaxDeliver(10)` example gets 5.
- `StreamPublisher` leaves the `subjectFn` of an earlier `ServicePublisher` in a Publisher
  used for both (`setup_publisher.go:46`): events go to the request subject, against
  the subjects of `docs/publishers.md:99-103`.
- A failing handler's message is Nak'd without a delay (`consumer.go:236`) and comes
  back at once, against "redelivered per backoff schedule" in `docs/consumers.md:56`;
  the schedule only spaces attempts that got no answer.

Known from the models, without a document that says otherwise:

- `WithStreamDefaults` after `StreamPublisher` comes too late for that stream
  (`setup_publisher.go:43`); streams of consumers are created last and always get
  their limits (`SettingsReachConsumers`).
- A failed `Start` can be repeated, and then reports endpoints twice
  (`TopologyIsDeclared` allows for it); with a stream consumer already queued, the
  second attempt is refused by the server each time.
- `get` matches a pattern as it was written (`routingkey_handlers.go:33`) while the
  server gets the translated one. `docs/consumers.md:124-130` offers `Order.>` as well as
  `Order.#`; if `spec.MatchRoutingKey`, which is not in this repository, takes `>`
  literally, such a consumer terminates every message it gets. `HandlerIsUnique`
  promises a handler only if the function knows the wildcard.
- A schedule with an entry no longer than a full buffer of callbacks takes lets two
  processes handle the message at once; `NoOverlap` needs its premise.
- A successful request to a `ServiceRequestConsumer` times out at the caller, while
  a failed one returns nil.

## 6. Not modelled, and the plan

Done, in this order: `Delivery` with `Settlement` and the proofs, `Lifecycle`,
`RequestReply`, `Publishing`, `Telemetry`, `Backoff`, the theorems about them, then
`Pipeline` and its theorems. `CallbackNeverBlocks` stays with TLC: without `ENABLED` it
would only repeat the guards of `Telemetry`. The theorems of `DeliveryProofs` that
`TelemetryProofs` and `PipelineProofs` do not state again follow from
`TelemetryIsTransparent` and `PipelineIsDelivery`.

Not modelled: tracing (no state, no influence on control; that the settings reach
consumers is in `Lifecycle`), histograms and label values of the metrics,
`InitMetrics` and its process-wide routing key mapper (two mappers in one process
only change labels), the event record of `consumable_event.go`, the TCK adapter (a
test harness), contexts given to `Publish`, and the time that `RequestMsg` takes.
Liveness stays with TLC: the prover has no fairness.
