# SmartFire video test kit: verification development

The modules in this directory model the SmartFire video test kit (`src/src/video_testkit`), a Python
asyncio program that plays a whole GB28181 video platform in one process: the Provider whose HTTP
interface SmartFire integrates with, a SIP registrar and UAC, simulated devices, a client of an external
ZLMediaKit, an event outbox with a delivery worker, a callback sink, and a control plane that arranges
scenarios and resets everything. TLC checks the modules on small instances; TLAPS proves the central
results for every instance.

Paths below are relative to `src/src/video_testkit` unless they say otherwise.

## 1. The system

| Component | State | Operations | Interacts with |
|---|---|---|---|
| Provider streams (`service.py`) | stream objects, their `state` | start, get, stop of live and playback; one establish coroutine and one teardown task per stream | Store, IdempotencyStore, LiveClient, ZlmClient |
| Store (`state.py`) | devices, channels, streams, index of live streams, operations, records, outbox, `event_seq` | index update, `next_revision` | everything in the Provider |
| IdempotencyStore (`idempotency.py`) | key, fingerprint, reference | `resolve`, expiry after 24 h | all write operations |
| Catalog sync, record queries (`service.py`, `catalog_client.py`, `recordinfo_client.py`) | operation and query status | submit, complete in the background | registrar query sessions, Store, outbox |
| Device status, keepalive, snapshots (`service.py`) | online status, `keepalive_seen_at`, snapshot rounds | inject status (in a thread), record a heartbeat, expire, page through the inventory | Store, outbox |
| Outbox and worker (`events.py`) | delivery state and attempts of every event, the delivery lock | record, deliver with bounded retries | sink, control plane, reset |
| Callback sink (`callback_sink.py`) | received events, script, token | receive, script, configure, clear | worker |
| SipRegistrar (`sip/registrar.py`) | UAC transactions, catalog and record sessions, registrations, nonces | INVITE, ACK, BYE, queries, REGISTER, keepalive, reset | devices over UDP and TCP, LiveClient |
| DeviceSimulator (`sip/simulator.py`) | dialogs, scenarios, registration, listeners | answers as a UAS, media loops, register and keepalive flows, maintenance, reset | registrar, ZLMediaKit |
| ZlmClient (`zlm_client.py`) | port cursor | open and close an RTP server, poll for media | external ZLMediaKit |
| Packetizer (`media/rtp_ps.py`) | RTP sequence number, timestamps | frames to RTP packets | media loops |
| Control plane (`testkit_api.py`), Provider API (`provider_api.py`) | none of their own | reset, scenario configuration, forwarding | all of the above |
| Conformance runner (`conformance/`) | case results | drives the kit over HTTP from outside | Provider API |

Everything asynchronous runs on one event loop, so code between two awaits is atomic, and the hard
behaviours come from what happens at an await: a stop while a coroutine waits for an answer, a reset in
the middle of anything, an answer after its timeout, a request retried with its idempotency key, a failed
call to ZLMediaKit, a lost datagram.

That atomicity holds among callbacks and coroutines only. Routes declared with a plain `def` (status injection,
lists, sink configuration) run in a thread pool, and the interpreter may switch between a thread and the loop at almost any
statement, in both directions: the loop may overtake a thread between two of its statements, and a thread may run as
a whole between two statements of the loop. The docstring `state.py:3-4` says that all changes happen on the loop and
need no lock; for status injection (`testkit_api.py`, a plain `def`) this is not so. Where threads and loop write or read
the same data, the modules have *every* writer, also on the loop, write in several steps (`DeviceStatus`, `Snapshots`), and
their properties name what this leaves open. Only `next_revision` draws its number in one step: the interpreter switches at calls and
jumps, and there is none in the increment.

What makes each component correct:

* streams: no call is left behind on a device; STREAMING means that media is served; no stream stays
  STARTING; one active live stream per channel; a stream that is gone stays gone;
* idempotency: a retried request finds what it created;
* outbox: delivery states tell the truth, are final where they should be, and every event settles; an
  answer is booked on the event it answers even if a reset waits; a reset removes all old events;
* queries: an answer belongs to the query it answers; an operation always ends;
* registration: both sides agree after register, refresh, expiry and unregister;
* ports, packets: no port handed out twice, fields at their width.

`PROJECT.json` lists the hazards at their lines, with the properties that cover them; the three without one
say why.

## 2. Plan

| # | Module | Content | Status |
|---|---|---|---|
| 1 | `StreamSessions`, `StreamContract`, `StreamSessionsProofs` | streams, idempotency, SIP call, ZLMediaKit, reset; the contract of a client; proofs | done |
| 2 | `EventDelivery`, `EventDeliveryProofs` | outbox, worker, sink, control plane, reset; proofs | done |
| 3 | `QuerySessions`, `OperationContract`, `QuerySessionsProofs` | catalog and record sessions of the registrar, settle window, aggregation, the operations above them, the device's answers, reset; the contract of an operation; proofs | done |
| 4 | `Registration`, `RegistrationProofs` | REGISTER with digest and nonces, refresh by the maintenance loop, unregister, late requests, reset of the two sides; proofs | done |
| 5 | `DeviceStatus`, `DeviceStatusProofs` | heartbeats and their loss, the scan for silent devices, status injection in a thread, events versus status; proofs | done |
| 6 | `RtpPorts` | the port cursor with its wrap and the ports it is told of; proofs in `ProviderProofs` | done |
| 7 | `DeviceMedia`, `DeviceMediaProofs` | dialogs of a device with every answer mode and every order of messages, the media task, reset; proofs | done |
| 8 | `Snapshots` | snapshot tokens against concurrent changes and reset; proofs in `ProviderProofs` | done |
| 9 | `RtpPackets` | frames cut into packets, sequence number, timestamp, PTS fields and audio slices at their width; proofs in `DeviceProofs` | done |
| 10 | `MCProvider`, `ProviderProofs` | 4, 6 and 8 side by side, and proofs about the composition | done |
| 11 | `MCDevice`, `DeviceProofs` | 4, 5, 7 and 9 side by side, and proofs about the composition | done |

Every invariant and every safety property of a passing run is also a theorem. Liveness stays with TLC (section 12).

## 3. `StreamSessions`

One stream key is a fresh uuid and owns exactly one SIP call, so a key names the stream object, the call
on the registrar's side and the dialog on the device.

| Variable | Code |
|---|---|
| `req`, `rev`, `state` | the `LiveStreamState` or `PlaybackStreamState` object, which its coroutine holds after the store has dropped it; `rev` is the revision in its ZLM stream id |
| `by` | history: the idempotency key of the request that created the stream |
| `stored`, `active`, `idem`, `eventSeq` | `live_streams` and `playback_streams`, `_active_live_by_channel`, `IdempotencyStore._entries`, `event_seq` |
| `task` | where `_establish_live_stream` or `_establish_playback_stream` is suspended |
| `down` | what `_teardown_*_stream` does next |
| `attached` | `LiveClient._dialogs` |
| `dlg` | `DialogState.status` on the device |
| `net` | SIP messages in flight, in no order |
| `rtp` | RTP servers open in ZLMediaKit, by the stream whose task opened them |
| `resetPc`, `toClose` | where `POST /testkit/v1/reset` is suspended, and the ids it still closes |

Actions are the stretches between awaits: `StartLive`, `ReuseLive`, `RefuseLive`, `StartPlayback`, `Stop`
for requests; `InviteTimeout`, `InviteRejected`, `AnsweredZlm`, `AnsweredMock`, `OpenSucceeds`,
`OpenFails`, `MediaOnline`, `NoMedia`, `FinallyClose` for the coroutine; `TeardownClose`, `TeardownBye`;
`DeviceAnswers`, `DeviceRejects`, `DeviceIgnores`, `DeviceAck`, `AckTimeout`, `DeviceBye`; `Lose`; and
`ServiceReset`, `RegistrarReset`, `CloseLeftover`, between which every other handler runs.

Abstractions, each of which only adds behaviours or is exact:

* The control plane may rearrange a device between any two messages, so each device handler reads an
  arbitrary answer mode. A delayed answer is an INVITE that stays in flight.
* The two halves of the first stretch, the handler that creates the task and the task up to its INVITE,
  are one step; nothing a handler in between could see differs.
* A device or channel that is unknown or offline is a nondeterministic refusal (`RefuseLive`), which
  leaves an idempotency entry with an empty reference. Playback validates before it resolves its key, so
  its refusals change nothing.
* A response nobody waits for is left out of `net` at once, as `_dispatch_uac_response` drops it.
* A device whose listener is being rebuilt has no address: establishing fails at once (`InviteTimeout`), and a
  BYE is not sent, which in the model is a BYE that finds no dialog.
* `next_revision` is drawn only by stream creation; other draws only widen the gaps between stream ids.
* Signalling is that over UDP. Over TCP an INVITE has a connection of its own: a connection that fails to open, and one that
  the device closes, end it like a missing answer, but `registrar.reset` does not know its transaction and does not cancel it. A
  connection that is reset while the coroutine waits raises an error that nobody handles, so that the stream stays STARTING, like one whose
  INVITE was cancelled.
* ZLMediaKit is external: it refuses an id that already has a server, media is online when the server of
  the id receives the media of an established call, and with `ZlmFaults` a call may fail with or without
  effect.
* The 24 h expiry of idempotency entries is left out (section 13), and so is the mode without a registrar, in which
  nothing is established and streams are table entries.

`StreamContract` is what a client may rely on: a key is unknown, then STARTING (or at once STREAMING
without ZLMediaKit), then STREAMING or FAILED for good, then gone for good; one live stream per channel
is starting or streaming; a stream keeps its request. `ImplementsContract` maps a stream to its visible
state and is checked as a refinement.

### Runs

| Run | Instance | Properties |
|---|---|---|
| `streams_mock` | no ZLMediaKit; two streams of either kind, one channel, two keys; resets | `TypeOK`, `NoAbandonedSession`, `ImplementsContract` |
| `streams_zlm` | ZLMediaKit with faults; one key; fairness; no resets, no loss | `StreamingIsServed`, `TornDownCallEnds`, `StartingConverges` |
| `streams_reset` | ZLMediaKit with faults, loss, resets; two keys | `ActiveLiveIndexed`, `RetryFindsItsStream`, `ImplementsContract` |
| `streams_stop` | ZLMediaKit, no faults | `DialogsAreOfStoredStreams` is violated |
| `streams_fail` | ZLMediaKit, no faults | `NoAbandonedSession` is violated |
| `streams_window` | ZLMediaKit, resets, fairness | `StartingConverges` is violated |

Two streams and one channel are enough for the interesting cases: an old stream and a new one of the same
channel and of the same stream id (ids repeat after a reset), a live stream shared by two keys, a live and a
playback stream at the same time. Calls of different channels share nothing else. Two idempotency keys let an
entry be redirected to the other's stream. The number of streams ever created is bounded by `Key`; there is no
other bound, and resets are not counted. Keys are interchangeable, so the safety runs use symmetry; the runs
with liveness do not. `CHECK_DEADLOCK FALSE`: once all keys are used the system may stop.

Fairness is weak fairness of each coroutine, each teardown task and each device's handlers: the event loop runs
every task that is ready, and every await is bounded by `asyncio.wait_for` or an HTTP timeout. Nothing obliges a
client to stop a stream, a datagram to be lost or a reset to happen.
`TypeOK` says more than types in one place: the index names only streams that were requested live on its channel.
`TornDownCallEnds` needs BYE to arrive, since it is sent once, and a stream that no reset has dropped. `StreamingIsServed` is
checked, and proved, without resets: `event_seq` starts again at 0, so ids repeat, and a late `closeRtpServer` of before
the reset may close the server of a new stream of the same id. With `Resets = TRUE` TLC finds it in eleven states, even
with a ZLMediaKit that never fails: the INVITE of a stream times out, reset runs, a new stream of the channel
draws the same id and is served, and the `finally` clause of the first one closes its server (`service.py:465`).

### What the violations show

* `streams_stop` (`service.py:455`, against the comment at `service.py:468`): with ZLMediaKit, a stop while the
  coroutine waits for media is undone. The coroutine overwrites STOPPED with STREAMING, attaches the dialog
  under a key the store no longer has, and neither the device's session nor the RTP server is ever closed.
* `streams_fail` (`service.py:456`, against "failed cases leave no permanent socket or Dialog state" in
  `src/docs/project/SMARTFIRE-VIDEO-TESTKIT-IMPLEMENTATION-PLAN.md:171`): when a step after the answer fails,
  no BYE is sent and the device keeps its session.
* `streams_window` (`testkit_api.py:67`, against the docstring at `service.py:420`): a stream started while reset
  rebuilds the listeners has its INVITE cancelled; `CancelledError` is not handled, and it stays STARTING.

## 4. `EventDelivery`

| Variable | Code |
|---|---|
| `outbox`, `eventSeq` | `Store.events`, `Store.event_seq` |
| `status` | the thread of `set_device_online_status` between drawing its revision and appending its event |
| `sync` | a catalog sync that waits for its device, and the era in which it began |
| `pc`, `at`, `url`, `token`, `post` | the worker: where it is, its place in the list, the target it read, its request |
| `config` | `events_callback_url` and `events_callback_token` in `app.state` |
| `received`, `scripted`, `born`, `era` | history: events the sink recorded, events it was scripted to answer with a 2xx, events ever recorded, resets |
| `resetPc` | `POST /testkit/v1/reset`: waiting for the delivery lock, or rebuilding the listeners |

An event's state `REFUSED` is the code's FAILED with "(no retry)" in `last_error`. The worker holds the delivery
lock from `PassStarts` to `PassEnds`, through every post and every backoff; it visits the live list, so events
recorded during a pass are part of it. A timeout may come before the request arrives or while the sink sleeps; the
sink's handler then finds its client gone when it reads the body and records nothing. The sink's script may change at
any time, so its answer is an arbitrary one of `Script`: an error, or a 2xx, since `POST events/sink/script` takes any
status from 200 on. A scripted answer records nothing, so `DeliveredWasReceived` says that a DELIVERED event was recorded
*or* was answered by such a script, and by nothing else: no timeout, repeated attempt, reset or reconfiguration makes one. `asyncio.Lock` is fair: a waiting reset comes before the
worker's next pass. A url that `httpx` cannot parse raises `InvalidURL`, which is no `HTTPError`, so it ends the
worker task (`WorkerDies`) and releases the lock. A status injection draws its revision and appends its event in two steps. An event
of the loop does so in one: a thread between the two would only leave a later revision before an earlier one, which the
thread's own two steps leave as well, and worker, sink and reset run on the loop and see neither.

Left out: the list of received events with its duplicate and out-of-order marks, event types and payloads, the
length of backoffs, and a second concurrent catalog sync or status request.

| Run | Instance | Properties |
|---|---|---|
| `events` | two events, two attempts, one token and the empty one, no default url, a script of errors and 2xx, one reset, fairness | `TypeOK`, `AnswerHasItsEvent`, `DeliveredWasReceived`, `FinalStaysFinal`, `EventsSettle`, `ResetReturnsInTheEnd` |
| `events_reset` | one event, one attempt, one reset | `NoOldEventAfterReset` is violated |

Bounds: `MaxEvents` events are ever recorded, so that one can be behind, overtaken by or removed before another;
`MaxResets` resets; `MaxAttempts` is the setting itself. The default url is "none", so that events are given up
before a target is configured and after a reset. Fairness is weak fairness of the worker, whose loop
goes on and whose posts time out, and of a reset that has arrived; the sink owes nothing.

`events_reset` shows a catalog sync that completes while reset awaits the new listeners (`testkit_api.py:67`): its
event is recorded in the outbox that was just cleared and is delivered after reset returned, against the comment at
`testkit_api.py:71`. `ResetReturnsInTheEnd` and `EventsSettle` are the two sides of the lock: neither the worker nor
reset starves the other, and the second holds as long as the worker lives.

## 5. `QuerySessions`

A catalog sync and a record query are the same machine: an operation the client polls, a coroutine, a session in the
registrar that aggregates what the device sends, a settle window. The registrar keeps one session per device for
catalogs and one per channel for records. The model has one device with one channel, so those two keys are the two
kinds of requests, and what differs between the kinds is written where it differs (`Finish`, `IsComplete`,
`Collected`, `Responses`).

| Variable | Code |
|---|---|
| `ask`, `status`, `items` | the `CatalogOperation` or `RecordQuery` object, which its coroutine holds after a reset dropped it |
| `stored`, `idem`, `known`, `records`, `announced` | `catalog_operations` and `record_queries`, `IdempotencyStore._entries`, `DeviceState.channels`, `Store.records`, the CATALOG_CHANGED events |
| `pc` | where `_complete_catalog_sync` or `_complete_record_query` is suspended |
| `registered`, `session` | `_catalog_sessions` and `_recordinfo_sessions`, and the session object each coroutine holds even if it is registered no more |
| `asked`, `answers`, `listening` | queries and responses in flight, and whether the device has a listener |
| `resetPc` | where `POST /testkit/v1/reset` is suspended |
| `crossed`, `foreign`, `inReset`, `resets` | history: queries that overlapped, sessions that took an answer to another query, operations submitted during a reset |

`Submit` is the request; `Asks`, `CannotAsk`, `Returns`, `TimesOut` and `Dies` are the coroutine, `Receive` and
`Settles` the registrar, `DeviceAnswers` the device; `ServiceReset`, `ListenerReturns` and `RegistrarReset` are the
stretches of the reset handler that matter here. An answer is the list of items the parser returns, with SumNum. The modes
single, multi, out-of-order, duplicate, missing and empty are lists of such answers; timeout and malformed, like a
lost or delayed datagram, are answers that never arrive or arrive late, since nothing obliges them to.

Abstractions: SN is sent and echoed but compared nowhere, so it does not occur. A fresh id or key is the first
unused one; which uuid is drawn does not matter. `Window` has the record queries in units of time, and `Hour` is the
length of a recording in them; sub-second instants and the device's clock offset are left out. `wait_for` may give up
in the same iteration of the loop in which the result arrives (since Python 3.12; `requires-python` is 3.11 or later), so
`TimesOut` asks only what the session holds. Left out: the mode without a registrar, in which every operation fails at
once, the refusals of unknown or offline devices, which change nothing, and the revisions of channels.

`OperationContract` is what a client may rely on: an id is unknown, then ACCEPTED, RUNNING, and one outcome for good; a
PARTIAL outcome has items and a FAILED one none; after a reset the id is gone for good. `ImplementsOperations` is the
refinement.

| Run | Instance | Properties |
|---|---|---|
| `queries` | two queries of either kind, two keys, two channels of which one may be missing, a window of two recordings, one reset, fairness | `TypeOK`, `LoneQueryIsRegistered`, `ResultIsHonest`, `RetriesFindOperations`, `StuckOnlyByReset`, `ImplementsOperations`, `QueriesEnd` |
| `queries_key` | two record queries with one start and two ends | `RecordKeysBindIntervals` is violated |

Two queries let one replace the session of the other, remove it, and answer it; two items let an answer be paged,
repeated, partial and complete; one reset meets a query in each of its states, those it submits during the reset
included. `Op` bounds the queries ever submitted. `CHECK_DEADLOCK FALSE`: once they are used and done the system may
stop. Fairness is weak fairness of each coroutine, whose wait `wait_for` bounds, and of a reset that began; the device,
the network and the settle timer owe nothing.

What the properties leave open is as telling as what they state. A query that overlaps another one of its device can lose
its session to it, since nothing enforces one at a time (`crossed`); a session can take the late answer to an earlier
query, since SN is not compared (`foreign`); and an operation submitted while reset awaits the new listeners can
stay RUNNING for ever, because `CancelledError` is not handled (`inReset`), which is the same window as in
`streams_window`. Everything else is covered: results are whole when they say so, and every operation ends.

`queries_key` (`service.py:592`, against `src/README.md:25`): the record key has the channel and the start only. A
second query that ends elsewhere overwrites the record behind the key the first one returned, and a playback of
that key plays another interval.

## 6. `Registration`

A flow is one call of `trigger_register` or `trigger_unregister`, in a background task of the control plane or in the
maintenance loop. Each has a socket of its own and one request at a time on the way, so its request and answers are a
field of the flow (`link`), and the only messages that outlive it are requests whose wait has expired (`strays`).

| Variable | Code |
|---|---|
| `device` | `status`, `registered` and the time left until `expires_at` of `SimulatorDeviceState` |
| `flow` | where `_register_flow` or `_unregister_flow` is, how often it has sent credentials, the rest of its wait, the life of its nonce, and whether reset has replaced the state object it writes to (`orphan`) |
| `strays` | requests that arrive after their flow has given up |
| `registrations` | `SipRegistrar._registrations`; `_nonces` is the `life` of the nonces in use, since a nonce is neither shared nor consumed |
| `agreed` | whether simulator and registrar are configured with one password; nothing changes it |
| `pass` | the devices the current pass of the maintenance loop has still to look at, and whether reset has replaced them |
| `resetting` | `POST reset` between `simulator.reset` and `registrar.reset` |
| `disturbed` | history: the last flow of the device overlapped another flow, a stray, or a reset |

`StartRegister`, `StartUnregister`, `Poll` and `Refresh` start flows; `Challenge`, `Authorize`, `RefuseStale` and
`RefuseCredentials` are the registrar; `SendCredentials`, `Succeed`, `GiveUp` and `TimeOut` the flow; `Lose`, `HandleStray`
and `LoseStray` the network; `Tick` is a unit of time, in which nothing that is due is left undone. The status IDLE, of a
device that has never had a flow, counts as UNREGISTERED.

`LoneFlowAgrees` says that the two sides agree after a flow that nothing disturbed, `BusyHasFlow` that a transient status
always has a flow that ends it, `FlowsEnd` that every flow ends, `RefreshedInTime` that the loop gets to every device
before it expires. What they leave open:

* `RefreshedInTime` needs a margin as long as the longest flow of every *other* device, since the loop awaits one refresh
  before it looks at the next device. A flow takes at most `(1 + MaxTries) * Timeout`. With `Margin` 2 and `MaxTries` 1 the
  invariant fails for two devices, and the defaults do not meet the condition either (`config.py:53-56`: a margin of 2 s, a
  register timeout of 3 s, so a flow of one other device takes up to 12 s),
  although the docstring at `sip/simulator.py:836` and `src/docs/project/VERIFICATION-BASELINE.md:20` describe the loop as refreshing before expiry.
* Nothing orders margin and expiry: `config.py:53-55` accepts an expiry of 1 s with the default margin of 2 s. The loop then
  refreshes at every poll. The model allows it (`RegistrationAssumption`), and the condition of `RefreshesAreInTime` excludes it.
* After one failed refresh the device is not `registered`, and the loop never tries again.
* A flow that outlives reset registers its device again at the registrar, without the new device knowing; a pass of the
  loop that outlives it registers a device of the new scenario; a flow that ends while reset awaits the listeners is
  forgotten by `registrar.reset`. These are the flows `disturbed` excludes.

## 7. `DeviceStatus`

| Variable | Code |
|---|---|
| `status`, `age` | `DeviceState.online_status`, and the time since `keepalive_seen_at` |
| `loop` | `_keepalive_loop`: stopped, asleep, or waiting for the 200 of its heartbeat |
| `drops` | whether the device is in `_drop_next` |
| `late` | heartbeats under way that no one waits for: those sent on demand, of a stopped loop, or delayed |
| `writer` | for each thread of `set_device_online_status`, and for the event loop: about to write the status, or between the status and the event |
| `told` | the status that the last event of the outbox reports |
| `contested`, `missed` | history: two writers overlapped, and no clean write came since; heartbeats left out since the last regular one that was recorded |
| `budget` | bound on commands and faults |

Heartbeats, the scan `expire_stale_devices`, a completed unregistration and status injections are all writers: they decide what to write,
write the status, and append the event, in three steps (`BeginWrite`, `WriteStatus`, `AppendEvent`). The loop does nothing
else while it is in one of its writers (`LoopFree`); the threads may do everything, and so may the loop while a thread is between
two steps. `LastEventTells` says that a platform which follows the events knows the status, unless a writer is
between status and event at the moment, or two of them came between each other's (`contested`). The latter is real: an injection that
runs as a whole between `service.py:888` and the event of `expire_stale_devices` leaves the device with the injected status
and the outbox with OFFLINE as its last word, until the next status that is written undisturbed. "Last" is the order of the
outbox, not that of the revisions, which are drawn before the event is appended. `DropsAreTolerated` says that a device is not taken for
silent while the heartbeats that it drops *on purpose* fit in the timeout; `StatusConverges` that the status settles on what the heartbeats
say.

What `missed` gives up on is the finding of this module: a *lost* heartbeat, or a lost answer, keeps the loop waiting for
`gb_register_timeout` (3 s) before it sleeps its interval, and with the default timeout of 3 s one lost message is enough
to take the device OFFLINE. A heartbeat that arrives after a reset starts the timer of the new scenario's device, which then goes
OFFLINE though its loop was never started. A malformed heartbeat has the effect of a lost one.

## 8. `DeviceMedia`

Here one call is followed through both sides, where `StreamSessions` has many calls and no media task.

| Variable | Code |
|---|---|
| `answer`, `media` | `LiveScenario.mode`, `media_mode` and `media_transport` |
| `dialog` | `DialogState.status`, whether its ACK timer runs, and whether the scenario's table still has it |
| `task`, `flag` | `media_task` and `media_active` |
| `call` | the transaction and the dialog of the registrar |
| `wire` | messages under way, which arrive in any order |
| `fate`, `troubles` | history: a message lost, the scenario switched while the dialog waited; bound on losses, reconfigurations and resets |

The modes of an answer are all there: an INVITE is dropped, refused, answered, answered after a delay, and the ACK ignored.
`configure_live` changes the mode under a dialog that is under way. `media` is read when the task begins. `Cancelled` says
what a cancellation meets: a task that has not begun, one that connects over TCP, or one that sends.

`MediaHasSession`: a device sends only within an established, listed dialog, and `media_active` is down when no task can
take it down any more, with one exception the model shows: a TCP task cancelled while it connects is outside of the `try` that
resets the flag, so the flag stays up (`cut`). `ClosedIsOver`: no late ACK revives a session that BYE has ended.
`WaitingHasACause`: a dialog stays in WAITING_ACK only if a message was lost, the scenario was switched, or the Provider has
given up: the ACK timer runs in mode no-ack only, and the Provider answers a 2xx that comes after its timeout with neither
ACK nor BYE. `ByeEndsSession`: a BYE that is not lost ends the session; one that is lost leaves the device sending until reset,
since it is not repeated.

Reset is one step here; its stretches are in `StreamSessions`. One scenario table stands for live and playback, whose
handlers differ in the table only. Two calls share nothing but the mode, so one is enough; the safety part also holds for
two.

## 9. `Snapshots`

| Variable | Code |
|---|---|
| `seq`, `items` | `Store.event_seq`; status and revision of every device |
| `rounds`, `spent` | `_snapshot_rounds`, and the tokens ever drawn |
| `reader` | a list route in its thread: after `event_seq`, within the loop over the devices, or before the page, with its fingerprint so far |
| `writer` | for each injecting thread and for the event loop: the statements still to execute, and the revision it has drawn |
| `clearing` | the statements of `ProviderService.reset` |

Threads and loop take turns statement by statement. A writer marks a device (status, then revision: `set_device_online_status`,
`expire_stale_devices`), brings it back (revision, then status: `record_keepalive`) or touches it (revision only: a heartbeat of a device that is
ONLINE, a catalog sync); then its event draws one more revision. `SetStatus`, `DrawRevision`, `AssignRevision` and `RecordEvent` are these
statements. A reader takes `event_seq` (`ReadSeq`), then the list of the devices (`ListDevices`), then one device after the other
(`ReadDevice`), and then binds its fingerprint or compares it (`BeginRound`, `ContinueRound`, `RefuseRound`); last it cuts the
page (`ReadPage`). Reset clears the devices, the counter and the rounds and seeds the devices one by one; writers that it overtakes go on with
objects that are not in the inventory any more (`orphan`), and draw revisions.

The SHA-256 of the inventory is what goes into it. A device stands for what is listed of it by its status; the channels of a device are
named in the fingerprint themselves, and a list of channels reads one device where a list of devices reads all. UNKNOWN is treated like
OFFLINE. One reader is enough: readers share only the rounds, and a second one would add tokens that are bound meanwhile, which
the first one does anyway before it goes on.

`TokenMeansUnchanged`: when a token is accepted, every device shows what it showed when the token was handed out. It holds across
resets only because `event_seq` is part of the fingerprint (leaving it out is its mutant): revisions start anew. Excluded are,
and all can happen:

* a device that was half changed at one of the two readings (`half`): a list route between `service.py:887` and `888` reads
  the new status with the old revision, and one between the revision and the status of a heartbeat reads the old status with the new revision;
* a fingerprint that reset overtook (`Raced`, `Overtaken`): it is of two scenarios;
* `next_revision` gives the first change of a scenario the revision 1 that the seeded device has. A reader that took
  `event_seq` before that change and a revision after it accepts the changed inventory (`moved` with `seq` 0).

And the property says nothing of the page itself: it is cut after the comparison, from the inventory as it is by then, so a round may be
torn although every page was admitted.

## 10. `RtpPorts`

`cursor` is `_next_port`; `held` is what a stream was told and whether its server is open; `latest`, `drawn` and `overlapped` are history.
A port is reserved before the INVITE and opened after the answer, and nothing records which are taken. `PortsAreDistinct` holds
as long as streams are established one after the other and the range has not been used up once. Both conditions are needed:
with two streams under way `_mark_port_used` moves the cursor *back* behind the older one, onto a port that is
reserved (the comment at `zlm_client.py:122` says it avoids conflicts with ports opened explicitly), and after a round the cursor
hands out ports that are open. ZLMediaKit then refuses the second server and the stream fails.

## 11. `RtpPackets`

A deterministic machine: `YieldFrame` is one round of `frame_iterator`, with the packets of `_packetize`, the slices of
`_mux_audio_pes` and the clock; `StreamDies` is the exception that a value without room raises. The widths of the fields are
parameters, small in the run, so that they wrap and overflow: the PTS is split into a top field and two pairs of an `Octet`
(2^8 in the code, 4 in the run) and a `Septet` (2^7, 2 in the run). `FrameIsWhole`: a receiver can put a frame together.
`StreamGoesOn`: neither the end of a frame nor that of the fixture is a gap. `PtsReadsBack` compares `encode_pts` with the
reading of the MPEG-2 format. What is excluded:

* the top three bits of the PTS are encoded one bit too low and without their marker bit, so the PTS is wrong from
  2^30 (3.3 hours) on;
* the RTP timestamp is not masked, so `struct.pack` fails at 2^32 (13.25 hours of a stream) and the media task dies;
* so does a frame of more than 65 523 bytes, whose PES length does not fit;
* an audio fixture shorter than a frame's step is repeated only once per frame (`PacketAssumption` excludes those).

### The runs of sections 6 to 11

| Run | Instance | Properties |
|---|---|---|
| `provider` | two devices with one task and the loop; two devices, one token, one thread beside the loop, writers that begin while `event_seq` is 0; three streams on four ports | `ProviderTypeOK`, `LoneFlowAgrees`, `RefreshedInTime`, `BusyHasFlow`, `TokenMeansUnchanged`, `PortsAreDistinct` |
| `device` | one device: registration; status with one thread and four disturbances; one call with four troubles; two frames of four sizes, two MTUs, four audio lengths; fairness | `DeviceTypeOK`, `LastEventTells`, `DropsAreTolerated`, `MediaHasSession`, `ClosedIsOver`, `WaitingHasACause`, `FrameIsWhole`, `PtsReadsBack`, `FlowsEnd`, `StatusConverges`, `ByeEndsSession`, `StreamGoesOn` |

`MCProvider` and `MCDevice` search modules that share no state side by side: the initial state picks the part in `focus`, and
the others stay as they start. This is exact for each part, and the sum of the state spaces takes the place of their product.

Bounds. Two devices make the loop late for one of them and let flows of one disturb the other; one background task and the loop
are two flows at a time, also of one device. `Expires`, `Margin`, `Timeout` and `NonceTTL` are in units: a nonce lives as long
as a wait, so it can be stale or fresh when a flow uses it, and the margin is above the longest flow of the other device
(3 units with two tries). `MaxTries` is 3 in the code; with 2 a flow
gets a second try and comes to the end of its tries. `KeepTimeout` and `ReplyWait` have the ratio of the
defaults to `Interval`. `Disturbances` and `Troubles` of 4 allow, for instance, a start, a loss, a late heartbeat and a reset, or a lost
message, a change of mode, another loss and a reset, in one behaviour. No writer begins once `event_seq` has reached `MaxSeq` (1), which leaves room for two writers, one after the other or overlapping
with up to four draws, and for more of them after reset, with one token that is bound, dropped by reset, and presented again. One thread beside the loop makes two writers
of one device. Four ports with three streams wrap; one stream more would only repeat. In the packetizer, frames are
below, at and above the MTU and, with audio, a multiple of it; `SizeRange` is above some sizes and not others. `Expires` 11
and `Margin` 4 are the least that meet the hypothesis of `RefreshesAreInTime` for two devices.

Fairness. `RegFairness`: the loop runs, timers fire, a flow whose answer has come goes on; nothing of the network. `DevFairness`: loop,
scan and clock run, threads finish, a datagram arrives or is lost. `MediaFairness`: timers fire and the device and the
registrar handle what arrives; an INVITE need never be answered. In `MCDevice` the fairness of a part that is not in focus asks nothing: in
its initial state no fair action changes anything. `CHECK_DEADLOCK FALSE` there, because troubles and calls run out.

## 12. Proofs

`StreamSessionsProofs` proves about `StreamSessions`, for every set of keys, channels and idempotency keys and, where not
said otherwise, for every choice of `Zlm`, `ZlmFaults`, `Lossy` and `Resets`. The only assumption is `ConstantsOK`: the
kinds are among live and playback, the switches are Booleans, and the "no value" constants are not values.

| Theorem | Result |
|---|---|
| `TypeCorrect` | `Spec => []TypeOK`, with the index naming live requests of its channel only |
| `IndexInvariant` | `Spec => []IndexInv`, the inductive invariant of the store |
| `LiveStreamsAreIndexed` | `Spec => []ActiveLiveIndexed` |
| `RetriesFindTheirStream` | `Spec => []RetryFindsItsStream` |
| `StoreImplementsContract` | `Spec => ImplementsContract`, the refinement of `StreamContract` |
| `NoSessionAbandoned` | without ZLMediaKit and without loss, `Spec => []NoAbandonedSession` |
| `StreamsAreServed` | without resets, `Spec => []StreamingIsServed` |

`ActiveLiveIndexed` and `RetryFindsItsStream` are not inductive: coroutines overwrite the state of their stream without
looking, so a stream that was FAILED could become STREAMING and active again behind the index. `IndexInv` adds why
it does not: while the coroutine of a stored stream is undecided, the stream is in the state it was created in.
The same fact gives the refinement: a coroutine changes a visible state only from that state.

`NoAbandonedSession` needs `SessionInv`, per key: an ACK under way means that the coroutine is done and no INVITE of
the call is left, so no second answer can follow; the ACK finds the call owned by someone who will send BYE; and a
stream that is STREAMING outside of the store was there at a reset, where its dialog was dropped. The theorem's
condition is sharp: `streams_fail` and `streams_stop` are counterexamples with ZLMediaKit. The proofs go handler by
handler; `NetFacts` and `Frame` reduce each to the one call it is about.

`StreamsAreServed` needs two things. `OwnIds`: revisions are drawn from `event_seq` and never twice, so a stream id names one
stream, and what closes or polls the server of an id means the stream's own (`OwnServer`). `ServedKey`: once a call is
answered no INVITE of it is left, so its dialog is not replaced; and BYE and a teardown belong to a stream that has left the
store. Nothing is assumed of ZLMediaKit or of the network. The condition cannot be dropped (section 3), since reset breaks
`OwnIds`.

`QuerySessionsProofs` proves about `QuerySessions`, for every set of operations, keys and windows, every catalog, and any
number of resets. The only assumption is `QueryConstants`: windows are not empty, a scenario shows channels of the
catalog, and the "no value" constants are not values.

| Theorem | Result |
|---|---|
| `BaseInvariant`, `TypeCorrect` | `Spec => []BaseInv`, and with it `[]TypeOK` |
| `LoneQueriesAreRegistered` | `Spec => []LoneQueryIsRegistered` |
| `RetriesFindTheirOperation` | `Spec => []RetriesFindOperations` |
| `OnlyResetsStrandOperations` | `Spec => []StuckOnlyByReset` |
| `ResultsAreHonest` | `Spec => []ResultIsHonest` |
| `OperationsImplementContract` | `Spec => ImplementsOperations`, the refinement of `OperationContract` |

`BaseInv` adds to the types what a status says of its coroutine (`Lifecycle`) and that only queries that were started
are known outside (`Outside`), without which the type of `session` is not inductive: `Receive` looks up the session
under the kind of the query that is answered. `CoroutineEnds` is the lemma the others share: whatever way a coroutine ends, it
leaves with one of four outcomes (`Ends`). `LoneQueryIsRegistered` needs that queries that wait together have all
crossed (`LoneInv`), so that a finally clause never removes the session of a lone one. `StuckOnlyByReset` needs that
between the two halves of a reset the store holds only what was submitted in between (`ResetInv`).
`ResultIsHonest` is about the end of a chain: items come from an answer into a session, from there into its future, and from
there into the operation. `HonestInv` says of each link that it is honest: an answer names items of the request and their
number, or 0 for records; a session of that request has collected some of them and reports "complete" only when they are
all. That as many different items as the list is long are all of its items is `CountedIsWhole`, a fact about cardinalities.

`EventDeliveryProofs`, for any number of events, attempts and resets, any tokens and scripts; assumption `DeliveryConstantsOK`:

| Theorem | Result |
|---|---|
| `DeliveryTypeCorrect` | `Spec => []TypeOK` |
| `AnswersAreBooked` | `Spec => []AnswerHasItsEvent` |
| `FinalIsFinal` | `Spec => FinalStaysFinal` |
| `DeliveredIsReceived` | `Spec => []DeliveredWasReceived` |

The types alone are not inductive. `DeliveryInv` adds that a thread which has drawn its revision keeps a place for its event
(`CountInv`), without which the bound on events would break; that only events that were tried are other than PENDING;
and that a post is out only in state `post` (`PostInv`), which with the lock is why reset cannot clear the list under an
answer. `DeliveredIsReceived` rests on
`OkInv`: a 200 that no script made was sent in the same step in which the sink recorded the event, and the event it is
booked on is the one that was posted.

`RegistrationProofs`, for any devices, tasks and times; assumption `RegistrationAssumption`:

| Theorem | Result |
|---|---|
| `RegTypeCorrect` | `RegSpec => []RegTypeOK` |
| `BusyHasItsFlow` | `RegSpec => []BusyHasFlow` |
| `LoneFlowsAgree` | `RegSpec => []LoneFlowAgrees` |
| `RefreshesAreInTime` | with `EnoughTime`, `RegSpec => []RefreshedInTime` |

Every step of a flow is one of three: it begins, goes on, or ends (`Begins`, `GoesOn`, `Ends`; `NextByCases`), and the theorems
argue about those. `RegInv` adds to the types that a flow which has not been challenged has sent no credentials, so that
`tries` stays in its range. `AgreeInv`, per device that is not disturbed, says that there is at most one flow and no stray
next to it, that an answer 200 under way came with the change of the table, and that a stray means the flow has failed.

`EnoughTime` is the condition under which the loop is in time: the devices are finitely many, the margin is longer than the
longest flows of all of them but one, and a registration lasts for the margin and a flow of every device. The longest flow
is `(MaxTries + 1) * Timeout`. `RoundInv` is what makes it inductive. `Ahead` is how long the loop may still be
busy with its flow and its pass. Every registered device either is not due before that is over, or is due in this pass and
its turn comes in time, or has become due meanwhile and there is time for this pass and for the whole of the next, whose
members are the set `U`. Time takes as much from `Ahead` as from the registrations; a flow that begins only moves work
from the pass into the flow; a poll turns `U` into the pass. TLC found no violation of `RoundInv` in the instance of the run `provider`
before it was proved. `WorkAddsUp` and `RestOfFlow` carry the arithmetic.

`DeviceStatusProofs`, for any times and number of disturbances; assumption `DeviceStatusAssumption`:

| Theorem | Result |
|---|---|
| `DevTypeCorrect` | `DevSpec => []DevTypeOK`; late heartbeats and the budget together never exceed it |
| `EventsTellStatus` | `DevSpec => []LastEventTells` |
| `DroppedHeartbeatsTolerated` | `DevSpec => []DropsAreTolerated` |

`WriterInv` adds to `LastEventTells` what holds while a writer is between status and event: unless the write was
contested, there is only one such writer, and the status is the one it wrote, so that its event will tell it.
`DropInv` relates the device's age at the Provider to the loop: as long as heartbeats are only dropped, the
device was heard at most one interval ago for each dropped one and for the present one, of which what is left has not passed.

`DeviceMediaProofs`, for any calls and number of troubles; assumption `MediaAssumption`: `MediaTypeCorrect`,
`MediaOnlyInSession` (`[]MediaHasSession`), `ClosedForGood` (`[]ClosedIsOver`), `NoWaitWithoutCause` (`[]WaitingHasACause`). The
three come from one invariant per call, `CallInv`: which messages can exist at all in which state of the call (`InOrder`,
since the wire has no order of its own), that a dialog which waits without a timer is not one whose ACK is ignored
(`Acknowledged`), and the properties themselves, with a BYE's answer under way counted as an end (`InSession`).

`ProviderProofs`, for any inventory, devices, tokens, range of ports and streams; assumptions `SnapshotAssumption` and
`PortAssumption`:

| Theorem | Result |
|---|---|
| `SnapTypeCorrect` | `SnapSpec => []SnapTypeOK` |
| `TokensBindContents` | `SnapSpec => []TokenMeansUnchanged` |
| `PortTypeCorrect`, `DistinctPorts` | `PortSpec => []PortTypeOK`, `PortSpec => []PortsAreDistinct` |
| `ProviderRunsItsParts` | `ProviderSpec => RegSpec /\ SnapSpec /\ PortSpec` |
| `ProviderTypeCorrect` | `ProviderSpec => []ProviderTypeOK` |

`TokenMeansUnchanged` needs `SnapInv`, which is about what a fingerprint says of the *present* inventory and of the writers on their
way (`Bind`): a device that still has the revision shows the same, and no writer is about to give it that
revision, or another status under it. It holds of every round that is bound, of what the reader has read so far, and between the two (`Agrees`).
What makes it inductive is that revisions are not newer than `event_seq` (`Counted`), that writers execute their statements in
order with a revision that is theirs (`WritersInOrder`), and that a device which reset has removed comes back with the revision 1 only (`Unseeded`).
The case of `event_seq` 0 runs through all of it, because the
first change draws the seeded revision again. `PortsAreDistinct` needs `CursorIsAhead`: the cursor is ahead of every port that
was handed out, and the port that is marked as used is the one right behind it.

`DeviceProofs`, for any sizes of frames, MTUs, audio lengths and widths of fields; assumption `PacketAssumption`:

| Theorem | Result |
|---|---|
| `PacketTypeCorrect` | `PacketSpec => []PacketTypeOK` |
| `FramesAreWhole` | `PacketSpec => []FrameIsWhole` |
| `PtsIsReadBack` | `PacketSpec => []PtsReadsBack` |
| `StreamsGoOn` | `PacketSpec => StreamGoesOn` |
| `DeviceRunsItsParts` | `OneDeviceSpec => RegSpec /\ DevSpec /\ MediaSpec /\ PacketSpec` |
| `DeviceTypeCorrect` | `OneDeviceSpec => []DeviceTypeOK` |

`PacketInv` says that what was sent last is one whole frame with its audio, and that the counters stand right behind it. The
rest is arithmetic, in lemmas: a sequence number wraps the same whether it is counted packet by packet or frame by
frame (`RemainderOfSum`), the number of packets covers the frame (`EnoughPackets`, `PacketBounds`), the fields of a PTS
add up to it (`DivideTwice`, `FieldsAddUp`), and the slices of one frame end where those of the next begin (`SlicesGoOn`).

The two theorems named `RunsItsParts` close the gap between proofs and runs: the composition that TLC checks is, projected to the
variables of a part, a behaviour of that part, so what is proved of `RegSpec` or `MediaSpec` holds of it.

Only model-checked: liveness (`StartingConverges`, `TornDownCallEnds`, `EventsSettle`, `ResetReturnsInTheEnd`, `QueriesEnd`,
`FlowsEnd`, `StatusConverges`, `ByeEndsSession`), which needs fairness and ENABLED and is out of the prover's reach. The
inductive invariants themselves are theorems only.

## 13. Not modelled

* The conformance runner is a sequential client of the interfaces modelled here, and shares no state with the kit.
* The expiry of idempotency entries: an entry lives for 24 hours, far longer than a scenario between two resets.
* The marks for duplicates and order in the sink's list of received events, the filters of list routes, the request log and the
  counters of status routes: they are computed for a reader and influence nothing.
* Message codecs, configuration, logging and the command line have no behaviour over time. The bytes of the PS headers and
  the cutting of the fixture are formats; a PTS is the only field whose bits are modelled.
* Startup and shutdown of the process happen once, with nothing else running. Nothing is persisted, so there is no recovery.
* The mode without a registrar, in which streams are table entries and queries fail at once.

## 14. Running

    tlc -config streams_mock.cfg MCStreamSessions
    tlc -config events.cfg EventDelivery
    tlc -config queries.cfg MCQuerySessions
    tlc -config provider.cfg MCProvider
    tlc -config device.cfg MCDevice
    tlapm StreamSessionsProofs.tla

The runs named after streams use the module `MCStreamSessions`, which adds the symmetry sets; those named after events
use `EventDelivery`; those named after queries use `MCQuerySessions`, which adds channels and windows. Each of the eight
modules named after `Proofs` is checked by `tlapm` on its own.
