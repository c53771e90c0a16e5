--------------------------- MODULE StreamSessions ---------------------------
(***************************************************************************)
(* The media sessions of the fake Provider: live and playback streams, the *)
(* idempotency entries that answer retried requests, the coroutine that    *)
(* establishes a stream (INVITE, openRtpServer, wait for media), stop and  *)
(* its teardown task, the device's side of each SIP dialog, the ZLMediaKit *)
(* RTP servers and the control plane's reset.                              *)
(*                                                                         *)
(* Everything in the Provider runs on one event loop, so a handler is one  *)
(* step and a coroutine is one step per stretch between two awaits.  A     *)
(* stream key is a fresh uuid and owns exactly one SIP call, so the key    *)
(* also names the dialog of that call on both sides.                       *)
(***************************************************************************)
EXTENDS Naturals, FiniteSets

CONSTANTS
  Key,          \* providerStreamKeys that may be drawn (bound: streams ever created)
  Channel,      \* (device, channel) pairs
  Kind,         \* subset of {"live", "playback"}: the two stream tables in play
  IdemKey,      \* values of the Idempotency-Key header
  Zlm,          \* TRUE: ZLMediaKit is configured (STREAMING waits for media)
  ZlmFaults,    \* TRUE: openRtpServer and closeRtpServer may fail
  Lossy,        \* TRUE: a SIP datagram may be lost
  Resets,       \* TRUE: POST /testkit/v1/reset may be called
  NoKey, NoRequest, NoEntry

Request == [kind : Kind, channel : Channel]
Entry   == [req : Request, ref : Key \union {NoKey}]

ASSUME ConstantsOK ==
  /\ Kind \subseteq {"live", "playback"}
  /\ {Zlm, ZlmFaults, Lossy, Resets} \subseteq BOOLEAN
  /\ NoKey \notin Key
  /\ NoRequest \notin Request
  /\ NoEntry \notin Entry

VARIABLES
  \* the stream objects; they outlive their removal from the store
  req,        \* the request a stream was created for
  by,         \* history: the idempotency key of the request that created it
  rev,        \* the revision number inside its ZLM stream id
  state,      \* LiveStreamState.state / PlaybackStreamState.state
  \* the store
  stored,     \* keys in live_streams or playback_streams
  active,     \* _active_live_by_channel
  idem,       \* IdempotencyStore._entries
  eventSeq,   \* Store.event_seq, as far as stream ids draw from it
  \* Provider tasks and the live client
  task,       \* where _establish_*_stream(k) is suspended
  down,       \* what _teardown_*_stream(k) does next
  attached,   \* LiveClient._dialogs
  \* the outside
  dlg,        \* DialogState.status of the call on the device
  net,        \* SIP messages in flight
  rtp,        \* streams whose task opened an RTP server that is still open
  \* POST /testkit/v1/reset
  resetPc,    \* where the reset handler is suspended
  toClose     \* zlm_stream_ids of the reset handler, as the streams they name

objVars   == <<req, by, rev>>
storeVars == <<stored, active, idem, eventSeq>>
resetVars == <<resetPc, toClose>>
vars == <<objVars, state, storeVars, task, down, attached, dlg, net, rtp,
          resetVars>>

ACTIVE_STATES == {"STARTING", "STREAMING"}
Message  == [type : {"INVITE", "OK", "REJECT", "ACK", "BYE"}, key : Key]
ToDevice == {"INVITE", "ACK", "BYE"}

Msg(type, k)  == [type |-> type, key |-> k]
InFlight(type, k) == Msg(type, k) \in net

Active(k) == k \in stored /\ state[k] \in ACTIVE_STATES

\* The ZLM stream id "{channel}_live_{revision}" or "{channel}_pb_{revision}".
StreamId(k) == <<req[k], rev[k]>>
SameId(k)   == {j \in Key : StreamId(j) = StreamId(k)}

Init ==
  /\ req = [k \in Key |-> NoRequest]
  /\ by = [k \in Key |-> NoKey]
  /\ rev = [k \in Key |-> 0]
  /\ state = [k \in Key |-> "NONE"]
  /\ stored = {}
  /\ active = [c \in Channel |-> NoKey]
  /\ idem = [i \in IdemKey |-> NoEntry]
  /\ eventSeq = 0
  /\ task = [k \in Key |-> "none"]
  /\ down = [k \in Key |-> "none"]
  /\ attached = {}
  /\ dlg = [k \in Key |-> "NONE"]
  /\ net = {}
  /\ rtp = {}
  /\ resetPc = "idle"
  /\ toClose = {}

-----------------------------------------------------------------------------
(* Start requests. *)

\* IdempotencyStore.resolve does not answer 409.
Resolves(i, r) == idem[i] # NoEntry => idem[i].req = r

\* Mutation of Replays: a stream that is still STARTING is forgotten.
ReplaysStreamingOnly(i) ==
  /\ idem[i] # NoEntry
  /\ idem[i].ref # NoKey
  /\ idem[i].ref \in stored
  /\ state[idem[i].ref] = "STREAMING"

\* A repeated request whose stream is still active is answered with that
\* stream, and nothing changes.
Replays(i) ==
  /\ idem[i] # NoEntry
  /\ idem[i].ref # NoKey
  /\ Active(idem[i].ref)

\* Mutations of ActiveLive: only an established stream, or one that reports
\* STREAMING, is shared.
ActiveLiveAttached(c) ==
  active[c] # NoKey /\ Active(active[c]) /\ active[c] \in attached

ActiveLiveStreaming(c) ==
  active[c] # NoKey /\ Active(active[c]) /\ state[active[c]] = "STREAMING"

\* The stream that a start request for this channel shares.
ActiveLive(c) == active[c] # NoKey /\ Active(active[c])

\* The tail of start_live_stream and start_playback: a new stream object in the
\* store and the entry pointing at it; and the first stretch of the establish
\* task created last, up to the INVITE (the task runs in the loop's next round;
\* a stop or a reset of the same round finds no difference).
CreateStream(i, r, k) ==
  /\ state[k] = "NONE"
  /\ eventSeq' = eventSeq + 1
  /\ rev' = [rev EXCEPT ![k] = eventSeq + 1]
  /\ req' = [req EXCEPT ![k] = r]
  /\ by' = [by EXCEPT ![k] = i]
  /\ state' = [state EXCEPT ![k] = IF Zlm THEN "STARTING" ELSE "STREAMING"]
  /\ stored' = stored \union {k}
  /\ idem' = [idem EXCEPT ![i] = [req |-> r, ref |-> k]]
  /\ task' = [task EXCEPT ![k] = "invite"]
  /\ net' = net \union {Msg("INVITE", k)}
  /\ UNCHANGED <<down, attached, dlg, rtp, resetVars>>

LiveRequest(c) == [kind |-> "live", channel |-> c]
PlaybackRequest(c) == [kind |-> "playback", channel |-> c]

StartLive(i, c, k) ==
  /\ Resolves(i, LiveRequest(c))
  /\ ~Replays(i)
  /\ ~ActiveLive(c)
  /\ CreateStream(i, LiveRequest(c), k)
  /\ active' = [active EXCEPT ![c] = k]

\* Another request already opened this channel: its stream is handed out.
ReuseLive(i, c) ==
  /\ Resolves(i, LiveRequest(c))
  /\ ~Replays(i)
  /\ ActiveLive(c)
  /\ idem' = [idem EXCEPT ![i] = [req |-> LiveRequest(c), ref |-> active[c]]]
  /\ UNCHANGED <<objVars, state, stored, active, eventSeq, task, down, attached,
                 dlg, net, rtp, resetVars>>

\* The device or the channel is unknown, or the device is offline: the request
\* fails after the idempotency entry was written with an empty reference.
RefuseLive(i, c) ==
  /\ idem[i] = NoEntry
  /\ idem' = [idem EXCEPT ![i] = [req |-> LiveRequest(c), ref |-> NoKey]]
  /\ UNCHANGED <<objVars, state, stored, active, eventSeq, task, down, attached,
                 dlg, net, rtp, resetVars>>

\* Mutation of StartPlayback: a playback is indexed like a live stream.
StartPlaybackIndexed(i, c, k) ==
  /\ Resolves(i, PlaybackRequest(c))
  /\ ~Replays(i)
  /\ CreateStream(i, PlaybackRequest(c), k)
  /\ active' = [active EXCEPT ![c] = k]

\* Playback validates first, resolves the key last and never shares a stream.
StartPlayback(i, c, k) ==
  /\ Resolves(i, PlaybackRequest(c))
  /\ ~Replays(i)
  /\ CreateStream(i, PlaybackRequest(c), k)
  /\ UNCHANGED active

-----------------------------------------------------------------------------
(* The establish coroutine: one action per stretch between two awaits. *)

\* Mutation of Fail: the failure is logged and the state forgotten.
FailKeepsState(k) ==
  /\ task' = [task EXCEPT ![k] = IF Zlm THEN "close" ELSE "done"]
  /\ UNCHANGED state

\* except (LiveInviteError, TimeoutError, ZlmError): FAILED whatever the state
\* was, then the finally clause.  No BYE is sent, even after a 200 and its ACK.
Fail(k) ==
  /\ state' = [state EXCEPT ![k] = "FAILED"]
  /\ task' = [task EXCEPT ![k] = IF Zlm THEN "close" ELSE "done"]

\* A final response that finds no waiting INVITE transaction is dropped, so it
\* is left out of net as soon as nobody waits for it.
Unawaited(k) == {Msg("OK", k), Msg("REJECT", k)}

\* No answer in time.  A device without a listener (reset is rebuilding them)
\* fails the same way at once.
InviteTimeout(k) ==
  /\ task[k] = "invite"
  /\ Fail(k)
  /\ net' = net \ Unawaited(k)
  /\ UNCHANGED <<objVars, storeVars, down, attached, dlg, rtp, resetVars>>

InviteRejected(k) ==
  /\ task[k] = "invite"
  /\ InFlight("REJECT", k)
  /\ net' = net \ {Msg("REJECT", k)}
  /\ Fail(k)
  /\ UNCHANGED <<objVars, storeVars, down, attached, dlg, rtp, resetVars>>

\* With ZLMediaKit: ACK, then openRtpServer.
AnsweredZlm(k) ==
  /\ Zlm
  /\ task[k] = "invite"
  /\ InFlight("OK", k)
  /\ net' = (net \ {Msg("OK", k)}) \union {Msg("ACK", k)}
  /\ task' = [task EXCEPT ![k] = "open"]
  /\ UNCHANGED <<objVars, state, storeVars, down, attached, dlg, rtp, resetVars>>

\* Mutation of AnsweredMock: a stop that overtook the answer goes unnoticed.
AnsweredMockUnchecked(k) ==
  /\ ~Zlm
  /\ task[k] = "invite"
  /\ InFlight("OK", k)
  /\ task' = [task EXCEPT ![k] = "done"]
  /\ attached' = attached \union {k}
  /\ net' = (net \ {Msg("OK", k)}) \union {Msg("ACK", k)}
  /\ UNCHANGED <<objVars, state, storeVars, down, dlg, rtp, resetVars>>

\* Without: ACK and attach, unless the stream was stopped meanwhile; then BYE.
AnsweredMock(k) ==
  /\ ~Zlm
  /\ task[k] = "invite"
  /\ InFlight("OK", k)
  /\ task' = [task EXCEPT ![k] = "done"]
  /\ \/ /\ state[k] = "STREAMING"
        /\ attached' = attached \union {k}
        /\ net' = (net \ {Msg("OK", k)}) \union {Msg("ACK", k)}
     \/ /\ state[k] # "STREAMING"
        /\ net' = (net \ {Msg("OK", k)}) \union {Msg("ACK", k), Msg("BYE", k)}
        /\ UNCHANGED attached
  /\ UNCHANGED <<objVars, state, storeVars, down, dlg, rtp, resetVars>>

\* ZLMediaKit refuses a stream id that already has a server.
OpenSucceeds(k) ==
  /\ task[k] = "open"
  /\ rtp \cap SameId(k) = {}
  /\ rtp' = rtp \union {k}
  /\ task' = [task EXCEPT ![k] = "online"]
  /\ UNCHANGED <<objVars, state, storeVars, down, attached, dlg, net, resetVars>>

\* ZlmError from openRtpServer: refused, or failed with or without effect.
OpenFails(k) ==
  /\ task[k] = "open"
  /\ \/ /\ rtp \cap SameId(k) # {}
        /\ UNCHANGED rtp
     \/ /\ ZlmFaults
        /\ rtp \cap SameId(k) = {}
        /\ rtp' \in {rtp, rtp \union {k}}
  /\ Fail(k)
  /\ UNCHANGED <<objVars, storeVars, down, attached, dlg, net, resetVars>>

\* Mutation of MediaArrives: an open server counts as media.
MediaArrivesByServer(k) == rtp \cap SameId(k) # {}

\* isMediaOnline is true when the server of this stream id receives the media
\* of an established call.
MediaArrives(k) == \E j \in rtp \cap SameId(k) : dlg[j] = "ESTABLISHED"

\* The state is overwritten without a look at it, and the dialog is attached.
MediaOnline(k) ==
  /\ task[k] = "online"
  /\ MediaArrives(k)
  /\ state' = [state EXCEPT ![k] = "STREAMING"]
  /\ attached' = attached \union {k}
  /\ task' = [task EXCEPT ![k] = "done"]
  /\ UNCHANGED <<objVars, storeVars, down, dlg, net, rtp, resetVars>>

\* No media before the deadline, or ZlmError from isMediaOnline.
NoMedia(k) ==
  /\ task[k] = "online"
  /\ Fail(k)
  /\ UNCHANGED <<objVars, storeVars, down, attached, dlg, net, rtp, resetVars>>

\* closeRtpServer by stream id; it may fail, and then nothing is retried.
CloseRtp(k) ==
  \/ rtp' = rtp \ SameId(k)
  \/ ZlmFaults /\ UNCHANGED rtp

\* The finally clause of the coroutine.
FinallyClose(k) ==
  /\ task[k] = "close"
  /\ CloseRtp(k)
  /\ task' = [task EXCEPT ![k] = "done"]
  /\ UNCHANGED <<objVars, state, storeVars, down, attached, dlg, net, resetVars>>

-----------------------------------------------------------------------------
(* Stop and its teardown task. *)

\* Mutation of DropActive: the channel is freed whichever stream it indexes.
DropActiveAnyKey(k) ==
  active' = IF req[k].kind = "live" THEN [active EXCEPT ![req[k].channel] = NoKey]
            ELSE active

\* The index entry of the channel goes, if it is this stream's.
DropActive(k) ==
  active' = IF req[k].kind = "live" /\ active[req[k].channel] = k
              THEN [active EXCEPT ![req[k].channel] = NoKey]
              ELSE active

\* The teardown task exists only if the dialog was attached by now.
Stop(k) ==
  /\ k \in stored
  /\ stored' = stored \ {k}
  /\ state' = [state EXCEPT ![k] = "STOPPED"]
  /\ DropActive(k)
  /\ attached' = attached \ {k}
  /\ down' = [down EXCEPT ![k] = IF k \notin attached THEN "none"
                                 ELSE IF Zlm THEN "close" ELSE "bye"]
  /\ UNCHANGED <<objVars, idem, eventSeq, task, dlg, net, rtp, resetVars>>

\* Mutation of TeardownClose: an error of closeRtpServer is not suppressed.
TeardownCloseRaises(k) ==
  /\ down[k] = "close"
  /\ \/ rtp' = rtp \ SameId(k) /\ down' = [down EXCEPT ![k] = "bye"]
     \/ ZlmFaults /\ UNCHANGED rtp /\ down' = [down EXCEPT ![k] = "none"]
  /\ UNCHANGED <<objVars, state, storeVars, task, attached, dlg, net, resetVars>>

\* With ZLMediaKit: closeRtpServer, its error suppressed.
TeardownClose(k) ==
  /\ down[k] = "close"
  /\ CloseRtp(k)
  /\ down' = [down EXCEPT ![k] = "bye"]
  /\ UNCHANGED <<objVars, state, storeVars, task, attached, dlg, net, resetVars>>

\* The answer to the BYE changes nothing, whether it comes or not.
TeardownBye(k) ==
  /\ down[k] = "bye"
  /\ down' = [down EXCEPT ![k] = "none"]
  /\ net' = net \union {Msg("BYE", k)}
  /\ UNCHANGED <<objVars, state, storeVars, task, attached, dlg, rtp, resetVars>>

Teardown(k) == TeardownClose(k) \/ TeardownBye(k)

-----------------------------------------------------------------------------
(* The device's side of a call.  The control plane may rearrange the answer  *)
(* mode (normal, delayed, rejection, drop, no-ack) between any two messages, *)
(* so each handler reads an arbitrary mode; a delayed answer is an INVITE    *)
(* that stays in flight.                                                     *)

Reply(type, k) == IF task[k] = "invite" THEN {Msg(type, k)} ELSE {}

DeviceAnswers(k) ==
  /\ InFlight("INVITE", k)
  /\ dlg' = [dlg EXCEPT ![k] = "WAITING_ACK"]
  /\ net' = (net \ {Msg("INVITE", k)}) \union Reply("OK", k)
  /\ UNCHANGED <<objVars, state, storeVars, task, down, attached, rtp, resetVars>>

DeviceRejects(k) ==
  /\ InFlight("INVITE", k)
  /\ net' = (net \ {Msg("INVITE", k)}) \union Reply("REJECT", k)
  /\ UNCHANGED <<objVars, state, storeVars, task, down, attached, dlg, rtp, resetVars>>

DeviceIgnores(k) ==
  /\ InFlight("INVITE", k)
  /\ net' = net \ {Msg("INVITE", k)}
  /\ UNCHANGED <<objVars, state, storeVars, task, down, attached, dlg, rtp, resetVars>>

\* An ACK counts only for a dialog that waits for it, and not in mode no-ack.
DeviceAck(k) ==
  /\ InFlight("ACK", k)
  /\ net' = net \ {Msg("ACK", k)}
  /\ \/ /\ dlg[k] = "WAITING_ACK"
        /\ dlg' = [dlg EXCEPT ![k] = "ESTABLISHED"]
     \/ UNCHANGED dlg
  /\ UNCHANGED <<objVars, state, storeVars, task, down, attached, rtp, resetVars>>

\* The timer is armed if the mode was no-ack when the call was answered.
AckTimeout(k) ==
  /\ dlg[k] = "WAITING_ACK"
  /\ dlg' = [dlg EXCEPT ![k] = "FAILED"]
  /\ UNCHANGED <<objVars, state, storeVars, task, down, attached, net, rtp, resetVars>>

DeviceBye(k) ==
  /\ InFlight("BYE", k)
  /\ net' = net \ {Msg("BYE", k)}
  /\ dlg' = [dlg EXCEPT ![k] = IF @ = "NONE" THEN @ ELSE "TERMINATED"]
  /\ UNCHANGED <<objVars, state, storeVars, task, down, attached, rtp, resetVars>>

Lose(m) ==
  /\ Lossy
  /\ m \in net
  /\ net' = net \ {m}
  /\ UNCHANGED <<objVars, state, storeVars, task, down, attached, dlg, rtp, resetVars>>

-----------------------------------------------------------------------------
(* POST /testkit/v1/reset.  The worker's lock admits one reset at a time; the *)
(* handler awaits the new listeners between its two halves, and each          *)
(* closeRtpServer after them, while every other handler keeps running.        *)

\* service.reset and simulator.reset.  _active_live_by_channel is not cleared.
\* The device's sockets close, so what was on the way to it is gone, but a
\* delayed answer (its handler sleeps on) may still be sent.
ServiceReset ==
  /\ Resets
  /\ resetPc = "idle"
  /\ resetPc' = "rebuilding"
  /\ toClose' = IF Zlm THEN stored ELSE {}
  /\ stored' = {}
  /\ idem' = [i \in IdemKey |-> NoEntry]
  /\ eventSeq' = 0
  /\ attached' = {}
  /\ dlg' = [k \in Key |-> "NONE"]
  /\ \E late \in SUBSET {k \in Key : InFlight("INVITE", k) /\ task[k] = "invite"} :
        net' = {m \in net : m.type \notin ToDevice} \union {Msg("OK", k) : k \in late}
  /\ UNCHANGED <<objVars, state, active, task, down, rtp>>

\* registrar.reset cancels the pending INVITE transactions.  CancelledError is
\* no exception the coroutine handles: only its finally clause runs.  This is so
\* over UDP.  An INVITE over TCP is not among _uac_sessions and goes on; if the
\* device's server closes the connection, ConnectionResetError ends the coroutine
\* in the same way, as it is not handled either.
AfterCancel(k) == IF Zlm /\ state[k] # "STREAMING" THEN "close" ELSE "done"

RegistrarReset ==
  /\ resetPc = "rebuilding"
  /\ task' = [k \in Key |-> IF task[k] = "invite" THEN AfterCancel(k) ELSE task[k]]
  /\ net' = {m \in net : m.type \in ToDevice}
  /\ resetPc' = IF toClose = {} THEN "idle" ELSE "closing"
  /\ UNCHANGED <<objVars, state, storeVars, down, attached, dlg, rtp, toClose>>

CloseLeftover(k) ==
  /\ resetPc = "closing"
  /\ k \in toClose
  /\ CloseRtp(k)
  /\ toClose' = toClose \ {k}
  /\ resetPc' = IF toClose = {k} THEN "idle" ELSE "closing"
  /\ UNCHANGED <<objVars, state, storeVars, task, down, attached, dlg, net>>

-----------------------------------------------------------------------------

Establish(k) ==
  \/ InviteTimeout(k) \/ InviteRejected(k) \/ AnsweredZlm(k) \/ AnsweredMock(k)
  \/ OpenSucceeds(k) \/ OpenFails(k) \/ MediaOnline(k) \/ NoMedia(k) \/ FinallyClose(k)

DeviceReceives(k) ==
  DeviceAnswers(k) \/ DeviceRejects(k) \/ DeviceIgnores(k) \/ DeviceAck(k) \/ DeviceBye(k)

Client ==
  \/ \E i \in IdemKey, c \in Channel :
       \/ "live" \in Kind /\ (ReuseLive(i, c) \/ RefuseLive(i, c))
       \/ \E k \in Key : \/ "live" \in Kind /\ StartLive(i, c, k)
                         \/ "playback" \in Kind /\ StartPlayback(i, c, k)
  \/ \E k \in Key : Stop(k)

Reset == ServiceReset \/ RegistrarReset \/ \E k \in Key : CloseLeftover(k)

Next ==
  \/ Client
  \/ \E k \in Key : Establish(k) \/ Teardown(k) \/ DeviceReceives(k) \/ AckTimeout(k)
  \/ \E m \in net : Lose(m)
  \/ Reset

Spec == Init /\ [][Next]_vars

\* Every await of a coroutine is bounded by a timeout, and the loop runs every
\* task that is ready; the device handles what reaches it.
FairSpec ==
  /\ Spec
  /\ \A k \in Key : /\ WF_vars(Establish(k))
                    /\ WF_vars(Teardown(k))
                    /\ WF_vars(DeviceReceives(k))

-----------------------------------------------------------------------------
(* Properties. *)

\* The variables keep their types; and the index of a channel, which no reset
\* clears, names only live streams of that channel.
TypeOK ==
  /\ req \in [Key -> Request \union {NoRequest}]
  /\ by \in [Key -> IdemKey \union {NoKey}]
  /\ rev \in [Key -> Nat]
  /\ state \in [Key -> {"NONE", "STARTING", "STREAMING", "FAILED", "STOPPED"}]
  /\ stored \in SUBSET Key
  /\ active \in [Channel -> Key \union {NoKey}]
  /\ \A c \in Channel : active[c] # NoKey => req[active[c]] = LiveRequest(c)
  /\ idem \in [IdemKey -> Entry \union {NoEntry}]
  /\ eventSeq \in Nat
  /\ task \in [Key -> {"none", "invite", "open", "online", "close", "done"}]
  /\ down \in [Key -> {"none", "close", "bye"}]
  /\ attached \in SUBSET Key
  /\ dlg \in [Key -> {"NONE", "WAITING_ACK", "ESTABLISHED", "TERMINATED", "FAILED"}]
  /\ net \in SUBSET Message
  /\ rtp \in SUBSET Key
  /\ resetPc \in {"idle", "rebuilding", "closing"}
  /\ toClose \in SUBSET Key

\* The index of live streams never loses an active one, whatever stops,
\* failures and resets happen in between: every live stream of the store that
\* is starting or streaming is the one start_live_stream would hand out for
\* its channel (so no channel ever has two).
ActiveLiveIndexed ==
  \A k \in Key :
    Active(k) /\ req[k].kind = "live" => active[req[k].channel] = k

\* A start request repeated with its idempotency key is answered with the very
\* stream it created, as long as that stream is active; no sequence of other
\* requests, stops and failures redirects the entry.
RetryFindsItsStream ==
  \A k \in Key : Active(k) => idem[by[k]] = [req |-> req[k], ref |-> k]

\* Someone who will send BYE: the store still lists the stream with its dialog,
\* a teardown task or a BYE is under way, or the coroutine has yet to attach it.
Owned(k) ==
  \/ k \in attached \cap stored
  \/ down[k] # "none"
  \/ InFlight("BYE", k)
  \/ task[k] \in {"open", "online"}

\* Every session established on a device has an owner that will end it: a stop
\* that overtakes the INVITE, a stop after the answer, a failure and a reset
\* leave no call behind on the device.
NoAbandonedSession == \A k \in Key : dlg[k] = "ESTABLISHED" => Owned(k)

\* The live client keeps a dialog only for a stream of the store: after stop
\* nothing is attached under the stopped key.
DialogsAreOfStoredStreams == attached \subseteq stored

\* With ZLMediaKit a stream that the store reports as STREAMING is served: its
\* own call is established on the device and its own RTP server is open, from
\* the moment media was seen until stop.
StreamingIsServed ==
  Zlm => \A k \in stored : state[k] = "STREAMING" => dlg[k] = "ESTABLISHED" /\ k \in rtp

\* Every establish coroutine ends, and it leaves its stream in a final state: no
\* stream of the store is STARTING for good.
IsStarting(k) == k \in stored /\ state[k] = "STARTING"
StartingConverges == \A k \in Key : IsStarting(k) ~> ~IsStarting(k)

\* A session handed to the teardown task ends on the device: stop always gets
\* its BYE through, whatever the ACK and the ZLMediaKit calls do.  This is said of
\* a network without loss, where the BYE arrives, and without resets.
TornDownCallEnds == \A k \in Key : down[k] # "none" ~> dlg[k] \notin {"WAITING_ACK", "ESTABLISHED"}

\* The store implements the contract clients rely on.
View(k) == IF state[k] = "NONE" THEN "UNKNOWN"
           ELSE IF k \in stored THEN state[k] ELSE "GONE"
Contract == INSTANCE StreamContract
              WITH Exclusive <- {r \in Request : r.kind = "live"}, Optimistic <- ~Zlm,
                   view <- [k \in Key |-> View(k)]
ImplementsContract == Contract!CSpec
=============================================================================
