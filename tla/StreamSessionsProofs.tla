------------------------ MODULE StreamSessionsProofs ------------------------
(***************************************************************************)
(* Proofs about StreamSessions, for every number of streams, channels and  *)
(* idempotency keys, with and without ZLMediaKit, faults, losses and       *)
(* resets.                                                                 *)
(***************************************************************************)
EXTENDS StreamSessions, TLAPS

\* What a handler sends is a message.
LEMMA MsgType ==
  ASSUME NEW k \in Key, NEW t \in {"INVITE", "OK", "REJECT", "ACK", "BYE"}
  PROVE  Msg(t, k) \in Message
BY DEF Msg, Message

\* The types of TypeOK, without what the index names.
Types ==
  /\ req \in [Key -> Request \union {NoRequest}]
  /\ by \in [Key -> IdemKey \union {NoKey}]
  /\ rev \in [Key -> Nat]
  /\ state \in [Key -> {"NONE", "STARTING", "STREAMING", "FAILED", "STOPPED"}]
  /\ stored \in SUBSET Key
  /\ active \in [Channel -> Key \union {NoKey}]
  /\ idem \in [IdemKey -> Entry \union {NoEntry}]
  /\ eventSeq \in Nat
  /\ task \in [Key -> {"none", "invite", "open", "online", "close", "done"}]
  /\ down \in [Key -> {"none", "close", "bye"}]
  /\ attached \in SUBSET Key
  /\ dlg \in [Key -> {"NONE", "WAITING_ACK", "ESTABLISHED", "TERMINATED", "FAILED"}]
  /\ net \in SUBSET Message
  /\ rtp \in SUBSET Key
  /\ resetPc \in {"idle", "rebuilding", "closing"}
  /\ toClose \in SUBSET Key

\* Whatever is started, stopped, answered, lost and reset, every variable keeps
\* its type.
LEMMA TypesHold == Spec => []Types
<1>1. Init => Types
  BY ConstantsOK DEF Init, Types, Request, Entry
<1>2. Types /\ [Next]_vars => Types'
  <2> SUFFICES ASSUME Types, [Next]_vars PROVE Types'
    OBVIOUS
  <2> USE DEF Types, objVars, storeVars, resetVars
  <2>1. ASSUME NEW i \in IdemKey, NEW r \in Request, NEW k \in Key, CreateStream(i, r, k),
               active' \in [Channel -> Key \union {NoKey}]
        PROVE  Types'
    <3>1. idem' \in [IdemKey -> Entry \union {NoEntry}]
      BY <2>1 DEF CreateStream, Entry
    <3>2. net' \in SUBSET Message
      BY <2>1, MsgType DEF CreateStream
    <3> QED BY <2>1, <3>1, <3>2 DEF CreateStream
  <2>2. ASSUME NEW i \in IdemKey, NEW c \in Channel, "live" \in Kind,
               ReuseLive(i, c) \/ RefuseLive(i, c) \/ \E k \in Key : StartLive(i, c, k)
        PROVE  Types'
    <3>1. LiveRequest(c) \in Request
      BY <2>2 DEF LiveRequest, Request
    <3>2. CASE ReuseLive(i, c)
      BY <3>1, <3>2 DEF ReuseLive, Entry
    <3>3. CASE RefuseLive(i, c)
      BY <3>1, <3>3 DEF RefuseLive, Entry
    <3>4. CASE \E k \in Key : StartLive(i, c, k)
      BY <3>1, <3>4, <2>1 DEF StartLive
    <3> QED BY <2>2, <3>2, <3>3, <3>4
  <2>3. ASSUME NEW i \in IdemKey, NEW c \in Channel, NEW k \in Key,
               "playback" \in Kind, StartPlayback(i, c, k)
        PROVE  Types'
    <3>1. PlaybackRequest(c) \in Request
      BY <2>3 DEF PlaybackRequest, Request
    <3> QED BY <3>1, <2>1, <2>3 DEF StartPlayback
  <2>4. ASSUME NEW k \in Key, Stop(k) PROVE Types'
    <3>1. active' \in [Channel -> Key \union {NoKey}]
      BY <2>4 DEF Stop, DropActive
    <3> QED BY <2>4, <3>1 DEF Stop
  <2>5. ASSUME NEW k \in Key, Establish(k) PROVE Types'
    <3>1. CASE InviteTimeout(k) \/ InviteRejected(k)
      BY <3>1 DEF InviteTimeout, InviteRejected, Fail
    <3>2. CASE AnsweredZlm(k) \/ AnsweredMock(k)
      BY <3>2, MsgType DEF AnsweredZlm, AnsweredMock
    <3>3. CASE OpenSucceeds(k)
      BY <3>3 DEF OpenSucceeds
    <3>4. CASE OpenFails(k)
      BY <3>4 DEF OpenFails, Fail
    <3>5. CASE MediaOnline(k) \/ NoMedia(k)
      BY <3>5 DEF MediaOnline, NoMedia, Fail
    <3>6. CASE FinallyClose(k)
      BY <3>6 DEF FinallyClose, CloseRtp
    <3> QED BY <2>5, <3>1, <3>2, <3>3, <3>4, <3>5, <3>6 DEF Establish
  <2>6. ASSUME NEW k \in Key, Teardown(k) PROVE Types'
    BY <2>6, MsgType DEF Teardown, TeardownClose, TeardownBye, CloseRtp
  <2>7. ASSUME NEW k \in Key, DeviceReceives(k) PROVE Types'
    <3>1. Reply("OK", k) \subseteq Message /\ Reply("REJECT", k) \subseteq Message
      BY MsgType DEF Reply
    <3> QED BY <2>7, <3>1 DEF DeviceReceives, DeviceAnswers, DeviceRejects,
                              DeviceIgnores, DeviceAck, DeviceBye
  <2>8. ASSUME NEW k \in Key, AckTimeout(k) PROVE Types'
    BY <2>8 DEF AckTimeout
  <2>9. ASSUME NEW m \in net, Lose(m) PROVE Types'
    BY <2>9 DEF Lose
  <2>10. CASE ServiceReset
    <3>1. net' \in SUBSET Message
      <4>1. PICK late \in SUBSET Key :
              net' = {m \in net : m.type \notin ToDevice} \union {Msg("OK", k) : k \in late}
        BY <2>10 DEF ServiceReset
      <4> QED BY <4>1, MsgType
    <3> QED BY <2>10, <3>1 DEF ServiceReset
  <2>11. CASE RegistrarReset
    BY <2>11 DEF RegistrarReset, AfterCancel
  <2>12. ASSUME NEW k \in Key, CloseLeftover(k) PROVE Types'
    BY <2>12 DEF CloseLeftover, CloseRtp
  <2>13. CASE UNCHANGED vars
    BY <2>13 DEF vars
  <2> QED
    BY <2>2, <2>3, <2>4, <2>5, <2>6, <2>7, <2>8, <2>9, <2>10, <2>11, <2>12, <2>13
    DEF Next, Client, Reset
<1> QED BY <1>1, <1>2, PTL DEF Spec

\* The index names streams that were created, as live streams of the channel.
IndexNamesLive ==
  \A c \in Channel : active[c] # NoKey =>
    req[active[c]] = LiveRequest(c) /\ state[active[c]] # "NONE"

\* A step that creates no stream, indexes none and resets no state.
LEMMA NoCreationKeepsNames ==
  ASSUME Types, IndexNamesLive, UNCHANGED req,
         \A c \in Channel : active'[c] \in {active[c], NoKey},
         \A k \in Key : state'[k] = "NONE" => state[k] = "NONE"
  PROVE  IndexNamesLive'
<1> SUFFICES ASSUME NEW c \in Channel, active'[c] # NoKey
             PROVE  req'[active'[c]] = LiveRequest(c) /\ state'[active'[c]] # "NONE"
  BY DEF IndexNamesLive, LiveRequest
<1>1. active'[c] = active[c] /\ active[c] \in Key
  BY DEF Types
<1> QED BY <1>1 DEF IndexNamesLive

\* A stream that is created was never indexed before.
LEMMA CreationKeepsNames ==
  ASSUME Types, IndexNamesLive, NEW i \in IdemKey, NEW r \in Request, NEW k \in Key,
         CreateStream(i, r, k),
         \A c \in Channel : active'[c] = active[c]
                            \/ (active'[c] = k /\ r = LiveRequest(c))
  PROVE  IndexNamesLive'
<1>1. /\ state[k] = "NONE" /\ req' = [req EXCEPT ![k] = r]
      /\ state' = [state EXCEPT ![k] = IF Zlm THEN "STARTING" ELSE "STREAMING"]
  BY DEF CreateStream
<1>2. req'[k] = r /\ state'[k] # "NONE"
  BY <1>1 DEF Types
<1>3. \A j \in Key : j # k => req'[j] = req[j] /\ state'[j] = state[j]
  BY <1>1 DEF Types
<1> SUFFICES ASSUME NEW c \in Channel, active'[c] # NoKey
             PROVE  req'[active'[c]] = LiveRequest(c) /\ state'[active'[c]] # "NONE"
  BY DEF IndexNamesLive, LiveRequest
<1>4. CASE active'[c] = active[c]
  <2>1. active[c] \in Key /\ active[c] # k
    BY <1>1, <1>4 DEF Types, IndexNamesLive
  <2> QED BY <1>3, <1>4, <2>1 DEF IndexNamesLive
<1>5. CASE active'[c] = k /\ r = LiveRequest(c)
  BY <1>2, <1>5
<1> QED BY <1>4, <1>5

\* Type correctness: whatever is started, stopped, answered, lost and reset,
\* every variable keeps its type, and _active_live_by_channel, which a reset does
\* not clear, never names anything but a live stream of its channel.
THEOREM TypeCorrect == Spec => []TypeOK
<1>1. Init => IndexNamesLive
  BY DEF Init, IndexNamesLive
<1>2. Types /\ IndexNamesLive /\ [Next]_vars => IndexNamesLive'
  <2> SUFFICES ASSUME Types, IndexNamesLive, [Next]_vars PROVE IndexNamesLive'
    OBVIOUS
  <2>1. ASSUME UNCHANGED <<req, active>>,
               \A k \in Key : state'[k] = "NONE" => state[k] = "NONE"
        PROVE  IndexNamesLive'
    BY <2>1, NoCreationKeepsNames
  <2>2. ASSUME NEW i \in IdemKey, NEW c \in Channel, NEW k \in Key, "live" \in Kind,
               StartLive(i, c, k)
        PROVE  IndexNamesLive'
    <3>1. LiveRequest(c) \in Request
      BY <2>2 DEF LiveRequest, Request
    <3>2. \A e \in Channel : active'[e] = active[e] \/ (active'[e] = k /\ e = c)
      BY <2>2 DEF StartLive, Types
    <3> QED BY <2>2, <3>1, <3>2, CreationKeepsNames DEF StartLive
  <2>3. ASSUME NEW i \in IdemKey, NEW c \in Channel, NEW k \in Key, "playback" \in Kind,
               StartPlayback(i, c, k)
        PROVE  IndexNamesLive'
    <3>1. PlaybackRequest(c) \in Request
      BY <2>3 DEF PlaybackRequest, Request
    <3> QED BY <2>3, <3>1, CreationKeepsNames DEF StartPlayback
  <2>4. ASSUME NEW i \in IdemKey, NEW c \in Channel, ReuseLive(i, c) \/ RefuseLive(i, c)
        PROVE  IndexNamesLive'
    BY <2>1, <2>4 DEF ReuseLive, RefuseLive, objVars
  <2>5. ASSUME NEW k \in Key, Stop(k) PROVE IndexNamesLive'
    <3>1. \A c \in Channel : active'[c] \in {active[c], NoKey}
      BY <2>5 DEF Stop, DropActive, Types
    <3>2. UNCHANGED req /\ \A j \in Key : state'[j] = "NONE" => state[j] = "NONE"
      BY <2>5 DEF Stop, Types, objVars
    <3> QED BY <3>1, <3>2, NoCreationKeepsNames
  <2>6. ASSUME NEW k \in Key, Establish(k) PROVE IndexNamesLive'
    <3>1. UNCHANGED <<req, active>>
      BY <2>6 DEF Establish, InviteTimeout, InviteRejected, AnsweredZlm, AnsweredMock,
                  OpenSucceeds, OpenFails, MediaOnline, NoMedia, FinallyClose, objVars,
                  storeVars
    <3>2. \/ UNCHANGED state \/ state' = [state EXCEPT ![k] = "FAILED"]
          \/ state' = [state EXCEPT ![k] = "STREAMING"]
      BY <2>6 DEF Establish, InviteTimeout, InviteRejected, AnsweredZlm, AnsweredMock,
                  OpenSucceeds, OpenFails, MediaOnline, NoMedia, FinallyClose, Fail
    <3>3. \A j \in Key : state'[j] = "NONE" => state[j] = "NONE"
      BY <3>2 DEF Types
    <3> QED BY <2>1, <3>1, <3>3
  <2>7. ASSUME NEW k \in Key, Teardown(k) \/ DeviceReceives(k) \/ AckTimeout(k)
                             \/ CloseLeftover(k)
        PROVE  IndexNamesLive'
    BY <2>1, <2>7 DEF Teardown, TeardownClose, TeardownBye, DeviceReceives, DeviceAnswers,
                      DeviceRejects, DeviceIgnores, DeviceAck, DeviceBye, AckTimeout,
                      CloseLeftover, objVars, storeVars
  <2>8. ASSUME NEW m \in net, Lose(m) PROVE IndexNamesLive'
    BY <2>1, <2>8 DEF Lose, objVars, storeVars
  <2>9. CASE ServiceReset \/ RegistrarReset \/ UNCHANGED vars
    BY <2>1, <2>9 DEF ServiceReset, RegistrarReset, vars, objVars, storeVars
  <2> QED BY <2>2, <2>3, <2>4, <2>5, <2>6, <2>7, <2>8, <2>9 DEF Next, Client, Reset
<1>3. Types /\ IndexNamesLive => TypeOK
  BY DEF Types, IndexNamesLive, TypeOK
<1> QED BY <1>1, <1>2, <1>3, TypesHold, PTL DEF Spec

-----------------------------------------------------------------------------
(* The index of live streams and the idempotency entries. *)

\* Where a coroutine still has to say how its stream ends.
Undecided == {"invite", "open", "online"}

\* The state a stream is created in.
CreatedState == IF Zlm THEN "STARTING" ELSE "STREAMING"

\* ActiveLiveIndexed and RetryFindsItsStream are not inductive: MediaOnline and
\* Fail overwrite the state of whatever stream they belong to.  They are safe
\* because a stream of the store whose coroutine is undecided is as it was
\* created, so that only active streams become STREAMING.
IndexInv ==
  /\ \A k \in Key : task[k] \in Undecided => state[k] # "NONE"
  /\ \A k \in stored : /\ state[k] \in {"STARTING", "STREAMING", "FAILED"}
                       /\ req[k] \in Request
                       /\ by[k] \in IdemKey
                       /\ task[k] \in Undecided => state[k] = CreatedState
  /\ ActiveLiveIndexed
  /\ RetryFindsItsStream

\* A new stream keeps the invariant, provided its channel is free if it is live.
LEMMA CreateStreamKeepsIndex ==
  ASSUME TypeOK, IndexInv,
         NEW i \in IdemKey, NEW r \in Request, NEW k \in Key,
         CreateStream(i, r, k), ~Replays(i),
         \/ /\ r.kind = "live"
            /\ ~ActiveLive(r.channel)
            /\ active' = [active EXCEPT ![r.channel] = k]
         \/ r.kind # "live" /\ active' = active
  PROVE  IndexInv'
<1> USE DEF TypeOK, CreateStream, IndexInv, ACTIVE_STATES, Undecided, CreatedState
<1>1. k \notin stored
  OBVIOUS
<1>2. r.channel \in Channel
  BY DEF Request
<1>3. ASSUME NEW j \in Key, j # k PROVE Active(j)' <=> Active(j)
  BY <1>3 DEF Active
<1>4. ActiveLiveIndexed'
  <2> SUFFICES ASSUME NEW j \in Key, Active(j)', req'[j].kind = "live"
               PROVE  active'[req'[j].channel] = j
    BY DEF ActiveLiveIndexed
  <2>1. CASE j = k
    BY <2>1, <1>2
  <2>2. CASE j # k
    <3>1. Active(j) /\ req[j].kind = "live" /\ active[req[j].channel] = j
      BY <1>3, <2>2 DEF ActiveLiveIndexed
    <3>2. active[r.channel] = j => ActiveLive(r.channel)
      BY <3>1, ConstantsOK DEF ActiveLive
    <3>3. req'[j] = req[j] /\ req[j].channel \in Channel
      BY <2>2, <3>1 DEF Active, Request
    <3>4. req[j].channel # r.channel \/ r.kind # "live"
      BY <3>1, <3>2
    <3> HIDE DEF CreateStream, IndexInv
    <3> QED BY <3>1, <3>3, <3>4, <1>2
  <2> QED BY <2>1, <2>2
<1>5. RetryFindsItsStream'
  <2> SUFFICES ASSUME NEW j \in Key, Active(j)'
               PROVE  idem'[by'[j]] = [req |-> req'[j], ref |-> j]
    BY DEF RetryFindsItsStream
  <2>1. CASE j = k
    BY <2>1
  <2>2. CASE j # k
    <3>1. Active(j) /\ idem[by[j]] = [req |-> req[j], ref |-> j]
      BY <1>3, <2>2 DEF RetryFindsItsStream
    <3>2. [req |-> req[j], ref |-> j] \in Entry
      BY <3>1 DEF Active, Entry
    <3>3. by[j] # i
      BY <3>1, <3>2, ConstantsOK DEF Replays
    <3> QED BY <2>2, <3>1, <3>3
  <2> QED BY <2>1, <2>2
<1>6. \A j \in stored' : /\ state'[j] \in {"STARTING", "STREAMING", "FAILED"}
                         /\ req'[j] \in Request
                         /\ by'[j] \in IdemKey
                         /\ task'[j] \in Undecided => state'[j] = CreatedState
  OBVIOUS
<1>7. \A j \in Key : task'[j] \in Undecided => state'[j] # "NONE"
  OBVIOUS
<1> QED BY <1>4, <1>5, <1>6, <1>7

\* A step that leaves the store, its index and the stream objects alone, and
\* lets no stream become active, keeps the invariant.
LEMMA NoActivationKeepsIndex ==
  ASSUME TypeOK, IndexInv, UNCHANGED <<req, by, stored, active, idem>>,
         \A k \in Key : k \in stored /\ state'[k] \in ACTIVE_STATES => state[k] \in ACTIVE_STATES,
         \A k \in Key : state'[k] = state[k] \/ state'[k] \in {"STREAMING", "FAILED"},
         \A k \in Key : task'[k] \in Undecided =>
                           task[k] \in Undecided /\ state'[k] = state[k]
  PROVE  IndexInv'
<1>1. \A k \in Key : Active(k)' => Active(k)
  BY DEF Active, TypeOK
<1>2. ActiveLiveIndexed' /\ RetryFindsItsStream'
  BY <1>1 DEF IndexInv, ActiveLiveIndexed, RetryFindsItsStream
<1> QED BY <1>2 DEF IndexInv, TypeOK

\* The inductive invariant of the store: creation keeps the channel's index and the
\* key's entry in step, stop frees only its own index entry, and no answer,
\* failure or reset makes a stream active again.
THEOREM IndexInvariant == Spec => []IndexInv
<1>1. Init => IndexInv
  BY DEF Init, IndexInv, ActiveLiveIndexed, RetryFindsItsStream, Active, Undecided
<1>2. TypeOK /\ IndexInv /\ [Next]_vars => IndexInv'
  <2> SUFFICES ASSUME TypeOK, IndexInv, [Next]_vars PROVE IndexInv'
    OBVIOUS
  <2> USE DEF objVars, storeVars, resetVars
  <2>1. ASSUME NEW i \in IdemKey, NEW c \in Channel, "live" \in Kind,
               NEW k \in Key, StartLive(i, c, k)
        PROVE  IndexInv'
    <3>1. LiveRequest(c) \in Request /\ LiveRequest(c).kind = "live" /\ LiveRequest(c).channel = c
      BY <2>1 DEF LiveRequest, Request
    <3> QED BY <3>1, <2>1, CreateStreamKeepsIndex DEF StartLive
  <2>2. ASSUME NEW i \in IdemKey, NEW c \in Channel, "playback" \in Kind,
               NEW k \in Key, StartPlayback(i, c, k)
        PROVE  IndexInv'
    <3>1. PlaybackRequest(c) \in Request /\ PlaybackRequest(c).kind # "live"
      BY <2>2 DEF PlaybackRequest, Request
    <3> QED BY <3>1, <2>2, CreateStreamKeepsIndex DEF StartPlayback
  <2>3. ASSUME NEW i \in IdemKey, NEW c \in Channel, ReuseLive(i, c) \/ RefuseLive(i, c)
        PROVE  IndexInv'
    <3>1. \A k \in Key : Active(k) => by[k] # i
      <4> SUFFICES ASSUME NEW k \in Key, Active(k), by[k] = i PROVE FALSE
        OBVIOUS
      <4>1. idem[i] = [req |-> req[k], ref |-> k] /\ req[k] \in Request
        BY DEF IndexInv, RetryFindsItsStream, Active
      <4>2. idem[i] # NoEntry
        BY <4>1, ConstantsOK DEF Entry
      <4>3. Replays(i)
        BY <4>1, <4>2, ConstantsOK DEF Replays
      <4> QED BY <2>3, <4>2, <4>3 DEF ReuseLive, RefuseLive
    <3>2. UNCHANGED <<req, by, state, stored, active, task>>
      BY <2>3 DEF ReuseLive, RefuseLive
    <3>3. \A j \in IdemKey : j # i => idem'[j] = idem[j]
      BY <2>3 DEF ReuseLive, RefuseLive, TypeOK
    <3>4. RetryFindsItsStream'
      BY <3>1, <3>2, <3>3 DEF IndexInv, RetryFindsItsStream, Active
    <3> QED BY <3>2, <3>4 DEF IndexInv, ActiveLiveIndexed, Active
  <2>4. ASSUME NEW k \in Key, Stop(k) PROVE IndexInv'
    <3>1. \A j \in Key : Active(j)' => Active(j) /\ j # k
      BY <2>4 DEF Stop, Active, TypeOK
    <3>2. \A j \in Key : j \in stored => req[j].channel \in Channel
      BY DEF IndexInv, Request
    <3>3. ActiveLiveIndexed'
      BY <2>4, <3>1, <3>2 DEF Stop, DropActive, IndexInv, ActiveLiveIndexed, Active, TypeOK
    <3>4. RetryFindsItsStream'
      BY <2>4, <3>1 DEF Stop, IndexInv, RetryFindsItsStream
    <3> QED BY <2>4, <3>3, <3>4 DEF Stop, IndexInv, TypeOK
  <2>5. ASSUME NEW k \in Key, Establish(k) PROVE IndexInv'
    <3> USE <2>5, NoActivationKeepsIndex DEF TypeOK, Undecided, CreatedState, ACTIVE_STATES, IndexInv
    <3>1. CASE InviteTimeout(k) \/ InviteRejected(k) \/ OpenFails(k) \/ NoMedia(k)
      BY <3>1 DEF InviteTimeout, InviteRejected, OpenFails, NoMedia, Fail
    <3>2. CASE AnsweredZlm(k) \/ AnsweredMock(k) \/ OpenSucceeds(k) \/ FinallyClose(k)
      BY <3>2 DEF AnsweredZlm, AnsweredMock, OpenSucceeds, FinallyClose
    <3>3. CASE MediaOnline(k)
      BY <3>3 DEF MediaOnline
    <3> QED BY <3>1, <3>2, <3>3 DEF Establish
  <2>6. ASSUME NEW k \in Key,
               Teardown(k) \/ DeviceReceives(k) \/ AckTimeout(k) \/ CloseLeftover(k)
        PROVE  IndexInv'
    <3>1. UNCHANGED <<req, by, stored, active, idem, state, task>>
      BY <2>6 DEF Teardown, TeardownClose, TeardownBye, DeviceReceives, DeviceAnswers, DeviceRejects, DeviceIgnores,
                  DeviceAck, DeviceBye, AckTimeout, CloseLeftover
    <3> QED BY <3>1, NoActivationKeepsIndex
  <2>7. ASSUME NEW m \in net, Lose(m) PROVE IndexInv'
    BY <2>7, NoActivationKeepsIndex DEF Lose
  <2>8. CASE ServiceReset
    BY <2>8 DEF ServiceReset, IndexInv, ActiveLiveIndexed, RetryFindsItsStream, Active
  <2>9. CASE RegistrarReset
    BY <2>9, NoActivationKeepsIndex DEF RegistrarReset, AfterCancel, Undecided, TypeOK
  <2>10. CASE UNCHANGED vars
    BY <2>10, NoActivationKeepsIndex DEF vars
  <2> QED
    BY <2>1, <2>2, <2>3, <2>4, <2>5, <2>6, <2>7, <2>8, <2>9, <2>10 DEF Next, Client, Reset
<1> QED BY <1>1, <1>2, TypeCorrect, PTL DEF Spec

\* Every active live stream is the one its channel's index names, after any
\* number of starts, stops, failures, answers after a stop and resets.
THEOREM LiveStreamsAreIndexed == Spec => []ActiveLiveIndexed
<1>1. IndexInv => ActiveLiveIndexed
  BY DEF IndexInv
<1> QED BY <1>1, IndexInvariant, PTL

\* A start request repeated with its key finds the stream it created for as long
\* as that stream is active.
THEOREM RetriesFindTheirStream == Spec => []RetryFindsItsStream
<1>1. IndexInv => RetryFindsItsStream
  BY DEF IndexInv
<1> QED BY <1>1, IndexInvariant, PTL

-----------------------------------------------------------------------------
(* The contract. *)

\* A start request that goes past the reuse check creates a stream no client has
\* seen, on a channel without an active live stream.
LEMMA CreateStreamIsStart ==
  ASSUME TypeOK, IndexInv, NEW i \in IdemKey, NEW r \in Request, NEW k \in Key,
         CreateStream(i, r, k),
         r.kind = "live" => ~ActiveLive(r.channel)
  PROVE  Contract!CStart(k, r)
<1>1. k \notin stored
  BY DEF CreateStream, IndexInv
<1>2. \A j \in Key : View(j)' = IF j = k THEN CreatedState ELSE View(j)
  BY <1>1 DEF CreateStream, View, TypeOK, CreatedState
<1>3. [j \in Key |-> View(j)]' = [[j \in Key |-> View(j)] EXCEPT ![k] = CreatedState]
  BY <1>2
<1>4. View(k) = "UNKNOWN"
  BY DEF CreateStream, View
<1>5. req' = [req EXCEPT ![k] = r]
  BY DEF CreateStream
<1>6. ASSUME NEW j \in Key, View(j) \in {"STARTING", "STREAMING"}, r.kind = "live", req[j] = r
      PROVE  FALSE
  <2>1. Active(j)
    BY <1>6 DEF View, Active, ACTIVE_STATES
  <2>2. active[r.channel] = j
    BY <2>1, <1>6 DEF IndexInv, ActiveLiveIndexed
  <2> QED BY <2>1, <2>2, <1>6, ConstantsOK DEF ActiveLive
<1> QED
  BY <1>3, <1>4, <1>5, <1>6 DEF Contract!CStart, Contract!IsActive, CreatedState

\* A step of one coroutine changes at most the view of its own stream, and only
\* from the state the stream was created in.
LEMMA EstablishIsContractStep ==
  ASSUME TypeOK, IndexInv, NEW k \in Key, Establish(k)
  PROVE  Contract!CStream(k) \/ Contract!CFail(k) \/ UNCHANGED Contract!cvars
<1>1. UNCHANGED <<req, stored>> /\ \A j \in Key : j # k => state'[j] = state[j]
  BY DEF Establish, InviteTimeout, InviteRejected, AnsweredZlm, AnsweredMock, OpenSucceeds,
         OpenFails, MediaOnline, NoMedia, FinallyClose, Fail, objVars, storeVars, TypeOK
<1>2. \/ state' = state
      \/ task[k] \in Undecided /\ state'[k] \in {"STREAMING", "FAILED"}
  BY DEF Establish, InviteTimeout, InviteRejected, AnsweredZlm, AnsweredMock, OpenSucceeds,
         OpenFails, MediaOnline, NoMedia, FinallyClose, Fail, Undecided, TypeOK
<1>3. CASE state' = state \/ k \notin stored
  <2>1. state[k] = "NONE" => state' = state
    BY <1>2 DEF IndexInv
  <2>2. \A j \in Key : View(j)' = View(j)
    BY <1>1, <1>2, <1>3, <2>1 DEF View
  <2> QED BY <1>1, <2>2 DEF Contract!cvars
<1>4. CASE state' # state /\ k \in stored
  <2>1. View(k) = CreatedState /\ View(k)' = state'[k]
    BY <1>1, <1>2, <1>4 DEF View, IndexInv, CreatedState
  <2>2. \A j \in Key : j # k => View(j)' = View(j)
    BY <1>1 DEF View
  <2>3. [j \in Key |-> View(j)]' = [[j \in Key |-> View(j)] EXCEPT ![k] = state'[k]]
    BY <2>1, <2>2
  <2>4. CASE state'[k] = "FAILED"
    BY <1>1, <2>1, <2>3, <2>4 DEF Contract!CFail, CreatedState
  <2>5. CASE state'[k] = "STREAMING" /\ Zlm
    BY <1>1, <2>1, <2>3, <2>5 DEF Contract!CStream, CreatedState
  <2>6. CASE state'[k] = "STREAMING" /\ ~Zlm
    BY <1>1, <2>1, <2>2, <2>6 DEF Contract!cvars, CreatedState
  <2> QED BY <1>2, <1>4, <2>4, <2>5, <2>6
<1> QED BY <1>3, <1>4

\* The Provider keeps its contract: whatever the coroutines, stops, failures and
\* resets do, a client sees a stream only move from STARTING to STREAMING or to a
\* final FAILED, and be gone for good; a channel has one active live stream.
THEOREM StoreImplementsContract == Spec => ImplementsContract
<1>1. Init => Contract!CInit
  BY DEF Init, Contract!CInit, View
<1>2. TypeOK /\ IndexInv /\ [Next]_vars => [Contract!CNext]_(Contract!cvars)
  <2> SUFFICES ASSUME TypeOK, IndexInv, [Next]_vars
               PROVE  Contract!CNext \/ UNCHANGED Contract!cvars
    OBVIOUS
  <2>1. ASSUME NEW i \in IdemKey, NEW c \in Channel, "live" \in Kind,
               NEW k \in Key, StartLive(i, c, k)
        PROVE  Contract!CNext
    <3>1. LiveRequest(c) \in Request /\ LiveRequest(c).kind = "live" /\ LiveRequest(c).channel = c
      BY <2>1 DEF LiveRequest, Request
    <3>2. Contract!CStart(k, LiveRequest(c))
      BY <3>1, <2>1, CreateStreamIsStart DEF StartLive
    <3> QED BY <3>1, <3>2 DEF Contract!CNext
  <2>2. ASSUME NEW i \in IdemKey, NEW c \in Channel, "playback" \in Kind,
               NEW k \in Key, StartPlayback(i, c, k)
        PROVE  Contract!CNext
    <3>1. PlaybackRequest(c) \in Request /\ PlaybackRequest(c).kind # "live"
      BY <2>2 DEF PlaybackRequest, Request
    <3>2. Contract!CStart(k, PlaybackRequest(c))
      BY <3>1, <2>2, CreateStreamIsStart DEF StartPlayback
    <3> QED BY <3>1, <3>2 DEF Contract!CNext
  <2>3. ASSUME NEW k \in Key, Stop(k) PROVE Contract!CNext
    <3>1. UNCHANGED req /\ View(k) \in Contract!Visible /\ View(k)' = "GONE"
      BY <2>3 DEF Stop, View, IndexInv, TypeOK, objVars, Contract!Visible
    <3>2. \A j \in Key : j # k => View(j)' = View(j)
      BY <2>3 DEF Stop, View, TypeOK
    <3>3. [j \in Key |-> View(j)]' = [[j \in Key |-> View(j)] EXCEPT ![k] = "GONE"]
      BY <3>1, <3>2
    <3> QED BY <3>1, <3>3 DEF Contract!CNext, Contract!CStop
  <2>4. ASSUME NEW k \in Key, Establish(k) PROVE Contract!CNext \/ UNCHANGED Contract!cvars
    BY <2>4, EstablishIsContractStep DEF Contract!CNext
  <2>5. CASE ServiceReset
    <3>1. \A k \in Key : View(k)' = IF View(k) \in Contract!Visible THEN "GONE" ELSE View(k)
      BY <2>5 DEF ServiceReset, View, IndexInv, Contract!Visible
    <3>2. UNCHANGED req
      BY <2>5 DEF ServiceReset, objVars
    <3> QED BY <3>1, <3>2 DEF Contract!CNext, Contract!CReset
  <2>6. ASSUME UNCHANGED <<req, state, stored>> PROVE UNCHANGED Contract!cvars
    BY <2>6 DEF View, Contract!cvars
  <2>7. ASSUME NEW i \in IdemKey, NEW c \in Channel, ReuseLive(i, c) \/ RefuseLive(i, c)
        PROVE  UNCHANGED Contract!cvars
    BY <2>6, <2>7 DEF ReuseLive, RefuseLive, objVars
  <2>8. ASSUME NEW k \in Key,
               Teardown(k) \/ DeviceReceives(k) \/ AckTimeout(k) \/ CloseLeftover(k)
        PROVE  UNCHANGED Contract!cvars
    BY <2>6, <2>8 DEF Teardown, TeardownClose, TeardownBye, DeviceReceives, DeviceAnswers, DeviceRejects, DeviceIgnores,
                      DeviceAck, DeviceBye, AckTimeout, CloseLeftover, objVars, storeVars
  <2>9. ASSUME NEW m \in net, Lose(m) PROVE UNCHANGED Contract!cvars
    BY <2>6, <2>9 DEF Lose, objVars, storeVars
  <2>10. CASE RegistrarReset \/ UNCHANGED vars
    BY <2>6, <2>10 DEF RegistrarReset, vars, objVars, storeVars
  <2> QED
    BY <2>1, <2>2, <2>3, <2>4, <2>5, <2>7, <2>8, <2>9, <2>10 DEF Next, Client, Reset
<1> QED
  BY <1>1, <1>2, TypeCorrect, IndexInvariant, PTL DEF Spec, ImplementsContract, Contract!CSpec

-----------------------------------------------------------------------------
(* Sessions on the device, without ZLMediaKit and without loss.  Both         *)
(* conditions are needed: the runs streams_fail and streams_stop show         *)
(* abandoned sessions with ZLMediaKit, and BYE is sent once.                  *)

Mock == ~Zlm /\ ~Lossy

MsgTypes == {"INVITE", "OK", "REJECT", "ACK", "BYE"}
OnDevice(k) == dlg[k] \in {"WAITING_ACK", "ESTABLISHED"}

\* NoAbandonedSession, strengthened to the ACKs that will establish a call: an ACK
\* is under way only after the call was answered, so that no second answer can
\* follow it, and it finds the call owned or gone.  A stream that is STREAMING
\* outside of the store was there at a reset, and has no call on the device.
KeyInv(k) ==
  /\ task[k] \in {"none", "invite", "done"}
  /\ InFlight("OK", k) => task[k] = "invite" /\ ~InFlight("INVITE", k)
  /\ InFlight("REJECT", k) => ~InFlight("INVITE", k) /\ ~InFlight("OK", k)
  /\ InFlight("ACK", k) => task[k] = "done" /\ ~InFlight("INVITE", k)
  /\ InFlight("ACK", k) /\ OnDevice(k) => Owned(k)
  /\ dlg[k] = "ESTABLISHED" => Owned(k)
  /\ down[k] \in {"none", "bye"}
  /\ down[k] # "none" => k \notin stored
  /\ state[k] = "NONE" =>
       /\ dlg[k] = "NONE" /\ k \notin stored /\ down[k] = "none"
       /\ \A t \in MsgTypes : ~InFlight(t, k)
  /\ k \notin stored /\ state[k] = "STREAMING" =>
       dlg[k] = "NONE" /\ ~InFlight("INVITE", k)

SessionInv == \A k \in Key : KeyInv(k)

\* A step takes some messages of one call out of the net and sends others.
Exchange(k, taken, sent) ==
  net' = (net \ {Msg(t, k) : t \in taken}) \union {Msg(t, k) : t \in sent}

\* What that does to the messages of every call.
LEMMA NetFacts ==
  ASSUME NEW k \in Key, NEW taken, NEW sent, Exchange(k, taken, sent)
  PROVE  /\ \A t \in MsgTypes : InFlight(t, k)' <=> t \in sent \/ (InFlight(t, k) /\ t \notin taken)
         /\ \A j \in Key : j # k => \A t \in MsgTypes : InFlight(t, j)' <=> InFlight(t, j)
BY DEF InFlight, Msg, Exchange

\* A call none of whose parts changes keeps its invariant.
LEMMA Frame ==
  ASSUME NEW j \in Key, KeyInv(j),
         task'[j] = task[j], down'[j] = down[j], dlg'[j] = dlg[j], state'[j] = state[j],
         j \in attached' <=> j \in attached, j \in stored' <=> j \in stored,
         \A t \in MsgTypes : InFlight(t, j)' <=> InFlight(t, j)
  PROVE  KeyInv(j)'
BY DEF KeyInv, Owned, OnDevice, MsgTypes

\* Every step keeps the session invariant: one step below per handler.
LEMMA SessionStep ==
  ASSUME Mock, TypeOK, SessionInv, [Next]_vars
  PROVE  SessionInv'
<1> USE DEF TypeOK, objVars, storeVars, resetVars, OnDevice, Owned, Mock, MsgTypes
\* Steps that leave all messages alone.
<1>0. ASSUME net' = net
      PROVE  \A j \in Key : \A t \in MsgTypes : InFlight(t, j)' <=> InFlight(t, j)
  BY <1>0 DEF InFlight
<1>1. ASSUME NEW i \in IdemKey, NEW r \in Request, NEW k \in Key, CreateStream(i, r, k)
      PROVE  SessionInv'
  <2>1. Exchange(k, {}, {"INVITE"})
    BY <1>1 DEF CreateStream, Exchange
  <2>2. /\ \A t \in MsgTypes : InFlight(t, k)' <=> t = "INVITE" \/ InFlight(t, k)
        /\ \A j \in Key : j # k => \A t \in MsgTypes : InFlight(t, j)' <=> InFlight(t, j)
    <3> HIDE DEF MsgTypes, TypeOK, Owned, OnDevice, Mock
    <3> QED BY <2>1, NetFacts
  <2>3. KeyInv(k)'
    BY <1>1, <2>2 DEF CreateStream, KeyInv, SessionInv
  <2>4. ASSUME NEW j \in Key, j # k PROVE KeyInv(j)'
    BY <1>1, <2>2, <2>4, Frame DEF CreateStream, SessionInv
  <2> QED BY <2>3, <2>4 DEF SessionInv
<1>2. ASSUME UNCHANGED <<state, stored, task, down, attached, dlg, net>>
      PROVE  SessionInv'
  BY <1>0, <1>2, Frame DEF SessionInv
<1>3. ASSUME NEW k \in Key, Stop(k) PROVE SessionInv'
  <2>1. \A j \in Key : \A t \in MsgTypes : InFlight(t, j)' <=> InFlight(t, j)
    BY <1>0, <1>3 DEF Stop
  <2>2. KeyInv(k)'
    BY <1>3, <2>1 DEF Stop, KeyInv, SessionInv
  <2>3. ASSUME NEW j \in Key, j # k PROVE KeyInv(j)'
    BY <1>3, <2>1, <2>3, Frame DEF Stop, SessionInv
  <2> QED BY <2>2, <2>3 DEF SessionInv
<1>4. ASSUME NEW k \in Key, InviteTimeout(k) \/ InviteRejected(k) PROVE SessionInv'
  <2>1. PICK taken \in {{"OK", "REJECT"}, {"REJECT"}} :
          Exchange(k, taken, {}) /\ ("OK" \in taken \/ InFlight("REJECT", k))
    BY <1>4 DEF InviteTimeout, InviteRejected, Unawaited, Exchange
  <2>2. /\ \A t \in MsgTypes : InFlight(t, k)' <=> InFlight(t, k) /\ t \notin taken
        /\ \A j \in Key : j # k => \A t \in MsgTypes : InFlight(t, j)' <=> InFlight(t, j)
    <3> HIDE DEF MsgTypes, TypeOK, Owned, OnDevice, Mock
    <3> QED BY <2>1, NetFacts
  <2>3. /\ UNCHANGED <<stored, down, attached, dlg>>
        /\ task[k] = "invite"
        /\ task' = [task EXCEPT ![k] = "done"]
        /\ state' = [state EXCEPT ![k] = "FAILED"]
    BY <1>4 DEF InviteTimeout, InviteRejected, Fail
  <2>4. KeyInv(k)'
    BY <2>1, <2>2, <2>3 DEF KeyInv, SessionInv
  <2>5. ASSUME NEW j \in Key, j # k PROVE KeyInv(j)'
    BY <2>2, <2>3, <2>5, Frame DEF SessionInv
  <2> QED BY <2>4, <2>5 DEF SessionInv
<1>5. ASSUME NEW k \in Key, AnsweredMock(k) PROVE SessionInv'
  <2>1. PICK sent \in {{"ACK"}, {"ACK", "BYE"}} :
          /\ Exchange(k, {"OK"}, sent)
          /\ \/ sent = {"ACK"} /\ state[k] = "STREAMING" /\ attached' = attached \union {k}
             \/ sent = {"ACK", "BYE"} /\ UNCHANGED attached
    BY <1>5 DEF AnsweredMock, Exchange
  <2>2. /\ \A t \in MsgTypes : InFlight(t, k)' <=> t \in sent \/ (InFlight(t, k) /\ t # "OK")
        /\ \A j \in Key : j # k => \A t \in MsgTypes : InFlight(t, j)' <=> InFlight(t, j)
    <3> HIDE DEF MsgTypes, TypeOK, Owned, OnDevice, Mock
    <3> QED BY <2>1, NetFacts
  <2>3. KeyInv(k)'
    BY <1>5, <2>1, <2>2 DEF AnsweredMock, KeyInv, SessionInv
  <2>4. ASSUME NEW j \in Key, j # k PROVE KeyInv(j)'
    BY <1>5, <2>1, <2>2, <2>4, Frame DEF AnsweredMock, SessionInv
  <2> QED BY <2>3, <2>4 DEF SessionInv
<1>6. ASSUME NEW k \in Key, Establish(k) PROVE SessionInv'
  <2>1. InviteTimeout(k) \/ InviteRejected(k) \/ AnsweredMock(k)
    BY <1>6 DEF Establish, AnsweredZlm, OpenSucceeds, OpenFails, MediaOnline, NoMedia,
                FinallyClose, KeyInv, SessionInv
  <2> QED BY <2>1, <1>4, <1>5
<1>7. ASSUME NEW k \in Key, Teardown(k) PROVE SessionInv'
  <2>0. TeardownBye(k)
    BY <1>7 DEF Teardown, TeardownClose, KeyInv, SessionInv
  <2>1. Exchange(k, {}, {"BYE"})
    BY <2>0 DEF TeardownBye, Exchange
  <2>2. /\ \A t \in MsgTypes : InFlight(t, k)' <=> t = "BYE" \/ InFlight(t, k)
        /\ \A j \in Key : j # k => \A t \in MsgTypes : InFlight(t, j)' <=> InFlight(t, j)
    <3> HIDE DEF MsgTypes, TypeOK, Owned, OnDevice, Mock
    <3> QED BY <2>1, NetFacts
  <2>3. KeyInv(k)'
    BY <2>0, <2>2 DEF TeardownBye, KeyInv, SessionInv
  <2>4. ASSUME NEW j \in Key, j # k PROVE KeyInv(j)'
    BY <2>0, <2>2, <2>4, Frame DEF TeardownBye, SessionInv
  <2> QED BY <2>3, <2>4 DEF SessionInv
<1>8. ASSUME NEW k \in Key, DeviceReceives(k) PROVE SessionInv'
  <2>1. PICK sent \in {{}, {"OK"}, {"REJECT"}}, type \in {"INVITE", "ACK", "BYE"} :
          /\ InFlight(type, k)
          /\ Exchange(k, {type}, sent)
          /\ "OK" \in sent => DeviceAnswers(k) /\ task[k] = "invite"
          /\ type = "INVITE" => DeviceAnswers(k) \/ DeviceRejects(k) \/ DeviceIgnores(k)
          /\ type = "ACK" => DeviceAck(k) /\ sent = {}
          /\ type = "BYE" => DeviceBye(k) /\ sent = {}
    BY <1>8 DEF DeviceReceives, DeviceAnswers, DeviceRejects, DeviceIgnores, DeviceAck,
                DeviceBye, Reply, Exchange
  <2>2. /\ \A t \in MsgTypes : InFlight(t, k)' <=> t \in sent \/ (InFlight(t, k) /\ t # type)
        /\ \A j \in Key : j # k => \A t \in MsgTypes : InFlight(t, j)' <=> InFlight(t, j)
    <3> HIDE DEF MsgTypes, TypeOK, Owned, OnDevice, Mock
    <3> QED BY <2>1, NetFacts
  <2>3. /\ UNCHANGED <<state, stored, task, down, attached>>
        /\ \A j \in Key : j # k => dlg'[j] = dlg[j]
    BY <2>1 DEF DeviceAnswers, DeviceRejects, DeviceIgnores, DeviceAck, DeviceBye
  <2>4. KeyInv(k)'
    <3>1. CASE type = "INVITE"
      BY <2>1, <2>2, <2>3, <3>1
      DEF DeviceAnswers, DeviceRejects, DeviceIgnores, KeyInv, SessionInv
    <3>2. CASE type = "ACK"
      BY <2>1, <2>2, <2>3, <3>2 DEF DeviceAck, KeyInv, SessionInv
    <3>3. CASE type = "BYE"
      BY <2>1, <2>2, <2>3, <3>3 DEF DeviceBye, KeyInv, SessionInv
    <3> QED BY <2>1, <3>1, <3>2, <3>3
  <2>5. ASSUME NEW j \in Key, j # k PROVE KeyInv(j)'
    BY <2>2, <2>3, <2>5, Frame DEF SessionInv
  <2> QED BY <2>4, <2>5 DEF SessionInv
<1>9. ASSUME NEW k \in Key, AckTimeout(k) PROVE SessionInv'
  <2>1. \A j \in Key : \A t \in MsgTypes : InFlight(t, j)' <=> InFlight(t, j)
    BY <1>0, <1>9 DEF AckTimeout
  <2>2. KeyInv(k)'
    BY <1>9, <2>1 DEF AckTimeout, KeyInv, SessionInv
  <2>3. ASSUME NEW j \in Key, j # k PROVE KeyInv(j)'
    BY <1>9, <2>1, <2>3, Frame DEF AckTimeout, SessionInv
  <2> QED BY <2>2, <2>3 DEF SessionInv
<1>10. CASE ServiceReset
  <2>1. ASSUME NEW j \in Key
        PROVE  /\ ~InFlight("INVITE", j)' /\ ~InFlight("ACK", j)' /\ ~InFlight("BYE", j)'
               /\ InFlight("OK", j)' => task[j] = "invite" /\ (InFlight("OK", j) \/ InFlight("INVITE", j))
               /\ InFlight("REJECT", j)' => InFlight("REJECT", j)
    <3> HIDE DEF TypeOK, Owned, OnDevice, Mock
    <3> QED BY <1>10, <2>1 DEF ServiceReset, ToDevice, InFlight, Msg, SessionInv, KeyInv
  <2>2. ASSUME NEW j \in Key PROVE KeyInv(j)'
    BY <1>10, <2>1 DEF ServiceReset, SessionInv, KeyInv
  <2> QED BY <2>2 DEF SessionInv
<1>11. CASE RegistrarReset
  <2>1. ASSUME NEW j \in Key
        PROVE  /\ ~InFlight("OK", j)' /\ ~InFlight("REJECT", j)'
               /\ \A t \in ToDevice : InFlight(t, j)' <=> InFlight(t, j)
    BY <1>11 DEF RegistrarReset, ToDevice, InFlight, Msg
  <2>2. ASSUME NEW j \in Key PROVE KeyInv(j)'
    BY <1>11, <2>1 DEF RegistrarReset, AfterCancel, ToDevice, SessionInv, KeyInv
  <2> QED BY <2>2 DEF SessionInv
<1> QED
  <2>1. ASSUME NEW i \in IdemKey, NEW c \in Channel, NEW k \in Key,
               \/ "live" \in Kind /\ StartLive(i, c, k)
               \/ "playback" \in Kind /\ StartPlayback(i, c, k)
        PROVE  SessionInv'
    BY <2>1, <1>1 DEF StartLive, StartPlayback, LiveRequest, PlaybackRequest, Request
  <2>2. ASSUME NEW i \in IdemKey, NEW c \in Channel, ReuseLive(i, c) \/ RefuseLive(i, c)
        PROVE  SessionInv'
    BY <2>2, <1>2 DEF ReuseLive, RefuseLive
  <2>3. ASSUME NEW k \in Key, CloseLeftover(k) PROVE SessionInv'
    BY <2>3, <1>2 DEF CloseLeftover
  <2>4. CASE UNCHANGED vars
    BY <2>4, <1>2 DEF vars
  <2> QED
    BY <2>1, <2>2, <2>3, <2>4, <1>3, <1>6, <1>7, <1>8, <1>9, <1>10, <1>11
    DEF Next, Client, Reset, Lose

\* Without ZLMediaKit and without loss no session is ever left behind on a
\* device: a call that is established there has someone who will send its BYE,
\* whichever way stop, the answer, the ACK, the timers and a reset interleave.
THEOREM NoSessionAbandoned ==
  ASSUME Mock
  PROVE  Spec => []NoAbandonedSession
<1>1. Init => SessionInv
  BY DEF Init, SessionInv, KeyInv, InFlight, OnDevice, MsgTypes
<1>2. TypeOK /\ SessionInv /\ [Next]_vars => SessionInv'
  BY SessionStep
<1>3. SessionInv => NoAbandonedSession
  BY DEF SessionInv, KeyInv, NoAbandonedSession
<1> QED BY <1>1, <1>2, <1>3, TypeCorrect, PTL DEF Spec
-----------------------------------------------------------------------------
(* Streams that are served, with ZLMediaKit and without resets, which start  *)
(* event_seq anew: a stream id may come back then, and closeRtpServer of an   *)
(* earlier stream close the server of a later one.                           *)

Kept == Zlm /\ ~Resets

\* A stream id names one stream: its revision is drawn from event_seq.
OwnIds ==
  /\ \A k \in Key : IF state[k] = "NONE" THEN req[k] = NoRequest
                    ELSE req[k] \in Request /\ rev[k] <= eventSeq
  /\ \A j, k \in Key : state[j] # "NONE" /\ state[k] # "NONE" /\ rev[j] = rev[k] => j = k

\* StreamingIsServed, strengthened to what keeps it: the INVITE has been
\* answered once and for all before media can arrive, and BYE and the teardown
\* belong to a stream that has left the store.
ServedKey(k) ==
  /\ state[k] = "NONE" =>
       /\ task[k] = "none" /\ down[k] = "none" /\ k \notin stored
       /\ \A t \in MsgTypes : ~InFlight(t, k)
  /\ InFlight("OK", k) \/ task[k] \in {"open", "online"} => ~InFlight("INVITE", k)
  /\ InFlight("BYE", k) \/ down[k] # "none" => k \notin stored
  /\ k \in stored /\ state[k] = "STREAMING" =>
       /\ dlg[k] = "ESTABLISHED" /\ k \in rtp
       /\ task[k] = "done" /\ ~InFlight("INVITE", k)

ServedInv == resetPc = "idle" /\ OwnIds /\ \A k \in Key : ServedKey(k)

\* closeRtpServer and isMediaOnline mean the stream's own server.
LEMMA OwnServer ==
  ASSUME OwnIds, NEW k \in Key, state[k] # "NONE"
  PROVE  SameId(k) = {k}
<1> SUFFICES ASSUME NEW j \in Key, StreamId(j) = StreamId(k) PROVE j = k
  BY DEF SameId
<1>1. req[j] = req[k] /\ rev[j] = rev[k]
  BY DEF StreamId
<1>2. req[k] # NoRequest
  BY ConstantsOK DEF OwnIds
<1> QED BY <1>1, <1>2 DEF OwnIds

\* A stream none of whose parts changes keeps its invariant.
LEMMA ServedFrame ==
  ASSUME NEW j \in Key, ServedKey(j),
         task'[j] = task[j], down'[j] = down[j], dlg'[j] = dlg[j], state'[j] = state[j],
         j \in stored' <=> j \in stored,
         j \in rtp => j \in rtp' \/ j \notin stored \/ state[j] # "STREAMING",
         \A t \in MsgTypes : InFlight(t, j)' <=> InFlight(t, j)
  PROVE  ServedKey(j)'
BY DEF ServedKey, MsgTypes

\* Streams that are not created keep their ids.
LEMMA IdsFrame ==
  ASSUME OwnIds, UNCHANGED <<req, rev, eventSeq>>,
         \A k \in Key : state'[k] = "NONE" <=> state[k] = "NONE"
  PROVE  OwnIds'
BY DEF OwnIds

\* Every step keeps the streams served: one step below per handler.
LEMMA ServedStep ==
  ASSUME Kept, TypeOK, ServedInv, [Next]_vars
  PROVE  ServedInv'
<1> USE DEF objVars, storeVars, resetVars, Kept
<1>a. \A j \in Key : ServedKey(j)
  BY DEF ServedInv
<1>b. OwnIds /\ resetPc = "idle"
  BY DEF ServedInv
\* Steps that leave all messages alone.
<1>0. ASSUME net' = net
      PROVE  \A j \in Key : \A t \in MsgTypes : InFlight(t, j)' <=> InFlight(t, j)
  BY <1>0 DEF InFlight
<1>1. ASSUME NEW i \in IdemKey, NEW r \in Request, NEW k \in Key, CreateStream(i, r, k)
      PROVE  ServedInv'
  <2>1. Exchange(k, {}, {"INVITE"})
    BY <1>1 DEF CreateStream, Exchange
  <2>2. /\ \A t \in MsgTypes : InFlight(t, k)' <=> t = "INVITE" \/ InFlight(t, k)
        /\ \A j \in Key : j # k => \A t \in MsgTypes : InFlight(t, j)' <=> InFlight(t, j)
    BY <2>1, NetFacts
  <2>3. /\ state[k] = "NONE" /\ state'[k] = "STARTING" /\ task'[k] = "invite"
        /\ down'[k] = down[k]
        /\ \A j \in Key : j # k => /\ state'[j] = state[j] /\ task'[j] = task[j]
                                   /\ req'[j] = req[j] /\ rev'[j] = rev[j]
        /\ UNCHANGED <<down, dlg, rtp, resetPc>> /\ stored' = stored \union {k}
        /\ req'[k] = r /\ rev'[k] = eventSeq + 1 /\ eventSeq' = eventSeq + 1
    BY <1>1 DEF CreateStream, TypeOK
  <2>4. ServedKey(k)'
    BY <1>a, <2>2, <2>3 DEF ServedKey, MsgTypes
  <2>5. ASSUME NEW j \in Key, j # k PROVE ServedKey(j)'
    BY <1>a, <2>2, <2>3, <2>5, ServedFrame
  <2>6. OwnIds'
    <3>1. eventSeq \in Nat /\ \A j \in Key : rev[j] \in Nat
      BY DEF TypeOK
    <3> QED BY <1>b, <2>3, <3>1 DEF OwnIds
  <2> QED BY <1>b, <2>3, <2>4, <2>5, <2>6 DEF ServedInv
<1>2. ASSUME UNCHANGED <<req, rev, eventSeq, state, stored, task, down, dlg, rtp, net, resetPc>>
      PROVE  ServedInv'
  BY <1>0, <1>2, <1>a, <1>b, ServedFrame, IdsFrame DEF ServedInv
<1>3. ASSUME NEW k \in Key, Stop(k) PROVE ServedInv'
  <2>1. \A j \in Key : \A t \in MsgTypes : InFlight(t, j)' <=> InFlight(t, j)
    BY <1>0, <1>3 DEF Stop
  <2>2. /\ k \in stored /\ k \notin stored' /\ state'[k] = "STOPPED"
        /\ UNCHANGED <<req, rev, eventSeq, task, dlg, rtp, resetPc>>
        /\ \A j \in Key : j # k => /\ state'[j] = state[j] /\ down'[j] = down[j]
                                   /\ j \in stored' <=> j \in stored
    BY <1>3 DEF Stop, TypeOK
  <2>3. state[k] # "NONE"
    BY <1>a, <2>2 DEF ServedKey
  <2>4. ServedKey(k)'
    BY <1>a, <2>1, <2>2 DEF ServedKey, MsgTypes
  <2>5. ASSUME NEW j \in Key, j # k PROVE ServedKey(j)'
    BY <1>a, <2>1, <2>2, <2>5, ServedFrame
  <2>6. \A j \in Key : state'[j] = "NONE" <=> state[j] = "NONE"
    BY <2>2, <2>3
  <2> QED BY <1>b, <2>2, <2>4, <2>5, <2>6, IdsFrame DEF ServedInv
\* Steps of a coroutine: they change its own stream only, and no stream that is
\* streaming loses its server.
<1>4. ASSUME NEW k \in Key, task[k] \notin {"none", "done"},
             UNCHANGED <<req, rev, eventSeq, stored, down, dlg, resetPc>>,
             \A j \in Key : j # k => /\ state'[j] = state[j] /\ task'[j] = task[j]
                                     /\ j \in rtp => j \in rtp'
                                     /\ \A t \in MsgTypes : InFlight(t, j)' <=> InFlight(t, j),
             state'[k] # "NONE", ServedKey(k)'
      PROVE  ServedInv'
  <2>1. state[k] # "NONE"
    BY <1>a, <1>4 DEF ServedKey
  <2>2. ASSUME NEW j \in Key, j # k PROVE ServedKey(j)'
    BY <1>a, <1>4, <2>2, ServedFrame
  <2>3. \A j \in Key : state'[j] = "NONE" <=> state[j] = "NONE"
    BY <1>4, <2>1
  <2> QED BY <1>b, <1>4, <2>2, <2>3, IdsFrame DEF ServedInv
<1>5. ASSUME NEW k \in Key, Establish(k) PROVE ServedInv'
  <2>0. ServedKey(k) /\ (state[k] # "NONE" => SameId(k) = {k})
    BY <1>a, <1>b, OwnServer
  <2>1. CASE InviteTimeout(k) \/ InviteRejected(k)
    <3>1. PICK taken \in {{"OK", "REJECT"}, {"REJECT"}} : Exchange(k, taken, {})
      BY <2>1 DEF InviteTimeout, InviteRejected, Unawaited, Exchange
    <3>2. /\ \A t \in MsgTypes : InFlight(t, k)' <=> InFlight(t, k) /\ t \notin taken
          /\ \A j \in Key : j # k => \A t \in MsgTypes : InFlight(t, j)' <=> InFlight(t, j)
      BY <3>1, NetFacts
    <3>3. /\ task[k] = "invite" /\ state'[k] = "FAILED" /\ task'[k] = "close"
          /\ UNCHANGED <<req, rev, eventSeq, stored, down, dlg, resetPc, rtp>>
          /\ \A j \in Key : j # k => state'[j] = state[j] /\ task'[j] = task[j]
      BY <2>1 DEF InviteTimeout, InviteRejected, Fail, TypeOK
    <3>4. ServedKey(k)'
      BY <2>0, <3>2, <3>3 DEF ServedKey, MsgTypes
    <3> QED BY <1>4, <3>2, <3>3, <3>4
  <2>2. CASE AnsweredZlm(k)
    <3>1. Exchange(k, {"OK"}, {"ACK"})
      BY <2>2 DEF AnsweredZlm, Exchange
    <3>2. /\ \A t \in MsgTypes : InFlight(t, k)' <=> t = "ACK" \/ (InFlight(t, k) /\ t # "OK")
          /\ \A j \in Key : j # k => \A t \in MsgTypes : InFlight(t, j)' <=> InFlight(t, j)
      BY <3>1, NetFacts
    <3>3. /\ task[k] = "invite" /\ InFlight("OK", k) /\ task'[k] = "open"
          /\ UNCHANGED <<req, rev, eventSeq, stored, down, dlg, resetPc, rtp, state>>
          /\ \A j \in Key : j # k => task'[j] = task[j]
      BY <2>2 DEF AnsweredZlm, TypeOK
    <3>4. ServedKey(k)' /\ state'[k] # "NONE"
      BY <2>0, <3>2, <3>3 DEF ServedKey, MsgTypes
    <3> QED BY <1>4, <3>2, <3>3, <3>4
  <2>3. CASE OpenSucceeds(k) \/ OpenFails(k) \/ MediaOnline(k) \/ NoMedia(k)
    <3>1. \A j \in Key : \A t \in MsgTypes : InFlight(t, j)' <=> InFlight(t, j)
      BY <1>0, <2>3 DEF OpenSucceeds, OpenFails, MediaOnline, NoMedia
    <3>2. /\ task[k] \in {"open", "online"} /\ rtp \subseteq rtp'
          /\ UNCHANGED <<req, rev, eventSeq, stored, down, dlg, resetPc>>
          /\ \A j \in Key : j # k => state'[j] = state[j] /\ task'[j] = task[j]
      BY <2>3 DEF OpenSucceeds, OpenFails, MediaOnline, NoMedia, Fail, TypeOK
    <3>3. state[k] # "NONE" /\ ~InFlight("INVITE", k) /\ SameId(k) = {k}
      BY <2>0, <3>2 DEF ServedKey
    <3>4. CASE OpenSucceeds(k)
      <4>1. state'[k] = state[k] /\ task'[k] = "online"
        BY <3>4 DEF OpenSucceeds, TypeOK
      <4> QED BY <1>4, <2>0, <3>1, <3>2, <3>3, <4>1 DEF ServedKey, MsgTypes
    <3>5. CASE OpenFails(k) \/ NoMedia(k)
      <4>1. state'[k] = "FAILED" /\ task'[k] = "close"
        BY <3>5 DEF OpenFails, NoMedia, Fail, TypeOK
      <4> QED BY <1>4, <2>0, <3>1, <3>2, <3>3, <4>1 DEF ServedKey, MsgTypes
    <3>6. CASE MediaOnline(k)
      <4>1. state'[k] = "STREAMING" /\ task'[k] = "done" /\ k \in rtp /\ dlg[k] = "ESTABLISHED"
        BY <3>3, <3>6 DEF MediaOnline, MediaArrives, TypeOK
      <4> QED BY <1>4, <2>0, <3>1, <3>2, <3>3, <4>1 DEF ServedKey, MsgTypes
    <3> QED BY <2>3, <3>4, <3>5, <3>6
  <2>4. CASE FinallyClose(k)
    <3>1. \A j \in Key : \A t \in MsgTypes : InFlight(t, j)' <=> InFlight(t, j)
      BY <1>0, <2>4 DEF FinallyClose
    <3>2. /\ task[k] = "close" /\ task'[k] = "done"
          /\ UNCHANGED <<req, rev, eventSeq, stored, down, dlg, resetPc, state>>
          /\ \A j \in Key : j # k => task'[j] = task[j]
      BY <2>4 DEF FinallyClose, TypeOK
    <3>3. state[k] # "NONE" /\ ~(k \in stored /\ state[k] = "STREAMING") /\ SameId(k) = {k}
      BY <2>0, <3>2 DEF ServedKey
    <3>4. \A j \in Key : j # k => (j \in rtp => j \in rtp')
      BY <2>4, <3>3 DEF FinallyClose, CloseRtp
    <3>5. ServedKey(k)'
      BY <2>0, <3>1, <3>2, <3>3 DEF ServedKey, MsgTypes
    <3> QED BY <1>4, <3>1, <3>2, <3>3, <3>4, <3>5
  <2> QED BY <1>5, <2>1, <2>2, <2>3, <2>4 DEF Establish, AnsweredMock
<1>6. ASSUME NEW k \in Key, TeardownClose(k) PROVE ServedInv'
  <2>1. \A j \in Key : \A t \in MsgTypes : InFlight(t, j)' <=> InFlight(t, j)
    BY <1>0, <1>6 DEF TeardownClose
  <2>2. /\ down[k] = "close" /\ down'[k] = "bye"
        /\ UNCHANGED <<req, rev, eventSeq, stored, dlg, resetPc, state, task>>
        /\ \A j \in Key : j # k => down'[j] = down[j]
    BY <1>6 DEF TeardownClose, TypeOK
  <2>3. k \notin stored /\ state[k] # "NONE"
    BY <1>a, <2>2 DEF ServedKey
  <2>4. \A j \in Key : j # k => (j \in rtp => j \in rtp')
    BY <1>6, <1>b, <2>3, OwnServer DEF TeardownClose, CloseRtp
  <2>5. ServedKey(k)'
    BY <1>a, <2>1, <2>2, <2>3 DEF ServedKey, MsgTypes
  <2>6. ASSUME NEW j \in Key, j # k PROVE ServedKey(j)'
    BY <1>a, <2>1, <2>2, <2>4, <2>6, ServedFrame
  <2> QED BY <1>b, <2>2, <2>5, <2>6, IdsFrame DEF ServedInv
<1>7. ASSUME NEW k \in Key, TeardownBye(k) PROVE ServedInv'
  <2>1. Exchange(k, {}, {"BYE"})
    BY <1>7 DEF TeardownBye, Exchange
  <2>2. /\ \A t \in MsgTypes : InFlight(t, k)' <=> t = "BYE" \/ InFlight(t, k)
        /\ \A j \in Key : j # k => \A t \in MsgTypes : InFlight(t, j)' <=> InFlight(t, j)
    BY <2>1, NetFacts
  <2>3. /\ down[k] = "bye" /\ down'[k] = "none"
        /\ UNCHANGED <<req, rev, eventSeq, stored, dlg, resetPc, state, task, rtp>>
        /\ \A j \in Key : j # k => down'[j] = down[j]
    BY <1>7 DEF TeardownBye, TypeOK
  <2>4. k \notin stored /\ state[k] # "NONE"
    BY <1>a, <2>3 DEF ServedKey
  <2>5. ServedKey(k)'
    BY <1>a, <2>2, <2>3, <2>4 DEF ServedKey, MsgTypes
  <2>6. ASSUME NEW j \in Key, j # k PROVE ServedKey(j)'
    BY <1>a, <2>2, <2>3, <2>6, ServedFrame
  <2> QED BY <1>b, <2>3, <2>5, <2>6, IdsFrame DEF ServedInv
<1>8. ASSUME NEW k \in Key, DeviceReceives(k) PROVE ServedInv'
  <2>1. PICK sent \in {{}, {"OK"}, {"REJECT"}}, type \in {"INVITE", "ACK", "BYE"} :
          /\ InFlight(type, k)
          /\ Exchange(k, {type}, sent)
          /\ sent # {} => type = "INVITE"
          /\ type = "ACK" => DeviceAck(k)
    BY <1>8 DEF DeviceReceives, DeviceAnswers, DeviceRejects, DeviceIgnores, DeviceAck,
                DeviceBye, Reply, Exchange
  <2>2. /\ \A t \in MsgTypes : InFlight(t, k)' <=> t \in sent \/ (InFlight(t, k) /\ t # type)
        /\ \A j \in Key : j # k => \A t \in MsgTypes : InFlight(t, j)' <=> InFlight(t, j)
    BY <2>1, NetFacts
  <2>3. /\ UNCHANGED <<req, rev, eventSeq, stored, down, resetPc, state, task, rtp>>
        /\ \A j \in Key : j # k => dlg'[j] = dlg[j]
    BY <1>8 DEF DeviceReceives, DeviceAnswers, DeviceRejects, DeviceIgnores, DeviceAck, DeviceBye, TypeOK
  <2>4. type = "ACK" /\ dlg[k] = "ESTABLISHED" => dlg'[k] = dlg[k]
    BY <2>1 DEF DeviceAck
  <2>5. ServedKey(k)'
    BY <1>a, <2>1, <2>2, <2>3, <2>4 DEF ServedKey, MsgTypes
  <2>6. ASSUME NEW j \in Key, j # k PROVE ServedKey(j)'
    BY <1>a, <2>2, <2>3, <2>6, ServedFrame
  <2> QED BY <1>b, <2>3, <2>5, <2>6, IdsFrame DEF ServedInv
<1>9. ASSUME NEW k \in Key, AckTimeout(k) PROVE ServedInv'
  <2>1. \A j \in Key : \A t \in MsgTypes : InFlight(t, j)' <=> InFlight(t, j)
    BY <1>0, <1>9 DEF AckTimeout
  <2>2. /\ UNCHANGED <<req, rev, eventSeq, stored, down, resetPc, state, task, rtp>>
        /\ dlg[k] # "ESTABLISHED" /\ \A j \in Key : j # k => dlg'[j] = dlg[j]
    BY <1>9 DEF AckTimeout
  <2>3. ServedKey(k)'
    BY <1>a, <2>1, <2>2 DEF ServedKey, MsgTypes
  <2>4. ASSUME NEW j \in Key, j # k PROVE ServedKey(j)'
    BY <1>a, <2>1, <2>2, <2>4, ServedFrame
  <2> QED BY <1>b, <2>2, <2>3, <2>4, IdsFrame DEF ServedInv
\* A lost message: what is not in flight stays so.
<1>10. ASSUME NEW m \in net, Lose(m) PROVE ServedInv'
  <2>1. \A j \in Key : \A t \in MsgTypes : InFlight(t, j)' => InFlight(t, j)
    BY <1>10 DEF Lose, InFlight
  <2>2. UNCHANGED <<req, rev, eventSeq, stored, down, dlg, resetPc, state, task, rtp>>
    BY <1>10 DEF Lose
  <2>3. ASSUME NEW j \in Key PROVE ServedKey(j)'
    BY <1>a, <2>1, <2>2, <2>3 DEF ServedKey, MsgTypes
  <2> QED BY <1>b, <2>2, <2>3, IdsFrame DEF ServedInv
<1> QED
  <2>1. ASSUME NEW i \in IdemKey, NEW c \in Channel, NEW k \in Key,
               \/ "live" \in Kind /\ StartLive(i, c, k)
               \/ "playback" \in Kind /\ StartPlayback(i, c, k)
        PROVE  ServedInv'
    BY <2>1, <1>1 DEF StartLive, StartPlayback, LiveRequest, PlaybackRequest, Request
  <2>2. ASSUME NEW i \in IdemKey, NEW c \in Channel, ReuseLive(i, c) \/ RefuseLive(i, c)
        PROVE  ServedInv'
    BY <2>2, <1>2 DEF ReuseLive, RefuseLive
  <2>3. CASE UNCHANGED vars
    BY <2>3, <1>2 DEF vars
  <2>4. ~Reset
    BY <1>b DEF Reset, ServiceReset, RegistrarReset, CloseLeftover
  <2> QED
    BY <2>1, <2>2, <2>3, <2>4, <1>3, <1>5, <1>6, <1>7, <1>8, <1>9, <1>10
    DEF Next, Client, Teardown

\* With ZLMediaKit a stream that is reported as STREAMING is served, whatever is
\* lost, refused or fails and whoever else starts and stops, as long as nobody
\* resets: its own call stays established and its own server open until stop.
THEOREM StreamsAreServed ==
  ASSUME ~Resets
  PROVE  Spec => []StreamingIsServed
<1>1. CASE Zlm
  <2>1. Init => ServedInv
    BY DEF Init, ServedInv, OwnIds, ServedKey, InFlight
  <2>2. TypeOK /\ ServedInv /\ [Next]_vars => ServedInv'
    BY <1>1, ServedStep DEF Kept
  <2>3. TypeOK /\ ServedInv => StreamingIsServed
    BY DEF ServedInv, ServedKey, StreamingIsServed, TypeOK
  <2> QED BY <2>1, <2>2, <2>3, TypeCorrect, PTL DEF Spec
<1>2. CASE ~Zlm
  <2>1. StreamingIsServed
    BY <1>2 DEF StreamingIsServed
  <2> QED BY <2>1, PTL
<1> QED BY <1>1, <1>2
=============================================================================
