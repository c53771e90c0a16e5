---------------------------- MODULE DeviceStatus ----------------------------
(***************************************************************************)
(* The online status of one device at the Provider, and everything that    *)
(* writes it: the heartbeats of the simulated device (sip/simulator.py)    *)
(* that the registrar hands to ProviderService.record_keepalive, the scan  *)
(* for silent devices, status injections of the control plane, a completed *)
(* unregistration and reset (service.py, testkit_api.py).                  *)
(*                                                                         *)
(* Callbacks and coroutines are atomic to each other between two awaits,   *)
(* but not to the threads: the routes that inject a status run in threads, *)
(* and no lock is taken.  So every writer, also on the event loop, writes  *)
(* the status and appends the event in two steps; the loop does nothing    *)
(* else between them, a thread may do everything.  Time is counted in      *)
(* whole units, the scan (every 0.2 s) is immediate, and a datagram takes  *)
(* no time, is lost, or is late: then its sender has given it up.          *)
(***************************************************************************)
EXTENDS Naturals

CONSTANTS
    Interval,        \* gb_keepalive_interval
    KeepTimeout,     \* gb_keepalive_timeout
    ReplyWait,       \* gb_register_timeout, also the wait for a heartbeat's 200
    Injectors,       \* threads that inject a status
    Disturbances     \* bound: commands of users and faults of the network

ASSUME DeviceStatusAssumption ==
    /\ Interval \in Nat \ {0} /\ KeepTimeout \in Nat \ {0}
    /\ ReplyWait \in Nat \ {0} /\ Disturbances \in Nat
    /\ "loop" \notin Injectors

VARIABLES
    status,     \* DeviceState.online_status
    age,        \* time since keepalive_seen_at, or Unseen
    loop,       \* _keepalive_loop of the device, and its heartbeat
    drops,      \* is the device in DeviceSimulator._drop_next? 1 if it is
    late,       \* heartbeats on their way whose sender waits no more
    writer,     \* who writes the status: a thread, or the event loop
    told,       \* the status the last event of the outbox reports
    contested,  \* history: two writers overlapped since the last clean write
    missed,     \* history: heartbeats not recorded since the last that was
    budget      \* disturbances still to come

statusVars == <<status, age, loop, drops, late, writer, told, contested,
                missed, budget>>

OnlineStatus == {"ONLINE", "OFFLINE", "UNKNOWN"}

Unseen == KeepTimeout + 2    \* keepalive_seen_at is None

Stopped == [pc |-> "stopped", left |-> 0, link |-> "none"]

Sleeping == [pc |-> "sleep", left |-> Interval, link |-> "none"]

\* The event loop is a writer like the threads.
StatusWriters == Injectors \union {"loop"}

NoWrite == [pc |-> "idle", to |-> "ONLINE", orphan |-> FALSE]

\* The event loop is not inside one of its writers.
LoopFree == writer["loop"] = NoWrite

DevTypeOK ==
    /\ status \in OnlineStatus
    /\ age \in 0..Unseen
    /\ loop \in [pc : {"stopped", "sleep", "wait"},
                 left : 0..Interval \union 0..ReplyWait,
                 link : {"none", "sent", "answered", "lost"}]
    /\ drops \in 0..1
    /\ late \in 0..Disturbances
    /\ writer \in [StatusWriters -> [pc : {"idle", "begun", "written"},
                                      to : OnlineStatus, orphan : BOOLEAN]]
    /\ told \in OnlineStatus
    /\ contested \in BOOLEAN
    /\ missed \in 0..KeepTimeout
    /\ budget \in 0..Disturbances

\* The seeded device is ONLINE and has not been heard.
DevInit ==
    /\ status = "ONLINE" /\ age = Unseen
    /\ loop = Stopped /\ drops = 0 /\ late = 0
    /\ writer = [p \in StatusWriters |-> NoWrite]
    /\ told = "ONLINE" /\ contested = FALSE /\ missed = KeepTimeout
    /\ budget = Disturbances

Disturb == budget > 0 /\ budget' = budget - 1

\* missed counts up to KeepTimeout, which stands for "enough to expire".
AtMost(n) == IF n > KeepTimeout THEN KeepTimeout ELSE n

-----------------------------------------------------------------------------
(* Writers of the status *)

\* The writer has its device and is about to write its status.
BeginWrite(p, to) ==
    /\ writer[p] = NoWrite
    /\ writer' = [writer EXCEPT ![p] = [pc |-> "begun", to |-> to, orphan |-> FALSE]]

\* What is written to a device that reset has replaced is lost, but not the
\* event.
WriteStatus(p) ==
    /\ writer[p].pc = "begun"
    /\ status' = IF writer[p].orphan THEN status ELSE writer[p].to
    /\ contested' = \/ writer[p].orphan
                    \/ \E q \in StatusWriters \ {p} : writer[q].pc = "written"
    /\ writer' = [writer EXCEPT ![p].pc = "written"]
    /\ UNCHANGED <<age, loop, drops, late, told, missed, budget>>

\* Mutation of Reported: no DEVICE_OFFLINE event.
ReportedOnline(to) == IF to = "OFFLINE" THEN told ELSE to

\* The event is of the status the writer has written.
Reported(to) == to

AppendEvent(p) ==
    /\ writer[p].pc = "written"
    /\ told' = Reported(writer[p].to)
    /\ writer' = [writer EXCEPT ![p] = NoWrite]
    /\ UNCHANGED <<status, age, loop, drops, late, contested, missed, budget>>

-----------------------------------------------------------------------------
(* Control of the heartbeat loop *)

\* Idempotent: a running loop is left alone.
StartKeepalive ==
    /\ LoopFree
    /\ loop = Stopped /\ loop' = Sleeping
    /\ Disturb
    /\ UNCHANGED <<status, age, drops, late, writer, told, contested, missed>>

\* The task is cancelled; its heartbeat may still be on its way.
StopKeepalive ==
    /\ LoopFree
    /\ loop # Stopped /\ loop' = Stopped
    /\ late' = IF loop.link = "sent" THEN late + 1 ELSE late
    /\ missed' = KeepTimeout
    /\ Disturb
    /\ UNCHANGED <<status, age, drops, writer, told, contested>>

\* _drop_next is a set.
DropNextKeepalive ==
    /\ LoopFree
    /\ drops' = 1
    /\ Disturb
    /\ UNCHANGED <<status, age, loop, late, writer, told, contested, missed>>

\* A heartbeat on demand.  No one waits for its answer but the background
\* task that sent it; a malformed one has the effect of a lost one.
SendKeepalive ==
    /\ LoopFree
    /\ late' = late + 1
    /\ Disturb
    /\ UNCHANGED <<status, age, loop, drops, writer, told, contested, missed>>

-----------------------------------------------------------------------------
(* The heartbeat loop *)

Awake == loop.pc = "sleep" /\ loop.left = 0

WakeAndDrop ==
    /\ LoopFree
    /\ Awake /\ drops > 0
    /\ drops' = 0 /\ loop' = Sleeping
    /\ missed' = AtMost(missed + 1)
    /\ UNCHANGED <<status, age, late, writer, told, contested, budget>>

WakeAndSend ==
    /\ LoopFree
    /\ Awake /\ drops = 0
    /\ loop' = [pc |-> "wait", left |-> ReplyWait, link |-> "sent"]
    /\ UNCHANGED <<status, age, drops, late, writer, told, contested, missed,
                   budget>>

\* The 200, or the end of the wait for it: the loop goes back to sleep.
Resume ==
    /\ LoopFree
    /\ loop.pc = "wait"
    /\ loop.link = "answered" \/ loop.left = 0
    /\ loop' = Sleeping
    /\ UNCHANGED <<status, age, drops, late, writer, told, contested, missed,
                   budget>>

\* The heartbeat or its answer is lost ...
LoseKeepalive ==
    /\ loop.link \in {"sent", "answered"}
    /\ loop' = [loop EXCEPT !.link = "lost"]
    /\ missed' = KeepTimeout
    /\ Disturb
    /\ UNCHANGED <<status, age, drops, late, writer, told, contested>>

\* ... or the heartbeat is late.
DelayKeepalive ==
    /\ loop.link = "sent"
    /\ loop' = [loop EXCEPT !.link = "lost"]
    /\ late' = late + 1
    /\ missed' = KeepTimeout
    /\ Disturb
    /\ UNCHANGED <<status, age, drops, writer, told, contested>>

LoseLate ==
    /\ late > 0 /\ late' = late - 1
    /\ UNCHANGED <<status, age, loop, drops, writer, told, contested, missed,
                   budget>>

-----------------------------------------------------------------------------
(* The Provider *)

\* Mutation of WasOffline: UNKNOWN does not count.
WasKnownOffline == status = "OFFLINE"

WasOffline == status # "ONLINE"

\* Mutation of Seen: only a heartbeat that brings the device back counts.
SeenWhenBack == age' = IF WasOffline THEN 0 ELSE age

Seen == age' = 0

\* record_keepalive, which looks at the status first.  A device whose loop does
\* not run, or still waits for an answer, may yet be silent for long.
RecordKeepalive ==
    /\ Seen
    /\ IF WasOffline THEN BeginWrite("loop", "ONLINE") ELSE UNCHANGED writer
    /\ missed' = IF loop = Stopped \/ loop.link = "lost" THEN KeepTimeout ELSE 0
    /\ UNCHANGED <<status, told, contested>>

HandleKeepalive ==
    /\ LoopFree
    /\ loop.link = "sent"
    /\ loop' = [loop EXCEPT !.link = "answered"]
    /\ RecordKeepalive
    /\ UNCHANGED <<drops, late, budget>>

HandleLate ==
    /\ LoopFree
    /\ late > 0 /\ late' = late - 1
    /\ RecordKeepalive
    /\ UNCHANGED <<loop, drops, budget>>

Stale == status = "ONLINE" /\ age # Unseen /\ age > KeepTimeout

\* expire_stale_devices
ExpireStale ==
    /\ Stale
    /\ BeginWrite("loop", "OFFLINE")
    /\ UNCHANGED <<status, age, loop, drops, late, told, contested, missed, budget>>

-----------------------------------------------------------------------------
(* Other writers *)

\* set_device_online_status in a thread
InjectStatus(p, to) ==
    /\ BeginWrite(p, to)
    /\ Disturb
    /\ UNCHANGED <<status, age, loop, drops, late, told, contested, missed>>

\* The unregister task marks the device, on the event loop.
MarkUnregistered ==
    /\ BeginWrite("loop", "OFFLINE")
    /\ Disturb
    /\ UNCHANGED <<status, age, loop, drops, late, told, contested, missed>>

\* The scenario seeds the device anew: the Provider's reset and the simulator's,
\* in one step.  Heartbeats on their way and the threads are not stopped.
ResetDevice ==
    /\ LoopFree
    /\ status' = "ONLINE" /\ age' = Unseen
    /\ told' = "ONLINE"
    /\ contested' = \E p \in StatusWriters : writer[p].pc = "written"
    /\ writer' = [p \in StatusWriters |-> IF writer[p] = NoWrite THEN NoWrite
                                          ELSE [writer[p] EXCEPT !.orphan = TRUE]]
    /\ loop' = Stopped /\ drops' = 0
    /\ late' = IF loop.link = "sent" THEN late + 1 ELSE late
    /\ missed' = KeepTimeout
    /\ Disturb

-----------------------------------------------------------------------------
Older == IF age = Unseen \/ age > KeepTimeout THEN age ELSE age + 1

PassTime ==
    /\ LoopFree
    /\ ~Stale /\ loop.link \notin {"sent", "answered"}
    /\ loop = Stopped \/ loop.left > 0
    /\ age' = Older
    /\ loop' = IF loop = Stopped THEN loop ELSE [loop EXCEPT !.left = @ - 1]
    /\ UNCHANGED <<status, drops, late, writer, told, contested, missed, budget>>

DevNext ==
    \/ StartKeepalive \/ StopKeepalive \/ DropNextKeepalive \/ SendKeepalive
    \/ WakeAndDrop \/ WakeAndSend \/ Resume
    \/ LoseKeepalive \/ DelayKeepalive \/ LoseLate
    \/ HandleKeepalive \/ HandleLate \/ ExpireStale
    \/ \E p \in Injectors, to \in OnlineStatus : InjectStatus(p, to)
    \/ MarkUnregistered \/ ResetDevice
    \/ \E p \in StatusWriters : WriteStatus(p) \/ AppendEvent(p)
    \/ PassTime

DevSpec == DevInit /\ [][DevNext]_statusVars

\* The loop, the scan and the clock run, threads finish, and what is on its
\* way arrives or is lost.
DevFairness ==
    /\ WF_statusVars(WakeAndDrop) /\ WF_statusVars(WakeAndSend)
    /\ WF_statusVars(Resume) /\ WF_statusVars(HandleKeepalive)
    /\ WF_statusVars(HandleLate \/ LoseLate) /\ WF_statusVars(ExpireStale)
    /\ \A p \in StatusWriters : /\ WF_statusVars(WriteStatus(p))
                               /\ WF_statusVars(AppendEvent(p))
    /\ WF_statusVars(PassTime)

-----------------------------------------------------------------------------
(* Properties *)

\* A platform that follows the events knows the status: the last event of the
\* outbox reports what online_status holds, unless a writer is between its two
\* statements, or two of them (the loop and a thread, two threads, a thread and
\* reset) came between each other's.  Last means last in
\* the outbox: the revision of an event is drawn before it is appended, and is
\* not compared.
LastEventTells ==
    (\A p \in StatusWriters : writer[p].pc # "written") /\ ~contested => told = status

\* A device with a running loop is not taken for silent as long as the
\* heartbeats it left out, dropped on purpose one at a time, fit in the
\* timeout; only a stopped loop, a loss or a delay may be punished at once.
DropsAreTolerated ==
    age > KeepTimeout /\ age # Unseen => (missed + 1) * Interval >= KeepTimeout

\* Once no user and no fault disturbs it any more, the status settles on what
\* the heartbeats say: ONLINE with a running loop, and not ONLINE without
\* one, except for a device that was never heard.
StatusConverges ==
    <>[](IF loop # Stopped THEN status = "ONLINE"
                           ELSE age = Unseen \/ status # "ONLINE")
=============================================================================
