------------------------- MODULE DeviceStatusProofs -------------------------
(***************************************************************************)
(* Proofs about DeviceStatus, for every interval, timeout and number of    *)
(* disturbances.                                                           *)
(***************************************************************************)
EXTENDS DeviceStatus, TLAPS

Loops == [pc : {"stopped", "sleep", "wait"},
          left : 0..Interval \union 0..ReplyWait,
          link : {"none", "sent", "answered", "lost"}]

Writes == [pc : {"idle", "begun", "written"}, to : OnlineStatus,
           orphan : BOOLEAN]

\* Every heartbeat that is late was a disturbance: nothing else leaves one on
\* its way without somebody who waits for it.
DevInv ==
    /\ status \in OnlineStatus /\ told \in OnlineStatus
    /\ age \in 0..Unseen /\ loop \in Loops /\ writer \in [StatusWriters -> Writes]
    /\ drops \in 0..1 /\ missed \in 0..KeepTimeout /\ contested \in BOOLEAN
    /\ late \in Nat /\ budget \in Nat /\ late + budget <= Disturbances

\* What begins, writes and ends a write keeps the writers' types.
LEMMA WriterTypes ==
  ASSUME writer \in [StatusWriters -> Writes], NEW p \in StatusWriters
  PROVE  /\ \A to \in OnlineStatus :
              BeginWrite(p, to) => writer' \in [StatusWriters -> Writes]
         /\ [writer EXCEPT ![p].pc = "written"] \in [StatusWriters -> Writes]
         /\ [writer EXCEPT ![p] = NoWrite] \in [StatusWriters -> Writes]
         /\ [q \in StatusWriters |-> IF writer[q] = NoWrite THEN NoWrite
                                     ELSE [writer[q] EXCEPT !.orphan = TRUE]]
              \in [StatusWriters -> Writes]
<1>1. NoWrite \in Writes
  BY DEF NoWrite, Writes, OnlineStatus
<1>2. \A q \in StatusWriters : /\ [writer[q] EXCEPT !.pc = "written"] \in Writes
                              /\ [writer[q] EXCEPT !.orphan = TRUE] \in Writes
  BY DEF Writes
<1>3. ASSUME NEW to \in OnlineStatus, BeginWrite(p, to)
      PROVE  writer' \in [StatusWriters -> Writes]
  <2>1. [pc |-> "begun", to |-> to, orphan |-> FALSE] \in Writes
    BY DEF Writes
  <2> QED BY <1>3, <2>1 DEF BeginWrite
<1>4. [writer EXCEPT ![p].pc = "written"] \in [StatusWriters -> Writes]
  BY <1>2
<1>5. [writer EXCEPT ![p] = NoWrite] \in [StatusWriters -> Writes]
  BY <1>1
<1>6. [q \in StatusWriters |-> IF writer[q] = NoWrite THEN NoWrite
                               ELSE [writer[q] EXCEPT !.orphan = TRUE]]
        \in [StatusWriters -> Writes]
  BY <1>1, <1>2
<1> QED BY <1>3, <1>4, <1>5, <1>6

\* Type correctness: the loop's clocks, the age of the last heartbeat and the
\* number of late heartbeats stay in their bounds.
THEOREM DevTypeCorrect == DevSpec => []DevTypeOK
<1> USE DeviceStatusAssumption DEF DeviceStatusAssumption
<1>1. DevInit => DevInv
  <2> SUFFICES ASSUME DevInit PROVE DevInv
    OBVIOUS
  <2>1. Stopped \in Loops /\ NoWrite \in Writes
    BY DEF Stopped, Loops, NoWrite, Writes, OnlineStatus
  <2>2. /\ status \in OnlineStatus /\ told \in OnlineStatus /\ contested \in BOOLEAN
        /\ loop \in Loops /\ writer \in [StatusWriters -> Writes]
    BY <2>1 DEF DevInit, OnlineStatus
  <2>3. /\ age \in 0..Unseen /\ drops \in 0..1 /\ missed \in 0..KeepTimeout
        /\ late \in Nat /\ budget \in Nat /\ late + budget <= Disturbances
    BY DEF DevInit, Unseen
  <2> QED BY <2>2, <2>3 DEF DevInv
<1>2. DevInv /\ [DevNext]_statusVars => DevInv'
  <2> SUFFICES ASSUME DevInv, [DevNext]_statusVars PROVE DevInv'
    OBVIOUS
  <2> USE DEF DevInv
  <2>1. /\ Stopped \in Loops /\ Sleeping \in Loops
        /\ [pc |-> "wait", left |-> ReplyWait, link |-> "sent"] \in Loops
    BY DEF Loops, Stopped, Sleeping
  <2>2. /\ loop.left \in Nat
        /\ \A l \in {"answered", "lost"} : [loop EXCEPT !.link = l] \in Loops
        /\ loop.left > 0 => [loop EXCEPT !.left = @ - 1] \in Loops
    BY DEF Loops
  <2>3. Disturb => budget' \in Nat /\ budget' + 1 = budget
    BY DEF Disturb
  <2>4. CASE StartKeepalive \/ StopKeepalive
    BY <2>1, <2>3, <2>4 DEF StartKeepalive, StopKeepalive
  <2>5. CASE DropNextKeepalive \/ SendKeepalive
    BY <2>1, <2>3, <2>5 DEF DropNextKeepalive, SendKeepalive
  <2>6. CASE WakeAndDrop \/ WakeAndSend \/ Resume
    BY <2>1, <2>6 DEF WakeAndDrop, WakeAndSend, Resume, Awake, AtMost
  <2>7. CASE LoseKeepalive \/ DelayKeepalive \/ LoseLate
    BY <2>1, <2>2, <2>3, <2>7 DEF LoseKeepalive, DelayKeepalive, LoseLate
  <2>8. "loop" \in StatusWriters /\ {"ONLINE", "OFFLINE"} \subseteq OnlineStatus
    BY DEF StatusWriters, OnlineStatus
  <2>9. CASE HandleKeepalive \/ HandleLate
    <3>1. RecordKeepalive
      BY <2>9 DEF HandleKeepalive, HandleLate
    <3>2. /\ age' \in 0..Unseen /\ missed' \in 0..KeepTimeout
          /\ UNCHANGED <<status, told, contested>>
      BY <3>1 DEF RecordKeepalive, Seen, Unseen
    <3>3. writer' \in [StatusWriters -> Writes]
      BY <2>8, <3>1, WriterTypes DEF RecordKeepalive
    <3> QED BY <2>1, <2>2, <2>9, <3>2, <3>3 DEF HandleKeepalive, HandleLate
  <2>10. CASE ExpireStale \/ MarkUnregistered
    <3>1. /\ BeginWrite("loop", "OFFLINE")
          /\ UNCHANGED <<status, told, contested, age, loop, drops, late, missed>>
          /\ UNCHANGED budget \/ Disturb
      BY <2>10 DEF ExpireStale, MarkUnregistered
    <3>2. writer' \in [StatusWriters -> Writes]
      BY <2>8, <3>1, WriterTypes
    <3> QED BY <2>1, <2>3, <3>1, <3>2
  <2>11. ASSUME NEW p \in Injectors, NEW to \in OnlineStatus, InjectStatus(p, to)
         PROVE  DevInv'
    <3>1. p \in StatusWriters
      BY DEF StatusWriters
    <3>2. writer' \in [StatusWriters -> Writes]
      BY <2>11, <3>1, WriterTypes DEF InjectStatus
    <3> QED BY <2>1, <2>3, <2>11, <3>2 DEF InjectStatus
  <2>12. ASSUME NEW p \in StatusWriters, WriteStatus(p) \/ AppendEvent(p)
         PROVE  DevInv'
    <3>1. writer[p].to \in OnlineStatus /\ writer[p].orphan \in BOOLEAN
      BY DEF Writes
    <3>2. writer' \in [StatusWriters -> Writes]
      BY <2>12, WriterTypes DEF WriteStatus, AppendEvent
    <3>3. contested' \in BOOLEAN
      <4>1. (\E q \in StatusWriters \ {p} : writer[q].pc = "written") \in BOOLEAN
        OBVIOUS
      <4> QED BY <2>12, <3>1, <4>1 DEF WriteStatus, AppendEvent
    <3>4. status' \in OnlineStatus /\ told' \in OnlineStatus
      BY <2>12, <3>1 DEF WriteStatus, AppendEvent, Reported
    <3> QED BY <2>1, <2>12, <3>2, <3>3, <3>4 DEF WriteStatus, AppendEvent
  <2>13. CASE ResetDevice
    <3>1. writer' \in [StatusWriters -> Writes]
      BY <2>8, <2>13, WriterTypes DEF ResetDevice
    <3>2. contested' \in BOOLEAN
      BY <2>13 DEF ResetDevice
    <3> QED BY <2>1, <2>3, <2>13, <3>1, <3>2 DEF ResetDevice, OnlineStatus, Unseen
  <2>14. CASE PassTime
    <3>1. age' \in 0..Unseen
      BY <2>14 DEF PassTime, Older, Unseen
    <3> QED BY <2>1, <2>2, <2>14, <3>1 DEF PassTime
  <2>15. CASE UNCHANGED statusVars
    BY <2>15 DEF statusVars
  <2> QED
    BY <2>4, <2>5, <2>6, <2>7, <2>9, <2>10, <2>11, <2>12, <2>13, <2>14, <2>15
    DEF DevNext
<1>3. DevInv => DevTypeOK
  <2> SUFFICES ASSUME DevInv PROVE DevTypeOK
    OBVIOUS
  <2>1. late \in 0..Disturbances /\ budget \in 0..Disturbances
    BY DEF DevInv
  <2> QED BY <2>1 DEF DevInv, DevTypeOK, Loops, Writes
<1> QED BY <1>1, <1>2, <1>3, PTL DEF DevSpec

\* LastEventTells is not inductive: when a writer, on the event loop or in a
\* thread, appends its event, the status must still be the one it wrote, unless
\* another writer or reset came between; and at most one writer that nobody
\* contests has its event still to append.
WriterInv ==
    /\ ~contested => \A p \in StatusWriters : writer[p].pc = "written" =>
         /\ status = writer[p].to
         /\ \A q \in StatusWriters : writer[q].pc = "written" => q = p
    /\ LastEventTells

\* A step that leaves the status, its events and who has written alone.
LEMMA NoWriteKeepsWriterInv ==
  ASSUME WriterInv, UNCHANGED <<status, told, contested>>,
         \A p \in StatusWriters : writer'[p] = writer[p]
                                  \/ (writer[p].pc # "written" /\ writer'[p].pc # "written")
  PROVE  WriterInv'
BY DEF WriterInv, LastEventTells

\* The beginning of a write is such a step.
LEMMA BeginKeepsWriterInv ==
  ASSUME DevTypeOK, WriterInv, NEW p \in StatusWriters, NEW to, BeginWrite(p, to),
         UNCHANGED <<status, told, contested>>
  PROVE  WriterInv'
<1>1. writer[p].pc = "idle" /\ writer'[p].pc = "begun"
  BY DEF BeginWrite, NoWrite, DevTypeOK
<1>2. \A q \in StatusWriters : q # p => writer'[q] = writer[q]
  BY DEF BeginWrite, DevTypeOK
<1> QED BY <1>1, <1>2, NoWriteKeepsWriterInv

\* The last event of the outbox tells the status, with any number of threads
\* that inject one and the four writers of the event loop, which all write the
\* status and append the event in two statements.
THEOREM EventsTellStatus == DevSpec => []LastEventTells
<1>1. DevInit => WriterInv
  BY DEF DevInit, WriterInv, LastEventTells, NoWrite
<1>2. DevTypeOK /\ WriterInv /\ [DevNext]_statusVars => WriterInv'
  <2> SUFFICES ASSUME DevTypeOK, WriterInv, [DevNext]_statusVars PROVE WriterInv'
    OBVIOUS
  <2>1. ASSUME UNCHANGED <<status, told, contested, writer>> PROVE WriterInv'
    BY <2>1, NoWriteKeepsWriterInv
  <2>2. "loop" \in StatusWriters /\ Injectors \subseteq StatusWriters
    BY DEF StatusWriters
  <2>3. CASE StartKeepalive \/ StopKeepalive \/ DropNextKeepalive \/ SendKeepalive
             \/ WakeAndDrop \/ WakeAndSend \/ Resume \/ PassTime
    BY <2>1, <2>3 DEF StartKeepalive, StopKeepalive, DropNextKeepalive, SendKeepalive,
                      WakeAndDrop, WakeAndSend, Resume, PassTime
  <2>4. CASE LoseKeepalive \/ DelayKeepalive \/ LoseLate \/ UNCHANGED statusVars
    BY <2>1, <2>4 DEF LoseKeepalive, DelayKeepalive, LoseLate, statusVars
  <2>5. CASE HandleKeepalive \/ HandleLate
    BY <2>1, <2>2, <2>5, BeginKeepsWriterInv DEF HandleKeepalive, HandleLate, RecordKeepalive
  <2>6. CASE ExpireStale \/ MarkUnregistered
    BY <2>2, <2>6, BeginKeepsWriterInv DEF ExpireStale, MarkUnregistered
  <2>7. ASSUME NEW p \in Injectors, NEW to \in OnlineStatus, InjectStatus(p, to)
        PROVE  WriterInv'
    BY <2>2, <2>7, BeginKeepsWriterInv DEF InjectStatus
  <2>8. ASSUME NEW p \in StatusWriters, WriteStatus(p) PROVE WriterInv'
    <3>1. writer'[p].pc = "written" /\ writer'[p].to = writer[p].to
      BY <2>8 DEF WriteStatus, DevTypeOK
    <3>2. \A q \in StatusWriters : q # p => writer'[q] = writer[q]
      BY <2>8 DEF WriteStatus, DevTypeOK
    <3>3. ASSUME ~contested'
          PROVE  /\ status' = writer'[p].to
                 /\ \A q \in StatusWriters : q # p => writer'[q].pc # "written"
      BY <2>8, <3>1, <3>2, <3>3 DEF WriteStatus
    <3> QED BY <3>1, <3>3 DEF WriterInv, LastEventTells
  <2>9. ASSUME NEW p \in StatusWriters, AppendEvent(p) PROVE WriterInv'
    <3>1. writer'[p].pc = "idle"
      BY <2>9 DEF AppendEvent, NoWrite, DevTypeOK
    <3>2. \A q \in StatusWriters : q # p => writer'[q] = writer[q]
      BY <2>9 DEF AppendEvent, DevTypeOK
    <3>3. /\ writer[p].pc = "written" /\ told' = writer[p].to
          /\ UNCHANGED <<status, contested>>
      BY <2>9 DEF AppendEvent, Reported
    <3>4. ASSUME ~contested'
          PROVE  told' = status' /\ \A q \in StatusWriters : writer'[q].pc # "written"
      BY <3>1, <3>2, <3>3, <3>4 DEF WriterInv
    <3> QED BY <3>4 DEF WriterInv, LastEventTells
  <2>10. CASE ResetDevice
    <3>1. \A p \in StatusWriters : writer'[p].pc = writer[p].pc
      BY <2>10 DEF ResetDevice, DevTypeOK, NoWrite
    <3>2. ~contested' => \A p \in StatusWriters : writer'[p].pc # "written"
      BY <2>10, <3>1 DEF ResetDevice
    <3>3. told' = status'
      BY <2>10 DEF ResetDevice
    <3> QED BY <3>2, <3>3 DEF WriterInv, LastEventTells
  <2> QED BY <2>3, <2>4, <2>5, <2>6, <2>7, <2>8, <2>9, <2>10 DEF DevNext
<1>3. WriterInv => LastEventTells
  BY DEF WriterInv
<1> QED BY <1>1, <1>2, <1>3, DevTypeCorrect, PTL DEF DevSpec

\* The loop's record, and what it says of the clocks: while a heartbeat is on
\* its way no time passes.
LoopInv ==
    \/ loop = Stopped
    \/ loop.pc = "sleep" /\ loop.link = "none" /\ loop.left \in 0..Interval
    \/ loop.pc = "wait" /\ loop.link = "lost"
    \/ loop.pc = "wait" /\ loop.link \in {"sent", "answered"} /\ loop.left = ReplyWait

\* As long as heartbeats are only dropped, the loop runs, and the device was
\* heard at most one interval for each of them, and the present one, ago; what
\* is left of the present one has not passed yet.
DropInv ==
    missed < KeepTimeout =>
        \/ /\ loop.pc = "sleep" /\ loop.link = "none"
           /\ age + loop.left <= (missed + 1) * Interval
        \/ /\ loop.pc = "wait" /\ loop.link = "sent"
           /\ age <= (missed + 1) * Interval
        \/ loop.pc = "wait" /\ loop.link = "answered" /\ age = 0

\* What multiplication is needed for: the step from one dropped heartbeat to
\* the next, and the timeout itself.
LEMMA Intervals ==
    ASSUME NEW n \in Nat
    PROVE  /\ (n + 1) * Interval \in Nat
           /\ (n + 2) * Interval = (n + 1) * Interval + Interval
           /\ Interval <= (n + 1) * Interval
           /\ (KeepTimeout + 1) * Interval >= KeepTimeout
<1> USE DeviceStatusAssumption DEF DeviceStatusAssumption
<1>1. n * Interval \in Nat /\ (n + 1) * Interval = n * Interval + Interval
  OBVIOUS
<1>2. (n + 2) * Interval = n * Interval + Interval + Interval
  OBVIOUS
<1>3. KeepTimeout * Interval >= KeepTimeout
  <2>1. KeepTimeout * Interval = KeepTimeout + KeepTimeout * (Interval - 1)
    OBVIOUS
  <2>2. KeepTimeout * (Interval - 1) \in Nat
    OBVIOUS
  <2> QED BY <2>1, <2>2
<1>4. (KeepTimeout + 1) * Interval = KeepTimeout * Interval + Interval
  OBVIOUS
<1> QED BY <1>1, <1>2, <1>3, <1>4

\* Heartbeats that the simulator drops on purpose are tolerated as long as they
\* fit in the timeout, for every interval, timeout and wait for an answer.  One
\* that is lost or delayed on the network is not: nothing is said of a device
\* after a loss, a delay or a stop of its loop, until it is next heard.
THEOREM DroppedHeartbeatsTolerated == DevSpec => []DropsAreTolerated
<1> USE DeviceStatusAssumption DEF DeviceStatusAssumption
<1>1. DevInit => LoopInv /\ DropInv
  BY DEF DevInit, LoopInv, DropInv
<1>2. DevTypeOK /\ LoopInv /\ DropInv /\ [DevNext]_statusVars => LoopInv' /\ DropInv'
  <2> SUFFICES ASSUME DevTypeOK, LoopInv, DropInv, [DevNext]_statusVars
               PROVE  LoopInv' /\ DropInv'
    OBVIOUS
  <2>1. /\ age \in Nat /\ missed \in Nat /\ missed <= KeepTimeout /\ loop \in Loops
        /\ loop.left \in Nat
    BY DEF DevTypeOK, Loops, Unseen
  <2>2. Stopped.pc = "stopped" /\ Stopped.link = "none" /\ Stopped.left = 0
    BY DEF Stopped
  <2>3. /\ Sleeping.pc = "sleep" /\ Sleeping.link = "none"
        /\ Sleeping.left = Interval /\ Interval \in 0..Interval
    BY DEF Sleeping
  <2>4. ASSUME NEW l \in {"answered", "lost"}
        PROVE  LET g == [loop EXCEPT !.link = l]
               IN  g.pc = loop.pc /\ g.left = loop.left /\ g.link = l
    BY <2>1 DEF Loops
  <2>5. ASSUME missed' = KeepTimeout PROVE DropInv'
    BY <2>5 DEF DropInv
  <2>6. ASSUME UNCHANGED <<age, loop, missed>> PROVE LoopInv' /\ DropInv'
    BY <2>6 DEF LoopInv, DropInv
  <2>7. CASE StartKeepalive
    <3>1. loop = Stopped /\ loop' = Sleeping /\ UNCHANGED <<age, missed>>
      BY <2>7 DEF StartKeepalive
    <3>2. ~(missed < KeepTimeout)
      BY <2>2, <3>1 DEF DropInv
    <3> QED BY <2>3, <3>1, <3>2 DEF LoopInv, DropInv
  <2>8. CASE StopKeepalive \/ ResetDevice
    BY <2>5, <2>8 DEF StopKeepalive, ResetDevice, LoopInv
  <2>9. CASE WakeAndDrop
    <3>1. /\ loop.pc = "sleep" /\ loop.left = 0 /\ loop' = Sleeping
          /\ UNCHANGED age /\ missed' = AtMost(missed + 1)
      BY <2>9 DEF WakeAndDrop, Awake
    <3>2. LoopInv'
      BY <2>3, <3>1 DEF LoopInv
    <3>3. ASSUME missed' < KeepTimeout PROVE age + Interval <= (missed' + 1) * Interval
      <4>1. missed' = missed + 1 /\ missed < KeepTimeout
        BY <2>1, <3>1, <3>3 DEF AtMost
      <4>2. age <= (missed + 1) * Interval
        BY <2>1, <3>1, <4>1 DEF DropInv
      <4>3. missed' + 1 = missed + 2
        BY <2>1, <4>1
      <4> QED BY <2>1, <4>2, <4>3, Intervals
    <3> QED BY <2>3, <3>1, <3>2, <3>3 DEF DropInv
  <2>10. CASE WakeAndSend
    <3>1. /\ loop.pc = "sleep" /\ loop.left = 0 /\ UNCHANGED <<age, missed>>
          /\ loop'.pc = "wait" /\ loop'.left = ReplyWait /\ loop'.link = "sent"
      BY <2>10 DEF WakeAndSend, Awake
    <3> QED BY <2>1, <3>1 DEF LoopInv, DropInv
  <2>11. CASE Resume
    <3>1. /\ loop.pc = "wait"
          /\ loop.link = "answered" \/ loop.left = 0
          /\ loop' = Sleeping /\ UNCHANGED <<age, missed>>
      BY <2>11 DEF Resume
    <3>2. ASSUME missed < KeepTimeout PROVE age = 0
      BY <2>2, <3>1, <3>2 DEF LoopInv, DropInv
    <3> QED BY <2>1, <2>3, <3>1, <3>2, Intervals DEF LoopInv, DropInv
  <2>12. CASE LoseKeepalive \/ DelayKeepalive
    <3>1. /\ loop.link \in {"sent", "answered"} /\ loop' = [loop EXCEPT !.link = "lost"]
          /\ missed' = KeepTimeout
      BY <2>12 DEF LoseKeepalive, DelayKeepalive
    <3> QED BY <2>2, <2>4, <2>5, <3>1 DEF LoopInv
  <2>13. CASE HandleKeepalive
    <3>1. loop.link = "sent" /\ loop' = [loop EXCEPT !.link = "answered"] /\ age' = 0
      BY <2>13 DEF HandleKeepalive, RecordKeepalive, Seen
    <3>2. loop'.pc = "wait" /\ loop'.link = "answered" /\ loop'.left = ReplyWait
      BY <2>2, <2>4, <3>1 DEF LoopInv
    <3> QED BY <3>1, <3>2 DEF LoopInv, DropInv
  <2>14. CASE HandleLate
    <3>1. /\ UNCHANGED loop /\ age' = 0
          /\ missed' = IF loop = Stopped \/ loop.link = "lost" THEN KeepTimeout ELSE 0
      BY <2>14 DEF HandleLate, RecordKeepalive, Seen
    <3>2. CASE missed' = KeepTimeout
      BY <2>5, <3>1, <3>2 DEF LoopInv
    <3>3. CASE missed' # KeepTimeout
      <4>1. missed' = 0 /\ loop # Stopped /\ loop.link # "lost"
        BY <3>1, <3>3
      <4>2. (missed' + 1) * Interval = Interval
        BY <4>1
      <4> QED BY <2>1, <3>1, <4>1, <4>2 DEF LoopInv, DropInv
    <3> QED BY <3>2, <3>3
  <2>15. CASE PassTime
    <3>1. /\ loop.link \notin {"sent", "answered"}
          /\ loop = Stopped \/ loop.left > 0
          /\ age' = age \/ age' = age + 1
          /\ loop' = IF loop = Stopped THEN loop ELSE [loop EXCEPT !.left = @ - 1]
          /\ UNCHANGED missed
      BY <2>15 DEF PassTime, Older
    <3>2. CASE loop = Stopped
      BY <2>2, <3>1, <3>2 DEF LoopInv, DropInv
    <3>3. CASE loop # Stopped
      <4>1. loop'.pc = loop.pc /\ loop'.link = loop.link /\ loop'.left + 1 = loop.left
        BY <2>1, <3>1, <3>3 DEF Loops
      <4>2. loop'.left \in Nat /\ age' \in Nat /\ age' <= age + 1
        BY <2>1, <3>1, <3>3, <4>1 DEF Loops
      <4>3. LoopInv'
        BY <3>1, <3>3, <4>1, <4>2 DEF LoopInv
      <4>4. DropInv'
        BY <2>1, <3>1, <4>1, <4>2, Intervals DEF DropInv
      <4> QED BY <4>3, <4>4
    <3> QED BY <3>2, <3>3
  <2>16. CASE DropNextKeepalive \/ SendKeepalive \/ LoseLate \/ ExpireStale
              \/ MarkUnregistered \/ UNCHANGED statusVars
    BY <2>6, <2>16 DEF DropNextKeepalive, SendKeepalive, LoseLate, ExpireStale,
                       MarkUnregistered, statusVars
  <2>17. CASE \/ \E p \in Injectors, to \in OnlineStatus : InjectStatus(p, to)
              \/ \E p \in StatusWriters : WriteStatus(p) \/ AppendEvent(p)
    BY <2>6, <2>17 DEF InjectStatus, WriteStatus, AppendEvent
  <2> QED
    BY <2>7, <2>8, <2>9, <2>10, <2>11, <2>12, <2>13, <2>14, <2>15, <2>16, <2>17
    DEF DevNext
<1>3. DevTypeOK /\ DropInv => DropsAreTolerated
  <2> SUFFICES ASSUME DevTypeOK, DropInv, age > KeepTimeout
               PROVE  (missed + 1) * Interval >= KeepTimeout
    BY DEF DropsAreTolerated
  <2>1. /\ age \in Nat /\ missed \in Nat /\ missed <= KeepTimeout /\ loop.left \in Nat
    BY DEF DevTypeOK, Unseen
  <2>2. CASE missed = KeepTimeout
    BY <2>1, <2>2, Intervals
  <2>3. CASE missed < KeepTimeout
    <3>1. age <= (missed + 1) * Interval
      BY <2>1, <2>3, Intervals DEF DropInv
    <3> QED BY <2>1, <3>1, Intervals
  <2> QED BY <2>1, <2>2, <2>3
<1> QED BY <1>1, <1>2, <1>3, DevTypeCorrect, PTL DEF DevSpec
=============================================================================
