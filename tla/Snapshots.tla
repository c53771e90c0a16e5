------------------------------ MODULE Snapshots ------------------------------
(***************************************************************************)
(* Inventory snapshots: paging through the devices or the channels of a    *)
(* device under a snapshotToken that is bound to a fingerprint of the      *)
(* inventory (ProviderService.begin_or_continue_snapshot, service.py).     *)
(*                                                                         *)
(* The list routes and the injections of a status run in threads; the      *)
(* other writers and reset run on the event loop, one at a time.  No lock  *)
(* is taken, so threads and loop interleave between any two statements.    *)
(* A writer is a set of statements it has still to execute.  The increment *)
(* in next_revision is one step: the interpreter switches threads at calls *)
(* and jumps only.  The digest is not modelled: a fingerprint is what goes *)
(* into it.  Of a device the status is kept, which its revision stands     *)
(* for; the channels are named in the fingerprint itself, and UNKNOWN is   *)
(* treated like OFFLINE.  A sync that reset overtook only draws revisions, *)
(* as an injection that reset overtook does.                               *)
(***************************************************************************)
EXTENDS Naturals

CONSTANTS
    Inventory,   \* ids of the devices
    Tokens,      \* snapshot tokens
    Injectors,   \* threads that inject a status
    MaxSeq       \* bound: a writer begins only while event_seq is below it

ASSUME SnapshotAssumption == MaxSeq \in Nat /\ "loop" \notin Injectors

VARIABLES
    seq,       \* Store.event_seq
    items,     \* online_status and revision of each device in Store.devices
    rounds,    \* _snapshot_rounds: what was bound to each token in use
    spent,     \* tokens handed out so far: a token is never drawn twice
    reader,    \* a list route in its thread
    writer,    \* the writers of the devices, each with its local values
    clearing   \* where ProviderService.reset is

snapVars == <<seq, items, rounds, spent, reader, writer, clearing>>

Writers == Injectors \union {"loop"}

Statement == {"status", "draw", "assign", "event"}

Shown == {"ONLINE", "OFFLINE"}

\* The scenario gives every device revision 1; "none" is no device.
Seeded == [status |-> "ONLINE", rev |-> 1]

Absent == [status |-> "none", rev |-> 0]

Item == [status : Shown, rev : Nat] \union {Absent}

\* A writer marks a device (the status, then the revision), brings it back (the
\* revision, then the status), or touches it (only the revision).
Writing == [kind : {"mark", "back", "touch"}, d : Inventory, to : Shown,
            todo : SUBSET Statement, rev : Nat, orphan : BOOLEAN]

NotWriting == [todo |-> {}]

\* A fingerprint: event_seq and the revisions, and, as history, the status of
\* every device when it was read and the devices that were half changed then.
\* One of two scenarios may be anything, and so may what is compared with it.
Fingerprint == [seq : Nat, revs : [Inventory -> Nat],
                seen : [Inventory -> Shown \union {"none"}], half : SUBSET Inventory]

Overtaken == [seq |-> "any"]

Unbound == [seq |-> "none"]

Resting == [pc |-> "idle"]

Raced == [pc |-> "raced"]

Reading == [pc : {"seq", "list", "page"}, token : Tokens \union {"none"},
            todo : SUBSET Inventory, moved : BOOLEAN, fp : Fingerprint]

SnapTypeOK ==
    /\ seq \in Nat
    /\ items \in [Inventory -> Item]
    /\ \A t \in Tokens : rounds[t] \in {Unbound, Overtaken} \/ rounds[t] \in Fingerprint
    /\ spent \subseteq Tokens
    /\ reader \in {Resting, Raced} \/ reader \in Reading
    /\ \A p \in Writers : writer[p] = NotWriting \/ writer[p] \in Writing
    /\ clearing \in {"no", "cleared", "zeroed", "seeding"}

SnapInit ==
    /\ seq = 0
    /\ items = [d \in Inventory |-> Seeded]
    /\ rounds = [t \in Tokens |-> Unbound]
    /\ spent = {}
    /\ reader = Resting
    /\ writer = [p \in Writers |-> NotWriting]
    /\ clearing = "no"

-----------------------------------------------------------------------------
(* Writers begin *)

WriterStarts(p, kind, d, to, statements) ==
    /\ writer[p] = NotWriting /\ items[d] # Absent
    /\ seq < MaxSeq
    /\ writer' = [writer EXCEPT ![p] =
                    [kind |-> kind, d |-> d, to |-> to, todo |-> statements,
                     rev |-> 0, orphan |-> FALSE]]
    /\ UNCHANGED <<seq, items, rounds, spent, reader, clearing>>

\* set_device_online_status in a thread.
InjectBegin(p, d, to) == WriterStarts(p, "mark", d, to, Statement)

LoopBegins(kind, d, to, statements) ==
    clearing = "no" /\ WriterStarts("loop", kind, d, to, statements)

\* set_device_online_status on the event loop, after an unregistration.
Unregister(d) == LoopBegins("mark", d, "OFFLINE", Statement)

\* expire_stale_devices
FallSilent(d) ==
    items[d].status = "ONLINE" /\ LoopBegins("mark", d, "OFFLINE", Statement)

\* record_keepalive, which looks at the status first.
Heartbeat(d) ==
    IF items[d].status = "ONLINE"
    THEN LoopBegins("touch", d, "ONLINE", {"draw", "assign"})
    ELSE LoopBegins("back", d, "ONLINE", Statement)

\* A catalog sync has found its channels.  Their revisions are left out.
SyncDone(d) == LoopBegins("touch", d, "ONLINE", {"draw", "assign", "event"})

-----------------------------------------------------------------------------
(* Their statements.  A device that reset has replaced is not in the        *)
(* inventory any more.                                                      *)

Has(p, s) == s \in writer[p].todo

Left(p, s) == writer' = [writer EXCEPT ![p].todo = @ \ {s}]

SetStatus(p) ==
    /\ Has(p, "status") /\ (writer[p].kind = "back" => ~Has(p, "assign"))
    /\ items' = IF writer[p].orphan THEN items
                ELSE [items EXCEPT ![writer[p].d].status = writer[p].to]
    /\ Left(p, "status")
    /\ UNCHANGED <<seq, rounds, spent, reader, clearing>>

DrawRevision(p) ==
    /\ Has(p, "draw") /\ (writer[p].kind = "mark" => ~Has(p, "status"))
    /\ seq' = seq + 1
    /\ writer' = [writer EXCEPT ![p].todo = @ \ {"draw"}, ![p].rev = seq + 1]
    /\ UNCHANGED <<items, rounds, spent, reader, clearing>>

AssignRevision(p) ==
    /\ Has(p, "assign") /\ ~Has(p, "draw")
    /\ items' = IF writer[p].orphan THEN items
                ELSE [items EXCEPT ![writer[p].d].rev = writer[p].rev]
    /\ IF writer[p].todo = {"assign"}
       THEN writer' = [writer EXCEPT ![p] = NotWriting]
       ELSE writer' = [writer EXCEPT ![p].todo = @ \ {"assign"}, ![p].rev = 0]
    /\ UNCHANGED <<seq, rounds, spent, reader, clearing>>

\* record_event draws another revision.
RecordEvent(p) ==
    /\ writer[p].todo = {"event"}
    /\ seq' = seq + 1
    /\ writer' = [writer EXCEPT ![p] = NotWriting]
    /\ UNCHANGED <<items, rounds, spent, reader, clearing>>

\* What a writer does to a device: its status, its revision, or both.
Changes(kind) == IF kind = "touch" THEN {"draw", "assign"}
                                   ELSE {"status", "draw", "assign"}

\* The writer has begun to change its device, and is not done.
Halfway(p) ==
    /\ writer[p] # NotWriting /\ ~writer[p].orphan
    /\ writer[p].todo \intersect Changes(writer[p].kind)
         \notin {{}, Changes(writer[p].kind)}

HalfChanged == {d \in Inventory : \E p \in Writers : Halfway(p) /\ writer[p].d = d}

-----------------------------------------------------------------------------
(* A list route in its thread *)

\* The reader starts a round, or goes on with a token it was given.
ReadSeq(t) ==
    /\ reader = Resting
    /\ t \in spent \/ (t = "none" /\ spent # Tokens)
    /\ reader' = [pc |-> "seq", token |-> t, todo |-> {}, moved |-> FALSE,
                  fp |-> [seq |-> seq, revs |-> [d \in Inventory |-> 0],
                          seen |-> [d \in Inventory |-> "none"], half |-> {}]]
    /\ UNCHANGED <<seq, items, rounds, spent, writer, clearing>>

\* sorted(self.store.devices.values())
ListDevices ==
    /\ reader.pc = "seq"
    /\ reader' = [reader EXCEPT !.pc = "list",
                                !.todo = {d \in Inventory : items[d] # Absent}]
    /\ UNCHANGED <<seq, items, rounds, spent, writer, clearing>>

ReadDevice(d) ==
    /\ reader.pc = "list" /\ d \in reader.todo
    /\ reader' = [reader EXCEPT !.todo = @ \ {d},
                                !.moved = @ \/ seq # reader.fp.seq,
                                !.fp.revs[d] = items[d].rev,
                                !.fp.seen[d] = items[d].status,
                                !.fp.half = @ \union ({d} \intersect HalfChanged)]
    /\ UNCHANGED <<seq, items, rounds, spent, writer, clearing>>

Fingerprinted == reader.pc = "list" /\ reader.todo = {}

BeginRound(t) ==
    /\ Fingerprinted /\ reader.token = "none" /\ t \notin spent
    /\ rounds' = [rounds EXCEPT ![t] = reader.fp]
    /\ spent' = spent \union {t}
    /\ reader' = Resting
    /\ UNCHANGED <<seq, items, writer, clearing>>

\* Mutation of Admitted: event_seq is left out of the fingerprint.
AdmittedByRevisions(r) == r \notin {Unbound, Overtaken} /\ r.revs = reader.fp.revs

Admitted(r) ==
    /\ r \notin {Unbound, Overtaken}
    /\ r.seq = reader.fp.seq /\ r.revs = reader.fp.revs

ContinueRound ==
    /\ Fingerprinted /\ reader.token # "none" /\ Admitted(rounds[reader.token])
    /\ reader' = [reader EXCEPT !.pc = "page"]
    /\ UNCHANGED <<seq, items, rounds, spent, writer, clearing>>

\* 409 VIDEO_CATALOG_SNAPSHOT_EXPIRED; a round of two scenarios may be refused or
\* not, which makes no difference here.
RefuseRound ==
    /\ Fingerprinted /\ reader.token # "none" /\ ~Admitted(rounds[reader.token])
    /\ reader' = Resting
    /\ UNCHANGED <<seq, items, rounds, spent, writer, clearing>>

\* The page is cut from the inventory as it is by now.
ReadPage ==
    /\ reader.pc = "page"
    /\ reader' = Resting
    /\ UNCHANGED <<seq, items, rounds, spent, writer, clearing>>

\* A reader that reset overtook has a fingerprint of two scenarios.  It is bound
\* to a new token, or compared with what its token is bound to.
EndRaced ==
    /\ reader = Raced /\ reader' = Resting
    /\ \/ UNCHANGED <<rounds, spent>>
       \/ \E t \in Tokens \ spent : /\ rounds' = [rounds EXCEPT ![t] = Overtaken]
                                    /\ spent' = spent \union {t}
    /\ UNCHANGED <<seq, items, writer, clearing>>

-----------------------------------------------------------------------------
(* ProviderService.reset, on the event loop.  The threads go on with what   *)
(* they have.                                                               *)

\* What a reader has read so far is of the old scenario.
RaceReader == reader' = IF reader.pc \in {"seq", "list"} THEN Raced ELSE reader

ResetDevices ==
    /\ clearing = "no" /\ writer["loop"] = NotWriting
    /\ clearing' = "cleared"
    /\ items' = [d \in Inventory |-> Absent]
    /\ writer' = [p \in Writers |-> IF writer[p] = NotWriting THEN NotWriting
                                    ELSE [writer[p] EXCEPT !.orphan = TRUE]]
    /\ RaceReader
    /\ UNCHANGED <<seq, rounds, spent>>

ResetCounter ==
    /\ clearing = "cleared" /\ clearing' = "zeroed"
    /\ seq' = 0
    /\ RaceReader
    /\ UNCHANGED <<items, rounds, spent, writer>>

\* clear_snapshots
ResetRounds ==
    /\ clearing = "zeroed" /\ clearing' = "seeding"
    /\ rounds' = [t \in Tokens |-> Unbound]
    /\ UNCHANGED <<seq, items, spent, reader, writer>>

\* seed_scenario, one device after the other.
SeedDevice(d) ==
    /\ clearing = "seeding" /\ items[d] = Absent
    /\ items' = [items EXCEPT ![d] = Seeded]
    /\ clearing' = IF \E e \in Inventory \ {d} : items[e] = Absent
                   THEN "seeding" ELSE "no"
    /\ UNCHANGED <<seq, rounds, spent, reader, writer>>

-----------------------------------------------------------------------------
WriterBegins ==
    \/ \E p \in Injectors, d \in Inventory, to \in Shown : InjectBegin(p, d, to)
    \/ \E d \in Inventory : Unregister(d) \/ FallSilent(d) \/ Heartbeat(d) \/ SyncDone(d)

WriterStep ==
    \E p \in Writers : SetStatus(p) \/ DrawRevision(p) \/ AssignRevision(p) \/ RecordEvent(p)

ReaderStep ==
    \/ \E t \in Tokens \union {"none"} : ReadSeq(t)
    \/ ListDevices \/ \E d \in Inventory : ReadDevice(d)
    \/ \E t \in Tokens : BeginRound(t)
    \/ ContinueRound \/ RefuseRound \/ ReadPage \/ EndRaced

ResetStep ==
    ResetDevices \/ ResetCounter \/ ResetRounds \/ \E d \in Inventory : SeedDevice(d)

SnapNext == WriterBegins \/ WriterStep \/ ReaderStep \/ ResetStep

SnapSpec == SnapInit /\ [][SnapNext]_snapVars

-----------------------------------------------------------------------------
(* Properties *)

\* A token that is accepted stands for the inventory it was handed out for:
\* when its revision was compared, every device showed what it showed when the
\* token's fingerprint was taken, whatever writers did in between.  Not covered
\* are a device that a writer had begun to change, and not finished, at one of
\* the two readings; a fingerprint that reset overtook; and a reader that took
\* event_seq before the first change of a scenario and a revision after it:
\* that change draws the revision 1 of the seeded device.  What the page shows
\* is read after the comparison.
TokenMeansUnchanged ==
    reader.pc = "page" =>
        LET r == rounds[reader.token]
        IN  r # Unbound /\ ~(reader.moved /\ reader.fp.seq = 0) =>
              \A d \in Inventory : \/ reader.fp.seen[d] = r.seen[d]
                                   \/ d \in r.half \union reader.fp.half
=============================================================================
