--------------------------- MODULE ProviderProofs ---------------------------
(***************************************************************************)
(* Proofs about the Provider's tables: inventory snapshots, for any        *)
(* devices, tokens and number of changes, RTP ports, for any range and     *)
(* streams, and the three tables of MCProvider together.                   *)
(***************************************************************************)
EXTENDS MCProvider, RegistrationProofs

-----------------------------------------------------------------------------
(* Snapshots *)

\* SnapTypeOK with every variable in full.  A writer that reset did not overtake
\* has a device in the inventory.
SnapTypes ==
    /\ seq \in Nat
    /\ items \in [Inventory -> Item]
    /\ rounds \in [Tokens -> Fingerprint \union {Unbound, Overtaken}]
    /\ spent \subseteq Tokens
    /\ reader \in {Resting, Raced} \/ reader \in Reading
    /\ writer \in [Writers -> Writing \union {NotWriting}]
    /\ clearing \in {"no", "cleared", "zeroed", "seeding"}
    /\ \A p \in Writers : writer[p] # NotWriting /\ ~writer[p].orphan =>
          items[writer[p].d] # Absent

\* The statements a writer has left are the last ones of its order.
InOrder(p) ==
    /\ Has(p, "draw") => Has(p, "assign")
    /\ Has(p, "status") /\ writer[p].kind # "back" =>
          writer[p].kind = "mark" /\ Has(p, "draw")

\* The writer changes this device of the present inventory.
On(p, d) == writer[p] # NotWriting /\ ~writer[p].orphan /\ writer[p].d = d

\* The writer has drawn a revision and not assigned it.
Pending(p) == Has(p, "assign") /\ ~Has(p, "draw")

\* The writer has assigned the revision and not set the status it stands for.
LateBack(p) == writer[p].kind = "back" /\ Has(p, "status") /\ ~Has(p, "assign")

\* What holds of the devices and their writers in every state.
WritersInOrder ==
    /\ \A p \in Writers : InOrder(p)
    /\ \A p \in Writers, d \in Inventory :
          On(p, d) /\ Pending(p) => writer[p].rev \in 1..seq
    /\ \A d \in Inventory : items[d].rev <= seq \/ items[d].rev <= 1
    /\ \A d \in Inventory : items[d].rev = 0 => items[d] = Absent
    /\ clearing \in {"cleared", "zeroed"} =>
          \A d \in Inventory : items[d] = Absent /\ \A p \in Writers : ~On(p, d)

\* TokenMeansUnchanged is not inductive: it rests on what every fingerprint that
\* is bound to a token, or is about to be, says of the present inventory and of
\* the writers on their way, and, until the page is cut, on what the reader has
\* seen of a round with the same fingerprint.
\*
\* What a fingerprint says of a device later in its scenario: a device with the
\* same revision shows the same, and no writer is about to give it the same
\* revision or another status.
Bind(f, d) ==
    \/ d \in f.half
    \/ f.seq = 0 /\ seq # 0
    \/ /\ \A p \in Writers : On(p, d) /\ Pending(p) => writer[p].rev # f.revs[d]
       /\ items[d].rev = f.revs[d] =>
            /\ items[d].status = f.seen[d] \/ d \in HalfChanged
            /\ \A p \in Writers : On(p, d) => ~LateBack(p)

\* A device that was not in the inventory has no revision.
Blank(f, d) == f.revs[d] = 0 => f.seen[d] = "none"

Bound(f) == \A d \in Inventory : Blank(f, d) /\ Bind(f, d)

\* Nothing in the fingerprint is newer than event_seq, but for the seeded revision.
Counted(f) == f.seq <= seq /\ \A d \in Inventory : f.revs[d] <= seq \/ f.revs[d] <= 1

\* A device that is still to be seeded is not in the fingerprint.
Unseeded(f) == \A d \in Inventory : items[d] = Absent => f.revs[d] = 0

\* A fingerprint that is bound to a token.
Kept(f) ==
    /\ Bound(f)
    /\ clearing # "zeroed" => Counted(f)
    /\ clearing = "seeding" => Unseeded(f)

\* What the reader has seen agrees with a fingerprint that is the same.
Agrees(r) ==
    r.seq = reader.fp.seq /\ ~(reader.moved /\ reader.fp.seq = 0) =>
      \A d \in Inventory : reader.fp.revs[d] = r.revs[d] =>
          reader.fp.seen[d] = r.seen[d] \/ d \in r.half \union reader.fp.half

SnapInv ==
    /\ \A t \in Tokens : rounds[t] \notin {Unbound, Overtaken} => Kept(rounds[t])
    /\ reader.pc \in {"seq", "list"} =>
          Bound(reader.fp) /\ Counted(reader.fp) /\ Unseeded(reader.fp)
    /\ reader.pc \in {"seq", "list", "page"} /\ reader.token \in Tokens =>
          rounds[reader.token] \in {Unbound, Overtaken} \/ Agrees(rounds[reader.token])
    /\ reader.pc = "page" =>
          /\ reader.token \in Tokens
          /\ rounds[reader.token] = Unbound \/ Admitted(rounds[reader.token])

-----------------------------------------------------------------------------
\* The records that are not types of SnapTypes.
LEMMA SnapRecords ==
  /\ Resting.pc = "idle" /\ Raced.pc = "raced" /\ NotWriting.todo = {}
  /\ \A r \in Reading : r.pc \in {"seq", "list", "page"}
BY DEF Resting, Raced, Reading, NotWriting

\* A writer with a statement left is in its record.
LEMMA HasIsWriting ==
  ASSUME SnapTypes, NEW p \in Writers, NEW s, Has(p, s)
  PROVE  /\ writer[p] \in Writing /\ writer[p] # NotWriting
         /\ writer[p].d \in Inventory /\ writer[p].to \in Shown
         /\ writer[p].rev \in Nat /\ writer[p].orphan \in BOOLEAN
         /\ writer[p].kind \in {"mark", "back", "touch"}
         /\ writer[p].todo \subseteq Statement
<1>1. writer[p] \in Writing \union {NotWriting}
  BY DEF SnapTypes
<1>2. writer[p] # NotWriting
  BY SnapRecords DEF Has
<1> QED BY <1>1, <1>2 DEF Writing

\* What a writer that begins leaves.
LEMMA StartedWriter ==
  ASSUME SnapTypes, NEW p \in Writers, NEW kind \in {"mark", "back", "touch"},
         NEW d \in Inventory, NEW to \in Shown, NEW todo \in SUBSET Statement,
         WriterStarts(p, kind, d, to, todo)
  PROVE  /\ writer' \in [Writers -> Writing \union {NotWriting}]
         /\ writer'[p] = [kind |-> kind, d |-> d, to |-> to, todo |-> todo,
                          rev |-> 0, orphan |-> FALSE]
         /\ \A q \in Writers \ {p} : writer'[q] = writer[q]
<1>1. [kind |-> kind, d |-> d, to |-> to, todo |-> todo, rev |-> 0,
       orphan |-> FALSE] \in Writing
  BY DEF Writing
<1> QED BY <1>1 DEF WriterStarts, SnapTypes

\* Every writer that begins has all the statements of its kind to execute.
LEMMA WriterBeginsAs ==
  ASSUME WriterBegins
  PROVE  \E p \in Writers, d \in Inventory, to \in Shown :
           \/ WriterStarts(p, "mark", d, to, Statement)
           \/ WriterStarts(p, "back", d, to, Statement)
           \/ WriterStarts(p, "touch", d, to, {"draw", "assign"})
           \/ WriterStarts(p, "touch", d, to, {"draw", "assign", "event"})
<1>1. "loop" \in Writers /\ Injectors \subseteq Writers /\ {"ONLINE", "OFFLINE"} = Shown
  BY DEF Writers, Shown
<1>2. ASSUME NEW p \in Injectors, NEW d \in Inventory, NEW to \in Shown, InjectBegin(p, d, to)
      PROVE  \E q \in Writers, e \in Inventory, s \in Shown :
               WriterStarts(q, "mark", e, s, Statement)
  BY <1>1, <1>2 DEF InjectBegin
<1>3. ASSUME NEW d \in Inventory, Unregister(d) \/ FallSilent(d)
      PROVE  WriterStarts("loop", "mark", d, "OFFLINE", Statement)
  BY <1>3 DEF Unregister, FallSilent, LoopBegins
<1>4. ASSUME NEW d \in Inventory, Heartbeat(d)
      PROVE  \/ WriterStarts("loop", "back", d, "ONLINE", Statement)
             \/ WriterStarts("loop", "touch", d, "ONLINE", {"draw", "assign"})
  BY <1>4 DEF Heartbeat, LoopBegins
<1>5. ASSUME NEW d \in Inventory, SyncDone(d)
      PROVE  WriterStarts("loop", "touch", d, "ONLINE", {"draw", "assign", "event"})
  BY <1>5 DEF SyncDone, LoopBegins
<1> QED BY <1>1, <1>2, <1>3, <1>4, <1>5 DEF WriterBegins

\* A writer that goes on stays in its record, or is done.
LEMMA StatementDone ==
  ASSUME SnapTypes, NEW p \in Writers,
         SetStatus(p) \/ DrawRevision(p) \/ AssignRevision(p) \/ RecordEvent(p)
  PROVE  /\ writer' \in [Writers -> Writing \union {NotWriting}]
         /\ writer[p] # NotWriting /\ writer[p] \in Writing
         /\ \A q \in Writers \ {p} : writer'[q] = writer[q]
         /\ writer'[p] # NotWriting =>
              /\ writer'[p].d = writer[p].d /\ writer'[p].orphan = writer[p].orphan
              /\ writer'[p].kind = writer[p].kind
<1>0. writer \in [Writers -> Writing \union {NotWriting}] /\ seq \in Nat
  BY DEF SnapTypes
<1>1. writer[p] \in Writing /\ writer[p] # NotWriting
  BY HasIsWriting DEF SetStatus, DrawRevision, AssignRevision, RecordEvent, Has
<1>2. ASSUME NEW s, NEW n \in Nat,
             \/ writer' = [writer EXCEPT ![p].todo = @ \ {s}]
             \/ writer' = [writer EXCEPT ![p].todo = @ \ {s}, ![p].rev = n]
      PROVE  /\ writer'[p] \in Writing
             /\ writer'[p].d = writer[p].d /\ writer'[p].orphan = writer[p].orphan
             /\ writer'[p].kind = writer[p].kind
             /\ writer' \in [Writers -> Writing \union {NotWriting}]
             /\ \A q \in Writers \ {p} : writer'[q] = writer[q]
  BY <1>0, <1>1, <1>2 DEF Writing
<1>3. ASSUME writer' = [writer EXCEPT ![p] = NotWriting]
      PROVE  /\ writer' \in [Writers -> Writing \union {NotWriting}]
             /\ \A q \in Writers \ {p} : writer'[q] = writer[q]
             /\ writer'[p] = NotWriting
  BY <1>0, <1>3
<1>4. CASE SetStatus(p)
  BY <1>1, <1>2, <1>4 DEF SetStatus, Left
<1>5. CASE DrawRevision(p)
  <2>1. PICK n \in Nat : n = seq + 1
    BY <1>0
  <2>2. writer' = [writer EXCEPT ![p].todo = @ \ {"draw"}, ![p].rev = n]
    BY <1>5, <2>1 DEF DrawRevision
  <2> QED BY <1>1, <1>2, <2>2
<1>6. CASE AssignRevision(p)
  BY <1>1, <1>2, <1>3, <1>6 DEF AssignRevision
<1>7. CASE RecordEvent(p)
  BY <1>1, <1>3, <1>7 DEF RecordEvent
<1> QED BY <1>4, <1>5, <1>6, <1>7

\* What a statement does to the inventory.
LEMMA StatementChanges ==
  ASSUME SnapTypes, WritersInOrder, NEW p \in Writers,
         SetStatus(p) \/ DrawRevision(p) \/ AssignRevision(p) \/ RecordEvent(p)
  PROVE  /\ items' \in [Inventory -> Item]
         /\ \A d \in Inventory : items'[d] = Absent <=> items[d] = Absent
<1>0. /\ items \in [Inventory -> Item] /\ writer[p].d \in Inventory
      /\ writer[p].to \in Shown /\ writer[p].rev \in Nat
      /\ ~writer[p].orphan => items[writer[p].d] # Absent
  BY StatementDone DEF SnapTypes, Writing
<1>1. CASE items' = items
  BY <1>0, <1>1
<1>2. CASE ~writer[p].orphan
  <2>1. items[writer[p].d] \in [status : Shown, rev : Nat]
    BY <1>0, <1>2 DEF Item
  <2>2. CASE items' = [items EXCEPT ![writer[p].d].status = writer[p].to]
    <3>1. /\ items'[writer[p].d] \in [status : Shown, rev : Nat]
          /\ \A d \in Inventory : d # writer[p].d => items'[d] = items[d]
      BY <1>0, <2>1, <2>2
    <3>2. items' \in [Inventory -> Item]
      BY <1>0, <2>2, <3>1 DEF Item
    <3>3. Absent \notin [status : Shown, rev : Nat]
      BY DEF Absent, Shown
    <3> QED BY <1>0, <2>1, <3>1, <3>2, <3>3
  <2>3. CASE items' = [items EXCEPT ![writer[p].d].rev = writer[p].rev]
    <3>1. /\ items'[writer[p].d] \in [status : Shown, rev : Nat]
          /\ \A d \in Inventory : d # writer[p].d => items'[d] = items[d]
      BY <1>0, <2>1, <2>3
    <3>2. items' \in [Inventory -> Item]
      BY <1>0, <2>3, <3>1 DEF Item
    <3>3. Absent \notin [status : Shown, rev : Nat]
      BY DEF Absent, Shown
    <3> QED BY <1>0, <2>1, <3>1, <3>2, <3>3
  <2>4. CASE items' = items
    BY <1>1, <2>4
  <2> QED BY <1>2, <2>2, <2>3, <2>4 DEF SetStatus, DrawRevision, AssignRevision, RecordEvent
<1> QED BY <1>1, <1>2 DEF SetStatus, DrawRevision, AssignRevision, RecordEvent

\* The fingerprint a reader starts with, and what reading a device makes of it.
LEMMA FingerprintTypes ==
  ASSUME SnapTypes
  PROVE  /\ [seq |-> seq, revs |-> [d \in Inventory |-> 0],
             seen |-> [d \in Inventory |-> "none"], half |-> {}] \in Fingerprint
         /\ \A f \in Fingerprint, d \in Inventory, h \in SUBSET Inventory :
              [f EXCEPT !.revs[d] = items[d].rev, !.seen[d] = items[d].status,
                        !.half = @ \union h] \in Fingerprint
<1>1. \A d \in Inventory : items[d].rev \in Nat /\ items[d].status \in Shown \union {"none"}
  BY DEF SnapTypes, Item, Absent
<1>2. seq \in Nat
  BY DEF SnapTypes
<1> QED BY <1>1, <1>2 DEF Fingerprint

\* The types are inductive.
LEMMA SnapTypesStep ==
  ASSUME SnapTypes, WritersInOrder, [SnapNext]_snapVars PROVE SnapTypes'
<1>0. /\ seq \in Nat /\ items \in [Inventory -> Item]
      /\ rounds \in [Tokens -> Fingerprint \union {Unbound, Overtaken}]
      /\ spent \subseteq Tokens
      /\ reader \in {Resting, Raced} \/ reader \in Reading
      /\ writer \in [Writers -> Writing \union {NotWriting}]
      /\ clearing \in {"no", "cleared", "zeroed", "seeding"}
  BY DEF SnapTypes
<1>1. CASE WriterBegins
  <2>1. PICK p \in Writers, d \in Inventory, to \in Shown,
             kind \in {"mark", "back", "touch"}, todo \in SUBSET Statement :
               WriterStarts(p, kind, d, to, todo)
    BY <1>1, WriterBeginsAs DEF Statement
  <2>2. /\ writer' \in [Writers -> Writing \union {NotWriting}]
        /\ writer'[p].d = d /\ \A q \in Writers \ {p} : writer'[q] = writer[q]
    <3>1. /\ writer' \in [Writers -> Writing \union {NotWriting}]
          /\ writer'[p] = [kind |-> kind, d |-> d, to |-> to, todo |-> todo,
                           rev |-> 0, orphan |-> FALSE]
          /\ \A q \in Writers \ {p} : writer'[q] = writer[q]
      BY <2>1, StartedWriter
    <3> QED BY <3>1
  <2>3. /\ items[d] # Absent
        /\ UNCHANGED <<seq, items, rounds, spent, reader, clearing>>
    BY <2>1 DEF WriterStarts
  <2> QED BY <1>0, <2>2, <2>3 DEF SnapTypes
<1>2. ASSUME NEW p \in Writers,
             SetStatus(p) \/ DrawRevision(p) \/ AssignRevision(p) \/ RecordEvent(p)
      PROVE  SnapTypes'
  <2>1. seq' \in Nat /\ UNCHANGED <<rounds, spent, reader, clearing>>
    BY <1>0, <1>2 DEF SetStatus, DrawRevision, AssignRevision, RecordEvent
  <2>2. \A q \in Writers : writer'[q] # NotWriting /\ ~writer'[q].orphan =>
          items'[writer'[q].d] # Absent
    <3>1. ASSUME NEW q \in Writers, writer'[q] # NotWriting, ~writer'[q].orphan
          PROVE  items[writer'[q].d] # Absent /\ writer'[q].d \in Inventory
      <4>1. /\ writer[q] # NotWriting /\ writer'[q].orphan = writer[q].orphan
            /\ writer'[q].d = writer[q].d
        BY <1>2, <3>1, StatementDone
      <4> QED BY <1>0, <3>1, <4>1 DEF SnapTypes, Writing
    <3> QED BY <1>2, <3>1, StatementChanges
  <2> QED BY <1>0, <1>2, <2>1, <2>2, StatementDone, StatementChanges DEF SnapTypes
<1>3. CASE ReaderStep
  <2>1. /\ UNCHANGED <<seq, items, writer, clearing>>
        /\ \/ reader' = Resting
           \/ UNCHANGED <<rounds, spent>>
    BY <1>3 DEF ReaderStep, ReadSeq, ListDevices, ReadDevice, BeginRound,
                ContinueRound, RefuseRound, ReadPage, EndRaced
  <2>2. reader' \in {Resting, Raced} \/ reader' \in Reading
    <3>1. ASSUME NEW t \in Tokens \union {"none"}, ReadSeq(t) PROVE reader' \in Reading
      BY <3>1, FingerprintTypes DEF ReadSeq, Reading
    <3>2. CASE ListDevices
      <4>1. reader \in Reading
        BY <1>0, <3>2, SnapRecords DEF ListDevices
      <4> QED BY <3>2, <4>1 DEF ListDevices, Reading
    <3>3. ASSUME NEW d \in Inventory, ReadDevice(d) PROVE reader' \in Reading
      <4>1. reader \in Reading
        BY <1>0, <3>3, SnapRecords DEF ReadDevice
      <4>2. reader.fp \in Fingerprint /\ reader.pc = "list"
            /\ reader.token \in Tokens \union {"none"} /\ reader.moved \in BOOLEAN
            /\ reader.todo \subseteq Inventory
        BY <3>3, <4>1 DEF Reading, ReadDevice
      <4>3. PICK h \in SUBSET Inventory : h = {d} \intersect HalfChanged
        OBVIOUS
      <4>4. PICK fp \in Fingerprint :
              fp = [reader.fp EXCEPT !.revs[d] = items[d].rev, !.seen[d] = items[d].status,
                                     !.half = @ \union h]
        BY <4>2, FingerprintTypes
      <4>5. reader' = [pc |-> "list", token |-> reader.token, todo |-> reader.todo \ {d},
                       moved |-> (reader.moved \/ seq # reader.fp.seq), fp |-> fp]
        BY <3>3, <4>1, <4>2, <4>3, <4>4 DEF ReadDevice, Reading, Fingerprint
      <4>6. (reader.moved \/ seq # reader.fp.seq) \in BOOLEAN
        BY <4>2
      <4> QED BY <4>2, <4>5, <4>6 DEF Reading
    <3>4. CASE ContinueRound
      <4>1. reader \in Reading
        BY <1>0, <3>4, SnapRecords DEF ContinueRound, Fingerprinted
      <4> QED BY <3>4, <4>1 DEF ContinueRound, Reading
    <3>5. ASSUME RefuseRound \/ ReadPage \/ EndRaced \/ \E t \in Tokens : BeginRound(t)
          PROVE  reader' = Resting
      BY <3>5 DEF RefuseRound, ReadPage, EndRaced, BeginRound
    <3> QED BY <1>3, <3>1, <3>2, <3>3, <3>4, <3>5 DEF ReaderStep
  <2>3. /\ rounds' \in [Tokens -> Fingerprint \union {Unbound, Overtaken}]
        /\ spent' \subseteq Tokens
    <3>1. ASSUME NEW t \in Tokens, BeginRound(t)
          PROVE  rounds' \in [Tokens -> Fingerprint \union {Unbound, Overtaken}]
                 /\ spent' \subseteq Tokens
      <4>1. reader.fp \in Fingerprint
        BY <1>0, <3>1, SnapRecords DEF BeginRound, Fingerprinted, Reading
      <4> QED BY <1>0, <3>1, <4>1 DEF BeginRound
    <3>2. CASE EndRaced
      BY <1>0, <3>2 DEF EndRaced
    <3>3. CASE UNCHANGED <<rounds, spent>>
      BY <1>0, <3>3
    <3> QED BY <1>3, <3>1, <3>2, <3>3
        DEF ReaderStep, ReadSeq, ListDevices, ReadDevice, ContinueRound, RefuseRound, ReadPage
  <2> QED BY <1>0, <2>1, <2>2, <2>3 DEF SnapTypes
<1>4. CASE ResetStep
  <2>1. CASE ResetDevices
    <3>1. items' \in [Inventory -> Item]
      BY <2>1 DEF ResetDevices, Item
    <3>2. \A p \in Writers : [writer[p] EXCEPT !.orphan = TRUE] \in Writing
                             \/ writer[p] = NotWriting
      BY <1>0 DEF Writing
    <3>3. writer' \in [Writers -> Writing \union {NotWriting}]
      BY <2>1, <3>2 DEF ResetDevices
    <3>4. \A p \in Writers : writer'[p] = NotWriting \/ writer'[p].orphan
      BY <1>0, <2>1 DEF ResetDevices, Writing
    <3>5. reader' \in {Resting, Raced} \/ reader' \in Reading
      BY <1>0, <2>1 DEF ResetDevices, RaceReader
    <3> QED BY <1>0, <2>1, <3>1, <3>3, <3>4, <3>5 DEF ResetDevices, SnapTypes
  <2>2. CASE ResetCounter
    <3>1. reader' \in {Resting, Raced} \/ reader' \in Reading
      BY <1>0, <2>2 DEF ResetCounter, RaceReader
    <3> QED BY <1>0, <2>2, <3>1 DEF ResetCounter, SnapTypes
  <2>3. CASE ResetRounds
    BY <1>0, <2>3 DEF ResetRounds, SnapTypes
  <2>4. ASSUME NEW d \in Inventory, SeedDevice(d) PROVE SnapTypes'
    <3>1. Seeded \in Item /\ Seeded # Absent
      BY DEF Seeded, Item, Shown, Absent
    <3>2. /\ items' \in [Inventory -> Item]
          /\ \A e \in Inventory : items[e] # Absent => items'[e] # Absent
      BY <1>0, <2>4, <3>1 DEF SeedDevice
    <3>3. clearing' \in {"no", "cleared", "zeroed", "seeding"}
          /\ UNCHANGED <<seq, rounds, spent, reader, writer>>
      BY <2>4 DEF SeedDevice
    <3>4. \A p \in Writers : writer[p] # NotWriting => writer[p].d \in Inventory
      BY <1>0 DEF Writing
    <3> QED BY <1>0, <3>2, <3>3, <3>4 DEF SnapTypes
  <2> QED BY <1>4, <2>1, <2>2, <2>3, <2>4 DEF ResetStep
<1>5. CASE UNCHANGED snapVars
  BY <1>0, <1>5 DEF snapVars, SnapTypes
<1> QED BY <1>1, <1>2, <1>3, <1>4, <1>5 DEF SnapNext, WriterStep

\* Pending, LateBack and the order of one writer, in the records.
LEMMA WriterSteps ==
  ASSUME SnapTypes, WritersInOrder, NEW p \in Writers,
         SetStatus(p) \/ DrawRevision(p) \/ AssignRevision(p) \/ RecordEvent(p)
  PROVE  /\ InOrder(p)'
         /\ SetStatus(p) => ~Pending(p)' \/ (Pending(p) /\ writer'[p].rev = writer[p].rev)
         /\ DrawRevision(p) => writer'[p].rev = seq + 1
         /\ AssignRevision(p) \/ RecordEvent(p) => ~Pending(p)'
         /\ Pending(p)' => SetStatus(p) \/ DrawRevision(p)
<1>0. /\ writer \in [Writers -> Writing \union {NotWriting}] /\ writer[p] \in Writing
      /\ writer[p] # NotWriting /\ InOrder(p)
      /\ writer[p].kind \in {"mark", "back", "touch"} /\ writer[p].todo \subseteq Statement
  BY StatementDone DEF SnapTypes, WritersInOrder, Writing
<1>1. CASE SetStatus(p)
  <2>1. /\ writer'[p].todo = writer[p].todo \ {"status"} /\ writer'[p].kind = writer[p].kind
        /\ writer'[p].rev = writer[p].rev
    BY <1>0, <1>1 DEF SetStatus, Left
  <2> QED BY <1>0, <1>1, <2>1 DEF InOrder, Has, Pending, DrawRevision, AssignRevision, RecordEvent, SetStatus
<1>2. CASE DrawRevision(p)
  <2>1. /\ writer'[p].todo = writer[p].todo \ {"draw"} /\ writer'[p].kind = writer[p].kind
        /\ writer'[p].rev = seq + 1
    BY <1>0, <1>2 DEF DrawRevision
  <2> QED BY <1>0, <1>2, <2>1 DEF InOrder, Has, Pending, DrawRevision, AssignRevision, RecordEvent, SetStatus
<1>3. CASE AssignRevision(p)
  <2>1. \/ /\ writer'[p].todo = writer[p].todo \ {"assign"}
           /\ writer'[p].kind = writer[p].kind
        \/ writer'[p].todo = {}
    <3>1. CASE writer[p].todo = {"assign"}
      BY <1>0, <1>3, <3>1, SnapRecords DEF AssignRevision
    <3>2. CASE writer[p].todo # {"assign"}
      BY <1>0, <1>3, <3>2 DEF AssignRevision, Writing
    <3> QED BY <3>1, <3>2
  <2> QED BY <1>0, <1>3, <2>1 DEF InOrder, Has, Pending, DrawRevision, AssignRevision, RecordEvent, SetStatus
<1>4. CASE RecordEvent(p)
  <2>1. writer'[p].todo = {}
    BY <1>0, <1>4, SnapRecords DEF RecordEvent
  <2> QED BY <1>0, <1>4, <2>1 DEF InOrder, Has, Pending, DrawRevision, AssignRevision, RecordEvent, SetStatus
<1> QED BY <1>1, <1>2, <1>3, <1>4

\* What a writer that has just begun is not doing yet.
LEMMA StartedInOrder ==
  ASSUME SnapTypes, WriterBegins
  PROVE  \E p \in Writers, d \in Inventory :
           /\ items[d] # Absent /\ writer[p] = NotWriting
           /\ writer'[p].d = d /\ ~writer'[p].orphan
           /\ \A q \in Writers \ {p} : writer'[q] = writer[q]
           /\ InOrder(p)' /\ ~Pending(p)' /\ ~LateBack(p)' /\ ~Halfway(p)'
           /\ UNCHANGED <<seq, items, rounds, spent, reader, clearing>>
<1>1. ASSUME NEW p \in Writers, NEW d \in Inventory, NEW to \in Shown,
             NEW kind \in {"mark", "back", "touch"}, NEW todo \in SUBSET Statement,
             WriterStarts(p, kind, d, to, todo),
             \/ kind \in {"mark", "back"} /\ todo = Statement
             \/ /\ kind = "touch"
                /\ todo = {"draw", "assign"} \/ todo = {"draw", "assign", "event"}
      PROVE  /\ items[d] # Absent /\ writer[p] = NotWriting
             /\ writer'[p].d = d /\ ~writer'[p].orphan
             /\ \A q \in Writers \ {p} : writer'[q] = writer[q]
             /\ InOrder(p)' /\ ~Pending(p)' /\ ~LateBack(p)' /\ ~Halfway(p)'
             /\ UNCHANGED <<seq, items, rounds, spent, reader, clearing>>
  <2>1. /\ writer'[p] = [kind |-> kind, d |-> d, to |-> to, todo |-> todo,
                         rev |-> 0, orphan |-> FALSE]
        /\ \A q \in Writers \ {p} : writer'[q] = writer[q]
    BY <1>1, StartedWriter
  <2>2. /\ writer'[p].kind = kind /\ writer'[p].todo = todo /\ writer'[p].d = d
        /\ writer'[p].orphan = FALSE
    BY <2>1
  <2>3. InOrder(p)' /\ ~Pending(p)' /\ ~LateBack(p)'
    BY <1>1, <2>2 DEF InOrder, Has, Pending, LateBack, Statement
  <2>4. todo \intersect Changes(kind) = Changes(kind)
    BY <1>1 DEF Changes, Statement
  <2>5. ~Halfway(p)'
    BY <2>2, <2>4 DEF Halfway
  <2> QED BY <1>1, <2>1, <2>2, <2>3, <2>5 DEF WriterStarts
<1>2. PICK p \in Writers, d \in Inventory, to \in Shown :
        \/ WriterStarts(p, "mark", d, to, Statement)
        \/ WriterStarts(p, "back", d, to, Statement)
        \/ WriterStarts(p, "touch", d, to, {"draw", "assign"})
        \/ WriterStarts(p, "touch", d, to, {"draw", "assign", "event"})
  BY WriterBeginsAs
<1>3. /\ Statement \in SUBSET Statement /\ {"draw", "assign"} \in SUBSET Statement
      /\ {"draw", "assign", "event"} \in SUBSET Statement
  BY DEF Statement
<1> QED BY <1>1, <1>2, <1>3

\* The order of the writers is inductive.
LEMMA WritersInOrderStep ==
  ASSUME SnapTypes, WritersInOrder, [SnapNext]_snapVars PROVE WritersInOrder'
<1>0. /\ seq \in Nat /\ items \in [Inventory -> Item]
      /\ writer \in [Writers -> Writing \union {NotWriting}]
      /\ \A d \in Inventory : items[d].rev \in Nat
  BY DEF SnapTypes, Item, Absent
<1>1. CASE WriterBegins
  <2>1. PICK p \in Writers, d \in Inventory :
          /\ items[d] # Absent /\ writer'[p].d = d
          /\ \A q \in Writers \ {p} : writer'[q] = writer[q]
          /\ InOrder(p)' /\ ~Pending(p)'
          /\ UNCHANGED <<seq, items, rounds, spent, reader, clearing>>
    BY <1>1, StartedInOrder
  <2>2. \A q \in Writers \ {p} : /\ InOrder(q)' = InOrder(q) /\ Pending(q)' = Pending(q)
                                 /\ \A e \in Inventory : On(q, e)' = On(q, e)
    BY <2>1 DEF InOrder, Pending, On, Has
  <2>3. clearing \notin {"cleared", "zeroed"}
    BY <2>1 DEF WritersInOrder
  <2> QED BY <2>1, <2>2, <2>3 DEF WritersInOrder
<1>2. ASSUME NEW p \in Writers,
             SetStatus(p) \/ DrawRevision(p) \/ AssignRevision(p) \/ RecordEvent(p)
      PROVE  WritersInOrder'
  <2>1. \A q \in Writers \ {p} : writer'[q] = writer[q]
    BY <1>2, StatementDone
  <2>2. /\ writer[p] # NotWriting /\ writer[p].d \in Inventory
        /\ \A d \in Inventory : On(p, d)' => On(p, d)
    BY <1>2, StatementDone DEF On, Writing
  <2>3. \A q \in Writers \ {p} : /\ InOrder(q)' = InOrder(q) /\ Pending(q)' = Pending(q)
                                 /\ \A d \in Inventory : On(q, d)' = On(q, d)
                                 /\ writer'[q].rev = writer[q].rev
    BY <2>1 DEF InOrder, Pending, On, Has
  <2>4. \A q \in Writers : InOrder(q)'
    BY <1>2, <2>3, WriterSteps DEF WritersInOrder
  <2>5. seq' \in Nat /\ seq' >= seq /\ (DrawRevision(p) => seq' = seq + 1)
    BY <1>0, <1>2 DEF SetStatus, DrawRevision, AssignRevision, RecordEvent
  <2>6. ASSUME NEW q \in Writers, NEW d \in Inventory, On(q, d)', Pending(q)'
        PROVE  writer'[q].rev \in 1..seq'
    <3>1. CASE q # p
      BY <1>0, <2>3, <2>5, <2>6, <3>1 DEF WritersInOrder
    <3>2. CASE q = p /\ DrawRevision(p)
      <4>1. writer'[q].rev = seq + 1
        BY <1>2, <3>2, WriterSteps
      <4> QED BY <1>0, <2>5, <3>2, <4>1
    <3>3. CASE q = p /\ ~DrawRevision(p)
      <4>1. Pending(p) /\ writer'[p].rev = writer[p].rev
        BY <1>2, <2>6, <3>3, WriterSteps
      <4> QED BY <1>0, <2>2, <2>5, <2>6, <3>3, <4>1 DEF WritersInOrder
    <3> QED BY <3>1, <3>2, <3>3
  <2>7. ASSUME NEW d \in Inventory
        PROVE  /\ items'[d].rev <= seq' \/ items'[d].rev <= 1
               /\ items'[d].rev = 0 => items'[d] = Absent
    <3>1. CASE items'[d].rev = items[d].rev
      <4>1. items[d].rev <= seq \/ items[d].rev <= 1
        BY DEF WritersInOrder
      <4>2. items'[d].rev <= seq' \/ items'[d].rev <= 1
        BY <1>0, <2>5, <3>1, <4>1
      <4> QED BY <1>2, <3>1, <4>2, StatementChanges DEF WritersInOrder
    <3>2. CASE items'[d].rev # items[d].rev
      <4>1. AssignRevision(p) /\ d = writer[p].d /\ ~writer[p].orphan
            /\ items'[d].rev = writer[p].rev
        <5>1. CASE writer[p].orphan
          BY <1>2, <3>2, <5>1 DEF SetStatus, DrawRevision, AssignRevision, RecordEvent
        <5>2. CASE ~writer[p].orphan /\ SetStatus(p)
          BY <1>0, <2>2, <3>2, <5>2 DEF SetStatus, Item, Absent
        <5>3. CASE ~writer[p].orphan /\ AssignRevision(p)
          <6>1. items[writer[p].d] \in [status : Shown, rev : Nat]
            BY <1>0, <2>2, <5>3 DEF SnapTypes, Item
          <6> QED BY <1>0, <2>2, <3>2, <5>3, <6>1 DEF AssignRevision
        <5>4. CASE DrawRevision(p) \/ RecordEvent(p)
          BY <3>2, <5>4 DEF DrawRevision, RecordEvent
        <5> QED BY <1>2, <5>1, <5>2, <5>3, <5>4
      <4>2. On(p, d) /\ Pending(p) /\ seq' = seq
        BY <2>2, <4>1 DEF On, Pending, AssignRevision
      <4>3. writer[p].rev \in 1..seq
        BY <4>2 DEF WritersInOrder
      <4> QED BY <1>0, <4>1, <4>2, <4>3
    <3> QED BY <3>1, <3>2
  <2>8. clearing' = clearing
    BY <1>2 DEF SetStatus, DrawRevision, AssignRevision, RecordEvent
  <2>9. \A d \in Inventory, q \in Writers : On(q, d)' => On(q, d)
    BY <2>2, <2>3
  <2>10. clearing' \in {"cleared", "zeroed"} =>
           \A d \in Inventory : items'[d] = Absent /\ \A q \in Writers : ~On(q, d)'
    BY <1>2, <2>8, <2>9, StatementChanges DEF WritersInOrder
  <2> QED BY <2>4, <2>6, <2>7, <2>10 DEF WritersInOrder
<1>3. CASE ReaderStep
  <2>1. UNCHANGED <<seq, items, writer, clearing>>
    BY <1>3 DEF ReaderStep, ReadSeq, ListDevices, ReadDevice, BeginRound,
                ContinueRound, RefuseRound, ReadPage, EndRaced
  <2> QED BY <2>1 DEF WritersInOrder, InOrder, Pending, On, Has
<1>4. CASE ResetStep
  <2>1. CASE ResetDevices
    <3>1. \A p \in Writers : writer'[p] = NotWriting \/
            /\ writer[p] # NotWriting /\ writer'[p].orphan
            /\ writer'[p].todo = writer[p].todo /\ writer'[p].kind = writer[p].kind
      BY <1>0, <2>1 DEF ResetDevices, Writing
    <3>2. \A p \in Writers : InOrder(p)'
      BY <3>1, SnapRecords DEF WritersInOrder, InOrder, Has
    <3>3. \A p \in Writers, d \in Inventory : ~On(p, d)'
      BY <3>1 DEF On
    <3>4. \A d \in Inventory : items'[d] = Absent /\ items'[d].rev = 0
      BY <2>1 DEF ResetDevices, Absent
    <3> QED BY <3>2, <3>3, <3>4 DEF WritersInOrder
  <2>2. CASE ResetCounter
    <3>1. clearing = "cleared" /\ UNCHANGED <<items, writer>>
      BY <2>2 DEF ResetCounter
    <3>2. \A d \in Inventory : items[d] = Absent /\ items[d].rev = 0
      BY <3>1 DEF WritersInOrder, Absent
    <3>3. \A p \in Writers, d \in Inventory : ~On(p, d)
      BY <3>1 DEF WritersInOrder
    <3> QED BY <3>1, <3>2, <3>3 DEF WritersInOrder, On, InOrder, Has, Pending
  <2>3. CASE ResetRounds
    <3>1. UNCHANGED <<seq, items, writer>> /\ clearing' = "seeding"
      BY <2>3 DEF ResetRounds
    <3> QED BY <3>1 DEF WritersInOrder, On, InOrder, Has, Pending
  <2>4. ASSUME NEW d \in Inventory, SeedDevice(d) PROVE WritersInOrder'
    <3>1. UNCHANGED <<seq, writer>> /\ clearing' \in {"seeding", "no"}
      BY <2>4 DEF SeedDevice
    <3>2. \A e \in Inventory : items'[e] = IF e = d THEN Seeded ELSE items[e]
      BY <1>0, <2>4 DEF SeedDevice
    <3>3. Seeded.rev = 1
      BY DEF Seeded
    <3> QED BY <1>0, <3>1, <3>2, <3>3 DEF WritersInOrder, On, InOrder, Has, Pending
  <2> QED BY <1>4, <2>1, <2>2, <2>3, <2>4 DEF ResetStep
<1>5. CASE UNCHANGED snapVars
  BY <1>5 DEF snapVars, WritersInOrder, On, InOrder, Has, Pending
<1> QED BY <1>1, <1>2, <1>3, <1>4, <1>5 DEF SnapNext, WriterStep

\* A step that leaves a device alone leaves what a fingerprint says of it.
LEMMA BindUntouched ==
  ASSUME NEW f, NEW d \in Inventory, Bind(f, d),
         items'[d] = items[d], seq # 0 => seq' # 0,
         \A q \in Writers : On(q, d)' /\ Pending(q)' =>
            On(q, d) /\ Pending(q) /\ writer'[q].rev = writer[q].rev,
         \A q \in Writers : On(q, d)' /\ LateBack(q)' => On(q, d) /\ LateBack(q),
         d \in HalfChanged => d \in HalfChanged'
  PROVE  Bind(f, d)'
BY DEF Bind

\* A statement of a writer and what a fingerprint says of a device.
LEMMA StatementKeepsBind ==
  ASSUME SnapTypes, WritersInOrder, NEW f \in Fingerprint, NEW d \in Inventory,
         Bind(f, d), clearing # "zeroed" => Counted(f), NEW p \in Writers,
         SetStatus(p) \/ DrawRevision(p) \/ AssignRevision(p) \/ RecordEvent(p)
  PROVE  Bind(f, d)'
<1>0. /\ seq \in Nat /\ items \in [Inventory -> Item] /\ f.revs[d] \in Nat /\ f.seq \in Nat
      /\ writer \in [Writers -> Writing \union {NotWriting}]
      /\ writer[p] \in Writing /\ writer[p] # NotWriting /\ writer[p].d \in Inventory
      /\ writer[p].kind \in {"mark", "back", "touch"} /\ writer[p].todo \subseteq Statement
  BY StatementDone DEF SnapTypes, Fingerprint, Writing
<1>1. /\ \A q \in Writers \ {p} : writer'[q] = writer[q]
      /\ writer'[p] # NotWriting =>
            /\ writer'[p].d = writer[p].d /\ writer'[p].orphan = writer[p].orphan
            /\ writer'[p].kind = writer[p].kind
  BY StatementDone
<1>2. \A q \in Writers \ {p} :
        /\ On(q, d)' = On(q, d) /\ Pending(q)' = Pending(q) /\ LateBack(q)' = LateBack(q)
        /\ writer'[q].rev = writer[q].rev /\ Halfway(q)' = Halfway(q)
        /\ writer'[q].d = writer[q].d
  BY <1>1 DEF On, Pending, LateBack, Halfway, Has
<1>3. seq' \in Nat /\ seq' >= seq
  BY <1>0 DEF SetStatus, DrawRevision, AssignRevision, RecordEvent
<1>4. On(p, d)' => On(p, d)
  BY <1>0, <1>1 DEF On
<1>5. CASE ~On(p, d)
  <2>1. items'[d] = items[d]
    <3>1. CASE writer[p].orphan
      BY <3>1 DEF SetStatus, DrawRevision, AssignRevision, RecordEvent
    <3>2. CASE ~writer[p].orphan
      <4>1. writer[p].d # d
        BY <1>0, <1>5, <3>2 DEF On
      <4> QED BY <1>0, <3>2, <4>1 DEF SetStatus, DrawRevision, AssignRevision, RecordEvent
    <3> QED BY <3>1, <3>2
  <2>2. d \in HalfChanged => d \in HalfChanged'
    <3>1. ~(Halfway(p) /\ writer[p].d = d)
      BY <1>5 DEF On, Halfway
    <3> QED BY <1>2, <3>1 DEF HalfChanged
  <2> QED BY <1>0, <1>2, <1>3, <1>4, <1>5, <2>1, <2>2, BindUntouched
<1>6. CASE On(p, d) /\ RecordEvent(p)
  <2>1. /\ items' = items /\ writer'[p].todo = {} /\ writer[p].todo = {"event"}
    BY <1>0, <1>6, SnapRecords DEF RecordEvent
  <2>2. ~Pending(p)' /\ ~LateBack(p)'
    BY <2>1 DEF Pending, LateBack, Has
  <2>3. ~Halfway(p)
    BY <1>0, <2>1 DEF Halfway, Changes
  <2>4. d \in HalfChanged => d \in HalfChanged'
    BY <1>2, <2>3 DEF HalfChanged
  <2> QED BY <1>0, <1>2, <1>3, <2>1, <2>2, <2>4, BindUntouched
<1>7. CASE On(p, d) /\ DrawRevision(p)
  <2>1. /\ writer'[p].todo = writer[p].todo \ {"draw"} /\ writer'[p].rev = seq + 1
        /\ writer'[p].kind = writer[p].kind /\ writer'[p].d = writer[p].d
        /\ writer'[p].orphan = writer[p].orphan
    BY <1>0, <1>7 DEF DrawRevision, Writing
  <2>2. items' = items /\ seq' = seq + 1 /\ "draw" \in writer[p].todo
    BY <1>7 DEF DrawRevision, Has
  <2>3. "assign" \in writer'[p].todo
    BY <1>7, <2>1, <2>2 DEF WritersInOrder, InOrder, Has
  <2>4. ~LateBack(p)'
    BY <2>3 DEF LateBack, Has
  <2>5. d \in HalfChanged'
    <3>1. writer'[p] # NotWriting
      BY <2>3, SnapRecords
    <3>2. "assign" \in Changes(writer'[p].kind) /\ "draw" \in Changes(writer'[p].kind)
      BY DEF Changes
    <3>3. Halfway(p)'
      BY <1>7, <2>1, <2>3, <3>1, <3>2 DEF Halfway, On
    <3>4. writer'[p].d = d
      BY <1>7, <2>1 DEF On
    <3> QED BY <3>3, <3>4 DEF HalfChanged
  <2>6. CASE f.revs[d] = seq + 1
    <3>1. Counted(f)
      BY <1>7 DEF WritersInOrder
    <3>2. f.seq <= seq /\ (f.revs[d] <= seq \/ f.revs[d] <= 1)
      BY <3>1 DEF Counted
    <3>3. f.seq = 0 /\ seq' # 0
      BY <1>0, <2>2, <2>6, <3>2
    <3> QED BY <3>3 DEF Bind
  <2>7. CASE f.revs[d] # seq + 1
    <3>1. CASE (f.seq = 0 /\ seq # 0) \/ d \in f.half
      BY <1>0, <2>2, <3>1 DEF Bind
    <3>2. CASE ~(f.seq = 0 /\ seq # 0) /\ d \notin f.half
      <4>1. /\ \A q \in Writers : On(q, d) /\ Pending(q) => writer[q].rev # f.revs[d]
            /\ items[d].rev = f.revs[d] => \A q \in Writers : On(q, d) => ~LateBack(q)
        BY <3>2 DEF Bind
      <4>2. \A q \in Writers : On(q, d)' /\ Pending(q)' => writer'[q].rev # f.revs[d]
        BY <1>2, <2>1, <2>7, <4>1
      <4>3. items'[d].rev = f.revs[d] => \A q \in Writers : On(q, d)' => ~LateBack(q)'
        BY <1>2, <2>2, <2>4, <4>1
      <4> QED BY <2>5, <4>2, <4>3 DEF Bind
    <3> QED BY <3>1, <3>2
  <2> QED BY <2>6, <2>7
<1>8. CASE On(p, d) /\ AssignRevision(p)
  <2>1. ~Pending(p)' /\ seq' = seq /\ Pending(p)
    BY <1>8, WriterSteps DEF AssignRevision, Pending
  <2>2. items'[d].rev = writer[p].rev
    <3>1. items[d] \in [status : Shown, rev : Nat]
      BY <1>0, <1>8 DEF On, SnapTypes, Item
    <3> QED BY <1>0, <1>8, <3>1 DEF On, AssignRevision
  <2>3. CASE (f.seq = 0 /\ seq # 0) \/ d \in f.half
    BY <2>1, <2>3 DEF Bind
  <2>4. CASE ~(f.seq = 0 /\ seq # 0) /\ d \notin f.half
    <3>1. \A q \in Writers : On(q, d) /\ Pending(q) => writer[q].rev # f.revs[d]
      BY <2>4 DEF Bind
    <3>2. items'[d].rev # f.revs[d]
      BY <1>8, <2>1, <2>2, <3>1
    <3>3. \A q \in Writers : On(q, d)' /\ Pending(q)' => writer'[q].rev # f.revs[d]
      BY <1>2, <2>1, <3>1
    <3> QED BY <3>2, <3>3 DEF Bind
  <2> QED BY <2>3, <2>4
<1>9. CASE On(p, d) /\ SetStatus(p)
  <2>1. /\ writer'[p].todo = writer[p].todo \ {"status"} /\ seq' = seq
        /\ writer'[p].kind = writer[p].kind /\ writer'[p].d = writer[p].d
        /\ writer'[p].orphan = writer[p].orphan /\ "status" \in writer[p].todo
        /\ writer'[p].rev = writer[p].rev
    BY <1>0, <1>9 DEF SetStatus, Left, Writing, Has
  <2>2. items'[d].rev = items[d].rev
    <3>1. items[d] \in [status : Shown, rev : Nat]
      BY <1>0, <1>9 DEF On, SnapTypes, Item
    <3> QED BY <1>0, <1>9, <3>1 DEF On, SetStatus
  <2>3. Pending(p)' = Pending(p) /\ ~LateBack(p)'
    BY <2>1 DEF Pending, LateBack, Has
  <2>4. CASE (f.seq = 0 /\ seq # 0) \/ d \in f.half
    BY <2>1, <2>4 DEF Bind
  <2>5. CASE ~(f.seq = 0 /\ seq # 0) /\ d \notin f.half
    <3>1. /\ \A q \in Writers : On(q, d) /\ Pending(q) => writer[q].rev # f.revs[d]
          /\ items[d].rev = f.revs[d] => \A q \in Writers : On(q, d) => ~LateBack(q)
      BY <2>5 DEF Bind
    <3>2. \A q \in Writers : On(q, d)' /\ Pending(q)' => writer'[q].rev # f.revs[d]
      BY <1>2, <1>4, <2>1, <2>3, <3>1
    <3>3. CASE writer[p].kind = "back"
      <4>1. LateBack(p)
        BY <1>9, <3>3 DEF SetStatus, LateBack
      <4>2. items'[d].rev # f.revs[d]
        BY <1>9, <2>2, <3>1, <4>1
      <4> QED BY <3>2, <4>2 DEF Bind
    <3>4. CASE writer[p].kind # "back"
      <4>1. writer[p].kind = "mark" /\ "draw" \in writer[p].todo
        BY <2>1, <3>4 DEF WritersInOrder, InOrder, Has
      <4>2. writer'[p] # NotWriting /\ "draw" \in writer'[p].todo
        BY <2>1, <4>1, SnapRecords
      <4>3. Halfway(p)'
        BY <1>9, <2>1, <4>1, <4>2 DEF Halfway, Changes, On
      <4>4. d \in HalfChanged'
        BY <1>9, <2>1, <4>3 DEF HalfChanged, On
      <4>5. items'[d].rev = f.revs[d] => \A q \in Writers : On(q, d)' => ~LateBack(q)'
        BY <1>2, <2>2, <2>3, <3>1
      <4> QED BY <3>2, <4>4, <4>5 DEF Bind
    <3> QED BY <3>3, <3>4
  <2> QED BY <2>4, <2>5
<1> QED BY <1>5, <1>6, <1>7, <1>8, <1>9

\* What the steps that are no statement of a writer do to the devices.
LEMMA OtherSteps ==
  ASSUME ReaderStep \/ UNCHANGED snapVars
  PROVE  UNCHANGED <<seq, items, writer, clearing>>
BY DEF ReaderStep, ReadSeq, ListDevices, ReadDevice, BeginRound, ContinueRound,
       RefuseRound, ReadPage, EndRaced, snapVars

\* Every step keeps what a fingerprint says of the devices.
LEMMA BoundStep ==
  ASSUME SnapTypes, WritersInOrder, [SnapNext]_snapVars, NEW f \in Fingerprint,
         Bound(f), clearing # "zeroed" => Counted(f), clearing = "seeding" => Unseeded(f)
  PROVE  Bound(f)'
<1> SUFFICES ASSUME NEW d \in Inventory PROVE Bind(f, d)'
  BY DEF Bound, Blank
<1>0. /\ seq \in Nat /\ items \in [Inventory -> Item] /\ Bind(f, d) /\ Blank(f, d)
      /\ writer \in [Writers -> Writing \union {NotWriting}]
  BY DEF SnapTypes, Bound
<1>1. CASE WriterBegins
  <2>1. PICK p \in Writers, e \in Inventory :
          /\ writer[p] = NotWriting /\ ~Pending(p)' /\ ~LateBack(p)'
          /\ \A q \in Writers \ {p} : writer'[q] = writer[q]
          /\ UNCHANGED <<seq, items, rounds, spent, reader, clearing>>
    BY <1>1, StartedInOrder
  <2>2. \A q \in Writers \ {p} :
          /\ On(q, d)' = On(q, d) /\ Pending(q)' = Pending(q) /\ LateBack(q)' = LateBack(q)
          /\ writer'[q].rev = writer[q].rev /\ Halfway(q)' = Halfway(q)
          /\ writer'[q].d = writer[q].d
    BY <2>1 DEF On, Pending, LateBack, Halfway, Has
  <2>3. ~Halfway(p)
    BY <2>1 DEF Halfway
  <2>4. d \in HalfChanged => d \in HalfChanged'
    BY <2>2, <2>3 DEF HalfChanged
  <2> QED BY <1>0, <2>1, <2>2, <2>4, BindUntouched
<1>2. CASE WriterStep
  BY <1>0, <1>2, StatementKeepsBind DEF WriterStep
<1>3. CASE ReaderStep \/ UNCHANGED snapVars
  <2>1. UNCHANGED <<seq, items, writer>>
    BY <1>3, OtherSteps
  <2> QED BY <1>0, <2>1 DEF Bind, On, Pending, LateBack, HalfChanged, Halfway, Has
\* Without a device there is nothing to be said of it.
<1>4. ASSUME items'[d] = Absent, \A p \in Writers : ~On(p, d)'
      PROVE  Bind(f, d)'
  <2>1. items'[d].rev = 0 /\ items'[d].status = "none"
    BY <1>4 DEF Absent
  <2> QED BY <1>0, <1>4, <2>1 DEF Bind, Blank
<1>5. CASE ResetDevices
  <2>1. items'[d] = Absent /\ \A p \in Writers : writer'[p] = NotWriting \/ writer'[p].orphan
    BY <1>0, <1>5 DEF ResetDevices, Writing
  <2> QED BY <1>4, <2>1 DEF On
<1>6. CASE ResetCounter
  <2>1. items[d] = Absent /\ (\A p \in Writers : ~On(p, d)) /\ UNCHANGED <<items, writer>>
    BY <1>6 DEF ResetCounter, WritersInOrder
  <2> QED BY <1>4, <2>1 DEF On
<1>7. CASE ResetRounds
  <2>1. UNCHANGED <<seq, items, writer>>
    BY <1>7 DEF ResetRounds
  <2> QED BY <1>0, <2>1 DEF Bind, On, Pending, LateBack, HalfChanged, Halfway, Has
<1>8. ASSUME NEW e \in Inventory, SeedDevice(e) PROVE Bind(f, d)'
  <2>1. UNCHANGED <<seq, writer>> /\ items[e] = Absent /\ f.revs[e] = 0
    BY <1>8 DEF SeedDevice, Unseeded
  <2>2. items'[d] = IF d = e THEN Seeded ELSE items[d]
    BY <1>0, <1>8 DEF SeedDevice
  <2>3. CASE d # e
    BY <1>0, <2>1, <2>2, <2>3 DEF Bind, On, Pending, LateBack, HalfChanged, Halfway, Has
  <2>4. CASE d = e
    <3>1. \A p \in Writers : ~On(p, d)
      BY <2>1, <2>4 DEF On, SnapTypes
    <3>2. \A p \in Writers : ~On(p, d)'
      BY <2>1, <3>1 DEF On
    <3>3. items'[d].rev # f.revs[d]
      BY <2>1, <2>2, <2>4 DEF Seeded
    <3> QED BY <3>2, <3>3 DEF Bind
  <2> QED BY <2>3, <2>4
<1> QED BY <1>1, <1>2, <1>3, <1>5, <1>6, <1>7, <1>8 DEF SnapNext, ResetStep

\* event_seq goes back only when reset takes it back.
LEMMA CountedStep ==
  ASSUME SnapTypes, [SnapNext]_snapVars, ~ResetCounter, NEW f \in Fingerprint, Counted(f)
  PROVE  Counted(f)'
<1>1. seq' = seq \/ seq' = seq + 1
  <2>1. CASE WriterBegins
    BY <2>1, StartedInOrder
  <2>2. CASE WriterStep
    BY <2>2 DEF WriterStep, SetStatus, DrawRevision, AssignRevision, RecordEvent
  <2>3. CASE ReaderStep \/ UNCHANGED snapVars
    BY <2>3, OtherSteps
  <2>4. CASE ResetStep
    BY <2>4 DEF ResetStep, ResetDevices, ResetRounds, SeedDevice
  <2> QED BY <2>1, <2>2, <2>3, <2>4 DEF SnapNext
<1>2. seq \in Nat /\ f.seq \in Nat /\ \A d \in Inventory : f.revs[d] \in Nat
  BY DEF SnapTypes, Fingerprint
<1> QED BY <1>1, <1>2 DEF Counted

\* Devices leave the inventory only when reset clears it.
LEMMA UnseededStep ==
  ASSUME SnapTypes, WritersInOrder, [SnapNext]_snapVars, ~ResetDevices, NEW f, Unseeded(f)
  PROVE  Unseeded(f)'
<1>1. ASSUME NEW d \in Inventory, items'[d] = Absent PROVE items[d] = Absent
  <2>1. CASE WriterBegins
    BY <1>1, <2>1, StartedInOrder
  <2>2. CASE WriterStep
    BY <1>1, <2>2, StatementChanges DEF WriterStep
  <2>3. CASE ReaderStep \/ UNCHANGED snapVars
    BY <1>1, <2>3, OtherSteps
  <2>4. CASE ResetCounter \/ ResetRounds
    BY <1>1, <2>4 DEF ResetCounter, ResetRounds
  <2>5. ASSUME NEW e \in Inventory, SeedDevice(e) PROVE items[d] = Absent
    <3>1. items'[d] = IF d = e THEN Seeded ELSE items[d]
      BY <2>5 DEF SeedDevice, SnapTypes
    <3> QED BY <1>1, <2>5, <3>1 DEF SeedDevice
  <2> QED BY <2>1, <2>2, <2>3, <2>4, <2>5 DEF SnapNext, ResetStep
<1> QED BY <1>1 DEF Unseeded

\* What a fingerprint that stays bound to its token keeps.
LEMMA KeptStep ==
  ASSUME SnapTypes, WritersInOrder, [SnapNext]_snapVars, ~ResetRounds,
         NEW f \in Fingerprint, Kept(f)
  PROVE  Kept(f)'
<1>1. Bound(f)'
  BY BoundStep DEF Kept
<1>2. ASSUME clearing' # "zeroed" PROVE Counted(f)'
  <2>1. clearing # "zeroed" /\ ~ResetCounter
    <3>1. CASE WriterBegins
      BY <1>2, <3>1, StartedInOrder DEF ResetCounter
    <3>2. CASE WriterStep
      BY <1>2, <3>2 DEF WriterStep, SetStatus, DrawRevision, AssignRevision, RecordEvent, ResetCounter
    <3>3. CASE ReaderStep \/ UNCHANGED snapVars
      BY <1>2, <3>3, OtherSteps DEF ResetCounter
    <3>4. CASE ResetStep
      BY <1>2, <3>4 DEF ResetStep, ResetDevices, ResetRounds, SeedDevice, ResetCounter
    <3> QED BY <3>1, <3>2, <3>3, <3>4 DEF SnapNext
  <2> QED BY <2>1, CountedStep DEF Kept
<1>3. ASSUME clearing' = "seeding" PROVE Unseeded(f)'
  <2>1. clearing = "seeding" /\ ~ResetDevices
    <3>1. CASE WriterBegins
      BY <1>3, <3>1, StartedInOrder DEF ResetDevices
    <3>2. CASE WriterStep
      BY <1>3, <3>2 DEF WriterStep, SetStatus, DrawRevision, AssignRevision, RecordEvent, ResetDevices
    <3>3. CASE ReaderStep \/ UNCHANGED snapVars
      BY <1>3, <3>3, OtherSteps DEF ResetDevices
    <3>4. CASE ResetStep
      BY <1>3, <3>4 DEF ResetStep, ResetDevices, ResetRounds, SeedDevice, ResetCounter
    <3> QED BY <3>1, <3>2, <3>3, <3>4 DEF SnapNext
  <2> QED BY <2>1, UnseededStep DEF Kept
<1> QED BY <1>1, <1>2, <1>3 DEF Kept

\* What is bound to a token, as long as it stays bound.
LEMMA RoundsStep ==
  ASSUME SnapTypes, WritersInOrder, SnapInv, [SnapNext]_snapVars, NEW t \in Tokens,
         rounds'[t] = rounds[t], rounds[t] \notin {Unbound, Overtaken}, ~ResetRounds
  PROVE  Kept(rounds[t])'
<1>1. PICK f \in Fingerprint : f = rounds[t]
  BY DEF SnapTypes
<1>2. Kept(f)
  BY <1>1 DEF SnapInv
<1>3. Kept(f)'
  BY <1>2, KeptStep
<1> QED BY <1>1, <1>3

\* What the reader has read, as long as it does not read on.
LEMMA ReaderWaits ==
  ASSUME SnapTypes, WritersInOrder, SnapInv, [SnapNext]_snapVars, reader' = reader,
         reader.pc \in {"seq", "list"}, ~ResetDevices, ~ResetCounter
  PROVE  Bound(reader.fp)' /\ Counted(reader.fp)' /\ Unseeded(reader.fp)'
<1>1. PICK f \in Fingerprint : f = reader.fp
  BY SnapRecords DEF SnapTypes, Reading
<1>2. Bound(f) /\ Counted(f) /\ Unseeded(f)
  BY <1>1 DEF SnapInv
<1>3. Bound(f)'
  BY <1>2, BoundStep
<1>4. Counted(f)' /\ Unseeded(f)'
  BY <1>2, CountedStep, UnseededStep
<1> QED BY <1>1, <1>3, <1>4

\* Steps that leave reader and rounds alone.
LEMMA WritersKeepSnapInv ==
  ASSUME SnapTypes, WritersInOrder, SnapInv, [SnapNext]_snapVars,
         UNCHANGED <<reader, rounds>>, ~ResetRounds, ~ResetDevices, ~ResetCounter
  PROVE  SnapInv'
<1>1. \A t \in Tokens : rounds'[t] \notin {Unbound, Overtaken} => Kept(rounds[t])'
  BY RoundsStep
<1>2. reader'.pc \in {"seq", "list"} =>
        Bound(reader.fp)' /\ Counted(reader.fp)' /\ Unseeded(reader.fp)'
  BY ReaderWaits
<1>3. \A r : Agrees(r)' <=> Agrees(r)
  BY DEF Agrees
<1>4. \A r : Admitted(r)' <=> Admitted(r)
  BY DEF Admitted
<1>5. PICK r : r = rounds[reader.token]
  OBVIOUS
<1>6. rounds'[reader'.token] = r
  BY <1>5
<1> QED BY <1>1, <1>2, <1>3, <1>4, <1>5, <1>6 DEF SnapInv

\* A reader that reads a device sees what the fingerprint says of it.
LEMMA DeviceRead ==
  ASSUME SnapTypes, WritersInOrder, SnapInv, NEW d \in Inventory, ReadDevice(d)
  PROVE  /\ Bound(reader.fp)' /\ Counted(reader.fp)' /\ Unseeded(reader.fp)'
         /\ reader'.token \in Tokens =>
              rounds'[reader'.token] \in {Unbound, Overtaken} \/ Agrees(rounds[reader.token])'
<1>0. /\ reader \in Reading /\ reader.pc = "list" /\ reader.fp \in Fingerprint
      /\ reader.moved \in BOOLEAN
      /\ Bound(reader.fp) /\ Counted(reader.fp) /\ Unseeded(reader.fp)
  BY SnapRecords DEF SnapTypes, ReadDevice, Reading, SnapInv
<1>1. UNCHANGED <<seq, items, rounds, writer>>
  BY DEF ReadDevice
<1>2. PICK h \in SUBSET Inventory : h = {d} \intersect HalfChanged
  OBVIOUS
<1>3. PICK f \in Fingerprint : f = reader.fp
  BY <1>0
<1>4. PICK g \in Fingerprint :
        g = [f EXCEPT !.revs[d] = items[d].rev, !.seen[d] = items[d].status,
                      !.half = @ \union h]
  BY FingerprintTypes
<1>5. /\ reader'.fp = g /\ reader'.token = reader.token
      /\ reader'.moved = (reader.moved \/ seq # f.seq)
  BY <1>0, <1>2, <1>3, <1>4 DEF ReadDevice, Reading, Fingerprint
<1>6. /\ g.seq = f.seq /\ g.half = f.half \union h
      /\ g.revs[d] = items[d].rev /\ g.seen[d] = items[d].status
      /\ \A e \in Inventory : e # d => g.revs[e] = f.revs[e] /\ g.seen[e] = f.seen[e]
  BY <1>4 DEF Fingerprint
<1> HIDE <1>4
<1>7. items[d].rev = 0 => items[d].status = "none"
  BY DEF WritersInOrder, Absent
<1>8. \A e \in Inventory : Blank(g, e)
  BY <1>0, <1>3, <1>6, <1>7 DEF Blank, Bound
<1>9. Bind(g, d)
  <2>1. CASE d \in HalfChanged
    BY <1>2, <1>6, <2>1 DEF Bind
  <2>2. CASE d \notin HalfChanged
    <3>1. ASSUME NEW p \in Writers, On(p, d), Pending(p) \/ LateBack(p) PROVE FALSE
      <4>1. ~Halfway(p)
        BY <2>2, <3>1 DEF HalfChanged, On
      <4>2. InOrder(p) /\ (Pending(p) => writer[p].kind \in {"mark", "back", "touch"})
        BY <3>1, HasIsWriting DEF WritersInOrder, Pending
      <4> QED BY <3>1, <4>1, <4>2 DEF Pending, LateBack, Has, Halfway, On, Changes, InOrder
    <3> QED BY <1>6, <3>1 DEF Bind
  <2> QED BY <2>1, <2>2
<1>10. ASSUME NEW e \in Inventory PROVE Bind(g, e)
  <2>1. CASE e = d
    BY <1>9, <2>1
  <2>2. CASE e # d
    <3>1. Bind(f, e)
      BY <1>0, <1>3 DEF Bound
    <3> QED BY <1>6, <2>2, <3>1 DEF Bind
  <2> QED BY <2>1, <2>2
<1>11. Bound(g)'
  BY <1>1, <1>8, <1>10 DEF Bound, Blank, Bind, On, Pending, LateBack, HalfChanged, Halfway, Has
<1>12. Counted(g)' /\ Unseeded(g)'
  <2>1. Counted(g)
    BY <1>0, <1>3, <1>6 DEF Counted, WritersInOrder
  <2>2. Unseeded(g)
    BY <1>0, <1>3, <1>6 DEF Unseeded, Absent
  <2> QED BY <1>1, <2>1, <2>2 DEF Counted, Unseeded
<1>13. ASSUME reader.token \in Tokens, rounds[reader.token] \notin {Unbound, Overtaken}
       PROVE  Agrees(rounds[reader.token])'
  <2>1. PICK r \in Fingerprint : r = rounds[reader.token]
    BY <1>13 DEF SnapTypes
  <2>2. Agrees(r) /\ Bound(r)
    BY <1>0, <1>13, <2>1 DEF SnapInv, Kept
  <2>3. ASSUME r.seq = f.seq, ~((reader.moved \/ seq # f.seq) /\ f.seq = 0),
               items[d].rev = r.revs[d]
        PROVE  items[d].status = r.seen[d] \/ d \in r.half \union (f.half \union h)
    <3>1. Bind(r, d) /\ ~(r.seq = 0 /\ seq # 0)
      BY <2>2, <2>3 DEF Bound
    <3> QED BY <1>2, <2>3, <3>1 DEF Bind
  <2>4. ASSUME r.seq = f.seq, ~((reader.moved \/ seq # f.seq) /\ f.seq = 0),
               NEW e \in Inventory, g.revs[e] = r.revs[e]
        PROVE  g.seen[e] = r.seen[e] \/ e \in r.half \union g.half
    <3>1. CASE e = d
      BY <1>6, <2>3, <2>4, <3>1
    <3>2. CASE e # d
      BY <1>3, <1>6, <2>2, <2>4, <3>2 DEF Agrees
    <3> QED BY <3>1, <3>2
  <2>5. Agrees(r)'
    BY <1>5, <1>6, <2>4 DEF Agrees
  <2> QED BY <1>1, <1>5, <2>1, <2>5
<1> QED BY <1>1, <1>5, <1>11, <1>12, <1>13

\* The steps of the reader that read nothing of a device.
LEMMA ReaderKeepsSnapInv ==
  ASSUME SnapTypes, WritersInOrder, SnapInv, [SnapNext]_snapVars, ReaderStep
  PROVE  SnapInv'
<1>0. UNCHANGED <<seq, items, writer, clearing>> /\ ~ResetRounds
  BY OtherSteps DEF ResetRounds
<1>1. \A f \in Fingerprint : Kept(f) => Kept(f)'
  BY <1>0, KeptStep
\* A reader that is done.
<1>2. ASSUME reader' \in {Resting, Raced},
             \A t \in Tokens : \/ rounds'[t] = rounds[t] \/ rounds'[t] = Overtaken
                               \/ \E f \in Fingerprint : rounds'[t] = f /\ Kept(f)
      PROVE  SnapInv'
  <2>1. ASSUME NEW t \in Tokens, rounds'[t] \notin {Unbound, Overtaken}
        PROVE  Kept(rounds[t])'
    <3>1. PICK f \in Fingerprint : rounds'[t] = f /\ Kept(f)
      BY <1>2, <2>1 DEF SnapTypes, SnapInv
    <3> QED BY <1>1, <3>1
  <2>2. reader'.pc \notin {"seq", "list", "page"}
    BY <1>2, SnapRecords
  <2> QED BY <2>1, <2>2 DEF SnapInv
<1>3. ASSUME NEW t \in Tokens \union {"none"}, ReadSeq(t) PROVE SnapInv'
  <2>1. PICK f \in Fingerprint :
          f = [seq |-> seq, revs |-> [d \in Inventory |-> 0],
               seen |-> [d \in Inventory |-> "none"], half |-> {}]
    BY FingerprintTypes
  <2>2. /\ f.seq = seq /\ \A d \in Inventory : f.revs[d] = 0 /\ f.seen[d] = "none"
        /\ f.half = {}
    BY <2>1
  <2>3. /\ reader'.pc = "seq" /\ reader'.fp = f /\ reader'.token = t /\ reader'.moved = FALSE
        /\ rounds' = rounds
    BY <1>3, <2>1 DEF ReadSeq
  <2>4. Bound(f)
    <3>1. ASSUME NEW d \in Inventory PROVE Bind(f, d)
      <4>1. ASSUME NEW p \in Writers, On(p, d), Pending(p) PROVE writer[p].rev # 0
        BY <4>1 DEF WritersInOrder, SnapTypes
      <4>2. items[d].rev = 0 => /\ items[d].status = "none"
                               /\ \A p \in Writers : ~On(p, d)
        <5>1. items[d].rev = 0 => items[d] = Absent
          BY DEF WritersInOrder
        <5> QED BY <5>1 DEF Absent, On, SnapTypes
      <4> QED BY <2>2, <4>1, <4>2 DEF Bind
    <3> QED BY <2>2, <3>1 DEF Bound, Blank
  <2>5. Counted(f) /\ Unseeded(f)
    BY <2>2 DEF Counted, Unseeded, SnapTypes
  <2>6. Bound(f)' /\ Counted(f)' /\ Unseeded(f)'
    BY <1>0, <2>4, <2>5 DEF Bound, Blank, Bind, Counted, Unseeded, On, Pending,
                            LateBack, HalfChanged, Halfway, Has
  <2>7. ASSUME t \in Tokens, rounds[t] \notin {Unbound, Overtaken}
        PROVE  Agrees(rounds[t])'
    <3>1. PICK r \in Fingerprint : r = rounds[t] /\ Bound(r)
      BY <2>7 DEF SnapTypes, SnapInv, Kept
    <3>2. Agrees(r)'
      BY <2>2, <2>3, <3>1 DEF Agrees, Bound, Blank
    <3> QED BY <2>3, <3>1, <3>2
  <2>8. \A u \in Tokens : rounds'[u] \notin {Unbound, Overtaken} => Kept(rounds[u])'
    BY <1>0, <2>3, RoundsStep
  <2> QED BY <2>3, <2>6, <2>7, <2>8 DEF SnapInv
<1>4. CASE ListDevices
  <2>1. reader \in Reading /\ reader.pc = "seq" /\ rounds' = rounds
    BY <1>4, SnapRecords DEF ListDevices, SnapTypes
  <2>2. /\ reader'.pc = "list" /\ reader'.fp = reader.fp /\ reader'.token = reader.token
        /\ reader'.moved = reader.moved
    BY <1>4, <2>1 DEF ListDevices, Reading
  <2>3. PICK f \in Fingerprint : f = reader.fp /\ f = reader'.fp
    BY <2>1, <2>2 DEF Reading
  <2>4. Bound(f)' /\ Counted(f)' /\ Unseeded(f)'
    BY <1>0, <2>1, <2>3 DEF SnapInv, Bound, Blank, Bind, Counted, Unseeded, On, Pending,
                            LateBack, HalfChanged, Halfway, Has
  <2>5. \A r : Agrees(r)' <=> Agrees(r)
    BY <2>2 DEF Agrees
  <2>6. reader'.token \in Tokens =>
          rounds'[reader'.token] \in {Unbound, Overtaken} \/ Agrees(rounds[reader.token])'
    BY <2>1, <2>2, <2>5 DEF SnapInv
  <2>7. \A u \in Tokens : rounds'[u] \notin {Unbound, Overtaken} => Kept(rounds[u])'
    BY <1>0, <2>1, RoundsStep
  <2> QED BY <2>2, <2>3, <2>4, <2>6, <2>7 DEF SnapInv
<1>5. ASSUME NEW d \in Inventory, ReadDevice(d) PROVE SnapInv'
  <2>1. reader'.pc = "list" /\ rounds' = rounds
    <3>1. reader \in Reading
      BY <1>5, SnapRecords DEF SnapTypes, ReadDevice
    <3> QED BY <1>5, <3>1 DEF ReadDevice, Reading
  <2>2. \A u \in Tokens : rounds'[u] \notin {Unbound, Overtaken} => Kept(rounds[u])'
    BY <1>0, <2>1, RoundsStep
  <2> QED BY <1>5, <2>1, <2>2, DeviceRead DEF SnapInv
<1>6. ASSUME NEW t \in Tokens, BeginRound(t) PROVE SnapInv'
  <2>1. reader \in Reading /\ reader.pc = "list" /\ reader' = Resting
    BY <1>6, SnapRecords DEF BeginRound, Fingerprinted, SnapTypes
  <2>2. reader.fp \in Fingerprint /\ Kept(reader.fp)
    BY <2>1 DEF Reading, SnapInv, Kept
  <2>3. \A u \in Tokens : rounds'[u] = IF u = t THEN reader.fp ELSE rounds[u]
    BY <1>6 DEF BeginRound, SnapTypes
  <2> QED BY <1>2, <2>1, <2>2, <2>3
<1>7. CASE ContinueRound
  <2>1. /\ reader \in Reading /\ reader.pc = "list" /\ reader.token \in Tokens
        /\ rounds' = rounds
    BY <1>7, SnapRecords DEF ContinueRound, Fingerprinted, SnapTypes, Reading
  <2>2. /\ reader'.pc = "page" /\ reader'.fp = reader.fp /\ reader'.token = reader.token
        /\ reader'.moved = reader.moved
    BY <1>7, <2>1 DEF ContinueRound, Reading
  <2>3. PICK r : r = rounds[reader.token]
    OBVIOUS
  <2>4. r \notin {Unbound, Overtaken} /\ Admitted(r) /\ Agrees(r)
    BY <1>7, <2>1, <2>3 DEF ContinueRound, Admitted, SnapInv
  <2>5. Admitted(r)' /\ Agrees(r)' /\ rounds'[reader'.token] = r
    BY <2>1, <2>2, <2>3, <2>4 DEF Admitted, Agrees
  <2>6. \A u \in Tokens : rounds'[u] \notin {Unbound, Overtaken} => Kept(rounds[u])'
    BY <1>0, <2>1, RoundsStep
  <2> QED BY <2>1, <2>2, <2>5, <2>6 DEF SnapInv
<1>8. CASE RefuseRound \/ ReadPage
  BY <1>2, <1>8 DEF RefuseRound, ReadPage
<1>9. CASE EndRaced
  <2>1. reader' = Resting /\ \A t \in Tokens : rounds'[t] = rounds[t] \/ rounds'[t] = Overtaken
    BY <1>9 DEF EndRaced, SnapTypes
  <2> QED BY <1>2, <2>1
<1> QED BY <1>3, <1>4, <1>5, <1>6, <1>7, <1>8, <1>9 DEF ReaderStep

\* Reset clears the tokens, and overtakes a reader that has not finished.
LEMMA ResetKeepsSnapInv ==
  ASSUME SnapTypes, WritersInOrder, SnapInv, [SnapNext]_snapVars,
         ResetDevices \/ ResetCounter \/ ResetRounds
  PROVE  SnapInv'
<1>1. \A r : reader' = reader => (Agrees(r)' <=> Agrees(r)) /\ (Admitted(r)' <=> Admitted(r))
  BY DEF Agrees, Admitted
<1>2. CASE ResetDevices \/ ResetCounter
  <2>1. /\ rounds' = rounds /\ ~ResetRounds
        /\ \/ reader' = Raced
           \/ reader' = reader /\ reader.pc \notin {"seq", "list"}
    BY <1>2 DEF ResetDevices, ResetCounter, ResetRounds, RaceReader
  <2>2. \A u \in Tokens : rounds'[u] \notin {Unbound, Overtaken} => Kept(rounds[u])'
    BY <2>1, RoundsStep
  <2>3. CASE reader' = Raced
    BY <2>2, <2>3, SnapRecords DEF SnapInv
  <2>4. CASE reader' = reader /\ reader.pc \notin {"seq", "list"}
    <3>1. PICK r : r = rounds[reader.token] /\ r = rounds'[reader'.token]
      BY <2>1, <2>4
    <3> QED BY <1>1, <2>1, <2>2, <2>4, <3>1 DEF SnapInv
  <2> QED BY <2>1, <2>3, <2>4
<1>3. CASE ResetRounds
  <2>1. reader' = reader /\ \A t \in Tokens : rounds'[t] = Unbound
    BY <1>3 DEF ResetRounds
  <2>2. reader.pc \in {"seq", "list"} =>
          Bound(reader.fp)' /\ Counted(reader.fp)' /\ Unseeded(reader.fp)'
    BY <1>3, <2>1, ReaderWaits DEF ResetRounds, ResetDevices, ResetCounter
  <2> QED BY <2>1, <2>2 DEF SnapInv
<1> QED BY <1>2, <1>3

\* The order of the writers and SnapInv hold in every state.
LEMMA SnapInvHolds == SnapSpec => [](SnapTypes /\ WritersInOrder /\ SnapInv)
<1>1. SnapInit => SnapTypes /\ WritersInOrder /\ SnapInv
  <2> SUFFICES ASSUME SnapInit PROVE SnapTypes /\ WritersInOrder /\ SnapInv
    OBVIOUS
  <2>1. Seeded \in Item /\ Seeded.rev = 1
    BY DEF Seeded, Item, Shown
  <2>2. SnapTypes
    BY <2>1 DEF SnapInit, SnapTypes
  <2>3. \A p \in Writers : writer[p] = NotWriting /\ writer[p].todo = {}
    BY SnapRecords DEF SnapInit
  <2>4. WritersInOrder
    BY <2>1, <2>3 DEF SnapInit, WritersInOrder, InOrder, On, Has
  <2>5. SnapInv
    BY SnapRecords DEF SnapInit, SnapInv
  <2> QED BY <2>2, <2>4, <2>5
<1>2. SnapTypes /\ WritersInOrder /\ SnapInv /\ [SnapNext]_snapVars
        => (SnapTypes /\ WritersInOrder /\ SnapInv)'
  <2> SUFFICES ASSUME SnapTypes, WritersInOrder, SnapInv, [SnapNext]_snapVars
               PROVE  SnapTypes' /\ WritersInOrder' /\ SnapInv'
    OBVIOUS
  <2>1. SnapTypes' /\ WritersInOrder'
    BY SnapTypesStep, WritersInOrderStep
  <2>2. SnapInv'
    <3>1. ASSUME UNCHANGED <<reader, rounds, clearing>> PROVE SnapInv'
      BY <3>1, WritersKeepSnapInv DEF ResetRounds, ResetDevices, ResetCounter
    <3>2. CASE WriterBegins
      BY <3>1, <3>2, StartedInOrder
    <3>3. CASE WriterStep
      BY <3>1, <3>3 DEF WriterStep, SetStatus, DrawRevision, AssignRevision, RecordEvent
    <3>4. ASSUME NEW d \in Inventory, SeedDevice(d) PROVE SnapInv'
      BY <3>4, WritersKeepSnapInv DEF SeedDevice, ResetRounds, ResetDevices, ResetCounter
    <3>5. CASE UNCHANGED snapVars
      BY <3>1, <3>5 DEF snapVars
    <3> QED BY <3>2, <3>3, <3>4, <3>5, ReaderKeepsSnapInv, ResetKeepsSnapInv
        DEF SnapNext, ResetStep
  <2> QED BY <2>1, <2>2
<1> QED BY <1>1, <1>2, PTL DEF SnapSpec

\* Type correctness: a page route and an injection keep what they have read and
\* drawn in their records across anything the event loop and reset do.
THEOREM SnapTypeCorrect == SnapSpec => []SnapTypeOK
<1>1. SnapTypes => SnapTypeOK
  BY DEF SnapTypes, SnapTypeOK
<1> QED BY <1>1, SnapInvHolds, PTL

\* A token that is accepted stands for the inventory it was handed out for, for
\* any number of devices, tokens, injecting threads and revisions, whatever
\* statements of writers and resets come between those of the reader.  It says
\* this of the moment a revision is read, not of the page, and with the
\* exclusions of TokenMeansUnchanged.
THEOREM TokensBindContents == SnapSpec => []TokenMeansUnchanged
<1>1. SnapTypes /\ SnapInv => TokenMeansUnchanged
  BY DEF SnapInv, Agrees, Admitted, TokenMeansUnchanged
<1> QED BY <1>1, SnapInvHolds, PTL

-----------------------------------------------------------------------------
(* RTP ports *)

\* Type correctness: the cursor never leaves the configured range, whatever is
\* opened, released and marked as used.
THEOREM PortTypeCorrect == PortSpec => []PortTypeOK
<1> USE PortAssumption DEF PortAssumption, Ports, RangeSize
<1>1. PortInit => PortTypeOK
  <2> SUFFICES ASSUME PortInit PROVE PortTypeOK
    OBVIOUS
  <2>1. NoPort \in [pc : {"none", "reserved", "open"}, port : Ports]
    BY DEF NoPort
  <2>2. held \in [Streams -> [pc : {"none", "reserved", "open"}, port : Ports]]
    BY <2>1 DEF PortInit
  <2>3. Low \in Ports /\ 0 \in 0..RangeSize + 1
    OBVIOUS
  <2> QED BY <2>2, <2>3 DEF PortInit, PortTypeOK
<1>2. PortTypeOK /\ [PortNext]_portVars => PortTypeOK'
  <2> SUFFICES ASSUME PortTypeOK, [PortNext]_portVars PROVE PortTypeOK'
    OBVIOUS
  <2> USE DEF PortTypeOK
  <2>1. ASSUME NEW s \in Streams, Reserve(s) PROVE PortTypeOK'
    BY <2>1 DEF Reserve, Wrapped
  <2>2. ASSUME NEW s \in Streams, OpenServer(s) PROVE PortTypeOK'
    <3>1. MarkUsed(held[s].port) \in Ports
      BY DEF MarkUsed, Wrapped, PastPort
    <3> QED BY <2>2, <3>1 DEF OpenServer
  <2>3. ASSUME NEW s \in Streams, Release(s) PROVE PortTypeOK'
    BY <2>3 DEF Release, NoPort
  <2>4. CASE UNCHANGED portVars
    BY <2>4 DEF portVars
  <2> QED BY <2>1, <2>2, <2>3, <2>4 DEF PortNext
<1> QED BY <1>1, <1>2, PTL DEF PortSpec

\* PortsAreDistinct is not inductive: a port is new because the cursor is ahead
\* of every port that was handed out, and it stays there because the port that
\* is marked as used is the one right behind it.
CursorIsAhead ==
    /\ cursor = IF drawn = RangeSize THEN Low ELSE Low + drawn
    /\ \A s \in Streams : held[s].pc # "none" =>
         /\ held[s].port < Low + drawn
         /\ latest = s => held[s].port = Low + drawn - 1

CursorInv ==
    /\ drawn <= RangeSize /\ ~overlapped => CursorIsAhead
    /\ PortsAreDistinct

\* No two streams are told the same port, as long as streams are established
\* one after the other and the range has not been used up once.
THEOREM DistinctPorts == PortSpec => []PortsAreDistinct
<1> USE PortAssumption DEF PortAssumption, Ports, RangeSize
<1>1. PortInit => CursorInv
  BY DEF PortInit, CursorInv, CursorIsAhead, PortsAreDistinct, NoPort
<1>2. PortTypeOK /\ CursorInv /\ [PortNext]_portVars => CursorInv'
  <2> SUFFICES ASSUME PortTypeOK, CursorInv, [PortNext]_portVars PROVE CursorInv'
    OBVIOUS
  <2> USE DEF PortTypeOK, CursorInv, CursorIsAhead, PortsAreDistinct
  <2>1. ASSUME NEW s \in Streams, Reserve(s) PROVE CursorInv'
    <3> SUFFICES ASSUME (drawn <= RangeSize /\ ~overlapped)'
                 PROVE  CursorIsAhead' /\ PortsAreDistinct'
      OBVIOUS
    <3>1. drawn < RangeSize /\ ~overlapped /\ drawn' = drawn + 1
      BY <2>1 DEF Reserve
    <3>2. cursor = Low + drawn
      BY <2>1, <3>1 DEF Reserve
    <3>3. held'[s] = [pc |-> "reserved", port |-> cursor]
      BY <2>1 DEF Reserve
    <3>4. \A t \in Streams \ {s} : held'[t] = held[t]
      BY <2>1 DEF Reserve
    <3>5. cursor' = IF drawn' = RangeSize THEN Low ELSE Low + drawn'
      BY <2>1, <3>1, <3>2 DEF Reserve, Wrapped
    <3>6. CursorIsAhead'
      BY <2>1, <3>1, <3>2, <3>3, <3>4, <3>5 DEF Reserve
    <3>7. \A t \in Streams \ {s} : held[t].pc # "none" => held[t].port < Low + drawn
      BY <3>1
    <3>8. PortsAreDistinct'
      BY <3>1, <3>2, <3>3, <3>4, <3>7
    <3> QED BY <3>6, <3>8
  <2>2. ASSUME NEW s \in Streams, OpenServer(s) PROVE CursorInv'
    <3> SUFFICES ASSUME (drawn <= RangeSize /\ ~overlapped)'
                 PROVE  CursorIsAhead' /\ PortsAreDistinct'
      OBVIOUS
    <3>1. drawn <= RangeSize /\ ~overlapped /\ latest = s
      BY <2>2 DEF OpenServer
    <3>2. held[s].port = Low + drawn - 1
      BY <2>2, <3>1 DEF OpenServer
    <3>3. cursor' = cursor
      BY <2>2, <3>1, <3>2 DEF OpenServer, MarkUsed, Wrapped, PastPort
    <3>4. \A t \in Streams : /\ held'[t].port = held[t].port
                             /\ held'[t].pc # "none" <=> held[t].pc # "none"
      BY <2>2 DEF OpenServer
    <3> QED BY <2>2, <3>1, <3>3, <3>4 DEF OpenServer
  <2>3. ASSUME NEW s \in Streams, Release(s) PROVE CursorInv'
    <3>1. held'[s].pc = "none" /\ \A t \in Streams \ {s} : held'[t] = held[t]
      BY <2>3 DEF Release, NoPort
    <3> QED BY <2>3, <3>1 DEF Release
  <2>4. CASE UNCHANGED portVars
    BY <2>4 DEF portVars
  <2> QED BY <2>1, <2>2, <2>3, <2>4 DEF PortNext
<1>3. CursorInv => PortsAreDistinct
  BY DEF CursorInv
<1> QED BY <1>1, <1>2, <1>3, PortTypeCorrect, PTL DEF PortSpec

-----------------------------------------------------------------------------
(* The Provider *)

\* What the proofs say of registration, snapshots and ports holds of them side
\* by side.
THEOREM ProviderRunsItsParts == ProviderSpec => RegSpec /\ SnapSpec /\ PortSpec
<1>1. ProviderInit => RegInit /\ SnapInit /\ PortInit
  BY DEF ProviderInit
<1>2. [ProviderNext]_providerVars =>
        [RegNext]_regVars /\ [SnapNext]_snapVars /\ [PortNext]_portVars
  BY DEF ProviderNext, providerVars
<1> QED BY <1>1, <1>2, PTL DEF ProviderSpec, RegSpec, SnapSpec, PortSpec

\* Every variable of the three tables keeps its type, whichever is in focus.
THEOREM ProviderTypeCorrect == ProviderSpec => []ProviderTypeOK
<1>1. RegTypeOK /\ SnapTypeOK /\ PortTypeOK => ProviderTypeOK
  BY DEF ProviderTypeOK
<1> QED
  BY <1>1, ProviderRunsItsParts, RegTypeCorrect, SnapTypeCorrect, PortTypeCorrect, PTL
=============================================================================
