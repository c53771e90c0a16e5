---------------------------- MODULE QuerySessions ----------------------------
(***************************************************************************)
(* Catalog syncs and record queries of the fake Provider: the asynchronous *)
(* operation a client polls, the coroutine behind it, the registrar's      *)
(* query session that aggregates the device's answers, the device that     *)
(* answers in one or several messages, and the control plane's reset.      *)
(*                                                                         *)
(* One device with one channel: sessions are kept per device for catalogs  *)
(* and per channel for records, so those two keys are the two kinds, and   *)
(* devices and channels share nothing else.  SN is sent and echoed, but    *)
(* the registrar never compares it, so it does not occur here.             *)
(***************************************************************************)
EXTENDS Naturals, Sequences, FiniteSets, Functions

CONSTANTS
  Op,           \* operation and query ids that may be drawn (bound: queries ever submitted)
  IdemKey,      \* values of the Idempotency-Key header
  Catalog,      \* the channels of the device, in the order it lists them
  Shown,        \* the lists a scenario may leave of it (sent_items)
  Seeded,       \* the channels the Provider knows from its seed
  Window,       \* <<start, end>> of the record queries in play
  Hour,         \* the length of a recording, in the unit of Window
  Kind,         \* subset of {"catalog", "record"}
  MaxResets,    \* bound: how often POST /testkit/v1/reset is called
  NoOp, NoRequest, NoEntry

Request ==
  {r \in {[kind |-> "catalog", window |-> <<0, 0>>]}
           \union [kind : {"record"}, window : Window] : r.kind \in Kind}
Entry == [req : Request, ref : Op]

ASSUME QueryConstants ==
  /\ Kind \subseteq {"catalog", "record"}
  /\ MaxResets \in Nat
  /\ Hour \in Nat \ {0}
  /\ Window \subseteq Nat \X Nat
  /\ \A w \in Window : w[1] < w[2]
  /\ Catalog \in Seq(Range(Catalog))
  /\ \A shown \in Shown : shown \in Seq(Range(Catalog))
  /\ NoOp \notin Op
  /\ NoRequest \notin Request
  /\ NoEntry \notin Entry

Least(i, j) == IF i < j THEN i ELSE j
Pieces(n, size) == (n + size - 1) \div size

\* One recording per hour of the window, left-closed and right-open.
Recordings(w) ==
  [i \in 1..Pieces(w[2] - w[1], Hour) |->
     <<w[1] + (i - 1) * Hour, Least(w[1] + i * Hour, w[2])>>]

\* What the device has to tell about a request, in the order it lists it.
Listing(r) == IF r.kind = "catalog" THEN Catalog ELSE Recordings(r.window)
Whole(r)   == Range(Listing(r))
Item       == UNION {Whole(r) : r \in Request}

VARIABLES
  \* the operation objects; they outlive their removal from the store
  ask,        \* the request an operation was submitted with
  status,     \* CatalogOperation.status / RecordQuery.status
  items,      \* RecordQuery.items, or the channels a sync discovered
  \* the store
  stored,     \* ids in catalog_operations or record_queries
  idem,       \* IdempotencyStore._entries
  known,      \* DeviceState.channels
  records,    \* Store.records: the interval behind every record key
  announced,  \* the syncs with a CATALOG_CHANGED event in Store.events
  \* the coroutines and the registrar
  pc,         \* where _complete_catalog_sync / _complete_record_query is
  registered, \* _catalog_sessions and _recordinfo_sessions
  session,    \* the _CatalogSession / _RecordInfoSession of a coroutine
  \* the outside
  asked,      \* queries the device has not answered yet
  answers,    \* responses in flight
  listening,  \* the device has a listener
  resetPc,    \* where the reset handler is suspended
  \* history
  crossed,    \* queries that waited while another one of their kind did
  foreign,    \* queries whose session took an answer to another query
  inReset,    \* operations submitted while a reset was under way
  resets      \* resets that were begun

objVars     == <<ask, status, items>>
storeVars   == <<stored, idem, known, records, announced>>
outsideVars == <<asked, answers, listening>>
history     == <<crossed, foreign, inReset, resets>>
vars == <<objVars, storeVars, pc, registered, session, outsideVars, resetPc, history>>

Ended == {"SUCCEEDED", "PARTIAL", "FAILED"}
Body  == [items : SUBSET Item, sum : Nat]

\* A fresh session; also what is left of one that nobody uses any more.
Fresh == [items |-> {}, future |-> "pending", result |-> {}, timer |-> FALSE]

SameKind(o) == {p \in Op : ask[p] # NoRequest /\ ask[p].kind = ask[o].kind}

Init ==
  /\ ask = [o \in Op |-> NoRequest]
  /\ status = [o \in Op |-> "NONE"]
  /\ items = [o \in Op |-> {}]
  /\ stored = {}
  /\ idem = [k \in IdemKey |-> NoEntry]
  /\ known = Seeded
  /\ records = {}
  /\ announced = {}
  /\ pc = [o \in Op |-> "none"]
  /\ registered = [kind \in Kind |-> NoOp]
  /\ session = [o \in Op |-> Fresh]
  /\ asked = {}
  /\ answers = {}
  /\ listening = TRUE
  /\ resetPc = "idle"
  /\ crossed = {} /\ foreign = {} /\ inReset = {} /\ resets = 0
-----------------------------------------------------------------------------
(* Requests.  One for an unknown, offline or unsupported target is refused *)
(* before its key is resolved, and one that finds its operation, or its    *)
(* key taken by another request, changes nothing either.                   *)

\* Mutation of Replays: the operation behind the key is not looked up.
ReplaysOnConflict(key, r) == idem[key].req # r

Replays(key, r) == idem[key].req # r \/ idem[key].ref \in stored

\* Ids and keys are uuids; which of the unused ones is drawn does not matter.
IsNew(o)      == pc[o] = "none" /\ o = CHOOSE p \in Op : pc[p] = "none"
IsNewKey(key) == idem[key] = NoEntry /\ key = CHOOSE k \in IdemKey : idem[k] = NoEntry

\* Mutation of Submit: the entry never learns the operation it stands for.
SubmitWithoutRef(o, key, r) ==
  /\ IsNew(o)
  /\ IsNewKey(key) \/ (idem[key] # NoEntry /\ ~Replays(key, r))
  /\ ask' = [ask EXCEPT ![o] = r]
  /\ status' = [status EXCEPT ![o] = "ACCEPTED"]
  /\ stored' = stored \union {o}
  /\ idem' = [idem EXCEPT ![key] = [req |-> r, ref |-> NoOp]]
  /\ pc' = [pc EXCEPT ![o] = "created"]
  /\ inReset' = IF resetPc = "idle" THEN inReset ELSE inReset \union {o}
  /\ UNCHANGED <<items, known, records, announced, registered, session, outsideVars,
                 resetPc, crossed, foreign, resets>>

Submit(o, key, r) ==
  /\ IsNew(o)
  /\ IsNewKey(key) \/ (idem[key] # NoEntry /\ ~Replays(key, r))
  /\ ask' = [ask EXCEPT ![o] = r]
  /\ status' = [status EXCEPT ![o] = "ACCEPTED"]
  /\ stored' = stored \union {o}
  /\ idem' = [idem EXCEPT ![key] = [req |-> r, ref |-> o]]
  /\ pc' = [pc EXCEPT ![o] = "created"]
  /\ inReset' = IF resetPc = "idle" THEN inReset ELSE inReset \union {o}
  /\ UNCHANGED <<items, known, records, announced, registered, session, outsideVars,
                 resetPc, crossed, foreign, resets>>
-----------------------------------------------------------------------------
(* The coroutine of an operation.                                          *)

\* A session replaces the one another query of the same kind may be waiting on.
Asks(o) ==
  LET rivals == {p \in SameKind(o) : pc[p] = "waiting"}
  IN  /\ pc[o] = "created" /\ listening
      /\ status' = [status EXCEPT ![o] = "RUNNING"]
      /\ registered' = [registered EXCEPT ![ask[o].kind] = o]
      /\ asked' = asked \union {o}
      /\ pc' = [pc EXCEPT ![o] = "waiting"]
      /\ crossed' = IF rivals = {} THEN crossed ELSE crossed \union rivals \union {o}
      /\ UNCHANGED <<ask, items, storeVars, session, answers, listening, resetPc,
                     foreign, inReset, resets>>

\* The device has no listener, so there is no address to ask.
CannotAsk(o) ==
  /\ pc[o] = "created" /\ ~listening
  /\ status' = [status EXCEPT ![o] = "FAILED"]
  /\ pc' = [pc EXCEPT ![o] = "done"]
  /\ UNCHANGED <<ask, items, storeVars, registered, session, outsideVars, resetPc,
                 history>>

\* Mutation of Leaves: clear() where the code has pop(device_id, None).
LeavesAll(o) ==
  /\ pc' = [pc EXCEPT ![o] = "done"]
  /\ registered' = [kind \in Kind |-> NoOp]
  /\ session' = [session EXCEPT ![o] = Fresh]
  /\ UNCHANGED <<ask, stored, idem, outsideVars, resetPc, history>>

\* The finally clause: it removes whatever session is registered.
Leaves(o) ==
  /\ pc' = [pc EXCEPT ![o] = "done"]
  /\ registered' = [registered EXCEPT ![ask[o].kind] = NoOp]
  /\ session' = [session EXCEPT ![o] = Fresh]
  /\ UNCHANGED <<ask, stored, idem, outsideVars, resetPc, history>>

\* A record key names the start only; of two recordings with one key either may be left.
Rewritten(found) ==
  {(records \ {r \in records : \E i \in found : i[1] = r[1]}) \union kept :
     kept \in {s \in SUBSET found :
                 \A i \in found : \E j \in s : {k \in s : k[1] = i[1]} = {j}}}

\* Results update the objects the coroutine holds: the device it was submitted for is
\* the one in the store as long as the operation is.
Finish(o, found, outcome) ==
  /\ status' = [status EXCEPT ![o] = outcome]
  /\ items' = [items EXCEPT ![o] = found]
  /\ \/ /\ ask[o].kind = "catalog"
        /\ known' = IF o \in stored THEN known \union found ELSE known
        /\ announced' = announced \union {o}
        /\ UNCHANGED records
     \/ /\ ask[o].kind = "record"
        /\ records' \in Rewritten(found)
        /\ UNCHANGED <<known, announced>>
  /\ Leaves(o)

\* The coroutine resumes with the result of its session.
Returns(o) ==
  /\ pc[o] = "waiting"
  /\ \/ session[o].future = "complete" /\ Finish(o, session[o].result, "SUCCEEDED")
     \/ session[o].future = "partial"  /\ Finish(o, session[o].result, "PARTIAL")

\* Mutations of TimesOut: no error without items, and no timeout without items.
TimesOutQuietly(o) ==
  /\ pc[o] = "waiting"
  /\ IF session[o].items # {}
     THEN Finish(o, session[o].items, "PARTIAL")
     ELSE Leaves(o) /\ UNCHANGED <<status, items, known, records, announced>>

TimesOutWithItems(o) ==
  /\ pc[o] = "waiting" /\ session[o].items # {}
  /\ Finish(o, session[o].items, "PARTIAL")

\* wait_for gives up.  From Python 3.12 on it does so even if the result came in the
\* same iteration of the loop, and then what the session holds counts.
TimesOut(o) ==
  /\ pc[o] = "waiting"
  /\ IF session[o].items # {}
     THEN Finish(o, session[o].items, "PARTIAL")
     ELSE /\ status' = [status EXCEPT ![o] = "FAILED"]
          /\ Leaves(o)
          /\ UNCHANGED <<items, known, records, announced>>

\* CancelledError passes through: the status stays as it is.
Dies(o) ==
  /\ pc[o] = "waiting" /\ session[o].future = "cancelled"
  /\ Leaves(o)
  /\ UNCHANGED <<status, items, known, records, announced>>
-----------------------------------------------------------------------------
(* Aggregation in the registrar.                                           *)

\* Mutation of IsComplete: one item short is enough.
IsAlmostComplete(kind, got, sum) ==
  \/ kind = "catalog" /\ sum > 0 /\ Cardinality(got) + 1 >= sum
  \/ kind = "record" /\ Cardinality(got) + 1 >= sum

IsComplete(kind, got, sum) ==
  \/ kind = "catalog" /\ sum > 0 /\ Cardinality(got) >= sum
  \/ kind = "record" /\ Cardinality(got) >= sum

\* An empty record catalog is complete at once and drops what came before.
Collected(kind, got, sum) == IF kind = "record" /\ sum = 0 THEN {} ELSE got

Resolve(s, how, what) ==
  IF s.future = "pending" THEN [s EXCEPT !.future = how, !.result = what] ELSE s

\* A session after one more response: done, or waiting for the settle window again.
Aggregate(s, kind, m) ==
  LET got == s.items \union m.items
      t   == [s EXCEPT !.items = got]
  IN  IF IsComplete(kind, got, m.sum)
      THEN Resolve(t, "complete", Collected(kind, got, m.sum))
      ELSE [t EXCEPT !.timer = (s.future = "pending")]

\* A response finds its session by kind; without one it is refused.
Receive(m) ==
  LET kind == ask[m.op].kind
      o    == registered[kind]
  IN  /\ m \in answers
      /\ answers' = answers \ {m}
      /\ IF o = NoOp THEN UNCHANGED <<session, foreign>>
         ELSE /\ session' = [session EXCEPT ![o] = Aggregate(@, kind, m)]
              /\ foreign' = IF m.op = o THEN foreign ELSE foreign \union {o}
      /\ UNCHANGED <<objVars, storeVars, pc, registered, asked, listening, resetPc,
                     crossed, inReset, resets>>

\* Mutation of Settles: it does not look whether there are items.
SettlesAnyway(o) ==
  /\ session[o].timer
  /\ session' = [session EXCEPT ![o] = Resolve([@ EXCEPT !.timer = FALSE], "partial", @.items)]
  /\ UNCHANGED <<objVars, storeVars, pc, registered, outsideVars, resetPc, history>>

\* The settle window is over; without items the session waits for the timeout.
Settles(o) ==
  /\ session[o].timer
  /\ session' =
       [session EXCEPT ![o] =
          IF @.items = {} THEN [@ EXCEPT !.timer = FALSE]
          ELSE Resolve([@ EXCEPT !.timer = FALSE], "partial", @.items)]
  /\ UNCHANGED <<objVars, storeVars, pc, registered, outsideVars, resetPc, history>>
-----------------------------------------------------------------------------
(* The device.  Its scenario may be arranged anew at any time, so each     *)
(* query meets an arbitrary one.  Answers travel in no order, which covers *)
(* out-of-order.  Nothing obliges a query or an answer to arrive: one that *)
(* stays where it is was lost, delayed, malformed or met the mode timeout. *)

Response(part, sum) == [items |-> Range(part), sum |-> sum]
Single(list, sum)   == <<Response(list, sum)>>
Twice(list, sum)    == <<Response(list, sum), Response(list, sum)>>
Paged(list, size, sum) ==
  [i \in 1..Pieces(Len(list), size) |->
     Response(SubSeq(list, (i - 1) * size + 1, Least(i * size, Len(list))), sum)]

InEveryMode(list, sum) ==
  {Single(list, sum), Twice(list, sum)}
    \union {Paged(list, size, sum) : size \in 1..Len(list)}

\* Missing channels are missing in every mode, but SumNum counts them.
CatalogResponses ==
  UNION {InEveryMode(shown, Len(Catalog)) : shown \in Shown}

\* Missing recordings are the last ones, and missing is a mode of its own, as is empty.
RecordResponses(w) ==
  LET all == Recordings(w)
  IN  InEveryMode(all, Len(all))
        \union {Single(SubSeq(all, 1, n), Len(all)) : n \in 0..Len(all)}
        \union {Single(<<>>, 0)}

Responses(r) ==
  IF r.kind = "catalog" THEN CatalogResponses ELSE RecordResponses(r.window)

DeviceAnswers(o) ==
  /\ o \in asked /\ listening
  /\ asked' = asked \ {o}
  /\ \E sent \in Responses(ask[o]) :
       answers' = answers \union
         {[op |-> o, part |-> i, items |-> sent[i].items, sum |-> sent[i].sum] :
            i \in DOMAIN sent}
  /\ UNCHANGED <<objVars, storeVars, pc, registered, session, listening, resetPc, history>>

-----------------------------------------------------------------------------
(* POST /testkit/v1/reset: the tables and the listeners go, the listeners  *)
(* are awaited one by one, and only then the registrar is reset.           *)

ServiceReset ==
  /\ resets < MaxResets /\ resetPc = "idle"
  /\ resets' = resets + 1
  /\ stored' = {} /\ records' = {} /\ announced' = {}
  /\ known' = Seeded
  /\ idem' = [k \in IdemKey |-> NoEntry]
  /\ listening' = FALSE
  /\ resetPc' = "listeners"
  /\ UNCHANGED <<objVars, pc, registered, session, asked, answers, crossed, foreign, inReset>>

ListenerReturns ==
  /\ resetPc = "listeners"
  /\ listening' = TRUE
  /\ resetPc' = "registrar"
  /\ UNCHANGED <<objVars, storeVars, pc, registered, session, asked, answers, history>>

\* The timer is cancelled and a pending future too; a replaced session is not found.
Cancelled(s) == Resolve([s EXCEPT !.timer = FALSE], "cancelled", {})

RegistrarReset ==
  /\ resetPc = "registrar"
  /\ resetPc' = "idle"
  /\ session' = [o \in Op |-> IF \E kind \in Kind : registered[kind] = o
                              THEN Cancelled(session[o]) ELSE session[o]]
  /\ registered' = [kind \in Kind |-> NoOp]
  /\ UNCHANGED <<objVars, storeVars, pc, outsideVars, history>>
-----------------------------------------------------------------------------
Coroutine(o) == Asks(o) \/ CannotAsk(o) \/ Returns(o) \/ TimesOut(o) \/ Dies(o)
Reset        == ServiceReset \/ ListenerReturns \/ RegistrarReset

Next ==
  \/ \E o \in Op : \/ \E key \in IdemKey, r \in Request : Submit(o, key, r)
                   \/ Coroutine(o) \/ Settles(o)
                   \/ DeviceAnswers(o)
  \/ \E m \in answers : Receive(m)
  \/ Reset

Spec == Init /\ [][Next]_vars

\* The loop runs what is ready and wait_for bounds every wait; a reset that began ends.
Fairness ==
  /\ \A o \in Op : WF_vars(Coroutine(o))
  /\ WF_vars(ListenerReturns) /\ WF_vars(RegistrarReset)

FairSpec == Spec /\ Fairness
-----------------------------------------------------------------------------
(* Properties                                                              *)

Sessions == [items : SUBSET Item,
             future : {"pending", "complete", "partial", "cancelled"},
             result : SUBSET Item,
             timer : BOOLEAN]

\* Every variable has its type; catalog_operations and the sessions are keyed as in the code.
TypeOK ==
  /\ ask \in [Op -> Request \union {NoRequest}]
  /\ status \in [Op -> {"NONE", "ACCEPTED", "RUNNING"} \union Ended]
  /\ items \in [Op -> SUBSET Item]
  /\ stored \subseteq Op
  /\ idem \in [IdemKey -> Entry \union {NoEntry}]
  /\ known \subseteq Seeded \union Item
  /\ records \subseteq Item
  /\ announced \subseteq Op
  /\ pc \in [Op -> {"none", "created", "waiting", "done"}]
  /\ registered \in [Kind -> Op \union {NoOp}]
  /\ session \in [Op -> Sessions]
  /\ asked \subseteq Op
  /\ answers \subseteq [op : Op, part : Nat, items : SUBSET Item, sum : Nat]
  /\ listening \in BOOLEAN
  /\ resetPc \in {"idle", "listeners", "registrar"}
  /\ crossed \subseteq Op /\ foreign \subseteq Op /\ inReset \subseteq Op
  /\ resets \in 0..MaxResets

\* A query that no other query of its device or channel overlaps can hear its answers: as
\* long as it waits without a result, its session is the registered one, whatever other
\* queries, late timeouts and finally clauses do.  Overlapping queries take their sessions
\* from each other.
LoneQueryIsRegistered ==
  \A o \in Op : pc[o] = "waiting" /\ session[o].future = "pending" /\ o \notin crossed
                => registered[ask[o].kind] = o

\* SUCCEEDED means the whole listing (or a record catalog the device calls empty), PARTIAL
\* a part of it that is worth reporting: aggregation neither loses nor invents anything,
\* however the device pages, repeats and omits.  A session that took a late answer to
\* another query is excepted: the registrar does not compare SN.
ResultIsHonest ==
  \A o \in Op \ foreign :
    /\ status[o] = "SUCCEEDED" => \/ items[o] = Whole(ask[o])
                                 \/ (ask[o].kind = "record" /\ items[o] = {})
    /\ status[o] = "PARTIAL" => items[o] # {} /\ items[o] \subseteq Whole(ask[o])

\* A repeated request finds its operation and does not ask the device a second time: every
\* operation a client can see is what its key answers to the same request, so no two of
\* them were created under one key, resets in between notwithstanding.
RetriesFindOperations ==
  \A o \in stored : \E key \in IdemKey : idem[key] = [req |-> ask[o], ref |-> o]

\* An operation that a client can see, that has no outcome and that nobody works on any
\* more was submitted while a reset was under way, and lost its query to that reset.
StuckOnlyByReset ==
  \A o \in stored : pc[o] = "done" /\ status[o] \notin Ended => o \in inReset

\* Every operation gets an outcome, a device that answers nothing notwithstanding, unless
\* a reset removes it or it was submitted during one.
QueriesEnd ==
  \A o \in Op : status[o] = "ACCEPTED"
                ~> status[o] \in Ended \/ o \notin stored \/ o \in inReset

\* The operations a client polls behave like OperationContract says.
Seen(o) == IF o \in stored THEN status[o]
           ELSE IF status[o] = "NONE" THEN "UNKNOWN" ELSE "GONE"

Contract == INSTANCE OperationContract WITH
  view  <- [o \in Op |-> Seen(o)],
  items <- [o \in Op |-> IF o \in stored THEN items[o] ELSE {}]

ImplementsOperations == Contract!OSpec

\* The documents: record keys are bound to half-open intervals (README.md:25), so the key
\* of a recording in a query's result leads to that recording.  The code's key has the
\* start only, and a query with another end overwrites the record behind it.  (Queries
\* that took a late answer are excepted, they hold recordings of another window anyway.)
RecordKeysBindIntervals ==
  \A o \in stored \ foreign : ask[o].kind = "record" => items[o] \subseteq records
=============================================================================
