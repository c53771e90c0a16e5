------------------------- MODULE QuerySessionsProofs -------------------------
(***************************************************************************)
(* Proofs about QuerySessions, for every number of operations and keys,    *)
(* every catalog and window, and every number of resets.                   *)
(***************************************************************************)
EXTENDS QuerySessions, FiniteSetTheorems, TLAPS

\* The number of pages, and of recordings, is a number.
LEMMA PiecesType ==
  ASSUME NEW n \in Nat, NEW size \in Nat \ {0}
  PROVE  Pieces(n, size) \in Nat
BY DEF Pieces

\* A page holds elements of the list it is cut from.
LEMMA PartOfList ==
  ASSUME NEW S, NEW list \in Seq(S), NEW m \in Nat \ {0}, NEW n \in Nat, n <= Len(list)
  PROVE  Range(SubSeq(list, m, n)) \subseteq S
BY DEF Range

\* A recording list is a list.
LEMMA ListingType ==
  ASSUME NEW r \in Request
  PROVE  /\ Listing(r) \in Seq(Whole(r))
         /\ Whole(r) \in SUBSET Item
<1>1. Whole(r) \in SUBSET Item
  BY DEF Item
<1>2. CASE r.kind = "catalog"
  BY <1>1, <1>2, QueryConstants DEF Listing, Whole
<1>3. CASE r.kind # "catalog"
  <2>1. r.window \in Window /\ r.window[1] \in Nat /\ r.window[2] \in Nat
        /\ r.window[2] - r.window[1] \in Nat
    BY <1>3, QueryConstants DEF Request
  <2>2. Pieces(r.window[2] - r.window[1], Hour) \in Nat
    BY <2>1, PiecesType, QueryConstants
  <2>3. DOMAIN Recordings(r.window) = 1..Pieces(r.window[2] - r.window[1], Hour)
    BY DEF Recordings
  <2>4. Recordings(r.window) = [i \in DOMAIN Recordings(r.window) |-> Recordings(r.window)[i]]
    BY DEF Recordings
  <2>5. Listing(r) = Recordings(r.window)
    BY <1>3 DEF Listing
  <2> QED BY <1>1, <2>2, <2>3, <2>4, <2>5 DEF Whole, Range
<1> QED BY <1>2, <1>3

\* One response about a list of items of the device.
LEMMA ResponseType ==
  ASSUME NEW S \in SUBSET Item, NEW list \in Seq(S), NEW sum \in Nat
  PROVE  /\ Response(list, sum) \in Body
         /\ Response(list, sum).items \subseteq S /\ Response(list, sum).sum = sum
BY DEF Response, Body, Range

\* Whatever mode the device is in, its answer is a list of responses about its items.
LEMMA ModesType ==
  ASSUME NEW S \in SUBSET Item, NEW list \in Seq(S), NEW sum \in Nat,
         NEW sent \in InEveryMode(list, sum), NEW i \in DOMAIN sent
  PROVE  /\ i \in Nat /\ sent[i] \in Body
         /\ sent[i].items \subseteq S /\ sent[i].sum = sum
<1>1. CASE sent = Single(list, sum)
  BY <1>1, ResponseType DEF Single
<1>2. CASE sent = Twice(list, sum)
  BY <1>2, ResponseType DEF Twice
<1>3. ASSUME NEW size \in 1..Len(list), sent = Paged(list, size, sum)
      PROVE  /\ i \in Nat /\ sent[i] \in Body
             /\ sent[i].items \subseteq S /\ sent[i].sum = sum
  <2> DEFINE from == (i - 1) * size + 1
             to   == Least(i * size, Len(list))
  <2>1. Len(list) \in Nat /\ size \in Nat \ {0}
    OBVIOUS
  <2>2. i \in 1..Pieces(Len(list), size) /\ sent[i] = Response(SubSeq(list, from, to), sum)
    BY <1>3 DEF Paged
  <2> HIDE DEF from, to
  <2>p. Pieces(Len(list), size) \in Nat
    BY <2>1, PiecesType
  <2>3. i \in Nat /\ i - 1 \in Nat
    BY <2>2, <2>p
  <2> USE DEF from, to
  <2>4. (i - 1) * size \in Nat /\ i * size \in Nat
    BY <2>1, <2>3
  <2>5. from \in Nat \ {0} /\ to \in Nat /\ to <= Len(list)
    BY <2>1, <2>4 DEF Least
  <2>6. Range(SubSeq(list, from, to)) \subseteq S
    BY <2>5, PartOfList
  <2> HIDE DEF from, to
  <2> QED BY <2>2, <2>3, <2>6 DEF Response, Body
<1> QED BY <1>1, <1>2, <1>3 DEF InEveryMode

\* A response names items of the listing, and its length; but a record catalog
\* may be called empty.
AboutRequest(r, m) ==
  /\ m.items \subseteq Whole(r)
  /\ m.sum = Len(Listing(r)) \/ (r.kind = "record" /\ m.sum = 0)

\* What the device sends about a request are responses about its items.
LEMMA ResponsesType ==
  ASSUME NEW r \in Request, NEW sent \in Responses(r), NEW i \in DOMAIN sent
  PROVE  i \in Nat /\ sent[i] \in Body /\ AboutRequest(r, sent[i])
<1>1. Listing(r) \in Seq(Whole(r)) /\ Whole(r) \in SUBSET Item
  BY ListingType
<1>2. CASE r.kind = "catalog"
  <2>1. PICK shown \in Shown : sent \in InEveryMode(shown, Len(Catalog))
    BY <1>2 DEF Responses, CatalogResponses
  <2>2. shown \in Seq(Whole(r)) /\ Len(Catalog) \in Nat
    BY <1>2, QueryConstants DEF Whole, Listing
  <2>3. Len(Catalog) = Len(Listing(r))
    BY <1>2 DEF Listing
  <2>4. /\ i \in Nat /\ sent[i] \in Body
        /\ sent[i].items \subseteq Whole(r) /\ sent[i].sum = Len(Catalog)
    BY <1>1, <2>1, <2>2, ModesType
  <2> QED BY <2>3, <2>4 DEF AboutRequest
<1>3. CASE r.kind # "catalog"
  <2> DEFINE all == Recordings(r.window)
  <2>1. all \in Seq(Whole(r)) /\ Len(all) \in Nat /\ all = Listing(r)
    BY <1>1, <1>3 DEF Listing
  <2>2. CASE sent \in InEveryMode(all, Len(all))
    <3>1. /\ i \in Nat /\ sent[i] \in Body
          /\ sent[i].items \subseteq Whole(r) /\ sent[i].sum = Len(all)
      BY <1>1, <2>1, <2>2, ModesType
    <3> QED BY <2>1, <3>1 DEF AboutRequest
  <2>3. ASSUME NEW n \in 0..Len(all), sent = Single(SubSeq(all, 1, n), Len(all))
        PROVE  i \in Nat /\ sent[i] \in Body /\ AboutRequest(r, sent[i])
    <3>1. Range(SubSeq(all, 1, n)) \subseteq Whole(r)
      BY <2>1, PartOfList
    <3> QED BY <1>1, <2>1, <2>3, <3>1 DEF Single, Response, Body, AboutRequest
  <2>4. CASE sent = Single(<<>>, 0)
    <3>1. r.kind = "record"
      BY <1>3 DEF Request
    <3> QED BY <2>4, <3>1 DEF Single, Response, Body, Range, AboutRequest
  <2> QED BY <1>3, <2>2, <2>3, <2>4 DEF Responses, RecordResponses
<1> QED BY <1>2, <1>3

-----------------------------------------------------------------------------
(* Types and life cycles. *)

\* What an operation's status says of its coroutine.  A client sees no operation whose
\* coroutine was never started, and only a reset of the registrar cancels a session.
Lifecycle ==
  \A o \in Op :
    /\ pc[o] = "none" => /\ status[o] = "NONE"
                         /\ o \notin stored
                         /\ session[o].future # "cancelled"
    /\ pc[o] # "none" => status[o] # "NONE" /\ ask[o] # NoRequest
    /\ pc[o] = "created" => status[o] = "ACCEPTED"
    /\ pc[o] = "waiting" => status[o] = "RUNNING"
    /\ pc[o] # "done" => items[o] = {}
    /\ session[o].future = "partial" => session[o].result # {}

\* The device and the registrar only know queries whose coroutine was started.
Outside ==
  /\ \A o \in asked : pc[o] # "none"
  /\ \A m \in answers : pc[m.op] # "none"
  /\ \A kind \in Kind : registered[kind] # NoOp => pc[registered[kind]] # "none"

\* The common invariant: the types need Outside, because Receive looks up the session
\* under the kind of the query that is answered.
BaseInv == TypeOK /\ Lifecycle /\ Outside

\* Aggregation turns a session into a session, whose partial result is not empty.
LEMMA AggregateType ==
  ASSUME NEW s \in Sessions, NEW kind, NEW m, m.items \in SUBSET Item
  PROVE  /\ Aggregate(s, kind, m) \in Sessions
         /\ Aggregate(s, kind, m).future \in {s.future, "complete"}
         /\ s.future # "pending" => /\ Aggregate(s, kind, m).future = s.future
                                    /\ Aggregate(s, kind, m).result = s.result
         /\ Aggregate(s, kind, m).future = "pending" => s.future = "pending"
BY DEF Sessions, Aggregate, Resolve, Collected

\* What the settle window makes of a session.
Settled(s) ==
  IF s.items = {} THEN [s EXCEPT !.timer = FALSE]
  ELSE Resolve([s EXCEPT !.timer = FALSE], "partial", s.items)

\* The settle window turns a session into a session, whose partial result is not empty.
LEMMA SettledType ==
  ASSUME NEW s \in Sessions
  PROVE  /\ Settled(s) \in Sessions
         /\ Settled(s).future \in {s.future, "partial"}
         /\ Settled(s).future = "pending" => s.future = "pending"
         /\ Settled(s).future = "partial" /\ (s.future = "partial" => s.result # {})
              => Settled(s).result # {}
BY DEF Sessions, Settled, Resolve

\* Cancelling turns a session into one that is not pending.
LEMMA CancelledType ==
  ASSUME NEW s \in Sessions
  PROVE  /\ Cancelled(s) \in Sessions
         /\ Cancelled(s).future # "pending"
         /\ Cancelled(s).future \in {s.future, "cancelled"}
         /\ Cancelled(s).future = "partial" => Cancelled(s).result = s.result
BY DEF Sessions, Cancelled, Resolve

\* However a coroutine ends: it leaves, with an outcome, or with none if it was cancelled.
Ends(o) ==
  /\ pc[o] \in {"created", "waiting"}
  /\ pc' = [pc EXCEPT ![o] = "done"]
  /\ status' = [status EXCEPT ![o] = status'[o]]
  /\ items' = [items EXCEPT ![o] = items'[o]]
  /\ session' = [session EXCEPT ![o] = session'[o]]
  /\ session'[o] \in {session[o], Fresh}
  /\ registered' \in {registered, [registered EXCEPT ![ask[o].kind] = NoOp]}
  /\ items'[o] \in SUBSET Item
  /\ \/ status'[o] = "SUCCEEDED"
     \/ status'[o] = "PARTIAL" /\ items'[o] # {}
     \/ status'[o] = "FAILED" /\ items'[o] = items[o]
     \/ status'[o] = status[o] /\ items'[o] = items[o] /\ session[o].future = "cancelled"
  /\ pc[o] = "created" => status'[o] = "FAILED"
  /\ known' \in SUBSET (Seeded \union Item)
  /\ records' \in SUBSET Item
  /\ announced' \in SUBSET Op
  /\ UNCHANGED <<ask, stored, idem, outsideVars, resetPc, history>>

\* Every last step of a coroutine is such an end.
LEMMA CoroutineEnds ==
  ASSUME BaseInv, NEW o \in Op, CannotAsk(o) \/ Returns(o) \/ TimesOut(o) \/ Dies(o)
  PROVE  Ends(o)
<1> USE DEF BaseInv, TypeOK, Lifecycle, Ends
<1>1. CASE CannotAsk(o)
  BY <1>1 DEF CannotAsk, storeVars
<1>2. ASSUME NEW found \in SUBSET Item, NEW outcome, Finish(o, found, outcome), pc[o] = "waiting",
             outcome = "SUCCEEDED" \/ (outcome = "PARTIAL" /\ found # {})
      PROVE  Ends(o)
  <2>1. \A new \in Rewritten(found) : new \in SUBSET Item
    BY DEF Rewritten
  <2>2. /\ known' \in SUBSET (Seeded \union Item)
        /\ records' \in SUBSET Item
        /\ announced' \in SUBSET Op
    BY <1>2, <2>1 DEF Finish
  <2> QED BY <1>2, <2>2 DEF Finish, Leaves, storeVars
<1>3. session[o] \in Sessions /\ session[o].items \in SUBSET Item /\ session[o].result \in SUBSET Item
  BY DEF Sessions
<1>4. CASE Returns(o)
  BY <1>2, <1>3, <1>4 DEF Returns
<1>5. CASE TimesOut(o)
  <2>1. CASE session[o].items # {}
    BY <1>2, <1>3, <1>5, <2>1 DEF TimesOut
  <2>2. CASE session[o].items = {}
    BY <1>5, <2>2 DEF TimesOut, Leaves
  <2> QED BY <2>1, <2>2
<1>6. CASE Dies(o)
  BY <1>6 DEF Dies, Leaves
<1> QED BY <1>1, <1>4, <1>5, <1>6

\* Type correctness, with the invariants it rests on: whatever is submitted, answered,
\* timed out and reset, and in whatever order, every variable keeps its type.
THEOREM BaseInvariant == Spec => []BaseInv
<1>1. Init => BaseInv
  BY QueryConstants DEF Init, BaseInv, TypeOK, Lifecycle, Outside, Sessions, Fresh
<1>2. BaseInv /\ [Next]_vars => BaseInv'
  <2> SUFFICES ASSUME BaseInv, [Next]_vars PROVE BaseInv'
    OBVIOUS
  <2> USE DEF BaseInv, TypeOK, Lifecycle, Outside, objVars, storeVars, outsideVars, history
  <2>1. ASSUME NEW o \in Op, NEW key \in IdemKey, NEW r \in Request, Submit(o, key, r)
        PROVE  BaseInv'
    <3>1. [req |-> r, ref |-> o] \in Entry
      BY DEF Entry
    <3>2. TypeOK'
      BY <2>1, <3>1 DEF Submit
    <3>3. Lifecycle' /\ Outside'
      BY <2>1, QueryConstants DEF Submit, IsNew
    <3> QED BY <3>2, <3>3
  <2>2. ASSUME NEW o \in Op, Asks(o) PROVE BaseInv'
    <3>1. TypeOK'
      BY <2>2 DEF Asks, SameKind
    <3>2. Lifecycle' /\ Outside'
      BY <2>2 DEF Asks
    <3> QED BY <3>1, <3>2
  <2>3. ASSUME NEW o \in Op, CannotAsk(o) \/ Returns(o) \/ TimesOut(o) \/ Dies(o)
        PROVE  BaseInv'
    <3>1. Ends(o)
      BY <2>3, CoroutineEnds
    <3>2. Fresh \in Sessions /\ Fresh.future = "pending"
      BY DEF Fresh, Sessions
    <3>3. TypeOK'
      BY <3>1, <3>2 DEF Ends, Ended
    <3>4. Lifecycle' /\ Outside'
      BY <3>1, <3>2 DEF Ends
    <3> QED BY <3>3, <3>4
  <2>4. ASSUME NEW o \in Op, Settles(o) PROVE BaseInv'
    <3>1. session' = [session EXCEPT ![o] = Settled(session[o])]
      BY <2>4 DEF Settles, Settled
    <3>2. session[o] \in Sessions /\ (session[o].future = "partial" => session[o].result # {})
      OBVIOUS
    <3>3. /\ Settled(session[o]) \in Sessions
          /\ Settled(session[o]).future \in {session[o].future, "partial"}
          /\ Settled(session[o]).future = "partial" => Settled(session[o]).result # {}
      BY <3>2, SettledType
    <3>4. UNCHANGED <<objVars, storeVars, pc, registered, outsideVars, resetPc, history>>
      BY <2>4 DEF Settles
    <3>5. TypeOK'
      BY <3>1, <3>3, <3>4
    <3>6. Lifecycle' /\ Outside'
      BY <3>1, <3>3, <3>4
    <3> QED BY <3>5, <3>6
  <2>5. ASSUME NEW o \in Op, DeviceAnswers(o) PROVE BaseInv'
    <3>1. ask[o] \in Request
      BY <2>5 DEF DeviceAnswers
    <3>2. PICK sent \in Responses(ask[o]) :
            answers' = answers \union
              {[op |-> o, part |-> i, items |-> sent[i].items, sum |-> sent[i].sum] :
                 i \in DOMAIN sent}
      BY <2>5 DEF DeviceAnswers
    <3>3. \A i \in DOMAIN sent : i \in Nat /\ sent[i].items \in SUBSET Item /\ sent[i].sum \in Nat
      BY <3>1, ResponsesType DEF Body
    <3>4. TypeOK'
      BY <2>5, <3>2, <3>3 DEF DeviceAnswers
    <3>5. Lifecycle' /\ Outside'
      BY <2>5, <3>2 DEF DeviceAnswers
    <3> QED BY <3>4, <3>5
  <2>6. ASSUME NEW m \in answers, Receive(m) PROVE BaseInv'
    <3> DEFINE kind == ask[m.op].kind
               o    == registered[kind]
    <3>1. m.op \in Op /\ m.items \in SUBSET Item /\ ask[m.op] \in Request
      OBVIOUS
    <3>2. kind \in Kind
      BY <3>1 DEF Request
    <3>3. CASE o = NoOp
      BY <2>6, <3>3 DEF Receive
    <3>4. CASE o # NoOp
      <4> DEFINE new == Aggregate(session[o], kind, m)
      <4>1. o \in Op /\ session[o] \in Sessions
        BY <3>2, <3>4
      <4>2. session' = [session EXCEPT ![o] = new] /\ foreign' \in SUBSET Op
        BY <2>6, <3>4, <4>1 DEF Receive
      <4>3. /\ UNCHANGED <<objVars, storeVars, pc, registered, asked, listening, resetPc,
                            crossed, inReset, resets>>
            /\ answers' \subseteq answers
        BY <2>6 DEF Receive
      <4>4. /\ new \in Sessions /\ new.future \in {session[o].future, "complete"}
            /\ session[o].future # "pending" => new.result = session[o].result
        BY <3>1, <4>1, AggregateType
      <4> HIDE DEF new, o, kind
      <4>5. TypeOK'
        BY <4>1, <4>2, <4>3, <4>4
      <4>6. Lifecycle' /\ Outside'
        BY <4>1, <4>2, <4>3, <4>4
      <4> QED BY <4>5, <4>6
    <3> QED BY <3>3, <3>4
  <2>7. CASE ServiceReset
    <3>1. resets' \in 0..MaxResets
      BY <2>7, QueryConstants DEF ServiceReset
    <3>2. TypeOK'
      BY <2>7, <3>1 DEF ServiceReset
    <3>3. Lifecycle' /\ Outside'
      BY <2>7 DEF ServiceReset
    <3> QED BY <3>2, <3>3
  <2>8. CASE ListenerReturns
    BY <2>8 DEF ListenerReturns
  <2>9. CASE RegistrarReset
    <3>1. \A o \in Op : session'[o] \in {session[o], Cancelled(session[o])}
      BY <2>9 DEF RegistrarReset
    <3>2. \A o \in Op : session'[o] = session[o] \/ pc[o] # "none"
      BY <2>9, QueryConstants DEF RegistrarReset
    <3>3. \A o \in Op : /\ Cancelled(session[o]) \in Sessions
                        /\ Cancelled(session[o]).future = "partial"
                             => session[o].future = "partial"
                                /\ Cancelled(session[o]).result = session[o].result
      BY CancelledType
    <3>4. session' \in [Op -> Sessions]
      BY <2>9, <3>1, <3>3 DEF RegistrarReset
    <3>5. TypeOK'
      BY <2>9, <3>4 DEF RegistrarReset
    <3>6. Lifecycle' /\ Outside'
      BY <2>9, <3>1, <3>2, <3>3 DEF RegistrarReset
    <3> QED BY <3>5, <3>6
  <2>10. CASE UNCHANGED vars
    BY <2>10 DEF vars
  <2> QED
    BY <2>1, <2>2, <2>3, <2>4, <2>5, <2>6, <2>7, <2>8, <2>9, <2>10
    DEF Next, Coroutine, Reset
<1> QED BY <1>1, <1>2, PTL DEF Spec

\* Type correctness on its own.
THEOREM TypeCorrect == Spec => []TypeOK
<1>1. BaseInv => TypeOK
  BY DEF BaseInv
<1> QED BY <1>1, BaseInvariant, PTL

-----------------------------------------------------------------------------
(* Overlapping queries. *)

\* LoneQueryIsRegistered is not inductive: a finally clause removes whatever session is
\* registered.  It is safe because queries that wait together have all crossed, so that
\* what a query removes cannot be the session of a lone one.
LoneInv ==
  /\ \A o \in Op : \A p \in Op \ {o} :
       pc[o] = "waiting" /\ pc[p] = "waiting" /\ ask[o].kind = ask[p].kind => o \in crossed
  /\ LoneQueryIsRegistered

\* A query that no other one overlaps stays registered while it waits for its answers,
\* across late answers, timeouts, settle windows and resets of the Provider.
THEOREM LoneQueriesAreRegistered == Spec => []LoneQueryIsRegistered
<1>1. Init => LoneInv
  BY DEF Init, LoneInv, LoneQueryIsRegistered
<1>2. BaseInv /\ LoneInv /\ [Next]_vars => LoneInv'
  <2> SUFFICES ASSUME BaseInv, LoneInv, [Next]_vars PROVE LoneInv'
    OBVIOUS
  <2> USE DEF BaseInv, TypeOK, LoneInv, LoneQueryIsRegistered, objVars, outsideVars, history
  <2>1. ASSUME NEW o \in Op, NEW key \in IdemKey, NEW r \in Request, Submit(o, key, r)
        PROVE  LoneInv'
    BY <2>1 DEF Submit, IsNew
  <2>2. ASSUME NEW o \in Op, Asks(o) PROVE LoneInv'
    <3>1. ask[o] \in Request /\ ask[o].kind \in Kind
      BY <2>2 DEF Asks, Lifecycle, Request
    <3>2. \A p \in Op \ {o} : pc[p] = "waiting" /\ ask[p].kind = ask[o].kind
                              => p \in crossed' /\ o \in crossed'
      BY <2>2 DEF Asks, SameKind, Lifecycle
    <3>3. crossed \subseteq crossed'
      BY <2>2 DEF Asks
    <3>4. /\ registered' = [registered EXCEPT ![ask[o].kind] = o]
          /\ pc' = [pc EXCEPT ![o] = "waiting"]
          /\ UNCHANGED <<ask, session>>
      BY <2>2 DEF Asks
    <3> QED BY <3>1, <3>2, <3>3, <3>4
  <2>3. ASSUME NEW o \in Op, CannotAsk(o) \/ Returns(o) \/ TimesOut(o) \/ Dies(o)
        PROVE  LoneInv'
    <3>1. Ends(o)
      BY <2>3, CoroutineEnds
    <3>2. CASE registered' = registered
      BY <3>1, <3>2 DEF Ends
    <3>3. CASE registered' # registered
      <4>1. pc[o] = "waiting"
        BY <2>3, <3>3 DEF CannotAsk, Returns, TimesOut, Dies
      <4>2. /\ registered' = [registered EXCEPT ![ask[o].kind] = NoOp]
            /\ pc' = [pc EXCEPT ![o] = "done"]
            /\ \A p \in Op \ {o} : session'[p] = session[p]
            /\ UNCHANGED <<ask, crossed>>
        BY <3>1, <3>3 DEF Ends
      <4>3. \A p \in Op \ {o} : pc'[p] = pc[p]
        BY <4>2
      <4>4. ASSUME NEW p \in Op, pc'[p] = "waiting", session'[p].future = "pending",
                   p \notin crossed
            PROVE  registered'[ask[p].kind] = p
        <5>1. p # o /\ pc[p] = "waiting" /\ session[p].future = "pending"
          BY <4>2, <4>3, <4>4
        <5>2. ask[p].kind # ask[o].kind
          BY <4>1, <4>4, <5>1
        <5>3. registered[ask[p].kind] = p /\ ask[p].kind \in Kind
          BY <4>4, <5>1 DEF Lifecycle, Request
        <5> QED BY <4>2, <5>2, <5>3
      <4>5. \A p \in Op : pc'[p] = "waiting" => pc[p] = "waiting"
        BY <4>2
      <4> QED BY <4>2, <4>4, <4>5
    <3> QED BY <3>2, <3>3
  <2>4. ASSUME NEW o \in Op, Settles(o) PROVE LoneInv'
    <3>1. session' = [session EXCEPT ![o] = Settled(session[o])]
      BY <2>4 DEF Settles, Settled
    <3>2. Settled(session[o]).future = "pending" => session[o].future = "pending"
      BY SettledType
    <3> QED BY <2>4, <3>1, <3>2 DEF Settles
  <2>5. ASSUME NEW o \in Op, DeviceAnswers(o) PROVE LoneInv'
    BY <2>5 DEF DeviceAnswers
  <2>6. ASSUME NEW m \in answers, Receive(m) PROVE LoneInv'
    <3> DEFINE kind == ask[m.op].kind
               o    == registered[kind]
    <3>1. m.items \in SUBSET Item /\ UNCHANGED <<ask, pc, registered, crossed>>
      BY <2>6 DEF Receive
    <3>2. \A p \in Op : session'[p].future = "pending" => session[p].future = "pending"
      <4> SUFFICES ASSUME NEW p \in Op, session'[p] # session[p]
                   PROVE  session'[p].future = "pending" => session[p].future = "pending"
        OBVIOUS
      <4>1. session'[p] = Aggregate(session[p], kind, m)
        BY <2>6 DEF Receive
      <4>2. session[p] \in Sessions
        OBVIOUS
      <4> QED BY <3>1, <4>1, <4>2, AggregateType
    <3> QED BY <3>1, <3>2
  <2>7. CASE ServiceReset
    BY <2>7 DEF ServiceReset
  <2>8. CASE ListenerReturns
    BY <2>8 DEF ListenerReturns
  <2>9. CASE RegistrarReset
    <3>1. \A o \in Op : pc[o] = "waiting" => ask[o].kind \in Kind
      BY DEF Lifecycle, Request
    <3>2. \A o \in Op : Cancelled(session[o]).future # "pending"
      BY CancelledType
    <3>3. \A o \in Op, kind \in Kind : registered[kind] = o => session'[o].future # "pending"
      BY <2>9, <3>2 DEF RegistrarReset
    <3>4. \A o \in Op : (\E kind \in Kind : registered[kind] = o) \/ session'[o] = session[o]
      BY <2>9 DEF RegistrarReset
    <3>5. UNCHANGED <<ask, pc, crossed>>
      BY <2>9 DEF RegistrarReset
    <3> QED BY <3>1, <3>3, <3>4, <3>5
  <2>10. CASE UNCHANGED vars
    BY <2>10 DEF vars
  <2> QED
    BY <2>1, <2>2, <2>3, <2>4, <2>5, <2>6, <2>7, <2>8, <2>9, <2>10
    DEF Next, Coroutine, Reset
<1>3. LoneInv => LoneQueryIsRegistered
  BY DEF LoneInv
<1> QED BY <1>1, <1>2, <1>3, BaseInvariant, PTL DEF Spec

-----------------------------------------------------------------------------
(* Retries and resets. *)

\* A key is only ever taken by an operation that is in the store.
KeyInv ==
  /\ \A key \in IdemKey : idem[key] # NoEntry => idem[key].ref \in stored
  /\ RetriesFindOperations

\* What was submitted during a reset, and can still be cancelled by it.
ResetInv ==
  /\ resetPc # "idle" => stored \subseteq inReset
  /\ \A o \in stored : session[o].future = "cancelled" => o \in inReset
  /\ StuckOnlyByReset

\* A repeated request finds its operation for as long as the operation is in the store,
\* across the ends of other operations, late answers and resets.
THEOREM RetriesFindTheirOperation == Spec => []RetriesFindOperations
<1>1. Init => KeyInv
  BY DEF Init, KeyInv, RetriesFindOperations
<1>2. BaseInv /\ KeyInv /\ [Next]_vars => KeyInv'
  <2> SUFFICES ASSUME BaseInv, KeyInv, [Next]_vars PROVE KeyInv'
    OBVIOUS
  <2> USE DEF KeyInv, RetriesFindOperations, objVars, storeVars
  <2>1. ASSUME NEW o \in Op, NEW key \in IdemKey, NEW r \in Request, Submit(o, key, r)
        PROVE  KeyInv'
    <3>1. idem[key] = NoEntry /\ o \notin stored
      BY <2>1 DEF Submit, IsNew, IsNewKey, Replays, BaseInv, Lifecycle
    <3>2. [req |-> r, ref |-> o] # NoEntry
      BY QueryConstants DEF Entry
    <3>3. /\ stored' = stored \union {o}
          /\ idem' = [idem EXCEPT ![key] = [req |-> r, ref |-> o]]
          /\ ask' = [ask EXCEPT ![o] = r]
          /\ ask \in [Op -> Request \union {NoRequest}] /\ stored \subseteq Op
          /\ idem \in [IdemKey -> Entry \union {NoEntry}]
      BY <2>1 DEF Submit, BaseInv, TypeOK
    <3>4. ASSUME NEW p \in stored
          PROVE  \E k \in IdemKey : idem'[k] = [req |-> ask'[p], ref |-> p]
      <4>1. PICK k \in IdemKey : idem[k] = [req |-> ask[p], ref |-> p]
        OBVIOUS
      <4>2. p \in Op /\ ask[p] \in Request
        BY <3>3 DEF BaseInv, Lifecycle
      <4>3. k # key
        BY <3>1, <4>1, <4>2, QueryConstants DEF Entry
      <4> QED BY <3>1, <3>3, <4>1, <4>2, <4>3
    <3>5. \E k \in IdemKey : idem'[k] = [req |-> ask'[o], ref |-> o]
      BY <3>3
    <3>6. \A k \in IdemKey : idem'[k] # NoEntry => idem'[k].ref \in stored'
      BY <3>3
    <3> QED BY <3>3, <3>4, <3>5, <3>6
  <2>2. ASSUME NEW o \in Op, Asks(o) \/ Settles(o) \/ DeviceAnswers(o) PROVE KeyInv'
    BY <2>2 DEF Asks, Settles, DeviceAnswers
  <2>3. ASSUME NEW o \in Op, CannotAsk(o) \/ Returns(o) \/ TimesOut(o) \/ Dies(o)
        PROVE  KeyInv'
    BY <2>3, CoroutineEnds DEF Ends
  <2>4. ASSUME NEW m \in answers, Receive(m) PROVE KeyInv'
    BY <2>4 DEF Receive
  <2>5. CASE ServiceReset
    BY <2>5 DEF ServiceReset
  <2>6. CASE ListenerReturns \/ RegistrarReset
    BY <2>6 DEF ListenerReturns, RegistrarReset
  <2>7. CASE UNCHANGED vars
    BY <2>7 DEF vars
  <2> QED BY <2>1, <2>2, <2>3, <2>4, <2>5, <2>6, <2>7 DEF Next, Coroutine, Reset
<1>3. KeyInv => RetriesFindOperations
  BY DEF KeyInv
<1> QED BY <1>1, <1>2, <1>3, BaseInvariant, PTL DEF Spec

\* An operation that stays without an outcome was submitted while a reset was under way:
\* between the two halves of a reset the store only holds such operations, and nothing
\* but the second half cancels a query.
THEOREM OnlyResetsStrandOperations == Spec => []StuckOnlyByReset
<1>1. Init => ResetInv
  BY DEF Init, ResetInv, StuckOnlyByReset
<1>2. BaseInv /\ ResetInv /\ [Next]_vars => ResetInv'
  <2> SUFFICES ASSUME BaseInv, ResetInv, [Next]_vars PROVE ResetInv'
    OBVIOUS
  <2> USE DEF BaseInv, TypeOK, ResetInv, StuckOnlyByReset, objVars, storeVars, outsideVars, history
  <2>1. ASSUME NEW o \in Op, NEW key \in IdemKey, NEW r \in Request, Submit(o, key, r)
        PROVE  ResetInv'
    <3>1. pc[o] = "none" /\ session[o].future # "cancelled"
      BY <2>1 DEF Submit, IsNew, Lifecycle
    <3>2. /\ stored' = stored \union {o}
          /\ pc' = [pc EXCEPT ![o] = "created"]
          /\ status' = [status EXCEPT ![o] = "ACCEPTED"]
          /\ inReset' = IF resetPc = "idle" THEN inReset ELSE inReset \union {o}
          /\ UNCHANGED <<session, resetPc>>
      BY <2>1 DEF Submit
    <3> QED BY <3>1, <3>2
  <2>2. ASSUME NEW o \in Op, Asks(o) \/ DeviceAnswers(o) PROVE ResetInv'
    BY <2>2 DEF Asks, DeviceAnswers
  <2>3. ASSUME NEW o \in Op, CannotAsk(o) \/ Returns(o) \/ TimesOut(o) \/ Dies(o)
        PROVE  ResetInv'
    <3>1. Ends(o)
      BY <2>3, CoroutineEnds
    <3>2. /\ UNCHANGED <<stored, resetPc, inReset>>
          /\ \A p \in Op \ {o} : /\ pc'[p] = pc[p] /\ status'[p] = status[p]
                                 /\ session'[p] = session[p]
      BY <3>1 DEF Ends
    <3>3. session'[o].future = "cancelled" => session[o].future = "cancelled"
      BY <3>1 DEF Ends, Fresh
    <3>4. status'[o] \notin Ended => session[o].future = "cancelled"
      BY <3>1 DEF Ends, Ended
    <3> QED BY <3>2, <3>3, <3>4
  <2>4. ASSUME NEW o \in Op, Settles(o) PROVE ResetInv'
    <3>1. session' = [session EXCEPT ![o] = Settled(session[o])]
      BY <2>4 DEF Settles, Settled
    <3>2. Settled(session[o]).future \in {session[o].future, "partial"}
      BY SettledType
    <3> QED BY <2>4, <3>1, <3>2 DEF Settles
  <2>5. ASSUME NEW m \in answers, Receive(m) PROVE ResetInv'
    <3> DEFINE kind == ask[m.op].kind
    <3>1. /\ m.items \in SUBSET Item
          /\ UNCHANGED <<pc, status, stored, resetPc, inReset>>
      BY <2>5 DEF Receive
    <3>2. ASSUME NEW p \in Op, session'[p].future = "cancelled"
          PROVE  session[p].future = "cancelled"
      <4>1. CASE session'[p] = session[p]
        BY <3>2, <4>1
      <4>2. CASE session'[p] # session[p]
        <5>1. session'[p] = Aggregate(session[p], kind, m)
          BY <2>5, <4>2 DEF Receive
        <5>2. session[p] \in Sessions
          OBVIOUS
        <5>3. Aggregate(session[p], kind, m).future \in {session[p].future, "complete"}
          BY <3>1, <5>2, AggregateType
        <5> QED BY <3>2, <5>1, <5>3
      <4> QED BY <4>1, <4>2
    <3> QED BY <3>1, <3>2
  <2>6. CASE ServiceReset
    BY <2>6 DEF ServiceReset
  <2>7. CASE ListenerReturns
    BY <2>7 DEF ListenerReturns
  <2>8. CASE RegistrarReset
    BY <2>8 DEF RegistrarReset
  <2>9. CASE UNCHANGED vars
    BY <2>9 DEF vars
  <2> QED BY <2>1, <2>2, <2>3, <2>4, <2>5, <2>6, <2>7, <2>8, <2>9 DEF Next, Coroutine, Reset
<1>3. ResetInv => StuckOnlyByReset
  BY DEF ResetInv
<1> QED BY <1>1, <1>2, <1>3, BaseInvariant, PTL DEF Spec

-----------------------------------------------------------------------------
(* Aggregation. *)

\* What a query may report: all of a listing, an empty record catalog, or a part.
MayReport(r, how, found) ==
  /\ how = "complete" => found = Whole(r) \/ (r.kind = "record" /\ found = {})
  /\ how = "partial" => found # {} /\ found \subseteq Whole(r)

HonestSession(s, r) == s.items \subseteq Whole(r) /\ MayReport(r, s.future, s.result)

\* ResultIsHonest is not inductive: a result is first one of the session, whose
\* items come from the answers.  They are honest unless the session is foreign.
HonestInv ==
  /\ \A o \in Op : pc[o] = "none" => session[o] = Fresh
  /\ \A m \in answers : AboutRequest(ask[m.op], m)
  /\ \A o \in Op \ foreign : pc[o] # "none" => HonestSession(session[o], ask[o])
  /\ ResultIsHonest

\* As many different items of a list as the list is long are all of its items.
LEMMA CountedIsWhole ==
  ASSUME NEW S, NEW list \in Seq(S), NEW got \in SUBSET Range(list),
         Cardinality(got) >= Len(list)
  PROVE  got = Range(list)
<1>1. Len(list) \in Nat /\ DOMAIN list = 1..Len(list)
  OBVIOUS
<1>2. list \in Surjection(1..Len(list), Range(list))
  BY <1>1 DEF Surjection, Range
<1>3. IsFiniteSet(1..Len(list)) /\ Cardinality(1..Len(list)) = Len(list)
  BY <1>1, FS_Interval
<1>4. IsFiniteSet(Range(list)) /\ Cardinality(Range(list)) <= Len(list)
  BY <1>2, <1>3, FS_Surjection
<1>5. /\ Cardinality(got) <= Cardinality(Range(list))
      /\ Cardinality(got) \in Nat /\ Cardinality(Range(list)) \in Nat
      /\ Cardinality(Range(list)) = Cardinality(got) => Range(list) = got
  BY <1>4, FS_Subset, FS_CardinalityType
<1> QED BY <1>1, <1>4, <1>5

\* A response to the session's own request keeps it honest: it is complete only
\* when everything is there, however it came.
LEMMA AggregateIsHonest ==
  ASSUME NEW r \in Request, NEW s \in Sessions, HonestSession(s, r),
         NEW m, AboutRequest(r, m)
  PROVE  HonestSession(Aggregate(s, r.kind, m), r)
<1> DEFINE got == s.items \union m.items
<1>1. got \subseteq Whole(r)
  BY DEF HonestSession, AboutRequest
<1>2. ASSUME IsComplete(r.kind, got, m.sum)
      PROVE  MayReport(r, "complete", Collected(r.kind, got, m.sum))
  <2>1. CASE r.kind = "record" /\ m.sum = 0
    BY <2>1 DEF Collected, MayReport
  <2>2. CASE ~(r.kind = "record" /\ m.sum = 0)
    <3>1. m.sum = Len(Listing(r)) /\ Cardinality(got) >= m.sum
      BY <1>2, <2>2 DEF AboutRequest, IsComplete
    <3>2. Listing(r) \in Seq(Whole(r)) /\ Whole(r) = Range(Listing(r))
      BY ListingType DEF Whole
    <3>3. got = Whole(r)
      BY <1>1, <3>1, <3>2, CountedIsWhole
    <3> QED BY <2>2, <3>3 DEF Collected, MayReport
  <2> QED BY <2>1, <2>2
<1>3. /\ Aggregate(s, r.kind, m).items = got
      /\ \/ /\ Aggregate(s, r.kind, m).future = s.future
            /\ Aggregate(s, r.kind, m).result = s.result
         \/ /\ IsComplete(r.kind, got, m.sum)
            /\ Aggregate(s, r.kind, m).future = "complete"
            /\ Aggregate(s, r.kind, m).result = Collected(r.kind, got, m.sum)
  BY DEF Aggregate, Resolve, Sessions
<1> QED BY <1>1, <1>2, <1>3 DEF HonestSession

\* The settle window reports what there is, and cancelling nothing.
LEMMA SettledIsHonest ==
  ASSUME NEW r, NEW s \in Sessions, HonestSession(s, r)
  PROVE  HonestSession(Settled(s), r) /\ HonestSession(Cancelled(s), r)
BY DEF HonestSession, MayReport, Settled, Cancelled, Resolve, Sessions

\* A coroutine that ends reports what its session allows.
LEMMA EndsHonestly ==
  ASSUME BaseInv, HonestInv, NEW o \in Op \ foreign,
         CannotAsk(o) \/ Returns(o) \/ TimesOut(o) \/ Dies(o)
  PROVE  /\ status'[o] = "SUCCEEDED" => MayReport(ask[o], "complete", items'[o])
         /\ status'[o] = "PARTIAL" => MayReport(ask[o], "partial", items'[o])
<1> USE DEF BaseInv, TypeOK
<1>1. CASE CannotAsk(o)
  BY <1>1 DEF CannotAsk
<1>2. ASSUME NEW found, NEW outcome, Finish(o, found, outcome)
      PROVE  status'[o] = outcome /\ items'[o] = found
  BY <1>2 DEF Finish
<1>3. pc[o] # "none" => HonestSession(session[o], ask[o])
  BY DEF HonestInv
<1>4. CASE Returns(o)
  <2>1. pc[o] = "waiting" /\ MayReport(ask[o], session[o].future, session[o].result)
    BY <1>3, <1>4 DEF Returns, HonestSession
  <2>2. CASE session[o].future = "complete" /\ Finish(o, session[o].result, "SUCCEEDED")
    BY <1>2, <2>1, <2>2
  <2>3. CASE session[o].future = "partial" /\ Finish(o, session[o].result, "PARTIAL")
    BY <1>2, <2>1, <2>3
  <2> QED BY <1>4, <2>2, <2>3 DEF Returns
<1>5. CASE TimesOut(o)
  <2>1. session[o].items \subseteq Whole(ask[o])
    BY <1>3, <1>5 DEF TimesOut, HonestSession
  <2>2. CASE session[o].items # {}
    <3>1. status'[o] = "PARTIAL" /\ items'[o] = session[o].items
      BY <1>2, <1>5, <2>2 DEF TimesOut
    <3> QED BY <2>1, <2>2, <3>1 DEF MayReport
  <2>3. CASE session[o].items = {}
    BY <1>5, <2>3 DEF TimesOut
  <2> QED BY <2>2, <2>3
<1>6. CASE Dies(o)
  BY <1>6 DEF Dies, Lifecycle
<1> QED BY <1>1, <1>4, <1>5, <1>6

\* Steps that leave requests and outcomes alone.
LEMMA OutcomesStay ==
  ASSUME HonestInv, UNCHANGED <<ask, status, items>>, foreign \subseteq foreign'
  PROVE  ResultIsHonest'
BY DEF HonestInv, ResultIsHonest

\* SUCCEEDED means everything and PARTIAL a real part, for every catalog, every
\* window, and every way the device pages, repeats, omits and delays its answers.
THEOREM ResultsAreHonest == Spec => []ResultIsHonest
<1>1. Init => HonestInv
  BY DEF Init, HonestInv, ResultIsHonest
<1>2. BaseInv /\ HonestInv /\ [Next]_vars => HonestInv'
  <2> SUFFICES ASSUME BaseInv, HonestInv, [Next]_vars PROVE HonestInv'
    OBVIOUS
  <2> USE DEF objVars, storeVars, outsideVars, history
  <2>0. /\ \A o \in Op : pc[o] # "none" => ask[o] \in Request
        /\ \A o \in Op : session[o] \in Sessions
        /\ \A m \in answers : m.op \in Op /\ pc[m.op] # "none" /\ m.items \in SUBSET Item
    BY DEF BaseInv, TypeOK, Lifecycle, Outside
  <2>1. ASSUME NEW o \in Op, NEW key \in IdemKey, NEW r \in Request, Submit(o, key, r)
        PROVE  HonestInv'
    <3>1. /\ pc[o] = "none" /\ status'[o] = "ACCEPTED" /\ pc'[o] = "created"
          /\ \A p \in Op \ {o} : ask'[p] = ask[p] /\ status'[p] = status[p] /\ pc'[p] = pc[p]
          /\ UNCHANGED <<items, session, answers, foreign>>
      BY <2>1 DEF Submit, IsNew, BaseInv, TypeOK
    <3>2. HonestSession(session[o], ask'[o])
      BY <3>1 DEF HonestInv, HonestSession, MayReport, Fresh
    <3>3. \A m \in answers : m.op # o
      BY <2>0, <3>1
    <3>4. \A m \in answers' : AboutRequest(ask'[m.op], m)
      BY <2>0, <3>1, <3>3 DEF HonestInv
    <3>5. ResultIsHonest'
      BY <3>1 DEF HonestInv, ResultIsHonest
    <3> QED BY <3>1, <3>2, <3>4, <3>5 DEF HonestInv
  <2>2. ASSUME NEW o \in Op, Asks(o) PROVE HonestInv'
    <3>1. /\ pc[o] = "created" /\ pc'[o] = "waiting" /\ status'[o] = "RUNNING"
          /\ \A p \in Op \ {o} : status'[p] = status[p] /\ pc'[p] = pc[p]
          /\ UNCHANGED <<ask, items, session, answers, foreign>>
      BY <2>2 DEF Asks, BaseInv, TypeOK
    <3>2. ResultIsHonest'
      BY <3>1 DEF HonestInv, ResultIsHonest
    <3> QED BY <3>1, <3>2 DEF HonestInv
  <2>3. ASSUME NEW o \in Op, CannotAsk(o) \/ Returns(o) \/ TimesOut(o) \/ Dies(o)
        PROVE  HonestInv'
    <3>1. /\ pc[o] # "none" /\ pc'[o] = "done"
          /\ \A p \in Op \ {o} : /\ status'[p] = status[p] /\ items'[p] = items[p]
                                 /\ pc'[p] = pc[p] /\ session'[p] = session[p]
          /\ session'[o] \in {session[o], Fresh}
          /\ UNCHANGED <<ask, answers, foreign>>
      BY <2>3, CoroutineEnds DEF Ends, BaseInv, TypeOK
    <3>2. ResultIsHonest'
      <4> SUFFICES ASSUME NEW p \in Op \ foreign
                   PROVE  /\ status'[p] = "SUCCEEDED" => MayReport(ask[p], "complete", items'[p])
                          /\ status'[p] = "PARTIAL" => MayReport(ask[p], "partial", items'[p])
        BY <3>1 DEF ResultIsHonest, MayReport
      <4>1. CASE p = o
        BY <2>3, <4>1, EndsHonestly
      <4>2. CASE p # o
        BY <3>1, <4>2 DEF HonestInv, ResultIsHonest, MayReport
      <4> QED BY <4>1, <4>2
    <3>3. \A r : HonestSession(Fresh, r)
      BY DEF HonestSession, MayReport, Fresh
    <3>4. \A p \in Op \ foreign : pc'[p] # "none" => HonestSession(session'[p], ask[p])
      BY <3>1, <3>3 DEF HonestInv
    <3> QED BY <3>1, <3>2, <3>4 DEF HonestInv
  <2>4. ASSUME NEW o \in Op, Settles(o) PROVE HonestInv'
    <3>1. /\ session[o].timer /\ session'[o] = Settled(session[o])
          /\ \A p \in Op \ {o} : session'[p] = session[p]
          /\ UNCHANGED <<ask, status, items, pc, answers, foreign>>
      BY <2>4 DEF Settles, Settled, BaseInv, TypeOK
    <3>2. pc[o] # "none"
      BY <3>1 DEF HonestInv, Fresh
    <3>3. o \notin foreign => HonestSession(session'[o], ask[o])
      BY <2>0, <3>1, <3>2, SettledIsHonest DEF HonestInv
    <3> QED BY <3>1, <3>2, <3>3, OutcomesStay DEF HonestInv
  <2>5. ASSUME NEW o \in Op, DeviceAnswers(o) PROVE HonestInv'
    <3>1. ask[o] \in Request /\ UNCHANGED <<ask, status, items, pc, session, foreign>>
      BY <2>0, <2>5 DEF DeviceAnswers, BaseInv, Outside
    <3>2. PICK sent \in Responses(ask[o]) :
            answers' = answers \union
              {[op |-> o, part |-> i, items |-> sent[i].items, sum |-> sent[i].sum] :
                 i \in DOMAIN sent}
      BY <2>5 DEF DeviceAnswers
    <3>3. \A i \in DOMAIN sent : AboutRequest(ask[o], sent[i])
      BY <3>1, ResponsesType
    <3>4. \A m \in answers' : AboutRequest(ask[m.op], m)
      BY <3>2, <3>3 DEF HonestInv, AboutRequest
    <3> QED BY <3>1, <3>4, OutcomesStay DEF HonestInv
  <2>6. ASSUME NEW m \in answers, Receive(m) PROVE HonestInv'
    <3>1. /\ UNCHANGED <<ask, status, items, pc>>
          /\ answers' \subseteq answers /\ foreign \subseteq foreign'
      BY <2>6 DEF Receive
    <3>2. ASSUME NEW p \in Op, session'[p] # session[p]
          PROVE  /\ pc[p] # "none" /\ session'[p] = Aggregate(session[p], ask[m.op].kind, m)
                 /\ p \notin foreign' => p = m.op
      <4>1. registered[ask[m.op].kind] = p /\ p # NoOp
        <5>1. CASE registered[ask[m.op].kind] = NoOp
          BY <2>6, <3>2, <5>1 DEF Receive
        <5>2. CASE registered[ask[m.op].kind] # NoOp
          BY <2>6, <3>2, <5>2 DEF Receive, BaseInv, TypeOK
        <5> QED BY <5>1, <5>2
      <4>2. ask[m.op].kind \in Kind
        BY <2>0 DEF Request
      <4> QED BY <2>6, <3>2, <4>1, <4>2 DEF Receive, BaseInv, TypeOK, Outside
    <3>3. ASSUME NEW p \in Op \ foreign', pc[p] # "none" PROVE HonestSession(session'[p], ask[p])
      <4>1. HonestSession(session[p], ask[p])
        BY <3>1, <3>3 DEF HonestInv
      <4>2. CASE session'[p] = session[p]
        BY <4>1, <4>2
      <4>3. CASE session'[p] # session[p]
        <5>1. p = m.op /\ session'[p] = Aggregate(session[p], ask[p].kind, m)
          BY <3>2, <3>3, <4>3
        <5>2. ask[p] \in Request /\ session[p] \in Sessions /\ AboutRequest(ask[p], m)
          BY <2>0, <3>3, <5>1 DEF HonestInv
        <5> QED BY <4>1, <5>1, <5>2, AggregateIsHonest
      <4> QED BY <4>2, <4>3
    <3>4. \A p \in Op : pc[p] = "none" => session'[p] = Fresh
      BY <3>2 DEF HonestInv
    <3> QED BY <3>1, <3>3, <3>4, OutcomesStay DEF HonestInv
  <2>7. CASE ServiceReset \/ ListenerReturns
    <3>1. UNCHANGED <<ask, status, items, pc, session, answers, foreign>>
      BY <2>7 DEF ServiceReset, ListenerReturns
    <3> QED BY <3>1, OutcomesStay DEF HonestInv
  <2>8. CASE RegistrarReset
    <3>1. UNCHANGED <<ask, status, items, pc, answers, foreign>>
      BY <2>8 DEF RegistrarReset
    <3>2. \A o \in Op : \/ session'[o] = session[o]
                        \/ session'[o] = Cancelled(session[o]) /\ pc[o] # "none"
      BY <2>8, QueryConstants DEF RegistrarReset, BaseInv, Outside
    <3>3. \A o \in Op \ foreign : pc[o] # "none" => HonestSession(session'[o], ask[o])
      BY <2>0, <3>2, SettledIsHonest DEF HonestInv
    <3> QED BY <3>1, <3>2, <3>3, OutcomesStay DEF HonestInv
  <2>9. CASE UNCHANGED vars
    <3>1. UNCHANGED <<ask, status, items, pc, session, answers, foreign>>
      BY <2>9 DEF vars
    <3> QED BY <3>1, OutcomesStay DEF HonestInv
  <2> QED
    BY <2>1, <2>2, <2>3, <2>4, <2>5, <2>6, <2>7, <2>8, <2>9 DEF Next, Coroutine, Reset
<1>3. HonestInv => ResultIsHonest
  BY DEF HonestInv
<1> QED BY <1>1, <1>2, <1>3, BaseInvariant, PTL DEF Spec

-----------------------------------------------------------------------------
(* The contract of an asynchronous operation. *)

\* What a client sees of the operations.
View  == [o \in Op |-> Seen(o)]
Shows == [o \in Op |-> IF o \in stored THEN items[o] ELSE {}]

\* Steps that touch neither an operation nor the store are not seen.
LEMMA Unseen ==
  ASSUME UNCHANGED <<status, items, stored>>
  PROVE  UNCHANGED <<View, Shows>>
BY DEF View, Shows, Seen

\* The end of a coroutine is the outcome of its operation, or is not seen.
LEMMA EndIsOutcome ==
  ASSUME BaseInv, NEW o \in Op, Ends(o)
  PROVE  Contract!ONext \/ UNCHANGED <<View, Shows>>
<1> USE DEF BaseInv, TypeOK
<1>1. /\ stored' = stored
      /\ \A p \in Op \ {o} : status'[p] = status[p] /\ items'[p] = items[p]
  BY DEF Ends
<1>2. status[o] # "NONE" /\ status'[o] # "NONE" /\ items[o] = {}
  BY DEF Ends, Lifecycle
<1>3. CASE o \notin stored \/ status'[o] = status[o]
  <2>1. o \in stored => items'[o] = items[o]
    BY <1>3, <1>2 DEF Ends, Lifecycle
  <2> QED BY <1>1, <1>2, <1>3, <2>1 DEF View, Shows, Seen
<1>4. CASE o \in stored /\ status'[o] # status[o]
  <2>1. PICK outcome \in Contract!Outcome : outcome = status'[o]
    BY <1>4 DEF Ends, Contract!Outcome
  <2>2. View[o] = "RUNNING" \/ (View[o] = "ACCEPTED" /\ outcome = "FAILED")
    BY <1>4, <2>1 DEF Ends, Lifecycle, View, Seen
  <2>3. View' = [View EXCEPT ![o] = outcome]
    BY <1>1, <1>4, <2>1 DEF View, Seen
  <2>4. Shows' = [Shows EXCEPT ![o] = Shows'[o]] /\ Shows'[o] = items'[o]
    BY <1>1, <1>4 DEF Shows
  <2>5. /\ items'[o] \subseteq Item
        /\ outcome = "PARTIAL" => items'[o] # {}
        /\ outcome = "FAILED" => items'[o] = {}
    BY <1>2, <1>4, <2>1 DEF Ends
  <2>6. Contract!OEnd(o, outcome)
    BY <2>2, <2>3, <2>4, <2>5 DEF Contract!OEnd, View, Shows
  <2> QED BY <2>6 DEF Contract!ONext
<1> QED BY <1>3, <1>4

\* The operations behave like the contract: each gets its outcome once, with items if it
\* is partial and without if it failed, and what a reset removed does not come back,
\* however its coroutine goes on.
THEOREM OperationsImplementContract == Spec => ImplementsOperations
<1>1. Init => Contract!OInit
  BY DEF Init, Contract!OInit, Seen
<1>2. BaseInv /\ [Next]_vars => [Contract!ONext]_(Contract!ovars)
  <2> SUFFICES ASSUME BaseInv, [Next]_vars
               PROVE  Contract!ONext \/ UNCHANGED <<View, Shows>>
    BY DEF Contract!ovars, View, Shows
  <2> USE DEF objVars, storeVars
  <2>1. ASSUME NEW o \in Op, NEW key \in IdemKey, NEW r \in Request, Submit(o, key, r)
        PROVE  Contract!ONext
    <3>1. o \notin stored /\ status[o] = "NONE" /\ items[o] = {}
      BY <2>1 DEF Submit, IsNew, BaseInv, Lifecycle
    <3>2. View[o] = "UNKNOWN"
      BY <3>1 DEF View, Seen
    <3>3. View' = [View EXCEPT ![o] = "ACCEPTED"]
      BY <2>1 DEF Submit, View, Seen, BaseInv, TypeOK
    <3>4. Shows' = Shows
      BY <2>1, <3>1 DEF Submit, Shows
    <3>5. Contract!OAccept(o)
      BY <3>2, <3>3, <3>4 DEF Contract!OAccept, View, Shows
    <3> QED BY <3>5 DEF Contract!ONext
  <2>2. ASSUME NEW o \in Op, Asks(o) PROVE Contract!ONext \/ UNCHANGED <<View, Shows>>
    <3>1. /\ status[o] = "ACCEPTED" /\ status' = [status EXCEPT ![o] = "RUNNING"]
          /\ UNCHANGED <<items, stored>>
      BY <2>2 DEF Asks, BaseInv, Lifecycle
    <3>2. Shows' = Shows
      BY <3>1 DEF Shows
    <3>3. CASE o \in stored
      <4>1. View[o] = "ACCEPTED" /\ View' = [View EXCEPT ![o] = "RUNNING"]
        BY <3>1, <3>3 DEF View, Seen, BaseInv, TypeOK
      <4>2. Contract!ORun(o)
        BY <3>2, <4>1 DEF Contract!ORun, View, Shows
      <4> QED BY <4>2 DEF Contract!ONext
    <3>4. CASE o \notin stored
      <4>1. View' = View
        BY <3>1, <3>4 DEF View, Seen, BaseInv, TypeOK
      <4> QED BY <3>2, <4>1
    <3> QED BY <3>3, <3>4
  <2>3. ASSUME NEW o \in Op, CannotAsk(o) \/ Returns(o) \/ TimesOut(o) \/ Dies(o)
        PROVE  Contract!ONext \/ UNCHANGED <<View, Shows>>
    BY <2>3, CoroutineEnds, EndIsOutcome
  <2>4. CASE ServiceReset
    <3>1. stored' = {} /\ status' = status
      BY <2>4 DEF ServiceReset
    <3>2. \A o \in Op : View[o] \in Contract!Visible <=> o \in stored
      BY DEF View, Seen, Contract!Visible, Contract!Outcome, BaseInv, TypeOK, Lifecycle, Ended
    <3>3. \A o \in Op : Seen(o)' = IF View[o] \in Contract!Visible THEN "GONE" ELSE View[o]
      BY <3>1, <3>2 DEF View, Seen, BaseInv, Lifecycle
    <3>4. View' = [o \in Op |-> IF View[o] \in Contract!Visible THEN "GONE" ELSE View[o]]
      BY <3>3 DEF View
    <3>5. Shows' = [o \in Op |-> {}]
      BY <3>1 DEF Shows
    <3>6. Contract!OReset
      BY <3>4, <3>5 DEF Contract!OReset, View, Shows
    <3> QED BY <3>6 DEF Contract!ONext
  <2>5. CASE \/ \E o \in Op : Settles(o) \/ DeviceAnswers(o)
             \/ \E m \in answers : Receive(m)
             \/ ListenerReturns \/ RegistrarReset
    BY <2>5, Unseen DEF Settles, DeviceAnswers, Receive, ListenerReturns, RegistrarReset
  <2>6. CASE UNCHANGED vars
    BY <2>6, Unseen DEF vars
  <2> QED BY <2>1, <2>2, <2>3, <2>4, <2>5, <2>6 DEF Next, Coroutine, Reset
<1> QED BY <1>1, <1>2, BaseInvariant, PTL DEF Spec, ImplementsOperations, Contract!OSpec
=============================================================================
