------------------------ MODULE EventDeliveryProofs ------------------------
(***************************************************************************)
(* Proofs about EventDelivery, for any number of events, attempts and      *)
(* resets, any tokens and any script of the sink.                          *)
(***************************************************************************)
EXTENDS EventDelivery, SequenceTheorems, TLAPS

-----------------------------------------------------------------------------
(* Types and the worker's place *)

Pending == IF status = None THEN 0 ELSE 1

Draw == [rev : 1..MaxEvents, era : 0..MaxResets]

OutboxInv ==
  /\ outbox \in Seq(Event)
  /\ Len(outbox) <= born
  /\ \A i \in 1..Len(outbox) : outbox[i].state = "PENDING" => outbox[i].attempts = 0

\* The bound on events holds because a thread that has drawn its revision keeps
\* a place, and a revision never exceeds the number of events: reset only sets
\* it back.
CountInv ==
  /\ born \in Nat /\ eventSeq \in Nat
  /\ born + Pending <= MaxEvents
  /\ eventSeq <= born + Pending
  /\ status # None => status \in Draw

WorkerInv ==
  /\ pc \in {"idle", "scan", "post", "dead"}
  /\ at \in 1..(MaxEvents + 1)
  /\ url \in Url /\ token \in Token \union {NoToken}
  /\ post \in Answer \union {"none", "sent", "held"}

RestInv ==
  /\ era \in 0..MaxResets
  /\ sync \in 0..MaxResets \union {None}
  /\ config \in [url : Url, token : Token \union {NoToken}]
  /\ received \in SUBSET (1..MaxEvents) /\ scripted \in SUBSET (1..MaxEvents)
  /\ resetPc \in {"idle", "waiting", "rebuilding"}
  /\ resetPc = "waiting" => era < MaxResets

\* AnswerHasItsEvent is not inductive: an answer is looked at whenever post
\* holds one, and that it is the worker's own rests on the pass being out.
PostInv ==
  /\ post # "none" => pc = "post"
  /\ AnswerHasItsEvent

DeliveryInv == OutboxInv /\ CountInv /\ WorkerInv /\ RestInv /\ PostInv

\* A recorded event is one of the bound and leaves the older ones in place.
LEMMA RecordGrows ==
  ASSUME OutboxInv, born \in Nat, born < MaxEvents,
         NEW rev \in 1..MaxEvents, NEW began \in 0..MaxResets, Record(rev, began)
  PROVE  /\ OutboxInv'
         /\ born' = born + 1
         /\ Len(outbox') = Len(outbox) + 1
         /\ \A i \in 1..Len(outbox) : outbox'[i] = outbox[i]
         /\ outbox'[Len(outbox) + 1].state = "PENDING"
<1> DEFINE e == [id |-> born + 1, rev |-> rev, era |-> began,
                 state |-> "PENDING", attempts |-> 0]
<1>1. e \in Event
  BY DeliveryConstantsOK DEF DeliveryConstantsOK, Event, DeliveryState
<1>2. outbox' = Append(outbox, e) /\ born' = born + 1
  BY DEF Record
<1> HIDE DEF e
<1>3. /\ outbox' \in Seq(Event) /\ Len(outbox') = Len(outbox) + 1
      /\ \A i \in 1..Len(outbox) : outbox'[i] = outbox[i]
      /\ outbox'[Len(outbox) + 1] = e
  BY <1>1, <1>2, AppendProperties DEF OutboxInv
<1>4. e.state = "PENDING" /\ e.attempts = 0
  BY DEF e
<1>5. Len(outbox) \in Nat
  BY LenProperties DEF OutboxInv
<1>6. ASSUME NEW i \in 1..Len(outbox'), outbox'[i].state = "PENDING"
      PROVE  outbox'[i].attempts = 0
  <2>1. CASE i = Len(outbox) + 1
    BY <1>3, <1>4, <2>1
  <2>2. CASE i # Len(outbox) + 1
    BY <1>3, <1>5, <1>6, <2>2 DEF OutboxInv
  <2> QED BY <2>1, <2>2
<1> QED BY <1>2, <1>3, <1>4, <1>5, <1>6 DEF OutboxInv

\* Booking an attempt or a result changes one event and keeps its identity.
LEMMA BookingKeepsOutbox ==
  ASSUME OutboxInv, NEW i \in DOMAIN outbox, NEW e \in Event,
         e.state # "PENDING", outbox' = [outbox EXCEPT ![i] = e], born' = born
  PROVE  /\ OutboxInv'
         /\ Len(outbox') = Len(outbox) /\ DOMAIN outbox' = DOMAIN outbox
         /\ outbox'[i] = e
         /\ \A j \in DOMAIN outbox \ {i} : outbox'[j] = outbox[j]
<1>1. DOMAIN outbox = 1..Len(outbox) /\ Len(outbox) \in Nat
  BY LenProperties DEF OutboxInv
<1>2. /\ outbox' \in Seq(Event) /\ Len(outbox') = Len(outbox)
      /\ \A j \in 1..Len(outbox) : outbox'[j] = IF j = i THEN e ELSE outbox[j]
  BY <1>1, ExceptSeq DEF OutboxInv
<1>3. DOMAIN outbox' = 1..Len(outbox')
  BY <1>2, LenProperties
<1> QED BY <1>1, <1>2, <1>3 DEF OutboxInv

\* An event that is attempted has an attempt left.
LEMMA AttemptType ==
  ASSUME OutboxInv, NEW i \in DOMAIN outbox, Deliverable(outbox[i])
  PROVE  LET e == [outbox[i] EXCEPT !.attempts = @ + 1, !.state = "FAILED"]
         IN  /\ e \in Event /\ e.state = "FAILED" /\ e.attempts > 0
             /\ e.id = outbox[i].id
<1>1. outbox[i] \in Event
  BY ElementOfSeq, LenProperties DEF OutboxInv
<1>2. outbox[i].attempts < MaxAttempts
  <2>1. CASE outbox[i].state = "PENDING"
    <3>1. outbox[i].attempts = 0
      BY <2>1, LenProperties DEF OutboxInv
    <3> QED BY <3>1, DeliveryConstantsOK DEF DeliveryConstantsOK
  <2>2. CASE outbox[i].state = "FAILED"
    BY <1>1, <2>2, DeliveryConstantsOK
    DEF DeliveryConstantsOK, Deliverable, Exhausted, Event
  <2> QED BY <1>1, <2>1, <2>2 DEF Deliverable, Final, Event, DeliveryState
<1>3. ASSUME NEW e \in Event, e.attempts < MaxAttempts
      PROVE  LET f == [e EXCEPT !.attempts = @ + 1, !.state = "FAILED"]
             IN  /\ f.id = e.id /\ f.rev = e.rev /\ f.era = e.era
                 /\ f.attempts = e.attempts + 1 /\ f.state = "FAILED"
                 /\ f \in Event /\ f.attempts > 0
  <2>1. e.attempts + 1 \in 0..MaxAttempts /\ e.attempts + 1 > 0
    BY <1>3, DeliveryConstantsOK DEF DeliveryConstantsOK, Event
  <2> QED BY <2>1 DEF Event, DeliveryState
<1> QED BY <1>1, <1>2, <1>3

\* What an answer makes of the event it is booked on.
LEMMA ResultType ==
  ASSUME OutboxInv, NEW i \in DOMAIN outbox,
         NEW s \in {"DELIVERED", "REFUSED", "FAILED"}
  PROVE  LET e == [outbox[i] EXCEPT !.state = s]
         IN  e \in Event /\ e.state = s /\ e.id = outbox[i].id
<1>1. outbox[i] \in Event
  BY ElementOfSeq, LenProperties DEF OutboxInv
<1> QED BY <1>1 DEF Event, DeliveryState

\* Without a target every event keeps its type and its place.
LEMMA GivingUpKeepsOutbox ==
  ASSUME OutboxInv, PassWithoutTarget
  PROVE  /\ OutboxInv'
         /\ DOMAIN outbox' = DOMAIN outbox
         /\ \A i \in DOMAIN outbox :
              /\ outbox'[i].id = outbox[i].id
              /\ outbox[i].state \in Final => outbox'[i] = outbox[i]
              /\ outbox[i].state \notin Final => outbox'[i].state = "NOT_CONFIGURED"
<1> DEFINE Given(i) == IF outbox[i].state \in Final THEN outbox[i]
                       ELSE [outbox[i] EXCEPT !.state = "NOT_CONFIGURED"]
<1>1. DOMAIN outbox = 1..Len(outbox) /\ Len(outbox) \in Nat
  BY LenProperties DEF OutboxInv
<1>2. \A i \in 1..Len(outbox) : outbox[i] \in Event
  BY ElementOfSeq DEF OutboxInv
<1>3. ASSUME NEW i \in 1..Len(outbox)
      PROVE  /\ Given(i) \in Event /\ Given(i).state # "PENDING"
             /\ Given(i).id = outbox[i].id
             /\ outbox[i].state \notin Final => Given(i).state = "NOT_CONFIGURED"
  BY <1>2 DEF Event, DeliveryState, Final
<1>4. outbox' = [i \in 1..Len(outbox) |-> Given(i)] /\ born' = born
  BY <1>1 DEF PassWithoutTarget, EndPass
<1>5. \A i \in 1..Len(outbox) :
        outbox[i].state \in Final => Given(i) = outbox[i]
  OBVIOUS
<1> HIDE DEF Given
<1>6. outbox' \in [1..Len(outbox) -> Event]
  BY <1>3, <1>4
<1>7. outbox' \in Seq(Event)
  BY <1>1, <1>6, SeqDef
<1>8. DOMAIN outbox' = 1..Len(outbox) /\ Len(outbox') = Len(outbox)
  BY <1>1, <1>6, <1>7, LenProperties
<1> QED BY <1>1, <1>3, <1>4, <1>5, <1>7, <1>8 DEF OutboxInv

-----------------------------------------------------------------------------
(* Every step keeps the invariant. *)

\* What records events (calls, threads, tests of the sink) keeps DeliveryInv.
LEMMA SourcesKeep ==
  ASSUME DeliveryInv, Sources
  PROVE  DeliveryInv'
<1> USE DEF DeliveryInv
<1>1. UNCHANGED <<workerVars, config, sinkVars, resetPc, era>>
  BY DEF Sources, SyncStarts, SyncCompletes, SyncFails, LivenessEvent, StatusDraws,
         StatusAppends
<1>2. WorkerInv'
  BY <1>1 DEF WorkerInv, workerVars
<1>3. ASSUME NEW rev \in 1..MaxEvents, NEW began \in 0..MaxResets,
             Record(rev, began), born < MaxEvents
      PROVE  OutboxInv' /\ PostInv' /\ born' = born + 1
  <2>1. /\ OutboxInv' /\ born' = born + 1
        /\ Len(outbox') = Len(outbox) + 1
        /\ \A i \in 1..Len(outbox) : outbox'[i] = outbox[i]
    BY <1>3, RecordGrows DEF CountInv
  <2>2. /\ DOMAIN outbox = 1..Len(outbox) /\ Len(outbox) \in Nat
        /\ DOMAIN outbox' = 1..Len(outbox')
    BY <2>1, LenProperties DEF OutboxInv
  <2>3. PostInv'
    BY <1>1, <2>1, <2>2 DEF PostInv, AnswerHasItsEvent, workerVars
  <2> QED BY <2>1, <2>3
<1>4. ASSUME UNCHANGED <<outbox, born>> PROVE OutboxInv' /\ PostInv'
  BY <1>1, <1>4 DEF OutboxInv, PostInv, AnswerHasItsEvent, workerVars
<1>5. CASE LivenessEvent
  <2>1. born < MaxEvents /\ eventSeq + 1 \in 1..MaxEvents
    BY <1>5, DeliveryConstantsOK
    DEF DeliveryConstantsOK, LivenessEvent, Room, CountInv, Pending
  <2>2. OutboxInv' /\ PostInv' /\ born' = born + 1
    BY <1>3, <1>5, <2>1 DEF LivenessEvent, RestInv
  <2>3. CountInv' /\ RestInv'
    BY <1>5, <2>2, DeliveryConstantsOK
    DEF DeliveryConstantsOK, LivenessEvent, Room, CountInv, Pending, RestInv, sourceVars, sinkVars
  <2> QED BY <1>2, <2>2, <2>3
<1>6. CASE StatusDraws
  <2>1. status' = [rev |-> eventSeq + 1, era |-> era] /\ status = None
    BY <1>6 DEF StatusDraws
  <2>2. status' \in Draw
    BY <1>6, <2>1, DeliveryConstantsOK
    DEF DeliveryConstantsOK, StatusDraws, Room, CountInv, Pending, Draw, RestInv
  <2>3. Pending' = 1
    BY <2>1, DeliveryConstantsOK DEF DeliveryConstantsOK, Pending, CountInv, RestInv
  <2>4. CountInv'
    BY <1>6, <2>1, <2>2, <2>3, DeliveryConstantsOK
    DEF DeliveryConstantsOK, StatusDraws, Room, CountInv, Pending
  <2>5. RestInv'
    BY <1>1, <1>6 DEF StatusDraws, RestInv, sinkVars
  <2> QED BY <1>2, <1>4, <1>6, <2>4, <2>5 DEF StatusDraws
<1>7. CASE StatusAppends
  <2>1. born < MaxEvents /\ status.rev \in 1..MaxEvents /\ status.era \in 0..MaxResets
    BY <1>7, DeliveryConstantsOK
    DEF DeliveryConstantsOK, StatusAppends, CountInv, Pending, Draw
  <2>2. OutboxInv' /\ PostInv' /\ born' = born + 1
    BY <1>3, <1>7, <2>1 DEF StatusAppends
  <2>3. CountInv' /\ RestInv'
    BY <1>1, <1>7, <2>2, DeliveryConstantsOK
    DEF DeliveryConstantsOK, StatusAppends, CountInv, Pending, RestInv, sinkVars
  <2> QED BY <1>2, <2>2, <2>3
<1>8. CASE SyncStarts \/ SyncFails
  <2>1. CountInv' /\ RestInv'
    BY <1>1, <1>8 DEF SyncStarts, SyncFails, CountInv, Pending, RestInv, storeVars, sinkVars
  <2> QED BY <1>2, <1>4, <1>8, <2>1 DEF SyncStarts, SyncFails, storeVars
<1>9. CASE SyncCompletes
  <2>1. born < MaxEvents /\ eventSeq + 1 \in 1..MaxEvents /\ sync \in 0..MaxResets
    BY <1>9, DeliveryConstantsOK
    DEF DeliveryConstantsOK, SyncCompletes, Room, CountInv, Pending, RestInv
  <2>2. OutboxInv' /\ PostInv' /\ born' = born + 1
    BY <1>3, <1>9, <2>1 DEF SyncCompletes
  <2>3. CountInv' /\ RestInv'
    BY <1>1, <1>9, <2>2, DeliveryConstantsOK
    DEF DeliveryConstantsOK, SyncCompletes, Room, CountInv, Pending, RestInv, sinkVars
  <2> QED BY <1>2, <2>2, <2>3
<1> QED BY <1>5, <1>6, <1>7, <1>8, <1>9 DEF Sources

\* A booking leaves the counters alone.
LEMMA BookingKeepsCounts ==
  ASSUME DeliveryInv, UNCHANGED <<eventSeq, born, status, era, sync, config, resetPc,
                                  received>>,
         scripted' \in SUBSET (1..MaxEvents)
  PROVE  CountInv' /\ RestInv'
BY DEF DeliveryInv, CountInv, Pending, RestInv

\* The event at the worker's place has its id.
LEMMA PlaceHasId ==
  ASSUME DeliveryInv, post # "none"
  PROVE  outbox[at].id \in 1..MaxEvents
<1>1. at \in DOMAIN outbox
  BY DEF DeliveryInv, PostInv, AnswerHasItsEvent
<1>2. outbox[at] \in Event
  BY <1>1, ElementOfSeq, LenProperties DEF DeliveryInv, OutboxInv
<1> QED BY <1>2 DEF Event

\* The worker's pass keeps DeliveryInv.
LEMMA WorkerKeeps ==
  ASSUME DeliveryInv, Worker
  PROVE  DeliveryInv'
<1> USE DEF DeliveryInv
<1>1. UNCHANGED <<eventSeq, born, status, era, sync, config, resetPc, received>>
  BY DEF Worker, PassStarts, PassWithoutTarget, Posts, WorkerDies, PassEnds, Answered,
         PostFails, Settles, EndPass, storeVars, sourceVars, sinkVars
<1>2. CountInv' /\ RestInv'
  <2>1. scripted' = scripted \/ (post # "none" /\ scripted' = scripted \union {outbox[at].id})
    BY DEF Worker, PassStarts, PassWithoutTarget, Posts, WorkerDies, PassEnds, Answered,
           PostFails, Settles, EndPass, sinkVars
  <2>2. scripted' \in SUBSET (1..MaxEvents)
    BY <2>1, PlaceHasId DEF RestInv
  <2> QED BY <1>1, <2>2, BookingKeepsCounts
<1>3. DOMAIN outbox = 1..Len(outbox) /\ Len(outbox) \in Nat /\ Len(outbox) <= MaxEvents
  BY LenProperties, DeliveryConstantsOK
  DEF DeliveryConstantsOK, OutboxInv, CountInv, Pending
<1>4. CASE PassStarts
  <2>1. Target \in Url /\ Credential \in Token \union {NoToken}
    BY DeliveryConstantsOK DEF DeliveryConstantsOK, Target, Credential, RestInv, Url
  <2>2. WorkerInv'
    BY <1>4, <2>1, DeliveryConstantsOK DEF DeliveryConstantsOK, PassStarts, WorkerInv
  <2>3. OutboxInv' /\ PostInv'
    BY <1>4 DEF PassStarts, OutboxInv, PostInv, AnswerHasItsEvent, storeVars
  <2> QED BY <1>2, <2>2, <2>3
<1>5. ASSUME NEW next \in {"idle", "dead"}, EndPass(next), pc = "scan"
      PROVE  WorkerInv' /\ PostInv'
  BY <1>5, DeliveryConstantsOK
  DEF DeliveryConstantsOK, EndPass, WorkerInv, PostInv, AnswerHasItsEvent, Url, sinkVars
<1>6. CASE PassWithoutTarget
  BY <1>2, <1>5, <1>6, GivingUpKeepsOutbox DEF PassWithoutTarget
<1>7. ASSUME NEW i \in DOMAIN outbox, IsNext(i), Attempt(i)
      PROVE  /\ OutboxInv' /\ DOMAIN outbox' = DOMAIN outbox
             /\ outbox'[i].state = "FAILED" /\ outbox'[i].attempts > 0
  <2> DEFINE e == [outbox[i] EXCEPT !.attempts = @ + 1, !.state = "FAILED"]
  <2>1. e \in Event /\ e.state = "FAILED" /\ e.attempts > 0
    BY <1>7, AttemptType DEF IsNext
  <2>2. outbox' = [outbox EXCEPT ![i] = e]
    BY <1>7 DEF Attempt
  <2> HIDE DEF e
  <2> QED BY <1>1, <2>1, <2>2, BookingKeepsOutbox
<1>8. CASE Posts
  <2>1. PICK i \in DOMAIN outbox : IsNext(i) /\ at' = i /\ Attempt(i)
    BY <1>8 DEF Posts
  <2>2. OutboxInv' /\ AnswerHasItsEvent'
    BY <1>7, <2>1 DEF AnswerHasItsEvent
  <2>3. at' \in 1..(MaxEvents + 1)
    BY <1>3, <2>1, DeliveryConstantsOK DEF DeliveryConstantsOK
  <2>4. WorkerInv' /\ PostInv'
    BY <1>8, <2>2, <2>3 DEF Posts, WorkerInv, PostInv
  <2> QED BY <1>2, <2>2, <2>4
<1>9. CASE WorkerDies
  BY <1>2, <1>5, <1>7, <1>9 DEF WorkerDies
<1>10. CASE PassEnds
  BY <1>2, <1>5, <1>10 DEF PassEnds, EndPass, OutboxInv
<1>11. ASSUME NEW s \in {"DELIVERED", "REFUSED", "FAILED"}, Settles(s), post # "none"
       PROVE  DeliveryInv'
  <2>1. at \in DOMAIN outbox
    BY <1>11 DEF PostInv, AnswerHasItsEvent
  <2> DEFINE e == [outbox[at] EXCEPT !.state = s]
  <2>2. e \in Event /\ e.state # "PENDING"
    BY <2>1, ResultType
  <2>3. outbox' = [outbox EXCEPT ![at] = e]
    BY <1>11 DEF Settles
  <2> HIDE DEF e
  <2>4. OutboxInv'
    BY <1>1, <2>1, <2>2, <2>3, BookingKeepsOutbox
  <2>5. at + 1 \in 1..(MaxEvents + 1)
    BY <1>3, <2>1, DeliveryConstantsOK DEF DeliveryConstantsOK
  <2>6. WorkerInv' /\ PostInv'
    BY <1>11, <2>5 DEF Settles, WorkerInv, PostInv, AnswerHasItsEvent
  <2> QED BY <1>2, <2>4, <2>6
<1>12. CASE Answered \/ PostFails
  BY <1>11, <1>12 DEF Answered, PostFails
<1> QED BY <1>4, <1>6, <1>8, <1>9, <1>10, <1>12 DEF Worker

\* Reset, the sink and time keep DeliveryInv.
LEMMA OthersKeep ==
  ASSUME DeliveryInv, Sink \/ Control \/ ResetArrives \/ Reset \/ UNCHANGED vars
  PROVE  DeliveryInv'
<1> USE DEF DeliveryInv
<1>1. CASE Sink
  <2>1. UNCHANGED <<outbox, eventSeq, born, status, era, sync, config, resetPc,
                    pc, at, url, token>>
    BY <1>1 DEF Sink, SinkReceives, SinkAnswers, Answers, storeVars, sourceVars
  <2>2. post # "none" /\ post' \in Answer \union {"held"}
    BY <1>1, DeliveryConstantsOK
    DEF DeliveryConstantsOK, Sink, SinkReceives, SinkAnswers, Answers, Answer
  <2>3. received' \in SUBSET (1..MaxEvents) /\ scripted' \in SUBSET (1..MaxEvents)
    <3>1. outbox[at].id \in 1..MaxEvents
      BY <2>2, PlaceHasId
    <3> QED BY <1>1, <3>1 DEF Sink, SinkReceives, SinkAnswers, RestInv, sinkVars
  <2>4. OutboxInv' /\ CountInv' /\ RestInv'
    BY <2>1, <2>3 DEF OutboxInv, CountInv, Pending, RestInv
  <2>5. WorkerInv' /\ PostInv'
    BY <2>1, <2>2 DEF WorkerInv, PostInv, AnswerHasItsEvent
  <2> QED BY <2>4, <2>5
<1>2. CASE Control
  BY <1>2 DEF Control, SinkConfig, storeVars, sourceVars, workerVars, OutboxInv,
              CountInv, Pending, WorkerInv, RestInv, PostInv, AnswerHasItsEvent, sinkVars
<1>3. CASE ResetArrives
  BY <1>3, DeliveryConstantsOK
  DEF DeliveryConstantsOK, ResetArrives, storeVars, sourceVars, workerVars, OutboxInv,
      CountInv, Pending, WorkerInv, RestInv, PostInv, AnswerHasItsEvent, sinkVars
<1>4. CASE ServiceReset
  <2>1. OutboxInv'
    BY <1>4, EmptySeq DEF ServiceReset, OutboxInv, CountInv
  <2>2. CountInv' /\ RestInv'
    BY <1>4, DeliveryConstantsOK
    DEF DeliveryConstantsOK, ServiceReset, sourceVars, CountInv, Pending, RestInv
  <2>3. WorkerInv' /\ PostInv'
    BY <1>4 DEF ServiceReset, workerVars, WorkerInv, PostInv, AnswerHasItsEvent
  <2> QED BY <2>1, <2>2, <2>3
<1>5. CASE ResetReturns
  BY <1>5, DeliveryConstantsOK
  DEF DeliveryConstantsOK, ResetReturns, storeVars, workerVars, OutboxInv, CountInv,
      Pending, WorkerInv, RestInv, PostInv, AnswerHasItsEvent, Url, sinkVars
<1>6. CASE UNCHANGED vars
  BY <1>6 DEF vars, storeVars, sourceVars, workerVars, OutboxInv, CountInv, Pending,
              WorkerInv, RestInv, PostInv, AnswerHasItsEvent, sinkVars
<1> QED BY <1>1, <1>2, <1>3, <1>4, <1>5, <1>6 DEF Reset

\* DeliveryInv holds in every state.
LEMMA DeliveryInvHolds == Spec => []DeliveryInv
<1>1. Init => DeliveryInv
  BY DeliveryConstantsOK, EmptySeq
  DEF DeliveryConstantsOK, Init, DeliveryInv, OutboxInv, CountInv, Pending, WorkerInv,
      RestInv, PostInv, AnswerHasItsEvent, Url
<1>2. DeliveryInv /\ [Next]_vars => DeliveryInv'
  BY SourcesKeep, WorkerKeeps, OthersKeep DEF Next
<1> QED BY <1>1, <1>2, PTL DEF Spec

\* Type correctness: attempts never exceed events_max_attempts, and the worker's
\* place never leaves the outbox by more than one, whatever grows or empties it.
THEOREM DeliveryTypeCorrect == Spec => []TypeOK
<1>1. DeliveryInv => TypeOK
  <2> SUFFICES ASSUME DeliveryInv PROVE TypeOK
    OBVIOUS
  <2> USE DEF DeliveryInv
  <2>1. \A i \in DOMAIN outbox : outbox[i] \in Event
    BY ElementOfSeq, LenProperties DEF OutboxInv
  <2>2. born \in 0..MaxEvents
    BY DeliveryConstantsOK DEF DeliveryConstantsOK, CountInv, Pending
  <2>3. status \in [rev : Nat, era : 0..MaxResets] \union {None}
    BY DeliveryConstantsOK DEF DeliveryConstantsOK, CountInv, Draw
  <2> QED BY <2>1, <2>2, <2>3 DEF TypeOK, CountInv, WorkerInv, RestInv, sinkVars
<1> QED BY <1>1, DeliveryInvHolds, PTL

\* An answer is always booked on the event it answers.
THEOREM AnswersAreBooked == Spec => []AnswerHasItsEvent
<1>1. DeliveryInv => AnswerHasItsEvent
  BY DEF DeliveryInv, PostInv
<1> QED BY <1>1, DeliveryInvHolds, PTL

-----------------------------------------------------------------------------
(* Delivered and final events *)

\* What a step may do to the events that are there: they keep their identity,
\* the final ones stay as they are, and an answer that came makes one DELIVERED:
\* the sink's own, or a scripted one, which is noted.
Moves ==
  /\ \A i \in DOMAIN outbox :
       /\ i \in DOMAIN outbox' /\ outbox'[i].id = outbox[i].id
       /\ outbox[i].state \in Final => outbox'[i] = outbox[i]
       /\ outbox'[i].state = "DELIVERED" =>
            \/ outbox[i].state = "DELIVERED"
            \/ i = at /\ (post = "ok" \/ outbox[i].id \in scripted')
  /\ \A i \in DOMAIN outbox' \ DOMAIN outbox : outbox'[i].state = "PENDING"

\* Every step moves an event as Moves allows.
LEMMA StepsMove ==
  ASSUME DeliveryInv, [Next]_vars, ~ServiceReset
  PROVE  Moves
<1> USE DEF DeliveryInv
<1>1. DOMAIN outbox = 1..Len(outbox) /\ Len(outbox) \in Nat
  BY LenProperties DEF OutboxInv
<1>2. CASE outbox' = outbox
  BY <1>2 DEF Moves
<1>3. ASSUME NEW rev \in 1..MaxEvents, NEW began \in 0..MaxResets,
             Record(rev, began), born < MaxEvents
      PROVE  Moves
  <2>1. /\ OutboxInv' /\ Len(outbox') = Len(outbox) + 1
        /\ \A i \in 1..Len(outbox) : outbox'[i] = outbox[i]
        /\ outbox'[Len(outbox) + 1].state = "PENDING"
    BY <1>3, RecordGrows DEF CountInv
  <2>2. DOMAIN outbox' = 1..(Len(outbox) + 1)
    BY <2>1, LenProperties DEF OutboxInv
  <2> QED BY <1>1, <2>1, <2>2 DEF Moves
<1>4. CASE LivenessEvent \/ SyncCompletes
  <2>1. born < MaxEvents /\ eventSeq + 1 \in 1..MaxEvents
    BY <1>4, DeliveryConstantsOK
    DEF DeliveryConstantsOK, LivenessEvent, SyncCompletes, Room, CountInv, Pending
  <2> QED BY <1>3, <1>4, <2>1 DEF LivenessEvent, SyncCompletes, RestInv
<1>5. CASE StatusAppends
  <2>1. born < MaxEvents /\ status.rev \in 1..MaxEvents /\ status.era \in 0..MaxResets
    BY <1>5, DeliveryConstantsOK
    DEF DeliveryConstantsOK, StatusAppends, CountInv, Pending, Draw
  <2> QED BY <1>3, <1>5, <2>1 DEF StatusAppends
<1>6. CASE PassWithoutTarget
  BY <1>6, GivingUpKeepsOutbox DEF Moves
<1>7. CASE Posts \/ WorkerDies
  <2>1. PICK i \in DOMAIN outbox : IsNext(i) /\ Attempt(i)
    BY <1>7 DEF Posts, WorkerDies
  <2> DEFINE e == [outbox[i] EXCEPT !.attempts = @ + 1, !.state = "FAILED"]
  <2>2. e \in Event /\ e.state = "FAILED" /\ e.id = outbox[i].id
    BY <2>1, AttemptType DEF IsNext
  <2>3. outbox' = [outbox EXCEPT ![i] = e]
    BY <2>1 DEF Attempt
  <2> HIDE DEF e
  <2>4. outbox[i].state \notin Final
    BY <2>1 DEF IsNext, Deliverable
  <2> QED BY <1>1, <2>2, <2>3, <2>4 DEF Moves
<1>8. CASE Answered \/ PostFails
  <2>1. PICK s \in {"DELIVERED", "REFUSED", "FAILED"} :
          /\ outbox' = [outbox EXCEPT ![at].state = s]
          /\ s = "DELIVERED" => post = "ok" \/ outbox[at].id \in scripted'
    BY <1>8 DEF Answered, PostFails, Settles
  <2>2. at \in DOMAIN outbox /\ outbox[at].state = "FAILED"
    BY <1>8 DEF Answered, PostFails, PostInv, AnswerHasItsEvent
  <2> DEFINE e == [outbox[at] EXCEPT !.state = s]
  <2>3. e.state = s /\ e.id = outbox[at].id
    BY <2>2, ResultType
  <2>4. outbox' = [outbox EXCEPT ![at] = e]
    BY <2>1
  <2> HIDE DEF e
  <2> QED BY <1>1, <2>1, <2>2, <2>3, <2>4 DEF Moves, Final
<1>9. CASE PassStarts \/ PassEnds \/ SyncStarts \/ SyncFails \/ StatusDraws \/ Sink
           \/ Control \/ ResetArrives \/ ResetReturns \/ UNCHANGED vars
  BY <1>2, <1>9 DEF PassStarts, PassEnds, SyncStarts, SyncFails, StatusDraws, Sink,
                    SinkReceives, SinkAnswers, Answers, Control, SinkConfig,
                    ResetArrives, ResetReturns, vars, storeVars
<1> QED BY <1>4, <1>5, <1>6, <1>7, <1>8, <1>9 DEF Next, Sources, Worker, Reset

\* What is final stays so, and is never posted again.
THEOREM FinalIsFinal == Spec => FinalStaysFinal
<1>1. DeliveryInv /\ [Next]_vars =>
        \A i \in DOMAIN outbox :
          outbox[i].state \in Final /\ i \in DOMAIN outbox' => outbox'[i] = outbox[i]
  <2> SUFFICES ASSUME DeliveryInv, [Next]_vars, NEW i \in DOMAIN outbox,
                      outbox[i].state \in Final, i \in DOMAIN outbox'
               PROVE  outbox'[i] = outbox[i]
    OBVIOUS
  <2>1. CASE ServiceReset
    BY <2>1 DEF ServiceReset
  <2>2. CASE ~ServiceReset
    BY <2>2, StepsMove DEF Moves
  <2> QED BY <2>1, <2>2
<1> QED BY <1>1, DeliveryInvHolds, PTL DEF Spec, FinalStaysFinal

\* An answer ok was given after the event was recorded.
OkInv == post = "ok" => outbox[at].id \in received

\* DELIVERED means that the sink recorded the event or that its script answered
\* the worker with a 2xx, whatever the script may set and however often it is
\* changed.
THEOREM DeliveredIsReceived == Spec => []DeliveredWasReceived
<1>1. Init => OkInv /\ DeliveredWasReceived
  BY DEF Init, OkInv, DeliveredWasReceived
<1>2. DeliveryInv /\ OkInv /\ DeliveredWasReceived /\ [Next]_vars =>
        OkInv' /\ DeliveredWasReceived'
  <2> SUFFICES ASSUME DeliveryInv, OkInv, DeliveredWasReceived, [Next]_vars
               PROVE  OkInv' /\ DeliveredWasReceived'
    OBVIOUS
  <2>1. CASE ServiceReset
    <3>1. post = "none"
      BY <2>1 DEF ServiceReset, DeliveryInv, PostInv, WorkerInv
    <3> QED BY <2>1, <3>1 DEF ServiceReset, workerVars, OkInv, DeliveredWasReceived
  <2>2. CASE ~ServiceReset
    <3>1. Moves
      BY <2>2, StepsMove
    <3>2. received \subseteq received' /\ scripted \subseteq scripted'
      BY <2>2 DEF Next, Sources, SyncStarts, SyncCompletes, SyncFails, LivenessEvent,
             StatusDraws, StatusAppends, Worker, PassStarts, PassWithoutTarget, Posts,
             WorkerDies, PassEnds, Answered, PostFails, Settles, EndPass, Sink,
             SinkReceives, SinkAnswers, Answers, Control, SinkConfig, ResetArrives,
             Reset, ServiceReset, ResetReturns, vars, sinkVars
    <3>3. post = "ok" => at \in DOMAIN outbox
      BY DEF DeliveryInv, PostInv, AnswerHasItsEvent
    <3>4. DeliveredWasReceived'
      BY <3>1, <3>2, <3>3 DEF Moves, OkInv, DeliveredWasReceived, Final
    <3>5. ASSUME post' = "ok", ~(post = "ok" /\ at' = at)
          PROVE  outbox' = outbox /\ at' = at /\ outbox[at].id \in received'
      BY <3>5, DeliveryConstantsOK
      DEF DeliveryConstantsOK, Next, Sources, SyncStarts, SyncCompletes, SyncFails, LivenessEvent,
          StatusDraws, StatusAppends, Worker, PassStarts, PassWithoutTarget, Posts,
          WorkerDies, PassEnds, Answered, PostFails, Settles, EndPass, Sink,
          SinkReceives, SinkAnswers, Answers, Control, SinkConfig, ResetArrives,
          Reset, ServiceReset, ResetReturns, vars, sinkVars, workerVars, storeVars,
          DeliveryInv, PostInv
    <3>6. OkInv'
      BY <3>1, <3>2, <3>3, <3>5 DEF Moves, OkInv
    <3> QED BY <3>4, <3>6
  <2> QED BY <2>1, <2>2
<1> QED BY <1>1, <1>2, DeliveryInvHolds, PTL DEF Spec
=============================================================================
