---------------------------- MODULE EventDelivery ----------------------------
(***************************************************************************)
(* The Provider's event outbox: the handlers that record events, the       *)
(* delivery worker with its bounded retries, the callback sink it posts    *)
(* to, the control plane that reconfigures both, and reset.                *)
(*                                                                         *)
(* Coroutines interleave at their awaits. The control plane's plain "def"  *)
(* handlers run in a thread pool, so the one that records events is split  *)
(* where the event loop can run: between drawing the revision and          *)
(* appending the event. A handler on the event loop draws and appends in   *)
(* one step: only the thread can come between the two, and the outboxes    *)
(* this leaves, a later revision before an earlier one, are also those of  *)
(* the thread's own split; worker, sink and reset run on the loop itself.  *)
(* Events are those of one device and one epoch, and a draw from           *)
(* Store.event_seq for anything else only widens the gaps.                 *)
(***************************************************************************)
EXTENDS Naturals, Sequences, FiniteSets

CONSTANTS
  Token, NoToken, \* bearer tokens; the empty one
  DefaultUrl,     \* settings.events_callback_url
  DefaultToken,   \* settings.events_callback_token
  MaxAttempts,    \* settings.events_max_attempts
  Script,         \* what POST events/sink/script may set
  None,
  MaxEvents,      \* bound: events ever recorded
  MaxResets       \* bound: resets

Answer == {"ok", "scripted", "auth", "error"}
  \* 200 for a recorded event, a 2xx that the script says (to the worker the
  \* two are one), 401 or 403, any other status
Url    == {"none", "sink", "invalid"}
  \* none or the empty string, the sink's, one that httpx cannot parse

ASSUME DeliveryConstantsOK ==
  /\ DefaultUrl \in {"none", "sink"}   \* the setting is validated
  /\ NoToken \notin Token
  /\ DefaultToken \in Token \union {NoToken}
  /\ MaxAttempts \in Nat \ {0}
  /\ Script \subseteq Answer \ {"ok"}
  /\ MaxEvents \in Nat /\ MaxResets \in Nat
  /\ None \notin [rev : Nat, era : Nat]

VARIABLES
  outbox,     \* Store.events
  eventSeq,   \* Store.event_seq
  born,       \* events ever recorded; the last one's event_id
  era,        \* resets so far
  status,     \* POST devices/{id}/status in its thread: what it drew, and when
  sync,       \* the era in which the running catalog sync began
  pc,         \* the worker: "idle" between passes, "scan", "post", or "dead"
  at,         \* its place in the outbox
  url, token, \* the target it read when the pass began
  post,       \* its request: "none", "sent", "held" by the sink, or answered
  config,     \* app.state: the url and the token that the control plane set
  received,   \* history, from reset on: ids of the events the sink recorded
  scripted,   \* history, from reset on: of those delivered on a scripted 2xx
  resetPc     \* POST /testkit/v1/reset: "idle", "waiting" or "rebuilding"

storeVars  == <<outbox, eventSeq, born>>
sourceVars == <<status, sync>>
workerVars == <<pc, at, url, token, post>>
sinkVars   == <<received, scripted>>
vars == <<storeVars, era, sourceVars, workerVars, config, sinkVars, resetPc>>

DeliveryState == {"PENDING", "DELIVERED", "FAILED", "REFUSED", "NOT_CONFIGURED"}
Final == {"DELIVERED", "REFUSED", "NOT_CONFIGURED"}
Event == [id : 1..MaxEvents, rev : 1..MaxEvents, era : 0..MaxResets,
          state : DeliveryState, attempts : 0..MaxAttempts]

Init ==
  /\ outbox = <<>> /\ eventSeq = 0 /\ born = 0 /\ era = 0
  /\ status = None /\ sync = None
  /\ pc = "idle" /\ at = 1 /\ url = "none" /\ token = NoToken /\ post = "none"
  /\ config = [url |-> DefaultUrl, token |-> DefaultToken]
  /\ received = {} /\ scripted = {}
  /\ resetPc = "idle"

-----------------------------------------------------------------------------
(* Recording.  An event remembers the era in which what it reports began.    *)

\* The bound leaves room for the event of the thread.
Room == born + (IF status = None THEN 0 ELSE 1) < MaxEvents

\* record_event after next_revision: the list grows at its end.
Record(rev, began) ==
  /\ born' = born + 1
  /\ outbox' = Append(outbox, [id |-> born + 1, rev |-> rev, era |-> began,
                               state |-> "PENDING", attempts |-> 0])

\* record_keepalive and expire_stale_devices, on the event loop.
LivenessEvent ==
  /\ Room
  /\ Record(eventSeq + 1, era)
  /\ eventSeq' = eventSeq + 1
  /\ UNCHANGED <<era, sourceVars, workerVars, config, sinkVars, resetPc>>

\* set_device_online_status, in a thread.
StatusDraws ==
  /\ status = None /\ Room
  /\ eventSeq' = eventSeq + 1
  /\ status' = [rev |-> eventSeq + 1, era |-> era]
  /\ UNCHANGED <<outbox, born, era, sync, workerVars, config, sinkVars, resetPc>>

StatusAppends ==
  /\ status # None
  /\ Record(status.rev, status.era)
  /\ status' = None
  /\ UNCHANGED <<eventSeq, era, sync, workerVars, config, sinkVars, resetPc>>

\* A catalog sync queries the device, and reports CATALOG_CHANGED if the device
\* answers.  The registrar's reset cancels a query that has no answer yet.
SyncStarts ==
  /\ sync = None /\ Room
  /\ sync' = era
  /\ UNCHANGED <<storeVars, era, status, workerVars, config, sinkVars, resetPc>>

SyncCompletes ==
  /\ sync # None /\ Room
  /\ Record(eventSeq + 1, sync)
  /\ eventSeq' = eventSeq + 1
  /\ sync' = None
  /\ UNCHANGED <<era, status, workerVars, config, sinkVars, resetPc>>

SyncFails ==
  /\ sync # None
  /\ sync' = None
  /\ UNCHANGED <<storeVars, era, status, workerVars, config, sinkVars, resetPc>>

-----------------------------------------------------------------------------
(* The worker.  It holds the delivery lock for a whole pass over the outbox,  *)
(* which includes every post and every backoff sleep.                         *)

\* _callback_url and _callback_token: an empty value means the setting.
Target == IF config.url = "none" THEN DefaultUrl ELSE config.url
Credential == IF config.token = NoToken THEN DefaultToken ELSE config.token

\* Mutation of PassStarts: the worker takes the lock past a waiting reset.
PassStartsFirst ==
  /\ pc = "idle" /\ resetPc # "rebuilding"
  /\ pc' = "scan"
  /\ at' = 1
  /\ url' = Target
  /\ token' = Credential
  /\ UNCHANGED <<storeVars, era, sourceVars, post, config, sinkVars, resetPc>>

\* The lock is fair: a reset that waits for it comes first.
PassStarts ==
  /\ pc = "idle" /\ resetPc = "idle"
  /\ pc' = "scan"
  /\ at' = 1
  /\ url' = Target
  /\ token' = Credential
  /\ UNCHANGED <<storeVars, era, sourceVars, post, config, sinkVars, resetPc>>

\* The pass is over: the lock is free and the locals are gone.
EndPass(next) ==
  /\ pc' = next
  /\ at' = 1 /\ url' = "none" /\ token' = NoToken
  /\ UNCHANGED <<eventSeq, born, era, sourceVars, post, config, sinkVars, resetPc>>

\* Without a target everything that is not final is given up, exhausted or not.
PassWithoutTarget ==
  /\ pc = "scan" /\ url = "none"
  /\ outbox' = [i \in DOMAIN outbox |->
                  IF outbox[i].state \in Final THEN outbox[i]
                  ELSE [outbox[i] EXCEPT !.state = "NOT_CONFIGURED"]]
  /\ EndPass("idle")

\* Mutations of Exhausted, Deliverable and IsNext: one attempt too many, a refused
\* event is tried again, and the pass stops at the first event that is done.
ExhaustedLate(e) == e.state = "FAILED" /\ e.attempts > MaxAttempts

Exhausted(e) == e.state = "FAILED" /\ e.attempts >= MaxAttempts

DeliverableIfRefused(e) == e.state \notin {"DELIVERED", "NOT_CONFIGURED"} /\ ~Exhausted(e)

\* Neither final nor out of attempts.
Deliverable(e) == e.state \notin Final /\ ~Exhausted(e)

IsNextFirst(i) == i = at /\ Deliverable(outbox[i])

\* The next event of this pass.
IsNext(i) ==
  /\ i >= at /\ Deliverable(outbox[i])
  /\ \A j \in at..(i - 1) : ~Deliverable(outbox[j])

\* The attempt is counted and the event FAILED before the answer is known.
Attempt(i) == outbox' = [outbox EXCEPT ![i].attempts = @ + 1, ![i].state = "FAILED"]

Posts ==
  /\ pc = "scan" /\ url = "sink"
  /\ \E i \in DOMAIN outbox : IsNext(i) /\ at' = i /\ Attempt(i)
  /\ pc' = "post"
  /\ post' = "sent"
  /\ UNCHANGED <<eventSeq, born, era, sourceVars, url, token, config, sinkVars, resetPc>>

\* httpx.InvalidURL is no HTTPError: it ends the task, with the attempt counted.
WorkerDies ==
  /\ pc = "scan" /\ url = "invalid"
  /\ \E i \in DOMAIN outbox : IsNext(i) /\ Attempt(i)
  /\ EndPass("dead")

PassEnds ==
  /\ pc = "scan" /\ url # "none"
  /\ \A i \in DOMAIN outbox : ~IsNext(i)
  /\ EndPass("idle")
  /\ UNCHANGED outbox

\* On to the next event: with an error that may be retried after a backoff,
\* still in the same pass, so the retry comes after later events.
Settles(state) ==
  /\ outbox' = [outbox EXCEPT ![at].state = state]
  /\ scripted' = IF state = "DELIVERED" /\ post = "scripted"
                 THEN scripted \union {outbox[at].id} ELSE scripted
  /\ pc' = "scan"
  /\ at' = at + 1
  /\ post' = "none"
  /\ UNCHANGED <<eventSeq, born, era, sourceVars, url, token, config, received, resetPc>>

Answered ==
  \/ post \in {"ok", "scripted"} /\ Settles("DELIVERED")
  \/ post = "auth" /\ Settles("REFUSED")
  \/ post = "error" /\ Settles("FAILED")

\* httpx.HTTPError: nobody listens, or no answer within the read timeout, be it
\* on its way.  The sink's handler finds its client gone and records nothing.
PostFails == post # "none" /\ Settles("FAILED")

-----------------------------------------------------------------------------
(* The sink. *)

Answers(answer) ==
  /\ post' = answer
  /\ UNCHANGED <<storeVars, era, sourceVars, pc, at, url, token, config, resetPc>>

\* The sink's token is the one last configured; without one, what the worker sends
\* is refused (the sink then wants the empty token or its built-in one).
Authorized == token = config.token /\ token # NoToken

\* Mutation of SinkReceives: the answer is sent before the event is recorded.
SinkReceivesAndAnswers ==
  /\ post = "sent"
  /\ IF Authorized THEN Answers("ok") ELSE Answers("auth")
  /\ UNCHANGED sinkVars

\* The token is checked at once, then the handler may sleep.
SinkReceives ==
  /\ post = "sent"
  /\ IF Authorized THEN Answers("held") ELSE Answers("auth")
  /\ UNCHANGED sinkVars

\* After the sleep the script is consulted, which the control plane may set and
\* clear at any time.  A scripted answer, of any status, records nothing.
SinkAnswers ==
  /\ post = "held"
  /\ \/ \E answer \in Script : Answers(answer) /\ UNCHANGED sinkVars
     \/ /\ Answers("ok")
        /\ received' = received \union {outbox[at].id}
        /\ UNCHANGED scripted

-----------------------------------------------------------------------------
(* The control plane. *)

\* An absent field keeps its value; an empty one is stored.
SinkConfig(u, t) ==
  /\ config' = [url |-> u, token |-> t]
  /\ UNCHANGED <<storeVars, era, sourceVars, workerVars, sinkVars, resetPc>>

ResetArrives ==
  /\ resetPc = "idle" /\ era < MaxResets
  /\ resetPc' = "waiting"
  /\ UNCHANGED <<storeVars, era, sourceVars, workerVars, config, sinkVars>>

\* Mutation of ServiceReset: the delivery lock is not taken.
ServiceResetUnlocked ==
  /\ resetPc = "waiting"
  /\ resetPc' = "rebuilding"
  /\ era' = era + 1
  /\ outbox' = <<>>
  /\ eventSeq' = 0
  /\ received' = {} /\ scripted' = {}
  /\ UNCHANGED <<born, sourceVars, workerVars, config>>

\* The lock is granted; service.reset, then the new listeners are awaited.
ServiceReset ==
  /\ resetPc = "waiting" /\ pc \in {"idle", "dead"}
  /\ resetPc' = "rebuilding"
  /\ era' = era + 1
  /\ outbox' = <<>>
  /\ eventSeq' = 0
  /\ received' = {} /\ scripted' = {}
  /\ UNCHANGED <<born, sourceVars, workerVars, config>>

\* registrar.reset, sink.reset and the defaults, in one stretch.
ResetReturns ==
  /\ resetPc = "rebuilding"
  /\ resetPc' = "idle"
  /\ sync' = None
  /\ config' = [url |-> DefaultUrl, token |-> DefaultToken]
  /\ UNCHANGED <<storeVars, era, status, workerVars, sinkVars>>

-----------------------------------------------------------------------------

Sources == SyncStarts \/ SyncCompletes \/ SyncFails \/ LivenessEvent \/ StatusDraws \/ StatusAppends
Worker  == PassStarts \/ PassWithoutTarget \/ Posts \/ WorkerDies \/ PassEnds \/ Answered \/ PostFails
Sink    == SinkReceives \/ SinkAnswers
Control == \E u \in Url, t \in Token \union {NoToken} : SinkConfig(u, t)
Reset   == ServiceReset \/ ResetReturns

Next == Sources \/ Worker \/ Sink \/ Control \/ ResetArrives \/ Reset

Spec == Init /\ [][Next]_vars

\* The worker's loop goes on until it dies and its posts time out; a reset that waits is
\* woken when the lock is released.
FairSpec == Spec /\ WF_vars(Worker) /\ WF_vars(Reset)

-----------------------------------------------------------------------------
(* Properties. *)

TypeOK ==
  /\ \A i \in DOMAIN outbox : outbox[i] \in Event
  /\ eventSeq \in Nat /\ born \in 0..MaxEvents /\ era \in 0..MaxResets
  /\ status \in [rev : Nat, era : 0..MaxResets] \union {None}
  /\ sync \in 0..MaxResets \union {None}
  /\ pc \in {"idle", "scan", "post", "dead"}
  /\ at \in 1..(MaxEvents + 1)
  /\ url \in Url /\ token \in Token \union {NoToken}
  /\ post \in Answer \union {"none", "sent", "held"}
  /\ config \in [url : Url, token : Token \union {NoToken}]
  /\ received \in SUBSET (1..MaxEvents) /\ scripted \in SUBSET (1..MaxEvents)
  /\ resetPc \in {"idle", "waiting", "rebuilding"}

\* An answer is always booked on the event it answers: while a request is out,
\* the worker's place holds an attempted event that is not final, whatever is
\* recorded, reconfigured or reset meanwhile.
AnswerHasItsEvent ==
  pc = "post" => /\ at \in DOMAIN outbox
                 /\ outbox[at].state = "FAILED"
                 /\ outbox[at].attempts > 0

\* DELIVERED means that the sink recorded the event, unless the answer was a 2xx
\* that its script made it say: then nothing is recorded.  The worker may have
\* timed out on an earlier attempt, and script and token may have changed since.
DeliveredWasReceived ==
  \A i \in DOMAIN outbox :
    outbox[i].state = "DELIVERED" => outbox[i].id \in received \union scripted

\* What was delivered, refused or given up stays so and is never posted again,
\* in no later pass and under no later configuration, until reset removes it.
FinalStaysFinal ==
  [][\A i \in DOMAIN outbox :
       outbox[i].state \in Final /\ i \in DOMAIN outbox' => outbox'[i] = outbox[i]]_vars

Unsettled(id) == \E i \in DOMAIN outbox :
  outbox[i].id = id /\ outbox[i].state \notin Final /\ ~Exhausted(outbox[i])

\* No event is retried for ever or forgotten behind others: each one becomes
\* final or runs out of attempts, or a reset removes it, unless a callback url
\* that cannot be parsed has ended the worker.
EventsSettle == \A id \in 1..MaxEvents : Unsettled(id) ~> ~Unsettled(id) \/ pc = "dead"

\* Reset gets the delivery lock, whatever the sink does to the running pass, and
\* even after the worker died in one.
ResetReturnsInTheEnd == resetPc = "waiting" ~> resetPc = "idle"

\* Once reset returned, no event of before it is left to be delivered.
NoOldEventAfterReset ==
  resetPc # "rebuilding" => \A i \in DOMAIN outbox : outbox[i].era = era
=============================================================================
