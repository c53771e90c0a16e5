------------------------- MODULE RegistrationProofs -------------------------
(***************************************************************************)
(* Proofs about Registration, for any devices, tasks and times.            *)
(***************************************************************************)
EXTENDS Registration, FiniteSetTheorems, TLAPS

-----------------------------------------------------------------------------
(* Types *)

States == [status : Statuses, registered : BOOLEAN, left : 0..Expires]

Strays == [d : Devices, kind : {"register", "unregister"}, life : 1..NonceTTL]

Passes == [todo : SUBSET Devices, orphan : BOOLEAN]

\* A flow sends credentials at most MaxTries times because one that has not been
\* challenged has not sent any, and only a register flow tries again.
RegInv ==
    /\ device \in [Devices -> States]
    /\ flow \in [Procs -> Flow \union {Idle}]
    /\ strays \in SUBSET Strays
    /\ registrations \in SUBSET Devices
    /\ agreed \in BOOLEAN
    /\ pass \in Passes
    /\ resetting \in BOOLEAN
    /\ disturbed \in [Devices -> BOOLEAN]
    /\ \A p \in Procs : Active(p) /\ flow[p].pc = "challenge" => flow[p].tries = 0

\* A flow that waits for its challenge.
LEMMA NewFlowType ==
  ASSUME NEW d \in Devices, NEW kind \in {"register", "unregister"}
  PROVE  /\ NewFlow(d, kind) \in Flow /\ NewFlow(d, kind) # Idle
         /\ NewFlow(d, kind).tries = 0 /\ NewFlow(d, kind).d = d
         /\ NewFlow(d, kind).kind = kind
         /\ NewFlow(d, kind).link = "sent" /\ ~NewFlow(d, kind).orphan
BY RegistrationAssumption DEF RegistrationAssumption, NewFlow, Flow, Idle

\* A process that is not idle has a flow.
LEMMA ActiveIsFlow ==
  ASSUME flow \in [Procs -> Flow \union {Idle}], NEW p \in Procs, Active(p)
  PROVE  flow[p] \in Flow
BY DEF Active

\* A flow is not the idle value.
LEMMA FlowIsActive ==
  ASSUME NEW f \in Flow
  PROVE  f # Idle
BY DEF Flow, Idle

\* What the steps of a flow write into its record.
Continues(f, g) ==
    /\ g \in Flow
    /\ g.pc = f.pc /\ g.tries = f.tries
    /\ g.d = f.d /\ g.kind = f.kind /\ g.orphan = f.orphan

\* The request or its answer is lost.
LEMMA LossUpdate ==
  ASSUME NEW f \in Flow, NEW g, g = [f EXCEPT !.link = "lost", !.life = 0]
  PROVE  Continues(f, g) /\ g.link = "lost"
<1>1. 0 \in 0..NonceTTL
  BY RegistrationAssumption DEF RegistrationAssumption
<1> QED BY <1>1 DEF Continues, Flow

\* The life of a nonce changes.
LEMMA LifeUpdate ==
  ASSUME NEW f \in Flow, NEW n \in 0..NonceTTL, NEW g, g = [f EXCEPT !.life = n]
  PROVE  Continues(f, g) /\ g.link = f.link
BY DEF Continues, Flow

\* Credentials go out.
LEMMA CredentialsUpdate ==
  ASSUME NEW f \in Flow, f.tries < MaxTries,
         NEW g, g = [f EXCEPT !.pc = "answer", !.link = "sent", !.tries = @ + 1,
                              !.wait = Timeout]
  PROVE  /\ g \in Flow /\ g.pc = "answer" /\ g.link = "sent"
         /\ g.d = f.d /\ g.kind = f.kind /\ g.orphan = f.orphan
<1>1. f.tries + 1 \in 0..MaxTries /\ Timeout \in 0..Timeout
  BY RegistrationAssumption DEF RegistrationAssumption, Flow
<1> QED BY <1>1 DEF Flow

\* The device state of a flow is replaced.
LEMMA OrphanUpdate ==
  ASSUME NEW f \in Flow, NEW g, g = [f EXCEPT !.orphan = TRUE]
  PROVE  g \in Flow /\ g.pc = f.pc /\ g.tries = f.tries /\ g.d = f.d
BY DEF Flow

\* A unit of time passes for a flow.
LEMMA ClockUpdate ==
  ASSUME NEW f \in Flow, f.wait > 0, NEW g,
         g = [f EXCEPT !.wait = @ - 1, !.life = Less(@)]
  PROVE  Continues(f, g) /\ g.link = f.link
<1>1. f.wait - 1 \in 0..Timeout /\ Less(f.life) \in 0..NonceTTL
  BY RegistrationAssumption DEF RegistrationAssumption, Flow, Less
<1> QED BY <1>1 DEF Continues, Flow

-----------------------------------------------------------------------------
(* What the steps do *)

\* A process that has no flow starts one.
Begins(p, d, kind) ==
    /\ ~Active(p) /\ flow' = [flow EXCEPT ![p] = NewFlow(d, kind)]
    /\ disturbed' = [disturbed EXCEPT ![d] = resetting \/ ~Quiet(d)]
    /\ \E view \in States :
         /\ view.status = IF kind = "register" THEN "REGISTERING" ELSE "UNREGISTERING"
         /\ device' = [device EXCEPT ![d] = view]
    /\ pass' \in Passes
    /\ UNCHANGED <<strays, registrations, agreed, resetting>>

\* Every way to start a flow is a Begins.
LEMMA StartBegins ==
  ASSUME RegInv, NEW p \in Procs, NEW d \in Devices,
         StartRegister(p, d) \/ StartUnregister(p, d) \/ (p = Maintenance /\ Refresh(d))
  PROVE  \E kind \in {"register", "unregister"} : Begins(p, d, kind)
<1> USE DEF RegInv
<1>1. pass.todo \in SUBSET Devices /\ pass.orphan \in BOOLEAN
  BY DEF Passes
<1>2. [pass EXCEPT !.todo = @ \ {d}] \in Passes
  BY <1>1 DEF Passes
<1>3. device[d] \in States
  OBVIOUS
<1>4. ASSUME TriggerRegister(p, d)
      PROVE  \E view \in States :
               view.status = "REGISTERING" /\ device' = [device EXCEPT ![d] = view]
  <2> DEFINE view == [device[d] EXCEPT !.registered = FALSE, !.status = "REGISTERING",
                                       !.left = 0]
  <2>0. 0 \in 0..Expires /\ "REGISTERING" \in Statuses
    BY RegistrationAssumption DEF RegistrationAssumption, Statuses
  <2>1. view \in States /\ view.status = "REGISTERING"
    BY <1>3, <2>0 DEF States
  <2>2. device' = [device EXCEPT ![d] = view]
    BY <1>3, <1>4 DEF TriggerRegister, States
  <2> QED BY <2>1, <2>2
<1>5. CASE StartRegister(p, d)
  <2>1. Begins(p, d, "register")
    BY <1>2, <1>4, <1>5 DEF StartRegister, TriggerRegister, Launch, Begins
  <2> QED BY <2>1
<1>6. CASE p = Maintenance /\ Refresh(d)
  <2>1. Begins(p, d, "register")
    BY <1>2, <1>4, <1>6 DEF Refresh, TriggerRegister, Launch, Begins
  <2> QED BY <2>1
<1>7. CASE StartUnregister(p, d)
  <2> DEFINE view == [device[d] EXCEPT !.status = "UNREGISTERING"]
  <2>1. view \in States /\ view.status = "UNREGISTERING"
    BY <1>3 DEF States, Statuses
  <2>2. device' = [device EXCEPT ![d] = view]
    BY <1>7 DEF StartUnregister
  <2> HIDE DEF view
  <2>3. Begins(p, d, "unregister")
    BY <1>7, <2>1, <2>2 DEF StartUnregister, Launch, Begins
  <2> QED BY <2>3
<1> QED BY <1>5, <1>6, <1>7

\* A flow goes on with g.  Only an answer 200 goes with a change of the table.
GoesOn(p, g) ==
    /\ Active(p) /\ g \in Flow /\ flow' = [flow EXCEPT ![p] = g]
    /\ g.pc = "challenge" => g.tries = 0
    /\ g.d = flow[p].d /\ g.kind = flow[p].kind /\ g.orphan = flow[p].orphan
    /\ \/ g.link # "200" /\ UNCHANGED registrations
       \/ g.link = "200" /\ Book(g.d, g.kind)
    /\ UNCHANGED <<device, strays, agreed, pass, resetting, disturbed>>

\* The steps within a flow are GoesOn.
LEMMA StepGoesOn ==
  ASSUME RegInv, NEW p \in Procs, Handle(p) \/ Lose(p) \/ SendCredentials(p)
  PROVE  \E g : GoesOn(p, g)
<1> USE DEF RegInv
<1>1. flow[p] \in Flow /\ Active(p)
  BY ActiveIsFlow DEF Handle, Lose, SendCredentials, Challenge, Authorize, RefuseStale,
                      RefuseCredentials
<1>2. NonceTTL \in 0..NonceTTL /\ 0 \in 0..NonceTTL /\ flow[p].life \in 0..NonceTTL
  BY <1>1, RegistrationAssumption DEF RegistrationAssumption, Flow
<1>3. CASE Handle(p)
  <2>1. PICK r \in {"401", "stale", "denied", "200"}, n \in 0..NonceTTL :
          /\ flow' = [flow EXCEPT ![p].life = n, ![p].link = r]
          /\ \/ r # "200" /\ UNCHANGED registrations
             \/ r = "200" /\ Book(flow[p].d, flow[p].kind)
    BY <1>2, <1>3 DEF Handle, Challenge, Authorize, RefuseStale, RefuseCredentials, Answer
  <2> DEFINE g == [flow[p] EXCEPT !.life = n, !.link = r]
  <2>2. Continues(flow[p], g) /\ g.link = r
    <3>1. g = [flow[p] EXCEPT !.life = n, !.link = r]
      OBVIOUS
    <3> HIDE DEF g
    <3> QED BY <1>1, <3>1 DEF Continues, Flow
  <2>3. flow' = [flow EXCEPT ![p] = g]
    BY <1>1, <2>1
  <2> HIDE DEF g
  <2>4. GoesOn(p, g)
    BY <1>1, <1>3, <2>1, <2>2, <2>3 DEF GoesOn, Continues, Handle
  <2> QED BY <2>4
<1>4. CASE Lose(p)
  <2> DEFINE g == [flow[p] EXCEPT !.link = "lost", !.life = 0]
  <2>1. Continues(flow[p], g) /\ g.link = "lost"
    <3>1. g = [flow[p] EXCEPT !.link = "lost", !.life = 0]
      OBVIOUS
    <3> HIDE DEF g
    <3> QED BY <1>1, <3>1, LossUpdate
  <2>2. flow' = [flow EXCEPT ![p] = g]
    BY <1>4 DEF Lose
  <2> HIDE DEF g
  <2>3. GoesOn(p, g)
    BY <1>1, <1>4, <2>1, <2>2 DEF GoesOn, Continues, Lose
  <2> QED BY <2>3
<1>5. CASE SendCredentials(p)
  <2>1. flow[p].tries < MaxTries
    BY <1>1, <1>5, RegistrationAssumption
    DEF RegistrationAssumption, SendCredentials, MayRetry
  <2> DEFINE g == [flow[p] EXCEPT !.pc = "answer", !.link = "sent", !.tries = @ + 1,
                                  !.wait = Timeout]
  <2>2. /\ g \in Flow /\ g.pc = "answer" /\ g.link = "sent"
        /\ g.d = flow[p].d /\ g.kind = flow[p].kind /\ g.orphan = flow[p].orphan
    BY <1>1, <2>1, CredentialsUpdate
  <2>3. flow' = [flow EXCEPT ![p] = g]
    BY <1>5 DEF SendCredentials
  <2> HIDE DEF g
  <2>4. GoesOn(p, g)
    BY <1>1, <1>5, <2>2, <2>3 DEF GoesOn, SendCredentials
  <2> QED BY <2>4
<1> QED BY <1>3, <1>4, <1>5

\* A flow ends.  Only an answer 200 makes the device REGISTERED or UNREGISTERED,
\* and only a failed flow leaves a request behind.
Ends(p) ==
    /\ Active(p) /\ flow' = [flow EXCEPT ![p] = Idle]
    /\ pass' \in Passes
    /\ \/ flow[p].orphan /\ UNCHANGED device
       \/ /\ ~flow[p].orphan
          /\ \E view \in States :
               /\ \/ view.status = "REGISTER_FAILED"
                  \/ /\ flow[p].link = "200" /\ UNCHANGED strays
                     /\ view.status = IF flow[p].kind = "register" THEN "REGISTERED"
                                                                   ELSE "UNREGISTERED"
               /\ device' = [device EXCEPT ![flow[p].d] = view]
    /\ \/ UNCHANGED strays
       \/ \E s \in Strays : s.d = flow[p].d /\ strays' = strays \union {s}
    /\ UNCHANGED <<registrations, agreed, resetting, disturbed>>

\* The last steps of a flow are Ends.
LEMMA LastStepEnds ==
  ASSUME RegInv, NEW p \in Procs, Succeed(p) \/ GiveUp(p) \/ TimeOut(p)
  PROVE  Ends(p)
<1> DEFINE f == flow[p]
<1>1. Active(p) /\ f \in Flow
  BY ActiveIsFlow DEF RegInv, Succeed, GiveUp, TimeOut
<1>2. f.d \in Devices /\ f.kind \in {"register", "unregister"} /\ f.orphan \in BOOLEAN
      /\ f.life \in 0..NonceTTL
  BY <1>1 DEF Flow
<1>3. device[f.d] \in States
  BY <1>2 DEF RegInv
<1>4. pass \in Passes /\ [pass EXCEPT !.todo = @ \ {f.d}] \in Passes
  BY DEF RegInv, Passes
<1>5. Expires \in 0..Expires /\ 0 \in 0..Expires
  BY RegistrationAssumption DEF RegistrationAssumption
<1> HIDE DEF f
<1>6. Failed(p) \in States /\ Failed(p).status = "REGISTER_FAILED"
  BY <1>3 DEF Failed, States, Statuses, f
<1>7. ASSUME NEW ok, NEW view, EndFlow(p, ok, view)
      PROVE  /\ flow' = [flow EXCEPT ![p] = Idle] /\ pass' \in Passes
             /\ \/ f.orphan /\ UNCHANGED device
                \/ ~f.orphan /\ device' = [device EXCEPT ![f.d] = view]
  BY <1>4, <1>7 DEF EndFlow, f
<1>8. CASE Succeed(p)
  <2> DEFINE view == IF f.kind = "register"
                     THEN [status |-> "REGISTERED", registered |-> TRUE, left |-> Expires]
                     ELSE Fresh
  <2>1. EndFlow(p, TRUE, view)
    BY <1>8 DEF Succeed, f
  <2>2. view \in States
    BY <1>5 DEF States, Statuses, Fresh
  <2>3. view.status = IF f.kind = "register" THEN "REGISTERED" ELSE "UNREGISTERED"
    BY DEF Fresh
  <2>4. f.link = "200" /\ UNCHANGED <<strays, registrations, agreed, resetting, disturbed>>
    BY <1>8 DEF Succeed, f
  <2> HIDE DEF view
  <2> QED BY <1>1, <1>7, <2>1, <2>2, <2>3, <2>4 DEF Ends, f
<1>9. CASE GiveUp(p)
  <2>1. EndFlow(p, FALSE, Failed(p))
        /\ UNCHANGED <<strays, registrations, agreed, resetting, disturbed>>
    BY <1>9 DEF GiveUp
  <2> QED BY <1>1, <1>6, <1>7, <2>1 DEF Ends, f
<1>10. CASE TimeOut(p)
  <2>1. EndFlow(p, FALSE, Failed(p)) /\ UNCHANGED <<registrations, agreed, resetting, disturbed>>
    BY <1>10 DEF TimeOut
  <2>2. UNCHANGED strays \/ \E s \in Strays : s.d = f.d /\ strays' = strays \union {s}
    <3> DEFINE s == [d |-> f.d, kind |-> f.kind, life |-> f.life]
    <3>1. f.life > 0 => s \in Strays /\ s.d = f.d
      BY <1>2, RegistrationAssumption DEF RegistrationAssumption, Strays
    <3> QED BY <1>10, <3>1 DEF TimeOut, f
  <2> QED BY <1>1, <1>6, <1>7, <2>1, <2>2 DEF Ends, f
<1> QED BY <1>8, <1>9, <1>10

-----------------------------------------------------------------------------
(* Types, proved *)

\* The steps of one flow keep the types.
LEMMA FlowStepKeepsRegInv ==
  ASSUME RegInv, NEW p \in Procs,
         \/ \E d \in Devices, kind \in {"register", "unregister"} : Begins(p, d, kind)
         \/ \E g : GoesOn(p, g)
         \/ Ends(p)
  PROVE  RegInv'
<1>1. CASE \E d \in Devices, kind \in {"register", "unregister"} : Begins(p, d, kind)
  <2>1. PICK d \in Devices, kind \in {"register", "unregister"} : Begins(p, d, kind)
    BY <1>1
  <2>2. NewFlow(d, kind) \in Flow /\ NewFlow(d, kind).tries = 0
    BY NewFlowType
  <2>3. flow' \in [Procs -> Flow \union {Idle}]
    BY <2>1, <2>2 DEF Begins, RegInv
  <2>4. \A q \in Procs : Active(q)' /\ flow'[q].pc = "challenge" => flow'[q].tries = 0
    BY <2>1, <2>2 DEF Begins, RegInv, Active
  <2>5. disturbed' \in [Devices -> BOOLEAN]
    <3>1. (resetting \/ ~Quiet(d)) \in BOOLEAN
      OBVIOUS
    <3> QED BY <2>1, <3>1 DEF Begins, RegInv
  <2>6. device' \in [Devices -> States]
    BY <2>1 DEF Begins, RegInv
  <2> QED BY <2>1, <2>3, <2>4, <2>5, <2>6 DEF Begins, RegInv
<1>2. CASE \E g : GoesOn(p, g)
  <2>1. PICK g : GoesOn(p, g)
    BY <1>2
  <2>2. flow' \in [Procs -> Flow \union {Idle}]
    BY <2>1 DEF GoesOn, RegInv
  <2>3. \A q \in Procs : Active(q)' /\ flow'[q].pc = "challenge" => flow'[q].tries = 0
    BY <2>1 DEF GoesOn, RegInv, Active
  <2>4. registrations' \in SUBSET Devices
    BY <2>1 DEF GoesOn, RegInv, Book, Flow
  <2> QED BY <2>1, <2>2, <2>3, <2>4 DEF GoesOn, RegInv
<1>3. CASE Ends(p)
  <2>1. flow' \in [Procs -> Flow \union {Idle}]
    BY <1>3 DEF Ends, RegInv
  <2>2. \A q \in Procs : Active(q)' /\ flow'[q].pc = "challenge" => flow'[q].tries = 0
    BY <1>3 DEF Ends, RegInv, Active
  <2>3. device' \in [Devices -> States]
    BY <1>3 DEF Ends, RegInv
  <2>4. strays' \in SUBSET Strays
    BY <1>3 DEF Ends, RegInv
  <2> QED BY <1>3, <2>1, <2>2, <2>3, <2>4 DEF Ends, RegInv
<1> QED BY <1>1, <1>2, <1>3

\* Every step of RegNext is one of a flow, of the loop, of a stray, of reset or of time.
FlowStep(p) ==
    \/ \E d \in Devices, kind \in {"register", "unregister"} : Begins(p, d, kind)
    \/ \E g : GoesOn(p, g)
    \/ Ends(p)

\* A step of RegNext in terms of FlowStep.
LEMMA NextByCases ==
  ASSUME RegInv, [RegNext]_regVars
  PROVE  \/ \E p \in Procs : FlowStep(p)
         \/ Poll
         \/ \E s \in strays : HandleStray(s) \/ LoseStray(s)
         \/ ResetSimulator \/ ResetRegistrar \/ Tick \/ UNCHANGED regVars
<1>1. ASSUME NEW p \in Tasks, NEW d \in Devices, StartRegister(p, d) \/ StartUnregister(p, d)
      PROVE  FlowStep(p) /\ p \in Procs
  BY <1>1, StartBegins DEF FlowStep, Procs
<1>2. ASSUME NEW d \in Devices, Refresh(d)
      PROVE  FlowStep(Maintenance) /\ Maintenance \in Procs
  <2>1. Maintenance \in Procs
    BY DEF Procs
  <2> QED BY <1>2, <2>1, StartBegins DEF FlowStep
<1>3. ASSUME NEW p \in Procs, Handle(p) \/ Lose(p) \/ SendCredentials(p)
      PROVE  FlowStep(p)
  BY <1>3, StepGoesOn DEF FlowStep
<1>4. ASSUME NEW p \in Procs, Succeed(p) \/ GiveUp(p) \/ TimeOut(p)
      PROVE  FlowStep(p)
  BY <1>4, LastStepEnds DEF FlowStep
<1> QED BY <1>1, <1>2, <1>3, <1>4 DEF RegNext

\* RegInv is inductive.
LEMMA NextKeepsRegInv == RegInv /\ [RegNext]_regVars => RegInv'
<1> SUFFICES ASSUME RegInv, [RegNext]_regVars PROVE RegInv'
  OBVIOUS
<1>1. ASSUME NEW p \in Procs, FlowStep(p) PROVE RegInv'
  BY <1>1, FlowStepKeepsRegInv DEF FlowStep
<1>2. CASE Poll
  <2>1. pass' \in Passes
    BY <1>2 DEF Poll, Passes
  <2> QED BY <1>2, <2>1 DEF Poll, RegInv, Active
<1>3. ASSUME NEW s \in strays, HandleStray(s) \/ LoseStray(s) PROVE RegInv'
  <2>1. registrations' \in SUBSET Devices
    BY <1>3 DEF HandleStray, LoseStray, Book, RegInv, Strays
  <2> QED BY <1>3, <2>1 DEF HandleStray, LoseStray, RegInv, Active
<1>4. CASE ResetSimulator
  <2>1. device' \in [Devices -> States]
    <3>1. Fresh \in States
      BY RegistrationAssumption DEF RegistrationAssumption, Fresh, States, Statuses
    <3> QED BY <1>4, <3>1 DEF ResetSimulator
  <2>2. pass' \in Passes
    BY <1>4 DEF ResetSimulator, RegInv, Passes
  <2>3. ASSUME NEW p \in Procs
        PROVE  /\ flow'[p] \in Flow \union {Idle}
               /\ Active(p)' /\ flow'[p].pc = "challenge" => flow'[p].tries = 0
    <3>1. CASE ~Active(p)
      BY <1>4, <3>1 DEF ResetSimulator, Active
    <3>2. CASE Active(p)
      <4> DEFINE g == [flow[p] EXCEPT !.orphan = TRUE]
      <4>1. flow'[p] = g
        BY <1>4, <3>2 DEF ResetSimulator
      <4>2. g \in Flow /\ g.pc = flow[p].pc /\ g.tries = flow[p].tries
        BY <3>2, ActiveIsFlow, OrphanUpdate DEF RegInv
      <4> HIDE DEF g
      <4> QED BY <3>2, <4>1, <4>2 DEF RegInv
    <3> QED BY <3>1, <3>2
  <2>4. flow' \in [Procs -> Flow \union {Idle}]
    BY <1>4, <2>3 DEF ResetSimulator
  <2>5. disturbed' \in [Devices -> BOOLEAN] /\ resetting' \in BOOLEAN
    BY <1>4 DEF ResetSimulator
  <2> QED BY <1>4, <2>1, <2>2, <2>3, <2>4, <2>5 DEF ResetSimulator, RegInv
<1>5. CASE ResetRegistrar
  <2>1. 0 \in 0..NonceTTL
    BY RegistrationAssumption DEF RegistrationAssumption
  <2>2. ASSUME NEW p \in Procs
        PROVE  /\ flow'[p] \in Flow \union {Idle}
               /\ Active(p)' /\ flow'[p].pc = "challenge" => flow'[p].tries = 0
    <3>1. CASE ~Active(p)
      BY <1>5, <3>1 DEF ResetRegistrar, Active
    <3>2. CASE Active(p)
      <4> DEFINE g == [flow[p] EXCEPT !.life = 0]
      <4>1. flow'[p] = g
        BY <1>5, <3>2 DEF ResetRegistrar
      <4>2. Continues(flow[p], g)
        BY <2>1, <3>2, ActiveIsFlow, LifeUpdate DEF RegInv
      <4> HIDE DEF g
      <4> QED BY <3>2, <4>1, <4>2 DEF RegInv, Continues
    <3> QED BY <3>1, <3>2
  <2>3. flow' \in [Procs -> Flow \union {Idle}]
    BY <1>5, <2>2 DEF ResetRegistrar
  <2>4. disturbed' \in [Devices -> BOOLEAN] /\ resetting' \in BOOLEAN
    BY <1>5 DEF ResetRegistrar
  <2>5. strays' \in SUBSET Strays /\ registrations' \in SUBSET Devices
    BY <1>5 DEF ResetRegistrar
  <2> QED BY <1>5, <2>2, <2>3, <2>4, <2>5 DEF ResetRegistrar, RegInv
<1>6. CASE Tick
  <2>1. device' \in [Devices -> States]
    <3>1. ASSUME NEW d \in Devices PROVE [device[d] EXCEPT !.left = Less(@)] \in States
      <4>1. device[d] \in States
        BY DEF RegInv
      <4>2. Less(device[d].left) \in 0..Expires
        BY <4>1, RegistrationAssumption DEF RegistrationAssumption, States, Less
      <4> QED BY <4>1, <4>2 DEF States
    <3> QED BY <1>6, <3>1 DEF Tick
  <2>2. ASSUME NEW p \in Procs
        PROVE  /\ flow'[p] \in Flow \union {Idle}
               /\ Active(p)' /\ flow'[p].pc = "challenge" => flow'[p].tries = 0
    <3>1. CASE ~Active(p)
      BY <1>6, <3>1 DEF Tick, Active
    <3>2. CASE Active(p)
      <4> DEFINE g == [flow[p] EXCEPT !.wait = @ - 1, !.life = Less(@)]
      <4>1. flow'[p] = g
        BY <1>6, <3>2 DEF Tick
      <4>2. Continues(flow[p], g)
        BY <1>6, <3>2, ActiveIsFlow, ClockUpdate DEF RegInv, Tick
      <4> HIDE DEF g
      <4> QED BY <3>2, <4>1, <4>2 DEF RegInv, Continues
    <3> QED BY <3>1, <3>2
  <2>3. flow' \in [Procs -> Flow \union {Idle}]
    BY <1>6, <2>2 DEF Tick
  <2>4. strays' \in SUBSET Strays
    <3>1. ASSUME NEW s \in Strays, s.life > 1 PROVE [s EXCEPT !.life = @ - 1] \in Strays
      BY <3>1, RegistrationAssumption DEF RegistrationAssumption, Strays
    <3> QED BY <1>6, <3>1 DEF Tick, RegInv
  <2> QED BY <1>6, <2>1, <2>2, <2>3, <2>4 DEF Tick, RegInv
<1>7. CASE UNCHANGED regVars
  BY <1>7 DEF regVars, RegInv, Active
<1> QED BY <1>1, <1>2, <1>3, <1>4, <1>5, <1>6, <1>7, NextByCases

\* RegInv holds at the start.
LEMMA InitHasRegInv == RegInit => RegInv
<1> SUFFICES ASSUME RegInit PROVE RegInv
  OBVIOUS
<1>1. Fresh \in States
  BY RegistrationAssumption DEF RegistrationAssumption, Fresh, States, Statuses
<1>2. pass \in Passes
  BY DEF RegInit, Passes
<1> QED BY <1>1, <1>2 DEF RegInit, RegInv, Active

\* The types, for any devices, tasks, times and number of tries: no flow sends
\* credentials more often than it may, and no clock leaves its range.
THEOREM RegTypeCorrect == RegSpec => []RegTypeOK
<1>1. RegInv => RegTypeOK
  BY DEF RegInv, RegTypeOK, States, Strays, Passes
<1> QED BY <1>1, InitHasRegInv, NextKeepsRegInv, PTL DEF RegSpec

-----------------------------------------------------------------------------
(* A transient status has its flow *)

\* What a step of the clock or of the registrar's reset leaves of a flow.
KeepsFlows ==
    \A p \in Procs :
        /\ Active(p)' <=> Active(p)
        /\ Active(p) => /\ flow'[p].d = flow[p].d /\ flow'[p].kind = flow[p].kind
                        /\ flow'[p].orphan = flow[p].orphan
                        /\ flow'[p].link = flow[p].link

\* The clock, the loop, the strays and the registrar's reset keep the flows.
LEMMA OthersKeepFlows ==
  ASSUME RegInv,
         \/ Poll \/ ResetRegistrar \/ Tick \/ UNCHANGED flow
  PROVE  KeepsFlows
<1>1. CASE Poll \/ UNCHANGED flow
  BY <1>1 DEF Poll, KeepsFlows, Active
<1>2. CASE ResetRegistrar
  <2>1. 0 \in 0..NonceTTL
    BY RegistrationAssumption DEF RegistrationAssumption
  <2>2. ASSUME NEW p \in Procs, Active(p)
        PROVE  /\ Active(p)' /\ flow'[p].d = flow[p].d /\ flow'[p].kind = flow[p].kind
               /\ flow'[p].orphan = flow[p].orphan /\ flow'[p].link = flow[p].link
    <3> DEFINE g == [flow[p] EXCEPT !.life = 0]
    <3>1. flow'[p] = g
      BY <1>2, <2>2 DEF ResetRegistrar
    <3>2. Continues(flow[p], g) /\ g.link = flow[p].link
      BY <2>1, <2>2, ActiveIsFlow, LifeUpdate DEF RegInv
    <3> HIDE DEF g
    <3> QED BY <3>1, <3>2, FlowIsActive DEF Continues, Active
  <2>3. ASSUME NEW p \in Procs, ~Active(p) PROVE ~Active(p)'
    BY <1>2, <2>3 DEF ResetRegistrar, Active
  <2> QED BY <2>2, <2>3 DEF KeepsFlows
<1>3. CASE Tick
  <2>1. ASSUME NEW p \in Procs, Active(p)
        PROVE  /\ Active(p)' /\ flow'[p].d = flow[p].d /\ flow'[p].kind = flow[p].kind
               /\ flow'[p].orphan = flow[p].orphan /\ flow'[p].link = flow[p].link
    <3> DEFINE g == [flow[p] EXCEPT !.wait = @ - 1, !.life = Less(@)]
    <3>1. flow'[p] = g
      BY <1>3, <2>1 DEF Tick
    <3>2. Continues(flow[p], g) /\ g.link = flow[p].link
      BY <1>3, <2>1, ActiveIsFlow, ClockUpdate DEF RegInv, Tick
    <3> HIDE DEF g
    <3> QED BY <3>1, <3>2, FlowIsActive DEF Continues, Active
  <2>2. ASSUME NEW p \in Procs, ~Active(p) PROVE ~Active(p)'
    BY <1>3, <2>2 DEF Tick, Active
  <2> QED BY <2>1, <2>2 DEF KeepsFlows
<1> QED BY <1>1, <1>2, <1>3

\* A transient status is backed by a flow that will end it: the flow a process
\* is in when it sets one does not become an orphan unless reset replaces the
\* status, too, and does not end without setting another one.
THEOREM BusyHasItsFlow == RegSpec => []BusyHasFlow
<1> DEFINE Busy(d) == device[d].status \in {"REGISTERING", "UNREGISTERING"}
           Backs(p, d) == Active(p) /\ flow[p].d = d /\ ~flow[p].orphan
           Inv == \A d \in Devices : Busy(d) => \E p \in Procs : Backs(p, d)
<1>1. RegInit => Inv
  BY DEF RegInit, Fresh
<1>2. RegInv /\ Inv /\ [RegNext]_regVars => Inv'
  <2> SUFFICES ASSUME RegInv, Inv, [RegNext]_regVars PROVE Inv'
    OBVIOUS
  <2>1. ASSUME NEW p \in Procs, NEW d \in Devices, NEW kind \in {"register", "unregister"},
               Begins(p, d, kind)
        PROVE  Inv'
    <3>1. flow'[p] = NewFlow(d, kind) /\ \A q \in Procs \ {p} : flow'[q] = flow[q]
      BY <2>1 DEF Begins, RegInv
    <3>2. Backs(p, d)'
      BY <3>1, NewFlowType DEF Active
    <3>3. ASSUME NEW e \in Devices, e # d, Busy(e)' PROVE \E q \in Procs : Backs(q, e)'
      <4>1. Busy(e)
        BY <2>1, <3>3 DEF Begins, RegInv
      <4>2. PICK q \in Procs : Backs(q, e)
        BY <4>1
      <4>3. q # p
        BY <2>1, <4>2 DEF Begins
      <4> QED BY <3>1, <4>2, <4>3 DEF Active
    <3> QED BY <3>2, <3>3
  <2>2. ASSUME NEW p \in Procs, NEW g, GoesOn(p, g) PROVE Inv'
    <3>1. flow'[p] = g /\ \A q \in Procs \ {p} : flow'[q] = flow[q]
      BY <2>2 DEF GoesOn, RegInv
    <3>2. ASSUME NEW q \in Procs, NEW e \in Devices, Backs(q, e) PROVE Backs(q, e)'
      BY <2>2, <3>1, <3>2, FlowIsActive DEF GoesOn, Active
    <3>3. UNCHANGED device
      BY <2>2 DEF GoesOn
    <3> QED BY <3>2, <3>3
  <2>3. ASSUME NEW p \in Procs, Ends(p) PROVE Inv'
    <3>1. \A q \in Procs \ {p} : flow'[q] = flow[q]
      BY <2>3 DEF Ends, RegInv
    <3>2. ASSUME NEW e \in Devices, e = flow[p].d, ~flow[p].orphan PROVE ~Busy(e)'
      <4>1. PICK view \in States :
              /\ view.status \in {"REGISTER_FAILED", "REGISTERED", "UNREGISTERED"}
              /\ device' = [device EXCEPT ![flow[p].d] = view]
        BY <2>3, <3>2 DEF Ends
      <4>2. device'[e].status = view.status
        BY <3>2, <4>1 DEF RegInv
      <4> QED BY <4>1, <4>2
    <3>3. ASSUME NEW e \in Devices, Busy(e)' PROVE \E q \in Procs : Backs(q, e)'
      <4>1. Busy(e) /\ (e = flow[p].d => flow[p].orphan)
        BY <2>3, <3>2, <3>3 DEF Ends, RegInv
      <4>2. PICK q \in Procs : Backs(q, e)
        BY <4>1
      <4>3. q # p
        BY <4>1, <4>2
      <4> QED BY <3>1, <4>2, <4>3 DEF Active
    <3> QED BY <3>3
  <2>4. CASE ResetSimulator
    BY <2>4 DEF ResetSimulator, Fresh
  <2>5. CASE Poll \/ ResetRegistrar \/ UNCHANGED regVars
              \/ \E s \in strays : HandleStray(s) \/ LoseStray(s)
    <3>1. KeepsFlows /\ UNCHANGED device
      BY <2>5, OthersKeepFlows
      DEF Poll, ResetRegistrar, HandleStray, LoseStray, regVars
    <3> QED BY <3>1 DEF KeepsFlows
  <2>6. CASE Tick
    <3>1. KeepsFlows
      BY <2>6, OthersKeepFlows
    <3>2. ASSUME NEW d \in Devices PROVE device'[d].status = device[d].status
      <4>1. device[d] \in States
        BY DEF RegInv
      <4> QED BY <2>6, <4>1 DEF Tick, States
    <3> QED BY <3>1, <3>2 DEF KeepsFlows
  <2>7. ASSUME NEW p \in Procs, FlowStep(p) PROVE Inv'
    BY <2>1, <2>2, <2>3, <2>7 DEF FlowStep
  <2> HIDE DEF Inv
  <2> QED BY <2>4, <2>5, <2>6, <2>7, NextByCases
<1>3. Inv => BusyHasFlow
  BY DEF BusyHasFlow, FlowsOf
<1> HIDE DEF Inv
<1> QED BY <1>1, <1>2, <1>3, InitHasRegInv, NextKeepsRegInv, PTL DEF RegSpec

-----------------------------------------------------------------------------
(* A flow that nothing disturbs leaves both sides agreed *)

Of(p, d) == Active(p) /\ flow[p].d = d

\* LoneFlowAgrees is not inductive: it needs that an undisturbed flow is the only
\* one of its device, that its 200 came with the change of the table, and that a
\* request without its flow means that the flow has failed.
AgreeInv(d) ==
    ~disturbed[d] =>
        /\ \A p, q \in Procs : Of(p, d) /\ Of(q, d) => p = q
        /\ \A p \in Procs : Of(p, d) =>
             /\ ~flow[p].orphan /\ StraysOf(d) = {}
             /\ flow[p].link = "200" => (d \in registrations <=> flow[p].kind = "register")
        /\ StraysOf(d) # {} => device[d].status = "REGISTER_FAILED"
        /\ (\A p \in Procs : ~Of(p, d)) =>
             /\ device[d].status = "REGISTERED" => d \in registrations
             /\ device[d].status = "UNREGISTERED" => d \notin registrations

\* A step that touches nothing of d keeps AgreeInv.
LEMMA AgreeFrame ==
  ASSUME NEW d \in Devices, AgreeInv(d),
         disturbed'[d] = disturbed[d] \/ disturbed'[d] = TRUE,
         \A p \in Procs : Of(p, d)' <=> Of(p, d),
         \A p \in Procs : Of(p, d) => /\ flow'[p].orphan = flow[p].orphan
                                      /\ flow'[p].kind = flow[p].kind
                                      /\ flow'[p].link = flow[p].link,
         StraysOf(d) = {} => StraysOf(d)' = {},
         d \in registrations' <=> d \in registrations,
         device'[d].status = device[d].status
  PROVE  AgreeInv(d)'
<1>1. CASE disturbed'[d]
  BY <1>1 DEF AgreeInv
<1>2. CASE ~disturbed'[d]
  <2>1. ~disturbed[d]
    BY <1>2
  <2> QED BY <2>1 DEF AgreeInv
<1> QED BY <1>1, <1>2

\* The steps of the flows of one device leave the others alone.
LEMMA FlowStepAgrees ==
  ASSUME RegInv, NEW p \in Procs, FlowStep(p), NEW d \in Devices, AgreeInv(d)
  PROVE  AgreeInv(d)'
<1>1. ASSUME NEW e \in Devices, NEW kind \in {"register", "unregister"}, Begins(p, e, kind)
      PROVE  AgreeInv(d)'
  <2>1. flow'[p] = NewFlow(e, kind) /\ \A q \in Procs \ {p} : flow'[q] = flow[q]
    BY <1>1 DEF Begins, RegInv
  <2>2. Of(p, e)' /\ ~flow'[p].orphan /\ flow'[p].link # "200" /\ ~Of(p, d)
    BY <1>1, <2>1, NewFlowType DEF Of, Active, Begins
  <2>3. \A q \in Procs \ {p} : Of(q, d)' <=> Of(q, d)
    BY <2>1 DEF Of, Active
  <2>4. CASE d # e
    <3>1. ~Of(p, d)'
      BY <2>1, <2>4, NewFlowType DEF Of
    <3>2. device'[d] = device[d] /\ disturbed'[d] = disturbed[d]
      BY <1>1, <2>4 DEF Begins, RegInv
    <3>3. UNCHANGED <<strays, registrations>>
      BY <1>1 DEF Begins
    <3>4. StraysOf(d)' = StraysOf(d)
      BY <3>3 DEF StraysOf
    <3>5. \A q \in Procs : Of(q, d)' <=> Of(q, d)
      BY <2>2, <2>3, <3>1
    <3>6. \A q \in Procs : Of(q, d) => flow'[q] = flow[q]
      BY <2>1, <2>2
    <3> QED BY <3>2, <3>3, <3>4, <3>5, <3>6, AgreeFrame
  <2>5. CASE d = e
    <3>1. disturbed'[d] = (resetting \/ ~Quiet(d))
      BY <1>1, <2>5 DEF Begins, RegInv
    <3>2. CASE resetting \/ ~Quiet(d)
      BY <3>1, <3>2 DEF AgreeInv
    <3>3. CASE ~(resetting \/ ~Quiet(d))
      <4>1. \A q \in Procs : ~Of(q, d)
        BY <3>3 DEF Quiet, FlowsOf, Of
      <4>2. \A q \in Procs : Of(q, d)' <=> q = p
        BY <2>2, <2>3, <2>5, <4>1
      <4>3. StraysOf(d)' = {}
        BY <1>1, <3>3 DEF Begins, Quiet, StraysOf
      <4> QED BY <2>2, <4>2, <4>3 DEF AgreeInv
    <3> QED BY <3>2, <3>3
  <2> QED BY <2>4, <2>5
<1>2. ASSUME NEW g, GoesOn(p, g) PROVE AgreeInv(d)'
  <2>1. flow'[p] = g /\ (\A q \in Procs \ {p} : flow'[q] = flow[q]) /\ g # Idle
    BY <1>2, FlowIsActive DEF GoesOn, RegInv
  <2>2. \A q \in Procs : Of(q, d)' <=> Of(q, d)
    BY <1>2, <2>1 DEF Of, Active, GoesOn
  <2>3. UNCHANGED <<device, strays, disturbed>>
    BY <1>2 DEF GoesOn
  <2>4. StraysOf(d)' = StraysOf(d)
    BY <2>3 DEF StraysOf
  <2>5. g.orphan = flow[p].orphan /\ g.kind = flow[p].kind /\ g.d = flow[p].d
        /\ g.kind \in {"register", "unregister"} /\ Active(p)
    BY <1>2 DEF GoesOn, Flow
  <2>6. CASE ~Of(p, d)
    <3>1. g.d # d
      BY <2>5, <2>6 DEF Of
    <3>2. d \in registrations' <=> d \in registrations
      BY <1>2, <3>1 DEF GoesOn, Book
    <3>3. \A q \in Procs : Of(q, d) => flow'[q] = flow[q]
      BY <2>1, <2>6
    <3> QED BY <2>2, <2>3, <2>4, <3>2, <3>3, AgreeFrame
  <2>7. CASE Of(p, d)
    <3>1. CASE disturbed[d]
      BY <2>3, <3>1 DEF AgreeInv
    <3>2. CASE ~disturbed[d]
      <4>1. \A q \in Procs : Of(q, d) => q = p
        BY <2>7, <3>2 DEF AgreeInv
      <4>2. ~flow[p].orphan /\ StraysOf(d) = {}
        BY <2>7, <3>2 DEF AgreeInv
      <4>3. g.link = "200" => (d \in registrations' <=> g.kind = "register")
        BY <1>2, <2>5, <2>7 DEF GoesOn, Book, Of
      <4> QED BY <2>1, <2>2, <2>4, <2>5, <2>7, <4>1, <4>2, <4>3 DEF AgreeInv
    <3> QED BY <3>1, <3>2
  <2> QED BY <2>6, <2>7
<1>3. CASE Ends(p)
  <2>1. flow'[p] = Idle /\ (\A q \in Procs \ {p} : flow'[q] = flow[q]) /\ Active(p)
    BY <1>3 DEF Ends, RegInv
  <2>2. ~Of(p, d)' /\ \A q \in Procs \ {p} : Of(q, d)' <=> Of(q, d)
    BY <2>1 DEF Of, Active
  <2>3. UNCHANGED <<registrations, disturbed>>
    BY <1>3 DEF Ends
  <2>4. CASE ~Of(p, d)
    <3>1. flow[p].d # d
      BY <2>1, <2>4 DEF Of
    <3>2. StraysOf(d)' = StraysOf(d)
      BY <1>3, <3>1 DEF Ends, StraysOf
    <3>3. device'[d] = device[d]
      BY <1>3, <3>1 DEF Ends, RegInv
    <3>4. \A q \in Procs : Of(q, d)' <=> Of(q, d)
      BY <2>2, <2>4
    <3>5. \A q \in Procs : Of(q, d) => flow'[q] = flow[q]
      BY <2>1, <2>4
    <3> QED BY <2>3, <3>2, <3>3, <3>4, <3>5, AgreeFrame
  <2>5. CASE Of(p, d)
    <3>1. CASE disturbed[d]
      BY <2>3, <3>1 DEF AgreeInv
    <3>2. CASE ~disturbed[d]
      <4>1. \A q \in Procs : ~Of(q, d)'
        BY <2>2, <2>5, <3>2 DEF AgreeInv
      <4>2. /\ ~flow[p].orphan /\ StraysOf(d) = {}
            /\ flow[p].link = "200" => (d \in registrations <=> flow[p].kind = "register")
        BY <2>5, <3>2 DEF AgreeInv
      <4>3. PICK view \in States :
              /\ \/ view.status = "REGISTER_FAILED"
                 \/ /\ flow[p].link = "200" /\ UNCHANGED strays
                    /\ view.status = IF flow[p].kind = "register" THEN "REGISTERED"
                                                                  ELSE "UNREGISTERED"
              /\ device' = [device EXCEPT ![flow[p].d] = view]
        BY <1>3, <4>2 DEF Ends
      <4>4. device'[d] = view
        BY <2>5, <4>3 DEF Of, RegInv
      <4>5. StraysOf(d)' # {} => view.status = "REGISTER_FAILED"
        BY <4>2, <4>3 DEF StraysOf
      <4>6. /\ view.status = "REGISTERED" => d \in registrations
            /\ view.status = "UNREGISTERED" => d \notin registrations
        BY <4>2, <4>3
      <4> QED BY <2>3, <4>1, <4>4, <4>5, <4>6 DEF AgreeInv
    <3> QED BY <3>1, <3>2
  <2> QED BY <2>4, <2>5
<1> QED BY <1>1, <1>2, <1>3 DEF FlowStep

\* A device and the registrar agree once a flow that nothing disturbed has ended,
\* whatever is lost, late, stale or refused on its way, and whatever the flows of
\* other devices and earlier resets did.
THEOREM LoneFlowsAgree == RegSpec => []LoneFlowAgrees
<1> DEFINE Inv == \A d \in Devices : AgreeInv(d)
<1>1. RegInit => Inv
  BY DEF RegInit, AgreeInv, Of, Active, StraysOf, Fresh
<1>2. RegInv /\ Inv /\ [RegNext]_regVars => Inv'
  <2> SUFFICES ASSUME RegInv, Inv, [RegNext]_regVars, NEW d \in Devices
               PROVE  AgreeInv(d)'
    OBVIOUS
  <2>1. AgreeInv(d)
    OBVIOUS
  <2> HIDE DEF Inv
  <2>2. ASSUME NEW p \in Procs, FlowStep(p) PROVE AgreeInv(d)'
    BY <2>1, <2>2, FlowStepAgrees
  <2>3. ASSUME KeepsFlows
        PROVE  /\ \A p \in Procs : Of(p, d)' <=> Of(p, d)
               /\ \A p \in Procs : Of(p, d) => /\ flow'[p].orphan = flow[p].orphan
                                               /\ flow'[p].kind = flow[p].kind
                                               /\ flow'[p].link = flow[p].link
    BY <2>3 DEF KeepsFlows, Of
  <2>4. CASE Poll \/ UNCHANGED regVars
    <3>1. KeepsFlows /\ UNCHANGED <<device, strays, registrations, disturbed>>
      BY <2>4, OthersKeepFlows DEF Poll, regVars
    <3>2. StraysOf(d)' = StraysOf(d)
      BY <3>1 DEF StraysOf
    <3> QED BY <2>1, <2>3, <3>1, <3>2, AgreeFrame
  <2>5. ASSUME NEW s \in strays, HandleStray(s) \/ LoseStray(s) PROVE AgreeInv(d)'
    <3>1. UNCHANGED <<device, flow, disturbed>> /\ strays' = strays \ {s}
      BY <2>5 DEF HandleStray, LoseStray
    <3>2. KeepsFlows
      BY <3>1, OthersKeepFlows
    <3>3. StraysOf(d)' \subseteq StraysOf(d)
      BY <3>1 DEF StraysOf
    <3>4. CASE s.d # d
      <4>1. d \in registrations' <=> d \in registrations
        BY <2>5, <3>4 DEF HandleStray, LoseStray, Book
      <4> QED BY <2>1, <2>3, <3>1, <3>2, <3>3, <4>1, AgreeFrame
    <3>5. CASE s.d = d
      <4>1. StraysOf(d) # {}
        BY <3>5 DEF StraysOf
      <4>2. ~disturbed[d] => /\ \A p \in Procs : ~Of(p, d)
                             /\ device[d].status = "REGISTER_FAILED"
        BY <2>1, <4>1 DEF AgreeInv
      <4>3. ~disturbed'[d] => /\ \A p \in Procs : ~Of(p, d)'
                              /\ device'[d].status = "REGISTER_FAILED"
        BY <2>3, <3>1, <3>2, <4>2
      <4> QED BY <4>3 DEF AgreeInv
    <3> QED BY <3>4, <3>5
  <2>6. CASE ResetSimulator
    <3>1. disturbed'[d]
      BY <2>6 DEF ResetSimulator
    <3> QED BY <3>1 DEF AgreeInv
  <2>7. CASE ResetRegistrar
    <3>1. ~disturbed'[d] => Quiet(d) /\ device[d] = Fresh
      BY <2>7 DEF ResetRegistrar
    <3>2. CASE disturbed'[d]
      BY <3>2 DEF AgreeInv
    <3>3. CASE ~disturbed'[d]
      <4>1. \A p \in Procs : ~Of(p, d)
        BY <3>1, <3>3 DEF Quiet, FlowsOf, Of
      <4>2. \A p \in Procs : ~Of(p, d)'
        BY <2>3, <2>7, <4>1, OthersKeepFlows
      <4>3. StraysOf(d)' = {} /\ d \notin registrations'
        BY <2>7 DEF ResetRegistrar, StraysOf
      <4>4. device'[d].status = "UNREGISTERED"
        BY <2>7, <3>1, <3>3 DEF ResetRegistrar, Fresh
      <4> QED BY <4>2, <4>3, <4>4 DEF AgreeInv
    <3> QED BY <3>2, <3>3
  <2>8. CASE Tick
    <3>1. KeepsFlows /\ UNCHANGED <<registrations, disturbed>>
      BY <2>8, OthersKeepFlows DEF Tick
    <3>2. device'[d].status = device[d].status
      <4>1. device[d] \in States
        BY DEF RegInv
      <4> QED BY <2>8, <4>1 DEF Tick, States
    <3>3. StraysOf(d) = {} => StraysOf(d)' = {}
      <4>1. ASSUME NEW s \in Strays PROVE [s EXCEPT !.life = @ - 1].d = s.d
        BY DEF Strays
      <4>2. ASSUME NEW s \in strays' PROVE \E t \in strays : s.d = t.d
        <5>1. PICK t \in strays : s = [t EXCEPT !.life = @ - 1]
          BY <2>8 DEF Tick
        <5> QED BY <4>1, <5>1 DEF RegInv
      <4> QED BY <4>2 DEF StraysOf
    <3> QED BY <2>1, <2>3, <3>1, <3>2, <3>3, AgreeFrame
  <2> QED BY <2>2, <2>4, <2>5, <2>6, <2>7, <2>8, NextByCases
<1>3. Inv => LoneFlowAgrees
  BY DEF AgreeInv, LoneFlowAgrees, Quiet, FlowsOf, Of
<1> HIDE DEF Inv
<1> QED BY <1>1, <1>2, <1>3, InitHasRegInv, NextKeepsRegInv, PTL DEF RegSpec

-----------------------------------------------------------------------------
(* Refreshed in time *)

\* How long a register flow can take: one wait, and one more for each try.
Longest == (MaxTries + 1) * Timeout

\* How long the loop takes at most to refresh the devices of S.
Work(S) == Cardinality(S) * Longest

\* The margin is longer than the flows of all other devices, and a registration
\* lives for the margin and a whole round.
EnoughTime ==
    /\ IsFiniteSet(Devices)
    /\ Margin + Longest > Work(Devices)
    /\ Expires > Margin + Work(Devices)

\* How long flow f can go on, how long the flow of the loop can, and the rest of
\* the pass with it.
RestOf(f) == f.wait + (MaxTries - f.tries) * Timeout

Rest == IF Active(Maintenance) THEN RestOf(flow[Maintenance]) ELSE 0

Ahead == Rest + Work(pass.todo)

\* A registered device does not become due before this pass is over, or it is
\* due and its flow will begin in time, or it became due during this pass with
\* enough time for the next one, to which the loop will take the devices of U.
InTime(d, U) ==
    \/ device[d].left > Margin + Ahead
    \/ d \in pass.todo /\ ~pass.orphan /\ device[d].left + Longest > Ahead
    \/ d \in U /\ device[d].left + Longest > Ahead + Work(U)

\* RefreshedInTime is not inductive: it needs the time that the rest of the pass
\* and the next one can take.
RoundInv ==
    /\ Active(Maintenance) => flow[Maintenance].d \notin pass.todo
    /\ \E U \in SUBSET Devices :
         /\ U \cap pass.todo = {}
         /\ \A d \in Devices : device[d].registered => InTime(d, U)

\* The longest flow takes some time.
LEMMA LongestType == Longest \in Nat /\ Longest > 0 /\ Longest = MaxTries * Timeout + Timeout
<1>1. MaxTries \in Nat /\ Timeout \in Nat /\ Timeout > 0
  BY RegistrationAssumption DEF RegistrationAssumption
<1>2. MaxTries * Timeout \in Nat
  BY <1>1
<1>3. (MaxTries + 1) * Timeout = MaxTries * Timeout + Timeout
  BY <1>1
<1> QED BY <1>1, <1>2, <1>3 DEF Longest

\* The work for sets of devices adds up.
LEMMA WorkAddsUp ==
  ASSUME IsFiniteSet(Devices), NEW S \in SUBSET Devices, NEW T \in SUBSET Devices
  PROVE  /\ Work(S) \in Nat
         /\ S = {} => Work(S) = 0
         /\ S \subseteq T => Work(T) = Work(S) + Work(T \ S)
         /\ \A d \in S : Work(S) = Work(S \ {d}) + Longest
<1>1. Longest \in Nat
  BY LongestType
<1>2. ASSUME NEW A \in SUBSET Devices
      PROVE  IsFiniteSet(A) /\ Cardinality(A) \in Nat
  BY FS_Subset, FS_CardinalityType
<1>3. ASSUME NEW m \in Nat, NEW n \in Nat
      PROVE  m * Longest \in Nat /\ (m + n) * Longest = m * Longest + n * Longest
  BY <1>1
<1>4. Work(S) \in Nat
  BY <1>2, <1>3 DEF Work
<1>5. ASSUME S = {} PROVE Work(S) = 0
  <2>1. Cardinality(S) = 0
    BY <1>5, FS_EmptySet
  <2> QED BY <1>1, <2>1 DEF Work
<1>6. ASSUME S \subseteq T PROVE Work(T) = Work(S) + Work(T \ S)
  <2>1. T \cap S = S
    BY <1>6
  <2>2. Cardinality(T \ S) = Cardinality(T) - Cardinality(S)
    BY <1>2, <2>1, FS_Difference
  <2>3. Cardinality(T) = Cardinality(S) + Cardinality(T \ S)
        /\ Cardinality(S) \in Nat /\ Cardinality(T \ S) \in Nat
    BY <1>2, <2>2
  <2> QED BY <1>3, <2>3 DEF Work
<1>7. ASSUME NEW d \in S PROVE Work(S) = Work(S \ {d}) + Longest
  <2>1. Cardinality(S) = Cardinality(S \ {d}) + 1 /\ Cardinality(S \ {d}) \in Nat
    BY <1>2, FS_RemoveElement
  <2>2. 1 * Longest = Longest
    BY <1>1
  <2> QED BY <1>3, <2>1, <2>2 DEF Work
<1> QED BY <1>4, <1>5, <1>6, <1>7

\* Less devices are less work.
LEMMA WorkGrows ==
  ASSUME IsFiniteSet(Devices), NEW T \in SUBSET Devices, NEW S \in SUBSET T
  PROVE  Work(S) <= Work(T)
<1>1. Work(T) = Work(S) + Work(T \ S) /\ Work(S) \in Nat
  BY WorkAddsUp
<1>2. Work(T \ S) \in Nat
  <2>1. T \ S \in SUBSET Devices
    OBVIOUS
  <2> QED BY <2>1, WorkAddsUp
<1> QED BY <1>1, <1>2

\* What is left of a flow: all of it at the beginning, and less after a try.
LEMMA RestOfFlow ==
  ASSUME NEW f \in Flow
  PROVE  /\ RestOf(f) \in Nat /\ RestOf(f) <= Longest
         /\ (f.tries = 0 /\ f.wait = Timeout) => RestOf(f) = Longest
         /\ f.tries < MaxTries =>
              Timeout + (MaxTries - (f.tries + 1)) * Timeout <= RestOf(f)
<1>1. MaxTries \in Nat /\ Timeout \in Nat /\ f.tries \in 0..MaxTries /\ f.wait \in 0..Timeout
  BY RegistrationAssumption DEF RegistrationAssumption, Flow
<1>2. ASSUME NEW m \in Nat, NEW n \in Nat
      PROVE  m * Timeout \in Nat /\ (m + n) * Timeout = m * Timeout + n * Timeout
  BY <1>1
<1>3. PICK m \in Nat : m = MaxTries - f.tries
  BY <1>1
<1>4. /\ MaxTries = m + f.tries /\ f.tries \in Nat
  BY <1>1, <1>3
<1>5. m * Timeout \in Nat /\ f.tries * Timeout \in Nat
      /\ MaxTries * Timeout = m * Timeout + f.tries * Timeout
  BY <1>2, <1>4
<1>6. RestOf(f) = f.wait + m * Timeout
  BY <1>3 DEF RestOf
<1>7. RestOf(f) \in Nat /\ RestOf(f) <= Longest
  BY <1>1, <1>5, <1>6, LongestType
<1>8. ASSUME f.tries = 0, f.wait = Timeout PROVE RestOf(f) = Longest
  <2>1. m = MaxTries
    BY <1>1, <1>4, <1>8
  <2> QED BY <1>1, <1>5, <1>6, <1>8, <2>1, LongestType
<1>9. ASSUME f.tries < MaxTries
      PROVE  Timeout + (MaxTries - (f.tries + 1)) * Timeout <= RestOf(f)
  <2>1. PICK k \in Nat : k = MaxTries - (f.tries + 1)
    BY <1>1, <1>9
  <2>2. m = k + 1
    BY <1>1, <1>3, <2>1
  <2>3. m * Timeout = k * Timeout + 1 * Timeout /\ k * Timeout \in Nat
    BY <1>2, <2>2
  <2>4. 1 * Timeout = Timeout
    BY <1>1
  <2> QED BY <1>1, <1>6, <2>1, <2>3, <2>4
<1> QED BY <1>7, <1>8, <1>9

\* What lies ahead of the loop is never more than a round of all devices.
LEMMA AheadIsBounded ==
  ASSUME IsFiniteSet(Devices), RegInv,
         Active(Maintenance) => flow[Maintenance].d \notin pass.todo
  PROVE  /\ Rest \in Nat /\ Work(pass.todo) \in Nat /\ Ahead \in Nat
         /\ Ahead <= Work(Devices)
<1>1. pass.todo \in SUBSET Devices
  BY DEF RegInv, Passes
<1>2. Work(pass.todo) \in Nat /\ Work(pass.todo) <= Work(Devices) /\ Work(Devices) \in Nat
  BY <1>1, WorkAddsUp, WorkGrows
<1>3. CASE ~Active(Maintenance)
  BY <1>2, <1>3 DEF Ahead, Rest
<1>4. CASE Active(Maintenance)
  <2>1. flow[Maintenance] \in Flow /\ flow[Maintenance].d \in Devices
    BY <1>4, ActiveIsFlow DEF RegInv, Procs, Flow
  <2>2. RestOf(flow[Maintenance]) \in Nat /\ RestOf(flow[Maintenance]) <= Longest
    BY <2>1, RestOfFlow
  <2> DEFINE S == pass.todo \union {flow[Maintenance].d}
  <2>3. S \in SUBSET Devices /\ flow[Maintenance].d \in S
        /\ S \ {flow[Maintenance].d} = pass.todo
    BY <1>1, <1>4, <2>1
  <2>4. Work(S) = Work(pass.todo) + Longest
    <3> HIDE DEF S
    <3> QED BY <2>3, WorkAddsUp
  <2>5. Work(S) <= Work(Devices) /\ Work(S) \in Nat
    <3> HIDE DEF S
    <3> QED BY <2>3, WorkAddsUp, WorkGrows
  <2> HIDE DEF S
  <2> QED BY <1>2, <1>4, <2>2, <2>4, <2>5, LongestType DEF Ahead, Rest
<1> QED BY <1>3, <1>4

\* A step that leaves the pass alone, or takes devices from it, keeps the
\* invariant if every registered device has either a new registration or as much
\* time as before, counted against what lies ahead of the loop.
LEMMA RoundFrame ==
  ASSUME RoundInv, pass'.todo \subseteq pass.todo, pass'.orphan = pass.orphan,
         Active(Maintenance)' => flow'[Maintenance].d \notin pass'.todo,
         Ahead \in Nat, Ahead' \in Nat,
         \A d \in Devices : device[d].left \in Nat /\ device'[d].left \in Nat,
         \A d \in Devices : device'[d].registered =>
            \/ device'[d].left > Margin + Ahead'
            \/ /\ device[d].registered
               /\ d \in pass.todo /\ ~pass.orphan => d \in pass'.todo
               /\ device'[d].left + Ahead >= device[d].left + Ahead',
         IsFiniteSet(Devices)
  PROVE  RoundInv'
<1>1. PICK U \in SUBSET Devices :
        /\ U \cap pass.todo = {}
        /\ \A d \in Devices : device[d].registered => InTime(d, U)
  BY DEF RoundInv
<1>2. Work(U) \in Nat /\ Work(U)' = Work(U) /\ Longest \in Nat /\ Margin \in Nat
  BY WorkAddsUp, LongestType, RegistrationAssumption DEF RegistrationAssumption, Work
<1>3. ASSUME NEW d \in Devices, device'[d].registered PROVE InTime(d, U)'
  <2>1. CASE device'[d].left > Margin + Ahead'
    BY <2>1 DEF InTime
  <2>2. CASE /\ device[d].registered
             /\ d \in pass.todo /\ ~pass.orphan => d \in pass'.todo
             /\ device'[d].left + Ahead >= device[d].left + Ahead'
    <3>1. InTime(d, U)
      BY <1>1, <2>2
    <3>2. device[d].left \in Nat /\ device'[d].left \in Nat
      OBVIOUS
    <3>3. CASE device[d].left > Margin + Ahead
      <4>1. device'[d].left > Margin + Ahead'
        BY <1>2, <2>2, <3>2, <3>3
      <4> QED BY <4>1 DEF InTime
    <3>4. CASE d \in pass.todo /\ ~pass.orphan /\ device[d].left + Longest > Ahead
      <4>1. device'[d].left + Longest > Ahead'
        BY <1>2, <2>2, <3>2, <3>4
      <4> QED BY <2>2, <3>4, <4>1 DEF InTime
    <3>5. CASE d \in U /\ device[d].left + Longest > Ahead + Work(U)
      <4>1. device'[d].left + Longest > Ahead' + Work(U)
        BY <1>2, <2>2, <3>2, <3>5
      <4> QED BY <1>2, <3>5, <4>1 DEF InTime
    <3> QED BY <3>1, <3>3, <3>4, <3>5 DEF InTime
  <2> QED BY <1>3, <2>1, <2>2
<1>4. U \cap pass'.todo = {}
  BY <1>1
<1> QED BY <1>3, <1>4 DEF RoundInv

\* What the steps need to know of a state.
LEMMA RoundTypes ==
  ASSUME IsFiniteSet(Devices), RegInv, RoundInv
  PROVE  /\ Rest \in Nat /\ Work(pass.todo) \in Nat /\ Ahead \in Nat
         /\ Ahead <= Work(Devices) /\ Work(Devices) \in Nat
         /\ Longest \in Nat /\ Longest > 0 /\ Margin \in Nat /\ Expires \in Nat
         /\ pass.todo \in SUBSET Devices /\ pass.orphan \in BOOLEAN
         /\ Maintenance \in Procs
         /\ \A d \in Devices : device[d] \in States /\ device[d].left \in Nat
<1>1. pass.todo \in SUBSET Devices /\ pass.orphan \in BOOLEAN
  BY DEF RegInv, Passes
<1>2. \A d \in Devices : device[d] \in States /\ device[d].left \in Nat
  BY RegistrationAssumption DEF RegistrationAssumption, RegInv, States
<1>3. Active(Maintenance) => flow[Maintenance].d \notin pass.todo
  BY DEF RoundInv
<1>4. Work(Devices) \in Nat
  BY WorkAddsUp
<1> QED BY <1>1, <1>2, <1>3, <1>4, AheadIsBounded, LongestType, RegistrationAssumption
    DEF RegistrationAssumption, Procs

\* The loop starts no flow, and has not longer to go with the one it is in.
LoopGoesOn ==
    Active(Maintenance)' =>
        /\ Active(Maintenance)
        /\ flow'[Maintenance].d = flow[Maintenance].d
        /\ RestOf(flow'[Maintenance]) <= RestOf(flow[Maintenance])

\* A step that leaves the loop's flow alone, or only changes the life of its
\* nonce, its link or the state it writes to, does not make it longer.
LEMMA LoopKeepsOn ==
  ASSUME RegInv,
         \/ flow'[Maintenance] = flow[Maintenance]
         \/ flow'[Maintenance] = Idle
         \/ /\ Active(Maintenance)
            /\ flow'[Maintenance].d = flow[Maintenance].d
            /\ flow'[Maintenance].tries = flow[Maintenance].tries
            /\ flow'[Maintenance].wait = flow[Maintenance].wait
  PROVE  LoopGoesOn
<1>1. Active(Maintenance) => RestOf(flow[Maintenance]) \in Nat
  BY ActiveIsFlow, RestOfFlow DEF RegInv, Procs
<1> QED BY <1>1 DEF LoopGoesOn, Active, RestOf

\* A flow of the loop that goes on has less ahead, and so has the loop.
LEMMA LessAhead ==
  ASSUME IsFiniteSet(Devices), RegInv, RegInv', RoundInv,
         pass'.todo \subseteq pass.todo,
         LoopGoesOn
  PROVE  /\ Ahead' \in Nat /\ Ahead' <= Ahead /\ Ahead' <= Work(Devices)
         /\ Active(Maintenance)' => flow'[Maintenance].d \notin pass'.todo
<1>1. Active(Maintenance)' => flow'[Maintenance].d \notin pass'.todo
  BY DEF RoundInv, LoopGoesOn
<1>2. pass.todo \in SUBSET Devices
  BY DEF RegInv, Passes
<1>3. Work(pass'.todo) <= Work(pass.todo) /\ Work(pass'.todo) \in Nat
  BY <1>2, WorkGrows, WorkAddsUp
<1>4. Maintenance \in Procs
  BY DEF Procs
<1>5. Active(Maintenance) => RestOf(flow[Maintenance]) \in Nat
  BY <1>4, ActiveIsFlow, RestOfFlow DEF RegInv
<1>6. Active(Maintenance)' => RestOf(flow'[Maintenance]) \in Nat
  <2>1. Active(Maintenance)' => flow'[Maintenance] \in Flow
    BY <1>4 DEF RegInv, Active
  <2> QED BY <2>1, RestOfFlow
<1>7. Rest' \in Nat /\ Rest' <= Rest
  BY <1>5, <1>6 DEF Rest, RestOf, LoopGoesOn
<1>8. Ahead' = Rest' + Work(pass'.todo)
  BY DEF Ahead, Work
<1>9. Rest \in Nat /\ Work(pass.todo) \in Nat /\ Ahead <= Work(Devices)
      /\ Work(Devices) \in Nat
  BY RoundTypes
<1> QED BY <1>1, <1>3, <1>7, <1>8, <1>9 DEF Ahead

\* A flow that starts: only a register flow of the loop changes what lies ahead,
\* and takes as much of it as it takes from the pass.
LEMMA StartKeepsRound ==
  ASSUME IsFiniteSet(Devices), RegInv, RegInv', RoundInv, NEW d \in Devices,
         (\E p \in Tasks : StartRegister(p, d) \/ StartUnregister(p, d)) \/ Refresh(d)
  PROVE  RoundInv'
<1>0. /\ Ahead \in Nat /\ pass.todo \in SUBSET Devices /\ pass.orphan \in BOOLEAN
      /\ Maintenance \in Procs /\ pass \in Passes /\ Work(pass.todo) \in Nat
      /\ \A e \in Devices : device[e] \in States /\ device[e].left \in Nat
  BY RoundTypes DEF RegInv
<1>1. \A e \in Devices : device'[e].left \in Nat
  BY RegistrationAssumption DEF RegistrationAssumption, RegInv, States
<1>2. \A S : [pass EXCEPT !.todo = S].todo = S /\ [pass EXCEPT !.todo = S].orphan = pass.orphan
  BY <1>0 DEF Passes
<1>3. ASSUME NEW p, TriggerRegister(p, d)
      PROVE  \A e \in Devices : device'[e].registered => e # d /\ device'[e] = device[e]
  BY <1>0, <1>3 DEF TriggerRegister, RegInv, States
<1>4. ASSUME NEW p \in Tasks, StartRegister(p, d) PROVE RoundInv'
  <2>1. p # Maintenance /\ p \in Procs
    BY RegistrationAssumption DEF RegistrationAssumption, Procs
  <2>2. flow'[Maintenance] = flow[Maintenance]
    BY <1>0, <1>4, <2>1 DEF StartRegister, TriggerRegister, Launch, RegInv
  <2>3. pass'.todo \subseteq pass.todo /\ pass'.orphan = pass.orphan
        /\ \A e \in Devices : e # d /\ e \in pass.todo => e \in pass'.todo
    BY <1>2, <1>4 DEF StartRegister
  <2>5. LoopGoesOn
    BY <2>2, LoopKeepsOn
  <2>6. /\ Ahead' \in Nat /\ Ahead' <= Ahead
        /\ Active(Maintenance)' => flow'[Maintenance].d \notin pass'.todo
    BY <2>3, <2>5, LessAhead
  <2>7. \A e \in Devices : device'[e].registered =>
          /\ device[e].registered
          /\ e \in pass.todo /\ ~pass.orphan => e \in pass'.todo
          /\ device'[e].left + Ahead >= device[e].left + Ahead'
    <3>1. TriggerRegister(p, d)
      BY <1>4 DEF StartRegister
    <3> QED BY <1>0, <1>3, <2>3, <2>6, <3>1
  <2> QED BY <1>0, <1>1, <2>3, <2>6, <2>7, RoundFrame
<1>5. ASSUME NEW p \in Tasks, StartUnregister(p, d) PROVE RoundInv'
  <2>1. p # Maintenance /\ p \in Procs
    BY RegistrationAssumption DEF RegistrationAssumption, Procs
  <2>2. flow'[Maintenance] = flow[Maintenance] /\ pass' = pass
    BY <1>0, <1>5, <2>1 DEF StartUnregister, Launch, RegInv
  <2>5. LoopGoesOn
    BY <2>2, LoopKeepsOn
  <2>6. /\ Ahead' \in Nat /\ Ahead' <= Ahead
        /\ Active(Maintenance)' => flow'[Maintenance].d \notin pass'.todo
    BY <2>2, <2>5, LessAhead
  <2>7. \A e \in Devices : device'[e].registered = device[e].registered
                           /\ device'[e].left = device[e].left
    BY <1>0, <1>5 DEF StartUnregister, RegInv, States
  <2> QED BY <1>0, <1>1, <2>2, <2>6, <2>7, RoundFrame
<1>6. CASE Refresh(d)
  <2>1. d \in pass.todo /\ ~Active(Maintenance)
        /\ flow' = [flow EXCEPT ![Maintenance] = NewFlow(d, "register")]
        /\ pass' = [pass EXCEPT !.todo = pass.todo \ {d}]
    BY <1>6 DEF Refresh, TriggerRegister, Launch
  <2>2. pass'.todo = pass.todo \ {d} /\ pass'.orphan = pass.orphan
    BY <1>2, <2>1
  <2>3. flow'[Maintenance] = NewFlow(d, "register")
    BY <1>0, <2>1 DEF RegInv
  <2>4. RestOf(NewFlow(d, "register")) = Longest
    <3>1. NewFlow(d, "register") \in Flow /\ NewFlow(d, "register").tries = 0
      BY NewFlowType
    <3>2. NewFlow(d, "register").wait = Timeout
      BY DEF NewFlow
    <3> QED BY <3>1, <3>2, RestOfFlow
  <2>5. Active(Maintenance)' /\ flow'[Maintenance].d = d
    BY <2>3, NewFlowType DEF Active
  <2>6. Ahead' = Longest + Work(pass.todo \ {d})
    BY <2>2, <2>3, <2>4, <2>5 DEF Ahead, Rest, RestOf, Work
  <2>7. Ahead = Work(pass.todo)
    BY <1>0, <2>1 DEF Ahead, Rest
  <2>8. Ahead' = Ahead
    <3>1. Work(pass.todo) = Work(pass.todo \ {d}) + Longest
      BY <1>0, <2>1, WorkAddsUp
    <3>2. Work(pass.todo \ {d}) \in Nat /\ Longest \in Nat
      BY <1>0, WorkAddsUp, LongestType
    <3> QED BY <2>6, <2>7, <3>1, <3>2
  <2>9. \A e \in Devices : device'[e].registered =>
          /\ device[e].registered
          /\ e \in pass.todo /\ ~pass.orphan => e \in pass'.todo
          /\ device'[e].left + Ahead >= device[e].left + Ahead'
    <3>1. TriggerRegister(Maintenance, d)
      BY <1>6 DEF Refresh
    <3> QED BY <1>0, <1>3, <2>2, <2>8, <3>1
  <2> QED BY <1>0, <1>1, <2>2, <2>5, <2>8, <2>9, RoundFrame
<1> QED BY <1>4, <1>5, <1>6

\* The steps within a flow leave devices and pass alone, and an answer to a
\* challenge or to a stale nonce costs no more than the try it uses.
LEMMA StepKeepsRound ==
  ASSUME IsFiniteSet(Devices), RegInv, RegInv', RoundInv,
         \/ \E p \in Procs : Handle(p) \/ Lose(p) \/ SendCredentials(p)
         \/ \E s \in strays : HandleStray(s) \/ LoseStray(s)
         \/ ResetRegistrar
         \/ UNCHANGED regVars
  PROVE  RoundInv'
<1>0. /\ Ahead \in Nat /\ Maintenance \in Procs
      /\ \A e \in Devices : device[e].left \in Nat
  BY RoundTypes
<1>1. UNCHANGED <<device, pass>>
  BY DEF Handle, Lose, SendCredentials, HandleStray, LoseStray, ResetRegistrar, regVars
<1>2. flow \in [Procs -> Flow \union {Idle}]
  BY DEF RegInv
<1>3. Active(Maintenance) =>
        /\ flow[Maintenance] \in Flow
        /\ RestOf(flow[Maintenance]) \in Nat
  BY <1>0, <1>2, ActiveIsFlow, RestOfFlow
<1>4. ASSUME NEW p \in Procs, Handle(p) \/ Lose(p) PROVE LoopGoesOn
  <2>1. flow[p] \in Flow /\ Active(p)
    BY <1>4, ActiveIsFlow
    DEF RegInv, Handle, Lose, Challenge, Authorize, RefuseStale, RefuseCredentials
  <2>2. PICK g : /\ flow' = [flow EXCEPT ![p] = g]
                 /\ g.d = flow[p].d /\ g.tries = flow[p].tries /\ g.wait = flow[p].wait
    <3>2. CASE Handle(p)
      <4>1. PICK n, r : flow' = [flow EXCEPT ![p].life = n, ![p].link = r]
        BY <3>2
        DEF Handle, Challenge, Authorize, RefuseStale, RefuseCredentials, Answer
      <4> DEFINE g == [flow[p] EXCEPT !.life = n, !.link = r]
      <4>2. flow' = [flow EXCEPT ![p] = g]
        BY <1>2, <2>1, <4>1
      <4>3. g.d = flow[p].d /\ g.tries = flow[p].tries /\ g.wait = flow[p].wait
        BY <2>1 DEF Flow
      <4> HIDE DEF g
      <4> QED BY <4>2, <4>3
    <3>3. CASE Lose(p)
      <4> DEFINE g == [flow[p] EXCEPT !.link = "lost", !.life = 0]
      <4>1. flow' = [flow EXCEPT ![p] = g]
        BY <3>3 DEF Lose
      <4>2. g.d = flow[p].d /\ g.tries = flow[p].tries /\ g.wait = flow[p].wait
        BY <2>1 DEF Flow
      <4> HIDE DEF g
      <4> QED BY <4>1, <4>2
    <3> QED BY <1>4, <3>2, <3>3
  <2>3. CASE p # Maintenance
    <3>1. flow'[Maintenance] = flow[Maintenance]
      BY <1>0, <1>2, <2>2, <2>3
    <3> QED BY <3>1, LoopKeepsOn
  <2>4. CASE p = Maintenance
    <3>1. flow'[Maintenance] = g
      BY <1>0, <1>2, <2>2, <2>4
    <3> QED BY <2>1, <2>2, <2>4, <3>1, LoopKeepsOn
  <2> QED BY <2>3, <2>4
<1>5. ASSUME NEW p \in Procs, SendCredentials(p) PROVE LoopGoesOn
  <2> DEFINE g == [flow[p] EXCEPT !.pc = "answer", !.link = "sent", !.tries = @ + 1,
                                  !.wait = Timeout]
  <2>1. flow[p] \in Flow /\ Active(p)
    BY <1>5, ActiveIsFlow DEF RegInv, SendCredentials
  <2>2. flow[p].tries < MaxTries
    <3>1. flow[p].pc = "challenge" => flow[p].tries = 0
      BY <2>1 DEF RegInv
    <3>2. flow[p].pc = "challenge" \/ flow[p].tries < MaxTries
      BY <1>5 DEF SendCredentials, MayRetry
    <3> QED BY <3>1, <3>2, RegistrationAssumption DEF RegistrationAssumption
  <2>3. flow' = [flow EXCEPT ![p] = g]
    BY <1>5 DEF SendCredentials
  <2>4. g.d = flow[p].d /\ g.tries = flow[p].tries + 1 /\ g.wait = Timeout
    BY <2>1 DEF Flow
  <2> HIDE DEF g
  <2>5. CASE p # Maintenance
    <3>1. flow'[Maintenance] = flow[Maintenance]
      BY <1>0, <1>2, <2>3, <2>5
    <3> QED BY <3>1, LoopKeepsOn
  <2>6. CASE p = Maintenance
    <3>1. flow'[p] = g
      BY <1>2, <2>3
    <3>2. RestOf(g) = Timeout + (MaxTries - (flow[p].tries + 1)) * Timeout
      BY <2>4 DEF RestOf
    <3>3. RestOf(g) <= RestOf(flow[p])
      BY <2>1, <2>2, <3>2, RestOfFlow
    <3> QED BY <2>1, <2>4, <2>6, <3>1, <3>3 DEF LoopGoesOn
  <2> QED BY <2>5, <2>6
<1>6. ASSUME ResetRegistrar PROVE LoopGoesOn
  <2>1. flow'[Maintenance] = IF Active(Maintenance)
                             THEN [flow[Maintenance] EXCEPT !.life = 0] ELSE Idle
    BY <1>0, <1>6 DEF ResetRegistrar
  <2>2. CASE ~Active(Maintenance)
    BY <2>1, <2>2, LoopKeepsOn
  <2>3. CASE Active(Maintenance)
    <3>1. LET f == [flow[Maintenance] EXCEPT !.life = 0]
          IN  /\ f.d = flow[Maintenance].d /\ f.tries = flow[Maintenance].tries
              /\ f.wait = flow[Maintenance].wait
      BY <1>3, <2>3 DEF Flow
    <3> QED BY <2>1, <2>3, <3>1, LoopKeepsOn
  <2> QED BY <2>2, <2>3
<1>7. ASSUME UNCHANGED flow PROVE LoopGoesOn
  BY <1>7, LoopKeepsOn
<1>8. LoopGoesOn
  BY <1>4, <1>5, <1>6, <1>7 DEF HandleStray, LoseStray, regVars
<1>9. /\ Ahead' \in Nat /\ Ahead' <= Ahead
      /\ Active(Maintenance)' => flow'[Maintenance].d \notin pass'.todo
  BY <1>1, <1>8, LessAhead
<1> QED BY <1>0, <1>1, <1>9, RoundFrame

\* A flow that ends: a device it has registered has a whole registration before
\* it, and what is due in the pass stays so unless the device is new.
LEMMA EndKeepsRound ==
  ASSUME EnoughTime, RegInv, RegInv', RoundInv, NEW p \in Procs,
         Succeed(p) \/ GiveUp(p) \/ TimeOut(p)
  PROVE  RoundInv'
<1> DEFINE f == flow[p]
<1>0. /\ Ahead \in Nat /\ pass.todo \in SUBSET Devices /\ pass.orphan \in BOOLEAN
      /\ Maintenance \in Procs /\ pass \in Passes
      /\ Work(Devices) \in Nat /\ Margin \in Nat /\ Expires \in Nat
      /\ \A e \in Devices : device[e] \in States /\ device[e].left \in Nat
      /\ IsFiniteSet(Devices) /\ Expires > Margin + Work(Devices)
  BY RoundTypes DEF RegInv, EnoughTime
<1>1. \A e \in Devices : device'[e].left \in Nat
  BY RegistrationAssumption DEF RegistrationAssumption, RegInv, States
<1>2. f \in Flow /\ f.d \in Devices /\ f.orphan \in BOOLEAN
  BY ActiveIsFlow DEF RegInv, Succeed, GiveUp, TimeOut, Flow
<1>3. /\ flow' = [flow EXCEPT ![p] = Idle]
      /\ \/ pass' = pass
         \/ pass' = [pass EXCEPT !.todo = pass.todo \ {f.d}] /\ f.orphan = pass.orphan
  BY DEF Succeed, GiveUp, TimeOut, EndFlow
<1>4. \A e \in Devices : device'[e].registered =>
        \/ /\ device[e].registered /\ device'[e].left = device[e].left
           /\ e # f.d \/ pass' = pass \/ f.orphan
        \/ device'[e].left = Expires
  <2>1. CASE f.orphan
    <3>1. device' = device
      BY <2>1 DEF Succeed, GiveUp, TimeOut, EndFlow
    <3> QED BY <2>1, <3>1
  <2>2. CASE ~f.orphan /\ Succeed(p)
    <3> DEFINE view == IF f.kind = "register"
                       THEN [status |-> "REGISTERED", registered |-> TRUE, left |-> Expires]
                       ELSE Fresh
    <3>1. /\ device' = [device EXCEPT ![f.d] = view]
          /\ view.registered => view.left = Expires
      <4>1. EndFlow(p, TRUE, view)
        BY <2>2 DEF Succeed
      <4>2. view.registered => view.left = Expires
        BY DEF Fresh
      <4> HIDE DEF view
      <4> QED BY <2>2, <4>1, <4>2 DEF EndFlow
    <3> HIDE DEF view
    <3>2. device'[f.d] = view /\ \A e \in Devices : e # f.d => device'[e] = device[e]
      BY <1>2, <3>1 DEF RegInv
    <3> QED BY <3>1, <3>2
  <2>3. CASE ~f.orphan /\ (GiveUp(p) \/ TimeOut(p))
    <3>1. device' = [device EXCEPT ![f.d] = Failed(p)] /\ pass' = pass
      BY <2>3 DEF GiveUp, TimeOut, EndFlow
    <3>2. Failed(p).registered = device[f.d].registered /\ Failed(p).left = device[f.d].left
      BY <1>0, <1>2 DEF Failed, States
    <3>3. device'[f.d] = Failed(p) /\ \A e \in Devices : e # f.d => device'[e] = device[e]
      BY <1>2, <3>1 DEF RegInv
    <3> QED BY <3>1, <3>2, <3>3
  <2> QED BY <2>1, <2>2, <2>3
<1> HIDE DEF f
<1>5. pass'.todo \subseteq pass.todo /\ pass'.orphan = pass.orphan
      /\ \A e \in Devices : e # f.d /\ e \in pass.todo => e \in pass'.todo
  BY <1>0, <1>3 DEF Passes
<1>6. LoopGoesOn
  <2>1. flow'[Maintenance] = flow[Maintenance] \/ flow'[Maintenance] = Idle
    BY <1>0, <1>3 DEF RegInv
  <2> QED BY <2>1, LoopKeepsOn
<1>7. /\ Ahead' \in Nat /\ Ahead' <= Ahead /\ Ahead' <= Work(Devices)
      /\ Active(Maintenance)' => flow'[Maintenance].d \notin pass'.todo
  BY <1>0, <1>5, <1>6, LessAhead
<1>8. ASSUME NEW e \in Devices, device'[e].registered
      PROVE  \/ device'[e].left > Margin + Ahead'
             \/ /\ device[e].registered
                /\ e \in pass.todo /\ ~pass.orphan => e \in pass'.todo
                /\ device'[e].left + Ahead >= device[e].left + Ahead'
  <2>1. CASE device'[e].left = Expires
    <3>1. Ahead' \in Nat /\ Ahead' <= Work(Devices)
      BY <1>7
    <3>2. /\ Work(Devices) \in Nat /\ Margin \in Nat /\ Expires \in Nat
          /\ Expires > Margin + Work(Devices)
      BY <1>0
    <3>3. \A n, w, m, x \in Nat : n <= w /\ x > m + w => x > m + n
      OBVIOUS
    <3>4. Expires > Margin + Ahead'
      BY <3>1, <3>2, <3>3, Zenon
    <3> QED BY <2>1, <3>4
  <2>2. CASE /\ device[e].registered /\ device'[e].left = device[e].left
             /\ e # f.d \/ pass' = pass \/ f.orphan
    <3>1. e \in pass.todo /\ ~pass.orphan => e \in pass'.todo
      BY <1>3, <1>5, <2>2
    <3>2. device'[e].left + Ahead >= device[e].left + Ahead'
      BY <1>0, <1>7, <2>2
    <3> QED BY <2>2, <3>1, <3>2
  <2> QED BY <1>4, <1>8, <2>1, <2>2
<1> QED BY <1>0, <1>1, <1>5, <1>7, <1>8, RoundFrame

\* A new pass: the devices that are due had the time for it, all others have
\* the margin for the one that follows it.
LEMMA PollKeepsRound ==
  ASSUME EnoughTime, RegInv, RoundInv, Poll
  PROVE  RoundInv'
<1> DEFINE Q == {d \in Devices : Due(d)}
<1>0. /\ Work(Devices) \in Nat /\ Margin \in Nat /\ Longest \in Nat
      /\ \A e \in Devices : device[e].left \in Nat
      /\ IsFiniteSet(Devices) /\ Margin + Longest > Work(Devices)
  BY RoundTypes DEF EnoughTime
<1>1. ~Active(Maintenance) /\ pass.todo = {} /\ UNCHANGED <<device, flow>>
      /\ pass'.todo = Q /\ pass'.orphan = FALSE
  BY DEF Poll
<1>2. ~Active(Maintenance)'
  BY <1>1 DEF Active
<1>3. Ahead = 0 /\ Ahead' = Work(Q)
  <2>1. Work({}) = 0
    BY <1>0, WorkAddsUp
  <2>2. Work(Q) \in Nat
    BY <1>0, WorkAddsUp
  <2> QED BY <1>1, <1>2, <2>1, <2>2 DEF Ahead, Rest, Work
<1>4. PICK U \in SUBSET Devices :
        /\ U \cap pass.todo = {}
        /\ \A d \in Devices : device[d].registered => InTime(d, U)
  BY DEF RoundInv
<1>5. ASSUME NEW d \in Devices, Due(d)
      PROVE  d \in U /\ device[d].left + Longest > Work(U)
  <2>1. Work(U) \in Nat
    BY <1>0, WorkAddsUp
  <2> QED BY <1>0, <1>1, <1>3, <1>4, <1>5, <2>1 DEF InTime, Due
<1>6. Q \in SUBSET U /\ Q \in SUBSET Devices /\ Devices \ Q \in SUBSET Devices
  BY <1>5
<1> HIDE DEF Q
<1>7. Work(Q) \in Nat /\ Work(Q) <= Work(U) /\ Work(U) \in Nat
      /\ Work(Devices \ Q) \in Nat
      /\ Work(Devices) = Work(Q) + Work(Devices \ Q)
  BY <1>0, <1>6, WorkAddsUp, WorkGrows
<1>8. PICK V \in SUBSET Devices : V = Devices \ Q
  BY <1>6
<1>9. ASSUME NEW d \in Devices, device[d].registered PROVE InTime(d, V)'
  <2>1. CASE d \in Q
    <3>1. Due(d)
      BY <2>1 DEF Q
    <3>2. device[d].left + Longest > Ahead'
      BY <1>0, <1>3, <1>5, <1>7, <3>1
    <3> QED BY <1>1, <2>1, <3>2 DEF InTime
  <2>2. CASE d \notin Q
    <3>1. device[d].left > Margin
      BY <1>0, <1>9, <2>2 DEF Q, Due
    <3>2. device'[d].left + Longest > Ahead' + Work(V)
      BY <1>0, <1>1, <1>3, <1>7, <1>8, <3>1
    <3>3. d \in V
      BY <1>8, <2>2
    <3> QED BY <3>2, <3>3 DEF InTime, Work
  <2> QED BY <2>1, <2>2
<1>10. V \cap pass'.todo = {}
  BY <1>1, <1>8
<1> QED BY <1>1, <1>2, <1>9, <1>10 DEF RoundInv

\* A unit of time: while the loop is in a flow, what lies ahead of it shrinks with
\* the registrations; when it has nothing to do, everyone has the margin.
LEMMA TickKeepsRound ==
  ASSUME EnoughTime, RegInv, RegInv', RoundInv, Tick
  PROVE  RoundInv'
<1>0. /\ Ahead \in Nat /\ Rest \in Nat /\ Work(pass.todo) \in Nat /\ Maintenance \in Procs
      /\ Work(Devices) \in Nat /\ Margin \in Nat /\ Longest \in Nat
      /\ \A e \in Devices : device[e] \in States /\ device[e].left \in Nat
      /\ IsFiniteSet(Devices) /\ Margin + Longest > Work(Devices)
  BY RoundTypes DEF EnoughTime
<1>1. pass' = pass /\ ~LoopIsReady
  BY DEF Tick
<1>2. \A e \in Devices : /\ device'[e].registered = device[e].registered
                         /\ device'[e].left = Less(device[e].left)
  BY <1>0 DEF Tick, States
<1>3. \A e \in Devices : device'[e].left \in Nat /\ device'[e].left + 1 >= device[e].left
  BY <1>0, <1>2 DEF Less
<1>4. CASE Active(Maintenance)
  <2>1. flow[Maintenance] \in Flow /\ flow[Maintenance].wait > 0
    BY <1>0, <1>4, ActiveIsFlow DEF RegInv, Tick
  <2>2. PICK g : g = [flow[Maintenance] EXCEPT !.wait = @ - 1, !.life = Less(@)]
    OBVIOUS
  <2>3. flow'[Maintenance] = g
    BY <1>0, <1>4, <2>2 DEF Tick
  <2>4. g \in Flow /\ g.d = flow[Maintenance].d /\ g.tries = flow[Maintenance].tries
    BY <2>1, <2>2, ClockUpdate DEF Continues
  <2>5. g.wait = flow[Maintenance].wait - 1
    BY <2>1, <2>2 DEF Flow
  <2>6. Active(Maintenance)' /\ flow'[Maintenance].d \notin pass'.todo
    BY <1>1, <1>4, <2>3, <2>4, FlowIsActive DEF Active, RoundInv
  <2>7. Rest' = Rest - 1 /\ Rest' \in Nat
    <3>1. PICK m : m = (MaxTries - g.tries) * Timeout
      OBVIOUS
    <3>2. RestOf(g) = g.wait + m /\ RestOf(flow[Maintenance]) = flow[Maintenance].wait + m
      BY <2>4, <3>1 DEF RestOf
    <3>3. RestOf(g) \in Nat
      BY <2>4, RestOfFlow
    <3>4. m \in Int
      <4>1. g.tries \in Nat /\ MaxTries \in Nat /\ Timeout \in Nat
        BY <2>4, RegistrationAssumption DEF RegistrationAssumption, Flow
      <4> QED BY <3>1, <4>1
    <3>5. flow[Maintenance].wait \in Nat
      BY <2>1, RegistrationAssumption DEF RegistrationAssumption, Flow
    <3>6. Rest = RestOf(flow[Maintenance])
      BY <1>4 DEF Rest
    <3>7. Rest' = RestOf(g)
      BY <2>3, <2>6 DEF Rest, RestOf
    <3> QED BY <2>5, <3>2, <3>3, <3>4, <3>5, <3>6, <3>7
  <2>8. Ahead' = Ahead - 1 /\ Ahead' \in Nat
    <3>1. Ahead' = Rest' + Work(pass.todo)
      BY <1>1 DEF Ahead, Work
    <3>2. Ahead = Rest + Work(pass.todo)
      BY DEF Ahead
    <3> QED BY <1>0, <2>7, <3>1, <3>2
  <2>9. \A e \in Devices : device'[e].left + Ahead >= device[e].left + Ahead'
    BY <1>0, <1>3, <2>8
  <2>10. pass'.todo \subseteq pass.todo /\ pass'.orphan = pass.orphan
    BY <1>1
  <2>11. \A e \in Devices : device'[e].registered =>
           /\ device[e].registered
           /\ e \in pass.todo /\ ~pass.orphan => e \in pass'.todo
           /\ device'[e].left + Ahead >= device[e].left + Ahead'
    BY <1>1, <1>2, <2>9
  <2> QED BY <1>0, <1>3, <2>6, <2>8, <2>10, <2>11, RoundFrame
<1>5. CASE ~Active(Maintenance)
  <2>1. pass.todo = {} /\ \A e \in Devices : ~Due(e)
    BY <1>1, <1>5 DEF LoopIsReady
  <2>2. ~Active(Maintenance)'
    BY <1>0, <1>5 DEF Tick, Active
  <2>3. Ahead' = 0
    <3>1. Work({}) = 0
      BY <1>0, WorkAddsUp
    <3>2. Rest' = 0
      BY <2>2 DEF Rest
    <3>3. Ahead' = Rest' + Work({})
      BY <1>1, <2>1 DEF Ahead, Work
    <3> QED BY <3>1, <3>2, <3>3
  <2>4. ASSUME NEW e \in Devices, device'[e].registered PROVE InTime(e, Devices)'
    <3>1. device[e].left > Margin
      BY <1>0, <1>2, <2>1, <2>4 DEF Due
    <3>2. device'[e].left + Longest > Ahead' + Work(Devices)
      BY <1>0, <1>3, <2>3, <3>1
    <3> QED BY <3>2 DEF InTime, Work
  <2>5. Devices \cap pass'.todo = {}
    BY <1>1, <2>1
  <2> QED BY <2>2, <2>4, <2>5 DEF RoundInv
<1> QED BY <1>4, <1>5

\* Nobody is registered at the beginning and after a reset of the simulator.
LEMMA FreshRound ==
  ASSUME RegInv, \A d \in Devices : ~device'[d].registered,
         pass'.todo = pass.todo, RoundInv,
         Active(Maintenance)' => /\ Active(Maintenance)
                                 /\ flow'[Maintenance].d = flow[Maintenance].d
  PROVE  RoundInv'
<1>1. Active(Maintenance)' => flow'[Maintenance].d \notin pass'.todo
  BY DEF RoundInv
<1>2. {} \in SUBSET Devices /\ {} \cap pass'.todo = {}
  OBVIOUS
<1> QED BY <1>1, <1>2 DEF RoundInv

\* RoundInv is inductive.
LEMMA NextKeepsRound ==
  ASSUME EnoughTime, RegInv, RegInv', RoundInv, [RegNext]_regVars
  PROVE  RoundInv'
<1>0. IsFiniteSet(Devices)
  BY DEF EnoughTime
<1>1. CASE ResetSimulator
  <2>1. Maintenance \in Procs
    BY DEF Procs
  <2>2. \A d \in Devices : ~device'[d].registered
    BY <1>1 DEF ResetSimulator, Fresh
  <2>3. pass'.todo = pass.todo
    BY <1>1 DEF ResetSimulator, RegInv, Passes
  <2>4. ASSUME Active(Maintenance)'
        PROVE  Active(Maintenance) /\ flow'[Maintenance].d = flow[Maintenance].d
    <3>1. Active(Maintenance)
      BY <1>1, <2>1, <2>4 DEF ResetSimulator, Active
    <3>2. flow[Maintenance] \in Flow
      BY <2>1, <3>1, ActiveIsFlow DEF RegInv
    <3>3. flow'[Maintenance] = [flow[Maintenance] EXCEPT !.orphan = TRUE]
      BY <1>1, <2>1, <3>1 DEF ResetSimulator
    <3> QED BY <3>1, <3>2, <3>3, OrphanUpdate
  <2> QED BY <2>2, <2>3, <2>4, FreshRound
<1>2. ASSUME NEW d \in Devices,
             (\E p \in Tasks : StartRegister(p, d) \/ StartUnregister(p, d)) \/ Refresh(d)
      PROVE  RoundInv'
  BY <1>0, <1>2, StartKeepsRound
<1>3. ASSUME NEW p \in Procs, Handle(p) \/ Lose(p) \/ SendCredentials(p)
      PROVE  RoundInv'
  BY <1>0, <1>3, StepKeepsRound
<1>4. ASSUME \/ \E s \in strays : HandleStray(s) \/ LoseStray(s)
             \/ ResetRegistrar
             \/ UNCHANGED regVars
      PROVE  RoundInv'
  BY <1>0, <1>4, StepKeepsRound
<1>5. ASSUME NEW p \in Procs, Succeed(p) \/ GiveUp(p) \/ TimeOut(p)
      PROVE  RoundInv'
  BY <1>5, EndKeepsRound
<1> QED BY <1>1, <1>2, <1>3, <1>4, <1>5, PollKeepsRound, TickKeepsRound DEF RegNext

\* With a margin that covers the flows of all other devices, no device takes
\* itself for registered after its registration ran out, for any number of
\* devices and any timeouts, whatever the registrar answers and is lost,
\* whoever registers or unregisters by hand, and across resets.
THEOREM RefreshesAreInTime ==
  ASSUME EnoughTime
  PROVE  RegSpec => []RefreshedInTime
<1>1. RegInit => RoundInv
  <2> SUFFICES ASSUME RegInit PROVE RoundInv
    OBVIOUS
  <2>1. ~Active(Maintenance)
    BY DEF RegInit, Active, Procs
  <2>2. \A d \in Devices : ~device[d].registered
    BY DEF RegInit, Fresh
  <2>3. {} \in SUBSET Devices /\ {} \cap pass.todo = {}
    OBVIOUS
  <2> QED BY <2>1, <2>2, <2>3 DEF RoundInv
<1>2. RegInv /\ RegInv' /\ RoundInv /\ [RegNext]_regVars => RoundInv'
  BY NextKeepsRound
<1>3. RegInv /\ RoundInv => RefreshedInTime
  <2> SUFFICES ASSUME RegInv, RoundInv, NEW d \in Devices, device[d].registered
               PROVE  device[d].left > 0
    BY DEF RefreshedInTime
  <2>0. /\ IsFiniteSet(Devices) /\ pass.todo \in SUBSET Devices
        /\ Rest \in Nat /\ Work(pass.todo) \in Nat /\ Ahead \in Nat /\ Margin \in Nat
        /\ Longest \in Nat /\ device[d].left \in Nat
    BY RoundTypes DEF EnoughTime
  <2>1. PICK U \in SUBSET Devices :
          /\ U \cap pass.todo = {}
          /\ \A e \in Devices : device[e].registered => InTime(e, U)
    BY DEF RoundInv
  <2>2. ASSUME NEW S \in SUBSET Devices, d \in S
        PROVE  Work(S) \in Nat /\ Work(S) >= Longest
    <3>1. Work(S) = Work(S \ {d}) + Longest /\ Work(S \ {d}) \in Nat
      BY <2>0, <2>2, WorkAddsUp
    <3> QED BY <2>0, <3>1
  <2>3. Ahead >= Work(pass.todo)
    BY <2>0 DEF Ahead
  <2> QED BY <2>0, <2>1, <2>2, <2>3 DEF InTime
<1> QED BY <1>1, <1>2, <1>3, InitHasRegInv, NextKeepsRegInv, PTL DEF RegSpec
=============================================================================
