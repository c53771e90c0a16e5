---------------------------- MODULE Registration ----------------------------
(***************************************************************************)
(* Registration of the simulated devices with the built-in registrar:      *)
(* the REGISTER flows of DeviceSimulator (sip/simulator.py), its           *)
(* maintenance loop, the digest check of SipRegistrar (sip/registrar.py),  *)
(* and reset, which clears the two sides at different times.               *)
(*                                                                         *)
(* A flow is one call of trigger_register or trigger_unregister.  It runs  *)
(* in the maintenance loop or in a background task of the control plane,   *)
(* has a socket of its own, and has one request at a time on the way: the  *)
(* link of the flow says where that request or its answer is.  A nonce is  *)
(* known by its remaining life: it is never shared between flows, nor      *)
(* consumed by use, so the registrar's table holds it exactly while that   *)
(* life is above 0.  Time is counted down in whole units.                  *)
(***************************************************************************)
EXTENDS Naturals

CONSTANTS
    Devices,      \* ids of the simulated devices
    Tasks,        \* background tasks of the control plane
    Maintenance,  \* the maintenance loop
    Expires,      \* gb_expires
    Margin,       \* gb_refresh_margin
    Timeout,      \* gb_register_timeout: the wait for one answer
    NonceTTL,     \* life of a nonce at the registrar
    MaxTries      \* requests with credentials one register flow sends

ASSUME RegistrationAssumption ==
    /\ Maintenance \notin Tasks
    /\ Expires \in Nat \ {0} /\ Margin \in Nat
    /\ Timeout \in Nat \ {0} /\ NonceTTL \in Nat \ {0}
    /\ MaxTries \in Nat \ {0}

VARIABLES
    device,         \* SimulatorDeviceState of each device
    flow,           \* the flow each process is in, or Idle
    strays,         \* requests whose flow has given up, still on their way
    registrations,  \* SipRegistrar._registrations
    agreed,         \* do the simulator and the registrar use one password?
    pass,           \* what is left of the maintenance loop's current pass
    resetting,      \* reset has cleared the simulator, not yet the registrar
    disturbed       \* history: something else touched the device's flow

regVars == <<device, flow, strays, registrations, agreed, pass, resetting,
             disturbed>>

Procs == Tasks \union {Maintenance}

Statuses == {"UNREGISTERED", "REGISTERING", "REGISTERED", "UNREGISTERING",
             "REGISTER_FAILED"}

\* IDLE, the status of a device without any flow so far, counts as UNREGISTERED.
Fresh == [status |-> "UNREGISTERED", registered |-> FALSE, left |-> 0]

Idle == [pc |-> "idle"]

\* A flow: what it wants, for which device, what it waits for, how often it
\* has sent credentials, the life of its nonce, the rest of its wait, whether
\* reset has replaced the state object it writes to, and its link.
Flow == [pc : {"challenge", "answer"}, kind : {"register", "unregister"},
         d : Devices, tries : 0..MaxTries, life : 0..NonceTTL,
         wait : 0..Timeout, orphan : BOOLEAN,
         link : {"sent", "lost", "401", "stale", "denied", "200"}]

RegTypeOK ==
    /\ device \in [Devices -> [status : Statuses, registered : BOOLEAN,
                               left : 0..Expires]]
    /\ flow \in [Procs -> Flow \union {Idle}]
    /\ strays \in SUBSET [d : Devices, kind : {"register", "unregister"},
                          life : 1..NonceTTL]
    /\ registrations \in SUBSET Devices
    /\ agreed \in BOOLEAN
    /\ pass \in [todo : SUBSET Devices, orphan : BOOLEAN]
    /\ resetting \in BOOLEAN
    /\ disturbed \in [Devices -> BOOLEAN]

Active(p) == flow[p] # Idle

FlowsOf(d) == {p \in Procs : Active(p) /\ flow[p].d = d}

StraysOf(d) == {s \in strays : s.d = d}

\* Nothing of d is under way.
Quiet(d) == FlowsOf(d) = {} /\ StraysOf(d) = {}

RegInit ==
    /\ device = [d \in Devices |-> Fresh]
    /\ flow = [p \in Procs |-> Idle]
    /\ strays = {}
    /\ registrations = {}
    /\ agreed \in BOOLEAN
    /\ pass = [todo |-> {}, orphan |-> FALSE]
    /\ resetting = FALSE
    /\ disturbed = [d \in Devices |-> FALSE]

-----------------------------------------------------------------------------
(* Starting a flow *)

NewFlow(d, kind) ==
    [pc |-> "challenge", kind |-> kind, d |-> d, tries |-> 0, life |-> 0,
     wait |-> Timeout, orphan |-> FALSE, link |-> "sent"]

\* The first request, without credentials, goes out.
Launch(p, d, kind) ==
    /\ ~Active(p)
    /\ flow' = [flow EXCEPT ![p] = NewFlow(d, kind)]
    /\ disturbed' = [disturbed EXCEPT ![d] = resetting \/ ~Quiet(d)]

\* trigger_register: the device counts as not registered from here on.
TriggerRegister(p, d) ==
    /\ Launch(p, d, "register")
    /\ device' = [device EXCEPT ![d].registered = FALSE,
                                ![d].status = "REGISTERING", ![d].left = 0]

\* The register route.  A device that is no longer registered is not due
\* when the current pass reaches it.
StartRegister(p, d) ==
    /\ p \in Tasks
    /\ TriggerRegister(p, d)
    /\ pass' = IF pass.orphan THEN pass ELSE [pass EXCEPT !.todo = @ \ {d}]
    /\ UNCHANGED <<strays, registrations, agreed, resetting>>

\* The unregister route: the device counts as registered until the answer.
StartUnregister(p, d) ==
    /\ p \in Tasks
    /\ Launch(p, d, "unregister")
    /\ device' = [device EXCEPT ![d].status = "UNREGISTERING"]
    /\ UNCHANGED <<strays, registrations, agreed, pass, resetting>>

-----------------------------------------------------------------------------
(* The maintenance loop *)

\* Mutation of Due: only inside the margin, not at its edge.
DueLate(d) == device[d].registered /\ device[d].left < Margin

Due(d) == device[d].registered /\ device[d].left <= Margin

\* One round of the loop looks at the clock once, for all devices.
Poll ==
    /\ ~Active(Maintenance) /\ pass.todo = {}
    /\ \E d \in Devices : Due(d)
    /\ pass' = [todo |-> {d \in Devices : Due(d)}, orphan |-> FALSE]
    /\ UNCHANGED <<device, flow, strays, registrations, agreed, resetting,
                   disturbed>>

\* It awaits the refresh of a device before it looks at the next one.
Refresh(d) ==
    /\ d \in pass.todo
    /\ TriggerRegister(Maintenance, d)
    /\ pass' = [pass EXCEPT !.todo = @ \ {d}]
    /\ UNCHANGED <<strays, registrations, agreed, resetting>>

-----------------------------------------------------------------------------
(* The registrar *)

\* Mutation of Book: an unregister leaves the entry in place.
BookAlways(d, kind) == registrations' = registrations \union {d}

Book(d, kind) ==
    registrations' = IF kind = "unregister" THEN registrations \ {d}
                                            ELSE registrations \union {d}

\* The digest the registrar computes is the one the device sent: both know the
\* nonce, the realm and the uri, so it comes down to the password.
ResponseMatches == agreed

\* handle_datagram on the request of flow p.  The answer may be lost.
Answer(p, reply, life) ==
    flow' = [flow EXCEPT ![p].life = life, ![p].link = reply]

Challenge(p) ==
    /\ Active(p) /\ flow[p].link = "sent" /\ flow[p].pc = "challenge"
    /\ Answer(p, "401", NonceTTL)
    /\ UNCHANGED registrations

Authorize(p) ==
    /\ Active(p) /\ flow[p].link = "sent" /\ flow[p].pc = "answer"
    /\ flow[p].life > 0 /\ ResponseMatches
    /\ Book(flow[p].d, flow[p].kind)
    /\ Answer(p, "200", flow[p].life)

RefuseStale(p) ==
    /\ Active(p) /\ flow[p].link = "sent" /\ flow[p].pc = "answer"
    /\ flow[p].life = 0
    /\ Answer(p, "stale", NonceTTL)
    /\ UNCHANGED registrations

RefuseCredentials(p) ==
    /\ Active(p) /\ flow[p].link = "sent" /\ flow[p].pc = "answer"
    /\ flow[p].life > 0 /\ ~ResponseMatches
    /\ Answer(p, "denied", flow[p].life)
    /\ UNCHANGED registrations

Handle(p) ==
    /\ Challenge(p) \/ Authorize(p) \/ RefuseStale(p) \/ RefuseCredentials(p)
    /\ UNCHANGED <<device, strays, agreed, pass, resetting, disturbed>>

\* The request or its answer is lost.
Lose(p) ==
    /\ Active(p) /\ flow[p].link # "lost"
    /\ flow' = [flow EXCEPT ![p].link = "lost", ![p].life = 0]
    /\ UNCHANGED <<device, strays, registrations, agreed, pass, resetting,
                   disturbed>>

\* A request that outlived its flow: its answer reaches no one.
HandleStray(s) ==
    /\ s \in strays
    /\ strays' = strays \ {s}
    /\ IF ResponseMatches THEN Book(s.d, s.kind) ELSE UNCHANGED registrations
    /\ UNCHANGED <<device, flow, agreed, pass, resetting, disturbed>>

LoseStray(s) ==
    /\ s \in strays
    /\ strays' = strays \ {s}
    /\ UNCHANGED <<device, flow, registrations, agreed, pass, resetting,
                   disturbed>>

-----------------------------------------------------------------------------
(* The device *)

\* The flow ends and its socket is closed.  What it writes goes to the state
\* object it started with, which reset may have replaced.  A device that was
\* registered anew, or is not registered any more, is not due in the pass that
\* looks at the same object; of two orphans it is not known if they do.
EndFlow(p, ok, view) ==
    LET f == flow[p]
        without == [pass EXCEPT !.todo = @ \ {f.d}]
    IN  /\ flow' = [flow EXCEPT ![p] = Idle]
        /\ device' = IF f.orphan THEN device ELSE [device EXCEPT ![f.d] = view]
        /\ \/ ok /\ f.orphan = pass.orphan /\ pass' = without
           \/ (ok => f.orphan \/ pass.orphan) /\ pass' = pass

\* Mutation of Failed: a failed flow does not report back.
FailedQuietly(p) == device[flow[p].d]

Failed(p) == [device[flow[p].d] EXCEPT !.status = "REGISTER_FAILED"]

\* A register flow sends credentials at most MaxTries times.
\* Mutation of MayRetry: once more than that.
MayRetryOnceMore(f) == f.kind = "register" /\ f.tries <= MaxTries

MayRetry(f) == f.kind = "register" /\ f.tries < MaxTries

\* The device answers a challenge, or a stale nonce, with credentials.
SendCredentials(p) ==
    /\ Active(p)
    /\ \/ flow[p].pc = "challenge" /\ flow[p].link = "401"
       \/ flow[p].link = "stale" /\ MayRetry(flow[p])
    /\ flow' = [flow EXCEPT ![p].pc = "answer", ![p].link = "sent",
                            ![p].tries = @ + 1, ![p].wait = Timeout]
    /\ UNCHANGED <<device, strays, registrations, agreed, pass, resetting,
                   disturbed>>

Succeed(p) ==
    /\ Active(p) /\ flow[p].link = "200"
    /\ EndFlow(p, TRUE, IF flow[p].kind = "register"
                        THEN [status |-> "REGISTERED", registered |-> TRUE,
                              left |-> Expires]
                        ELSE Fresh)
    /\ UNCHANGED <<strays, registrations, agreed, resetting, disturbed>>

\* Wrong credentials, too many stale nonces, or any stale one of an
\* unregister, which does not try again.
GiveUp(p) ==
    /\ Active(p)
    /\ \/ flow[p].link = "denied"
       \/ flow[p].link = "stale" /\ ~MayRetry(flow[p])
    /\ EndFlow(p, FALSE, Failed(p))
    /\ UNCHANGED <<strays, registrations, agreed, resetting, disturbed>>

\* Mutation of Overdue: an unregister flow waits for as long as it takes.
OverdueRegister(p) == flow[p].wait = 0 /\ flow[p].kind = "register"

Overdue(p) == flow[p].wait = 0

\* The wait for the answer is over; the request may still arrive later.
TimeOut(p) ==
    /\ Active(p) /\ Overdue(p)
    /\ EndFlow(p, FALSE, Failed(p))
    /\ strays' = IF flow[p].link = "sent" /\ flow[p].life > 0
                 THEN strays \union {[d |-> flow[p].d, kind |-> flow[p].kind,
                                      life |-> flow[p].life]}
                 ELSE strays
    /\ UNCHANGED <<registrations, agreed, resetting, disturbed>>

-----------------------------------------------------------------------------
(* Reset *)

\* simulator.reset: new state objects; flows and the current pass keep theirs.
ResetSimulator ==
    /\ ~resetting /\ resetting' = TRUE
    /\ device' = [d \in Devices |-> Fresh]
    /\ flow' = [p \in Procs |-> IF Active(p)
                                THEN [flow[p] EXCEPT !.orphan = TRUE]
                                ELSE Idle]
    /\ pass' = [pass EXCEPT !.orphan = pass.todo # {}]
    /\ disturbed' = [d \in Devices |-> TRUE]
    /\ UNCHANGED <<strays, registrations, agreed>>

\* registrar.reset, after the listeners were awaited: no nonce is known.
ResetRegistrar ==
    /\ resetting /\ resetting' = FALSE
    /\ registrations' = {}
    /\ strays' = {}
    /\ flow' = [p \in Procs |-> IF Active(p) THEN [flow[p] EXCEPT !.life = 0]
                                             ELSE Idle]
    /\ disturbed' = [d \in Devices |-> ~Quiet(d) \/ device[d] # Fresh]
    /\ UNCHANGED <<device, agreed, pass>>

-----------------------------------------------------------------------------
(* Time *)

Less(n) == IF n = 0 THEN 0 ELSE n - 1

\* The loop has something to do: it polls every 0.2 seconds.
LoopIsReady ==
    /\ ~Active(Maintenance)
    /\ pass.todo # {} \/ \E d \in Devices : Due(d)

Tick ==
    /\ ~LoopIsReady
    /\ \A p \in Procs : Active(p) => flow[p].wait > 0
    /\ device' = [d \in Devices |-> [device[d] EXCEPT !.left = Less(@)]]
    /\ flow' = [p \in Procs |->
                  IF Active(p)
                  THEN [flow[p] EXCEPT !.wait = @ - 1, !.life = Less(@)]
                  ELSE Idle]
    /\ strays' = {[s EXCEPT !.life = @ - 1] : s \in {t \in strays : t.life > 1}}
    /\ UNCHANGED <<registrations, agreed, pass, resetting, disturbed>>

-----------------------------------------------------------------------------
RegNext ==
    \/ \E p \in Tasks, d \in Devices : StartRegister(p, d)
                                       \/ StartUnregister(p, d)
    \/ Poll
    \/ \E d \in Devices : Refresh(d)
    \/ \E p \in Procs : \/ Handle(p) \/ Lose(p)
                        \/ SendCredentials(p) \/ Succeed(p) \/ GiveUp(p)
                        \/ TimeOut(p)
    \/ \E s \in strays : HandleStray(s) \/ LoseStray(s)
    \/ ResetSimulator \/ ResetRegistrar
    \/ Tick

RegSpec == RegInit /\ [][RegNext]_regVars

\* Timers fire and the loop runs; nothing is assumed of the network or of
\* the users of the control plane.
RegFairness ==
    /\ WF_regVars(Tick)
    /\ WF_regVars(Poll)
    /\ \A d \in Devices : WF_regVars(Refresh(d))
    /\ \A p \in Procs : WF_regVars(TimeOut(p))
    /\ \A p \in Procs : WF_regVars(SendCredentials(p) \/ Succeed(p) \/ GiveUp(p))

-----------------------------------------------------------------------------
(* Properties *)

\* A device and the registrar agree once a flow that nothing disturbed has
\* ended: REGISTERED means that the registrar has an entry, UNREGISTERED that
\* it has none.  (The code: _register_flow and _unregister_flow believe the
\* 200 that matches their branch; disturbed are flows that overlap another
\* flow, a late request or reset.)
LoneFlowAgrees ==
    \A d \in Devices : ~disturbed[d] /\ Quiet(d) =>
        /\ device[d].status = "REGISTERED" => d \in registrations
        /\ device[d].status = "UNREGISTERED" => d \notin registrations

\* No device takes itself for registered after its registration ran out: the
\* maintenance loop, which serves the devices one after the other, gets to it
\* in time.  It needs a margin as long as the longest flow of every other
\* device.
RefreshedInTime ==
    \A d \in Devices : device[d].registered => device[d].left > 0

\* A transient status is backed by a flow that will end it; reset and
\* overlapping flows included.
BusyHasFlow ==
    \A d \in Devices :
        device[d].status \in {"REGISTERING", "UNREGISTERING"} =>
            \E p \in FlowsOf(d) : ~flow[p].orphan

\* Every flow ends, whatever is lost, stale, late or reset on its way.
FlowsEnd == \A p \in Procs : Active(p) ~> ~Active(p)
=============================================================================
