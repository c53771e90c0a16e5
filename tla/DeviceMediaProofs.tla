-------------------------- MODULE DeviceMediaProofs --------------------------
(***************************************************************************)
(* Proofs about DeviceMedia, for any number of calls, lost messages,       *)
(* reconfigurations and resets.                                            *)
(***************************************************************************)
EXTENDS DeviceMedia, TLAPS

Dialogs == [status : {"none", "delayed", "WAITING_ACK", "ESTABLISHED",
                      "TERMINATED", "FAILED"},
            timer : BOOLEAN, listed : BOOLEAN]

Messages == {"INVITE", "OK", "REJECT", "ACK", "BYE", "BYE OK"} \X Calls

MediaTasks == Pushing \union {"none", "cancelled", "cut", "done"}

CallStates == {"idle", "inviting", "up", "closing", "closed", "unanswered", "gone"}

Fates == SUBSET {"lost", "switched"}

\* MediaTypeOK, with its sets of records, pairs and sets under names.
TypeParts ==
    /\ answer \in AnswerModes /\ media \in MediaModes
    /\ dialog \in [Calls -> Dialogs]
    /\ task \in [Calls -> MediaTasks]
    /\ flag \in [Calls -> BOOLEAN]
    /\ call \in [Calls -> CallStates]
    /\ wire \in SUBSET Messages
    /\ \A c \in Calls : dialog[c].timer => dialog[c].status = "WAITING_ACK"
    /\ fate \in [Calls -> Fates]
    /\ troubles \in 0..Troubles

\* What a handler leaves on the wire are messages.
LEMMA WireType ==
  ASSUME NEW c \in Calls, wire \in SUBSET Messages,
         NEW m \in {"INVITE", "OK", "REJECT", "ACK", "BYE", "BYE OK"}
  PROVE  /\ <<m, c>> \in Messages
         /\ \A n : Receive(n, c, {}) => wire' \in SUBSET Messages
         /\ \A n : Receive(n, c, {<<m, c>>}) => wire' \in SUBSET Messages
<1>1. <<m, c>> \in Messages
  BY DEF Messages
<1> QED BY <1>1 DEF Receive

\* Type correctness: in particular a timer runs only for a dialog that waits
\* for its ACK, so that none ever fails a session that is established or over.
THEOREM MediaTypeCorrect == MediaSpec => []MediaTypeOK
<1>1. MediaInit => TypeParts
  BY MediaAssumption
  DEF MediaAssumption, MediaInit, TypeParts, NoDialog, AnswerModes, MediaModes,
      Dialogs, MediaTasks, CallStates, Fates
<1>2. TypeParts /\ [MediaNext]_mediaVars => TypeParts'
  <2> SUFFICES ASSUME TypeParts, [MediaNext]_mediaVars PROVE TypeParts'
    OBVIOUS
  <2> USE DEF TypeParts, deviceVars
  <2>1. ASSUME NEW c \in Calls, Invite(c) \/ HangUp(c) PROVE TypeParts'
    BY <2>1, WireType DEF Invite, HangUp, CallStates
  <2>2. ASSUME NEW c \in Calls, AnswerArrives(c) PROVE TypeParts'
    BY <2>2, WireType DEF AnswerArrives, CallStates
  <2>3. ASSUME NEW c \in Calls, RefusalArrives(c) \/ ByeAnswered(c) PROVE TypeParts'
    BY <2>3, WireType DEF RefusalArrives, ByeAnswered, CallStates
  <2>4. ASSUME NEW c \in Calls, InviteExpires(c) \/ ByeExpires(c) PROVE TypeParts'
    BY <2>4 DEF InviteExpires, ByeExpires, CallStates
  <2>5. ASSUME NEW c \in Calls, NEW l \in BOOLEAN, Accepted(c, l)
        PROVE  /\ dialog' \in [Calls -> Dialogs]
               /\ \A d \in Calls : dialog'[d].timer => dialog'[d].status = "WAITING_ACK"
    BY <2>5 DEF Accepted, Timed, Dialogs
  <2>6. ASSUME NEW c \in Calls, InviteArrives(c) PROVE TypeParts'
    <3>1. wire' \in SUBSET Messages
      BY <2>6, WireType DEF InviteArrives
    <3>2. CASE UNCHANGED dialog
      BY <2>6, <3>1, <3>2 DEF InviteArrives
    <3>3. CASE dialog' = [dialog EXCEPT ![c] = [status |-> "delayed", timer |-> FALSE,
                                                listed |-> TRUE]]
      <4>1. /\ dialog' \in [Calls -> Dialogs]
            /\ \A d \in Calls : dialog'[d].timer => dialog'[d].status = "WAITING_ACK"
        BY <3>3 DEF Dialogs
      <4> QED BY <2>6, <3>1, <4>1 DEF InviteArrives
    <3>4. CASE Accepted(c, TRUE)
      BY <2>5, <2>6, <3>1, <3>4 DEF InviteArrives
    <3> QED BY <2>6, <3>2, <3>3, <3>4 DEF InviteArrives
  <2>7. ASSUME NEW c \in Calls, DelayEnds(c) PROVE TypeParts'
    <3>1. dialog[c].listed \in BOOLEAN
      BY DEF Dialogs
    <3> QED BY <2>5, <2>7, <3>1, WireType DEF DelayEnds
  <2>8. ASSUME NEW c \in Calls, AckArrives(c) PROVE TypeParts'
    <3>1. wire' \in SUBSET Messages
      BY <2>8, WireType DEF AckArrives
    <3>2. /\ dialog' \in [Calls -> Dialogs]
          /\ \A d \in Calls : dialog'[d].timer => dialog'[d].status = "WAITING_ACK"
      BY <2>8 DEF AckArrives, Dialogs
    <3>3. task' \in [Calls -> MediaTasks]
      BY <2>8 DEF AckArrives, MediaTasks, Pushing
    <3> QED BY <2>8, <3>1, <3>2, <3>3 DEF AckArrives
  <2>9. ASSUME NEW c \in Calls, AckExpires(c) PROVE TypeParts'
    <3>1. /\ dialog' \in [Calls -> Dialogs]
          /\ \A d \in Calls : dialog'[d].timer => dialog'[d].status = "WAITING_ACK"
      BY <2>9 DEF AckExpires, Dialogs
    <3> QED BY <2>9, <3>1 DEF AckExpires
  <2>10. ASSUME NEW t \in MediaTasks PROVE Cancelled(t) \in MediaTasks
    BY DEF Cancelled, MediaTasks, Pushing
  <2>11. ASSUME NEW c \in Calls, ByeArrives(c) PROVE TypeParts'
    <3>1. wire' \in SUBSET Messages
      BY <2>11, WireType DEF ByeArrives
    <3>2. /\ dialog' \in [Calls -> Dialogs]
          /\ \A d \in Calls : dialog'[d].timer => dialog'[d].status = "WAITING_ACK"
      <4>1. Ended(c) \in Dialogs /\ ~Ended(c).timer
        BY DEF Ended, Dialogs
      <4> QED BY <2>11, <4>1 DEF ByeArrives
    <3>3. task' \in [Calls -> MediaTasks]
      <4>1. Cancelled(task[c]) \in MediaTasks
        BY <2>10
      <4> QED BY <2>11, <4>1 DEF ByeArrives
    <3> QED BY <2>11, <3>1, <3>2, <3>3 DEF ByeArrives
  <2>12. ASSUME NEW c \in Calls, MediaBegins(c) \/ MediaConnects(c) \/ MediaEnds(c)
         PROVE  TypeParts'
    BY <2>12 DEF MediaBegins, MediaConnects, MediaEnds, MediaTasks, Pushing
  <2>13. Trouble => troubles' \in 0..Troubles
    BY MediaAssumption DEF MediaAssumption, Trouble
  <2>14. ASSUME NEW c \in Calls, NEW m, LoseMessage(m, c) PROVE TypeParts'
    <3>1. fate' \in [Calls -> Fates]
      BY <2>14 DEF LoseMessage, Fates
    <3>2. wire' \in SUBSET Messages
      BY <2>14, WireType DEF LoseMessage
    <3> QED BY <2>13, <2>14, <3>1, <3>2 DEF LoseMessage
  <2>15. ASSUME NEW a \in AnswerModes, NEW m \in MediaModes, Configure(a, m)
         PROVE  TypeParts'
    <3>1. fate' \in [Calls -> Fates]
      BY <2>15 DEF Configure, Fates
    <3> QED BY <2>13, <2>15, <3>1 DEF Configure
  <2>16. CASE ResetDialogs
    <3>1. /\ dialog' \in [Calls -> Dialogs]
          /\ \A d \in Calls : dialog'[d].timer => dialog'[d].status = "WAITING_ACK"
      <4>1. ASSUME NEW d \in Calls
            PROVE  /\ [dialog[d] EXCEPT !.listed = FALSE, !.timer = FALSE] \in Dialogs
                   /\ ~[dialog[d] EXCEPT !.listed = FALSE, !.timer = FALSE].timer
        BY DEF Dialogs
      <4> QED BY <2>16, <4>1 DEF ResetDialogs
    <3>2. call' \in [Calls -> CallStates]
      BY <2>16 DEF ResetDialogs, CallStates
    <3>3. task' \in [Calls -> MediaTasks]
      BY <2>10, <2>16 DEF ResetDialogs, SilencedBy
    <3> QED BY <2>13, <2>16, <3>1, <3>2, <3>3 DEF ResetDialogs, AnswerModes, MediaModes
  <2>17. CASE UNCHANGED mediaVars
    BY <2>17 DEF mediaVars
  <2> QED
    BY <2>1, <2>2, <2>3, <2>4, <2>6, <2>7, <2>8, <2>9, <2>11, <2>12, <2>14, <2>15,
       <2>16, <2>17
    DEF MediaNext
<1>3. TypeParts => MediaTypeOK
  BY DEF TypeParts, MediaTypeOK, Dialogs, Messages, MediaTasks, CallStates, Fates
<1> QED BY <1>1, <1>2, <1>3, PTL DEF MediaSpec

-----------------------------------------------------------------------------
(* Sessions *)

Over(c) == dialog[c].status = "TERMINATED" \/ ~dialog[c].listed

Unmet(c) == dialog[c].status \in {"none", "delayed"}

\* The properties are not inductive: that an INVITE does not take an
\* established dialog over, or a BYE a delayed one, rests on the order in which
\* a call's messages can exist at all.  A device has a dialog only after it has
\* received the INVITE, which is sent once; the Provider acknowledges and hangs
\* up only what it has an answer to.
InOrder(c) ==
    /\ call[c] = "idle" => /\ dialog[c].status = "none"
                           /\ \A m : ~Arrives(m, c)
    /\ Arrives("INVITE", c) => dialog[c].status = "none"
    /\ Unmet(c) => /\ call[c] \in {"idle", "inviting", "gone"}
                   /\ ~Arrives("OK", c) /\ ~Arrives("BYE", c)
                   /\ ~Arrives("BYE OK", c)
    /\ Arrives("OK", c) \/ Arrives("INVITE", c) \/ dialog[c].status = "delayed" =>
         call[c] \in {"inviting", "gone"}

\* A dialog that began in mode no-ack has a timer until it gets its ACK, so that
\* one without is acknowledged, unless the mode was switched meanwhile.
Acknowledged(c) ==
    dialog[c].status = "WAITING_ACK" /\ dialog[c].listed =>
        dialog[c].timer \/ fate[c] # {} \/ answer # "no-ack"

\* The properties of one call.  A BYE OK means that the session is over already.
InSession(c) ==
    /\ task[c] \in Pushing => dialog[c].status = "ESTABLISHED" /\ dialog[c].listed
    /\ flag[c] => task[c] \in {"connecting", "sending", "cancelled", "cut"}
    /\ Arrives("BYE OK", c) \/ call[c] = "closed" => Over(c)
    /\ dialog[c].status = "WAITING_ACK" /\ dialog[c].listed =>
         \/ Arrives("OK", c) \/ Arrives("ACK", c)
         \/ dialog[c].timer
         \/ fate[c] # {} \/ call[c] = "gone"

CallInv(c) == InOrder(c) /\ Acknowledged(c) /\ InSession(c)

SessionInv == \A c \in Calls : CallInv(c)

\* A step that leaves a call and the scenario alone keeps the call's invariant.
LEMMA OthersKeepInv ==
  ASSUME NEW c \in Calls, CallInv(c),
         dialog'[c] = dialog[c], task'[c] = task[c], flag'[c] = flag[c],
         call'[c] = call[c], fate'[c] = fate[c], answer' = answer,
         \A m : Arrives(m, c)' <=> Arrives(m, c)
  PROVE  CallInv(c)'
BY DEF CallInv, InOrder, Acknowledged, InSession, Unmet, Over

\* What the proofs need of the types.
LEMMA TypesInUse ==
  ASSUME MediaTypeOK
  PROVE  /\ dialog \in [Calls -> Dialogs]
         /\ \A c \in Calls : dialog[c].timer => dialog[c].status = "WAITING_ACK"
         /\ task \in [Calls -> MediaTasks] /\ flag \in [Calls -> BOOLEAN]
         /\ call \in [Calls -> CallStates] /\ fate \in [Calls -> Fates]
BY DEF MediaTypeOK, Dialogs, MediaTasks, CallStates, Fates

\* Every step of a call keeps its own invariant and does not touch other calls.
LEMMA CallKeepsInv ==
  ASSUME MediaTypeOK, SessionInv, NEW c \in Calls,
         \/ Invite(c) \/ AnswerArrives(c) \/ RefusalArrives(c) \/ InviteExpires(c)
         \/ HangUp(c) \/ ByeAnswered(c) \/ ByeExpires(c)
         \/ InviteArrives(c) \/ DelayEnds(c) \/ AckArrives(c) \/ AckExpires(c)
         \/ ByeArrives(c) \/ MediaBegins(c) \/ MediaConnects(c) \/ MediaEnds(c)
         \/ \E m : LoseMessage(m, c)
  PROVE  SessionInv'
<1> DEFINE Alone == /\ answer' = answer
                    /\ \A d \in Calls \ {c} :
                         /\ dialog'[d] = dialog[d] /\ task'[d] = task[d]
                         /\ flag'[d] = flag[d] /\ call'[d] = call[d]
                         /\ fate'[d] = fate[d]
                         /\ \A m : Arrives(m, d)' <=> Arrives(m, d)
<1> DEFINE SameDialog == /\ answer' = answer /\ fate' = fate
                         /\ dialog'[c] = dialog[c]
                         /\ task'[c] = task[c] /\ flag'[c] = flag[c]
<1>1. SUFFICES Alone /\ CallInv(c)'
  BY OthersKeepInv DEF SessionInv
<1>2. CallInv(c)
  BY DEF SessionInv
<1> HIDE DEF Alone
<1>3. CASE Invite(c)
  <2>1. Alone
    BY <1>3, TypesInUse DEF Alone, Invite, deviceVars, Receive, Arrives
  <2>2. ~Arrives("OK", c)' /\ ~Arrives("BYE", c)' /\ ~Arrives("BYE OK", c)'
    BY <1>2, <1>3 DEF Invite, Arrives, CallInv, InOrder
  <2>3. call'[c] = "inviting" /\ dialog[c].status = "none" /\ SameDialog
    BY <1>2, <1>3, TypesInUse DEF Invite, deviceVars, CallInv, InOrder
  <2>4. InOrder(c)'
    BY <1>2, <2>2, <2>3 DEF CallInv, InOrder, Unmet, Arrives
  <2>5. Acknowledged(c)' /\ InSession(c)'
    BY <1>2, <2>2, <2>3 DEF CallInv, InOrder, Acknowledged, InSession, Unmet, Over, Arrives
  <2> QED BY <2>1, <2>4, <2>5 DEF CallInv
<1>4. CASE AnswerArrives(c)
  <2>1. Alone
    BY <1>4, TypesInUse DEF Alone, AnswerArrives, deviceVars, Receive, Arrives
  <2>2. Arrives("OK", c)
    BY <1>4, TypesInUse DEF AnswerArrives, deviceVars, Receive, Arrives
  <2>3. CASE call[c] = "inviting"
    <3>1. call'[c] = "up" /\ SameDialog
      BY <1>4, <2>3, TypesInUse DEF AnswerArrives, deviceVars, Receive, Arrives
    <3>2. \A m : Arrives(m, c)' <=> (Arrives(m, c) /\ m # "OK") \/ m = "ACK"
      BY <1>4, <2>3, TypesInUse DEF AnswerArrives, deviceVars, Receive, Arrives
    <3> QED BY <1>2, <2>1, <2>2, <3>1, <3>2
            DEF CallInv, InOrder, Acknowledged, InSession, Unmet, Over, Arrives
  <2>4. CASE call[c] # "inviting"
    <3>1. call'[c] = call[c] /\ SameDialog
      BY <1>4, <2>4, TypesInUse DEF AnswerArrives, deviceVars, Receive, Arrives
    <3>2. \A m : Arrives(m, c)' <=> Arrives(m, c) /\ m # "OK"
      BY <1>4, <2>4, TypesInUse DEF AnswerArrives, deviceVars, Receive, Arrives
    <3> QED BY <1>2, <2>1, <2>2, <2>4, <3>1, <3>2
            DEF CallInv, InOrder, Acknowledged, InSession, Unmet, Over, Arrives
  <2> QED BY <2>3, <2>4
<1>5. CASE RefusalArrives(c)
  <2>1. Alone
    BY <1>5, TypesInUse DEF Alone, RefusalArrives, deviceVars, Receive, Arrives
  <2>2. /\ call'[c] = IF call[c] = "inviting" THEN "gone" ELSE call[c]
        /\ SameDialog
    BY <1>5, TypesInUse DEF RefusalArrives, deviceVars, Receive, Arrives
  <2>3. \A m : Arrives(m, c)' <=> Arrives(m, c) /\ m # "REJECT"
    BY <1>5, TypesInUse DEF RefusalArrives, deviceVars, Receive, Arrives
  <2>4. call[c] # "idle"
    BY <1>2, <1>5, TypesInUse DEF RefusalArrives, Receive, CallInv, InOrder
  <2> QED BY <1>2, <2>1, <2>2, <2>3, <2>4
          DEF CallInv, InOrder, Acknowledged, InSession, Unmet, Over, Arrives
<1>6. CASE InviteExpires(c) \/ HangUp(c) \/ ByeExpires(c)
  <2>1. Alone
    BY <1>6, TypesInUse DEF Alone, InviteExpires, HangUp, ByeExpires, deviceVars, Receive, Arrives
  <2>2. /\ \/ call[c] = "inviting" /\ call'[c] = "gone"
           \/ call[c] = "up" /\ call'[c] = "closing"
           \/ call[c] = "closing" /\ call'[c] = "unanswered"
        /\ SameDialog
    BY <1>6, TypesInUse DEF InviteExpires, HangUp, ByeExpires, deviceVars, Receive, Arrives
  <2>3. \A m : m # "BYE" => (Arrives(m, c)' <=> Arrives(m, c))
    BY <1>6 DEF InviteExpires, HangUp, ByeExpires, Arrives
  <2>4. Arrives("BYE", c)' => Arrives("BYE", c) \/ call[c] = "up"
    BY <1>6, TypesInUse DEF InviteExpires, HangUp, ByeExpires, deviceVars, Receive, Arrives
  <2> QED BY <1>2, <2>1, <2>2, <2>3, <2>4
          DEF CallInv, InOrder, Acknowledged, InSession, Unmet, Over, Arrives
<1>7. CASE ByeAnswered(c)
  <2>1. Alone
    BY <1>7, TypesInUse DEF Alone, ByeAnswered, deviceVars, Receive, Arrives
  <2>2. /\ call'[c] = IF call[c] = "closing" THEN "closed" ELSE call[c]
        /\ SameDialog
    BY <1>7, TypesInUse DEF ByeAnswered, deviceVars, Receive, Arrives
  <2>3. /\ Arrives("BYE OK", c)
        /\ \A m : Arrives(m, c)' <=> Arrives(m, c) /\ m # "BYE OK"
    BY <1>7, TypesInUse DEF ByeAnswered, deviceVars, Receive, Arrives
  <2>4. InOrder(c)'
    BY <1>2, <2>2, <2>3 DEF CallInv, InOrder, Unmet, Arrives
  <2>5. Acknowledged(c)' /\ InSession(c)'
    BY <1>2, <2>2, <2>3 DEF CallInv, InOrder, Acknowledged, InSession, Unmet, Over, Arrives
  <2> QED BY <2>1, <2>4, <2>5 DEF CallInv
<1>8. CASE InviteArrives(c)
  <2>1. Alone
    BY <1>8, TypesInUse DEF Alone, InviteArrives, Accepted, deviceVars, Receive, Arrives
  <2>2. /\ Arrives("INVITE", c) /\ ~Arrives("INVITE", c)'
        /\ \A m : m \notin {"INVITE", "OK", "REJECT"} =>
             (Arrives(m, c)' <=> Arrives(m, c))
    BY <1>8 DEF InviteArrives, Receive, Arrives
  <2>3. answer' = answer /\ task' = task /\ flag' = flag /\ call' = call /\ fate' = fate
    BY <1>8 DEF InviteArrives
  <2>4. CASE UNCHANGED dialog /\ (Arrives("OK", c)' <=> Arrives("OK", c))
    BY <1>2, <2>1, <2>2, <2>3, <2>4
    DEF CallInv, InOrder, Acknowledged, InSession, Unmet, Over, Arrives
  <2>5. /\ call[c] \in {"inviting", "gone"} /\ task[c] \notin Pushing
        /\ ~Arrives("BYE", c) /\ ~Arrives("BYE OK", c)
        /\ dialog[c].status = "none" /\ ~Arrives("OK", c)
    BY <1>2, <2>2 DEF CallInv, InOrder, InSession, Unmet
  <2>6. CASE /\ dialog'[c].status = "delayed" /\ ~Arrives("OK", c)'
    BY <1>2, <2>1, <2>2, <2>3, <2>5, <2>6
    DEF CallInv, InOrder, Acknowledged, InSession, Unmet, Over, Arrives
  <2>7. CASE /\ dialog'[c].status = "WAITING_ACK"
             /\ dialog'[c].timer <=> Timed
             /\ Arrives("OK", c)'
    BY <1>2, <2>1, <2>2, <2>3, <2>5, <2>7
    DEF CallInv, InOrder, Acknowledged, InSession, Unmet, Over, Arrives, Timed
  <2>8. CASE Receive("INVITE", c, {}) /\ UNCHANGED dialog
    BY <2>4, <2>8 DEF Receive, Arrives
  <2>9. CASE Receive("INVITE", c, {<<"REJECT", c>>}) /\ UNCHANGED dialog
    BY <2>4, <2>9 DEF Receive, Arrives
  <2>10. CASE /\ Receive("INVITE", c, {})
              /\ dialog' = [dialog EXCEPT ![c] = [status |-> "delayed", timer |-> FALSE,
                                                  listed |-> TRUE]]
    BY <2>5, <2>6, <2>10, TypesInUse DEF Receive, Arrives
  <2>11. CASE Receive("INVITE", c, {<<"OK", c>>}) /\ Accepted(c, TRUE)
    BY <2>7, <2>11, TypesInUse DEF Accepted, Receive, Arrives
  <2> QED BY <1>8, <2>8, <2>9, <2>10, <2>11 DEF InviteArrives
<1>9. CASE DelayEnds(c)
  <2>1. Alone
    BY <1>9, TypesInUse DEF Alone, DelayEnds, Accepted, Arrives
  <2>2. /\ Arrives("OK", c)'
        /\ \A m : m # "OK" => (Arrives(m, c)' <=> Arrives(m, c))
    BY <1>9 DEF DelayEnds, Arrives
  <2>3. answer' = answer /\ task' = task /\ flag' = flag /\ call' = call /\ fate' = fate
    BY <1>9 DEF DelayEnds
  <2>4. /\ dialog[c].status = "delayed"
        /\ dialog'[c].status = "WAITING_ACK" /\ dialog'[c].listed = dialog[c].listed
        /\ dialog'[c].timer <=> dialog[c].listed /\ Timed
    BY <1>9, TypesInUse DEF DelayEnds, Accepted
  <2>5. /\ call[c] \in {"inviting", "gone"} /\ task[c] \notin Pushing
        /\ ~Arrives("BYE", c) /\ ~Arrives("BYE OK", c) /\ ~Arrives("INVITE", c)
    BY <1>2, <2>4 DEF CallInv, InOrder, InSession, Unmet
  <2> QED BY <1>2, <2>1, <2>2, <2>3, <2>4, <2>5
          DEF CallInv, InOrder, Acknowledged, InSession, Unmet, Over, Arrives, Timed
<1>10. CASE AckArrives(c)
  <2>1. Alone
    BY <1>10, TypesInUse DEF Alone, AckArrives, Receive, Arrives
  <2>2. \A m : Arrives(m, c)' <=> Arrives(m, c) /\ m # "ACK"
    BY <1>10 DEF AckArrives, Receive, Arrives
  <2>3. answer' = answer /\ flag' = flag /\ call' = call /\ fate' = fate
    BY <1>10 DEF AckArrives
  <2>4. CASE AwaitsAck(c) /\ answer # "no-ack"
    <3>1. /\ dialog'[c].status = "ESTABLISHED" /\ dialog'[c].listed
          /\ task'[c] \in {task[c], "created"}
          /\ task'[c] # task[c] => task[c] = "none"
      BY <1>10, <2>4, TypesInUse DEF AckArrives, AwaitsAck, MayStart, Dialogs
    <3>2. dialog[c].status = "WAITING_ACK" /\ dialog[c].listed
      BY <2>4 DEF AwaitsAck
    <3>3. ~Arrives("INVITE", c)
      BY <1>2, <3>2 DEF CallInv, InOrder
    <3>4. call[c] # "closed" /\ ~Arrives("BYE OK", c)
      BY <1>2, <3>2 DEF CallInv, InSession, Over
    <3>5. flag'[c] => task'[c] \in {"connecting", "sending", "cancelled", "cut"}
      BY <1>2, <2>3, <3>1 DEF CallInv, InSession
    <3>6. InOrder(c)'
      BY <1>2, <2>2, <2>3, <3>1, <3>2, <3>3 DEF CallInv, InOrder, Unmet, Arrives
    <3> QED BY <2>1, <2>2, <2>3, <3>1, <3>4, <3>5, <3>6
            DEF CallInv, Acknowledged, InSession, Over, Arrives
  <2>5. CASE ~(AwaitsAck(c) /\ answer # "no-ack")
    <3>1. dialog' = dialog /\ task' = task
      BY <1>10, <2>5 DEF AckArrives
    <3> QED BY <1>2, <2>1, <2>2, <2>3, <2>5, <3>1
            DEF CallInv, InOrder, Acknowledged, InSession, Unmet, Over, Arrives, AwaitsAck
  <2> QED BY <2>4, <2>5
<1>11. CASE AckExpires(c)
  <2>1. Alone
    BY <1>11, TypesInUse DEF Alone, AckExpires, Arrives
  <2>2. /\ wire' = wire /\ answer' = answer /\ task' = task /\ flag' = flag
        /\ call' = call /\ fate' = fate
    BY <1>11 DEF AckExpires
  <2>3. /\ dialog[c].status = "WAITING_ACK"
        /\ dialog'[c].status = "FAILED" /\ dialog'[c].listed = dialog[c].listed
    BY <1>11, TypesInUse DEF AckExpires, Dialogs
  <2> QED BY <1>2, <2>1, <2>2, <2>3
          DEF CallInv, InOrder, Acknowledged, InSession, Unmet, Over, Arrives
<1>12. CASE ByeArrives(c)
  <2>1. Alone
    BY <1>12, TypesInUse DEF Alone, ByeArrives, Receive, Arrives
  <2>2. /\ Arrives("BYE", c)
        /\ \A m : m \notin {"BYE", "BYE OK"} => (Arrives(m, c)' <=> Arrives(m, c))
        /\ ~Arrives("BYE", c)'
    BY <1>12 DEF ByeArrives, Receive, Arrives
  <2>3. answer' = answer /\ flag' = flag /\ call' = call /\ fate' = fate
    BY <1>12 DEF ByeArrives
  <2>4. CASE EndedBy(c)
    <3>1. Ended(c).status = "TERMINATED"
      BY TypesInUse DEF Ended, Dialogs
    <3>2. dialog'[c] = Ended(c) /\ task'[c] = Cancelled(task[c])
      BY <1>12, <2>4, TypesInUse DEF ByeArrives
    <3> QED BY <1>2, <2>1, <2>2, <2>3, <3>1, <3>2
            DEF CallInv, InOrder, Acknowledged, InSession, Unmet, Over, Arrives,
                Pushing, Cancelled
  <2>5. CASE ~EndedBy(c)
    <3>1. dialog' = dialog /\ task' = task
      BY <1>12, <2>5 DEF ByeArrives
    <3> QED BY <1>2, <2>1, <2>2, <2>3, <2>5, <3>1
            DEF CallInv, InOrder, Acknowledged, InSession, Unmet, Over, Arrives, EndedBy
  <2> QED BY <2>4, <2>5
<1>13. CASE MediaBegins(c) \/ MediaConnects(c) \/ MediaEnds(c)
  <2>1. Alone
    BY <1>13, TypesInUse DEF Alone, MediaBegins, MediaConnects, MediaEnds, Arrives
  <2>2. /\ wire' = wire /\ answer' = answer /\ dialog' = dialog
        /\ call' = call /\ fate' = fate
    BY <1>13 DEF MediaBegins, MediaConnects, MediaEnds
  <2>3. \/ /\ task[c] \in Pushing /\ task'[c] \in {"connecting", "sending"}
        \/ task'[c] = "done" /\ flag'[c] = FALSE
    BY <1>13, TypesInUse DEF MediaBegins, MediaConnects, MediaEnds, Pushing
  <2> QED BY <1>2, <2>1, <2>2, <2>3
          DEF CallInv, InOrder, Acknowledged, InSession, Unmet, Over, Arrives, Pushing
<1>14. CASE \E m : LoseMessage(m, c)
  <2>1. PICK m : LoseMessage(m, c)
    BY <1>14
  <2>2. Alone
    BY <2>1, TypesInUse DEF Alone, LoseMessage, deviceVars, Receive, Arrives
  <2>3. \A n : Arrives(n, c)' => Arrives(n, c)
    BY <2>1 DEF LoseMessage, Receive, Arrives
  <2>4. /\ answer' = answer /\ dialog' = dialog /\ task' = task /\ flag' = flag
        /\ call' = call /\ fate'[c] # {}
    BY <2>1, TypesInUse DEF LoseMessage, deviceVars
  <2> QED BY <1>2, <2>2, <2>3, <2>4
          DEF CallInv, InOrder, Acknowledged, InSession, Unmet, Over, Arrives
<1> QED BY <1>3, <1>4, <1>5, <1>6, <1>7, <1>8, <1>9, <1>10, <1>11, <1>12, <1>13, <1>14

\* Configuring another scenario keeps the invariant: a dialog that waits for its
\* ACK remembers the switch.
LEMMA ConfigureKeepsInv ==
  ASSUME MediaTypeOK, SessionInv, NEW a, NEW m, Configure(a, m)
  PROVE  SessionInv'
<1> SUFFICES ASSUME NEW c \in Calls PROVE CallInv(c)'
  BY DEF SessionInv
<1>1. CallInv(c)
  BY DEF SessionInv
<1>2. /\ wire' = wire /\ dialog' = dialog /\ task' = task /\ flag' = flag
      /\ call' = call
      /\ dialog[c].status = "WAITING_ACK" => fate'[c] # {}
      /\ dialog[c].status # "WAITING_ACK" => fate'[c] = fate[c]
  BY TypesInUse DEF Configure
<1> QED BY <1>1, <1>2
        DEF CallInv, InOrder, Acknowledged, InSession, Unmet, Over, Arrives

\* Reset keeps the invariant: no dialog is listed and no task pushes any more.
LEMMA ResetKeepsInv ==
  ASSUME MediaTypeOK, SessionInv, ResetDialogs
  PROVE  SessionInv'
<1> SUFFICES ASSUME NEW c \in Calls PROVE CallInv(c)'
  BY DEF SessionInv
<1>1. CallInv(c)
  BY DEF SessionInv
<1>2. /\ \A m : ~Arrives(m, c)'
      /\ flag' = flag /\ task'[c] = Cancelled(task[c])
      /\ call'[c] = IF call[c] \in {"inviting", "up", "closing"} THEN "gone" ELSE call[c]
  BY TypesInUse DEF ResetDialogs, SilencedBy, Arrives
<1>3. dialog'[c].status = dialog[c].status /\ dialog'[c].listed = FALSE
  BY TypesInUse DEF ResetDialogs, Dialogs
<1>4. /\ task'[c] \notin Pushing
      /\ flag[c] => task'[c] \in {"cancelled", "cut"}
  BY <1>1, <1>2 DEF Cancelled, Pushing, CallInv, InSession
<1>5. InOrder(c)'
  BY <1>1, <1>2, <1>3 DEF CallInv, InOrder, Unmet, Arrives
<1> QED BY <1>2, <1>3, <1>4, <1>5 DEF CallInv, Acknowledged, InSession, Over, Arrives

\* SessionInv holds in every state.
LEMMA SessionInvHolds == MediaSpec => []SessionInv
<1>1. MediaInit => SessionInv
  <2> SUFFICES ASSUME MediaInit, NEW c \in Calls PROVE CallInv(c)
    BY DEF SessionInv
  <2>1. /\ dialog[c] = NoDialog /\ task[c] = "none" /\ ~flag[c] /\ call[c] = "idle"
        /\ \A m : ~Arrives(m, c)
    BY DEF MediaInit, Arrives
  <2>2. dialog[c].status = "none"
    BY <2>1 DEF NoDialog
  <2> QED BY <2>1, <2>2
          DEF CallInv, InOrder, Acknowledged, InSession, Unmet, Over, Pushing
<1>2. MediaTypeOK /\ SessionInv /\ [MediaNext]_mediaVars => SessionInv'
  <2> SUFFICES ASSUME MediaTypeOK, SessionInv, [MediaNext]_mediaVars
               PROVE  SessionInv'
    OBVIOUS
  <2>1. CASE UNCHANGED mediaVars
    BY <2>1 DEF mediaVars, SessionInv, CallInv, InOrder, Acknowledged, InSession,
                Unmet, Over, Arrives
  <2>2. CASE MediaNext
    BY <2>2, CallKeepsInv, ConfigureKeepsInv, ResetKeepsInv DEF MediaNext
  <2> QED BY <2>1, <2>2
<1> QED BY <1>1, <1>2, MediaTypeCorrect, PTL DEF MediaSpec

\* A device streams only in a session that is established and listed: neither a
\* late ACK, nor a BYE that overtakes, nor reset leaves a media task behind.
THEOREM MediaOnlyInSession == MediaSpec => []MediaHasSession
<1>1. SessionInv => MediaHasSession
  BY DEF SessionInv, CallInv, InSession, MediaHasSession
<1> QED BY <1>1, SessionInvHolds, PTL

\* A BYE that was answered has ended the session for good.
THEOREM ClosedForGood == MediaSpec => []ClosedIsOver
<1>1. SessionInv => ClosedIsOver
  BY DEF SessionInv, CallInv, InSession, ClosedIsOver, Over
<1> QED BY <1>1, SessionInvHolds, PTL

\* A dialog that waits for its ACK has one coming, a timer, or a trouble or a
\* Provider that has given up as its cause.
THEOREM NoWaitWithoutCause == MediaSpec => []WaitingHasACause
<1>1. SessionInv => WaitingHasACause
  BY DEF SessionInv, CallInv, InSession, WaitingHasACause
<1> QED BY <1>1, SessionInvHolds, PTL
=============================================================================
