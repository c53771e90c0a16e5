----------------------------- MODULE DeviceMedia -----------------------------
(***************************************************************************)
(* The sessions of one simulated device: its dialogs, from INVITE over ACK *)
(* to BYE, and the media task that pushes the stream of each of them       *)
(* (sip/simulator.py), with the Provider's calls (sip/registrar.py) as     *)
(* their other side.                                                       *)
(*                                                                         *)
(* A call stands for its Call-ID.  Messages of a call are on the way at    *)
(* the same time and arrive in any order; over TCP only a BYE, which has a *)
(* connection of its own, can overtake.  The scenario modelled is the one  *)
(* of live streams; playback has another table of the same kind.           *)
(***************************************************************************)
EXTENDS Naturals

CONSTANTS
    Calls,     \* Call-IDs
    Troubles   \* bound: lost messages, reconfigurations and resets

ASSUME MediaAssumption == Troubles \in Nat

VARIABLES
    answer,    \* LiveScenario.mode: how the device answers
    media,     \* media_mode and media_transport: what it streams, and how
    dialog,    \* DialogState of each call at the device
    task,      \* media_task of each dialog
    flag,      \* media_active of each dialog
    call,      \* the Provider's side of each call
    wire,      \* messages on their way
    fate,      \* history: what befell a call
    troubles   \* troubles still to come

mediaVars == <<answer, media, dialog, task, flag, call, wire, fate, troubles>>

AnswerModes == {"normal", "no-ack", "rejection", "drop", "delayed"}

MediaModes == {"udp", "tcp", "none"}

Pushing == {"created", "connecting", "sending"}

NoDialog == [status |-> "none", timer |-> FALSE, listed |-> FALSE]

MediaTypeOK ==
    /\ answer \in AnswerModes /\ media \in MediaModes
    /\ dialog \in [Calls -> [status : {"none", "delayed", "WAITING_ACK",
                                       "ESTABLISHED", "TERMINATED", "FAILED"},
                             timer : BOOLEAN, listed : BOOLEAN]]
    /\ task \in [Calls -> Pushing \union {"none", "cancelled", "cut", "done"}]
    /\ flag \in [Calls -> BOOLEAN]
    /\ call \in [Calls -> {"idle", "inviting", "up", "closing", "closed",
                           "unanswered", "gone"}]
    /\ wire \in SUBSET ({"INVITE", "OK", "REJECT", "ACK", "BYE", "BYE OK"}
                        \X Calls)
    /\ \A c \in Calls : dialog[c].timer => dialog[c].status = "WAITING_ACK"
    /\ fate \in [Calls -> SUBSET {"lost", "switched"}]
    /\ troubles \in 0..Troubles

MediaInit ==
    /\ answer = "normal" /\ media = "udp"
    /\ dialog = [c \in Calls |-> NoDialog]
    /\ task = [c \in Calls |-> "none"]
    /\ flag = [c \in Calls |-> FALSE]
    /\ call = [c \in Calls |-> "idle"]
    /\ wire = {}
    /\ fate = [c \in Calls |-> {}]
    /\ troubles = Troubles

Trouble == troubles > 0 /\ troubles' = troubles - 1

Arrives(m, c) == <<m, c>> \in wire

\* A handler takes a message off the wire and puts others on it.
Receive(m, c, replies) ==
    /\ Arrives(m, c)
    /\ wire' = (wire \ {<<m, c>>}) \union replies

deviceVars == <<answer, media, dialog, task, flag>>

-----------------------------------------------------------------------------
(* The Provider *)

Invite(c) ==
    /\ call[c] = "idle"
    /\ call' = [call EXCEPT ![c] = "inviting"]
    /\ wire' = wire \union {<<"INVITE", c>>}
    /\ UNCHANGED <<deviceVars, fate, troubles>>

\* The 2xx is acknowledged.  An answer that no one waits for is dropped,
\* without ACK or BYE.
AnswerArrives(c) ==
    /\ IF call[c] = "inviting"
       THEN /\ Receive("OK", c, {<<"ACK", c>>})
            /\ call' = [call EXCEPT ![c] = "up"]
       ELSE Receive("OK", c, {}) /\ UNCHANGED call
    /\ UNCHANGED <<deviceVars, fate, troubles>>

RefusalArrives(c) ==
    /\ Receive("REJECT", c, {})
    /\ call' = [call EXCEPT ![c] = IF @ = "inviting" THEN "gone" ELSE @]
    /\ UNCHANGED <<deviceVars, fate, troubles>>

InviteExpires(c) ==
    /\ call[c] = "inviting"
    /\ call' = [call EXCEPT ![c] = "gone"]
    /\ UNCHANGED <<deviceVars, wire, fate, troubles>>

\* One BYE, never repeated.
HangUp(c) ==
    /\ call[c] = "up"
    /\ call' = [call EXCEPT ![c] = "closing"]
    /\ wire' = wire \union {<<"BYE", c>>}
    /\ UNCHANGED <<deviceVars, fate, troubles>>

ByeAnswered(c) ==
    /\ Receive("BYE OK", c, {})
    /\ call' = [call EXCEPT ![c] = IF @ = "closing" THEN "closed" ELSE @]
    /\ UNCHANGED <<deviceVars, fate, troubles>>

ByeExpires(c) ==
    /\ call[c] = "closing"
    /\ call' = [call EXCEPT ![c] = "unanswered"]
    /\ UNCHANGED <<deviceVars, wire, fate, troubles>>

-----------------------------------------------------------------------------
(* Dialogs of the device *)

\* Mutation of Timed: no timer in any mode.
NeverTimed == FALSE

Timed == answer = "no-ack"

\* The dialog is created and answered with 200; the timer that ends a wait
\* for the ACK runs in mode no-ack only.
Accepted(c, listed) ==
    dialog' = [dialog EXCEPT ![c] = [status |-> "WAITING_ACK",
                                     timer |-> listed /\ Timed,
                                     listed |-> listed]]

InviteArrives(c) ==
    /\ \/ answer = "drop" /\ Receive("INVITE", c, {}) /\ UNCHANGED dialog
       \/ /\ answer = "rejection" /\ Receive("INVITE", c, {<<"REJECT", c>>})
          /\ UNCHANGED dialog
       \/ /\ answer = "delayed" /\ Receive("INVITE", c, {})
          /\ dialog' = [dialog EXCEPT ![c] = [status |-> "delayed",
                                              timer |-> FALSE, listed |-> TRUE]]
       \/ /\ answer \in {"normal", "no-ack"}
          /\ Receive("INVITE", c, {<<"OK", c>>})
          /\ Accepted(c, TRUE)
    /\ UNCHANGED <<answer, media, task, flag, call, fate, troubles>>

\* The delay is over.  After a reset the dialog goes to a table no one reads.
DelayEnds(c) ==
    /\ dialog[c].status = "delayed"
    /\ Accepted(c, dialog[c].listed)
    /\ wire' = wire \union {<<"OK", c>>}
    /\ UNCHANGED <<answer, media, task, flag, call, fate, troubles>>

\* Mutation of AwaitsAck: any dialog that is listed takes the ACK.
TakesAnyAck(c) == dialog[c].listed

AwaitsAck(c) == dialog[c].listed /\ dialog[c].status = "WAITING_ACK"

MayStart(c) == media # "none" /\ task[c] = "none"

\* In mode no-ack the device ignores it, whatever mode the dialog began in.
AckArrives(c) ==
    /\ Receive("ACK", c, {})
    /\ IF AwaitsAck(c) /\ answer # "no-ack"
       THEN /\ dialog' = [dialog EXCEPT ![c].status = "ESTABLISHED",
                                        ![c].timer = FALSE]
            /\ task' = IF MayStart(c) THEN [task EXCEPT ![c] = "created"]
                                      ELSE task
       ELSE UNCHANGED <<dialog, task>>
    /\ UNCHANGED <<answer, media, flag, call, fate, troubles>>

\* A wait for the ACK in mode no-ack ends.
AckExpires(c) ==
    /\ dialog[c].timer
    /\ dialog' = [dialog EXCEPT ![c].timer = FALSE,
                                ![c].status = IF @ = "WAITING_ACK" THEN "FAILED"
                                                                   ELSE @]
    /\ UNCHANGED <<answer, media, task, flag, call, wire, fate, troubles>>

\* A task that is cancelled sends no more; while it connects, it does not
\* come to take its flag back.
Cancelled(t) ==
    CASE t = "connecting" -> "cut" [] t \in {"created", "sending"} -> "cancelled"
      [] OTHER -> t

\* Mutation of EndedBy: only an established dialog ends.
EndedIfEstablished(c) == dialog[c].listed /\ dialog[c].status = "ESTABLISHED"

EndedBy(c) == dialog[c].listed

Ended(c) == [dialog[c] EXCEPT !.status = "TERMINATED", !.timer = FALSE]

\* BYE is always answered with 200.
ByeArrives(c) ==
    /\ Receive("BYE", c, {<<"BYE OK", c>>})
    /\ IF EndedBy(c)
       THEN /\ dialog' = [dialog EXCEPT ![c] = Ended(c)]
            /\ task' = [task EXCEPT ![c] = Cancelled(@)]
       ELSE UNCHANGED <<dialog, task>>
    /\ UNCHANGED <<answer, media, flag, call, fate, troubles>>

-----------------------------------------------------------------------------
(* Media *)

\* _media_loop begins; the TCP variant connects first.
MediaBegins(c) ==
    /\ task[c] = "created"
    /\ task' = [task EXCEPT ![c] = IF media = "tcp" THEN "connecting" ELSE "sending"]
    /\ flag' = [flag EXCEPT ![c] = TRUE]
    /\ UNCHANGED <<answer, media, dialog, call, wire, fate, troubles>>

MediaConnects(c) ==
    /\ task[c] = "connecting"
    /\ task' = [task EXCEPT ![c] = "sending"]
    /\ UNCHANGED <<answer, media, dialog, flag, call, wire, fate, troubles>>

\* The connection fails, the stream stops after its time or is cut off, or
\* the cancellation arrives.
MediaEnds(c) ==
    /\ task[c] \in {"connecting", "sending", "cancelled"}
    /\ task' = [task EXCEPT ![c] = "done"]
    /\ flag' = [flag EXCEPT ![c] = FALSE]
    /\ UNCHANGED <<answer, media, dialog, call, wire, fate, troubles>>

-----------------------------------------------------------------------------
(* Troubles *)

LoseMessage(m, c) ==
    /\ Receive(m, c, {})
    /\ fate' = [fate EXCEPT ![c] = @ \union {"lost"}]
    /\ Trouble
    /\ UNCHANGED <<deviceVars, call>>

\* configure_live: dialogs, timers and tasks are left alone.
Configure(a, m) ==
    /\ <<a, m>> # <<answer, media>>
    /\ answer' = a /\ media' = m
    /\ fate' = [c \in Calls |-> IF dialog[c].status = "WAITING_ACK"
                                THEN fate[c] \union {"switched"} ELSE fate[c]]
    /\ Trouble
    /\ UNCHANGED <<dialog, task, flag, call, wire>>

\* Mutation of SilencedBy: reset cancels the timers only.
NotSilenced(t) == t

SilencedBy(t) == Cancelled(t)

\* Reset: new tables and listeners, no call is waited for any more.  A delayed
\* answer is still to come.
ResetDialogs ==
    /\ answer' = "normal" /\ media' = "udp"
    /\ dialog' = [c \in Calls |-> [dialog[c] EXCEPT !.listed = FALSE,
                                                    !.timer = FALSE]]
    /\ task' = [c \in Calls |-> SilencedBy(task[c])]
    /\ call' = [c \in Calls |-> IF call[c] \in {"inviting", "up", "closing"}
                                THEN "gone" ELSE call[c]]
    /\ wire' = {}
    /\ Trouble
    /\ UNCHANGED <<flag, fate>>

MediaNext ==
    \/ \E c \in Calls :
         \/ Invite(c) \/ AnswerArrives(c) \/ RefusalArrives(c) \/ InviteExpires(c)
         \/ HangUp(c) \/ ByeAnswered(c) \/ ByeExpires(c)
         \/ InviteArrives(c) \/ DelayEnds(c) \/ AckArrives(c) \/ AckExpires(c)
         \/ ByeArrives(c)
         \/ MediaBegins(c) \/ MediaConnects(c) \/ MediaEnds(c)
    \/ \E m \in {"INVITE", "OK", "REJECT", "ACK", "BYE", "BYE OK"}, c \in Calls :
         LoseMessage(m, c)
    \/ \E a \in AnswerModes, m \in MediaModes : Configure(a, m)
    \/ ResetDialogs

MediaSpec == MediaInit /\ [][MediaNext]_mediaVars

\* Timers fire, and what is not lost arrives.
MediaFairness ==
    \A c \in Calls :
        /\ WF_mediaVars(AckArrives(c)) /\ WF_mediaVars(ByeArrives(c))
        /\ WF_mediaVars(ByeAnswered(c)) /\ WF_mediaVars(ByeExpires(c))
        /\ WF_mediaVars(AckExpires(c)) /\ WF_mediaVars(MediaEnds(c))

-----------------------------------------------------------------------------
(* Properties *)

\* A device streams only in a session: a media task that is not cancelled
\* belongs to a dialog that is ESTABLISHED and that the scenario lists.
\* Neither an ACK behind the BYE nor reset leaves a stream behind, and
\* media_active tells of one that is there or just being cancelled.  (Only a
\* task that is cancelled while it connects leaves the flag up.)
MediaHasSession ==
    \A c \in Calls :
        /\ task[c] \in Pushing =>
             dialog[c].status = "ESTABLISHED" /\ dialog[c].listed
        /\ flag[c] => task[c] \in {"connecting", "sending", "cancelled", "cut"}

\* A BYE that was answered has ended the session for good: no ACK that comes
\* late revives the dialog.
ClosedIsOver ==
    \A c \in Calls : call[c] = "closed" =>
        dialog[c].status = "TERMINATED" \/ ~dialog[c].listed

\* What leaves a dialog waiting for its ACK: a lost message, another scenario
\* configured behind the dialog's back, a Provider that has given up - or the
\* answer, or its ACK, is still under way.  Otherwise a timer ends the wait.
WaitingHasACause ==
    \A c \in Calls :
        dialog[c].status = "WAITING_ACK" /\ dialog[c].listed =>
            \/ Arrives("OK", c) \/ Arrives("ACK", c)
            \/ dialog[c].timer
            \/ fate[c] # {} \/ call[c] = "gone"

\* A BYE that is not lost ends the session at the device, unless reset has
\* taken the dialog away.
ByeEndsSession ==
    \A c \in Calls : call[c] = "closing" ~>
        \/ dialog[c].status = "TERMINATED" /\ task[c] \notin Pushing
        \/ ~dialog[c].listed \/ "lost" \in fate[c]
=============================================================================
