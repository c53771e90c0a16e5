------------------------------ MODULE RtpPorts ------------------------------
(***************************************************************************)
(* The allocation of RTP ports: the cursor of ZlmClient (zlm_client.py)    *)
(* and the streams that reserve a port, send it to the device in the       *)
(* INVITE, and open a server on it at the media server after the answer    *)
(* (_establish_live_stream, _establish_playback_stream in service.py).     *)
(* Nothing records which ports are taken: the media server refuses to open *)
(* one that is.                                                            *)
(***************************************************************************)
EXTENDS Integers

CONSTANTS
    Streams,    \* streams being established or established
    Low, High   \* zlm_rtp_port_range

ASSUME PortAssumption == Low \in Nat /\ High \in Nat /\ Low <= High

VARIABLES
    cursor,      \* _next_port
    held,        \* the port of each stream, and whether its server is open
    latest,      \* history: the stream that was last to reserve a port
    drawn,       \* history: reservations so far, up to one round and one more
    overlapped   \* history: a server opened when its port was not the last

portVars == <<cursor, held, latest, drawn, overlapped>>

Ports == Low..High

RangeSize == High - Low + 1

NoPort == [pc |-> "none", port |-> Low]

PortTypeOK ==
    /\ cursor \in Ports
    /\ held \in [Streams -> [pc : {"none", "reserved", "open"}, port : Ports]]
    /\ latest \in Streams \union {"none"}
    /\ drawn \in 0..RangeSize + 1
    /\ overlapped \in BOOLEAN

PortInit ==
    /\ cursor = Low
    /\ held = [s \in Streams |-> NoPort]
    /\ latest = "none"
    /\ drawn = 0
    /\ overlapped = FALSE

Wrapped(p) == IF p > High THEN Low ELSE p

\* Mutation of PastPort: the cursor stays on the port that was opened.
OnPort(p) == p

PastPort(p) == p + 1

\* next_rtp_port, before the INVITE.
Reserve(s) ==
    /\ held[s].pc = "none"
    /\ held' = [held EXCEPT ![s] = [pc |-> "reserved", port |-> cursor]]
    /\ cursor' = Wrapped(cursor + 1)
    /\ latest' = s
    /\ drawn' = IF drawn > RangeSize THEN drawn ELSE drawn + 1
    /\ UNCHANGED overlapped

\* _mark_port_used: a port behind the cursor takes the cursor back.
MarkUsed(p) == IF p < cursor THEN Wrapped(PastPort(p)) ELSE cursor

Occupied(p) == \E s \in Streams : held[s] = [pc |-> "open", port |-> p]

\* openRtpServer, after the device's answer.
OpenServer(s) ==
    /\ held[s].pc = "reserved" /\ ~Occupied(held[s].port)
    /\ held' = [held EXCEPT ![s].pc = "open"]
    /\ cursor' = MarkUsed(held[s].port)
    /\ overlapped' = (overlapped \/ latest # s)
    /\ UNCHANGED <<latest, drawn>>

\* No answer, a refusal, a port that is taken, or the end of the stream.
Release(s) ==
    /\ held[s].pc # "none"
    /\ held' = [held EXCEPT ![s] = NoPort]
    /\ UNCHANGED <<cursor, latest, drawn, overlapped>>

PortNext == \E s \in Streams : Reserve(s) \/ OpenServer(s) \/ Release(s)

PortSpec == PortInit /\ [][PortNext]_portVars

-----------------------------------------------------------------------------
(* Properties *)

\* As long as streams are established one after the other, and the range has
\* not been used up once, no two streams are told the same port.  (With two at
\* a time MarkUsed hands out a reserved port again; after a round the cursor
\* does not look which ports are still in use.)
PortsAreDistinct ==
    drawn <= RangeSize /\ ~overlapped =>
        \A s, t \in Streams :
            held[s].pc # "none" /\ held[t].pc # "none"
                /\ held[s].port = held[t].port => s = t
=============================================================================
