--------------------------- MODULE StreamContract ---------------------------
(***************************************************************************)
(* What the Provider promises a client about its streams, as the client    *)
(* sees them through start, get and stop: a key that was never handed out, *)
(* a stream in one of its three visible states, or 404 for good.           *)
(*                                                                         *)
(* A key once gone never answers again; FAILED is final; a stream becomes  *)
(* STREAMING from STARTING only; a channel has at most one live stream     *)
(* that is starting or streaming; and a stream keeps the request it was    *)
(* created for.                                                            *)
(***************************************************************************)

CONSTANTS
  Key, Request, NoRequest,
  Exclusive,    \* the requests that share one stream per channel
  Optimistic    \* TRUE: STREAMING is reported before the call is answered

VARIABLES view, req

cvars == <<view, req>>

Visible == {"STARTING", "STREAMING", "FAILED"}
IsActive(k) == view[k] \in {"STARTING", "STREAMING"}

CInit ==
  /\ view = [k \in Key |-> "UNKNOWN"]
  /\ req = [k \in Key |-> NoRequest]

CStart(k, r) ==
  /\ view[k] = "UNKNOWN"
  /\ r \in Exclusive => \A j \in Key : IsActive(j) => req[j] # r
  /\ view' = [view EXCEPT ![k] = IF Optimistic THEN "STREAMING" ELSE "STARTING"]
  /\ req' = [req EXCEPT ![k] = r]

CStream(k) ==
  /\ view[k] = "STARTING"
  /\ view' = [view EXCEPT ![k] = "STREAMING"]
  /\ UNCHANGED req

CFail(k) ==
  /\ view[k] = IF Optimistic THEN "STREAMING" ELSE "STARTING"
  /\ view' = [view EXCEPT ![k] = "FAILED"]
  /\ UNCHANGED req

CStop(k) ==
  /\ view[k] \in Visible
  /\ view' = [view EXCEPT ![k] = "GONE"]
  /\ UNCHANGED req

CReset ==
  /\ view' = [k \in Key |-> IF view[k] \in Visible THEN "GONE" ELSE view[k]]
  /\ UNCHANGED req

CNext ==
  \/ \E k \in Key : \/ \E r \in Request : CStart(k, r)
                    \/ CStream(k) \/ CFail(k) \/ CStop(k)
  \/ CReset

CSpec == CInit /\ [][CNext]_cvars
=============================================================================
