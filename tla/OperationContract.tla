-------------------------- MODULE OperationContract --------------------------
(***************************************************************************)
(* What the Provider promises a client about an asynchronous operation, as *)
(* the client sees it through submit and get: an id that was never handed  *)
(* out, an operation on its way, its outcome, or 404 for good.             *)
(*                                                                         *)
(* The outcome is given once and stands; a partial outcome has items and a *)
(* failed one has none; nothing comes back from a reset.                   *)
(***************************************************************************)

CONSTANTS Op, Item

VARIABLES view, items

ovars == <<view, items>>

Outcome == {"SUCCEEDED", "PARTIAL", "FAILED"}
Visible == {"ACCEPTED", "RUNNING"} \union Outcome

OInit ==
  /\ view = [o \in Op |-> "UNKNOWN"]
  /\ items = [o \in Op |-> {}]

OAccept(o) ==
  /\ view[o] = "UNKNOWN"
  /\ view' = [view EXCEPT ![o] = "ACCEPTED"]
  /\ UNCHANGED items

ORun(o) ==
  /\ view[o] = "ACCEPTED"
  /\ view' = [view EXCEPT ![o] = "RUNNING"]
  /\ UNCHANGED items

\* An operation that cannot even ask its device fails without being seen RUNNING.
OEnd(o, outcome) ==
  /\ \/ view[o] = "RUNNING"
     \/ view[o] = "ACCEPTED" /\ outcome = "FAILED"
  /\ view' = [view EXCEPT ![o] = outcome]
  /\ items' = [items EXCEPT ![o] = items'[o]]
  /\ items'[o] \subseteq Item
  /\ outcome = "PARTIAL" => items'[o] # {}
  /\ outcome = "FAILED" => items'[o] = {}

OReset ==
  /\ view' = [o \in Op |-> IF view[o] \in Visible THEN "GONE" ELSE view[o]]
  /\ items' = [o \in Op |-> {}]

ONext ==
  \/ \E o \in Op : \/ OAccept(o) \/ ORun(o)
                   \/ \E outcome \in Outcome : OEnd(o, outcome)
  \/ OReset

OSpec == OInit /\ [][ONext]_ovars
=============================================================================
