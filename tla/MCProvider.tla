------------------------------ MODULE MCProvider ------------------------------
(***************************************************************************)
(* Safety of the Provider's tables: registration with two devices, the     *)
(* inventory snapshots and the RTP ports.  The three share no state, so    *)
(* their state spaces are searched side by side and not multiplied: a      *)
(* behaviour runs the part in focus and leaves the others as they start.   *)
(***************************************************************************)
EXTENDS Registration, Snapshots, RtpPorts, TLC

VARIABLE focus

providerVars == <<focus, regVars, snapVars, portVars>>

ProviderInit ==
    /\ focus \in {"registration", "snapshots", "ports"}
    /\ RegInit /\ SnapInit /\ PortInit
    /\ focus # "registration" => agreed

ProviderNext ==
    /\ UNCHANGED focus
    /\ \/ focus = "registration" /\ RegNext /\ UNCHANGED <<snapVars, portVars>>
       \/ focus = "snapshots" /\ SnapNext /\ UNCHANGED <<regVars, portVars>>
       \/ focus = "ports" /\ PortNext /\ UNCHANGED <<regVars, snapVars>>

ProviderSpec == ProviderInit /\ [][ProviderNext]_providerVars

\* The variables of every part keep their types.
ProviderTypeOK == RegTypeOK /\ SnapTypeOK /\ PortTypeOK

\* The inventory has the same devices.
ProviderSymmetry == Permutations(Devices)
=============================================================================
