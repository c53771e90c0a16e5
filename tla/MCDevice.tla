------------------------------- MODULE MCDevice -------------------------------
(***************************************************************************)
(* One simulated device, liveness included: its registration, its online   *)
(* status, its sessions and the packets it sends.  The parts share no      *)
(* state, so their state spaces are searched side by side: a behaviour     *)
(* runs the part in focus and leaves the others as they start.             *)
(***************************************************************************)
EXTENDS Registration, DeviceStatus, DeviceMedia, RtpPackets

VARIABLE focus

oneDeviceVars == <<focus, regVars, statusVars, mediaVars, packetVars>>

\* What is not in focus has one initial state.
OneDeviceInit ==
    /\ focus \in {"registration", "status", "sessions", "packets"}
    /\ RegInit /\ DevInit /\ MediaInit /\ PacketInit
    /\ focus # "registration" => agreed
    /\ focus # "packets" => /\ \A i \in DOMAIN fixture : fixture[i] = 1
                            /\ mtu = 2 /\ audio = 0

OneDeviceNext ==
    /\ UNCHANGED focus
    /\ \/ /\ focus = "registration" /\ RegNext
          /\ UNCHANGED <<statusVars, mediaVars, packetVars>>
       \/ /\ focus = "status" /\ DevNext
          /\ UNCHANGED <<regVars, mediaVars, packetVars>>
       \/ /\ focus = "sessions" /\ MediaNext
          /\ UNCHANGED <<regVars, statusVars, packetVars>>
       \/ /\ focus = "packets" /\ PacketNext
          /\ UNCHANGED <<regVars, statusVars, mediaVars>>

\* At the start of a part none of its fair actions can change its state, so
\* this asks nothing of the parts that are not in focus.
OneDeviceFairness == RegFairness /\ DevFairness /\ MediaFairness

OneDeviceSpec ==
    OneDeviceInit /\ [][OneDeviceNext]_oneDeviceVars /\ OneDeviceFairness

\* The variables of every part keep their types.
DeviceTypeOK == DevTypeOK /\ MediaTypeOK /\ PacketTypeOK
=============================================================================
