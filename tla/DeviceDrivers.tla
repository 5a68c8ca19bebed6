--------------------------- MODULE DeviceDrivers ----------------------------
(***************************************************************************)
(* The USB and the network driver over one port layer.  Their callers      *)
(* interleave; the drivers share no variable, only the ports 0xE000 and    *)
(* 0xE004, which each writes, and the bound MAX_IO_PORTS of the port layer *)
(* beneath both (rt_drivers.h).                                            *)
(***************************************************************************)
EXTENDS USBDevices

CONSTANTS NET_MAX_DEVICES, MACs, IPs, MaxAdded

\* num_devices of the network driver is an RT_U8, too.
ASSUME NetworkAssumption ==
  /\ NET_MAX_DEVICES \in 1..255
  /\ MaxAdded \in Nat

VARIABLES net_state, net_devices, net_delivered, added

N == INSTANCE NetworkDevices
  WITH state <- net_state, devices <- net_devices, delivered <- net_delivered

netVars == <<net_state, net_devices, net_delivered, added>>
allVars == <<vars, netVars>>

AllInit == Init /\ N!Init

AllNext ==
  \/ Next /\ UNCHANGED netVars
  \/ N!Next /\ UNCHANGED vars

AllSpec == AllInit /\ [][AllNext]_allVars

-----------------------------------------------------------------------------
(* The properties of the network driver, over the variables of this module. *)

\* Both tables stay within their size, and hold what their type allows.
AllTypeOK == TypeOK /\ N!TypeOK

\* A pointer handed out by Network_FindDevice stays good, and its address
\* keeps finding that device, whatever either driver does.
NetworkPointersNeverMove == N!PointersNeverMove
=============================================================================
