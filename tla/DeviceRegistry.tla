--------------------------- MODULE DeviceRegistry ---------------------------
(***************************************************************************)
(* What a driver's table of devices promises: devices come and go one at a *)
(* time, a change never touches another device, and there are never more   *)
(* than it has room for.                                                   *)
(***************************************************************************)
EXTENDS Integers, FiniteSets

CONSTANTS
  Devices,      \* the devices that may be connected
  Capacity      \* how many there is room for

VARIABLE connected

TypeOK == connected \subseteq Devices

Init == connected = {}

Connect(d) ==
  /\ d \notin connected
  /\ Cardinality(connected) < Capacity
  /\ connected' = connected \union {d}

Disconnect(d) ==
  /\ d \in connected
  /\ connected' = connected \ {d}

Next == \E d \in Devices : Connect(d) \/ Disconnect(d)

Spec == Init /\ [][Next]_connected
=============================================================================
