--------------------------- MODULE NetworkDevices ---------------------------
(***************************************************************************)
(* The network driver (network_driver.c): the table of devices, sending    *)
(* and receiving.  Like the USB driver it has no interrupt handler and no  *)
(* lock.  Addresses are numbers here; 0 is the address of zero bytes only. *)
(* The content of packets is left out.                                     *)
(*                                                                         *)
(* NET_MAX_DEVICES is in 1..255 (num_devices is an RT_U8), MaxAdded a      *)
(* number, MACs and IPs are sets of numbers.                               *)
(***************************************************************************)
EXTENDS Integers, Sequences, SequencesExt

CONSTANTS
  NET_MAX_DEVICES,   \* size of the table
  MACs,              \* the MAC addresses callers use, 0 is the zero address
  IPs,               \* the IP addresses callers use, 0 is the zero address
  MAX_IO_PORTS,      \* ports from here on are refused by IO_IsValidPort
  MaxAdded           \* bound: how many devices are ever added

VARIABLES
  state,             \* driver->base.state
  devices,           \* the first num_devices entries of driver->devices
  delivered,         \* the last packet was written to or read from hardware
  added              \* history: how many devices were added

vars == <<state, devices, delivered, added>>

IsValidMAC(mac) == mac # 0
IsValidIP(ip) == ip # 0

Device == [mac : MACs \ {0}, ip : IPs \ {0}, number : 1..MaxAdded]

TypeOK ==
  /\ state \in {"UNINITIALIZED", "READY"}
  /\ devices \in Seq(Device) /\ Len(devices) <= NET_MAX_DEVICES
  /\ delivered \in BOOLEAN
  /\ added \in 0..MaxAdded

Init ==
  /\ state = "UNINITIALIZED"
  /\ devices = <<>>
  /\ delivered = TRUE
  /\ added = 0

-----------------------------------------------------------------------------
Network_Init ==
  /\ state' = "READY"
  /\ UNCHANGED <<devices, delivered, added>>

\* The slot of the first entry with that address, 0 for NULL.
Network_FindDevice(mac) == SelectInSeq(devices, LAMBDA d : d.mac = mac)

\* Mutant: a device replaces the one with its address.
Former_Replaced(mac) == SelectSeq(devices, LAMBDA d : d.mac # mac)
\* What stays of the table when a device is added: a duplicate is admitted.
Former(mac) == devices

Network_AddDevice(mac, ip) ==
  /\ Len(devices) < NET_MAX_DEVICES
  /\ IsValidMAC(mac) /\ IsValidIP(ip)
  /\ added < MaxAdded
  /\ added' = added + 1
  /\ devices' = Append(Former(mac),
                       [mac |-> mac, ip |-> ip, number |-> added + 1])
  /\ UNCHANGED <<state, delivered>>

Accepted(ports) == \A p \in ports : p < MAX_IO_PORTS

\* 0xE000, 0xE004 and 0xE008: packet address, packet length, send command.
\* The result is RT_SUCCESS.
Network_SendPacket(mac) ==
  /\ IsValidMAC(mac)
  /\ delivered' = Accepted({57344, 57348, 57352})
  /\ UNCHANGED <<state, devices, added>>

\* A read the port layer refuses yields 0: the packet is then copied from
\* address 0.  The result is RT_SUCCESS.
Network_ReceivePacket ==
  /\ delivered' = Accepted({57344, 57348})
  /\ UNCHANGED <<state, devices, added>>

Next ==
  \/ Network_Init
  \/ Network_ReceivePacket
  \/ \E mac \in MACs :
       \/ Network_SendPacket(mac)
       \/ \E ip \in IPs : Network_AddDevice(mac, ip)

Spec == Init /\ [][Next]_vars

-----------------------------------------------------------------------------
(* Properties.                                                             *)

\* A pointer handed out by Network_FindDevice stays good, and the address
\* keeps finding that device: the table only grows at its end.
PointersNeverMove ==
  [][\A mac \in MACs :
       LET slot == Network_FindDevice(mac)
       IN slot # 0 => /\ Network_FindDevice(mac)' = slot
                      /\ devices'[slot] = devices[slot]]_vars
=============================================================================
