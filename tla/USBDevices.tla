----------------------------- MODULE USBDevices -----------------------------
(***************************************************************************)
(* The USB driver (usb_driver.c): the table of attached devices, the       *)
(* pointers into it that USB_FindDevice hands out, and the commands the    *)
(* driver writes to its controller.  The driver has no interrupt handler   *)
(* and no lock: its operations run one after the other.                    *)
(*                                                                         *)
(* A device is its address, which its owner chose, and a number that tells *)
(* it from every other one.  The owner has set both callbacks.  What a     *)
(* command says is left out; what counts is whether it is written at all.  *)
(***************************************************************************)
EXTENDS Integers, Sequences, SequencesExt

CONSTANTS
  USB_MAX_DEVICES,   \* size of the table
  Addresses,         \* the addresses owners give their devices: RT_U8
  MAX_IO_PORTS,      \* ports from here on are refused by IO_IsValidPort
  MaxAttached        \* bound: how many devices are ever attached

ASSUME USBAssumption ==
  /\ USB_MAX_DEVICES \in 1..255
  /\ Addresses \subseteq 0..255
  /\ MAX_IO_PORTS \in Nat
  /\ MaxAttached \in Nat

VARIABLES
  state,             \* driver->base.state
  devices,           \* the first num_devices entries of driver->devices
  pointer,           \* what the last successful USB_FindDevice returned
  delivered,         \* the last transfer was written to the controller
  attached,          \* history: how many devices were attached
  reported           \* history: connections minus disconnections reported

vars == <<state, devices, pointer, delivered, attached, reported>>

Device == [address : Addresses, number : 1..MaxAttached]

\* slot 0 is NULL; moved tells whether an entry at or below the slot went.
Pointer == [slot : 0..USB_MAX_DEVICES, number : 0..MaxAttached, moved : BOOLEAN]
Null == [slot |-> 0, number |-> 0, moved |-> FALSE]

TypeOK ==
  /\ state \in {"UNINITIALIZED", "READY"}
  /\ devices \in Seq(Device) /\ Len(devices) <= USB_MAX_DEVICES
  /\ pointer \in Pointer
  /\ delivered \in BOOLEAN
  /\ attached \in 0..MaxAttached
  /\ reported \in [Addresses -> Nat]

Init ==
  /\ state = "UNINITIALIZED"
  /\ devices = <<>>
  /\ pointer = Null
  /\ delivered = TRUE
  /\ attached = 0
  /\ reported = [a \in Addresses |-> 0]

-----------------------------------------------------------------------------
(* Commands.  The port layer drops a write to an invalid port silently.    *)

\* 0xCF8, 0xCFC, 0xE000 and 0xE004: the ports of a transfer.
TransferPorts == {3320, 3324, 57344, 57348}
Accepted(ports) == \A p \in ports : p < MAX_IO_PORTS

\* The reset of the port writes fixed values and reads nothing back.
USB_Init ==
  /\ state' = "READY"
  /\ UNCHANGED <<devices, pointer, delivered, attached, reported>>

\* USB_SendData and USB_ReceiveData: whatever the state of the driver, and
\* whether or not the address is in the table; the result is RT_SUCCESS.
USB_Transfer ==
  /\ delivered' = Accepted(TransferPorts)
  /\ UNCHANGED <<state, devices, pointer, attached, reported>>

-----------------------------------------------------------------------------
(* The table.                                                              *)

\* The slot of the first entry with that address, 0 if there is none.
USB_FindDevice(address) ==
  IF address < USB_MAX_DEVICES
  THEN SelectInSeq(devices, LAMBDA d : d.address = address)
  ELSE 0

Find(address) ==
  /\ USB_FindDevice(address) # 0
  /\ pointer' = [slot |-> USB_FindDevice(address),
                 number |-> devices[USB_FindDevice(address)].number,
                 moved |-> FALSE]
  /\ UNCHANGED <<state, devices, delivered, attached, reported>>

\* Mutant: the test for a full table is off by one.
HasRoom_OffByOne == Len(devices) <= USB_MAX_DEVICES
HasRoom == Len(devices) < USB_MAX_DEVICES

\* Mutant: the new entry comes first.
With_Front(d) == <<d>> \o devices
With(d) == Append(devices, d)

\* The descriptor read first is part of what a device says of itself, which
\* is left out; the reading cannot fail.
USB_AttachDevice(address) ==
  /\ HasRoom
  /\ attached < MaxAttached
  /\ attached' = attached + 1
  /\ devices' = With([address |-> address, number |-> attached + 1])
  /\ reported' = [reported EXCEPT ![address] = @ + 1]
  /\ UNCHANGED <<state, pointer, delivered>>

\* The entries above the slot move down; nobody tells the pointers.
Moved(slot) == [pointer EXCEPT !.moved = @ \/ pointer.slot >= slot]

\* Mutant: every entry with that address goes.
Without_All(slot) ==
  SelectSeq(devices, LAMBDA d : d.address # devices[slot].address)
Without(slot) == RemoveAt(devices, slot)

USB_DetachDevice(address) ==
  LET slot == USB_FindDevice(address)
  IN /\ slot # 0
     /\ devices' = Without(slot)
     /\ pointer' = Moved(slot)
     /\ reported' = [reported EXCEPT ![address] = @ - 1]
     /\ UNCHANGED <<state, delivered, attached>>

Next ==
  \/ USB_Init
  \/ USB_Transfer
  \/ \E a \in Addresses : Find(a) \/ USB_AttachDevice(a) \/ USB_DetachDevice(a)

Spec == Init /\ [][Next]_vars

-----------------------------------------------------------------------------
(* Properties.                                                             *)

Entries(a) == {n \in 1..Len(devices) : devices[n].address = a}

\* What the callbacks told the owner is what the table holds: for every
\* address, connections minus disconnections is the number of its entries,
\* also when two devices share an address.
ReportsMatchTable ==
  \A a \in Addresses : reported[a] = Cardinality(Entries(a))

\* A pointer handed out by USB_FindDevice names the device it was found for
\* until a device in its slot or in an earlier one is detached, and so long
\* that device is the one of its address that has been attached longest.
PointersHoldUntilMoved ==
  pointer # Null /\ ~pointer.moved =>
    /\ pointer.slot <= Len(devices)
    /\ devices[pointer.slot].number = pointer.number
    /\ \A n \in Entries(devices[pointer.slot].address) :
         devices[n].number >= pointer.number

\* The table of devices as a registry.
Registry == INSTANCE DeviceRegistry
  WITH Devices <- 1..MaxAttached, Capacity <- USB_MAX_DEVICES,
       connected <- {devices[n].number : n \in 1..Len(devices)}

\* Devices come and go one at a time and never touch one another.
ImplementsRegistry == Registry!Spec
=============================================================================
