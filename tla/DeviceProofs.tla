---------------------------- MODULE DeviceProofs ----------------------------
(***************************************************************************)
(* Proofs about the tables of the USB and the network driver, for tables   *)
(* of any size, any addresses and any number of devices.                   *)
(***************************************************************************)
EXTENDS DeviceDrivers, SequenceLemmas

-----------------------------------------------------------------------------
(* The table of the USB driver.  Numbers grow along the table; with that,  *)
(* the entry USB_FindDevice finds is the oldest of its address, and an     *)
(* entry that goes is the only one with its number.  A pointer other than  *)
(* NULL has a slot, which its owner's detachments are compared with.       *)

NumbersGrow ==
  /\ \A n \in 1..Len(devices) : devices[n].number <= attached
  /\ \A m, n \in 1..Len(devices) : m < n => devices[m].number < devices[n].number

PointerHasSlot == pointer # Null => pointer.slot >= 1

\* The variables but reported, which is a number for each address because it
\* is the number of entries.
TableTypeOK ==
  /\ state \in {"UNINITIALIZED", "READY"}
  /\ devices \in Seq(Device) /\ Len(devices) <= USB_MAX_DEVICES
  /\ pointer \in Pointer
  /\ attached \in 0..MaxAttached

ReportsCount == reported = [a \in Addresses |-> Cardinality(Entries(a))]

USBInv ==
  /\ TableTypeOK
  /\ NumbersGrow
  /\ PointerHasSlot
  /\ ReportsCount
  /\ PointersHoldUntilMoved

LEMMA SizesType == USB_MAX_DEVICES \in Nat /\ MaxAttached \in Nat
BY USBAssumption

\* What the table looks like from outside.
LEMMA TableEntries ==
  ASSUME TableTypeOK
  PROVE  /\ Len(devices) \in Nat
         /\ \A n \in 1..Len(devices) :
              /\ devices[n] \in Device
              /\ devices[n].address \in Addresses
              /\ devices[n].number \in 1..MaxAttached
              /\ devices[n].number \in Nat
<1>1. devices \in Seq(Device)
  BY DEF TableTypeOK
<1>2. Len(devices) \in Nat /\ \A n \in 1..Len(devices) : devices[n] \in Device
  BY <1>1, LenProperties, ElementOfSeq
<1> QED
  BY <1>2, USBAssumption DEF Device

LEMMA FindDevice ==
  ASSUME TableTypeOK, NEW a \in Addresses, USB_FindDevice(a) # 0
  PROVE  /\ USB_FindDevice(a) \in Entries(a)
         /\ \A n \in Entries(a) : USB_FindDevice(a) <= n
<1>1. Entries(a) \in SUBSET Nat
  BY TableEntries DEF Entries
<1>2. Entries(a) # {} /\ USB_FindDevice(a) = Min(Entries(a))
  BY DEF USB_FindDevice, SelectInSeq, Entries
<1> QED
  BY <1>1, <1>2, MinIsLeast

LEMMA EntriesFinite ==
  ASSUME TableTypeOK, NEW a
  PROVE  IsFiniteSet(Entries(a)) /\ Cardinality(Entries(a)) \in Nat
<1>1. IsFiniteSet(1..Len(devices)) /\ Entries(a) \in SUBSET (1..Len(devices))
  BY TableEntries, FS_Interval DEF Entries
<1> QED
  BY <1>1, FS_Subset, FS_CardinalityType

-----------------------------------------------------------------------------
(* USB_AttachDevice puts the new entry at the end.                         *)

LEMMA AttachTable ==
  ASSUME TableTypeOK, NEW a \in Addresses, USB_AttachDevice(a)
  PROVE  /\ devices' \in Seq(Device) /\ Len(devices') = Len(devices) + 1
         /\ \A n \in 1..Len(devices) : devices'[n] = devices[n]
         /\ devices'[Len(devices) + 1].address = a
         /\ devices'[Len(devices) + 1].number = attached + 1
<1>1. [address |-> a, number |-> attached + 1] \in Device
  BY USBAssumption DEF USB_AttachDevice, TableTypeOK, Device
<1>2. devices \in Seq(Device)
  BY DEF TableTypeOK
<1> QED
  BY <1>1, <1>2, AppendProperties DEF USB_AttachDevice, With

LEMMA AttachEntries ==
  ASSUME TableTypeOK, NEW a \in Addresses, USB_AttachDevice(a),
         NEW b \in Addresses
  PROVE  Cardinality(Entries(b))' = IF b = a THEN Cardinality(Entries(b)) + 1
                                             ELSE Cardinality(Entries(b))
<1> DEFINE last == Len(devices) + 1
<1>1. /\ Len(devices) \in Nat /\ Len(devices') = last
      /\ \A n \in 1..Len(devices) : devices'[n] = devices[n]
      /\ devices'[last].address = a
  BY AttachTable, TableEntries
<1>2. 1..last = (1..Len(devices)) \union {last} /\ last \notin 1..Len(devices)
  BY <1>1
<1>3. Entries(b)' = IF b = a THEN Entries(b) \union {last} ELSE Entries(b)
  BY <1>1, <1>2 DEF Entries
<1>4. last \notin Entries(b)
  BY <1>2 DEF Entries
<1> QED
  BY <1>3, <1>4, EntriesFinite, FS_AddElement

-----------------------------------------------------------------------------
(* USB_DetachDevice closes the gap.                                        *)

\* Where the entry at n of the table without the one at slot was before.
Before(slot, n) == IF n < slot THEN n ELSE n + 1

LEMMA DetachTable ==
  ASSUME TableTypeOK, NEW slot \in 1..Len(devices), devices' = Without(slot)
  PROVE  /\ devices' \in Seq(Device) /\ Len(devices') = Len(devices) - 1
         /\ \A n \in 1..Len(devices') :
              /\ Before(slot, n) \in (1..Len(devices)) \ {slot}
              /\ devices'[n] = devices[Before(slot, n)]
<1>1. devices \in Seq(Device) /\ Len(devices) \in Nat
  BY TableEntries DEF TableTypeOK
<1>2. /\ devices' \in Seq(Device) /\ Len(devices') = Len(devices) - 1
      /\ \A n \in 1..(Len(devices) - 1) :
           devices'[n] = IF n < slot THEN devices[n] ELSE devices[n + 1]
  BY <1>1, RemoveAtProperties DEF Without
<1>3. ASSUME NEW n \in 1..Len(devices')
      PROVE  /\ Before(slot, n) \in (1..Len(devices)) \ {slot}
             /\ devices'[n] = devices[Before(slot, n)]
  <2>1. CASE n < slot
    BY <1>1, <1>2, <2>1 DEF Before
  <2>2. CASE ~(n < slot)
    BY <1>1, <1>2, <2>2 DEF Before
  <2> QED
    BY <2>1, <2>2
<1> QED
  BY <1>2, <1>3

\* Every other entry of the former table is in the new one.
LEMMA DetachKeeps ==
  ASSUME TableTypeOK, NEW slot \in 1..Len(devices), devices' = Without(slot),
         NEW m \in (1..Len(devices)) \ {slot}
  PROVE  \E n \in 1..Len(devices') : Before(slot, n) = m
<1>1. Len(devices) \in Nat /\ Len(devices') = Len(devices) - 1
  BY DetachTable, TableEntries
<1>2. CASE m < slot
  <2>1. m \in 1..Len(devices') /\ Before(slot, m) = m
    BY <1>1, <1>2 DEF Before
  <2> QED
    BY <2>1
<1>3. CASE m > slot
  <2>1. m - 1 \in 1..Len(devices') /\ Before(slot, m - 1) = m
    BY <1>1, <1>3 DEF Before
  <2> QED
    BY <2>1
<1> QED
  BY <1>1, <1>2, <1>3

LEMMA BeforeGrows ==
  ASSUME NEW slot \in Nat, NEW m \in Nat, NEW n \in Nat, m < n
  PROVE  Before(slot, m) < Before(slot, n)
BY DEF Before

LEMMA DetachEntries ==
  ASSUME TableTypeOK, NEW slot \in 1..Len(devices), devices' = Without(slot),
         NEW b \in Addresses
  PROVE  Cardinality(Entries(b))' =
           IF b = devices[slot].address THEN Cardinality(Entries(b)) - 1
                                        ELSE Cardinality(Entries(b))
<1> DEFINE f == [n \in Entries(b)' |-> Before(slot, n)]
           others == Entries(b) \ {slot}
<1>1. Len(devices) \in Nat /\ Len(devices') \in Nat
  BY DetachTable, TableEntries
<1>2. \A n \in Entries(b)' : n \in Nat /\ Before(slot, n) \in others
  BY <1>1, DetachTable DEF Entries
<1>3. \A m, n \in Entries(b)' : f[m] = f[n] => m = n
  <2> SUFFICES ASSUME NEW m \in Entries(b)', NEW n \in Entries(b)', f[m] = f[n],
                      m # n
               PROVE  FALSE
    OBVIOUS
  <2>1. Before(slot, m) = Before(slot, n) /\ m \in Nat /\ n \in Nat
    BY <1>2
  <2> QED
    BY <2>1 DEF Before
<1>4. \A m \in others : \E n \in Entries(b)' : f[n] = m
  <2> TAKE m \in others
  <2>1. PICK n \in 1..Len(devices') : Before(slot, n) = m
    BY DetachKeeps DEF Entries
  <2>2. n \in Entries(b)'
    BY <2>1, DetachTable DEF Entries
  <2> QED
    BY <2>1, <2>2
<1>5. ExistsBijection(Entries(b)', others)
  <2>1. f \in Bijection(Entries(b)', others)
    BY <1>2, <1>3, <1>4 DEF Bijection, Injection, IsInjective, Surjection
  <2> QED
    BY <2>1 DEF ExistsBijection
<1>6. IsFiniteSet(Entries(b)')
  <2>1. IsFiniteSet(1..Len(devices'))
    BY <1>1, FS_Interval
  <2>2. Entries(b)' \in SUBSET (1..Len(devices'))
    BY DEF Entries
  <2> QED
    BY <2>1, <2>2, FS_Subset
<1>7. Cardinality(Entries(b)') = Cardinality(others)
  BY <1>5, <1>6, FS_Bijection
<1>8. slot \in Entries(b) <=> b = devices[slot].address
  BY DEF Entries
<1>9. Cardinality(others) = IF slot \in Entries(b) THEN Cardinality(Entries(b)) - 1
                                                  ELSE Cardinality(Entries(b))
  BY EntriesFinite, FS_RemoveElement
<1> QED
  BY <1>7, <1>8, <1>9

-----------------------------------------------------------------------------
(* The invariant, action by action.                                        *)

LEMMA USBInvInit == Init => USBInv
<1> SUFFICES ASSUME Init PROVE USBInv
  OBVIOUS
<1>1. devices = <<>> /\ Len(devices) = 0 /\ 1..Len(devices) = {}
  BY DEF Init
<1>2. TableTypeOK
  BY <1>1, USBAssumption, EmptySeq DEF Init, TableTypeOK, Null, Pointer
<1>3. \A a \in Addresses : Cardinality(Entries(a)) = 0
  BY <1>1, FS_EmptySet DEF Entries
<1> QED
  BY <1>1, <1>2, <1>3 DEF Init, USBInv, NumbersGrow, PointerHasSlot,
     ReportsCount, PointersHoldUntilMoved

LEMMA FindKeepsInv ==
  ASSUME USBInv, NEW a \in Addresses, Find(a) PROVE USBInv'
<1> DEFINE slot == USB_FindDevice(a)
<1> USE DEF USBInv
<1>1. /\ slot \in 1..Len(devices) /\ devices[slot].address = a
      /\ \A n \in Entries(a) : slot <= n
  BY FindDevice DEF Find, Entries
<1>2. pointer' = [slot |-> slot, number |-> devices[slot].number, moved |-> FALSE]
  BY DEF Find
<1>3. UNCHANGED <<state, devices, attached, reported>>
  BY DEF Find
<1> HIDE DEF slot
<1>4. TableTypeOK'
  <2>1. Len(devices) \in Nat /\ Len(devices) <= USB_MAX_DEVICES
    BY TableEntries DEF TableTypeOK
  <2>2. devices[slot].number \in 0..MaxAttached
    BY <1>1, TableEntries
  <2>3. slot \in 0..USB_MAX_DEVICES
    BY <1>1, <2>1, SizesType
  <2> QED
    BY <1>2, <1>3, <2>2, <2>3 DEF TableTypeOK, Pointer
<1>5. ASSUME NEW n \in Entries(a) PROVE devices[n].number >= devices[slot].number
  <2>1. n \in 1..Len(devices) /\ slot <= n
    BY <1>1, <1>5 DEF Entries
  <2>2. n = slot \/ slot < n
    BY <1>1, <2>1, TableEntries
  <2> QED
    BY <1>1, <2>1, <2>2, TableEntries DEF NumbersGrow
<1>6. PointersHoldUntilMoved' /\ PointerHasSlot'
  <2>1. pointer'.slot = slot /\ pointer'.number = devices[slot].number
    BY <1>2
  <2>2. slot <= Len(devices) /\ slot >= 1
    BY <1>1, TableEntries
  <2> QED
    BY <1>1, <1>3, <1>5, <2>1, <2>2
       DEF PointersHoldUntilMoved, PointerHasSlot, Entries
<1> QED
  BY <1>3, <1>4, <1>6 DEF NumbersGrow, ReportsCount, Entries

LEMMA AttachKeepsInv ==
  ASSUME USBInv, NEW a \in Addresses, USB_AttachDevice(a) PROVE USBInv'
<1> USE DEF USBInv
<1> DEFINE last == Len(devices) + 1
<1>1. /\ Len(devices) \in Nat /\ Len(devices') = last
      /\ \A n \in 1..Len(devices) : devices'[n] = devices[n]
      /\ devices'[last].address = a /\ devices'[last].number = attached + 1
      /\ devices' \in Seq(Device)
  BY AttachTable, TableEntries
<1>2. /\ attached \in Nat /\ attached' = attached + 1 /\ UNCHANGED <<state, pointer>>
      /\ attached < MaxAttached /\ Len(devices) < USB_MAX_DEVICES
      /\ reported' = [reported EXCEPT ![a] = @ + 1]
  BY USBAssumption DEF USB_AttachDevice, HasRoom, TableTypeOK
<1>3. \A n \in 1..last : n \in 1..Len(devices) \/ n = last
  BY <1>1
<1>4. TableTypeOK'
  <2>1. last <= USB_MAX_DEVICES /\ attached + 1 \in 0..MaxAttached
    BY <1>1, <1>2, SizesType
  <2> QED
    BY <1>1, <1>2, <2>1 DEF TableTypeOK
<1>5. NumbersGrow'
  <2>1. ASSUME NEW n \in 1..last
        PROVE  devices'[n].number <= attached + 1
    BY <1>1, <1>2, <1>3, TableEntries DEF NumbersGrow
  <2>2. ASSUME NEW m \in 1..last, NEW n \in 1..last, m < n
        PROVE  devices'[m].number < devices'[n].number
    <3>1. m \in 1..Len(devices)
      BY <1>1, <2>2
    <3>2. CASE n \in 1..Len(devices)
      BY <1>1, <2>2, <3>1, <3>2 DEF NumbersGrow
    <3>3. CASE n = last
      BY <1>1, <1>2, <3>1, <3>3, TableEntries DEF NumbersGrow
    <3> QED
      BY <1>3, <3>2, <3>3
  <2> QED
    BY <1>1, <1>2, <2>1, <2>2 DEF NumbersGrow
<1>6. ReportsCount'
  <2>1. \A b \in Addresses : reported'[b] = Cardinality(Entries(b))'
    BY <1>2, AttachEntries DEF ReportsCount
  <2> QED
    BY <1>2, <2>1 DEF ReportsCount
<1>7. PointersHoldUntilMoved'
  <2> SUFFICES ASSUME pointer # Null, ~pointer.moved
               PROVE  /\ pointer.slot <= Len(devices')
                      /\ devices'[pointer.slot].number = pointer.number
                      /\ \A n \in 1..Len(devices') :
                           devices'[n].address = devices'[pointer.slot].address
                             => devices'[n].number >= pointer.number
    BY <1>2 DEF PointersHoldUntilMoved, Entries
  <2>1. /\ pointer.slot \in 1..Len(devices)
        /\ devices[pointer.slot].number = pointer.number
        /\ \A n \in Entries(devices[pointer.slot].address) :
             devices[n].number >= pointer.number
    BY <1>1 DEF PointersHoldUntilMoved, PointerHasSlot, TableTypeOK, Pointer
  <2>2. pointer.number <= attached /\ pointer.number \in Nat
    BY <2>1, TableEntries DEF NumbersGrow
  <2>3. devices'[pointer.slot] = devices[pointer.slot] /\ pointer.slot <= Len(devices')
    BY <1>1, <2>1
  <2>4. ASSUME NEW n \in 1..last,
               devices'[n].address = devices[pointer.slot].address
        PROVE  devices'[n].number >= pointer.number
    <3>2. CASE n = last
      BY <1>1, <1>2, <2>2, <3>2
    <3>3. CASE n \in 1..Len(devices)
      BY <1>1, <2>1, <2>4, <3>3 DEF Entries
    <3> QED
      BY <1>3, <3>2, <3>3
  <2> QED
    BY <1>1, <2>1, <2>3, <2>4
<1> QED
  BY <1>2, <1>4, <1>5, <1>6, <1>7 DEF PointerHasSlot

LEMMA DetachKeepsInv ==
  ASSUME USBInv, NEW a \in Addresses, USB_DetachDevice(a) PROVE USBInv'
<1> USE DEF USBInv
<1> DEFINE slot == USB_FindDevice(a)
<1>1. /\ slot \in 1..Len(devices) /\ devices[slot].address = a
  BY FindDevice DEF USB_DetachDevice, Entries
<1>2. /\ devices' = Without(slot) /\ UNCHANGED <<state, attached>>
      /\ pointer' = [pointer EXCEPT !.moved = @ \/ pointer.slot >= slot]
      /\ reported' = [reported EXCEPT ![a] = @ - 1]
  BY DEF USB_DetachDevice, Moved
<1> HIDE DEF slot
<1>3. /\ devices' \in Seq(Device) /\ Len(devices') = Len(devices) - 1
      /\ \A n \in 1..Len(devices') :
           /\ Before(slot, n) \in 1..Len(devices)
           /\ devices'[n] = devices[Before(slot, n)]
      /\ Len(devices) \in Nat
  BY <1>1, <1>2, DetachTable, TableEntries
<1>4. TableTypeOK'
  <2>1. pointer' \in Pointer
    BY <1>2 DEF TableTypeOK, Pointer
  <2>2. Len(devices) - 1 <= USB_MAX_DEVICES
    BY <1>3, SizesType DEF TableTypeOK
  <2> QED
    BY <1>2, <1>3, <2>1, <2>2 DEF TableTypeOK
<1>5. NumbersGrow'
  <2>1. ASSUME NEW m \in 1..Len(devices'), NEW n \in 1..Len(devices'), m < n
        PROVE  devices'[m].number < devices'[n].number
    <3>1. Before(slot, m) < Before(slot, n)
      BY <1>1, <1>3, <2>1, BeforeGrows
    <3> QED
      BY <1>3, <3>1 DEF NumbersGrow
  <2> QED
    BY <1>2, <1>3, <2>1 DEF NumbersGrow
<1>6. ReportsCount'
  <2>1. \A b \in Addresses : reported'[b] = Cardinality(Entries(b))'
    BY <1>1, <1>2, DetachEntries DEF ReportsCount
  <2> QED
    BY <1>2, <2>1 DEF ReportsCount
<1>7. pointer'.slot = pointer.slot /\ pointer'.number = pointer.number
  BY <1>2 DEF TableTypeOK, Pointer
<1>8. pointer' # Null => pointer # Null
  <2>1. ~(0 >= slot)
    BY <1>1, <1>3
  <2>2. ASSUME pointer = Null PROVE pointer' = Null
    BY <1>2, <2>1, <2>2 DEF Null
  <2> QED
    BY <2>2
<1>9. PointersHoldUntilMoved'
  <2> SUFFICES ASSUME pointer' # Null, ~pointer'.moved
               PROVE  /\ pointer.slot <= Len(devices')
                      /\ devices'[pointer.slot].number = pointer.number
                      /\ \A n \in 1..Len(devices') :
                           devices'[n].address = devices'[pointer.slot].address
                             => devices'[n].number >= pointer.number
    BY <1>7 DEF PointersHoldUntilMoved, Entries
  <2>1. ~pointer.moved /\ ~(pointer.slot >= slot)
    BY <1>2 DEF TableTypeOK, Pointer
  <2>2. /\ pointer.slot \in 1..Len(devices)
        /\ devices[pointer.slot].number = pointer.number
        /\ \A n \in Entries(devices[pointer.slot].address) :
             devices[n].number >= pointer.number
    BY <1>3, <1>8, <2>1 DEF PointersHoldUntilMoved, PointerHasSlot, TableTypeOK,
                            Pointer
  <2>3. pointer.slot \in 1..Len(devices') /\ Before(slot, pointer.slot) = pointer.slot
    BY <1>1, <1>3, <2>1, <2>2 DEF Before
  <2>4. devices'[pointer.slot] = devices[pointer.slot]
    BY <1>3, <2>3
  <2>5. ASSUME NEW n \in 1..Len(devices'),
               devices'[n].address = devices[pointer.slot].address
        PROVE  devices'[n].number >= pointer.number
    <3>1. Before(slot, n) \in Entries(devices[pointer.slot].address)
      BY <1>3, <2>5 DEF Entries
    <3> QED
      BY <1>3, <2>2, <3>1
  <2> QED
    BY <1>3, <2>2, <2>3, <2>4, <2>5
<1> QED
  BY <1>4, <1>5, <1>6, <1>7, <1>8, <1>9 DEF PointerHasSlot

LEMMA USBInvNext == USBInv /\ [Next]_vars => USBInv'
<1> SUFFICES ASSUME USBInv, [Next]_vars PROVE USBInv'
  OBVIOUS
<1>1. ASSUME UNCHANGED <<devices, pointer, attached, reported>>,
             state' \in {state, "READY"}
      PROVE  USBInv'
  BY <1>1 DEF USBInv, TableTypeOK, NumbersGrow, PointerHasSlot, ReportsCount,
              Entries, PointersHoldUntilMoved
<1>2. CASE USB_Init \/ USB_Transfer \/ UNCHANGED vars
  BY <1>1, <1>2 DEF USB_Init, USB_Transfer, vars
<1>3. ASSUME NEW a \in Addresses, Find(a) \/ USB_AttachDevice(a) \/ USB_DetachDevice(a)
      PROVE  USBInv'
  BY <1>3, FindKeepsInv, AttachKeepsInv, DetachKeepsInv
<1> QED
  BY <1>2, <1>3 DEF Next

-----------------------------------------------------------------------------
(* The table of the network driver only grows at its end.                  *)

NetworkTypeOK ==
  /\ net_state \in {"UNINITIALIZED", "READY"}
  /\ net_devices \in Seq(N!Device) /\ Len(net_devices) <= NET_MAX_DEVICES
  /\ added \in 0..MaxAdded

NetworkInv ==
  /\ NetworkTypeOK
  /\ \A n \in 1..Len(net_devices) : net_devices[n].number <= added

LEMMA NetworkEntries ==
  ASSUME NetworkTypeOK
  PROVE  /\ Len(net_devices) \in Nat
         /\ \A n \in 1..Len(net_devices) : net_devices[n] \in N!Device
         /\ \A n \in 1..Len(net_devices) : net_devices[n].number \in 1..MaxAdded
<1>1. net_devices \in Seq(N!Device)
  BY DEF NetworkTypeOK
<1>2. /\ Len(net_devices) \in Nat
      /\ \A n \in 1..Len(net_devices) : net_devices[n] \in N!Device
  BY <1>1, LenProperties, ElementOfSeq
<1> QED
  BY <1>2 DEF N!Device

LEMMA AddTable ==
  ASSUME NetworkTypeOK, NEW mac \in MACs, NEW ip \in IPs,
         N!Network_AddDevice(mac, ip)
  PROVE  /\ net_devices' \in Seq(N!Device)
         /\ Len(net_devices') = Len(net_devices) + 1
         /\ \A n \in 1..Len(net_devices) : net_devices'[n] = net_devices[n]
         /\ net_devices'[Len(net_devices) + 1].number = added + 1
<1>1. [mac |-> mac, ip |-> ip, number |-> added + 1] \in N!Device
  BY NetworkAssumption
     DEF N!Network_AddDevice, NetworkTypeOK, N!Device, N!IsValidMAC, N!IsValidIP
<1>2. net_devices \in Seq(N!Device)
  BY DEF NetworkTypeOK
<1> QED
  BY <1>1, <1>2, AppendProperties DEF N!Network_AddDevice, N!Former

LEMMA NetworkInvInit == N!Init => NetworkInv
<1> SUFFICES ASSUME N!Init PROVE NetworkInv
  OBVIOUS
<1>1. net_devices = <<>> /\ Len(net_devices) = 0 /\ 1..Len(net_devices) = {}
  BY DEF N!Init
<1> QED
  BY <1>1, NetworkAssumption, EmptySeq DEF N!Init, NetworkInv, NetworkTypeOK

LEMMA AddKeepsInv ==
  ASSUME NetworkInv, NEW mac \in MACs, NEW ip \in IPs,
         N!Network_AddDevice(mac, ip)
  PROVE  NetworkInv'
<1> USE DEF NetworkInv
<1> DEFINE last == Len(net_devices) + 1
<1>1. /\ Len(net_devices) \in Nat /\ Len(net_devices') = last
      /\ \A n \in 1..Len(net_devices) : net_devices'[n] = net_devices[n]
      /\ net_devices'[last].number = added + 1
      /\ net_devices' \in Seq(N!Device)
  BY AddTable, NetworkEntries
<1>2. /\ added \in Nat /\ added' = added + 1 /\ UNCHANGED net_state
      /\ added < MaxAdded /\ Len(net_devices) < NET_MAX_DEVICES
  BY NetworkAssumption DEF N!Network_AddDevice, NetworkTypeOK
<1>3. last <= NET_MAX_DEVICES /\ added + 1 \in 0..MaxAdded
  BY <1>1, <1>2, NetworkAssumption
<1>4. NetworkTypeOK'
  BY <1>1, <1>2, <1>3 DEF NetworkTypeOK
<1>5. ASSUME NEW n \in 1..last PROVE net_devices'[n].number <= added + 1
  <2>1. n \in 1..Len(net_devices) \/ n = last
    BY <1>1
  <2> QED
    BY <1>1, <1>2, <2>1, NetworkEntries
<1> QED
  BY <1>1, <1>2, <1>4, <1>5

LEMMA NetworkInvNext == NetworkInv /\ [N!Next]_netVars => NetworkInv'
<1> SUFFICES ASSUME NetworkInv, [N!Next]_netVars PROVE NetworkInv'
  OBVIOUS
<1>1. ASSUME UNCHANGED <<net_devices, added>>, net_state' \in {net_state, "READY"}
      PROVE  NetworkInv'
  BY <1>1 DEF NetworkInv, NetworkTypeOK
<1>2. CASE \/ N!Network_Init \/ N!Network_ReceivePacket
           \/ \E mac \in MACs : N!Network_SendPacket(mac)
           \/ UNCHANGED netVars
  BY <1>1, <1>2 DEF N!Network_Init, N!Network_ReceivePacket,
                    N!Network_SendPacket, netVars
<1>3. CASE \E mac \in MACs, ip \in IPs : N!Network_AddDevice(mac, ip)
  BY <1>3, AddKeepsInv
<1> QED
  BY <1>2, <1>3 DEF N!Next

\* The entry an address finds, and that it is the first of that address.
LEMMA NetworkFinds ==
  ASSUME NetworkTypeOK, NEW mac, N!Network_FindDevice(mac) # 0
  PROVE  /\ N!Network_FindDevice(mac) \in 1..Len(net_devices)
         /\ net_devices[N!Network_FindDevice(mac)].mac = mac
         /\ \A n \in 1..Len(net_devices) :
              net_devices[n].mac = mac => N!Network_FindDevice(mac) <= n
<1> DEFINE I == {n \in 1..Len(net_devices) : net_devices[n].mac = mac}
<1>1. I \in SUBSET Nat
  BY NetworkEntries
<1>2. I # {} /\ N!Network_FindDevice(mac) = Min(I)
  BY DEF N!Network_FindDevice, N!SelectInSeq, N!Min, Min
<1> HIDE DEF I
<1>3. Min(I) \in I /\ \A n \in I : Min(I) <= n
  BY <1>1, <1>2, MinIsLeast
<1> QED
  BY <1>2, <1>3 DEF I

\* An addition leaves every answer of Network_FindDevice as it is.
LEMMA AddKeepsAnswers ==
  ASSUME NetworkTypeOK, NetworkTypeOK', NEW mac, N!Network_FindDevice(mac) # 0,
         Len(net_devices') = Len(net_devices) + 1,
         \A n \in 1..Len(net_devices) : net_devices'[n] = net_devices[n]
  PROVE  /\ N!Network_FindDevice(mac)' = N!Network_FindDevice(mac)
         /\ net_devices'[N!Network_FindDevice(mac)]
              = net_devices[N!Network_FindDevice(mac)]
<1> DEFINE slot == N!Network_FindDevice(mac)
           J == {n \in 1..Len(net_devices') : net_devices'[n].mac = mac}
<1>1. /\ Len(net_devices) \in Nat
      /\ slot \in 1..Len(net_devices) /\ net_devices[slot].mac = mac
      /\ \A n \in 1..Len(net_devices) : net_devices[n].mac = mac => slot <= n
  BY NetworkFinds, NetworkEntries
<1> HIDE DEF slot
<1>2. slot \in J
  BY <1>1
<1>3. J # {} /\ J \in SUBSET Nat
  BY <1>1, <1>2
<1>4. N!Network_FindDevice(mac)' = Min(J)
  BY <1>3 DEF N!Network_FindDevice, N!SelectInSeq, N!Min, Min
<1>5. \A n \in J : slot <= n
  <2> TAKE n \in J
  <2>1. n \in 1..Len(net_devices) \/ n = Len(net_devices) + 1
    BY <1>1
  <2> QED
    BY <1>1, <2>1
<1> HIDE DEF J
<1>6. Min(J) \in J /\ Min(J) <= slot
  BY <1>2, <1>3, MinIsLeast
<1>7. Min(J) = slot
  <2>1. Min(J) \in Nat /\ slot \in Nat /\ slot <= Min(J)
    BY <1>2, <1>3, <1>5, <1>6
  <2> QED
    BY <1>6, <2>1
<1> QED
  BY <1>1, <1>4, <1>7 DEF slot

-----------------------------------------------------------------------------
(* Both tables as registries.                                              *)

\* A table of that many entries holds at most that many numbers.
LEMMA NumbersFit ==
  ASSUME NEW k \in Nat, NEW numberOf
  PROVE  Cardinality({numberOf[n] : n \in 1..k}) <= k
<1> DEFINE T == {numberOf[n] : n \in 1..k}
           f == [n \in 1..k |-> numberOf[n]]
<1>1. f \in Surjection(1..k, T)
  BY DEF Surjection
<1>2. ExistsSurjection(1..k, T)
  BY <1>1 DEF ExistsSurjection
<1> QED
  BY <1>2, FS_SurjCardinalityBound

Numbers == {devices[n].number : n \in 1..Len(devices)}

LEMMA NumbersBound == ASSUME TableTypeOK PROVE Cardinality(Numbers) <= Len(devices)
<1> DEFINE numberOf == [n \in 1..Len(devices) |-> devices[n].number]
<1>1. Numbers = {numberOf[n] : n \in 1..Len(devices)}
  BY DEF Numbers
<1>2. Len(devices) \in Nat
  BY TableEntries
<1> HIDE DEF numberOf
<1> QED
  BY <1>1, <1>2, NumbersFit

LEMMA AttachConnects ==
  ASSUME USBInv, NEW a \in Addresses, USB_AttachDevice(a)
  PROVE  \E d \in 1..MaxAttached : Registry!Connect(d)
<1> USE DEF USBInv
<1>1. /\ Len(devices) \in Nat /\ Len(devices') = Len(devices) + 1
      /\ \A n \in 1..Len(devices) : devices'[n] = devices[n]
      /\ devices'[Len(devices) + 1].number = attached + 1
  BY AttachTable, TableEntries
<1>2. /\ attached \in Nat /\ attached < MaxAttached
      /\ Len(devices) < USB_MAX_DEVICES
  BY SizesType DEF USB_AttachDevice, HasRoom, TableTypeOK
<1>3. attached + 1 \notin Numbers
  BY <1>2, TableEntries DEF Numbers, NumbersGrow
<1>4. Cardinality(Numbers) < USB_MAX_DEVICES
  <2>1. Numbers \subseteq 0..attached
    BY <1>2, TableEntries DEF Numbers, NumbersGrow
  <2>2. IsFiniteSet(Numbers)
    <3>1. IsFiniteSet(0..attached)
      BY <1>2, FS_Interval
    <3> QED
      BY <2>1, <3>1, FS_Subset
  <2>3. Cardinality(Numbers) \in Nat
    BY <2>2, FS_CardinalityType
  <2> QED
    BY <1>1, <1>2, <2>3, NumbersBound, SizesType
<1>5. 1..(Len(devices) + 1) = (1..Len(devices)) \union {Len(devices) + 1}
  BY <1>1
<1>6. Numbers' = Numbers \union {attached + 1}
  BY <1>1, <1>5 DEF Numbers
<1>7. PICK d \in 1..MaxAttached : d = attached + 1
  BY <1>2, SizesType
<1> QED
  BY <1>3, <1>4, <1>6, <1>7
     DEF Numbers, Registry!Connect, Registry!Cardinality, Cardinality

LEMMA DetachDisconnects ==
  ASSUME USBInv, NEW a \in Addresses, USB_DetachDevice(a)
  PROVE  \E d \in 1..MaxAttached : Registry!Disconnect(d)
<1> USE DEF USBInv
<1> DEFINE slot == USB_FindDevice(a)
<1>1. slot \in 1..Len(devices) /\ devices' = Without(slot)
  BY FindDevice DEF USB_DetachDevice, Entries
<1> HIDE DEF slot
<1>2. /\ \A n \in 1..Len(devices') :
           /\ Before(slot, n) \in (1..Len(devices)) \ {slot}
           /\ devices'[n] = devices[Before(slot, n)]
      /\ Len(devices) \in Nat
  BY <1>1, DetachTable, TableEntries
<1>3. \A m \in (1..Len(devices)) \ {slot} :
        devices[m].number # devices[slot].number
  <2> TAKE m \in (1..Len(devices)) \ {slot}
  <2>1. m < slot \/ slot < m
    BY <1>1, <1>2
  <2> QED
    BY <1>1, <2>1, TableEntries DEF NumbersGrow
<1>4. Numbers' = Numbers \ {devices[slot].number}
  <2>1. Numbers' \subseteq Numbers \ {devices[slot].number}
    BY <1>2, <1>3 DEF Numbers
  <2>2. ASSUME NEW m \in (1..Len(devices)) \ {slot}
        PROVE  devices[m].number \in Numbers'
    <3>1. PICK n \in 1..Len(devices') : Before(slot, n) = m
      BY <1>1, DetachKeeps
    <3> QED
      BY <1>2, <3>1 DEF Numbers
  <2>3. Numbers \ {devices[slot].number} \subseteq Numbers'
    BY <2>2 DEF Numbers
  <2> QED
    BY <2>1, <2>3
<1>5. devices[slot].number \in Numbers /\ devices[slot].number \in 1..MaxAttached
  BY <1>1, TableEntries DEF Numbers
<1> QED
  BY <1>4, <1>5 DEF Numbers, Registry!Disconnect

LEMMA RegistryStep ==
  ASSUME USBInv, [Next]_vars
  PROVE  [Registry!Next]_({devices[n].number : n \in 1..Len(devices)})
<1>1. CASE USB_Init \/ USB_Transfer \/ (\E a \in Addresses : Find(a)) \/ UNCHANGED vars
  BY <1>1 DEF USB_Init, USB_Transfer, Find, vars
<1>2. ASSUME NEW a \in Addresses, USB_AttachDevice(a) PROVE Registry!Next
  BY <1>2, AttachConnects DEF Registry!Next
<1>3. ASSUME NEW a \in Addresses, USB_DetachDevice(a) PROVE Registry!Next
  BY <1>3, DetachDisconnects DEF Registry!Next
<1> QED
  BY <1>1, <1>2, <1>3 DEF Next

-----------------------------------------------------------------------------
(* The two drivers together: a step of one leaves the other's table alone. *)

DriversInv == USBInv /\ NetworkInv

LEMMA AllSteps ==
  [AllNext]_allVars => [Next]_vars /\ [N!Next]_netVars
BY DEF AllNext, allVars

LEMMA DriversInvariant == AllSpec => []DriversInv
<1>1. AllInit => DriversInv
  BY USBInvInit, NetworkInvInit DEF AllInit, DriversInv
<1>2. DriversInv /\ [AllNext]_allVars => DriversInv'
  BY AllSteps, USBInvNext, NetworkInvNext DEF DriversInv
<1> QED
  BY <1>1, <1>2, PTL DEF AllSpec

DeliveriesType == delivered \in BOOLEAN /\ net_delivered \in BOOLEAN

LEMMA DeliveriesTyped == DeliveriesType /\ [AllNext]_allVars => DeliveriesType'
<1> SUFFICES ASSUME DeliveriesType, [AllNext]_allVars PROVE DeliveriesType'
  OBVIOUS
<1>1. delivered' \in BOOLEAN
  BY Zenon DEF DeliveriesType, AllNext, allVars, vars, Next, USB_Init, USB_Transfer,
     Accepted, Find, USB_AttachDevice, USB_DetachDevice
<1>2. net_delivered' \in BOOLEAN
  <2>1. CASE UNCHANGED net_delivered
    BY Zenon, <2>1 DEF DeliveriesType
  <2>2. ASSUME NEW mac \in MACs, N!Network_SendPacket(mac)
        PROVE  net_delivered' \in BOOLEAN
    <3>1. N!Accepted({57344, 57348, 57352}) \in BOOLEAN
      BY DEF N!Accepted
    <3>2. net_delivered' = N!Accepted({57344, 57348, 57352})
      BY <2>2 DEF N!Network_SendPacket
    <3> QED
      BY <3>1, <3>2
  <2>3. CASE N!Network_ReceivePacket
    <3>1. N!Accepted({57344, 57348}) \in BOOLEAN
      BY DEF N!Accepted
    <3>2. net_delivered' = N!Accepted({57344, 57348})
      BY <2>3 DEF N!Network_ReceivePacket
    <3> QED
      BY <3>1, <3>2
  <2>4. \/ UNCHANGED net_delivered
        \/ N!Network_ReceivePacket
        \/ \E mac \in MACs : N!Network_SendPacket(mac)
    <3>1. UNCHANGED allVars => UNCHANGED net_delivered
      BY DEF allVars, netVars
    <3>2. UNCHANGED netVars => UNCHANGED net_delivered
      BY DEF netVars
    <3>3. N!Network_Init => UNCHANGED net_delivered
      BY DEF N!Network_Init
    <3>4. \A mac \in MACs, ip \in IPs :
            N!Network_AddDevice(mac, ip) => UNCHANGED net_delivered
      BY DEF N!Network_AddDevice
    <3> QED
      BY Zenon, <3>1, <3>2, <3>3, <3>4 DEF AllNext, N!Next
  <2> QED
    BY Zenon, <2>1, <2>2, <2>3, <2>4
<1> QED
  BY <1>1, <1>2 DEF DeliveriesType

\* Both tables stay within their size and hold what they may; no address has
\* had more disconnections reported than connections.
THEOREM Typing == AllSpec => []AllTypeOK
<1>1. AllInit => DeliveriesType
  BY DEF AllInit, Init, N!Init, DeliveriesType
<1>2. DriversInv /\ DeliveriesType => AllTypeOK
  <2> SUFFICES ASSUME DriversInv, DeliveriesType PROVE AllTypeOK
    OBVIOUS
  <2>1. TableTypeOK /\ NetworkTypeOK
    BY DEF DriversInv, USBInv, NetworkInv
  <2>2. reported \in [Addresses -> Nat]
    BY <2>1, EntriesFinite DEF DriversInv, USBInv, ReportsCount
  <2>3. TypeOK
    BY Zenon, <2>1, <2>2 DEF TypeOK, TableTypeOK, DeliveriesType
  <2>4. N!TypeOK
    BY Zenon, <2>1 DEF N!TypeOK, NetworkTypeOK, DeliveriesType
  <2> QED
    BY Zenon, <2>3, <2>4 DEF AllTypeOK
<1> QED
  BY <1>1, <1>2, DriversInvariant, DeliveriesTyped, PTL DEF AllSpec

\* For every address, connections minus disconnections reported is the number
\* of its entries in the USB table.
THEOREM Reports == AllSpec => []ReportsMatchTable
<1>1. DriversInv => ReportsMatchTable
  BY DEF DriversInv, USBInv, ReportsCount, ReportsMatchTable
<1> QED
  BY <1>1, DriversInvariant, PTL

\* A pointer of USB_FindDevice names its device, the oldest of its address,
\* until an entry at or below its slot goes.
THEOREM Pointers == AllSpec => []PointersHoldUntilMoved
<1>1. DriversInv => PointersHoldUntilMoved
  BY DEF DriversInv, USBInv
<1> QED
  BY <1>1, DriversInvariant, PTL

\* The USB table is a registry: devices come and go one at a time.
THEOREM USBRegistry == AllSpec => ImplementsRegistry
<1>1. AllInit => Registry!Init
  BY DEF AllInit, Init, Registry!Init
<1>2. DriversInv /\ [AllNext]_allVars
        => [Registry!Next]_({devices[n].number : n \in 1..Len(devices)})
  BY AllSteps, RegistryStep DEF DriversInv
<1> QED
  BY <1>1, <1>2, DriversInvariant, PTL
     DEF AllSpec, ImplementsRegistry, Registry!Spec

\* Whatever either driver does, an address of a network device keeps finding
\* the device it found, in its place.
THEOREM NetworkPointers == AllSpec => NetworkPointersNeverMove
<1> DEFINE Stays ==
      \A mac \in MACs :
        LET slot == N!Network_FindDevice(mac)
        IN slot # 0 => /\ N!Network_FindDevice(mac)' = slot
                       /\ net_devices'[slot] = net_devices[slot]
<1>1. ASSUME DriversInv, DriversInv', [AllNext]_allVars
      PROVE  [Stays]_(N!vars)
  <2>1. CASE \E mac \in MACs, ip \in IPs : N!Network_AddDevice(mac, ip)
    <3>1. /\ Len(net_devices') = Len(net_devices) + 1
          /\ \A n \in 1..Len(net_devices) : net_devices'[n] = net_devices[n]
      BY <1>1, <2>1, AddTable DEF DriversInv, NetworkInv
    <3> QED
      BY <1>1, <3>1, AddKeepsAnswers DEF DriversInv, NetworkInv
  <2>2. CASE \/ N!Network_Init \/ N!Network_ReceivePacket
             \/ \E mac \in MACs : N!Network_SendPacket(mac)
             \/ UNCHANGED netVars
    <3>1. net_devices' = net_devices
      BY <2>2 DEF N!Network_Init, N!Network_ReceivePacket,
                  N!Network_SendPacket, netVars
    <3>2. \A mac \in MACs : N!Network_FindDevice(mac)' = N!Network_FindDevice(mac)
      BY <3>1 DEF N!Network_FindDevice, N!SelectInSeq
    <3> QED
      BY <3>1, <3>2
  <2> QED
    BY <1>1, <2>1, <2>2, AllSteps DEF N!Next
<1>2. DriversInv /\ DriversInv' /\ [AllNext]_allVars => [Stays]_(N!vars)
  BY <1>1
<1> HIDE DEF Stays
<1>3. AllSpec => [][Stays]_(N!vars)
  BY <1>2, DriversInvariant, PTL DEF AllSpec
<1> QED
  BY <1>3, PTL DEF Stays, NetworkPointersNeverMove, N!PointersNeverMove
=============================================================================
