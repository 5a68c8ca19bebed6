---------------------------- MODULE MousePacket -----------------------------
(***************************************************************************)
(* The receive side of the PS/2 mouse driver: how the running interrupt    *)
(* handler assembles bytes into packets and turns a packet into a motion   *)
(* (mouse_driver.c, Mouse_InterruptHandler and Mouse_ProcessPacket).       *)
(*                                                                         *)
(* packet_complete is set and cleared within one run of the handler, which *)
(* no other handler of the same interrupt can enter, so no state between   *)
(* two steps shows it.  data.z is never written.                           *)
(***************************************************************************)
EXTENDS Integers, Sequences

CONSTANTS
  HasCallback,     \* whether the owner of the driver has set driver->callback
  CoordinateSpan   \* how many values a coordinate has: 2^16 for RT_S16

ASSUME PacketAssumption ==
  /\ HasCallback \in BOOLEAN
  /\ CoordinateSpan \in {n \in Nat : n > 0 /\ n % 2 = 0}

VARIABLES
  packet,          \* the raw bytes collected so far, packet[0] .. packet[2]
  packet_index,    \* where the next byte goes
  data,            \* the accumulated motion handed to the callback
  processed,       \* history: the packets processed, oldest first
  reports          \* history: how many times the callback was called

packetVars == <<packet, packet_index, data, processed, reports>>

Byte == 0..255
MOUSE_PACKET_SIZE == 3
Packet == [0..(MOUSE_PACKET_SIZE - 1) -> Byte]
Coordinate == (-(CoordinateSpan \div 2))..((CoordinateSpan \div 2) - 1)

HasBit(byte, weight) == (byte \div weight) % 2 = 1
XSign(flags) == HasBit(flags, 16)     \* MOUSE_PACKET_X_SIGN_BIT
YSign(flags) == HasBit(flags, 32)     \* MOUSE_PACKET_Y_SIGN_BIT
Buttons(flags) == flags % 8           \* MOUSE_PACKET_BUTTON_MASK

\* Mutant: a coordinate holds any number.
Wrap_Wide(v) == v
\* The wrap of an assignment to a coordinate.
Wrap(v) ==
  ((v + CoordinateSpan \div 2) % CoordinateSpan) - CoordinateSpan \div 2

PacketTypeOK ==
  /\ packet \in Packet
  /\ packet_index \in 0..(MOUSE_PACKET_SIZE - 1)
  /\ data \in [x : Coordinate, y : Coordinate, buttons : 0..7, moved : BOOLEAN]
  /\ processed \in Seq(Packet)
  /\ reports \in Nat

PacketInit ==
  /\ packet = [i \in 0..(MOUSE_PACKET_SIZE - 1) |-> 0]
  /\ packet_index = 0
  /\ data = [x |-> 0, y |-> 0, buttons |-> 0, moved |-> FALSE]
  /\ processed = <<>>
  /\ reports = 0

\* Mutant: any byte starts a packet.
StartsPacket_Any(byte) == TRUE
\* The test on a first byte: only a byte with a sign bit starts a packet.
StartsPacket(byte) == XSign(byte) \/ YSign(byte)

DeltaX(p) == p[1] - (IF XSign(p[0]) THEN 256 ELSE 0)
\* Mutant: the sign bit is left out.
DeltaY_Unsigned(p) == p[2]
DeltaY(p) == p[2] - (IF YSign(p[0]) THEN 256 ELSE 0)

Moves(p) == DeltaX(p) # 0 \/ DeltaY(p) # 0

Motion(d, p) ==
  [x |-> Wrap(d.x + DeltaX(p)),
   y |-> Wrap(d.y - DeltaY(p)),
   buttons |-> Buttons(p[0]),
   moved |-> Moves(p)]

Mouse_ProcessPacket(p) ==
  /\ data' = Motion(data, p)
  /\ processed' = Append(processed, p)
  /\ reports' = IF HasCallback /\ Moves(p) THEN reports + 1 ELSE reports

\* One byte taken from the data port by the handler of a running driver.
Receive(byte) ==
  LET stored == [packet EXCEPT ![packet_index] = byte]
      count == packet_index + 1
  IN /\ packet' = stored
     /\ \/ /\ count = 1 /\ ~StartsPacket(byte)
           /\ packet_index' = 0
           /\ UNCHANGED <<data, processed, reports>>
        \/ /\ count < MOUSE_PACKET_SIZE
           /\ count = 1 => StartsPacket(byte)
           /\ packet_index' = count
           /\ UNCHANGED <<data, processed, reports>>
        \/ /\ count >= MOUSE_PACKET_SIZE
           /\ packet_index' = 0
           /\ Mouse_ProcessPacket(stored)
=============================================================================
