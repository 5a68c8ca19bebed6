---------------------------- MODULE MouseFraming ----------------------------
(***************************************************************************)
(* A running mouse driver fed by a mouse that sends whole packets.  The    *)
(* one fault is a Mouse_Disable whose command the port layer dropped (the  *)
(* port was locked): it takes a byte of a packet for the acknowledgement,  *)
(* fails, and leaves the driver running on what is left of the packet.     *)
(***************************************************************************)
EXTENDS MousePacket, Selection, SequencesExt

CONSTANTS
  Packets,       \* the packets this mouse may send
  MaxPackets,    \* bound: how many it sends
  MaxTaken       \* bound: how many bytes a failing call takes

ASSUME FramingAssumption ==
  /\ Packets \subseteq Packet
  /\ MaxPackets \in Nat /\ MaxTaken \in Nat

VARIABLES
  wire,          \* the bytes of the packet being sent that are still to come
  sent,          \* history: the packets sent, oldest first
  taken          \* history: of which packet each byte a call took was, by number

vars == <<packetVars, wire, sent, taken>>

TypeOK ==
  /\ PacketTypeOK
  /\ wire \in Seq(Byte)
  /\ sent \in Seq(Packets)
  /\ taken \in Seq(1..MaxPackets) /\ Len(taken) <= MaxTaken

Init ==
  /\ PacketInit
  /\ wire = <<>>
  /\ sent = <<>>
  /\ taken = <<>>

\* The mouse starts a packet.
Send(p) ==
  /\ wire = <<>>
  /\ Len(sent) < MaxPackets
  /\ wire' = <<p[0], p[1], p[2]>>
  /\ sent' = Append(sent, p)
  /\ UNCHANGED <<packetVars, taken>>

\* A byte arrives and the interrupt handler takes it.
Interrupt ==
  /\ wire # <<>>
  /\ Receive(Head(wire))
  /\ wire' = Tail(wire)
  /\ UNCHANGED <<sent, taken>>

\* A byte arrives and Mouse_WaitAck reads it before the handler does.
MOUSE_ACK == 250
Mouse_Disable_Fails ==
  /\ wire # <<>> /\ Head(wire) # MOUSE_ACK
  /\ Len(taken) < MaxTaken
  /\ taken' = Append(taken, Len(sent))
  /\ wire' = Tail(wire)
  /\ UNCHANGED <<packetVars, sent>>

Next == Interrupt \/ Mouse_Disable_Fails \/ \E p \in Packets : Send(p)

Spec == Init /\ [][Next]_vars

-----------------------------------------------------------------------------
(* Properties.                                                             *)

Sign(byte) == XSign(byte) \/ YSign(byte)

\* The packet has a sign bit in its first byte.
Signed(p) == Sign(p[0])

\* No payload byte of the packet has a bit where the sign bits of a first byte
\* are.
Quiet(p) == ~Sign(p[1]) /\ ~Sign(p[2])

\* The packets of ps with a sign bit, in their order.
WithSign(ps) == Selected(ps, {p \in Packets : Signed(p)})

\* As long as no call took a byte, and no packet without a sign bit had a
\* payload byte with bit 4 or 5, the driver has between packets processed the
\* packets with a sign bit, all of them, whatever their payload, in the order
\* they were sent, and nothing else.  A packet without a sign bit (no motion
\* to the left or down) is dropped byte by byte, and its payload is where the
\* driver takes a byte for the start of a packet.
SignedPacketsAreProcessed ==
  (/\ wire = <<>> /\ taken = <<>>
   /\ \A n \in 1..Len(sent) : Signed(sent[n]) \/ Quiet(sent[n]))
    => packet_index = 0 /\ processed = WithSign(sent)

\* A call took bytes of the n-th packet.
Disturbed(n) == n \in ToSet(taken)

\* The driver should be in step after the n-th packet: since the beginning, or
\* since some whole packet with a quiet payload, every packet came whole and
\* had a sign bit or a quiet payload.
InStepAfter(n) ==
  \E m \in 0..n :
    /\ m = 0 \/ (~Disturbed(m) /\ Quiet(sent[m]))
    /\ \A k \in (m + 1)..n : ~Disturbed(k) /\ (Signed(sent[k]) \/ Quiet(sent[k]))

\* And it is: wherever in a packet the driver stood, because a call took bytes
\* or because a payload byte started a packet, one whole packet with a quiet
\* payload brings it back into step.  From then on every whole packet with a
\* sign bit is processed as it was sent.
RegainsStep ==
  wire = <<>> /\ InStepAfter(Len(sent)) =>
    /\ packet_index = 0
    /\ sent # <<>> /\ Signed(Last(sent)) /\ InStepAfter(Len(sent) - 1) =>
         processed # <<>> /\ Last(processed) = Last(sent)

\* The accumulated position is the sum of the 9-bit signed motions of the
\* processed packets, modulo the width of a coordinate.
Sum(values) ==
  LET total[n \in 0..Len(values)] ==
        IF n = 0 THEN 0 ELSE total[n - 1] + values[n]
  IN total[Len(values)]
SignedX(p) == IF (p[0] \div 16) % 2 = 1 THEN p[1] - 256 ELSE p[1]
SignedY(p) == IF (p[0] \div 32) % 2 = 1 THEN p[2] - 256 ELSE p[2]
SumX == Sum([n \in 1..Len(processed) |-> SignedX(processed[n])])
SumY == Sum([n \in 1..Len(processed) |-> SignedY(processed[n])])
PositionIsSum ==
  /\ data.x \in Coordinate /\ data.y \in Coordinate
  /\ (data.x - SumX) % CoordinateSpan = 0
  /\ (data.y + SumY) % CoordinateSpan = 0

\* Every processed packet is reported to the callback: a packet that passed
\* the test on its first byte never decodes to "no motion".
EveryPacketIsReported ==
  HasCallback => reports = Len(processed)
=============================================================================
