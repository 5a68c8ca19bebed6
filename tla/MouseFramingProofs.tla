------------------------- MODULE MouseFramingProofs -------------------------
(***************************************************************************)
(* Proofs about a mouse driver fed with whole packets, for every set of    *)
(* packets, quiet or not, and any number of them: what is reported, where  *)
(* the pointer is, after which packets the driver is in step and which     *)
(* ones it processes.                                                      *)
(***************************************************************************)
EXTENDS MouseFraming, SequenceLemmas

-----------------------------------------------------------------------------
(* The packet.                                                             *)

\* An assignment to a coordinate stays within its width.
LEMMA WrapType == ASSUME NEW v \in Int PROVE Wrap(v) \in Coordinate
<1> DEFINE h == CoordinateSpan \div 2
<1>1. h \in Nat /\ CoordinateSpan = 2 * h /\ h > 0
  BY PacketAssumption
<1>2. \A w \in Int, n \in Nat : n > 0 => w % n \in 0..(n - 1)
  OBVIOUS
<1>3. (v + h) % CoordinateSpan \in 0..(CoordinateSpan - 1)
  BY <1>1, <1>2
<1> QED
  BY <1>1, <1>3 DEF Wrap, Coordinate

\* A byte taken by the running handler keeps the types of the driver.
LEMMA ReceiveType ==
  ASSUME PacketTypeOK, NEW byte \in Byte, Receive(byte)
  PROVE  PacketTypeOK'
<1> DEFINE stored == [packet EXCEPT ![packet_index] = byte]
<1>1. stored \in Packet
  BY DEF PacketTypeOK, Packet, MOUSE_PACKET_SIZE
<1>2. \A p \in Packet : DeltaX(p) \in Int /\ DeltaY(p) \in Int
                          /\ Buttons(p[0]) \in 0..7
  BY DEF Packet, MOUSE_PACKET_SIZE, Byte, DeltaX, DeltaY, Buttons
<1>3. \A c \in Coordinate : c \in Int
  BY PacketAssumption DEF Coordinate
<1>4. ASSUME NEW p \in Packet PROVE Motion(data, p) \in
        [x : Coordinate, y : Coordinate, buttons : 0..7, moved : BOOLEAN]
  <2>1. data.x + DeltaX(p) \in Int /\ data.y - DeltaY(p) \in Int
    BY <1>2, <1>3 DEF PacketTypeOK
  <2>2. Wrap(data.x + DeltaX(p)) \in Coordinate
    BY <2>1, WrapType
  <2>3. Wrap(data.y - DeltaY(p)) \in Coordinate
    BY <2>1, WrapType
  <2> QED
    BY <1>2, <2>2, <2>3 DEF Motion, Moves
<1>5. packet' = stored /\ packet_index' \in 0..(MOUSE_PACKET_SIZE - 1)
  BY DEF PacketTypeOK, Receive, MOUSE_PACKET_SIZE
<1>6. CASE UNCHANGED <<data, processed, reports>>
  BY <1>1, <1>5, <1>6 DEF PacketTypeOK
<1>7. CASE Mouse_ProcessPacket(stored)
  BY <1>1, <1>4, <1>5, <1>7 DEF Mouse_ProcessPacket, PacketTypeOK
<1> QED
  BY <1>6, <1>7 DEF Receive

LEMMA PacketInitType == PacketInit => PacketTypeOK
BY PacketAssumption
   DEF PacketInit, PacketTypeOK, Packet, MOUSE_PACKET_SIZE, Byte, Coordinate

-----------------------------------------------------------------------------
(* Sums.                                                                   *)

SumStep(values) == [n \in 1..Len(values) |-> [x \in Int |-> x + values[n]]]
IsTotal(t, values) == Solves(t, Len(values), Int, 0, SumStep(values))

LEMMA SumIsTotal ==
  ASSUME NEW values \in Seq(Int)
  PROVE  \E t : IsTotal(t, values) /\ Sum(values) = t[Len(values)]
<1> DEFINE Recursive(t) ==
             t = [n \in 0..Len(values) |->
                    IF n = 0 THEN 0 ELSE t[n - 1] + values[n]]
<1>1. Len(values) \in Nat /\ \A n \in 1..Len(values) : values[n] \in Int
  OBVIOUS
<1>2. \A n \in 1..Len(values), x \in Int : SumStep(values)[n][x] = x + values[n]
  BY DEF SumStep
<1>3. \E t : Recursive(t)
  <2>1. SumStep(values) \in [1..Len(values) -> [Int -> Int]] /\ 0 \in Int
    BY DEF SumStep
  <2>2. \E t : IsTotal(t, values)
    BY <1>1, <2>1, Recursion DEF IsTotal
  <2>3. PICK t : IsTotal(t, values)
    BY <2>2
  <2>4. \A n \in 1..Len(values) : t[n] = t[n - 1] + values[n]
    <3> TAKE n \in 1..Len(values)
    <3>1. n - 1 \in 0..Len(values)
      BY <1>1
    <3> QED
      BY <1>2, <2>3, <3>1 DEF IsTotal, Solves
  <2> QED
    BY <2>3, <2>4 DEF IsTotal, Solves
<1>4. PICK t : Recursive(t) /\ Sum(values) = t[Len(values)]
  <2> DEFINE t == CHOOSE t : Recursive(t)
  <2>1. Recursive(t)
    BY <1>3
  <2>2. Sum(values) = t[Len(values)]
    BY DEF Sum
  <2> QED
    BY <2>1, <2>2
<1>5. t[0] = 0 /\ \A n \in 1..Len(values) : t[n] = t[n - 1] + values[n]
  <2>1. \A n \in 0..Len(values) :
          t[n] = IF n = 0 THEN 0 ELSE t[n - 1] + values[n]
    BY <1>4
  <2> QED
    BY <1>1, <2>1
<1>6. \A n \in 0..Len(values) : t[n] \in Int
  <2> DEFINE T == {n \in 0..Len(values) : t[n] \in Int}
  <2>1. ASSUME NEW n \in 0..(Len(values) - 1), t[n] \in Int
        PROVE  t[n + 1] \in Int
    BY <1>1, <1>5, <2>1
  <2>2. 0 \in T /\ \A n \in 0..(Len(values) - 1) : n \in T => n + 1 \in T
    BY <1>1, <1>5, <2>1
  <2> HIDE DEF T
  <2>3. \A n \in 0..Len(values) : n \in T
    BY <1>1, <2>2, Induction, Zenon
  <2> QED
    BY <2>3 DEF T
<1>7. \A n \in 1..Len(values) : t[n] = SumStep(values)[n][t[n - 1]]
  <2> TAKE n \in 1..Len(values)
  <2>1. n - 1 \in 0..Len(values)
    BY <1>1
  <2> QED
    BY <1>2, <1>5, <1>6, <2>1
<1> QED
  BY <1>4, <1>5, <1>6, <1>7 DEF IsTotal, Solves

LEMMA SumType == ASSUME NEW values \in Seq(Int) PROVE Sum(values) \in Int
<1>1. PICK t : IsTotal(t, values) /\ Sum(values) = t[Len(values)]
  BY SumIsTotal
<1>2. Len(values) \in 0..Len(values)
  OBVIOUS
<1> QED
  BY <1>1, <1>2 DEF IsTotal, Solves

LEMMA SumEmpty == Sum(<<>>) = 0
<1>1. <<>> \in Seq(Int) /\ Len(<<>>) = 0
  OBVIOUS
<1>2. PICK t : IsTotal(t, <<>>) /\ Sum(<<>>) = t[Len(<<>>)]
  BY <1>1, SumIsTotal
<1> QED
  BY <1>1, <1>2 DEF IsTotal, Solves

LEMMA SumAppend ==
  ASSUME NEW values \in Seq(Int), NEW x \in Int
  PROVE  Sum(Append(values, x)) = Sum(values) + x
<1> DEFINE longer == Append(values, x)
           N == Len(values)
<1>1. /\ N \in Nat /\ longer \in Seq(Int) /\ Len(longer) = N + 1
      /\ longer[N + 1] = x /\ \A n \in 1..N : longer[n] = values[n]
  OBVIOUS
<1> HIDE DEF longer
<1>2. PICK t : IsTotal(t, values) /\ Sum(values) = t[N]
  BY SumIsTotal
<1>3. PICK u : IsTotal(u, longer) /\ Sum(longer) = u[N + 1]
  BY <1>1, SumIsTotal
<1>4. \A n \in 1..N : SumStep(longer)[n] = SumStep(values)[n]
  <2>1. \A n \in 1..N : n \in 1..(N + 1)
    BY <1>1
  <2> QED
    BY <1>1, <2>1 DEF SumStep
<1>5. t[N] \in Int /\ u[N + 1] = SumStep(longer)[N + 1][t[N]]
  <2>1. Solves(t, N, Int, 0, SumStep(values))
    BY <1>2 DEF IsTotal
  <2>2. Solves(u, N + 1, Int, 0, SumStep(longer))
    BY <1>1, <1>3 DEF IsTotal
  <2> HIDE DEF N
  <2> QED
    BY <1>1, <1>4, <2>1, <2>2, OneMoreStep
<1>6. SumStep(longer)[N + 1][t[N]] = t[N] + x
  <2>1. N + 1 \in 1..(N + 1)
    BY <1>1
  <2> QED
    BY <1>1, <1>5, <2>1 DEF SumStep
<1> QED
  BY <1>2, <1>3, <1>5, <1>6 DEF longer

-----------------------------------------------------------------------------
(* The packets with a sign bit.                                            *)

LEMMA WithSignEmpty == WithSign(<<>>) = <<>>
BY SelectedEmpty DEF WithSign

LEMMA WithSignAppend ==
  ASSUME NEW ps \in Seq(Packets), NEW p \in Packets
  PROVE  WithSign(Append(ps, p)) =
           IF Signed(p) THEN Append(WithSign(ps), p) ELSE WithSign(ps)
<1> DEFINE T == {q \in Packets : Signed(q)}
<1>1. \A qs : WithSign(qs) = Selected(qs, T)
  BY DEF WithSign
<1>2. p \in T <=> Signed(p)
  OBVIOUS
<1> HIDE DEF T
<1>3. Selected(Append(ps, p), T) =
        IF p \in T THEN Append(Selected(ps, T), p) ELSE Selected(ps, T)
  BY SelectedAppend
<1> QED
  BY <1>1, <1>2, <1>3

-----------------------------------------------------------------------------
(* One byte, and one packet.                                               *)

LEMMA PacketsArePackets == Packets \subseteq Packet
BY FramingAssumption

LEMMA ReceiveCases ==
  ASSUME PacketTypeOK, NEW byte \in Byte, Receive(byte)
  PROVE  /\ packet' = [packet EXCEPT ![packet_index] = byte]
         /\ packet_index = 0 =>
              packet_index' = IF StartsPacket(byte) THEN 1 ELSE 0
         /\ packet_index = 1 => packet_index' = 2
         /\ packet_index # 2 => UNCHANGED <<data, processed, reports>>
         /\ packet_index = 2 => packet_index' = 0 /\ Mouse_ProcessPacket(packet')
<1> packet_index \in 0..2
  BY DEF PacketTypeOK, MOUSE_PACKET_SIZE
<1>1. packet' = [packet EXCEPT ![packet_index] = byte]
  BY DEF Receive
<1>2. CASE packet_index = 0
  BY <1>1, <1>2 DEF Receive, MOUSE_PACKET_SIZE
<1>3. CASE packet_index = 1
  BY <1>1, <1>3 DEF Receive, MOUSE_PACKET_SIZE
<1>4. CASE packet_index = 2
  BY <1>1, <1>4 DEF Receive, MOUSE_PACKET_SIZE
<1> QED
  BY <1>1, <1>2, <1>3, <1>4

\* A byte taken by the handler is stored at its place and at no other.
LEMMA StoredByte ==
  ASSUME PacketTypeOK, NEW byte \in Byte,
         packet' = [packet EXCEPT ![packet_index] = byte]
  PROVE  /\ packet'[packet_index] = byte
         /\ \A k \in 0..2 : k # packet_index => packet'[k] = packet[k]
BY DEF PacketTypeOK, Packet, MOUSE_PACKET_SIZE

\* A packet with a sign bit has a negative motion, whatever its other bytes.
LEMMA SignedMoves ==
  ASSUME NEW p \in Packet, StartsPacket(p[0])
  PROVE  Moves(p)
<1>1. p[1] \in 0..255 /\ p[2] \in 0..255
  BY DEF Packet, MOUSE_PACKET_SIZE, Byte
<1>2. XSign(p[0]) \/ YSign(p[0])
  BY DEF StartsPacket
<1> QED
  BY <1>1, <1>2 DEF Moves, DeltaX, DeltaY

\* The wrap of a coordinate keeps a difference that is a multiple of the span.
LEMMA WrapKeepsSum ==
  ASSUME NEW a \in Int, NEW s \in Int, NEW d \in Int,
         (a - s) % CoordinateSpan = 0
  PROVE  (Wrap(a + d) - (s + d)) % CoordinateSpan = 0
<1> DEFINE h == CoordinateSpan \div 2
<1>1. CoordinateSpan \in Nat \ {0} /\ h \in Int
  BY PacketAssumption
<1>2. PICK k \in Int : a - s = CoordinateSpan * k
  BY <1>1
<1>3. PICK q \in Int : (a + d + h) % CoordinateSpan = (a + d + h) - CoordinateSpan * q
  <2>1. \A x \in Int, n \in Nat \ {0} :
          x \div n \in Int /\ x % n = x - n * (x \div n)
    OBVIOUS
  <2>2. a + d + h \in Int
    BY <1>1
  <2> QED
    BY <1>1, <2>1, <2>2
<1>4. Wrap(a + d) = (a + d) - CoordinateSpan * q
  BY <1>1, <1>3 DEF Wrap
<1> HIDE DEF h
<1>5. Wrap(a + d) - (s + d) = CoordinateSpan * (k - q)
  BY <1>1, <1>2, <1>4
<1>6. \A n \in Nat \ {0}, m \in Int : (n * m) % n = 0
  OBVIOUS
<1> QED
  BY <1>1, <1>5, <1>6

-----------------------------------------------------------------------------
(* Types, and the bytes that are still to come.                            *)

\* The bytes to come are the last ones of the packet being sent.
WireInv ==
  /\ Len(sent) <= MaxPackets
  /\ Len(wire) <= MOUSE_PACKET_SIZE
  /\ wire # <<>> => sent # <<>>
  /\ \A n \in 1..Len(wire) : wire[n] = sent[Len(sent)][2 - Len(wire) + n]
  /\ \A n \in 1..Len(taken) : taken[n] <= Len(sent)

SendInv == TypeOK /\ WireInv

\* The byte that comes next.
LEMMA NextByte ==
  ASSUME SendInv, wire # <<>>
  PROVE  /\ Len(sent) \in 1..MaxPackets /\ Len(wire) \in 1..3
         /\ sent[Len(sent)] \in Packets /\ sent[Len(sent)] \in Packet
         /\ Head(wire) \in Byte
         /\ Head(wire) = sent[Len(sent)][3 - Len(wire)]
         /\ Tail(wire) \in Seq(Byte) /\ Len(Tail(wire)) = Len(wire) - 1
         /\ \A n \in 1..(Len(wire) - 1) :
              Tail(wire)[n] = sent[Len(sent)][2 - (Len(wire) - 1) + n]
<1>1. /\ wire \in Seq(Byte) /\ sent \in Seq(Packets) /\ wire # <<>> /\ sent # <<>>
      /\ Len(wire) <= 3 /\ Len(sent) <= MaxPackets
      /\ \A n \in 1..Len(wire) : wire[n] = sent[Len(sent)][2 - Len(wire) + n]
  BY DEF SendInv, TypeOK, WireInv, MOUSE_PACKET_SIZE
<1>2. Len(wire) \in 1..3 /\ Len(sent) \in 1..Len(sent) /\ Len(sent) \in 1..MaxPackets
  <2>1. MaxPackets \in Nat
    BY FramingAssumption
  <2>2. Len(wire) \in Nat /\ Len(wire) >= 1 /\ Len(sent) \in Nat /\ Len(sent) >= 1
    BY <1>1
  <2>3. Len(wire) <= 3 /\ Len(sent) <= MaxPackets
    BY <1>1
  <2> QED
    <3>1. \A x \in Nat : x >= 1 /\ x <= 3 => x \in 1..3
      OBVIOUS
    <3>2. Len(wire) \in 1..3
      BY <2>2, <2>3, <3>1
    <3>3. Len(sent) \in 1..Len(sent) /\ Len(sent) \in 1..MaxPackets
      BY <2>1, <2>2, <2>3
    <3> QED
      BY <3>2, <3>3
<1>3. /\ Head(wire) = wire[1] /\ 1 \in 1..Len(wire) /\ Head(wire) \in Byte
      /\ Tail(wire) \in Seq(Byte) /\ Len(Tail(wire)) = Len(wire) - 1
      /\ \A n \in 1..(Len(wire) - 1) : Tail(wire)[n] = wire[n + 1]
  BY <1>1, <1>2
<1>4. sent[Len(sent)] \in Packets
  BY <1>1, <1>2
<1>5. \A n \in 1..(Len(wire) - 1) :
        /\ n + 1 \in 1..Len(wire)
        /\ 2 - Len(wire) + (n + 1) = 2 - (Len(wire) - 1) + n
  BY <1>2
<1>6. 2 - Len(wire) + 1 = 3 - Len(wire)
  BY <1>2
<1> QED
  BY <1>1, <1>2, <1>3, <1>4, <1>5, <1>6, PacketsArePackets

LEMMA SendInvInit == Init => SendInv
BY PacketInitType, FramingAssumption DEF Init, SendInv, TypeOK, WireInv, MOUSE_PACKET_SIZE

LEMMA SendInvNext == SendInv /\ [Next]_vars => SendInv'
<1> SUFFICES ASSUME SendInv, [Next]_vars PROVE SendInv'
  OBVIOUS
<1>1. /\ PacketTypeOK /\ wire \in Seq(Byte) /\ sent \in Seq(Packets)
      /\ taken \in Seq(1..MaxPackets) /\ Len(taken) <= MaxTaken
      /\ Len(sent) <= MaxPackets /\ MaxPackets \in Nat /\ MaxTaken \in Nat
      /\ \A n \in 1..Len(taken) : taken[n] <= Len(sent)
  BY FramingAssumption DEF SendInv, TypeOK, WireInv
<1>2. ASSUME wire # <<>>, wire' = Tail(wire), UNCHANGED sent
      PROVE  /\ wire' \in Seq(Byte) /\ sent' \in Seq(Packets)
             /\ Len(wire') <= 3 /\ Len(sent') <= MaxPackets /\ sent' # <<>>
             /\ \A n \in 1..Len(wire') :
                  wire'[n] = sent'[Len(sent')][2 - Len(wire') + n]
  <2>1. /\ Len(wire) \in 1..3 /\ Len(sent) \in 1..MaxPackets
        /\ wire' \in Seq(Byte) /\ Len(wire') = Len(wire) - 1
        /\ \A n \in 1..(Len(wire) - 1) :
             wire'[n] = sent[Len(sent)][2 - (Len(wire) - 1) + n]
    BY <1>2, NextByte
  <2>2. Len(wire') <= 3
    <3>1. \A x \in 1..3 : x - 1 <= 3
      OBVIOUS
    <3> QED
      BY <2>1, <3>1
  <2>4. sent # <<>>
    BY <1>1, <1>2 DEF SendInv, WireInv
  <2>3. ASSUME NEW n \in 1..Len(wire')
        PROVE  wire'[n] = sent[Len(sent)][2 - Len(wire') + n]
    BY <2>1
  <2> QED
    BY <1>1, <1>2, <2>1, <2>2, <2>3, <2>4
<1>3. CASE Interrupt
  <2>1. PacketTypeOK'
    BY <1>1, <1>3, NextByte, ReceiveType DEF Interrupt
  <2> QED
    BY <1>1, <1>2, <1>3, <2>1
       DEF Interrupt, SendInv, TypeOK, WireInv, MOUSE_PACKET_SIZE
<1>4. CASE Mouse_Disable_Fails
  <2>1. PacketTypeOK'
    BY <1>1, <1>4 DEF Mouse_Disable_Fails, packetVars, PacketTypeOK
  <2>2. Len(sent) \in 1..MaxPackets /\ wire # <<>> /\ Len(taken) < MaxTaken
    BY <1>4, NextByte DEF Mouse_Disable_Fails
  <2>3. /\ taken' \in Seq(1..MaxPackets) /\ Len(taken') = Len(taken) + 1
        /\ \A n \in 1..Len(taken') : taken'[n] <= Len(sent)
    BY <1>1, <1>4, <2>2 DEF Mouse_Disable_Fails
  <2> QED
    BY <1>1, <1>2, <1>4, <2>1, <2>2, <2>3
       DEF Mouse_Disable_Fails, SendInv, TypeOK, WireInv, MOUSE_PACKET_SIZE
<1>5. ASSUME NEW p \in Packets, Send(p) PROVE SendInv'
  <2>1. PacketTypeOK' /\ UNCHANGED taken
    BY <1>1, <1>5 DEF Send, packetVars, PacketTypeOK
  <2>2. p[0] \in Byte /\ p[1] \in Byte /\ p[2] \in Byte
    BY PacketsArePackets DEF Packet, MOUSE_PACKET_SIZE
  <2>3. /\ wire' = <<p[0], p[1], p[2]>> /\ Len(wire') = 3 /\ wire' \in Seq(Byte)
        /\ wire'[1] = p[0] /\ wire'[2] = p[1] /\ wire'[3] = p[2]
    BY <1>5, <2>2 DEF Send
  <2>4. /\ sent' \in Seq(Packets) /\ Len(sent') = Len(sent) + 1
        /\ Len(sent) < MaxPackets /\ Len(sent) \in Nat
        /\ sent'[Len(sent')] = p /\ sent' # <<>>
    BY <1>1, <1>5 DEF Send
  <2>5. \A n \in 1..Len(wire') : wire'[n] = sent'[Len(sent')][2 - Len(wire') + n]
    BY <2>3, <2>4
  <2>6. \A n \in 1..Len(taken) : taken[n] <= Len(sent')
    BY <1>1, <2>4
  <2> QED
    BY <1>1, <2>1, <2>3, <2>4, <2>5, <2>6
       DEF SendInv, TypeOK, WireInv, MOUSE_PACKET_SIZE
<1>6. CASE UNCHANGED vars
  BY <1>6 DEF vars, packetVars, SendInv, TypeOK, WireInv, PacketTypeOK
<1> QED
  BY <1>3, <1>4, <1>5, <1>6 DEF Next

LEMMA SendInvariant == Spec => []SendInv
BY SendInvInit, SendInvNext, PTL DEF Spec

\* The driver keeps to its types whatever packets come and whatever bytes of
\* them a failing call takes.
THEOREM Typing == Spec => []TypeOK
<1>1. SendInv => TypeOK
  BY DEF SendInv
<1> QED
  BY <1>1, SendInvariant, PTL

\* The handler runs only in Interrupt; every other step leaves it alone.
LEMMA HandlerSteps ==
  ASSUME SendInv, [Next]_vars
  PROVE  \/ UNCHANGED packetVars
         \/ /\ wire # <<>> /\ Head(wire) \in Byte
            /\ Receive(Head(wire))
<1>1. CASE Interrupt
  BY <1>1, NextByte DEF Interrupt
<1> QED
  BY <1>1 DEF Next, Mouse_Disable_Fails, Send, vars

-----------------------------------------------------------------------------
(* EveryPacketIsReported.  The first byte of a packet that is being        *)
(* collected passed the test on a first byte, so the packet moves.         *)

ReportsInv ==
  /\ packet_index # 0 => StartsPacket(packet[0])
  /\ HasCallback => reports = Len(processed)

LEMMA ReportsInvNext ==
  ASSUME SendInv, ReportsInv, [Next]_vars PROVE ReportsInv'
<1>0. PacketTypeOK /\ packet_index \in 0..2 /\ packet \in Packet
  BY DEF SendInv, TypeOK, PacketTypeOK, MOUSE_PACKET_SIZE
<1>1. CASE UNCHANGED packetVars
  <2>1. UNCHANGED <<packet, packet_index, reports, processed>>
    BY <1>1 DEF packetVars
  <2> QED
    BY <2>1 DEF ReportsInv
<1>2. ASSUME NEW byte \in Byte, Receive(byte) PROVE ReportsInv'
  <2>1. packet' = [packet EXCEPT ![packet_index] = byte]
    BY <1>0, <1>2, ReceiveCases
  <2>2. /\ packet'[packet_index] = byte
        /\ \A k \in 0..2 : k # packet_index => packet'[k] = packet[k]
    BY <1>0, <2>1, StoredByte
  <2>3. CASE packet_index = 0
    <3>1. UNCHANGED <<reports, processed>>
      BY <1>0, <1>2, <2>3, ReceiveCases
    <3>2. packet_index' # 0 => StartsPacket(byte)
      BY <1>0, <1>2, <2>3, ReceiveCases
    <3> QED
      BY <2>2, <2>3, <3>1, <3>2 DEF ReportsInv
  <2>4. CASE packet_index = 1
    <3>1. UNCHANGED <<reports, processed>>
      BY <1>0, <1>2, <2>4, ReceiveCases
    <3>2. packet'[0] = packet[0] /\ packet_index # 0
      BY <2>2, <2>4
    <3> QED
      BY <3>1, <3>2 DEF ReportsInv
  <2>5. CASE packet_index = 2
    <3>1. packet_index' = 0 /\ Mouse_ProcessPacket(packet')
      BY <1>0, <1>2, <2>5, ReceiveCases
    <3>2. packet'[0] = packet[0] /\ StartsPacket(packet[0])
      BY <2>2, <2>5 DEF ReportsInv
    <3>3. packet' \in Packet
      BY <1>0, <1>2, ReceiveType DEF PacketTypeOK
    <3>4. Moves(packet')
      BY <3>2, <3>3, SignedMoves
    <3>5. Len(processed') = Len(processed) + 1
      BY <1>0, <3>1 DEF Mouse_ProcessPacket, PacketTypeOK
    <3>6. HasCallback => reports' = reports + 1
      BY <3>1, <3>4 DEF Mouse_ProcessPacket
    <3> QED
      BY <3>1, <3>5, <3>6 DEF ReportsInv
  <2> QED
    BY <1>0, <2>3, <2>4, <2>5
<1> QED
  BY <1>1, <1>2, HandlerSteps

\* Whatever the packets and whichever bytes of them calls take, every packet
\* the driver processes is reported: none decodes to "no motion".
THEOREM Reporting == Spec => []EveryPacketIsReported
<1>1. Init => ReportsInv
  BY DEF Init, PacketInit, ReportsInv
<1>2. ReportsInv => EveryPacketIsReported
  BY DEF ReportsInv, EveryPacketIsReported
<1> QED
  BY <1>1, <1>2, ReportsInvNext, SendInvariant, PTL DEF Spec

-----------------------------------------------------------------------------
(* PositionIsSum is inductive, given the types: the wrap of each           *)
(* assignment loses only multiples of the span.                            *)

LEMMA Deltas ==
  ASSUME NEW p \in Packet
  PROVE  /\ DeltaX(p) = SignedX(p) /\ DeltaY(p) = SignedY(p)
         /\ SignedX(p) \in Int /\ SignedY(p) \in Int
<1>1. p[1] \in 0..255 /\ p[2] \in 0..255
  BY DEF Packet, MOUSE_PACKET_SIZE, Byte
<1> QED
  BY <1>1 DEF DeltaX, DeltaY, SignedX, SignedY, XSign, YSign, HasBit

LEMMA SumsAppend ==
  ASSUME processed \in Seq(Packet), NEW p \in Packet,
         processed' = Append(processed, p)
  PROVE  /\ SumX \in Int /\ SumX' = SumX + SignedX(p)
         /\ SumY \in Int /\ SumY' = SumY + SignedY(p)
<1> DEFINE xs == [n \in 1..Len(processed) |-> SignedX(processed[n])]
           ys == [n \in 1..Len(processed) |-> SignedY(processed[n])]
<1>1. /\ Len(processed) \in Nat /\ Len(processed') = Len(processed) + 1
      /\ \A n \in 1..Len(processed) :
           processed[n] \in Packet /\ processed'[n] = processed[n]
      /\ processed'[Len(processed) + 1] = p
  OBVIOUS
<1>2. xs \in Seq(Int) /\ ys \in Seq(Int)
  BY <1>1, Deltas
<1>3. /\ [n \in 1..Len(processed') |-> SignedX(processed'[n])]
           = Append(xs, SignedX(p))
      /\ [n \in 1..Len(processed') |-> SignedY(processed'[n])]
           = Append(ys, SignedY(p))
  BY <1>1
<1> HIDE DEF xs, ys
<1>4. /\ Sum(Append(xs, SignedX(p))) = Sum(xs) + SignedX(p)
      /\ Sum(Append(ys, SignedY(p))) = Sum(ys) + SignedY(p)
      /\ Sum(xs) \in Int /\ Sum(ys) \in Int
  BY <1>2, Deltas, SumAppend, SumType
<1>5. SumX = Sum(xs) /\ SumY = Sum(ys)
  BY DEF SumX, SumY, xs, ys
<1>6. SumX' = Sum(Append(xs, SignedX(p))) /\ SumY' = Sum(Append(ys, SignedY(p)))
  BY <1>3 DEF SumX, SumY
<1> QED
  BY <1>4, <1>5, <1>6

LEMMA PositionNext ==
  ASSUME SendInv, PositionIsSum, [Next]_vars PROVE PositionIsSum'
<1>0. PacketTypeOK /\ packet_index \in 0..2 /\ processed \in Seq(Packet)
  BY DEF SendInv, TypeOK, PacketTypeOK, MOUSE_PACKET_SIZE
<1>1. ASSUME UNCHANGED <<data, processed>> PROVE PositionIsSum'
  BY <1>1 DEF PositionIsSum, SumX, SumY
<1>2. CASE UNCHANGED packetVars
  BY <1>1, <1>2 DEF packetVars
<1>3. ASSUME NEW byte \in Byte, Receive(byte) PROVE PositionIsSum'
  <2>1. CASE packet_index # 2
    BY <1>0, <1>1, <1>3, <2>1, ReceiveCases
  <2>2. CASE packet_index = 2
    <3>1. PICK p \in Packet : p = packet'
      BY <1>0, <1>3, ReceiveType DEF PacketTypeOK
    <3>2. data' = Motion(data, p) /\ processed' = Append(processed, p)
      BY <1>0, <1>3, <2>2, <3>1, ReceiveCases DEF Mouse_ProcessPacket
    <3>3. /\ SumX \in Int /\ SumX' = SumX + SignedX(p)
          /\ SumY \in Int /\ SumY' = SumY + SignedY(p)
      BY <1>0, <3>2, SumsAppend
    <3>4. /\ DeltaX(p) = SignedX(p) /\ DeltaY(p) = SignedY(p)
          /\ SignedX(p) \in Int /\ SignedY(p) \in Int
      BY Deltas
    <3>5. /\ data'.x = Wrap(data.x + SignedX(p))
          /\ data'.y = Wrap(data.y - SignedY(p))
      BY <3>2, <3>4 DEF Motion
    <3>6. data.x \in Coordinate /\ data.y \in Coordinate
      BY DEF PositionIsSum
    <3>7. data.x \in Int /\ data.y \in Int
      BY <3>6, PacketAssumption DEF Coordinate
    <3>8. data'.x \in Coordinate /\ data'.y \in Coordinate
      BY <3>4, <3>5, <3>7, WrapType
    <3>9. (data'.x - (SumX + SignedX(p))) % CoordinateSpan = 0
      <4>1. (data.x - SumX) % CoordinateSpan = 0
        BY DEF PositionIsSum
      <4>2. (Wrap(data.x + SignedX(p)) - (SumX + SignedX(p))) % CoordinateSpan = 0
        BY <3>3, <3>4, <3>7, <4>1, WrapKeepsSum
      <4> QED
        BY <3>5, <4>2
    <3>10. (data'.y + (SumY + SignedY(p))) % CoordinateSpan = 0
      <4> DEFINE s == -SumY
                 d == -SignedY(p)
      <4>1. s \in Int /\ d \in Int
        BY <3>3, <3>4
      <4>2. data.y - s = data.y + SumY /\ data.y + d = data.y - SignedY(p)
        BY <3>3, <3>4, <3>7
      <4>3. (data.y - s) % CoordinateSpan = 0
        BY <4>2 DEF PositionIsSum
      <4>4. \A c \in Coordinate : c - (s + d) = c + (SumY + SignedY(p))
        BY <3>3, <3>4, PacketAssumption DEF Coordinate
      <4> HIDE DEF s, d
      <4>5. (Wrap(data.y + d) - (s + d)) % CoordinateSpan = 0
        BY <3>7, <4>1, <4>3, WrapKeepsSum
      <4> QED
        BY <3>5, <3>8, <4>2, <4>4, <4>5
    <3> QED
      BY <3>3, <3>8, <3>9, <3>10 DEF PositionIsSum
  <2> QED
    BY <2>1, <2>2
<1> QED
  BY <1>2, <1>3, HandlerSteps

\* The position is the sum of the processed motions modulo the width of a
\* coordinate, for every width, however often it wrapped.
THEOREM Position == Spec => []PositionIsSum
<1>1. Init => PositionIsSum
  <2> SUFFICES ASSUME Init PROVE PositionIsSum
    OBVIOUS
  <2>1. data.x = 0 /\ data.y = 0 /\ processed = <<>>
    BY DEF Init, PacketInit
  <2>2. SumX = Sum(<<>>) /\ SumY = Sum(<<>>)
    <3>1. \A f : f \in [1..0 -> Int] => f = <<>>
      OBVIOUS
    <3>2. Len(processed) = 0
      BY <2>1
    <3> QED
      BY <2>1, <3>1, <3>2 DEF SumX, SumY
  <2>3. 0 \in Coordinate
    BY PacketAssumption DEF Coordinate
  <2>4. 0 % CoordinateSpan = 0
    BY PacketAssumption
  <2> QED
    BY <2>1, <2>2, <2>3, <2>4, SumEmpty DEF PositionIsSum
<1> QED
  BY <1>1, PositionNext, SendInvariant, PTL DEF Spec

-----------------------------------------------------------------------------
(* Staying in step.  A whole packet with a quiet payload ends in step      *)
(* wherever it began: after its second byte the driver is not in the       *)
(* middle of a packet it should not be in.  A whole packet with a sign bit *)
(* that begins in step ends in step.                                       *)

Undisturbed == ~Disturbed(Len(sent))

\* Where the driver may be when so many bytes of a whole quiet packet are to
\* come.
InStepInv ==
  sent # <<>> /\ Undisturbed /\ Quiet(sent[Len(sent)]) =>
    /\ Len(wire) = 0 => packet_index = 0
    /\ Len(wire) = 1 => packet_index # 1

\* Where it is in a whole packet that begins in step.
WholeInv ==
  sent # <<>> /\ Undisturbed /\ InStepAfter(Len(sent) - 1) =>
    LET p == sent[Len(sent)]
    IN /\ Len(wire) = 3 => packet_index = 0
       /\ Len(wire) \in {1, 2} /\ Signed(p) =>
            /\ packet_index = 3 - Len(wire)
            /\ \A k \in 0..(packet_index - 1) : packet[k] = p[k]
       /\ Len(wire) \in {1, 2} /\ ~Signed(p) /\ Quiet(p) => packet_index = 0
       /\ Len(wire) = 0 /\ Signed(p) =>
            /\ packet_index = 0
            /\ processed # <<>> /\ processed[Len(processed)] = p

FirstInv == sent = <<>> => packet_index = 0

StepInv == FirstInv /\ InStepInv /\ WholeInv

\* The last packet of those after which the driver should be in step.
LEMMA InStepLast ==
  ASSUME NEW n \in Nat, n # 0, InStepAfter(n)
  PROVE  /\ ~Disturbed(n)
         /\ Quiet(sent[n]) \/ (Signed(sent[n]) /\ InStepAfter(n - 1))
<1>1. PICK m \in 0..n :
        /\ m = 0 \/ (~Disturbed(m) /\ Quiet(sent[m]))
        /\ \A k \in (m + 1)..n : ~Disturbed(k) /\ (Signed(sent[k]) \/ Quiet(sent[k]))
  BY DEF InStepAfter
<1>2. CASE m = n
  BY <1>1, <1>2
<1>3. CASE m # n
  <2>1. n \in (m + 1)..n /\ m \in 0..(n - 1) /\ (m + 1)..(n - 1) \subseteq (m + 1)..n
    BY <1>3
  <2>2. ~Disturbed(n) /\ (Signed(sent[n]) \/ Quiet(sent[n]))
    BY <1>1, <2>1
  <2>3. InStepAfter(n - 1)
    BY <1>1, <2>1 DEF InStepAfter
  <2> QED
    BY <2>2, <2>3
<1> QED
  BY <1>2, <1>3

\* The driver's test on a first byte is the one on the sign bits.
LEMMA StartsIsSign == \A b : StartsPacket(b) <=> Sign(b)
BY DEF StartsPacket, Sign

\* A step of the handler takes the next byte of the last packet.
LEMMA InterruptTakes ==
  ASSUME SendInv, Interrupt
  PROVE  /\ Receive(Head(wire)) /\ Head(wire) \in Byte
         /\ Head(wire) = sent[Len(sent)][3 - Len(wire)]
         /\ Len(wire) \in 1..3 /\ Len(wire') = Len(wire) - 1
         /\ Len(wire) < 3 /\ Quiet(sent[Len(sent)]) => ~StartsPacket(Head(wire))
         /\ UNCHANGED <<sent, taken>>
<1>1. /\ wire # <<>> /\ Receive(Head(wire)) /\ wire' = Tail(wire)
      /\ UNCHANGED <<sent, taken>>
  BY DEF Interrupt
<1>2. /\ Head(wire) \in Byte /\ Len(wire) \in 1..3
      /\ Head(wire) = sent[Len(sent)][3 - Len(wire)]
      /\ Len(wire') = Len(wire) - 1
  BY <1>1, NextByte
<1>3. ASSUME Len(wire) < 3, Quiet(sent[Len(sent)]) PROVE ~StartsPacket(Head(wire))
  <2>1. Len(wire) = 1 \/ Len(wire) = 2
    BY <1>2, <1>3
  <2>2. Head(wire) = sent[Len(sent)][1] \/ Head(wire) = sent[Len(sent)][2]
    <3>1. CASE Len(wire) = 1
      BY <1>2, <3>1
    <3>2. CASE Len(wire) = 2
      BY <1>2, <3>2
    <3> QED
      BY <2>1, <3>1, <3>2
  <2> QED
    BY <1>3, <2>2, StartsIsSign DEF Quiet
<1> QED
  BY <1>1, <1>2, <1>3

\* Where the handler is after one byte.
LEMMA IndexAfter ==
  ASSUME SendInv, Interrupt
  PROVE  /\ packet_index = 1 => packet_index' = 2
         /\ packet_index = 2 => packet_index' = 0
         /\ packet_index = 0 /\ Len(wire) < 3 /\ Quiet(sent[Len(sent)]) =>
              packet_index' = 0
         /\ packet_index = 0 /\ Len(wire) = 3 =>
              packet_index' = IF Signed(sent[Len(sent)]) THEN 1 ELSE 0
         /\ packet_index \in 0..2
<1>1. PacketTypeOK /\ packet_index \in 0..2
  BY DEF SendInv, TypeOK, PacketTypeOK, MOUSE_PACKET_SIZE
<1>2. /\ packet_index = 0 =>
           packet_index' = IF StartsPacket(Head(wire)) THEN 1 ELSE 0
      /\ packet_index = 1 => packet_index' = 2
      /\ packet_index = 2 => packet_index' = 0
  BY <1>1, InterruptTakes, ReceiveCases
<1>3. Len(wire) = 3 => Head(wire) = sent[Len(sent)][0]
  BY InterruptTakes
<1>4. Len(wire) < 3 /\ Quiet(sent[Len(sent)]) => ~StartsPacket(Head(wire))
  BY InterruptTakes
<1> QED
  BY <1>1, <1>2, <1>3, <1>4, StartsIsSign DEF Signed

LEMMA InterruptInStep ==
  ASSUME SendInv, InStepInv, Interrupt
  PROVE  InStepInv'
<1>1. /\ Len(wire) \in 1..3 /\ Len(wire') = Len(wire) - 1
      /\ sent' = sent /\ taken' = taken
  BY InterruptTakes
<1>2. Len(wire) = 1 \/ Len(wire) = 2 \/ Len(wire) = 3
  BY <1>1
<1>3. SUFFICES ASSUME sent # <<>>, Undisturbed, Quiet(sent[Len(sent)])
               PROVE  /\ Len(wire') = 0 => packet_index' = 0
                      /\ Len(wire') = 1 => packet_index' # 1
  BY <1>1 DEF InStepInv, Undisturbed, Disturbed
<1>4. Len(wire) = 1 => packet_index # 1
  BY <1>3 DEF InStepInv
<1>5. CASE Len(wire) = 1
  BY <1>1, <1>3, <1>4, <1>5, IndexAfter
<1>6. CASE Len(wire) = 2
  BY <1>1, <1>3, <1>6, IndexAfter
<1>7. CASE Len(wire) = 3
  BY <1>1, <1>7
<1> QED
  BY <1>2, <1>5, <1>6, <1>7

LEMMA InterruptWhole ==
  ASSUME SendInv, WholeInv, Interrupt
  PROVE  WholeInv'
<1> DEFINE p == sent[Len(sent)]
<1>1. /\ Len(wire) \in 1..3 /\ Len(wire') = Len(wire) - 1
      /\ UNCHANGED <<sent, taken>>
      /\ Head(wire) = p[3 - Len(wire)] /\ Head(wire) \in Byte
      /\ Receive(Head(wire))
  BY InterruptTakes
<1>2. SUFFICES ASSUME sent # <<>>, Undisturbed, InStepAfter(Len(sent) - 1)
               PROVE  /\ Len(wire') = 3 => packet_index' = 0
                      /\ Len(wire') \in {1, 2} /\ Signed(p) =>
                           /\ packet_index' = 3 - Len(wire')
                           /\ \A k \in 0..(packet_index' - 1) : packet'[k] = p[k]
                      /\ Len(wire') \in {1, 2} /\ ~Signed(p) /\ Quiet(p) =>
                           packet_index' = 0
                      /\ Len(wire') = 0 /\ Signed(p) =>
                           /\ packet_index' = 0
                           /\ processed' # <<>> /\ processed'[Len(processed')] = p
  BY <1>1 DEF WholeInv, Undisturbed, Disturbed, InStepAfter
<1>3. /\ Len(wire) = 3 => packet_index = 0
      /\ Len(wire) \in {1, 2} /\ Signed(p) =>
           /\ packet_index = 3 - Len(wire)
           /\ \A k \in 0..(packet_index - 1) : packet[k] = p[k]
      /\ Len(wire) \in {1, 2} /\ ~Signed(p) /\ Quiet(p) => packet_index = 0
  BY <1>2 DEF WholeInv
<1>4. PacketTypeOK /\ packet_index \in 0..2 /\ packet' \in Packet
      /\ processed \in Seq(Packet)
  BY <1>1, ReceiveType DEF SendInv, TypeOK, PacketTypeOK, MOUSE_PACKET_SIZE
<1>5. /\ packet'[packet_index] = Head(wire)
      /\ \A k \in 0..2 : k # packet_index => packet'[k] = packet[k]
  BY <1>1, <1>4, ReceiveCases, StoredByte
<1>6. CASE Len(wire) = 3
  <2>1. Len(wire') = 2 /\ packet_index = 0
    BY <1>1, <1>3, <1>6
  <2>2. packet_index' = IF Signed(p) THEN 1 ELSE 0
    BY <1>6, <2>1, IndexAfter
  <2>3. packet'[0] = p[0]
    BY <1>1, <1>5, <1>6, <2>1
  <2> QED
    BY <2>1, <2>2, <2>3
<1>7. CASE Len(wire) = 2
  <2>1. Len(wire') = 1
    BY <1>1, <1>7
  <2>2. CASE Signed(p)
    <3>1. packet_index = 1 /\ packet[0] = p[0]
      BY <1>3, <1>7, <2>2
    <3>2. packet_index' = 2
      BY <3>1, IndexAfter
    <3>3. packet'[0] = p[0] /\ packet'[1] = p[1]
      BY <1>1, <1>5, <1>7, <3>1
    <3> QED
      BY <2>1, <2>2, <3>2, <3>3
  <2>3. CASE ~Signed(p)
    <3>1. Quiet(p) => packet_index' = 0
      BY <1>3, <1>7, <2>3, IndexAfter
    <3> QED
      BY <2>1, <2>3, <3>1
  <2> QED
    BY <2>2, <2>3
<1>8. CASE Len(wire) = 1
  <2>1. Len(wire') = 0
    BY <1>1, <1>8
  <2>2. CASE Signed(p)
    <3>1. packet_index = 2 /\ packet[0] = p[0] /\ packet[1] = p[1]
      BY <1>3, <1>8, <2>2
    <3>2. processed' = Append(processed, packet')
      BY <1>1, <1>4, <3>1, ReceiveCases DEF Mouse_ProcessPacket
    <3>3. packet'[0] = p[0] /\ packet'[1] = p[1] /\ packet'[2] = p[2]
      BY <1>1, <1>5, <1>8, <3>1
    <3>4. p \in Packet
      BY <1>1, NextByte DEF Interrupt
    <3>5. packet' = p
      BY <1>4, <3>3, <3>4 DEF Packet, MOUSE_PACKET_SIZE
    <3>6. packet_index' = 0
      BY <3>1, IndexAfter
    <3> QED
      BY <1>4, <2>1, <3>2, <3>4, <3>5, <3>6
  <2> QED
    BY <2>1, <2>2
<1> QED
  BY <1>1, <1>6, <1>7, <1>8

\* Between packets the driver is in step where it should be.
LEMMA BetweenInStep ==
  ASSUME SendInv, StepInv, wire = <<>>, InStepAfter(Len(sent))
  PROVE  packet_index = 0
<1>1. Len(wire) = 0 /\ sent \in Seq(Packets) /\ Len(sent) \in Nat
  BY DEF SendInv, TypeOK
<1>2. CASE sent = <<>>
  BY <1>2 DEF StepInv, FirstInv
<1>3. CASE sent # <<>>
  <2>1. Len(sent) # 0
    BY <1>1, <1>3
  <2>2. /\ Undisturbed
        /\ \/ Quiet(sent[Len(sent)])
           \/ Signed(sent[Len(sent)]) /\ InStepAfter(Len(sent) - 1)
    BY <1>1, <2>1, InStepLast DEF Undisturbed
  <2> QED
    BY <1>1, <1>3, <2>2 DEF StepInv, InStepInv, WholeInv
<1> QED
  BY <1>2, <1>3

\* What happened to the earlier packets does not change.
LEMMA InStepAfterKept ==
  ASSUME NEW n \in 0..Len(sent), UNCHANGED taken,
         \A k \in 1..Len(sent) : sent'[k] = sent[k], Len(sent) \in Nat
  PROVE  InStepAfter(n)' <=> InStepAfter(n)
<1>1. \A k : Disturbed(k)' <=> Disturbed(k)
  BY DEF Disturbed
<1>2. \A m \in 0..n : (m # 0 => m \in 1..Len(sent)) /\ (m + 1)..n \subseteq 1..Len(sent)
  OBVIOUS
<1> QED
  BY <1>1, <1>2 DEF InStepAfter

LEMMA SendStep ==
  ASSUME SendInv, StepInv, NEW p \in Packets, Send(p) PROVE StepInv'
<1>1. /\ wire = <<>> /\ Len(wire') = 3 /\ UNCHANGED <<packetVars, taken>>
      /\ sent \in Seq(Packets) /\ sent' = Append(sent, p)
  BY DEF Send, SendInv, TypeOK
<1>2. /\ Len(sent') - 1 = Len(sent) /\ Len(sent) \in 0..Len(sent)
      /\ \A k \in 1..Len(sent) : sent'[k] = sent[k]
      /\ sent' # <<>> /\ Len(sent) \in Nat
  BY <1>1
<1>3. PICK n \in 0..Len(sent) : n = Len(sent)
  BY <1>2
<1>4. InStepAfter(n)' <=> InStepAfter(n)
  BY <1>1, <1>2, InStepAfterKept
<1>5. InStepAfter(Len(sent) - 1)' => packet_index' = 0
  <2>1. (InStepAfter(Len(sent) - 1))' <=> InStepAfter(n)'
    BY <1>2, <1>3 DEF InStepAfter
  <2> QED
    BY <1>1, <1>3, <1>4, <2>1, BetweenInStep DEF packetVars
<1>6. InStepInv' /\ FirstInv'
  BY <1>1, <1>2 DEF InStepInv, FirstInv
<1>7. WholeInv'
  BY <1>1, <1>5 DEF WholeInv
<1> QED
  BY <1>6, <1>7 DEF StepInv

LEMMA StepInvNext ==
  ASSUME SendInv, StepInv, [Next]_vars PROVE StepInv'
<1>1. CASE Interrupt
  <2>1. sent # <<>> /\ sent' = sent
    BY <1>1, InterruptTakes DEF SendInv, WireInv, Interrupt
  <2>2. FirstInv'
    BY <2>1 DEF FirstInv
  <2> QED
    BY <1>1, <2>2, InterruptInStep, InterruptWhole DEF StepInv
<1>2. CASE Mouse_Disable_Fails
  <2>1. /\ taken' = Append(taken, Len(sent)) /\ UNCHANGED <<packetVars, sent>>
        /\ taken \in Seq(1..MaxPackets) /\ Len(sent) \in 1..MaxPackets
    BY <1>2, NextByte DEF Mouse_Disable_Fails, SendInv, TypeOK
  <2>2. taken'[Len(taken')] = Len(sent) /\ Len(taken') \in DOMAIN taken'
    BY <2>1
  <2>3. ~Undisturbed'
    BY <2>1, <2>2 DEF Undisturbed, Disturbed, ToSet
  <2>4. FirstInv'
    BY <2>1 DEF StepInv, FirstInv, packetVars
  <2> QED
    BY <2>3, <2>4 DEF StepInv, InStepInv, WholeInv
<1>3. ASSUME NEW p \in Packets, Send(p) PROVE StepInv'
  BY <1>3, SendStep
<1>4. CASE UNCHANGED vars
  BY <1>4 DEF vars, packetVars, StepInv, FirstInv, InStepInv, WholeInv,
              Undisturbed, Disturbed, InStepAfter
<1> QED
  BY <1>1, <1>2, <1>3, <1>4 DEF Next

LEMMA StepInvariant == Spec => []StepInv
<1>1. Init => StepInv
  BY DEF Init, PacketInit, StepInv, FirstInv, InStepInv, WholeInv
<1>2. SendInv /\ StepInv /\ [Next]_vars => StepInv'
  BY StepInvNext
<1> QED
  BY <1>1, <1>2, SendInvariant, PTL DEF Spec

\* Whatever the payloads, one whole packet with a quiet payload brings the
\* driver back into step, and from then on whole packets with a sign bit are
\* processed as they were sent until a call takes a byte or a packet without a
\* sign bit has a payload byte that looks like a first byte.
THEOREM Resynchronization == Spec => []RegainsStep
<1>1. ASSUME SendInv, StepInv PROVE RegainsStep
  <2> SUFFICES ASSUME wire = <<>>, InStepAfter(Len(sent))
               PROVE  /\ packet_index = 0
                      /\ sent # <<>> /\ Signed(Last(sent))
                           /\ InStepAfter(Len(sent) - 1) =>
                           processed # <<>> /\ Last(processed) = Last(sent)
    BY DEF RegainsStep
  <2>1. packet_index = 0
    BY <1>1, BetweenInStep
  <2>2. ASSUME sent # <<>>, Signed(Last(sent)), InStepAfter(Len(sent) - 1)
        PROVE  processed # <<>> /\ Last(processed) = Last(sent)
    <3>1. sent \in Seq(Packets) /\ Len(wire) = 0 /\ Len(sent) \in Nat
      BY <1>1 DEF SendInv, TypeOK
    <3>2. Len(sent) # 0
      BY <2>2, <3>1
    <3>3. Undisturbed
      BY <3>1, <3>2, InStepLast DEF Undisturbed
    <3> QED
      BY <1>1, <2>2, <3>1, <3>3 DEF StepInv, WholeInv, Last
  <2> QED
    BY <2>1, <2>2
<1> QED
  BY <1>1, StepInvariant, SendInvariant, PTL

-----------------------------------------------------------------------------
(* What is processed while no call takes a byte: every packet is whole.    *)

SoFar == \A n \in 1..Len(sent) : Signed(sent[n]) \/ Quiet(sent[n])

KeptInv ==
  taken = <<>> /\ SoFar =>
    processed = WithSign(IF wire = <<>> THEN sent ELSE Front(sent))

LEMMA FrontAppend ==
  ASSUME NEW S, NEW s \in Seq(S), s # <<>>
  PROVE  Front(s) \in Seq(S) /\ s = Append(Front(s), s[Len(s)]) /\ s[Len(s)] \in S
<1>1. Front(s) = [n \in 1..(Len(s) - 1) |-> s[n]]
  BY DEF Front
<1> QED
  BY <1>1

LEMMA NobodyTook == ASSUME taken = <<>> PROVE \A n : ~Disturbed(n)
BY DEF Disturbed, ToSet

\* Without a byte taken and with such packets only it is always in step.
LEMMA AlwaysInStep ==
  ASSUME taken = <<>>, SoFar, Len(sent) \in Nat, NEW n \in 0..Len(sent)
  PROVE  InStepAfter(n)
<1>1. \A k \in (0 + 1)..n : ~Disturbed(k) /\ (Signed(sent[k]) \/ Quiet(sent[k]))
  BY NobodyTook DEF SoFar
<1>2. 0 \in 0..n
  OBVIOUS
<1> QED
  BY <1>1, <1>2 DEF InStepAfter

LEMMA KeptInterrupt ==
  ASSUME SendInv, StepInv, KeptInv, Interrupt PROVE KeptInv'
<1> DEFINE p == sent[Len(sent)]
<1> SUFFICES ASSUME taken = <<>>, SoFar
             PROVE  processed' = WithSign(IF wire' = <<>> THEN sent ELSE Front(sent))
  BY InterruptTakes DEF KeptInv, SoFar
<1>1. /\ Len(wire) \in 1..3 /\ Len(wire') = Len(wire) - 1 /\ wire # <<>>
      /\ Receive(Head(wire)) /\ Head(wire) \in Byte
  BY InterruptTakes DEF Interrupt
<1>2. processed = WithSign(Front(sent))
  BY <1>1 DEF KeptInv
<1>3. /\ sent \in Seq(Packets) /\ sent # <<>> /\ PacketTypeOK
      /\ processed \in Seq(Packet) /\ wire' \in Seq(Byte)
  BY <1>1, NextByte DEF SendInv, TypeOK, WireInv, PacketTypeOK, Interrupt
<1>4. /\ Len(wire) = 3 => packet_index = 0
      /\ Len(wire) \in {1, 2} =>
           IF Signed(p) THEN packet_index = 3 - Len(wire) ELSE packet_index = 0
  <2>1. Len(sent) \in Nat \ {0}
    BY <1>3
  <2>2. InStepAfter(Len(sent) - 1) /\ (Signed(p) \/ Quiet(p))
    BY <2>1, AlwaysInStep DEF SoFar
  <2> QED
    BY <1>3, <2>2, NobodyTook DEF StepInv, WholeInv, Undisturbed
<1>5. CASE Len(wire) # 1
  <2>1. packet_index # 2
    BY <1>1, <1>4, <1>5
  <2>2. UNCHANGED processed
    BY <1>1, <1>3, <2>1, ReceiveCases
  <2>3. wire' # <<>>
    BY <1>1, <1>5
  <2> QED
    BY <1>2, <2>2, <2>3
<1>6. CASE Len(wire) = 1
  <2>1. wire' = <<>>
    BY <1>1, <1>3, <1>6
  <2>2. /\ Front(sent) \in Seq(Packets) /\ p \in Packets
        /\ sent = Append(Front(sent), p)
    BY <1>3, FrontAppend
  <2>3. WithSign(sent) =
          IF Signed(p) THEN Append(WithSign(Front(sent)), p)
                        ELSE WithSign(Front(sent))
    BY <2>2, WithSignAppend
  <2>4. CASE Signed(p)
    <3>1. packet_index = 2
      BY <1>4, <1>6, <2>4
    <3>2. processed' = Append(processed, packet')
      BY <1>1, <1>3, <3>1, ReceiveCases DEF Mouse_ProcessPacket
    <3>3. WholeInv' /\ sent' = sent /\ taken' = <<>>
      BY InterruptWhole, InterruptTakes DEF StepInv
    <3>4. Len(wire') = 0 /\ (\A n : ~Disturbed(n)')
      BY <2>1, <3>3 DEF Disturbed, ToSet
    <3>7. InStepAfter(Len(sent) - 1)'
      <4>1. Len(sent) - 1 \in 0..Len(sent) /\ Len(sent) \in Nat
        BY <1>3
      <4>2. InStepAfter(Len(sent) - 1)
        BY <4>1, AlwaysInStep
      <4> QED
        BY <3>3, <4>2 DEF InStepAfter, Disturbed
    <3>5. processed'[Len(processed')] = p
      BY <1>3, <2>4, <3>3, <3>4, <3>7 DEF WholeInv, Undisturbed
    <3>6. packet' = p
      BY <1>3, <3>2, <3>5
    <3> QED
      BY <1>2, <2>1, <2>3, <2>4, <3>2, <3>6
  <2>5. CASE ~Signed(p)
    <3>1. packet_index # 2
      BY <1>4, <1>6, <2>5
    <3>2. UNCHANGED processed
      BY <1>1, <1>3, <3>1, ReceiveCases
    <3> QED
      BY <1>2, <2>1, <2>3, <2>5, <3>2
  <2> QED
    BY <2>4, <2>5
<1> QED
  BY <1>5, <1>6

LEMMA KeptInvNext ==
  ASSUME SendInv, StepInv, KeptInv, [Next]_vars PROVE KeptInv'
<1>1. CASE Interrupt
  BY <1>1, KeptInterrupt
<1>2. CASE Mouse_Disable_Fails
  <2>1. /\ taken \in Seq(1..MaxPackets) /\ taken' = Append(taken, Len(sent))
        /\ Len(sent) \in 1..MaxPackets
    BY <1>2, NextByte DEF Mouse_Disable_Fails, SendInv, TypeOK
  <2>2. Len(taken') = Len(taken) + 1 /\ Len(taken) \in Nat
    BY <2>1
  <2>3. taken' # <<>>
    BY <2>2
  <2> QED
    BY <2>3 DEF KeptInv
<1>3. ASSUME NEW p \in Packets, Send(p) PROVE KeptInv'
  <2>1. /\ wire = <<>> /\ wire' # <<>> /\ UNCHANGED <<processed, taken>>
        /\ sent' = Append(sent, p) /\ sent \in Seq(Packets)
    BY <1>3 DEF Send, packetVars, SendInv, TypeOK
  <2>2. Front(sent') = sent
    BY <2>1 DEF Front
  <2>3. SoFar' => SoFar
    BY <2>1 DEF SoFar
  <2> QED
    BY <2>1, <2>2, <2>3 DEF KeptInv
<1>4. CASE UNCHANGED vars
  BY <1>4 DEF vars, packetVars, KeptInv, SoFar
<1> QED
  BY <1>1, <1>2, <1>3, <1>4 DEF Next

\* While no call takes a byte and every packet without a sign bit has a quiet
\* payload, the driver has processed between packets just those with a sign
\* bit, in order, whatever their payload.
THEOREM Processing == Spec => []SignedPacketsAreProcessed
<1>1. Init => KeptInv
  BY WithSignEmpty DEF Init, PacketInit, KeptInv
<1>2. SendInv /\ StepInv /\ KeptInv /\ [Next]_vars => KeptInv'
  BY KeptInvNext
<1>3. ASSUME SendInv, StepInv, KeptInv PROVE SignedPacketsAreProcessed
  <2> SUFFICES ASSUME wire = <<>>, taken = <<>>, SoFar
               PROVE  packet_index = 0 /\ processed = WithSign(sent)
    BY DEF SoFar, SignedPacketsAreProcessed
  <2>1. Len(sent) \in Nat /\ Len(sent) \in 0..Len(sent)
    BY <1>3 DEF SendInv, TypeOK
  <2>2. InStepAfter(Len(sent))
    BY <2>1, AlwaysInStep
  <2> QED
    BY <1>3, <2>2, BetweenInStep DEF KeptInv
<1> QED
  BY <1>1, <1>2, <1>3, StepInvariant, SendInvariant, PTL DEF Spec
=============================================================================
