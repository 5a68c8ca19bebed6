--------------------------- MODULE MCMouseFraming ---------------------------
(***************************************************************************)
(* Packets for MouseFraming.  The first byte of a packet has bit 3 set (8) *)
(* plus the X sign (16), the Y sign (32) and the buttons (0..7).           *)
(***************************************************************************)
EXTENDS MouseFraming

Bytes(flags, x, y) == [i \in 0..2 |-> <<flags, x, y>>[i + 1]]

\* Left, down-left with a button, and a button alone have a quiet payload.
\* The last two, one with a sign bit and one without, have payload
\* bytes that look like first bytes.
MixedPackets ==
  {Bytes(24, 192, 0), Bytes(57, 128, 200), Bytes(9, 0, 0),
   Bytes(24, 48, 40), Bytes(9, 20, 33)}
=============================================================================
