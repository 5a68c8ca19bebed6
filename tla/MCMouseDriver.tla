--------------------------- MODULE MCMouseDriver ----------------------------
(***************************************************************************)
(* Packets for MouseDriver, chosen to be mistaken for something else: the  *)
(* payload of the first holds 0xAA and 0xFA, the second has no sign bit.   *)
(***************************************************************************)
EXTENDS MouseDriver

Bytes(flags, x, y) == [i \in 0..2 |-> <<flags, x, y>>[i + 1]]

TrickyPackets == {Bytes(24, 170, 250), Bytes(9, 5, 16)}
OnePacket == {Bytes(24, 170, 250)}
=============================================================================
