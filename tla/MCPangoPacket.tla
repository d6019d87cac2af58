---------------------------- MODULE MCPangoPacket ----------------------------
(* Values of the constants of PangoPacket for TLC.                          *)
EXTENDS PangoPacket

\* Addresses of one maker.  Without the colons the texts of the first two
\* would be equal; that of the second begins that of the third.
Boards == {<<0, 128, 225, 18, 1, 2>>, <<0, 128, 225, 1, 33, 2>>, <<0, 128, 225, 1, 33, 35>>}

Zeroes == [k \in 1 .. 10 |-> 0]

\* With and without a carriage return among the coordinates.
Numbers == {<<141, 200>>, <<65, 66>>}

\* Every error of one bit, and one of two bits for every distance: what a
\* checksum of this kind makes of an error does not depend on where it begins.
OneOrTwoBits == {{p} : p \in 0 .. 79} \cup {{p, 79} : p \in 0 .. 78}
=============================================================================
