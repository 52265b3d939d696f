------------------------------- MODULE Raw12 --------------------------------
(***************************************************************************)
(* How the converter splits a row of pixels of twelve bits into two rows   *)
(* of eight: pairs of pixels in three bytes, their high bits first.        *)
(***************************************************************************)
EXTENDS Integers, Sequences

\* The pixels that a row of bytes has, from 0, and the place of the first byte of a pixel's
\* group.
Columns(raw12) == 0 .. 2 * (Len(raw12) \div 3) - 1
FirstByte(j) == 3 * (j \div 2) + 1

\* Mutant: the nibbles of the third byte are exchanged.
NibbleSwapped(byte, j) == IF j % 2 = 0 THEN byte \div 16 ELSE byte % 16

Nibble(byte, j) == IF j % 2 = 0 THEN byte % 16 ELSE byte \div 16

\* The low eight bits of each pixel.
raw12_to_raw8_lo(raw12) ==
    [j \in Columns(raw12) |-> ((raw12[FirstByte(j) + (j % 2)] * 16) % 256)
                                 + Nibble(raw12[FirstByte(j) + 2], j)]

\* The high eight.
raw12_to_raw8_hi(raw12) == [j \in Columns(raw12) |-> raw12[FirstByte(j) + (j % 2)]]
=============================================================================
