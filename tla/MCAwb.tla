------------------------------- MODULE MCAwb -------------------------------
(* Black, white, and a shade between whose low bits are not all the same. *)
EXTENDS Awb

MCShades(d) == {0, 2^(d - 1) + 11, 2^d - 1}
=============================================================================
