----------------------------- MODULE MCCapture ------------------------------
(***************************************************************************)
(* Side information with registers in and out of sequence, in all the      *)
(* packings; one has the tag that ends a line among its values, another    *)
(* one has it as the filler, and one goes over a byte of the number.       *)
(***************************************************************************)
EXTENDS Capture

Registers == {<< >>, << <<\H100, 7>> >>, << <<\H34, 1>>, <<\H35, \H55>>, <<\H3000, \HAA>> >>,
              << <<\HFFE, 1>>, <<\HFFF, 2>>, <<\H1000, 7>>, <<\H1001, 4>>, <<\H2, \H5A>> >>}

MCSideInfo == [writes : Registers, depth : {8, 10, 12}, filler : {Skip, End}]
=============================================================================
