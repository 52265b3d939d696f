---------------------------- MODULE MCIlBuffers -----------------------------
(***************************************************************************)
(* A component with two output ports and an input port, and two threads:   *)
(* one gets what the component puts out, the other feeds it.               *)
(***************************************************************************)
EXTENDS IlBuffers

CONSTANTS p1, p2, p3, t1, t2

PortDirs == (p1 :> "out") @@ (p2 :> "out") @@ (p3 :> "in")
Counts == (p1 :> 2) @@ (p2 :> 1) @@ (p3 :> 1)
PortsOf == (t1 :> {p1, p2}) @@ (t2 :> {p3})
=============================================================================
