---------------------------- MODULE MCFanoutRaw ----------------------------
(* The rawcam pipeline: three buffers, three isp headers, both worker threads. *)
EXTENDS Fanout

CONSTANTS Awb, Processing

MCWorkers == {Awb, Processing}
MCPutOrder == <<Awb, Processing>>
Symmetry == Permutations(Buffers) \cup Permutations(Replicas)
=============================================================================
