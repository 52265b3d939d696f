---------------------------- MODULE BufferLedger ----------------------------
(***************************************************************************)
(* What a raspiraw buffer pipeline promises, without its queues, threads   *)
(* and reference counters: a ledger that says, for every buffer of a pool, *)
(* which parties may touch its memory.                                     *)
(*                                                                         *)
(* A buffer nobody holds is free.  The output port (the hardware, which    *)
(* writes into the buffer) holds it alone; it hands it to the callback,    *)
(* which may share it with the sinks and the worker threads; each of them  *)
(* gives it up on its own.  Fanout implements this specification, for the  *)
(* rawcam pool and for the isp output pool alike.                          *)
(***************************************************************************)
CONSTANTS
    Buffers,   \* the buffer headers of the pool
    Parties,   \* everyone who can hold a buffer
    Port,      \* the output port the pool feeds
    Callback   \* the party, other than Port, to which the port hands a filled buffer

VARIABLE holders   \* holders[b]: the parties that may touch b now

Init == holders = [b \in Buffers |-> {}]

\* Someone takes a free buffer, on its way to the port.
Take(b, p) == /\ holders[b] = {}
              /\ holders' = [holders EXCEPT ![b] = {p}]

\* ... and gives it to the port, to be written.
Submit(b, p) == /\ holders[b] = {p}
                /\ holders' = [holders EXCEPT ![b] = {Port}]

\* The port has written the buffer and hands it over.
Deliver(b) == /\ holders[b] = {Port}
              /\ holders' = [holders EXCEPT ![b] = {Callback}]

\* Only the callback lets others in, and only while it holds the buffer.
Share(b, p) == /\ Callback \in holders[b]
               /\ Port # p
               /\ p \notin holders[b]
               /\ holders' = [holders EXCEPT ![b] = @ \cup {p}]

\* A party is done with the buffer; after the last one it is free.
Drop(b, p) == /\ p \in holders[b] \ {Port}
              /\ holders' = [holders EXCEPT ![b] = @ \ {p}]

Next == \E b \in Buffers :
            \/ Deliver(b)
            \/ \E p \in Parties \ {Port} :
                    Take(b, p) \/ Submit(b, p) \/ Share(b, p) \/ Drop(b, p)

Spec == Init /\ [][Next]_holders

-----------------------------------------------------------------------------
\* The hardware never writes a buffer that somebody else is reading: while the
\* port holds a buffer nobody else does (mmal_port_send_buffer, raspiraw.c:573).
PortIsAlone == \A b \in Buffers : Port \in holders[b] => holders[b] = {Port}
=============================================================================
