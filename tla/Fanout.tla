------------------------------- MODULE Fanout -------------------------------
(***************************************************************************)
(* The buffer fan-out of raspiraw.c: how the buffers of a pool travel from *)
(* an output port through the port's callback to a sink component and to   *)
(* worker threads, and back to the port.  The program has it twice:        *)
(*                                                                         *)
(*   rawcam: callback, buffers_to_rawcam, isp_ip_cb, awb_thread_task and   *)
(*           processing_thread_task;  the sink is the isp's input;         *)
(*   yuv:    yuv_callback, buffers_to_isp_op, vr_ip_cb and                 *)
(*           processing_yuv_thread_task;  the sink is the video renderer.  *)
(*                                                                         *)
(* The agents are threads: the port's callback, the sink's callback, one   *)
(* thread per worker, and main, which primes the port.  Each MMAL call is  *)
(* one step (MMAL locks inside it); between two calls of one agent the     *)
(* others may run.  MMAL itself is external: queues are FIFO, a header     *)
(* whose last reference is released returns to its pool, and releasing a   *)
(* replica also releases its reference on the header it replicates.        *)
(***************************************************************************)
EXTENDS Naturals, Sequences, FiniteSets, SequencesExt

CONSTANTS
    Buffers,       \* headers of the pool (rawcam_pool, isp_op_pool)
    Replicas,      \* headers of the sink's pool (isp_ip_pool, vr_ip_pool); {} without a sink
    Workers,       \* threads with a queue (awb, processing; processing_yuv)
    PutOrder,      \* the order in which the callback serves the workers' queues
    Callback,      \* the output port's callback thread
    SinkCallback,  \* the thread that runs the sink's callback
    Main,          \* the main thread
    Port,          \* the output port, as a holder of buffers
    NoBuffer,      \* "none"
    NoReplica,     \* "none"
    SinkMayFail    \* may mmal_port_send_buffer to the sink return an error?

Agents == Workers \cup {Callback, SinkCallback, Main}
Parties == Agents \cup Replicas \cup {Port}

ASSUME BuffersAssumption == /\ IsFiniteSet(Buffers)
                            /\ NoBuffer \notin Buffers
                            /\ IsFiniteSet(Replicas)
                            /\ NoReplica \notin Replicas
                            /\ SinkMayFail \in BOOLEAN
ASSUME WorkersAssumption == /\ IsFiniteSet(Workers)
                            /\ PutOrder \in Seq(Workers)
                            /\ IsInjective(PutOrder)
ASSUME PartiesAssumption == /\ Callback # SinkCallback
                            /\ Callback # Main
                            /\ SinkCallback # Main
                            /\ Workers \cap {Callback, SinkCallback, Main} = {}
                            /\ Agents \cap Replicas = {}
                            /\ Port \notin Agents \cup Replicas

VARIABLES
    pool,      \* the pool's queue of free headers
    port,      \* the buffers the output port may write into
    ref,       \* ref[b]: the header's reference counter
    queue,     \* queue[w]: a worker's queue
    sinkQ,     \* the replicas the sink has been sent, oldest first
    freeReps,  \* the free headers of the sink's pool
    src,       \* src[r]: the buffer that r replicates
    pc,        \* pc[a]: where agent a is
    hold,      \* hold[a]: the buffer in a's local variable
    out,       \* the callback's local variable out, a replica
    fwd,       \* does the callback forward its buffer (length > 0, no side info)?
    nextPut    \* index in PutOrder of the next queue the callback serves

vars == <<pool, port, ref, queue, sinkQ, freeReps, src, pc, hold, out, fwd, nextPut>>

\* main is about to prime the port with the whole pool.
Init == /\ pool \in SetToSeqs(Buffers)
        /\ port = {}
        /\ ref = [b \in Buffers |-> 0]
        /\ queue = [w \in Workers |-> <<>>]
        /\ sinkQ = <<>>
        /\ freeReps = Replicas
        /\ src = [r \in Replicas |-> NoBuffer]
        /\ pc = [a \in Agents |-> IF a = Main THEN "drain" ELSE "idle"]
        /\ hold = [a \in Agents |-> NoBuffer]
        /\ out = NoReplica
        /\ fwd = FALSE
        /\ nextPut = 1

Goto(a, label) == pc' = [pc EXCEPT ![a] = label]

-----------------------------------------------------------------------------
(* MMAL, as the program uses it *)

\* mmal_buffer_header_acquire
Acquire(b) == ref' = [ref EXCEPT ![b] = @ + 1]

\* mmal_buffer_header_release: the last reference returns the header to its pool
Release(b) == /\ ref' = [ref EXCEPT ![b] = @ - 1]
              /\ pool' = IF ref[b] = 1 THEN Append(pool, b) ELSE pool

-----------------------------------------------------------------------------
(* buffers_to_rawcam, buffers_to_isp_op: the loop that every agent runs *)

DrainGet(a) == /\ pc[a] = "drain"
               /\ pool # <<>>
               /\ pool' = Tail(pool)
               /\ hold' = [hold EXCEPT ![a] = Head(pool)]
               /\ Acquire(Head(pool))
               /\ Goto(a, "send")
               /\ UNCHANGED <<port, queue, sinkQ, freeReps, src, out, fwd, nextPut>>

\* Mutant: an if in place of the while.
DrainSendOnce(a) == /\ pc[a] = "send"
                    /\ port' = port \cup {hold[a]}
                    /\ hold' = [hold EXCEPT ![a] = NoBuffer]
                    /\ Goto(a, "idle")
                    /\ UNCHANGED <<pool, ref, queue, sinkQ, freeReps, src, out, fwd, nextPut>>

DrainSend(a) == /\ pc[a] = "send"
                /\ port' = port \cup {hold[a]}
                /\ hold' = [hold EXCEPT ![a] = NoBuffer]
                /\ Goto(a, "drain")
                /\ UNCHANGED <<pool, ref, queue, sinkQ, freeReps, src, out, fwd, nextPut>>

DrainDone(a) == /\ pc[a] = "drain"
                /\ pool = <<>>
                /\ Goto(a, "idle")
                /\ UNCHANGED <<pool, port, ref, queue, sinkQ, freeReps, src, hold, out,
                               fwd, nextPut>>

-----------------------------------------------------------------------------
(* callback, yuv_callback *)

\* The port returns a buffer.  Streaming starts when main has primed the port.
\* Side information and empty buffers are saved or decoded, but not forwarded.
Deliver(b) == /\ pc[Main] = "idle"
              /\ pc[Callback] = "idle"
              /\ b \in port
              /\ port' = port \ {b}
              /\ hold' = [hold EXCEPT ![Callback] = b]
              /\ fwd' \in BOOLEAN
              /\ nextPut' = 1
              /\ Goto(Callback, "save")
              /\ UNCHANGED <<pool, ref, queue, sinkQ, freeReps, src, out>>

\* The frame has been written to its file, or the metadata decoded.
Saved == /\ pc[Callback] = "save"
         /\ Goto(Callback, IF fwd THEN "replicate" ELSE "release")
         /\ UNCHANGED <<pool, port, ref, queue, sinkQ, freeReps, src, hold, out, fwd, nextPut>>

\* Mutant: the replica shares the data without a reference.
ReplicateShallow(r) == /\ pc[Callback] = "replicate"
                       /\ r \in freeReps
                       /\ freeReps' = freeReps \ {r}
                       /\ src' = [src EXCEPT ![r] = hold[Callback]]
                       /\ out' = r
                       /\ Goto(Callback, "toSink")
                       /\ UNCHANGED <<pool, port, ref, queue, sinkQ, hold, fwd, nextPut>>

\* A header of the sink's pool is made a replica of the buffer, if one is free.
Replicate(r) == /\ pc[Callback] = "replicate"
                /\ r \in freeReps
                /\ freeReps' = freeReps \ {r}
                /\ src' = [src EXCEPT ![r] = hold[Callback]]
                /\ out' = r
                /\ Acquire(hold[Callback])
                /\ Goto(Callback, "toSink")
                /\ UNCHANGED <<pool, port, queue, sinkQ, hold, fwd, nextPut>>

\* No sink, or no free header: the sink misses this frame.
SkipSink == /\ pc[Callback] = "replicate"
            /\ freeReps = {}
            /\ Goto(Callback, "put")
            /\ UNCHANGED <<pool, port, ref, queue, sinkQ, freeReps, src, hold, out, fwd, nextPut>>

\* A failure is only logged: neither out nor its reference on the buffer is
\* given back.
SendToSink == /\ pc[Callback] = "toSink"
              /\ \/ sinkQ' = Append(sinkQ, out)
                 \/ SinkMayFail /\ UNCHANGED sinkQ
              /\ out' = NoReplica
              /\ Goto(Callback, "put")
              /\ UNCHANGED <<pool, port, ref, queue, freeReps, src, hold, fwd, nextPut>>

\* Mutant: no mmal_buffer_header_acquire before the put.
PutAcquireForgotten == /\ pc[Callback] = "put"
                       /\ nextPut <= Len(PutOrder)
                       /\ Goto(Callback, "enqueue")
                       /\ UNCHANGED <<pool, port, ref, queue, sinkQ, freeReps, src, hold, out,
                                      fwd, nextPut>>

\* The callback takes a reference for a worker and queues the buffer for it.
PutAcquire == /\ pc[Callback] = "put"
              /\ nextPut <= Len(PutOrder)
              /\ Acquire(hold[Callback])
              /\ Goto(Callback, "enqueue")
              /\ UNCHANGED <<pool, port, queue, sinkQ, freeReps, src, hold, out, fwd, nextPut>>

PutEnqueue == /\ pc[Callback] = "enqueue"
              /\ queue' = [queue EXCEPT ![PutOrder[nextPut]] = Append(@, hold[Callback])]
              /\ nextPut' = nextPut + 1
              /\ Goto(Callback, "put")
              /\ UNCHANGED <<pool, port, ref, sinkQ, freeReps, src, hold, out, fwd>>

PutDone == /\ pc[Callback] = "put"
           /\ nextPut > Len(PutOrder)
           /\ Goto(Callback, "release")
           /\ UNCHANGED <<pool, port, ref, queue, sinkQ, freeReps, src, hold, out, fwd, nextPut>>

-----------------------------------------------------------------------------
(* awb_thread_task, processing_thread_task, processing_yuv_thread_task.  A  *)
(* timed wait that returns nothing goes round the loop: no step.            *)

WorkerGet(w) == /\ pc[w] = "idle"
                /\ queue[w] # <<>>
                /\ hold' = [hold EXCEPT ![w] = Head(queue[w])]
                /\ queue' = [queue EXCEPT ![w] = Tail(@)]
                /\ Goto(w, "check")
                /\ UNCHANGED <<pool, port, ref, sinkQ, freeReps, src, out, fwd, nextPut>>

\* Mutant: a stale buffer is skipped with a continue, before its release.
WorkerCheckContinue(w) == /\ pc[w] = "check"
                          /\ Goto(w, IF queue[w] = <<>> THEN "process" ELSE "idle")
                          /\ hold' = IF queue[w] = <<>> THEN hold
                                     ELSE [hold EXCEPT ![w] = NoBuffer]
                          /\ UNCHANGED <<pool, port, ref, queue, sinkQ, freeReps, src, out, fwd,
                                         nextPut>>

\* Only the latest buffer is worked on.
WorkerCheck(w) == /\ pc[w] = "check"
                  /\ Goto(w, IF queue[w] = <<>> THEN "process" ELSE "release")
                  /\ UNCHANGED <<pool, port, ref, queue, sinkQ, freeReps, src, hold, out, fwd,
                                 nextPut>>

WorkerProcessed(w) == /\ pc[w] = "process"
                      /\ Goto(w, "release")
                      /\ UNCHANGED <<pool, port, ref, queue, sinkQ, freeReps, src, hold, out, fwd,
                                     nextPut>>

\* Mutant: the buffer is released, and left in the pool for somebody else to send.
ReleaseOwnNoDrain(a) == /\ pc[a] = "release"
                        /\ Release(hold[a])
                        /\ hold' = [hold EXCEPT ![a] = NoBuffer]
                        /\ Goto(a, "idle")
                        /\ UNCHANGED <<port, queue, sinkQ, freeReps, src, out, fwd, nextPut>>

\* The callback and the workers end alike: release, then drain.
ReleaseOwn(a) == /\ pc[a] = "release"
                 /\ Release(hold[a])
                 /\ hold' = [hold EXCEPT ![a] = NoBuffer]
                 /\ Goto(a, "drain")
                 /\ UNCHANGED <<port, queue, sinkQ, freeReps, src, out, fwd, nextPut>>

-----------------------------------------------------------------------------
(* isp_ip_cb, vr_ip_cb: the sink returns its oldest replica *)

\* Mutant: the sink's callback does not refill the port.
SinkReturnNoDrain == /\ pc[SinkCallback] = "idle"
                     /\ sinkQ # <<>>
                     /\ LET r == Head(sinkQ)
                        IN  /\ freeReps' = freeReps \cup {r}
                            /\ src' = [src EXCEPT ![r] = NoBuffer]
                            /\ Release(src[r])
                     /\ sinkQ' = Tail(sinkQ)
                     /\ UNCHANGED <<port, queue, pc, hold, out, fwd, nextPut>>

\* Mutant: the sink's callback releases the buffer, but not the replica's header.
SinkReturnLeaks == /\ pc[SinkCallback] = "idle"
                   /\ sinkQ # <<>>
                   /\ LET r == Head(sinkQ)
                      IN  /\ src' = [src EXCEPT ![r] = NoBuffer]
                          /\ Release(src[r])
                   /\ sinkQ' = Tail(sinkQ)
                   /\ Goto(SinkCallback, "drain")
                   /\ UNCHANGED <<port, queue, freeReps, hold, out, fwd, nextPut>>

SinkReturn == /\ pc[SinkCallback] = "idle"
              /\ sinkQ # <<>>
              /\ LET r == Head(sinkQ)
                 IN  /\ freeReps' = freeReps \cup {r}
                     /\ src' = [src EXCEPT ![r] = NoBuffer]
                     /\ Release(src[r])
              /\ sinkQ' = Tail(sinkQ)
              /\ Goto(SinkCallback, "drain")
              /\ UNCHANGED <<port, queue, hold, out, fwd, nextPut>>

-----------------------------------------------------------------------------
Drain(a) == DrainGet(a) \/ DrainSend(a) \/ DrainDone(a)

CallbackStep == \/ Saved
                \/ \E r \in Replicas : Replicate(r)
                \/ SkipSink
                \/ SendToSink
                \/ PutAcquire
                \/ PutEnqueue
                \/ PutDone
                \/ ReleaseOwn(Callback)
                \/ Drain(Callback)

WorkerStep(w) == \/ WorkerGet(w)
                 \/ WorkerCheck(w)
                 \/ WorkerProcessed(w)
                 \/ ReleaseOwn(w)
                 \/ Drain(w)

Next == \/ \E b \in Buffers : Deliver(b)
        \/ CallbackStep
        \/ \E w \in Workers : WorkerStep(w)
        \/ SinkReturn
        \/ Drain(SinkCallback)
        \/ Drain(Main)

Spec == Init /\ [][Next]_vars

\* Threads are scheduled, and the sink finishes with what it was sent.  Nothing is
\* assumed of the port: it delivers when it likes, or never.
Fairness == /\ WF_vars(CallbackStep)
            /\ WF_vars(SinkReturn)
            /\ WF_vars(Drain(SinkCallback))
            /\ WF_vars(Drain(Main))
            /\ \A w \in Workers : WF_vars(WorkerStep(w))

FairSpec == Spec /\ Fairness
-----------------------------------------------------------------------------
(* Correctness *)

PcLabels == {"idle", "save", "replicate", "toSink", "put", "enqueue", "release", "drain",
             "send", "check", "process"}

TypeOK == /\ pool \in Seq(Buffers)
          /\ port \subseteq Buffers
          /\ ref \in [Buffers -> Nat]
          /\ queue \in [Workers -> Seq(Buffers)]
          /\ sinkQ \in Seq(Replicas)
          /\ freeReps \subseteq Replicas
          /\ src \in [Replicas -> Buffers \cup {NoBuffer}]
          /\ pc \in [Agents -> PcLabels]
          /\ hold \in [Agents -> Buffers \cup {NoBuffer}]
          /\ out \in Replicas \cup {NoReplica}
          /\ fwd \in BOOLEAN
          /\ nextPut \in 1 .. Len(PutOrder) + 1

\* Who may touch buffer b.  A worker holds it from the callback's acquire on.
Holds(b, p) == \/ p = Port /\ b \in port
               \/ p \in Replicas /\ src[p] = b
               \/ p \in Agents /\ hold[p] = b
               \/ /\ p \in Workers
                  /\ \/ Contains(queue[p], b)
                     \/ /\ pc[Callback] = "enqueue"
                        /\ PutOrder[nextPut] = p
                        /\ hold[Callback] = b

HoldersOf(b) == {p \in Parties : Holds(b, p)}

\* A header's reference counter is the number of those who still use the buffer:
\* no release comes too early (a buffer in use would go back to the hardware) or is
\* forgotten (the buffer would never go back), whatever the order of the callbacks
\* and threads (raspiraw.c:658-688, 1389, 1418, 1429).
RefCountsHolders == \A b \in Buffers : ref[b] = Cardinality(HoldersOf(b))

\* The hardware never overwrites a frame that somebody is still reading: a buffer at
\* the port has no other holder (mmal_port_send_buffer, raspiraw.c:573 and 699).
PortIsAlone == \A b \in port : HoldersOf(b) = {Port}

\* No buffer is lost and none is handed out twice: the buffers in the pool are those
\* without a holder, and each is there once (mmal_queue_get, raspiraw.c:571).
PoolIsFree == /\ \A b \in Buffers : Contains(pool, b) <=> HoldersOf(b) = {}
              /\ IsInjective(pool)

\* No buffer is stranded in the pool: whenever one is there, some agent is in the
\* drain loop and will look again.  Every release is followed by that loop in the
\* same agent (raspiraw.c:690, 1390, 1419, 1430), and the loop is only left when the
\* pool is seen empty.
PoolIsServed == pool # <<>> => \E a \in Agents : pc[a] \in {"drain", "send"}

\* The sink misses no frame: with as many replicas as buffers (raspiraw.c:2003 and
\* 2206 give the sink's port the source port's buffer_num) one is free whenever the
\* callback asks for it, since a replica in flight pins the buffer it replicates.
SinkMissesNothing ==
    pc[Callback] = "replicate" /\ Replicas # {} /\ Cardinality(Replicas) >= Cardinality(Buffers)
        => freeReps # {}

\* The local variables, by program counter.
LocalsInv == /\ \A a \in Agents : hold[a] = NoBuffer <=> pc[a] \in {"idle", "drain"}
             /\ \A a \in {SinkCallback, Main} : pc[a] \in {"idle", "drain", "send"}
             /\ pc[Callback] \notin {"check", "process"}
             /\ \A w \in Workers : pc[w] \in {"idle", "drain", "send", "check", "process",
                                              "release"}

\* A replica is free, or it replicates a buffer and is in one place at most.
SinkInv == /\ IsInjective(sinkQ)
           /\ \A r \in Replicas : r \in freeReps <=> src[r] = NoBuffer
           /\ \A r \in freeReps : ~ Contains(sinkQ, r)
           /\ pc[Callback] = "toSink" => /\ out \in Replicas \ freeReps
                                         /\ ~ Contains(sinkQ, out)

\* A buffer is replicated once at most, and the callback's not before its turn.
ReplicaInv == /\ \A r, s \in Replicas : src[r] = src[s] /\ src[r] # NoBuffer => r = s
              /\ pc[Callback] \in {"save", "replicate"} =>
                     \A r \in Replicas : src[r] # hold[Callback]

\* A worker has a buffer once at most, and the callback's not before it is served.
QueueInv == /\ \A w \in Workers : /\ IsInjective(queue[w])
                                  /\ ~ Contains(queue[w], hold[w])
            /\ pc[Callback] \in {"save", "replicate", "toSink", "put", "enqueue"} =>
                    \A i \in nextPut .. Len(PutOrder) :
                        /\ ~ Contains(queue[PutOrder[i]], hold[Callback])
                        /\ hold[PutOrder[i]] # hold[Callback]
            /\ pc[Callback] = "enqueue" => nextPut <= Len(PutOrder)

\* A buffer on its way from the pool to the port has no other holder.
SendInv == \A a \in Agents : pc[a] = "send" => HoldersOf(hold[a]) = {a}

\* The inductive invariant: what the safety properties need to be preserved by
\* every step (all of raspiraw.c:567-769 and 1369-1468).
IInv == /\ TypeOK
        /\ LocalsInv
        /\ SinkInv
        /\ ReplicaInv
        /\ QueueInv
        /\ SendInv
        /\ RefCountsHolders
        /\ PortIsAlone
        /\ PoolIsFree
        /\ PoolIsServed

\* Fanout implements the ledger.
Ledger == INSTANCE BufferLedger WITH holders <- [b \in Buffers |-> HoldersOf(b)]
LedgerSpec == Ledger!Spec

\* Capture never stalls: again and again the port has a buffer to write into,
\* however slow the sink and the workers are, as long as they go on
\* (buffers_to_rawcam after every release, raspiraw.c:690, 1390, 1419, 1430).
NeverStarved == []<>(port # {})

\* When the sensor stops streaming (raspiraw.c:2262), every buffer comes back to the
\* port: no reader sits on one, and no buffer is forgotten in a queue or in the pool.
Quiesces == <>[][\A b \in Buffers : ~ Deliver(b)]_vars => <>[](port = Buffers)
=============================================================================
