--------------------------- MODULE Fanout_proofs ---------------------------
(***************************************************************************)
(* Proofs about Fanout: the inductive invariant IInv, hence that reference *)
(* counters count the holders, that the hardware writes only into buffers  *)
(* nobody reads, that none is lost, and that Fanout implements the ledger. *)
(***************************************************************************)
EXTENDS Fanout, FiniteSetTheorems, TLAPS

-----------------------------------------------------------------------------
(* Sequences as queues *)

\* What a queue holds after a put, and that a put of something new keeps it free
\* of duplicates.
LEMMA AppendFacts ==
    ASSUME NEW S, NEW s \in Seq(S), NEW x \in S
    PROVE  /\ Append(s, x) \in Seq(S)
           /\ \A y : Contains(Append(s, x), y) <=> Contains(s, y) \/ y = x
           /\ IsInjective(s) /\ ~ Contains(s, x) => IsInjective(Append(s, x))
<1> DEFINE t == Append(s, x)
<1>1. /\ t \in Seq(S)
      /\ Len(t) = Len(s) + 1
      /\ DOMAIN t = 1 .. Len(s) + 1
      /\ DOMAIN s = 1 .. Len(s)
      /\ t[Len(s) + 1] = x
      /\ \A i \in 1 .. Len(s) : t[i] = s[i]
  OBVIOUS
<1>2. Len(s) \in Nat
  OBVIOUS
<1>3. ASSUME NEW y PROVE Contains(t, y) <=> Contains(s, y) \/ y = x
  BY <1>1, <1>2 DEF Contains
<1>4. IsInjective(s) /\ ~ Contains(s, x) => IsInjective(t)
  BY <1>1, <1>2 DEF Contains, IsInjective
<1> QED  BY <1>1, <1>3, <1>4

\* What a queue without duplicates holds after a get.
LEMMA TailFacts ==
    ASSUME NEW S, NEW s \in Seq(S), s # <<>>
    PROVE  /\ Head(s) \in S
           /\ Tail(s) \in Seq(S)
           /\ Contains(s, Head(s))
           /\ IsInjective(s) => /\ IsInjective(Tail(s))
                                /\ \A y : Contains(Tail(s), y) <=> Contains(s, y) /\ y # Head(s)
<1> DEFINE t == Tail(s)
<1>1. /\ t \in Seq(S)
      /\ Len(s) \in Nat \ {0}
      /\ Len(t) = Len(s) - 1
      /\ DOMAIN t = 1 .. Len(s) - 1
      /\ DOMAIN s = 1 .. Len(s)
      /\ Head(s) = s[1]
      /\ \A i \in 1 .. Len(s) - 1 : t[i] = s[i + 1]
  OBVIOUS
<1>2. Head(s) \in S /\ Contains(s, Head(s))
  BY <1>1 DEF Contains
<1>3. ASSUME IsInjective(s) PROVE IsInjective(t)
  BY <1>1, <1>3 DEF IsInjective
<1>4. ASSUME IsInjective(s), NEW y
      PROVE  Contains(t, y) <=> Contains(s, y) /\ y # Head(s)
  <2>1. ASSUME Contains(t, y) PROVE Contains(s, y) /\ y # Head(s)
    BY <1>1, <1>4, <2>1 DEF Contains, IsInjective
  <2>2. ASSUME Contains(s, y), y # Head(s) PROVE Contains(t, y)
    <3>1. PICK i \in 1 .. Len(s) : s[i] = y
      BY <2>2 DEF Contains
    <3>2. i - 1 \in 1 .. Len(s) - 1 /\ t[i - 1] = y
      BY <1>1, <2>2, <3>1
    <3> QED  BY <1>1, <3>2 DEF Contains
  <2> QED  BY <2>1, <2>2
<1> QED  BY <1>1, <1>2, <1>3, <1>4

\* An empty queue holds nothing.
LEMMA EmptyFacts == /\ \A y : ~ Contains(<<>>, y)
                    /\ IsInjective(<<>>)
BY DEF Contains, IsInjective

-----------------------------------------------------------------------------
(* Holders and reference counts *)

\* A buffer has finitely many holders.
LEMMA HoldersFinite == \A b : /\ IsFiniteSet(HoldersOf(b))
                              /\ IsFiniteSet(HoldersOf(b)')
<1>1. IsFiniteSet({Callback, SinkCallback, Main})
  <2>1. IsFiniteSet({Callback})
    BY FS_Singleton
  <2>2. IsFiniteSet({Callback} \cup {SinkCallback})
    BY <2>1, FS_AddElement
  <2>3. IsFiniteSet(({Callback} \cup {SinkCallback}) \cup {Main})
    BY <2>2, FS_AddElement
  <2>4. {Callback, SinkCallback, Main} = ({Callback} \cup {SinkCallback}) \cup {Main}
    OBVIOUS
  <2> QED  BY <2>3, <2>4
<1>2. IsFiniteSet(Agents)
  BY <1>1, FS_Union, WorkersAssumption DEF Agents
<1>3. IsFiniteSet(Agents \cup Replicas)
  BY <1>2, FS_Union, BuffersAssumption
<1>4. IsFiniteSet(Parties)
  BY <1>3, FS_Union, FS_Singleton DEF Parties
<1>5. \A b : HoldersOf(b) \in SUBSET Parties /\ HoldersOf(b)' \in SUBSET Parties
  BY DEF HoldersOf
<1> QED  BY <1>4, <1>5, FS_Subset

\* A counter that counts holders is positive exactly when there is one, and 1 exactly
\* for a sole holder.
LEMMA CountFacts ==
    ASSUME RefCountsHolders, NEW b \in Buffers, NEW p \in HoldersOf(b)
    PROVE  /\ ref[b] \in Nat \ {0}
           /\ ref[b] = 1 <=> HoldersOf(b) = {p}
<1>1. IsFiniteSet(HoldersOf(b)) /\ ref[b] = Cardinality(HoldersOf(b))
  BY HoldersFinite DEF RefCountsHolders
<1>2. ref[b] \in Nat
  BY <1>1, FS_CardinalityType
<1>3. ref[b] # 0
  BY <1>1, FS_EmptySet
<1>4. ref[b] = 1 <=> \E x : HoldersOf(b) = {x}
  BY <1>1, FS_Singleton
<1> QED  BY <1>2, <1>3, <1>4

-----------------------------------------------------------------------------
(* Types and local variables *)

\* The step of an agent that is in the drain loop, releases its buffer, ...: Next as
\* a list of cases.
LEMMA NextCases ==
    ASSUME Next
    PROVE  \/ \E a \in Agents : DrainGet(a) \/ DrainSend(a) \/ DrainDone(a)
           \/ \E b \in Buffers : Deliver(b)
           \/ Saved
           \/ \E r \in Replicas : Replicate(r)
           \/ SkipSink
           \/ SendToSink
           \/ PutAcquire
           \/ PutEnqueue
           \/ PutDone
           \/ \E w \in Workers : WorkerGet(w) \/ WorkerCheck(w) \/ WorkerProcessed(w)
           \/ \E a \in Workers \cup {Callback} : ReleaseOwn(a)
           \/ SinkReturn
BY DEF Next, CallbackStep, WorkerStep, Drain, Agents

\* The initial states have the right types.
LEMMA InitTypeOK == Init => TypeOK
<1> SUFFICES ASSUME Init PROVE TypeOK
  OBVIOUS
<1>1. pool \in Seq(Buffers)
  <2>1. Cardinality(Buffers) \in Nat
    BY BuffersAssumption, FS_CardinalityType
  <2>2. pool \in [1 .. Cardinality(Buffers) -> Buffers]
    BY DEF Init, SetToSeqs
  <2> QED  BY <2>1, <2>2
<1>2. nextPut \in 1 .. Len(PutOrder) + 1
  BY WorkersAssumption DEF Init
<1>3. queue \in [Workers -> Seq(Buffers)] /\ sinkQ \in Seq(Replicas)
  BY DEF Init
<1>4. pc \in [Agents -> PcLabels] /\ hold \in [Agents -> Buffers \cup {NoBuffer}]
  BY DEF Init, PcLabels
<1>5. ref \in [Buffers -> Nat] /\ src \in [Replicas -> Buffers \cup {NoBuffer}]
  BY DEF Init
<1>6. port \subseteq Buffers /\ freeReps \subseteq Replicas /\ out \in Replicas \cup {NoReplica}
      /\ fwd \in BOOLEAN
  BY DEF Init
<1> QED  BY <1>1, <1>2, <1>3, <1>4, <1>5, <1>6 DEF TypeOK

\* Every step keeps the types.
LEMMA TypeStep ==
    ASSUME TypeOK, LocalsInv, SinkInv, QueueInv, RefCountsHolders, Next
    PROVE  TypeOK'
<1> USE DEF TypeOK, PcLabels, Goto
<1>1. ASSUME NEW a \in Agents, DrainGet(a) PROVE TypeOK'
  <2>1. Head(pool) \in Buffers /\ Tail(pool) \in Seq(Buffers)
    BY <1>1 DEF DrainGet
  <2> QED  BY <1>1, <2>1 DEF DrainGet, Acquire
<1>2. ASSUME NEW a \in Agents, DrainSend(a) PROVE TypeOK'
  BY <1>2 DEF DrainSend, LocalsInv
<1>3. ASSUME NEW a \in Agents, DrainDone(a) PROVE TypeOK'
  BY <1>3 DEF DrainDone
<1>4. ASSUME NEW b \in Buffers, Deliver(b) PROVE TypeOK'
  <2>1. nextPut' \in 1 .. Len(PutOrder) + 1
    BY <1>4, WorkersAssumption DEF Deliver
  <2> QED  BY <1>4, <2>1 DEF Deliver
<1>5. CASE Saved
  BY <1>5 DEF Saved
<1>6. ASSUME NEW r \in Replicas, Replicate(r) PROVE TypeOK'
  <2>1. hold[Callback] \in Buffers
    BY <1>6 DEF Replicate, LocalsInv, Agents
  <2>2. ref' \in [Buffers -> Nat]
    BY <1>6, <2>1 DEF Replicate, Acquire
  <2>3. src' \in [Replicas -> Buffers \cup {NoBuffer}]
    BY <1>6, <2>1 DEF Replicate
  <2>4. freeReps' \subseteq Replicas /\ out' \in Replicas \cup {NoReplica}
    BY <1>6 DEF Replicate
  <2>5. pc' \in [Agents -> PcLabels]
    BY <1>6 DEF Replicate
  <2> QED  BY <1>6, <2>2, <2>3, <2>4, <2>5 DEF Replicate
<1>7. CASE SkipSink
  BY <1>7 DEF SkipSink
<1>8. CASE SendToSink
  <2>1. out \in Replicas
    BY <1>8 DEF SendToSink, SinkInv
  <2>2. sinkQ' \in Seq(Replicas)
    <3>1. Append(sinkQ, out) \in Seq(Replicas)
      BY <2>1, AppendFacts
    <3> QED  BY <1>8, <3>1 DEF SendToSink
  <2> QED  BY <1>8, <2>2 DEF SendToSink
<1>9. CASE PutAcquire
  <2>1. hold[Callback] \in Buffers
    BY <1>9 DEF PutAcquire, LocalsInv, Agents
  <2>2. ref' \in [Buffers -> Nat]
    BY <1>9, <2>1 DEF PutAcquire, Acquire
  <2>3. pc' \in [Agents -> PcLabels]
    BY <1>9 DEF PutAcquire
  <2> QED  BY <1>9, <2>2, <2>3 DEF PutAcquire
<1>10. CASE PutEnqueue
  <2>1. nextPut <= Len(PutOrder) /\ Len(PutOrder) \in Nat
    BY <1>10, WorkersAssumption DEF PutEnqueue, QueueInv
  <2>2. hold[Callback] \in Buffers
    BY <1>10 DEF PutEnqueue, LocalsInv, Agents
  <2>3. queue' \in [Workers -> Seq(Buffers)]
    <3>1. \A w \in Workers : Append(queue[w], hold[Callback]) \in Seq(Buffers)
      BY <2>2
    <3> QED  BY <1>10, <3>1 DEF PutEnqueue
  <2>4. nextPut' \in 1 .. Len(PutOrder) + 1
    BY <1>10, <2>1 DEF PutEnqueue
  <2> QED  BY <1>10, <2>3, <2>4 DEF PutEnqueue
<1>11. CASE PutDone
  BY <1>11 DEF PutDone
<1>12. ASSUME NEW w \in Workers, WorkerGet(w) PROVE TypeOK'
  <2>1. Head(queue[w]) \in Buffers /\ Tail(queue[w]) \in Seq(Buffers)
    BY <1>12 DEF WorkerGet
  <2> QED  BY <1>12, <2>1 DEF WorkerGet
<1>13. ASSUME NEW w \in Workers, WorkerCheck(w) \/ WorkerProcessed(w) PROVE TypeOK'
  BY <1>13 DEF WorkerCheck, WorkerProcessed
<1>14. ASSUME NEW a \in Workers \cup {Callback}, ReleaseOwn(a) PROVE TypeOK'
  <2>1. hold[a] \in Buffers /\ a \in HoldersOf(hold[a])
    BY <1>14 DEF ReleaseOwn, LocalsInv, Agents, HoldersOf, Holds, Parties
  <2>2. ref[hold[a]] \in Nat \ {0}
    BY <2>1, CountFacts
  <2>3. ref' \in [Buffers -> Nat] /\ pool' \in Seq(Buffers)
    BY <1>14, <2>1, <2>2 DEF ReleaseOwn, Release
  <2> QED  BY <1>14, <2>3 DEF ReleaseOwn
<1>15. CASE SinkReturn
  <2> DEFINE r == Head(sinkQ)
  <2>1. r \in Replicas /\ Tail(sinkQ) \in Seq(Replicas) /\ Contains(sinkQ, r)
    BY <1>15, TailFacts DEF SinkReturn
  <2>2. src[r] \in Buffers /\ r \in HoldersOf(src[r])
    BY <2>1 DEF SinkInv, HoldersOf, Holds, Parties
  <2>3. ref[src[r]] \in Nat \ {0}
    BY <2>2, CountFacts
  <2>4. ref' \in [Buffers -> Nat] /\ pool' \in Seq(Buffers)
    BY <1>15, <2>2, <2>3 DEF SinkReturn, Release
  <2> QED  BY <1>15, <2>1, <2>4 DEF SinkReturn
<1> QED
  BY NextCases, <1>1, <1>2, <1>3, <1>4, <1>5, <1>6, <1>7, <1>8, <1>9, <1>10, <1>11, <1>12,
     <1>13, <1>14, <1>15

\* Every step keeps the local variables in line with the program counters.
LEMMA LocalsStep ==
    ASSUME TypeOK, LocalsInv, Next
    PROVE  LocalsInv'
<1> USE PartiesAssumption, BuffersAssumption DEF LocalsInv, Goto, Agents
<1>0. /\ pc \in [Agents -> PcLabels]
      /\ hold \in [Agents -> Buffers \cup {NoBuffer}]
  BY DEF TypeOK
<1>1. ASSUME NEW a \in Agents, DrainGet(a) PROVE LocalsInv'
  <2>1. Head(pool) \in Buffers
    BY <1>1, TailFacts DEF DrainGet, TypeOK
  <2> QED  BY <1>0, <1>1, <2>1 DEF DrainGet
<1>2. ASSUME NEW a \in Agents, DrainSend(a) PROVE LocalsInv'
  BY <1>0, <1>2 DEF DrainSend
<1>3. ASSUME NEW a \in Agents, DrainDone(a) PROVE LocalsInv'
  BY <1>0, <1>3 DEF DrainDone
<1>4. ASSUME NEW b \in Buffers, Deliver(b) PROVE LocalsInv'
  BY <1>0, <1>4 DEF Deliver
<1>5. CASE Saved
  BY <1>0, <1>5 DEF Saved
<1>6. ASSUME NEW r \in Replicas, Replicate(r) PROVE LocalsInv'
  BY <1>0, <1>6 DEF Replicate
<1>7. CASE SkipSink
  BY <1>0, <1>7 DEF SkipSink
<1>8. CASE SendToSink
  BY <1>0, <1>8 DEF SendToSink
<1>9. CASE PutAcquire
  BY <1>0, <1>9 DEF PutAcquire
<1>10. CASE PutEnqueue
  BY <1>0, <1>10 DEF PutEnqueue
<1>11. CASE PutDone
  BY <1>0, <1>11 DEF PutDone
<1>12. ASSUME NEW w \in Workers, WorkerGet(w) PROVE LocalsInv'
  <2>1. Head(queue[w]) \in Buffers
    BY <1>12, TailFacts DEF WorkerGet, TypeOK
  <2> QED  BY <1>0, <1>12, <2>1 DEF WorkerGet
<1>13. ASSUME NEW w \in Workers, WorkerCheck(w) \/ WorkerProcessed(w) PROVE LocalsInv'
  BY <1>0, <1>13 DEF WorkerCheck, WorkerProcessed
<1>14. ASSUME NEW a \in Workers \cup {Callback}, ReleaseOwn(a) PROVE LocalsInv'
  BY <1>0, <1>14 DEF ReleaseOwn
<1>15. CASE SinkReturn
  BY <1>0, <1>15 DEF SinkReturn
<1> QED
  BY NextCases, <1>1, <1>2, <1>3, <1>4, <1>5, <1>6, <1>7, <1>8, <1>9, <1>10, <1>11, <1>12,
     <1>13, <1>14, <1>15

\* Every step keeps each replica in one place.
LEMMA SinkStep ==
    ASSUME TypeOK, LocalsInv, SinkInv, Next
    PROVE  SinkInv'
<1> USE PartiesAssumption, BuffersAssumption DEF SinkInv, Goto
<1>0. /\ pc \in [Agents -> PcLabels]
      /\ src \in [Replicas -> Buffers \cup {NoBuffer}]
      /\ hold \in [Agents -> Buffers \cup {NoBuffer}]
      /\ sinkQ \in Seq(Replicas)
      /\ freeReps \subseteq Replicas
      /\ Callback \in Agents
  BY DEF TypeOK, Agents
<1>1. ASSUME NEW a \in Agents,
             DrainGet(a) \/ DrainSend(a) \/ DrainDone(a)
      PROVE  SinkInv'
  BY <1>0, <1>1 DEF DrainGet, DrainSend, DrainDone
<1>2. ASSUME NEW b \in Buffers, Deliver(b) PROVE SinkInv'
  BY <1>0, <1>2 DEF Deliver
<1>3. CASE Saved \/ SkipSink \/ PutAcquire \/ PutEnqueue \/ PutDone
  BY <1>0, <1>3 DEF Saved, SkipSink, PutAcquire, PutEnqueue, PutDone
<1>4. ASSUME NEW r \in Replicas, Replicate(r) PROVE SinkInv'
  <2>1. hold[Callback] \in Buffers
    BY <1>0, <1>4 DEF Replicate, LocalsInv
  <2>2. \A q \in Replicas : q \in freeReps' <=> src'[q] = NoBuffer
    BY <1>0, <1>4, <2>1 DEF Replicate
  <2> QED  BY <1>0, <1>4, <2>2 DEF Replicate
<1>5. CASE SendToSink
  <2>1. out \in Replicas \ freeReps /\ ~ Contains(sinkQ, out)
    BY <1>5 DEF SendToSink
  <2>2. /\ IsInjective(sinkQ')
        /\ \A r \in freeReps : ~ Contains(sinkQ', r)
    <3>1. /\ IsInjective(Append(sinkQ, out))
          /\ \A r \in freeReps : ~ Contains(Append(sinkQ, out), r)
      BY <1>0, <2>1, AppendFacts
    <3> QED  BY <1>5, <3>1 DEF SendToSink
  <2> QED  BY <1>0, <1>5, <2>2 DEF SendToSink
<1>6. ASSUME NEW w \in Workers, WorkerGet(w) \/ WorkerCheck(w) \/ WorkerProcessed(w)
      PROVE  SinkInv'
  BY <1>0, <1>6 DEF WorkerGet, WorkerCheck, WorkerProcessed, Agents
<1>7. ASSUME NEW a \in Workers \cup {Callback}, ReleaseOwn(a) PROVE SinkInv'
  BY <1>0, <1>7 DEF ReleaseOwn
<1>8. CASE SinkReturn
  <2> DEFINE r == Head(sinkQ)
  <2>1. /\ r \in Replicas
        /\ IsInjective(Tail(sinkQ))
        /\ \A q : Contains(Tail(sinkQ), q) <=> Contains(sinkQ, q) /\ q # r
        /\ Contains(sinkQ, r)
    BY <1>0, <1>8, TailFacts DEF SinkReturn
  <2>2. \A q \in Replicas : q \in freeReps' <=> src'[q] = NoBuffer
    BY <1>0, <1>8, <2>1 DEF SinkReturn
  <2>3. \A q \in freeReps' : ~ Contains(sinkQ', q)
    BY <1>0, <1>8, <2>1 DEF SinkReturn
  <2>4. pc'[Callback] = pc[Callback] /\ out' = out /\ sinkQ' = Tail(sinkQ)
        /\ freeReps' = freeReps \cup {r}
    BY <1>0, <1>8 DEF SinkReturn
  <2> QED  BY <2>1, <2>2, <2>3, <2>4
<1> QED
  BY NextCases, <1>1, <1>2, <1>3, <1>4, <1>5, <1>6, <1>7, <1>8

-----------------------------------------------------------------------------
(* What each step does to the holders *)

\* Buffer b gets a holder, loses one, or changes its holders from one to the other.
Joins(b, p) ==
    \A c \in Buffers : HoldersOf(c)' = IF c = b THEN HoldersOf(c) \cup {p} ELSE HoldersOf(c)
Leaves(b, p) ==
    \A c \in Buffers : HoldersOf(c)' = IF c = b THEN HoldersOf(c) \ {p} ELSE HoldersOf(c)
Passes(b, p, q) ==
    \A c \in Buffers : HoldersOf(c)' = IF c = b THEN {q} ELSE HoldersOf(c)
SameHolders == \A c \in Buffers : HoldersOf(c)' = HoldersOf(c)

\* A get from the pool makes the agent the only holder.
LEMMA DrainGetHolders ==
    ASSUME IInv, NEW a \in Agents, DrainGet(a)
    PROVE  /\ Head(pool) \in Buffers
           /\ HoldersOf(Head(pool)) = {}
           /\ Joins(Head(pool), a)
<1> DEFINE b == Head(pool)
<1>1. b \in Buffers /\ Contains(pool, b)
  BY TailFacts DEF IInv, TypeOK, DrainGet
<1>2. HoldersOf(b) = {}
  BY <1>1 DEF IInv, PoolIsFree
<1>3. ASSUME NEW c \in Buffers, NEW p \in Parties
      PROVE  Holds(c, p)' <=> Holds(c, p) \/ (c = b /\ p = a)
  <2>1. hold \in [Agents -> Buffers \cup {NoBuffer}] /\ pc \in [Agents -> PcLabels]
    BY DEF IInv, TypeOK
  <2>2. hold[a] = NoBuffer
    BY DEF IInv, LocalsInv, DrainGet
  <2>3. hold' = [hold EXCEPT ![a] = b] /\ pc' = [pc EXCEPT ![a] = "send"]
        /\ UNCHANGED <<port, queue, src, nextPut>> /\ pc[a] = "drain"
    BY DEF DrainGet, Goto
  <2>4. p = Port => p \notin Agents
    BY PartiesAssumption
  <2>5. Callback \in Agents
    BY DEF Agents
  <2>6. pc'[Callback] = "enqueue" <=> pc[Callback] = "enqueue"
    BY <2>1, <2>3, <2>5
  <2>7. pc[Callback] = "enqueue" => hold'[Callback] = hold[Callback]
    BY <2>1, <2>3, <2>5
  <2>8. p \in Agents => (hold'[p] = c <=> hold[p] = c \/ (c = b /\ p = a))
    BY <2>1, <2>2, <2>3, BuffersAssumption
  <2> QED  BY <2>3, <2>4, <2>6, <2>7, <2>8 DEF Holds
<1>4. a \in Parties
  BY DEF Parties
<1> QED  BY <1>1, <1>2, <1>3, <1>4 DEF Joins, HoldersOf

\* A send hands the buffer over to the port.
LEMMA DrainSendHolders ==
    ASSUME IInv, NEW a \in Agents, DrainSend(a)
    PROVE  /\ hold[a] \in Buffers
           /\ HoldersOf(hold[a]) = {a}
           /\ Passes(hold[a], a, Port)
<1> DEFINE b == hold[a]
<1>1. b \in Buffers /\ HoldersOf(b) = {a}
  BY DEF IInv, TypeOK, LocalsInv, SendInv, DrainSend
<1>2. ASSUME NEW c \in Buffers, NEW p \in Parties
      PROVE  Holds(c, p)' <=> IF c = b THEN p = Port ELSE Holds(c, p)
  <2>1. hold \in [Agents -> Buffers \cup {NoBuffer}] /\ pc \in [Agents -> PcLabels]
    BY DEF IInv, TypeOK
  <2>2. hold' = [hold EXCEPT ![a] = NoBuffer] /\ pc' = [pc EXCEPT ![a] = "drain"]
        /\ port' = port \cup {b} /\ UNCHANGED <<queue, src, nextPut>> /\ pc[a] = "send"
    BY DEF DrainSend, Goto
  <2>3. Callback \in Agents
    BY DEF Agents
  <2>4. pc'[Callback] = "enqueue" <=> pc[Callback] = "enqueue"
    BY <2>1, <2>2, <2>3
  <2>5. pc[Callback] = "enqueue" => hold'[Callback] = hold[Callback]
    BY <2>1, <2>2, <2>3
  <2>6. p \in Agents => (hold'[p] = c <=> hold[p] = c /\ p # a)
    BY <2>1, <2>2, BuffersAssumption
  <2>7. c = b => (Holds(c, p) <=> p = a)
    BY <1>1 DEF HoldersOf, Parties
  <2>8. Port \notin Agents /\ Port \notin Replicas /\ a \notin Replicas
    BY PartiesAssumption
  <2>9. CASE c = b
    <3>1. Holds(c, Port)'
      BY <2>2, <2>9 DEF Holds
    <3>2. ASSUME p # Port, Holds(c, p)' PROVE FALSE
      <4>1. Holds(c, p)
        BY <2>2, <2>4, <2>5, <2>6, <2>9, <3>2 DEF Holds
      <4>2. p = a
        BY <2>7, <2>9, <4>1
      <4>3. a \in Workers => ~ Contains(queue[a], b)
        BY DEF IInv, QueueInv
      <4>4. pc[Callback] = "enqueue" => hold[Callback] # b
        <5>1. hold[Callback] = b => Callback = a
          BY <1>1, <2>3 DEF HoldersOf, Holds, Parties
        <5> QED  BY <2>2, <5>1
      <4> QED  BY <2>2, <2>4, <2>5, <2>6, <2>8, <2>9, <3>2, <4>2, <4>3, <4>4 DEF Holds
    <3> QED  BY <2>9, <3>1, <3>2
  <2>10. CASE c # b
    BY <2>2, <2>4, <2>5, <2>6, <2>8, <2>10 DEF Holds
  <2> QED  BY <2>9, <2>10
<1>3. Port \in Parties
  BY DEF Parties
<1> QED  BY <1>1, <1>2, <1>3 DEF Passes, HoldersOf

\* A delivery hands the buffer over from the port to the callback.
LEMMA DeliverHolders ==
    ASSUME IInv, NEW b \in Buffers, Deliver(b)
    PROVE  /\ HoldersOf(b) = {Port}
           /\ Passes(b, Port, Callback)
<1>1. HoldersOf(b) = {Port}
  BY DEF IInv, PortIsAlone, Deliver
<1>2. ASSUME NEW c \in Buffers, NEW p \in Parties
      PROVE  Holds(c, p)' <=> IF c = b THEN p = Callback ELSE Holds(c, p)
  <2>1. hold \in [Agents -> Buffers \cup {NoBuffer}] /\ pc \in [Agents -> PcLabels]
    BY DEF IInv, TypeOK
  <2>2. hold' = [hold EXCEPT ![Callback] = b] /\ pc' = [pc EXCEPT ![Callback] = "save"]
        /\ port' = port \ {b} /\ UNCHANGED <<queue, src>> /\ pc[Callback] = "idle"
    BY DEF Deliver, Goto
  <2>3. Callback \in Agents /\ hold[Callback] = NoBuffer
    BY <2>2 DEF Agents, IInv, LocalsInv
  <2>4. pc'[Callback] = "save"
    BY <2>1, <2>2, <2>3
  <2>5. p \in Agents => (hold'[p] = c <=> IF p = Callback THEN c = b ELSE hold[p] = c)
    BY <2>1, <2>2
  <2>6. Port \notin Agents /\ Port \notin Replicas /\ Callback \notin Replicas
    BY PartiesAssumption, <2>3
  <2>7. c = b => (Holds(c, p) <=> p = Port)
    BY <1>1 DEF HoldersOf, Parties
  <2>8. p = Callback => (Holds(c, p)' <=> c = b) /\ ~ Holds(c, p)
    BY <2>2, <2>3, <2>4, <2>5, <2>6, BuffersAssumption, PartiesAssumption DEF Holds
  <2>9. p = Port => (Holds(c, p)' <=> c # b /\ Holds(c, p))
    BY <2>2, <2>6, Port \notin Workers DEF Holds, Agents
  <2>10. ASSUME p # Port, p # Callback PROVE Holds(c, p)' <=> Holds(c, p)
    BY <2>2, <2>4, <2>5, <2>10 DEF Holds
  <2> QED  BY <2>6, <2>3, <2>7, <2>8, <2>9, <2>10
<1>3. Callback \in Parties
  BY DEF Parties, Agents
<1> QED  BY <1>1, <1>2, <1>3 DEF Passes, HoldersOf

\* A replica joins the holders of the callback's buffer.
LEMMA ReplicateHolders ==
    ASSUME IInv, NEW r \in Replicas, Replicate(r)
    PROVE  /\ hold[Callback] \in Buffers
           /\ Callback \in HoldersOf(hold[Callback])
           /\ r \notin HoldersOf(hold[Callback])
           /\ Joins(hold[Callback], r)
<1>1. hold[Callback] \in Buffers /\ Callback \in Agents
  BY DEF IInv, TypeOK, LocalsInv, Replicate, Agents
<1>2. r \notin Agents /\ r # Port
  BY PartiesAssumption
<1>3. src[r] = NoBuffer
  BY DEF IInv, SinkInv, Replicate
<1>4. ASSUME NEW c \in Buffers, NEW p \in Parties
      PROVE  Holds(c, p)' <=> Holds(c, p) \/ (c = hold[Callback] /\ p = r)
  <2>1. src \in [Replicas -> Buffers \cup {NoBuffer}] /\ pc \in [Agents -> PcLabels]
    BY DEF IInv, TypeOK
  <2>2. src' = [src EXCEPT ![r] = hold[Callback]] /\ pc' = [pc EXCEPT ![Callback] = "toSink"]
        /\ UNCHANGED <<port, queue, hold>> /\ pc[Callback] = "replicate"
    BY DEF Replicate, Goto
  <2>3. pc'[Callback] = "toSink"
    BY <1>1, <2>1, <2>2
  <2>4. p \in Replicas => (src'[p] = c <=> IF p = r THEN c = hold[Callback] ELSE src[p] = c)
    BY <2>1, <2>2
  <2> QED  BY <1>2, <1>3, <2>2, <2>3, <2>4, BuffersAssumption DEF Holds
<1>5. Callback \in HoldersOf(hold[Callback])
  BY <1>1 DEF HoldersOf, Holds, Parties
<1>6. r \notin HoldersOf(hold[Callback])
  BY <1>1, <1>2, <1>3, BuffersAssumption DEF HoldersOf, Holds, Agents
<1>7. r \in Parties
  BY DEF Parties
<1> QED  BY <1>1, <1>4, <1>5, <1>6, <1>7 DEF Joins, HoldersOf

\* The next worker joins them when the callback takes a reference for it.
LEMMA PutAcquireHolders ==
    ASSUME IInv, PutAcquire
    PROVE  /\ hold[Callback] \in Buffers
           /\ Callback \in HoldersOf(hold[Callback])
           /\ PutOrder[nextPut] \in Workers
           /\ PutOrder[nextPut] \notin HoldersOf(hold[Callback])
           /\ Joins(hold[Callback], PutOrder[nextPut])
<1> DEFINE w == PutOrder[nextPut]
<1>1. hold[Callback] \in Buffers /\ Callback \in Agents
  BY DEF IInv, TypeOK, LocalsInv, PutAcquire, Agents
<1>2. w \in Workers /\ nextPut \in nextPut .. Len(PutOrder)
  <2>1. nextPut \in 1 .. Len(PutOrder)
    BY WorkersAssumption DEF IInv, TypeOK, PutAcquire
  <2> QED  BY <2>1, WorkersAssumption
<1>3. ~ Contains(queue[w], hold[Callback]) /\ hold[w] # hold[Callback]
  BY <1>2 DEF IInv, QueueInv, PutAcquire
<1>4. w \in Agents /\ w \notin Replicas /\ w # Port
  BY <1>2, PartiesAssumption DEF Agents
<1>5. ASSUME NEW c \in Buffers, NEW p \in Parties
      PROVE  Holds(c, p)' <=> Holds(c, p) \/ (c = hold[Callback] /\ p = w)
  <2>1. pc \in [Agents -> PcLabels]
    BY DEF IInv, TypeOK
  <2>2. pc' = [pc EXCEPT ![Callback] = "enqueue"]
        /\ UNCHANGED <<port, queue, src, hold, nextPut>> /\ pc[Callback] = "put"
    BY DEF PutAcquire, Goto
  <2>3. pc'[Callback] = "enqueue"
    BY <1>1, <2>1, <2>2
  <2> QED  BY <1>2, <2>2, <2>3 DEF Holds
<1>6. Callback \in HoldersOf(hold[Callback])
  BY <1>1 DEF HoldersOf, Holds, Parties
<1>7. w \notin HoldersOf(hold[Callback])
  BY <1>1, <1>3, <1>4 DEF HoldersOf, Holds, PutAcquire
<1>8. w \in Parties
  BY <1>4 DEF Parties
<1> QED  BY <1>1, <1>2, <1>5, <1>6, <1>7, <1>8 DEF Joins, HoldersOf

\* The put that follows changes where the worker's reference is, not who has one.
LEMMA PutEnqueueHolders ==
    ASSUME IInv, PutEnqueue
    PROVE  SameHolders
<1> DEFINE w == PutOrder[nextPut]
<1>1. hold[Callback] \in Buffers /\ Callback \in Agents
  BY DEF IInv, TypeOK, LocalsInv, PutEnqueue, Agents
<1>2. w \in Workers
  <2>1. nextPut \in 1 .. Len(PutOrder)
    BY WorkersAssumption DEF IInv, TypeOK, QueueInv, PutEnqueue
  <2> QED  BY <2>1, WorkersAssumption
<1>3. ASSUME NEW c \in Buffers, NEW p \in Parties
      PROVE  Holds(c, p)' <=> Holds(c, p)
  <2>1. pc \in [Agents -> PcLabels] /\ queue \in [Workers -> Seq(Buffers)]
    BY DEF IInv, TypeOK
  <2>2. /\ pc' = [pc EXCEPT ![Callback] = "put"]
        /\ queue' = [queue EXCEPT ![w] = Append(@, hold[Callback])]
        /\ UNCHANGED <<port, src, hold>>
        /\ pc[Callback] = "enqueue"
    BY DEF PutEnqueue, Goto
  <2>3. pc'[Callback] = "put"
    BY <1>1, <2>1, <2>2
  <2>4. Contains(Append(queue[w], hold[Callback]), c)
           <=> Contains(queue[w], c) \/ c = hold[Callback]
    BY <1>1, <1>2, <2>1, AppendFacts
  <2>5. p \in Workers => (Contains(queue'[p], c)
                             <=> Contains(queue[p], c) \/ (p = w /\ c = hold[Callback]))
    BY <1>2, <2>1, <2>2, <2>4
  <2> QED  BY <2>2, <2>3, <2>5 DEF Holds
<1> QED  BY <1>3 DEF SameHolders, HoldersOf

\* A worker that takes a buffer from its queue held it before.
LEMMA WorkerGetHolders ==
    ASSUME IInv, NEW w \in Workers, WorkerGet(w)
    PROVE  SameHolders
<1> DEFINE b == Head(queue[w])
<1>1. /\ b \in Buffers
      /\ Contains(queue[w], b)
      /\ \A y : Contains(Tail(queue[w]), y) <=> Contains(queue[w], y) /\ y # b
  BY TailFacts DEF IInv, TypeOK, QueueInv, WorkerGet
<1>2. ASSUME NEW c \in Buffers, NEW p \in Parties
      PROVE  Holds(c, p)' <=> Holds(c, p)
  <2>1. /\ pc \in [Agents -> PcLabels] /\ queue \in [Workers -> Seq(Buffers)]
        /\ hold \in [Agents -> Buffers \cup {NoBuffer}]
    BY DEF IInv, TypeOK
  <2>2. /\ pc' = [pc EXCEPT ![w] = "check"]
        /\ queue' = [queue EXCEPT ![w] = Tail(@)]
        /\ hold' = [hold EXCEPT ![w] = b]
        /\ UNCHANGED <<port, src, nextPut>>
        /\ pc[w] = "idle"
    BY DEF WorkerGet, Goto
  <2>3. w \in Agents /\ w \notin Replicas /\ w # Port /\ w # Callback /\ Callback \in Agents
    BY PartiesAssumption DEF Agents
  <2>4. pc'[Callback] = pc[Callback] /\ hold'[Callback] = hold[Callback]
    BY <2>1, <2>2, <2>3
  <2>5. hold[w] = NoBuffer
    BY <2>2, <2>3 DEF IInv, LocalsInv
  <2>6. CASE p = w
    <3>1. hold'[w] = b /\ queue'[w] = Tail(queue[w])
      BY <2>1, <2>2, <2>3
    <3>2. c = b \/ Contains(queue'[w], c) <=> Contains(queue[w], c)
      BY <1>1, <3>1
    <3> QED  BY <2>2, <2>3, <2>4, <2>5, <2>6, <3>1, <3>2, BuffersAssumption DEF Holds
  <2>7. CASE p # w
    <3>1. p \in Agents => hold'[p] = hold[p]
      BY <2>1, <2>2, <2>7
    <3>2. p \in Workers => queue'[p] = queue[p]
      BY <2>1, <2>2, <2>7
    <3> QED  BY <2>2, <2>4, <2>7, <3>1, <3>2 DEF Holds
  <2> QED  BY <2>6, <2>7
<1> QED  BY <1>2 DEF SameHolders, HoldersOf

\* The other steps leave the holders alone.
LEMMA OtherHolders ==
    ASSUME IInv,
           \/ \E a \in Agents : DrainDone(a)
           \/ Saved
           \/ SkipSink
           \/ SendToSink
           \/ PutDone
           \/ \E w \in Workers : WorkerCheck(w) \/ WorkerProcessed(w)
    PROVE  SameHolders
<1>1. UNCHANGED <<port, queue, src, hold, nextPut>>
  BY DEF DrainDone, Saved, SkipSink, SendToSink, PutDone, WorkerCheck, WorkerProcessed
<1>2. pc \in [Agents -> PcLabels] /\ Callback \in Agents /\ Callback \notin Workers
  BY PartiesAssumption DEF IInv, TypeOK, Agents
<1>3. pc[Callback] # "enqueue" \/ pc'[Callback] = pc[Callback]
  BY <1>2 DEF DrainDone, Saved, SkipSink, SendToSink, PutDone, WorkerCheck, WorkerProcessed, Goto
<1>4. pc'[Callback] # "enqueue" \/ pc'[Callback] = pc[Callback]
  BY <1>2 DEF DrainDone, Saved, SkipSink, SendToSink, PutDone, WorkerCheck, WorkerProcessed, Goto
<1>5. pc[Callback] = "enqueue" <=> pc'[Callback] = "enqueue"
  BY <1>3, <1>4
<1>6. \A c, p : Holds(c, p)' <=> Holds(c, p)
  BY <1>1, <1>5 DEF Holds
<1> QED  BY <1>6 DEF SameHolders, HoldersOf

\* The release at the end of the callback, or of a worker's turn.
LEMMA ReleaseHolders ==
    ASSUME IInv, NEW a \in Workers \cup {Callback}, ReleaseOwn(a)
    PROVE  /\ hold[a] \in Buffers
           /\ a \in HoldersOf(hold[a])
           /\ Leaves(hold[a], a)
<1>1. a \in Agents /\ hold[a] \in Buffers
  BY DEF IInv, TypeOK, LocalsInv, ReleaseOwn, Agents
<1>2. a \in HoldersOf(hold[a])
  BY <1>1 DEF HoldersOf, Holds, Parties
<1>3. ASSUME NEW c \in Buffers, NEW p \in Parties
      PROVE  Holds(c, p)' <=> Holds(c, p) /\ ~ (c = hold[a] /\ p = a)
  <2>1. /\ pc \in [Agents -> PcLabels]
        /\ hold \in [Agents -> Buffers \cup {NoBuffer}]
    BY DEF IInv, TypeOK
  <2>2. /\ pc' = [pc EXCEPT ![a] = "drain"]
        /\ hold' = [hold EXCEPT ![a] = NoBuffer]
        /\ UNCHANGED <<port, queue, src, nextPut>>
        /\ pc[a] = "release"
    BY DEF ReleaseOwn, Goto
  <2>3. a \notin Replicas /\ a # Port /\ Callback \in Agents /\ Callback \notin Workers
    BY <1>1, PartiesAssumption DEF Agents
  <2>4. pc'[Callback] = "enqueue" <=> pc[Callback] = "enqueue"
    BY <2>1, <2>2, <2>3
  <2>5. pc[Callback] = "enqueue" => hold'[Callback] = hold[Callback] /\ a # Callback
    BY <2>1, <2>2, <2>3
  <2>6. p \in Agents => (hold'[p] = c <=> hold[p] = c /\ p # a)
    BY <2>1, <2>2, BuffersAssumption
  <2>7. a \in Workers => ~ Contains(queue[a], hold[a])
    BY DEF IInv, QueueInv
  <2>8. pc[Callback] = "enqueue" => PutOrder[nextPut] # a \/ hold[a] # hold[Callback]
    <3>1. pc[Callback] = "enqueue" => nextPut \in nextPut .. Len(PutOrder)
      BY WorkersAssumption DEF IInv, QueueInv, TypeOK
    <3> QED  BY <3>1 DEF IInv, QueueInv
  <2>9. CASE p = a
    BY <1>1, <2>2, <2>3, <2>4, <2>5, <2>6, <2>7, <2>8, <2>9 DEF Holds
  <2>10. CASE p # a
    BY <2>2, <2>4, <2>5, <2>6, <2>10 DEF Holds
  <2> QED  BY <2>9, <2>10
<1> QED  BY <1>1, <1>2, <1>3 DEF Leaves, HoldersOf

\* The return of a replica.
LEMMA SinkReturnHolders ==
    ASSUME IInv, SinkReturn
    PROVE  /\ Head(sinkQ) \in Replicas
           /\ src[Head(sinkQ)] \in Buffers
           /\ Head(sinkQ) \in HoldersOf(src[Head(sinkQ)])
           /\ Leaves(src[Head(sinkQ)], Head(sinkQ))
<1> DEFINE r == Head(sinkQ)
<1>1. r \in Replicas /\ Contains(sinkQ, r)
  BY TailFacts DEF IInv, TypeOK, SinkReturn
<1>2. src[r] \in Buffers /\ src \in [Replicas -> Buffers \cup {NoBuffer}]
  BY <1>1 DEF IInv, TypeOK, SinkInv
<1>3. r \notin Agents /\ r # Port
  BY <1>1, PartiesAssumption
<1>4. r \in HoldersOf(src[r])
  BY <1>1 DEF HoldersOf, Holds, Parties
<1>5. ASSUME NEW c \in Buffers, NEW p \in Parties
      PROVE  Holds(c, p)' <=> Holds(c, p) /\ ~ (c = src[r] /\ p = r)
  <2>1. pc \in [Agents -> PcLabels] /\ Callback \in Agents /\ Callback # SinkCallback
    BY PartiesAssumption DEF IInv, TypeOK, Agents
  <2>2. /\ pc' = [pc EXCEPT ![SinkCallback] = "drain"]
        /\ src' = [src EXCEPT ![r] = NoBuffer]
        /\ UNCHANGED <<port, queue, hold, nextPut>>
    BY DEF SinkReturn, Goto
  <2>3. pc'[Callback] = pc[Callback]
    BY <2>1, <2>2
  <2>4. p \in Replicas => (src'[p] = c <=> src[p] = c /\ p # r)
    BY <1>2, <2>2, BuffersAssumption
  <2>5. p = r => p \notin Workers
    BY <1>3 DEF Agents
  <2> QED  BY <1>1, <1>3, <2>2, <2>3, <2>4, <2>5 DEF Holds
<1> QED  BY <1>1, <1>2, <1>4, <1>5 DEF Leaves, HoldersOf

-----------------------------------------------------------------------------
(* Counters, pool and port after a step, from what it does to the holders *)

HoldersInv == SendInv /\ RefCountsHolders /\ PortIsAlone /\ PoolIsFree

\* A new holder of a buffer that the callback holds.
LEMMA JoinsKeeps ==
    ASSUME IInv, NEW b \in Buffers, NEW p,
           Callback \in HoldersOf(b), p \notin HoldersOf(b),
           Joins(b, p), Acquire(b),
           UNCHANGED <<pool, port, hold>>, pc[Callback] # "send",
           \A a \in Agents : pc'[a] = "send" => pc[a] = "send"
    PROVE  HoldersInv'
<1>1. RefCountsHolders'
  <2> SUFFICES ASSUME NEW c \in Buffers
               PROVE  ref'[c] = Cardinality(HoldersOf(c)')
    BY DEF RefCountsHolders
  <2>1. ref' = [ref EXCEPT ![b] = ref[b] + 1] /\ ref \in [Buffers -> Nat]
    BY DEF Acquire, IInv, TypeOK
  <2>2. ref[c] = Cardinality(HoldersOf(c)) /\ IsFiniteSet(HoldersOf(c))
    BY HoldersFinite DEF IInv, RefCountsHolders
  <2>3. CASE c = b
    <3>1. HoldersOf(c)' = HoldersOf(c) \cup {p}
      BY <2>3 DEF Joins
    <3>2. Cardinality(HoldersOf(c) \cup {p}) = Cardinality(HoldersOf(c)) + 1
      BY <2>2, <2>3, FS_AddElement
    <3> QED  BY <2>1, <2>2, <2>3, <3>1, <3>2
  <2>4. CASE c # b
    BY <2>1, <2>2, <2>4 DEF Joins
  <2> QED  BY <2>3, <2>4
<1>2. PoolIsFree'
  <2>1. \A c \in Buffers : HoldersOf(c)' = {} <=> HoldersOf(c) = {}
    BY DEF Joins
  <2> QED  BY <2>1 DEF IInv, PoolIsFree
<1>3. b \notin port
  BY PartiesAssumption DEF IInv, PortIsAlone, Agents
<1>4. PortIsAlone'
  BY <1>3 DEF IInv, TypeOK, PortIsAlone, Joins
<1>5. SendInv'
  <2> SUFFICES ASSUME NEW a \in Agents, pc'[a] = "send"
               PROVE  HoldersOf(hold[a])' = {a}
    BY DEF SendInv
  <2>1. hold'[a] = hold[a] /\ pc[a] = "send" /\ hold[a] \in Buffers
    BY DEF IInv, TypeOK, LocalsInv
  <2>2. HoldersOf(hold[a]) = {a}
    BY <2>1 DEF IInv, SendInv
  <2>3. hold[a] # b
    BY <2>1, <2>2
  <2>4. \A c \in Buffers : c # b => HoldersOf(c)' = HoldersOf(c)
    BY DEF Joins
  <2>5. PICK c0 \in Buffers : c0 = hold[a]
    BY <2>1
  <2>6. HoldersOf(c0)' = {a}
    BY <2>2, <2>3, <2>4, <2>5
  <2> QED  BY <2>1, <2>5, <2>6
<1> QED  BY <1>1, <1>2, <1>4, <1>5 DEF HoldersInv

\* A holder that releases its reference.
LEMMA LeavesKeeps ==
    ASSUME IInv, NEW b \in Buffers, NEW p \in HoldersOf(b), p # Port,
           Leaves(b, p), Release(b), UNCHANGED port,
           \A a \in Agents : pc'[a] = "send" =>
                                pc[a] = "send" /\ hold'[a] = hold[a] /\ a # p
    PROVE  HoldersInv'
<1>1. /\ ref[b] \in Nat \ {0}
      /\ ref[b] = 1 <=> HoldersOf(b) = {p}
  BY CountFacts DEF IInv
<1>2. HoldersOf(b)' = {} <=> ref[b] = 1
  BY <1>1 DEF Leaves
<1>3. RefCountsHolders'
  <2> SUFFICES ASSUME NEW c \in Buffers
               PROVE  ref'[c] = Cardinality(HoldersOf(c)')
    BY DEF RefCountsHolders
  <2>1. ref' = [ref EXCEPT ![b] = ref[b] - 1] /\ ref \in [Buffers -> Nat]
    BY DEF Release, IInv, TypeOK
  <2>2. ref[c] = Cardinality(HoldersOf(c)) /\ IsFiniteSet(HoldersOf(c))
    BY HoldersFinite DEF IInv, RefCountsHolders
  <2>3. CASE c = b
    <3>1. HoldersOf(c)' = HoldersOf(c) \ {p}
      BY <2>3 DEF Leaves
    <3>2. Cardinality(HoldersOf(c) \ {p}) = Cardinality(HoldersOf(c)) - 1
      BY <2>2, <2>3, FS_RemoveElement
    <3> QED  BY <2>1, <2>2, <2>3, <3>1, <3>2
  <2>4. CASE c # b
    BY <2>1, <2>2, <2>4 DEF Leaves
  <2> QED  BY <2>3, <2>4
<1>4. PoolIsFree'
  <2>1. ~ Contains(pool, b) /\ pool \in Seq(Buffers) /\ IsInjective(pool)
    BY DEF IInv, TypeOK, PoolIsFree
  <2>2. CASE ref[b] = 1
    <3>1. pool' = Append(pool, b)
      BY <2>2 DEF Release
    <3>2. /\ \A y : Contains(pool', y) <=> Contains(pool, y) \/ y = b
          /\ IsInjective(pool')
      BY <2>1, <3>1, AppendFacts
    <3>3. \A c \in Buffers : HoldersOf(c)' = {} <=> HoldersOf(c) = {} \/ c = b
      BY <1>2, <2>2 DEF Leaves
    <3> QED  BY <3>2, <3>3 DEF IInv, PoolIsFree
  <2>3. CASE ref[b] # 1
    <3>1. pool' = pool
      BY <2>3 DEF Release
    <3>2. \A c \in Buffers : HoldersOf(c)' = {} <=> HoldersOf(c) = {}
      BY <1>2, <2>3 DEF Leaves
    <3> QED  BY <3>1, <3>2 DEF IInv, PoolIsFree
  <2> QED  BY <2>2, <2>3
<1>5. b \notin port
  BY DEF IInv, PortIsAlone
<1>6. PortIsAlone'
  BY <1>5 DEF IInv, TypeOK, PortIsAlone, Leaves
<1>7. SendInv'
  <2> SUFFICES ASSUME NEW a \in Agents, pc'[a] = "send"
               PROVE  HoldersOf(hold[a])' = {a}
    BY DEF SendInv
  <2>1. hold'[a] = hold[a] /\ pc[a] = "send" /\ hold[a] \in Buffers /\ a # p
    BY DEF IInv, TypeOK, LocalsInv
  <2>2. HoldersOf(hold[a]) = {a}
    BY <2>1 DEF IInv, SendInv
  <2>3. hold[a] # b
    BY <2>1, <2>2
  <2>4. PICK c0 \in Buffers : c0 = hold[a]
    BY <2>1
  <2>5. HoldersOf(c0)' = {a}
    BY <2>2, <2>3, <2>4 DEF Leaves
  <2> QED  BY <2>1, <2>4, <2>5
<1> QED  BY <1>3, <1>4, <1>6, <1>7 DEF HoldersInv

\* A step that changes neither holders nor counters.
LEMMA SameKeeps ==
    ASSUME IInv, SameHolders, UNCHANGED <<pool, port, ref>>,
           \A a \in Agents : pc'[a] = "send" => pc[a] = "send" /\ hold'[a] = hold[a]
    PROVE  HoldersInv'
<1>1. RefCountsHolders' /\ PoolIsFree'
  BY DEF IInv, RefCountsHolders, PoolIsFree, SameHolders
<1>2. PortIsAlone'
  BY DEF IInv, TypeOK, PortIsAlone, SameHolders
<1>3. SendInv'
  <2> SUFFICES ASSUME NEW a \in Agents, pc'[a] = "send"
               PROVE  HoldersOf(hold[a])' = {a}
    BY DEF SendInv
  <2>1. hold'[a] = hold[a] /\ pc[a] = "send" /\ hold[a] \in Buffers
    BY DEF IInv, TypeOK, LocalsInv
  <2>2. PICK c0 \in Buffers : c0 = hold[a]
    BY <2>1
  <2>3. HoldersOf(c0)' = {a}
    BY <2>1, <2>2 DEF IInv, SendInv, SameHolders
  <2> QED  BY <2>1, <2>2, <2>3
<1> QED  BY <1>1, <1>2, <1>3 DEF HoldersInv

\* A buffer that passes from its only holder to another one, counted alike.
LEMMA PassesCounts ==
    ASSUME IInv, NEW b \in Buffers, NEW p, NEW q,
           HoldersOf(b) = {p}, Passes(b, p, q), UNCHANGED <<ref, pool>>
    PROVE  RefCountsHolders' /\ PoolIsFree'
<1>1. \A c \in Buffers : Cardinality(HoldersOf(c)') = Cardinality(HoldersOf(c))
  <2>1. Cardinality({p}) = 1 /\ Cardinality({q}) = 1
    BY FS_Singleton
  <2> QED  BY <2>1 DEF Passes
<1>2. \A c \in Buffers : HoldersOf(c)' = {} <=> HoldersOf(c) = {}
  BY DEF Passes
<1> QED  BY <1>1, <1>2 DEF IInv, RefCountsHolders, PoolIsFree

\* A get from the pool: a free buffer gets its only holder.
LEMMA DrainGetKeeps ==
    ASSUME IInv, NEW a \in Agents, DrainGet(a)
    PROVE  HoldersInv'
<1> DEFINE h == Head(pool)
<1>0. PICK b \in Buffers : b = h /\ HoldersOf(b) = {} /\ Joins(b, a)
  BY DrainGetHolders
<1>1. /\ pool' = Tail(pool) /\ pool # <<>> /\ pool \in Seq(Buffers)
      /\ hold' = [hold EXCEPT ![a] = b] /\ hold \in [Agents -> Buffers \cup {NoBuffer}]
      /\ ref' = [ref EXCEPT ![b] = ref[b] + 1] /\ ref \in [Buffers -> Nat]
      /\ pc' = [pc EXCEPT ![a] = "send"] /\ pc \in [Agents -> PcLabels]
      /\ port' = port
  BY <1>0 DEF DrainGet, Acquire, Goto, IInv, TypeOK
<1>2. RefCountsHolders'
  <2> SUFFICES ASSUME NEW c \in Buffers
               PROVE  ref'[c] = Cardinality(HoldersOf(c)')
    BY DEF RefCountsHolders
  <2>1. ref[c] = Cardinality(HoldersOf(c))
    BY DEF IInv, RefCountsHolders
  <2>2. CASE c = b
    <3>1. HoldersOf(c)' = {a} /\ HoldersOf(c) = {}
      BY <1>0, <2>2 DEF Joins
    <3>2. Cardinality({a}) = 1
      BY FS_Singleton
    <3>3. ref[c] = 0
      BY <2>1, <3>1, FS_EmptySet
    <3> QED  BY <1>1, <2>2, <3>1, <3>2, <3>3
  <2>3. CASE c # b
    BY <1>0, <1>1, <2>1, <2>3 DEF Joins
  <2> QED  BY <2>2, <2>3
<1>3. PoolIsFree'
  <2>1. IsInjective(pool) /\ \A c \in Buffers : Contains(pool, c) <=> HoldersOf(c) = {}
    BY DEF IInv, PoolIsFree
  <2>2. /\ IsInjective(pool')
        /\ \A y : Contains(pool', y) <=> Contains(pool, y) /\ y # b
    BY <1>0, <1>1, <2>1, TailFacts
  <2>3. \A c \in Buffers : HoldersOf(c)' = {} <=> HoldersOf(c) = {} /\ c # b
    BY <1>0 DEF Joins
  <2> QED  BY <2>1, <2>2, <2>3 DEF PoolIsFree
<1>4. PortIsAlone'
  <2>1. b \notin port
    BY <1>0 DEF IInv, PortIsAlone
  <2> QED  BY <1>0, <1>1, <2>1 DEF IInv, TypeOK, PortIsAlone, Joins
<1>5. SendInv'
  <2> SUFFICES ASSUME NEW d \in Agents, pc'[d] = "send"
               PROVE  HoldersOf(hold[d])' = {d}
    BY DEF SendInv
  <2>1. CASE d = a
    <3>1. hold'[d] = b
      BY <1>1, <2>1
    <3>2. HoldersOf(b)' = {a}
      BY <1>0 DEF Joins
    <3> QED  BY <2>1, <3>1, <3>2
  <2>2. CASE d # a
    <3>1. pc[d] = "send" /\ hold'[d] = hold[d]
      BY <1>1, <2>2
    <3>2. PICK c \in Buffers : c = hold[d]
      BY <1>1, <3>1 DEF IInv, LocalsInv
    <3>3. HoldersOf(c) = {d}
      BY <3>1, <3>2 DEF IInv, SendInv
    <3>4. HoldersOf(c)' = {d}
      BY <1>0, <3>3 DEF Joins
    <3> QED  BY <3>1, <3>2, <3>4
  <2> QED  BY <2>1, <2>2
<1> QED  BY <1>2, <1>3, <1>4, <1>5 DEF HoldersInv

\* Steps that hand a buffer from its only holder to another, not to be sent.
LEMMA PassesKeeps ==
    ASSUME IInv, NEW b \in Buffers, NEW p, NEW q,
           HoldersOf(b) = {p}, Passes(b, p, q), UNCHANGED <<ref, pool>>,
           port' = IF q = Port THEN port \cup {b} ELSE port \ {b},
           \A a \in Agents : pc'[a] = "send" =>
                                pc[a] = "send" /\ hold'[a] = hold[a] /\ a # p
    PROVE  HoldersInv'
<1>1. RefCountsHolders' /\ PoolIsFree'
  BY PassesCounts
<1>2. PortIsAlone'
  BY DEF IInv, TypeOK, PortIsAlone, Passes
<1>3. SendInv'
  <2> SUFFICES ASSUME NEW a \in Agents, pc'[a] = "send"
               PROVE  HoldersOf(hold[a])' = {a}
    BY DEF SendInv
  <2>1. hold'[a] = hold[a] /\ pc[a] = "send" /\ hold[a] \in Buffers /\ a # p
    BY DEF IInv, TypeOK, LocalsInv
  <2>2. PICK c \in Buffers : c = hold[a]
    BY <2>1
  <2>3. HoldersOf(c) = {a}
    BY <2>1, <2>2 DEF IInv, SendInv
  <2>4. HoldersOf(c)' = {a}
    BY <2>1, <2>3 DEF Passes
  <2> QED  BY <2>1, <2>2, <2>4
<1> QED  BY <1>1, <1>2, <1>3 DEF HoldersInv

\* A send to the port.
LEMMA DrainSendKeeps ==
    ASSUME IInv, NEW a \in Agents, DrainSend(a)
    PROVE  HoldersInv'
<1>0. PICK b \in Buffers : b = hold[a] /\ HoldersOf(b) = {a} /\ Passes(b, a, Port)
  BY DrainSendHolders
<1>1. UNCHANGED <<ref, pool>> /\ port' = port \cup {b}
  BY <1>0 DEF DrainSend
<1>2. \A d \in Agents : pc'[d] = "send" => pc[d] = "send" /\ hold'[d] = hold[d] /\ d # a
  BY DEF DrainSend, Goto, IInv, TypeOK
<1> QED  BY <1>0, <1>1, <1>2, PassesKeeps

\* A delivery to the callback.
LEMMA DeliverKeeps ==
    ASSUME IInv, NEW b \in Buffers, Deliver(b)
    PROVE  HoldersInv'
<1>0. HoldersOf(b) = {Port} /\ Passes(b, Port, Callback)
  BY DeliverHolders
<1>1. UNCHANGED <<ref, pool>> /\ port' = port \ {b} /\ Port # Callback
  BY PartiesAssumption DEF Deliver, Agents
<1>2. \A d \in Agents : pc'[d] = "send" => pc[d] = "send" /\ hold'[d] = hold[d] /\ d # Port
  BY PartiesAssumption DEF Deliver, Goto, IInv, TypeOK
<1> QED  BY <1>0, <1>1, <1>2, PassesKeeps

\* Every step keeps counters, pool, port and holders in line.
LEMMA HoldersStep ==
    ASSUME IInv, Next
    PROVE  HoldersInv'
<1>0. pc \in [Agents -> PcLabels] /\ Callback \in Agents
  BY DEF IInv, TypeOK, Agents
<1>1. ASSUME NEW a \in Agents, DrainGet(a) PROVE HoldersInv'
  BY <1>1, DrainGetKeeps
<1>2. ASSUME NEW a \in Agents, DrainSend(a) PROVE HoldersInv'
  BY <1>2, DrainSendKeeps
<1>3. ASSUME NEW b \in Buffers, Deliver(b) PROVE HoldersInv'
  BY <1>3, DeliverKeeps
<1>4. CASE \/ \E a \in Agents : DrainDone(a)
           \/ Saved \/ SkipSink \/ SendToSink \/ PutDone
           \/ \E w \in Workers : WorkerCheck(w) \/ WorkerProcessed(w)
  <2>1. SameHolders
    BY <1>4, OtherHolders
  <2>2. UNCHANGED <<pool, port, ref, hold>>
    BY <1>4 DEF DrainDone, Saved, SkipSink, SendToSink, PutDone, WorkerCheck, WorkerProcessed
  <2>3. \A a \in Agents : pc'[a] = "send" => pc[a] = "send"
    BY <1>0, <1>4 DEF DrainDone, Saved, SkipSink, SendToSink, PutDone, WorkerCheck,
                      WorkerProcessed, Goto
  <2> QED  BY <2>1, <2>2, <2>3, SameKeeps
<1>5. ASSUME NEW r \in Replicas, Replicate(r) PROVE HoldersInv'
  <2>1. PICK b \in Buffers : /\ b = hold[Callback]
                             /\ Callback \in HoldersOf(b)
                             /\ r \notin HoldersOf(b)
                             /\ Joins(b, r)
    BY <1>5, ReplicateHolders
  <2>2. Acquire(b) /\ UNCHANGED <<pool, port, hold>> /\ pc[Callback] # "send"
    BY <1>5, <2>1 DEF Replicate
  <2>3. \A a \in Agents : pc'[a] = "send" => pc[a] = "send"
    BY <1>0, <1>5 DEF Replicate, Goto
  <2> QED  BY <2>1, <2>2, <2>3, JoinsKeeps
<1>6. CASE PutAcquire
  <2> DEFINE w == PutOrder[nextPut]
  <2>1. PICK b \in Buffers : /\ b = hold[Callback]
                             /\ Callback \in HoldersOf(b)
                             /\ w \notin HoldersOf(b)
                             /\ Joins(b, w)
    BY <1>6, PutAcquireHolders
  <2>2. Acquire(b) /\ UNCHANGED <<pool, port, hold>> /\ pc[Callback] # "send"
    BY <1>6, <2>1 DEF PutAcquire
  <2>3. \A a \in Agents : pc'[a] = "send" => pc[a] = "send"
    BY <1>0, <1>6 DEF PutAcquire, Goto
  <2> QED  BY <2>1, <2>2, <2>3, JoinsKeeps
<1>7. CASE PutEnqueue
  <2>1. SameHolders
    BY <1>7, PutEnqueueHolders
  <2>2. UNCHANGED <<pool, port, ref, hold>>
    BY <1>7 DEF PutEnqueue
  <2>3. \A a \in Agents : pc'[a] = "send" => pc[a] = "send"
    BY <1>0, <1>7 DEF PutEnqueue, Goto
  <2> QED  BY <2>1, <2>2, <2>3, SameKeeps
<1>8. ASSUME NEW w \in Workers, WorkerGet(w) PROVE HoldersInv'
  <2>1. SameHolders
    BY <1>8, WorkerGetHolders
  <2>2. UNCHANGED <<pool, port, ref>>
    BY <1>8 DEF WorkerGet
  <2>3. \A a \in Agents : pc'[a] = "send" => pc[a] = "send" /\ hold'[a] = hold[a]
    BY <1>0, <1>8 DEF WorkerGet, Goto, IInv, TypeOK
  <2> QED  BY <2>1, <2>2, <2>3, SameKeeps
<1>9. ASSUME NEW a \in Workers \cup {Callback}, ReleaseOwn(a) PROVE HoldersInv'
  <2>1. PICK b \in Buffers : b = hold[a] /\ a \in HoldersOf(b) /\ Leaves(b, a)
    BY <1>9, ReleaseHolders
  <2>2. Release(b) /\ UNCHANGED port /\ a # Port
    BY <1>9, <2>1, PartiesAssumption DEF ReleaseOwn, Agents
  <2>3. \A d \in Agents : pc'[d] = "send" => pc[d] = "send" /\ hold'[d] = hold[d] /\ d # a
    BY <1>0, <1>9 DEF ReleaseOwn, Goto, IInv, TypeOK
  <2> QED  BY <2>1, <2>2, <2>3, LeavesKeeps
<1>10. CASE SinkReturn
  <2> DEFINE r == Head(sinkQ)
  <2>1. PICK b \in Buffers : b = src[r] /\ r \in HoldersOf(b) /\ Leaves(b, r)
    BY <1>10, SinkReturnHolders
  <2>2. r \in Replicas
    BY <1>10, SinkReturnHolders
  <2>3. Release(b) /\ UNCHANGED <<port, hold>> /\ r # Port
    BY <1>10, <2>1, <2>2, PartiesAssumption DEF SinkReturn
  <2>4. \A d \in Agents : pc'[d] = "send" => pc[d] = "send" /\ d # r
    BY <1>0, <1>10, <2>2, PartiesAssumption DEF SinkReturn, Goto
  <2> QED  BY <2>1, <2>3, <2>4, LeavesKeeps
<1> QED
  BY NextCases, <1>1, <1>2, <1>3, <1>4, <1>5, <1>6, <1>7, <1>8, <1>9, <1>10

\* Every step leaves an agent in the drain loop while the pool is not empty.
LEMMA ServedStep ==
    ASSUME TypeOK, PoolIsServed, Next
    PROVE  PoolIsServed'
<1>0. pc \in [Agents -> PcLabels] /\ Workers \subseteq Agents
      /\ Callback \in Agents /\ SinkCallback \in Agents
  BY DEF TypeOK, Agents
<1>1. ASSUME NEW a \in Agents, DrainGet(a) \/ DrainSend(a) PROVE PoolIsServed'
  BY <1>0, <1>1 DEF DrainGet, DrainSend, Goto, PoolIsServed
<1>2. ASSUME NEW a \in Agents, DrainDone(a) PROVE PoolIsServed'
  BY <1>2 DEF DrainDone, PoolIsServed
<1>3. ASSUME NEW a \in Workers \cup {Callback}, ReleaseOwn(a) PROVE PoolIsServed'
  BY <1>0, <1>3 DEF ReleaseOwn, Goto, PoolIsServed
<1>4. CASE SinkReturn
  BY <1>0, <1>4 DEF SinkReturn, Goto, PoolIsServed
<1>5. ASSUME pool' = pool,
             \A a \in Agents : pc[a] \in {"drain", "send"} => pc'[a] = pc[a]
      PROVE  PoolIsServed'
  BY <1>5 DEF PoolIsServed
<1>6. ASSUME NEW b \in Buffers, Deliver(b) PROVE PoolIsServed'
  BY <1>0, <1>5, <1>6 DEF Deliver, Goto
<1>7. CASE Saved \/ SkipSink \/ SendToSink \/ PutAcquire \/ PutEnqueue \/ PutDone
  BY <1>0, <1>5, <1>7 DEF Saved, SkipSink, SendToSink, PutAcquire, PutEnqueue, PutDone, Goto
<1>8. ASSUME NEW r \in Replicas, Replicate(r) PROVE PoolIsServed'
  BY <1>0, <1>5, <1>8 DEF Replicate, Goto
<1>9. ASSUME NEW w \in Workers, WorkerGet(w) \/ WorkerCheck(w) \/ WorkerProcessed(w)
      PROVE  PoolIsServed'
  BY <1>0, <1>5, <1>9 DEF WorkerGet, WorkerCheck, WorkerProcessed, Goto
<1> QED
  BY NextCases, <1>1, <1>2, <1>3, <1>4, <1>6, <1>7, <1>8, <1>9

\* What the callback holds is neither free nor in another hand.
LEMMA NotTheCallbacks ==
    ASSUME IInv, NEW b \in Buffers, hold[Callback] = b
    PROVE  ~ Contains(pool, b)
<1>1. Callback \in HoldersOf(b)
  BY DEF HoldersOf, Holds, Parties, Agents
<1> QED  BY <1>1 DEF IInv, PoolIsFree

\* Every step keeps the workers' queues free of duplicates and of what the callback
\* has still to put.
LEMMA QueueStep ==
    ASSUME IInv, Next
    PROVE  QueueInv'
<1> DEFINE Serving == {"save", "replicate", "toSink", "put", "enqueue"}
<1>0. /\ pc \in [Agents -> PcLabels]
      /\ hold \in [Agents -> Buffers \cup {NoBuffer}]
      /\ queue \in [Workers -> Seq(Buffers)]
      /\ Workers \subseteq Agents /\ Callback \in Agents /\ SinkCallback \in Agents
      /\ Callback \notin Workers /\ Callback # SinkCallback
      /\ nextPut \in 1 .. Len(PutOrder) + 1 /\ Len(PutOrder) \in Nat
      /\ \A i \in nextPut .. Len(PutOrder) : PutOrder[i] \in Workers
      /\ \A i \in 1 .. Len(PutOrder) : PutOrder[i] \in Workers
      /\ DOMAIN PutOrder = 1 .. Len(PutOrder)
  BY WorkersAssumption, PartiesAssumption DEF IInv, TypeOK, Agents
<1>q. QueueInv
  BY DEF IInv
\* A step that touches no queue, lets the hands be, but for some that are emptied,
\* and the callback where it is.
<1>1. ASSUME UNCHANGED <<queue, nextPut>>,
             \A a \in Agents : hold'[a] = hold[a] \/ hold'[a] = NoBuffer,
             pc'[Callback] \in Serving =>
                 pc[Callback] \in Serving /\ hold'[Callback] = hold[Callback],
             pc'[Callback] = "enqueue" => nextPut <= Len(PutOrder)
      PROVE  QueueInv'
  <2>1. \A w \in Workers : ~ Contains(queue[w], hold'[w])
    <3>1. \A w \in Workers : ~ Contains(queue[w], NoBuffer)
      BY <1>0, BuffersAssumption DEF Contains
    <3> QED  BY <1>0, <1>1, <1>q, <3>1 DEF QueueInv
  <2>2. ASSUME pc'[Callback] \in Serving, NEW i \in nextPut .. Len(PutOrder)
        PROVE  /\ ~ Contains(queue[PutOrder[i]], hold'[Callback])
               /\ hold'[PutOrder[i]] # hold'[Callback]
    <3>1. /\ ~ Contains(queue[PutOrder[i]], hold[Callback])
          /\ hold[PutOrder[i]] # hold[Callback]
      BY <1>1, <1>q, <2>2 DEF QueueInv
    <3>2. hold[Callback] # NoBuffer
      BY <1>0, <1>1, <2>2 DEF IInv, LocalsInv
    <3> QED  BY <1>0, <1>1, <2>2, <3>1, <3>2
  <2> QED  BY <1>1, <1>q, <2>1, <2>2 DEF QueueInv
<1>2. ASSUME NEW a \in Agents, DrainGet(a) PROVE QueueInv'
  <2>1. PICK b \in Buffers : b = Head(pool) /\ HoldersOf(b) = {} /\ Contains(pool, b)
    BY <1>2, DrainGetHolders, TailFacts DEF DrainGet, IInv, TypeOK
  <2>2. UNCHANGED <<queue, nextPut>> /\ hold' = [hold EXCEPT ![a] = b]
        /\ pc' = [pc EXCEPT ![a] = "send"] /\ pc[a] = "drain"
    BY <1>2, <2>1 DEF DrainGet, Goto
  <2>3. \A w \in Workers : ~ Contains(queue[w], b)
    BY <1>0, <2>1 DEF HoldersOf, Holds, Parties
  <2>4. hold[Callback] # b
    BY <2>1, NotTheCallbacks
  <2>5. \A w \in Workers : ~ Contains(queue'[w], hold'[w]) /\ IsInjective(queue'[w])
    BY <1>0, <1>q, <2>2, <2>3 DEF QueueInv
  <2>6. pc'[Callback] \in Serving =>
            a # Callback /\ pc'[Callback] = pc[Callback] /\ hold'[Callback] = hold[Callback]
    BY <1>0, <2>2
  <2>7. ASSUME pc'[Callback] \in Serving, NEW i \in nextPut .. Len(PutOrder)
        PROVE  /\ ~ Contains(queue'[PutOrder[i]], hold'[Callback])
               /\ hold'[PutOrder[i]] # hold'[Callback]
    BY <1>0, <1>q, <2>2, <2>4, <2>6, <2>7 DEF QueueInv
  <2> QED  BY <1>q, <2>2, <2>5, <2>6, <2>7 DEF QueueInv
<1>3. ASSUME NEW a \in Agents, DrainSend(a) \/ DrainDone(a) PROVE QueueInv'
  <2>1. UNCHANGED <<queue, nextPut>>
        /\ \A d \in Agents : hold'[d] = hold[d] \/ hold'[d] = NoBuffer
    BY <1>0, <1>3 DEF DrainSend, DrainDone
  <2>2. pc'[Callback] \in Serving => pc'[Callback] = pc[Callback]
                                     /\ hold'[Callback] = hold[Callback]
    BY <1>0, <1>3 DEF DrainSend, DrainDone, Goto
  <2> QED  BY <1>1, <1>q, <2>1, <2>2 DEF QueueInv
<1>4. ASSUME NEW b \in Buffers, Deliver(b) PROVE QueueInv'
  <2>1. HoldersOf(b) = {Port} /\ Port \notin Agents
    BY <1>4, DeliverHolders, PartiesAssumption
  <2>2. \A w \in Workers : ~ Contains(queue[w], b) /\ hold[w] # b
    BY <1>0, <2>1 DEF HoldersOf, Holds, Parties
  <2>3. /\ UNCHANGED queue /\ nextPut' = 1 /\ hold' = [hold EXCEPT ![Callback] = b]
        /\ pc' = [pc EXCEPT ![Callback] = "save"]
    BY <1>4 DEF Deliver, Goto
  <2>4. \A w \in Workers : hold'[w] = hold[w]
    BY <1>0, <2>3
  <2>5. hold'[Callback] = b /\ pc'[Callback] = "save"
    BY <1>0, <2>3
  <2> QED  BY <1>0, <1>q, <2>2, <2>3, <2>4, <2>5 DEF QueueInv
<1>5. CASE Saved \/ SkipSink \/ SendToSink \/ PutAcquire \/ PutDone
  <2>1. UNCHANGED <<queue, nextPut, hold>>
    BY <1>5 DEF Saved, SkipSink, SendToSink, PutAcquire, PutDone
  <2>2. pc[Callback] \in Serving
    BY <1>5 DEF Saved, SkipSink, SendToSink, PutAcquire, PutDone
  <2>3. pc'[Callback] = "enqueue" => nextPut <= Len(PutOrder)
    BY <1>0, <1>5 DEF Saved, SkipSink, SendToSink, PutAcquire, PutDone, Goto
  <2> QED  BY <1>1, <2>1, <2>2, <2>3
<1>6. ASSUME NEW r \in Replicas, Replicate(r) PROVE QueueInv'
  <2>1. UNCHANGED <<queue, nextPut, hold>> /\ pc[Callback] \in Serving
    BY <1>6 DEF Replicate
  <2>2. pc'[Callback] # "enqueue"
    BY <1>0, <1>6 DEF Replicate, Goto
  <2> QED  BY <1>1, <2>1, <2>2
<1>7. CASE PutEnqueue
  <2> DEFINE b == hold[Callback]
             w == PutOrder[nextPut]
  <2>1. /\ UNCHANGED hold /\ nextPut' = nextPut + 1 /\ pc[Callback] = "enqueue"
        /\ queue' = [queue EXCEPT ![w] = Append(queue[w], b)]
        /\ pc' = [pc EXCEPT ![Callback] = "put"]
    BY <1>7 DEF PutEnqueue, Goto
  <2>2. nextPut \in 1 .. Len(PutOrder) /\ w \in Workers /\ b \in Buffers
    <3>1. nextPut <= Len(PutOrder)
      BY <1>q, <2>1 DEF QueueInv
    <3>2. nextPut \in 1 .. Len(PutOrder)
      BY <1>0, <3>1
    <3>3. b \in Buffers
      BY <1>0, <2>1 DEF IInv, LocalsInv
    <3> QED  BY <1>0, <3>2, <3>3
  <2>3. ~ Contains(queue[w], b) /\ hold[w] # b /\ IsInjective(queue[w])
        /\ ~ Contains(queue[w], hold[w])
    BY <1>q, <2>1, <2>2 DEF QueueInv
  <2>4. /\ IsInjective(Append(queue[w], b))
        /\ \A y : Contains(Append(queue[w], b), y) <=> Contains(queue[w], y) \/ y = b
    BY <1>0, <2>2, <2>3, AppendFacts
  <2>5. ASSUME NEW v \in Workers
        PROVE  IsInjective(queue'[v]) /\ ~ Contains(queue'[v], hold'[v])
    <3>1. CASE v = w
      BY <1>0, <2>1, <2>2, <2>3, <2>4, <3>1
    <3>2. CASE v # w
      BY <1>0, <1>q, <2>1, <3>2 DEF QueueInv
    <3> QED  BY <3>1, <3>2
  <2>6. ASSUME NEW i \in nextPut' .. Len(PutOrder)
        PROVE  /\ ~ Contains(queue'[PutOrder[i]], hold'[Callback])
               /\ hold'[PutOrder[i]] # hold'[Callback]
    <3>1. i \in nextPut .. Len(PutOrder) /\ i # nextPut /\ i \in 1 .. Len(PutOrder)
      BY <1>0, <2>1, <2>2
    <3>2. PutOrder[i] # w
      BY <1>0, <2>2, <3>1, WorkersAssumption DEF IsInjective
    <3>3. queue'[PutOrder[i]] = queue[PutOrder[i]]
      BY <1>0, <2>1, <3>1, <3>2
    <3> QED  BY <1>q, <2>1, <3>1, <3>3 DEF QueueInv
  <2>7. pc'[Callback] = "put"
    BY <1>0, <2>1
  <2> QED  BY <2>5, <2>6, <2>7 DEF QueueInv
<1>8. ASSUME NEW w \in Workers, WorkerGet(w) PROVE QueueInv'
  <2> DEFINE b == Head(queue[w])
  <2>1. /\ IsInjective(Tail(queue[w]))
        /\ \A y : Contains(Tail(queue[w]), y) <=> Contains(queue[w], y) /\ y # b
        /\ Contains(queue[w], b)
    BY <1>0, <1>8, <1>q, TailFacts DEF WorkerGet, QueueInv
  <2>2. /\ UNCHANGED nextPut /\ hold' = [hold EXCEPT ![w] = b]
        /\ queue' = [queue EXCEPT ![w] = Tail(queue[w])]
        /\ pc' = [pc EXCEPT ![w] = "check"]
    BY <1>8 DEF WorkerGet, Goto
  <2>3. pc'[Callback] = pc[Callback] /\ hold'[Callback] = hold[Callback]
    BY <1>0, <2>2
  <2>4. ASSUME NEW v \in Workers
        PROVE  /\ IsInjective(queue'[v]) /\ ~ Contains(queue'[v], hold'[v])
               /\ \A y : Contains(queue'[v], y) => Contains(queue[v], y)
               /\ \A y : hold'[v] = y => hold[v] = y \/ Contains(queue[v], y)
    <3>1. CASE v = w
      BY <1>0, <2>1, <2>2, <3>1
    <3>2. CASE v # w
      BY <1>0, <1>q, <2>2, <3>2 DEF QueueInv
    <3> QED  BY <3>1, <3>2
  <2>5. ASSUME pc'[Callback] \in Serving, NEW i \in nextPut .. Len(PutOrder)
        PROVE  /\ ~ Contains(queue'[PutOrder[i]], hold'[Callback])
               /\ hold'[PutOrder[i]] # hold'[Callback]
    BY <1>0, <1>q, <2>3, <2>4, <2>5 DEF QueueInv
  <2> QED  BY <1>q, <2>2, <2>3, <2>4, <2>5 DEF QueueInv
<1>9. ASSUME NEW w \in Workers, WorkerCheck(w) \/ WorkerProcessed(w) PROVE QueueInv'
  <2>1. UNCHANGED <<queue, nextPut, hold>>
    BY <1>9 DEF WorkerCheck, WorkerProcessed
  <2>2. pc'[Callback] = pc[Callback]
    BY <1>0, <1>9 DEF WorkerCheck, WorkerProcessed, Goto
  <2> QED  BY <1>1, <1>q, <2>1, <2>2 DEF QueueInv
<1>10. ASSUME NEW a \in Workers \cup {Callback}, ReleaseOwn(a) PROVE QueueInv'
  <2>1. UNCHANGED <<queue, nextPut>>
        /\ \A d \in Agents : hold'[d] = hold[d] \/ hold'[d] = NoBuffer
    BY <1>0, <1>10 DEF ReleaseOwn
  <2>2. pc'[Callback] \in Serving => pc'[Callback] = pc[Callback]
                                     /\ hold'[Callback] = hold[Callback]
    BY <1>0, <1>10 DEF ReleaseOwn, Goto
  <2> QED  BY <1>1, <1>q, <2>1, <2>2 DEF QueueInv
<1>11. CASE SinkReturn
  <2>1. UNCHANGED <<queue, nextPut, hold>> /\ pc'[Callback] = pc[Callback]
    BY <1>0, <1>11 DEF SinkReturn, Goto
  <2> QED  BY <1>1, <1>q, <2>1 DEF QueueInv
<1> QED
  BY NextCases, <1>2, <1>3, <1>4, <1>5, <1>6, <1>7, <1>8, <1>9, <1>10, <1>11

-----------------------------------------------------------------------------
(* Replicas *)

\* A replica only ever comes to a buffer that has none: the callback's, in its turn.
LEMMA ReplicaStep ==
    ASSUME IInv, Next
    PROVE  ReplicaInv'
<1>0. /\ pc \in [Agents -> PcLabels] /\ hold \in [Agents -> Buffers \cup {NoBuffer}]
      /\ src \in [Replicas -> Buffers \cup {NoBuffer}]
      /\ Callback \in Agents /\ SinkCallback \in Agents /\ Workers \subseteq Agents
  BY DEF IInv, TypeOK, Agents
<1>i. ReplicaInv
  BY DEF IInv
<1>1. ASSUME UNCHANGED src,
             pc'[Callback] \in {"save", "replicate"} =>
                 /\ pc[Callback] \in {"save", "replicate"}
                 /\ hold'[Callback] = hold[Callback]
      PROVE  ReplicaInv'
  BY <1>i, <1>1 DEF ReplicaInv
<1>2. ASSUME NEW a \in Agents, DrainGet(a) \/ DrainSend(a) \/ DrainDone(a) PROVE ReplicaInv'
  BY <1>0, <1>1, <1>2 DEF DrainGet, DrainSend, DrainDone, Goto
<1>3. ASSUME NEW b \in Buffers, Deliver(b) PROVE ReplicaInv'
  <2>1. HoldersOf(b) = {Port}
    BY <1>3, DeliverHolders
  <2>2. \A r \in Replicas : src[r] # b
    BY <2>1, PartiesAssumption DEF HoldersOf, Holds, Parties
  <2>3. hold'[Callback] = b /\ UNCHANGED src
    BY <1>0, <1>3 DEF Deliver
  <2> QED  BY <1>i, <2>2, <2>3 DEF ReplicaInv
<1>4. ASSUME NEW r \in Replicas, Replicate(r) PROVE ReplicaInv'
  <2>1. \A s \in Replicas : src[s] # hold[Callback]
    BY <1>i, <1>4 DEF ReplicaInv, Replicate
  <2>2. src' = [src EXCEPT ![r] = hold[Callback]] /\ pc'[Callback] = "toSink"
    BY <1>0, <1>4 DEF Replicate, Goto
  <2> QED  BY <1>0, <1>i, <2>1, <2>2 DEF ReplicaInv
<1>5. CASE Saved \/ SkipSink \/ SendToSink \/ PutAcquire \/ PutEnqueue \/ PutDone
  BY <1>0, <1>1, <1>5 DEF Saved, SkipSink, SendToSink, PutAcquire, PutEnqueue, PutDone, Goto
<1>6. ASSUME NEW w \in Workers, WorkerGet(w) \/ WorkerCheck(w) \/ WorkerProcessed(w)
      PROVE  ReplicaInv'
  BY <1>0, <1>1, <1>6, PartiesAssumption DEF WorkerGet, WorkerCheck, WorkerProcessed, Goto
<1>7. ASSUME NEW a \in Workers \cup {Callback}, ReleaseOwn(a) PROVE ReplicaInv'
  BY <1>0, <1>1, <1>7 DEF ReleaseOwn, Goto
<1>8. CASE SinkReturn
  <2>1. src' = [src EXCEPT ![Head(sinkQ)] = NoBuffer] /\ UNCHANGED hold
        /\ pc' = [pc EXCEPT ![SinkCallback] = "drain"]
    BY <1>8 DEF SinkReturn, Goto
  <2>2. \A r \in Replicas : src'[r] = src[r] \/ src'[r] = NoBuffer
    BY <1>0, <2>1
  <2>3. pc'[Callback] = pc[Callback] /\ (pc[Callback] = "save" => hold[Callback] # NoBuffer)
        /\ (pc[Callback] = "replicate" => hold[Callback] # NoBuffer)
    BY <1>0, <2>1, PartiesAssumption DEF IInv, LocalsInv
  <2> QED  BY <1>i, <2>1, <2>2, <2>3 DEF ReplicaInv
<1> QED
  BY NextCases, <1>2, <1>3, <1>4, <1>5, <1>6, <1>7, <1>8

\* Busy replicas all replicate different buffers, and none the callback's: with as many
\* of them as buffers, one is free.
LEMMA ReplicaIsFree == IInv => SinkMissesNothing
<1> SUFFICES ASSUME IInv, pc[Callback] = "replicate",
                    Cardinality(Replicas) >= Cardinality(Buffers), freeReps = {}
             PROVE  FALSE
  BY DEF SinkMissesNothing
<1> DEFINE h == hold[Callback]
           Others == Buffers \ {h}
<1>1. h \in Buffers
  BY DEF IInv, TypeOK, LocalsInv, Agents
<1>2. \A r \in Replicas : src[r] # NoBuffer /\ src[r] # h
  BY DEF IInv, SinkInv, ReplicaInv
<1>3. src \in [Replicas -> Others]
  <2>1. src \in [Replicas -> Buffers \cup {NoBuffer}]
    BY DEF IInv, TypeOK
  <2> QED  BY <1>2, <2>1
<1>4. src \in Injection(Replicas, Others)
  <2>1. \A r, s \in Replicas : src[r] = src[s] => r = s
    BY <1>2 DEF IInv, ReplicaInv
  <2> QED  BY <1>3, <2>1 DEF Injection, IsInjective
<1>5. IsFiniteSet(Others) /\ Cardinality(Others) = Cardinality(Buffers) - 1
  BY <1>1, BuffersAssumption, FS_RemoveElement
<1>6. Cardinality(Replicas) <= Cardinality(Others)
  BY <1>4, <1>5, FS_Injection
<1>7. Cardinality(Buffers) \in Nat /\ Cardinality(Replicas) \in Nat
  BY BuffersAssumption, FS_CardinalityType
<1> QED  BY <1>5, <1>6, <1>7

-----------------------------------------------------------------------------
(* The theorems *)

\* Initially every buffer is in the pool, once, and nobody holds any.
LEMMA InitIInv == Init => IInv
<1> SUFFICES ASSUME Init PROVE IInv
  OBVIOUS
<1>1. TypeOK
  BY InitTypeOK
<1>2. \A b \in Buffers, p \in Parties : ~ Holds(b, p)
  BY EmptyFacts, BuffersAssumption, PartiesAssumption DEF Init, Holds, Agents
<1>3. \A b \in Buffers : HoldersOf(b) = {}
  BY <1>2 DEF HoldersOf
<1>4. LocalsInv
  BY PartiesAssumption DEF Init, LocalsInv, Agents
<1>5. SinkInv
  BY EmptyFacts, PartiesAssumption DEF Init, SinkInv, Agents
<1>6. QueueInv
  BY EmptyFacts, PartiesAssumption DEF Init, QueueInv, Agents
<1>7. SendInv
  BY DEF Init, SendInv
<1>8. RefCountsHolders
  BY <1>3, FS_EmptySet DEF Init, RefCountsHolders
<1>9. PortIsAlone
  BY DEF Init, PortIsAlone
<1>10. PoolIsFree
  <2>1. pool \in SetToSeqs(Buffers)
    BY DEF Init
  <2>2. Cardinality(Buffers) \in Nat
    BY BuffersAssumption, FS_CardinalityType
  <2>3. IsInjective(pool)
    BY <2>1 DEF SetToSeqs, IsInjective
  <2>4. ASSUME NEW b \in Buffers PROVE Contains(pool, b)
    <3> DEFINE D == 1 .. Cardinality(Buffers)
    <3>1. pool \in [D -> Buffers] /\ pool \in Injection(D, Buffers)
      BY <2>1, <2>3 DEF SetToSeqs, Injection
    <3>2. IsFiniteSet(D) /\ Cardinality(D) = Cardinality(Buffers)
      BY <2>2, FS_Interval
    <3>3. pool \in Surjection(D, Buffers)
      BY <3>1, <3>2, BuffersAssumption, FS_Injection
    <3>4. PICK i \in D : pool[i] = b
      BY <3>3 DEF Surjection
    <3>5. Len(pool) = Cardinality(Buffers)
      BY <2>2, <3>1
    <3> QED  BY <3>4, <3>5 DEF Contains
  <2> QED  BY <1>3, <2>3, <2>4 DEF PoolIsFree
<1>11. PoolIsServed
  BY DEF Init, PoolIsServed, Agents
<1>12. ReplicaInv
  BY PartiesAssumption DEF Init, ReplicaInv, Agents
<1> QED  BY <1>1, <1>4, <1>5, <1>6, <1>7, <1>8, <1>9, <1>10, <1>11, <1>12 DEF IInv

\* No step leaves the inductive invariant.
LEMMA StepIInv == IInv /\ [Next]_vars => IInv'
<1>1. CASE UNCHANGED vars
  BY <1>1 DEF vars, IInv, TypeOK, LocalsInv, SinkInv, ReplicaInv, QueueInv, SendInv, RefCountsHolders,
              PortIsAlone, PoolIsFree, PoolIsServed, HoldersOf, Holds
<1>2. ASSUME IInv, Next PROVE IInv'
  <2>1. TypeOK'
    BY <1>2, TypeStep DEF IInv
  <2>2. LocalsInv'
    BY <1>2, LocalsStep DEF IInv
  <2>3. SinkInv'
    BY <1>2, SinkStep DEF IInv
  <2>4. QueueInv'
    BY <1>2, QueueStep
  <2>5. SendInv' /\ RefCountsHolders' /\ PortIsAlone' /\ PoolIsFree'
    BY <1>2, HoldersStep DEF HoldersInv
  <2>6. PoolIsServed'
    BY <1>2, ServedStep DEF IInv
  <2>7. ReplicaInv'
    BY <1>2, ReplicaStep
  <2> QED  BY <2>1, <2>2, <2>3, <2>4, <2>5, <2>6, <2>7 DEF IInv
<1> QED  BY <1>1, <1>2

\* IInv is an invariant of the pipeline, for any number of buffers, replicas and
\* worker threads, whether or not the sink can refuse a replica.
THEOREM Invariance == Spec => []IInv
BY InitIInv, StepIInv, PTL DEF Spec

\* Every variable keeps its type: in particular no reference counter gets negative
\* (mmal_buffer_header_release is never called too often).
THEOREM TypeCorrect == Spec => []TypeOK
<1>1. IInv => TypeOK
  BY DEF IInv
<1> QED  BY <1>1, Invariance, PTL

\* A header's reference counter is the number of those who use the buffer.
THEOREM RefCountsCorrect == Spec => []RefCountsHolders
<1>1. IInv => RefCountsHolders
  BY DEF IInv
<1> QED  BY <1>1, Invariance, PTL

\* The hardware never writes into a buffer that somebody else uses.
THEOREM PortAlone == Spec => []PortIsAlone
<1>1. IInv => PortIsAlone
  BY DEF IInv
<1> QED  BY <1>1, Invariance, PTL

\* No buffer is lost, and none is in the pool twice or while it is used.
THEOREM PoolFree == Spec => []PoolIsFree
<1>1. IInv => PoolIsFree
  BY DEF IInv
<1> QED  BY <1>1, Invariance, PTL

\* No buffer is stranded in the pool.
THEOREM PoolServed == Spec => []PoolIsServed
<1>1. IInv => PoolIsServed
  BY DEF IInv
<1> QED  BY <1>1, Invariance, PTL

\* The sink misses no frame if it has as many headers as there are buffers, even if it
\* refused some, and its replicas are lost.
THEOREM SinkServed == Spec => []SinkMissesNothing
BY ReplicaIsFree, Invariance, PTL

-----------------------------------------------------------------------------
(* Fanout implements the ledger *)

\* Initially the ledger is blank.
LEMMA LedgerInit == Init => Ledger!Init
<1> SUFFICES ASSUME Init PROVE \A b \in Buffers : HoldersOf(b) = {}
  BY DEF Ledger!Init
<1>1. \A b \in Buffers, p \in Parties : ~ Holds(b, p)
  BY EmptyFacts, BuffersAssumption, PartiesAssumption DEF Init, Holds, Agents
<1> QED  BY <1>1 DEF HoldersOf

\* A change of holders as the ledger sees it.
LEMMA LedgerChange ==
    ASSUME NEW b \in Buffers, NEW p, NEW q
    PROVE  LET h == [c \in Buffers |-> HoldersOf(c)]
           IN  /\ h[b] = HoldersOf(b)
               /\ Joins(b, p) => h' = [h EXCEPT ![b] = @ \cup {p}]
               /\ Leaves(b, p) => h' = [h EXCEPT ![b] = @ \ {p}]
               /\ Passes(b, p, q) => h' = [h EXCEPT ![b] = {q}]
               /\ SameHolders => h' = h
BY DEF Joins, Leaves, Passes, SameHolders

\* Every step is a step of the ledger, or changes no holder.
LEMMA LedgerStep == IInv /\ [Next]_vars => [Ledger!Next]_([b \in Buffers |-> HoldersOf(b)])
<1> DEFINE h == [b \in Buffers |-> HoldersOf(b)]
<1>1. CASE UNCHANGED vars
  BY <1>1 DEF vars, HoldersOf, Holds
<1>2. ASSUME IInv, Next PROVE [Ledger!Next]_h
  <2>0. Agents \subseteq Parties \ {Port} /\ Replicas \subseteq Parties \ {Port}
        /\ Callback \in Agents /\ Workers \subseteq Agents
    BY PartiesAssumption DEF Parties, Agents
  <2>1. ASSUME NEW a \in Agents, DrainGet(a) PROVE Ledger!Next
    <3>1. PICK b \in Buffers : HoldersOf(b) = {} /\ Joins(b, a)
      BY <1>2, <2>1, DrainGetHolders
    <3>2. Passes(b, a, a)
      BY <3>1 DEF Joins, Passes
    <3>3. Ledger!Take(b, a)
      BY <3>1, <3>2, LedgerChange DEF Ledger!Take
    <3> QED  BY <2>0, <3>3 DEF Ledger!Next
  <2>2. ASSUME NEW a \in Agents, DrainSend(a) PROVE Ledger!Next
    <3>1. PICK b \in Buffers : HoldersOf(b) = {a} /\ Passes(b, a, Port)
      BY <1>2, <2>2, DrainSendHolders
    <3>2. Ledger!Submit(b, a)
      BY <3>1, LedgerChange DEF Ledger!Submit
    <3> QED  BY <2>0, <3>2 DEF Ledger!Next
  <2>3. ASSUME NEW b \in Buffers, Deliver(b) PROVE Ledger!Next
    <3>1. HoldersOf(b) = {Port} /\ Passes(b, Port, Callback)
      BY <1>2, <2>3, DeliverHolders
    <3>2. Ledger!Deliver(b)
      BY <3>1, LedgerChange DEF Ledger!Deliver
    <3> QED  BY <3>2 DEF Ledger!Next
  <2>4. ASSUME NEW b \in Buffers, NEW p \in Parties \ {Port},
               Callback \in HoldersOf(b), p \notin HoldersOf(b), Joins(b, p)
        PROVE  Ledger!Next
    <3>1. Ledger!Share(b, p)
      BY <2>4, LedgerChange DEF Ledger!Share
    <3> QED  BY <3>1 DEF Ledger!Next
  <2>5. ASSUME NEW b \in Buffers, NEW p \in Parties \ {Port},
               p \in HoldersOf(b), Leaves(b, p)
        PROVE  Ledger!Next
    <3>1. Ledger!Drop(b, p)
      BY <2>5, LedgerChange DEF Ledger!Drop
    <3> QED  BY <3>1 DEF Ledger!Next
  <2>6. ASSUME NEW r \in Replicas, Replicate(r) PROVE Ledger!Next
    BY <1>2, <2>0, <2>4, <2>6, ReplicateHolders
  <2>7. CASE PutAcquire
    BY <1>2, <2>0, <2>4, <2>7, PutAcquireHolders
  <2>8. ASSUME NEW a \in Workers \cup {Callback}, ReleaseOwn(a) PROVE Ledger!Next
    BY <1>2, <2>0, <2>5, <2>8, ReleaseHolders
  <2>9. CASE SinkReturn
    BY <1>2, <2>0, <2>5, <2>9, SinkReturnHolders
  <2>10. CASE SameHolders
    BY <2>10 DEF SameHolders
  <2>11. CASE PutEnqueue
    BY <1>2, <2>10, <2>11, PutEnqueueHolders
  <2>12. ASSUME NEW w \in Workers, WorkerGet(w) PROVE [Ledger!Next]_h
    BY <1>2, <2>10, <2>12, WorkerGetHolders
  <2>13. CASE \/ \E a \in Agents : DrainDone(a)
              \/ Saved \/ SkipSink \/ SendToSink \/ PutDone
              \/ \E w \in Workers : WorkerCheck(w) \/ WorkerProcessed(w)
    BY <1>2, <2>10, <2>13, OtherHolders
  <2> QED
    BY <1>2, NextCases, <2>1, <2>2, <2>3, <2>6, <2>7, <2>8, <2>9, <2>11, <2>12, <2>13
<1> QED  BY <1>1, <1>2

\* What the fan-out does with its queues, threads and counters is what the ledger
\* promises, for every number of buffers, replicas and workers.
THEOREM Refinement == Spec => LedgerSpec
BY LedgerInit, LedgerStep, Invariance, PTL DEF Spec, LedgerSpec, Ledger!Spec
=============================================================================
