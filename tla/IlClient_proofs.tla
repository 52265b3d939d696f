--------------------------- MODULE IlClient_proofs ---------------------------
(***************************************************************************)
(* Proofs about the event records and the operations of IlClient, for      *)
(* every number of records and every bound: none is lost, the waits miss   *)
(* no event that they were started for, the list of free records does not  *)
(* run out when it has as many records as the two components can have      *)
(* different events, twice, and an operation that returns success has had  *)
(* its effect when the client ends with the first failure.                 *)
(***************************************************************************)
EXTENDS IlClient, SequenceTheorems, FiniteSetTheorems, WellFoundedInduction, TLAPS

-----------------------------------------------------------------------------
(* Lists *)

\* The members of a set of numbers are ranked from 1 to as many as there are.
LEMMA RankExists ==
    ASSUME NEW n \in Nat, NEW F \in SUBSET (1 .. n), NEW k \in 1 .. Cardinality(F)
    PROVE  \E i \in F : Cardinality(F \cap 1 .. i) = k
  <1> DEFINE m == Cardinality(F)
             rank == [i \in F |-> Cardinality(F \cap 1 .. i)]
  <1>1. IsFiniteSet(F) /\ m \in Nat
    <2>1. IsFiniteSet(1 .. n)
      BY FS_Interval
    <2>2. IsFiniteSet(F)
      BY <2>1, FS_Subset
    <2> QED
      BY <2>2, FS_CardinalityType
  <1>2. ASSUME NEW i \in F
        PROVE  /\ IsFiniteSet(F \cap 1 .. i)
               /\ rank[i] \in 1 .. m
    <2>1. IsFiniteSet(F \cap 1 .. i) /\ Cardinality(F \cap 1 .. i) \in Nat
          /\ Cardinality(F \cap 1 .. i) <= m
      BY <1>1, FS_Subset, FS_CardinalityType, F \cap 1 .. i \in SUBSET F
    <2>2. i \in F \cap 1 .. i
      OBVIOUS
    <2>3. Cardinality(F \cap 1 .. i) # 0
      BY <2>1, <2>2, FS_EmptySet
    <2> QED
      BY <2>1, <2>3, <1>1
  <1>3. ASSUME NEW i \in F, NEW j \in F, i < j
        PROVE  rank[i] # rank[j]
    <2>1. F \cap 1 .. i \in SUBSET (F \cap 1 .. j)
      BY <1>3
    <2>2. j \in F \cap 1 .. j /\ j \notin F \cap 1 .. i
      BY <1>3
    <2>3. Cardinality(F \cap 1 .. i) # Cardinality(F \cap 1 .. j)
      BY <2>1, <2>2, <1>2, FS_Subset
    <2> QED
      BY <2>3
  <1>4. rank \in Injection(F, 1 .. m)
    <2>1. rank \in [F -> 1 .. m]
      BY <1>2
    <2>2. ASSUME NEW i \in F, NEW j \in F, rank[i] = rank[j]
          PROVE  i = j
      BY <2>2, <1>3, i \in Int, j \in Int
    <2> HIDE DEF rank
    <2> QED
      BY <2>1, <2>2 DEF Injection, IsInjective
  <1>5. IsFiniteSet(1 .. m) /\ Cardinality(1 .. m) = m
    BY <1>1, FS_Interval
  <1>6. rank \in Surjection(F, 1 .. m)
    <2> HIDE DEF rank
    <2> QED
      BY <1>4, <1>5, FS_Injection
  <1>7. PICK i \in F : rank[i] = k
    <2> HIDE DEF rank
    <2> QED
      BY <1>6 DEF Surjection
  <1> QED
    BY <1>7

\* Duplicates are dropped: what is left comes from the list.
LEMMA DedupeProperties ==
    ASSUME NEW E, NEW s \in Seq(E)
    PROVE  /\ Dedupe(s) \in Seq(E)
           /\ Len(Dedupe(s)) <= Len(s)
           /\ Len(Dedupe(s)) = Cardinality(Firsts(s))
           /\ ToSet(Dedupe(s)) \subseteq ToSet(s)
  <1> DEFINE F == Firsts(s)
             m == Cardinality(F)
             nth(k) == CHOOSE i \in F : Cardinality(F \cap 1 .. i) = k
             t == [k \in 1 .. m |-> s[nth(k)]]
  <1>1. Len(s) \in Nat /\ F \in SUBSET (1 .. Len(s))
    BY LenProperties DEF Firsts
  <1>2. IsFiniteSet(F) /\ m \in Nat /\ m <= Len(s)
    <2> HIDE DEF F
    <2>1. IsFiniteSet(1 .. Len(s)) /\ Cardinality(1 .. Len(s)) = Len(s)
      BY SMTT(30), <1>1, FS_Interval
    <2>2. IsFiniteSet(F) /\ m <= Len(s)
      BY <1>1, <2>1, FS_Subset
    <2> QED
      BY <2>2, FS_CardinalityType
  <1>3. ASSUME NEW k \in 1 .. m
        PROVE  nth(k) \in 1 .. Len(s)
    <2>1. \E i \in F : Cardinality(F \cap 1 .. i) = k
      <3> HIDE DEF F
      <3> QED
        BY <1>1, RankExists
    <2> QED
      BY <2>1, <1>1
  <1>4. Dedupe(s) = t
    BY DEF Dedupe
  <1> HIDE DEF nth, F
  <1>5. t \in [1 .. m -> E]
    BY <1>3, ElementOfSeq
  <1>6. t \in Seq(E) /\ Len(t) = m
    BY <1>5, <1>2
  <1>7. ToSet(t) \subseteq ToSet(s)
    BY <1>3, <1>2, LenProperties DEF ToSet
  <1> QED
    BY <1>2, <1>4, <1>6, <1>7 DEF F

\* And no event is left twice.
LEMMA DedupeIsShort ==
    ASSUME NEW E, NEW s \in Seq(E), IsFiniteSet(E)
    PROVE  Len(Dedupe(s)) <= Cardinality(E)
  <1> DEFINE F == Firsts(s)
             f == [i \in F |-> s[i]]
  <1>1. Len(s) \in Nat /\ F \in SUBSET (1 .. Len(s))
    BY LenProperties DEF Firsts
  <1>2. f \in [F -> E]
    BY <1>1, ElementOfSeq
  <1>3. ASSUME NEW i \in F, NEW j \in F, i # j
        PROVE  f[i] # f[j]
    <2>1. i \in 1 .. Len(s) /\ j \in 1 .. Len(s)
      BY <1>1
    <2>2. CASE i < j
      BY <2>1, <2>2, i \in 1 .. j - 1 DEF Firsts
    <2>3. CASE j < i
      BY <2>1, <2>3, j \in 1 .. i - 1 DEF Firsts
    <2> QED
      BY <2>1, <2>2, <2>3, <1>3
  <1>4. f \in Injection(F, E)
    <2> HIDE DEF f, F
    <2> QED
      BY <1>2, <1>3 DEF Injection, IsInjective
  <1>5. Cardinality(F) <= Cardinality(E)
    <2> HIDE DEF f, F
    <2> QED
      BY <1>4, FS_Injection
  <1> QED
    BY <1>5, DedupeProperties

\* One element less, and no new one.
LEMMA RemoveAtProperties ==
    ASSUME NEW E, NEW s \in Seq(E), NEW i \in 1 .. Len(s)
    PROVE  /\ RemoveAt(s, i) \in Seq(E)
           /\ Len(RemoveAt(s, i)) = Len(s) - 1
           /\ ToSet(RemoveAt(s, i)) \subseteq ToSet(s)
  <1> DEFINE n == Len(s)
             R == ToSet(s)
             a == SubSeq(s, 1, i - 1)
             b == SubSeq(s, i + 1, n)
  <1>1. n \in Nat /\ s \in [1 .. n -> E] /\ DOMAIN s = 1 .. n
    BY LenProperties
  <1>2. \A j \in 1 .. n : s[j] \in R /\ s[j] \in E
    BY <1>1 DEF ToSet
  <1>3. a \in Seq(R) /\ Len(a) = i - 1 /\ a \in Seq(E)
    BY <1>1, <1>2, SubSeqProperties, i - 1 \in Int
  <1>4. b \in Seq(R) /\ Len(b) = n - i /\ b \in Seq(E)
    <2>1. i + 1 \in Int /\ n \in Int /\ \A j \in i + 1 .. n : s[j] \in R /\ s[j] \in E
      BY <1>1, <1>2
    <2>2. b \in Seq(R) /\ b \in Seq(E) /\ Len(b) = IF i + 1 <= n THEN n - (i + 1) + 1 ELSE 0
      BY <2>1, SubSeqProperties
    <2>3. i \in 1 .. n
      OBVIOUS
    <2> HIDE DEF b, n
    <2>4. CASE i = n
      BY <1>1, <2>2, <2>4
    <2>5. CASE i # n
      BY <1>1, <2>2, <2>3, <2>5
    <2> QED
      BY <2>4, <2>5
  <1> HIDE DEF a, b
  <1>5. a \o b \in Seq(R) /\ Len(a \o b) = Len(a) + Len(b) /\ a \o b \in Seq(E)
    BY <1>3, <1>4, ConcatProperties
  <1>6. ToSet(a \o b) \subseteq R
    BY <1>5, LenProperties, ElementOfSeq DEF ToSet
  <1>7. RemoveAt(s, i) = a \o b
    BY DEF RemoveAt, a, b
  <1>8. Len(a \o b) = n - 1
    <2> i \in 1 .. n
      OBVIOUS
    <2> HIDE DEF n
    <2> QED
      BY <1>1, <1>3, <1>4, <1>5
  <1> QED
    BY <1>5, <1>6, <1>7, <1>8
-----------------------------------------------------------------------------
(* Commands, events and flags *)

Commands == {<<"StateSet", t>> : t \in States}
            \cup {<<"PortDisable", "port">>, <<"PortEnable", "port">>, <<"Flush", "port">>}

Events == {Complete(k[1], k[2]) : k \in Commands}
          \cup {Event("Error", "SameState", "1"), Event("Error", "InsufficientResources", "1"),
                Event("Error", "PortUnpopulated", "0"), Event("Error", "PortUnpopulated", "1"),
                Event("Error", "StreamCorrupt", "0"),
                Settings, Event("ParamOrConfigChanged", "port", "")}

Flags == {"STATE_CHANGED", "PORT_DISABLED", "PORT_ENABLED", "PORT_FLUSH", "EVENT_ERROR",
          "PARAMETER_CHANGED", "CONFIG_CHANGED"}

\* How many different events there are.
EventKinds == 13

-----------------------------------------------------------------------------
(* Programs.  A program is a sequence of steps; a step is plain, or branches *)
(* into programs.  A set of steps is closed when their branches are made of  *)
(* steps of the set.                                                         *)

\* A wait for an event is told of all flags that announce it.
Announced(x) == \A ev \in Events : ev.e = x.e /\ ev.d1 = x.d1 => FlagFor(ev) \in x.awaited

Plain == {Send(c, k[1], k[2]) : c \in Comps, k \in Commands}
         \cup {WaitDual(c, k[1], k[2], d) : c \in Comps, k \in Commands, d \in Comps \cup {NoComp}}
         \cup {x \in {WaitEvent(c, e, d1, w, timed) :
                         c \in Comps, e \in {"CmdComplete", "PortSettingsChanged"},
                         d1 \in {"PortEnable", "Flush", "port"}, w \in SUBSET Flags,
                         timed \in BOOLEAN} : Announced(x)}
         \cup {ReturnEvents(c) : c \in Comps} \cup {RemoveError(c) : c \in Comps}
         \cup {ClearError(c) : c \in Comps} \cup {Mask(c, on) : c \in Comps, on \in BOOLEAN}
         \cup {Connect} \cup {Disconnect(c) : c \in Comps} \cup {Result(v) : v \in Int}
         \cup {VcAssert(w) : w \in {"disable", "enable", "state"}}

Branches(x, S) ==
    \/ \E v \in SUBSET Int, p, q \in Seq(S) : x = If(v, p, q)
    \/ \E c \in Comps, p, q \in Seq(S) : x = IfLoaded(c, p, q)
    \/ \E P \in SUBSET Seq(S) : x = Choose(P)

Closed(S) == \A x \in S : x \in Plain \/ Branches(x, S)

IsStep(x) == \E S : Closed(S) /\ x \in S

IsProgram(p) == \E S : p \in Seq(S) /\ \A x \in S : IsStep(x)

\* More steps, more branches.
LEMMA BranchesGrow ==
    ASSUME NEW S, NEW T, S \subseteq T, NEW x, Branches(x, S)
    PROVE  Branches(x, T)
  <1>1. Seq(S) \subseteq Seq(T)
    BY SeqMonotonic
  <1> QED
    BY <1>1 DEF Branches

\* Steps that are steps each on its own are steps of one closed set.
LEMMA StepsTogether ==
    ASSUME NEW S, \A x \in S : IsStep(x)
    PROVE  \E T : Closed(T) /\ S \subseteq T
  <1> DEFINE F(x) == CHOOSE T : Closed(T) /\ x \in T
             U == UNION {F(x) : x \in S}
  <1>1. \A x \in S : Closed(F(x)) /\ x \in F(x)
    BY DEF IsStep
  <1> HIDE DEF F
  <1>2. S \subseteq U
    BY <1>1
  <1>3. Closed(U)
    <2> SUFFICES ASSUME NEW y \in U
                 PROVE  y \in Plain \/ Branches(y, U)
      BY DEF Closed
    <2>1. PICK x \in S : y \in F(x)
      OBVIOUS
    <2>2. y \in Plain \/ Branches(y, F(x))
      BY <2>1, <1>1 DEF Closed
    <2>3. F(x) \subseteq U
      OBVIOUS
    <2> QED
      BY <2>2, <2>3, BranchesGrow
  <1> QED
    BY <1>2, <1>3

\* Steps that branch into programs.
LEMMA BranchIsStep ==
    ASSUME NEW S, \A x \in S : IsStep(x), NEW y, y \in Plain \/ Branches(y, S)
    PROVE  IsStep(y)
  <1>1. PICK T : Closed(T) /\ S \subseteq T
    BY StepsTogether
  <1> DEFINE U == T \cup {y}
  <1>2. \A x \in U : x \in Plain \/ Branches(x, T)
    BY <1>1, BranchesGrow DEF Closed
  <1>3. Closed(U)
    BY <1>2, BranchesGrow, T \subseteq U DEF Closed
  <1> QED
    BY <1>3 DEF IsStep

\* A step without branches.
LEMMA PlainIsStep ==
    ASSUME NEW x \in Plain
    PROVE  IsStep(x)
  <1>1. Closed({x})
    BY DEF Closed
  <1> QED
    BY <1>1 DEF IsStep

\* The programs p and q are made of the steps of one set.
LEMMA TwoPrograms ==
    ASSUME NEW p, IsProgram(p), NEW q, IsProgram(q)
    PROVE  \E S : p \in Seq(S) /\ q \in Seq(S) /\ \A x \in S : IsStep(x)
  <1>1. PICK S : p \in Seq(S) /\ \A x \in S : IsStep(x)
    BY DEF IsProgram
  <1>2. PICK T : q \in Seq(T) /\ \A x \in T : IsStep(x)
    BY DEF IsProgram
  <1>3. p \in Seq(S \cup T) /\ q \in Seq(S \cup T)
    BY <1>1, <1>2, SeqMonotonic
  <1> QED
    BY <1>1, <1>2, <1>3

\* One program after the other is a program.
LEMMA ConcatIsProgram ==
    ASSUME NEW p, IsProgram(p), NEW q, IsProgram(q)
    PROVE  IsProgram(p \o q)
  BY TwoPrograms, ConcatProperties DEF IsProgram

\* A branch on the last result is a step if what it branches to is a program.
LEMMA IfIsStep ==
    ASSUME NEW p, IsProgram(p), NEW q, IsProgram(q), NEW v \in SUBSET Int
    PROVE  IsStep(If(v, p, q))
  <1>1. PICK S : p \in Seq(S) /\ q \in Seq(S) /\ \A x \in S : IsStep(x)
    BY TwoPrograms
  <1>2. Branches(If(v, p, q), S)
    BY <1>1 DEF Branches
  <1> QED
    BY <1>1, <1>2, BranchIsStep

\* So is a branch on the state of a component.
LEMMA IfLoadedIsStep ==
    ASSUME NEW p, IsProgram(p), NEW q, IsProgram(q), NEW c \in Comps
    PROVE  IsStep(IfLoaded(c, p, q))
  <1>1. PICK S : p \in Seq(S) /\ q \in Seq(S) /\ \A x \in S : IsStep(x)
    BY TwoPrograms
  <1>2. Branches(IfLoaded(c, p, q), S)
    BY <1>1 DEF Branches
  <1> QED
    BY <1>1, <1>2, BranchIsStep

\* So is a choice among programs.
LEMMA ChooseIsStep ==
    ASSUME NEW P, \A p \in P : IsProgram(p)
    PROVE  IsStep(Choose(P))
  <1> DEFINE F(p) == CHOOSE S : p \in Seq(S) /\ \A x \in S : IsStep(x)
             U == UNION {F(p) : p \in P}
  <1>1. \A p \in P : p \in Seq(F(p)) /\ \A x \in F(p) : IsStep(x)
    BY DEF IsProgram
  <1> HIDE DEF F
  <1>2. \A x \in U : IsStep(x)
    BY <1>1
  <1>3. ASSUME NEW p \in P
        PROVE  p \in Seq(U)
    BY <1>1, SeqMonotonic, F(p) \subseteq U
  <1>4. Branches(Choose(P), U)
    BY <1>3, P \in SUBSET Seq(U) DEF Branches
  <1> QED
    BY <1>2, <1>4, BranchIsStep

\* Programs that are written step by step.
LEMMA ShortPrograms ==
    /\ IsProgram(<<>>)
    /\ \A x : IsStep(x) => IsProgram(<<x>>)
    /\ \A x, y : IsStep(x) /\ IsStep(y) => IsProgram(<<x, y>>)
    /\ \A x, y, z : IsStep(x) /\ IsStep(y) /\ IsStep(z) => IsProgram(<<x, y, z>>)
    /\ \A x, y, z, u : IsStep(x) /\ IsStep(y) /\ IsStep(z) /\ IsStep(u)
                          => IsProgram(<<x, y, z, u>>)
  <1>1. IsProgram(<<>>)
    BY EmptySeq DEF IsProgram
  <1>2. ASSUME NEW x, IsStep(x)
        PROVE  IsProgram(<<x>>)
    <2> DEFINE S == {x}
    <2>1. x \in S
      OBVIOUS
    <2>2. \A w \in S : IsStep(w)
      BY <1>2
    <2> HIDE DEF S
    <2>3. <<x>> \in Seq(S)
      BY <2>1
    <2> QED
      BY <2>2, <2>3 DEF IsProgram
  <1>3. ASSUME NEW x, NEW y, IsStep(x), IsStep(y)
        PROVE  IsProgram(<<x, y>>)
    <2> DEFINE S == {x, y}
    <2>1. x \in S /\ y \in S
      OBVIOUS
    <2>2. \A w \in S : IsStep(w)
      BY <1>3
    <2> HIDE DEF S
    <2>3. <<x, y>> \in Seq(S)
      BY <2>1
    <2> QED
      BY <2>2, <2>3 DEF IsProgram
  <1>4. ASSUME NEW x, NEW y, NEW z, IsStep(x), IsStep(y), IsStep(z)
        PROVE  IsProgram(<<x, y, z>>)
    <2> DEFINE S == {x, y, z}
    <2>1. x \in S /\ y \in S /\ z \in S
      OBVIOUS
    <2>2. \A w \in S : IsStep(w)
      BY <1>4
    <2> HIDE DEF S
    <2>3. <<x, y, z>> \in Seq(S)
      BY <2>1
    <2> QED
      BY <2>2, <2>3 DEF IsProgram
  <1>5. ASSUME NEW x, NEW y, NEW z, NEW u, IsStep(x), IsStep(y), IsStep(z), IsStep(u)
        PROVE  IsProgram(<<x, y, z, u>>)
    <2> DEFINE S == {x, y, z, u}
    <2>1. x \in S /\ y \in S /\ z \in S /\ u \in S
      OBVIOUS
    <2>2. \A w \in S : IsStep(w)
      BY <1>5
    <2> HIDE DEF S
    <2>3. <<x, y, z, u>> \in Seq(S)
      BY <2>1
    <2> QED
      BY <2>2, <2>3 DEF IsProgram
  <1> QED
    BY <1>1, <1>2, <1>3, <1>4, <1>5

\* The first step of a program, and what is left after it.
LEMMA HeadOfProgram ==
    ASSUME NEW p, IsProgram(p), p # <<>>
    PROVE  IsStep(Head(p)) /\ IsProgram(Tail(p))
  BY HeadTailProperties DEF IsProgram

\* The branches of a step are programs.
LEMMA BranchesArePrograms ==
    ASSUME NEW x, IsStep(x)
    PROVE  \/ x \in Plain
           \/ \E v \in SUBSET Int : \E p, q : IsProgram(p) /\ IsProgram(q) /\ x = If(v, p, q)
           \/ \E c \in Comps : \E p, q : IsProgram(p) /\ IsProgram(q) /\ x = IfLoaded(c, p, q)
           \/ \E P : (\A p \in P : IsProgram(p)) /\ x = Choose(P)
  <1>1. PICK S : Closed(S) /\ x \in S
    BY DEF IsStep
  <1>2. \A y \in S : IsStep(y)
    BY <1>1 DEF IsStep
  <1>3. \A p \in Seq(S) : IsProgram(p)
    BY <1>2 DEF IsProgram
  <1> QED
    BY <1>1, <1>3 DEF Closed, Branches
-----------------------------------------------------------------------------
(* The functions of the library are programs *)

\* The steps that send a command or wait for its end.
LEMMA CommandSteps ==
    /\ \A c \in Comps, t \in States, d \in Comps \cup {NoComp} :
          IsStep(Send(c, "StateSet", t)) /\ IsStep(WaitDual(c, "StateSet", t, d))
    /\ \A c \in Comps, cmd \in {"PortDisable", "PortEnable", "Flush"}, d \in Comps \cup {NoComp} :
          IsStep(Send(c, cmd, "port")) /\ IsStep(WaitDual(c, cmd, "port", d))
  <1>1. ASSUME NEW c \in Comps, NEW k \in Commands, NEW d \in Comps \cup {NoComp}
        PROVE  IsStep(Send(c, k[1], k[2])) /\ IsStep(WaitDual(c, k[1], k[2], d))
    <2>1. Send(c, k[1], k[2]) \in Plain
      BY DEF Plain
    <2>2. WaitDual(c, k[1], k[2], d) \in Plain
      BY DEF Plain
    <2> QED
      BY <2>1, <2>2, PlainIsStep
  <1>2. ASSUME NEW c \in Comps, NEW t \in States, NEW d \in Comps \cup {NoComp}
        PROVE  IsStep(Send(c, "StateSet", t)) /\ IsStep(WaitDual(c, "StateSet", t, d))
    <2> DEFINE k == <<"StateSet", t>>
    <2>1. k \in Commands /\ k[1] = "StateSet" /\ k[2] = t
      BY DEF Commands
    <2> HIDE DEF k
    <2> QED
      BY <1>1, <2>1
  <1>3. ASSUME NEW c \in Comps, NEW cmd \in {"PortDisable", "PortEnable", "Flush"},
               NEW d \in Comps \cup {NoComp}
        PROVE  IsStep(Send(c, cmd, "port")) /\ IsStep(WaitDual(c, cmd, "port", d))
    <2> DEFINE k == <<cmd, "port">>
    <2>1. k \in Commands /\ k[1] = cmd /\ k[2] = "port"
      BY DEF Commands
    <2> HIDE DEF k
    <2> QED
      BY <1>1, <2>1
  <1> QED
    BY <1>2, <1>3

\* The other plain steps of the library.
LEMMA OtherSteps ==
    /\ \A c \in Comps : /\ IsStep(ReturnEvents(c)) /\ IsStep(RemoveError(c))
                        /\ IsStep(ClearError(c)) /\ IsStep(Disconnect(c))
                        /\ \A on \in BOOLEAN : IsStep(Mask(c, on))
    /\ IsStep(Connect)
    /\ \A v \in Int : IsStep(Result(v))
    /\ \A w \in {"disable", "enable", "state"} : IsStep(VcAssert(w))
  <1>1. \A c \in Comps : /\ ReturnEvents(c) \in Plain /\ RemoveError(c) \in Plain
                         /\ ClearError(c) \in Plain /\ Disconnect(c) \in Plain
                         /\ \A on \in BOOLEAN : Mask(c, on) \in Plain
    BY DEF Plain
  <1>2. /\ Connect \in Plain
        /\ \A v \in Int : Result(v) \in Plain
        /\ \A w \in {"disable", "enable", "state"} : VcAssert(w) \in Plain
    BY DEF Plain
  <1> QED
    BY <1>1, <1>2, PlainIsStep

\* The flags of the events.
LEMMA FlagsOfEvents ==
    \A ev \in Events :
        /\ FlagFor(ev) \in Flags
        /\ ev.e = "Error" => FlagFor(ev) = "EVENT_ERROR"
        /\ ev.e = "PortSettingsChanged" => FlagFor(ev) = "PARAMETER_CHANGED"
        /\ ev.e = "ParamOrConfigChanged" => FlagFor(ev) = "CONFIG_CHANGED"
        /\ ev.e = "CmdComplete" => /\ ev.d1 \in DOMAIN FlagOf
                                   /\ FlagFor(ev) = FlagOf[ev.d1]
  <1>1. \A k \in Commands : k[1] \in {"StateSet", "PortDisable", "PortEnable", "Flush"}
    BY DEF Commands
  <1>2. ASSUME NEW k \in Commands, NEW ev, ev = Complete(k[1], k[2])
        PROVE  /\ ev.e = "CmdComplete" /\ ev.d1 \in DOMAIN FlagOf
               /\ FlagFor(ev) = FlagOf[ev.d1] /\ FlagFor(ev) \in Flags
    BY <1>1, <1>2 DEF Complete, Event, FlagFor, FlagOf, Flags
  <1>3. ASSUME NEW ev \in Events, \A k \in Commands : ev # Complete(k[1], k[2])
        PROVE  /\ FlagFor(ev) \in Flags
               /\ ev.e = "Error" => FlagFor(ev) = "EVENT_ERROR"
               /\ ev.e = "PortSettingsChanged" => FlagFor(ev) = "PARAMETER_CHANGED"
               /\ ev.e = "ParamOrConfigChanged" => FlagFor(ev) = "CONFIG_CHANGED"
               /\ ev.e # "CmdComplete"
    <2>1. \E e \in {"Error", "PortSettingsChanged", "ParamOrConfigChanged"} :
             \E d1, d2 : ev = Event(e, d1, d2)
      BY <1>3 DEF Events, Settings
    <2>2. ev.e \in {"Error", "PortSettingsChanged", "ParamOrConfigChanged"}
      BY <2>1 DEF Event
    <2>3. CASE ev.e = "Error"
      BY <2>3 DEF FlagFor, Flags
    <2>4. CASE ev.e = "PortSettingsChanged"
      BY <2>4 DEF FlagFor, Flags
    <2>5. CASE ev.e = "ParamOrConfigChanged"
      BY <2>5 DEF FlagFor, Flags
    <2> QED
      BY <2>2, <2>3, <2>4, <2>5
  <1> QED
    BY <1>2, <1>3

\* The waits for an event.
LEMMA EventSteps ==
    ASSUME NEW c \in Comps, NEW timed \in BOOLEAN
    PROVE  /\ IsStep(WaitEvent(c, "CmdComplete", "PortEnable",
                               {"PORT_ENABLED", "EVENT_ERROR"}, timed))
           /\ IsStep(WaitEvent(c, "CmdComplete", "Flush", {"PORT_FLUSH"}, timed))
           /\ IsStep(WaitEvent(c, "PortSettingsChanged", "port",
                               {"PARAMETER_CHANGED", "EVENT_ERROR"}, timed))
           /\ IsStep(WaitEvent(c, "PortSettingsChanged", "port",
                               {"PARAMETER_CHANGED", "CONFIG_CHANGED", "EVENT_ERROR"}, timed))
  <1> DEFINE Told(e, d1, w) == \A ev \in Events : ev.e = e /\ ev.d1 = d1 => FlagFor(ev) \in w
  <1>1. ASSUME NEW e \in {"CmdComplete", "PortSettingsChanged"},
               NEW d1 \in {"PortEnable", "Flush", "port"}, NEW w \in SUBSET Flags, Told(e, d1, w)
        PROVE  IsStep(WaitEvent(c, e, d1, w, timed))
    <2> DEFINE x == WaitEvent(c, e, d1, w, timed)
    <2>1. x.e = e /\ x.d1 = d1 /\ x.awaited = w
      BY DEF WaitEvent
    <2>2. x \in {WaitEvent(cc, ee, dd, ww, tt) :
                    cc \in Comps, ee \in {"CmdComplete", "PortSettingsChanged"},
                    dd \in {"PortEnable", "Flush", "port"}, ww \in SUBSET Flags, tt \in BOOLEAN}
      OBVIOUS
    <2> HIDE DEF x
    <2>3. x \in Plain
      BY <1>1, <2>1, <2>2 DEF Plain, Announced
    <2> QED
      BY <2>3, PlainIsStep DEF x
  <1>2. FlagOf["PortEnable"] = "PORT_ENABLED" /\ FlagOf["Flush"] = "PORT_FLUSH"
    BY DEF FlagOf
  <1>3. {"PORT_ENABLED", "EVENT_ERROR"} \in SUBSET Flags
        /\ {"PORT_FLUSH"} \in SUBSET Flags
        /\ {"PARAMETER_CHANGED", "EVENT_ERROR"} \in SUBSET Flags
        /\ {"PARAMETER_CHANGED", "CONFIG_CHANGED", "EVENT_ERROR"} \in SUBSET Flags
    BY DEF Flags
  <1>4. IsStep(WaitEvent(c, "CmdComplete", "PortEnable", {"PORT_ENABLED", "EVENT_ERROR"}, timed))
    <2>1. Told("CmdComplete", "PortEnable", {"PORT_ENABLED", "EVENT_ERROR"})
      BY <1>2, FlagsOfEvents
    <2> HIDE DEF Told
    <2> QED
      BY <1>1, <1>3, <2>1
  <1>5. IsStep(WaitEvent(c, "CmdComplete", "Flush", {"PORT_FLUSH"}, timed))
    <2>1. Told("CmdComplete", "Flush", {"PORT_FLUSH"})
      BY <1>2, FlagsOfEvents
    <2> HIDE DEF Told
    <2> QED
      BY <1>1, <1>3, <2>1
  <1>6. ASSUME NEW w \in SUBSET Flags, "PARAMETER_CHANGED" \in w
        PROVE  IsStep(WaitEvent(c, "PortSettingsChanged", "port", w, timed))
    <2>1. Told("PortSettingsChanged", "port", w)
      BY <1>6, FlagsOfEvents
    <2> HIDE DEF Told
    <2> QED
      BY <1>1, <1>6, <2>1
  <1> QED
    BY <1>3, <1>4, <1>5, <1>6

\* ilclient_change_component_state, and a port that is disabled or enabled.
LEMMA PortPrograms ==
    ASSUME NEW c \in Comps
    PROVE  /\ \A t \in States : IsProgram(ChangeState(c, t))
           /\ IsProgram(DisablePort(c))
           /\ IsProgram(EnablePort(c))
           /\ \A w \in {"disable", "enable", "state"} : IsStep(Check(w))
  <1>1. ASSUME NEW w \in {"disable", "enable", "state"}
        PROVE  IsStep(Check(w))
    BY ShortPrograms, OtherSteps, IfIsStep DEF Check
  <1>2. ASSUME NEW t \in States
        PROVE  IsProgram(ChangeState(c, t))
    <2>1. IsProgram(<<RemoveError(c), Result(-1)>>)
      BY ShortPrograms, OtherSteps
    <2>2. IsStep(If({0}, <<>>, <<RemoveError(c), Result(-1)>>))
      BY <2>1, ShortPrograms, IfIsStep
    <2> QED
      BY <2>2, ShortPrograms, CommandSteps DEF ChangeState, Wait
  <1>3. IsProgram(DisablePort(c)) /\ IsProgram(EnablePort(c))
    BY <1>1, ShortPrograms, CommandSteps DEF DisablePort, EnablePort, Wait
  <1> QED
    BY <1>1, <1>2, <1>3

\* ilclient_disable_tunnel, which is one list of steps.
LEMMA DisableTunnelIsProgram == IsProgram(DisableTunnel)
  <1> DEFINE m1 == Mask(Source, TRUE)
             m2 == Mask(Sink, TRUE)
             s1 == Send(Source, "PortDisable", "port")
             s2 == Send(Sink, "PortDisable", "port")
             w1 == Wait(Source, "PortDisable", "port")
             w2 == Wait(Sink, "PortDisable", "port")
             k == Check("disable")
             u1 == Mask(Source, FALSE)
             u2 == Mask(Sink, FALSE)
             S == {m1, m2, s1, s2, w1, w2, k, u1, u2}
  <1>1. Source \in Comps /\ Sink \in Comps
    BY DEF Comps
  <1>2. /\ IsStep(m1) /\ IsStep(m2) /\ IsStep(s1) /\ IsStep(s2) /\ IsStep(w1)
        /\ IsStep(w2) /\ IsStep(k) /\ IsStep(u1) /\ IsStep(u2)
    BY <1>1, CommandSteps, OtherSteps, PortPrograms DEF Wait
  <1>3. DisableTunnel = <<m1, m2, s1, s2, w1, k, w2, k, u1, u2>>
    BY DEF DisableTunnel
  <1> HIDE DEF m1, m2, s1, s2, w1, w2, k, u1, u2
  <1>4. \A x \in S : IsStep(x)
    BY <1>2
  <1>5. /\ m1 \in S /\ m2 \in S /\ s1 \in S /\ s2 \in S /\ w1 \in S
        /\ w2 \in S /\ k \in S /\ u1 \in S /\ u2 \in S
    OBVIOUS
  <1> HIDE DEF S
  <1>6. <<m1, m2, s1, s2, w1, k, w2, k, u1, u2>> \in Seq(S)
    BY <1>5
  <1> QED
    BY <1>3, <1>4, <1>6 DEF IsProgram

\* ilclient_enable_tunnel
LEMMA EnableTunnelIsProgram == IsProgram(EnableTunnel)
  <1> DEFINE fail == DisablePort(Source) \o <<Result(-1)>>
             finish == <<Wait(Source, "PortEnable", "port"),
                         If({0}, <<Result(0)>>, DisablePort(Sink) \o <<Result(-1)>>)>>
             forget == <<Wait(Source, "PortEnable", "port")>> \o DisablePort(Sink)
             undo == <<If({-2}, forget, <<>>)>> \o fail
             toIdle == <<Send(Sink, "StateSet", "Idle"),
                         WaitDual(Sink, "StateSet", "Idle", Source), If({0}, finish, undo)>>
             cleanUp == <<WaitEvent(Source, "CmdComplete", "PortEnable",
                                    {"PORT_ENABLED", "EVENT_ERROR"}, FALSE), Result(-1)>>
             loaded == <<Wait(Sink, "PortEnable", "port"), If({0}, toIdle, fail)>>
             ready == <<Wait(Sink, "PortEnable", "port"),
                        If({0}, finish, DisablePort(Source) \o cleanUp)>>
  <1>1. Source \in Comps /\ Sink \in Comps
    BY DEF Comps
  <1>2. IsProgram(DisablePort(Source)) /\ IsProgram(DisablePort(Sink))
    BY <1>1, PortPrograms
  <1>3. IsProgram(<<Result(-1)>>) /\ IsProgram(<<Result(0)>>) /\ IsProgram(<<>>)
    BY OtherSteps, ShortPrograms
  <1>4. \A c \in Comps : /\ IsStep(Wait(c, "PortEnable", "port"))
                         /\ IsStep(Send(c, "PortEnable", "port"))
    BY CommandSteps DEF Wait
  <1>5. IsProgram(fail)
    BY <1>2, <1>3, ConcatIsProgram
  <1>6. IsProgram(finish)
    <2>1. IsStep(If({0}, <<Result(0)>>, DisablePort(Sink) \o <<Result(-1)>>))
      BY <1>2, <1>3, ConcatIsProgram, IfIsStep
    <2> QED
      BY <1>1, <1>4, <2>1, ShortPrograms
  <1>7. IsProgram(undo)
    <2>1. IsProgram(<<Wait(Source, "PortEnable", "port")>>)
      BY <1>1, <1>4, ShortPrograms
    <2>2. IsProgram(forget)
      BY <1>2, <2>1, ConcatIsProgram
    <2>3. IsProgram(<<If({-2}, forget, <<>>)>>)
      BY <2>2, <1>3, IfIsStep, ShortPrograms, {-2} \in SUBSET Int
    <2> QED
      BY <2>3, <1>5, ConcatIsProgram
  <1>8. IsProgram(cleanUp)
    <2>1. IsStep(WaitEvent(Source, "CmdComplete", "PortEnable",
                           {"PORT_ENABLED", "EVENT_ERROR"}, FALSE))
      BY <1>1, EventSteps
    <2>2. IsStep(Result(-1))
      BY OtherSteps
    <2> QED
      BY <2>1, <2>2, ShortPrograms
  <1> HIDE DEF fail, finish, undo, cleanUp
  <1>9. IsProgram(toIdle)
    <2>1. IsStep(If({0}, finish, undo))
      BY <1>6, <1>7, IfIsStep
    <2>2. "Idle" \in States
      BY DEF States, Next2
    <2> QED
      BY <1>1, <2>1, <2>2, CommandSteps, ShortPrograms
  <1> HIDE DEF toIdle
  <1>10. IsProgram(loaded)
    <2>1. IsStep(If({0}, toIdle, fail))
      BY <1>9, <1>5, IfIsStep
    <2> QED
      BY <1>1, <1>4, <2>1, ShortPrograms
  <1>11. IsProgram(ready)
    <2>1. IsProgram(DisablePort(Source) \o cleanUp)
      BY <1>2, <1>8, ConcatIsProgram
    <2>2. IsStep(If({0}, finish, DisablePort(Source) \o cleanUp))
      BY <2>1, <1>6, IfIsStep
    <2> QED
      BY <1>1, <1>4, <2>2, ShortPrograms
  <1>12. EnableTunnel = <<Send(Source, "PortEnable", "port"), Send(Sink, "PortEnable", "port"),
                          IfLoaded(Sink, loaded, ready)>>
    BY DEF EnableTunnel, fail, finish, undo, cleanUp, toIdle
  <1> HIDE DEF loaded, ready
  <1>13. IsStep(IfLoaded(Sink, loaded, ready))
    BY <1>1, <1>10, <1>11, IfLoadedIsStep
  <1> QED
    BY <1>1, <1>4, <1>12, <1>13, ShortPrograms

\* ilclient_flush_tunnels, ilclient_teardown_tunnels, ilclient_return_events and the wait of
\* the client's own.
LEMMA SmallPrograms ==
    /\ IsProgram(FlushTunnels)
    /\ IsProgram(TeardownTunnels)
    /\ \A c \in Comps : IsProgram(<<ReturnEvents(c)>>)
    /\ IsProgram(<<WaitEvent(Source, "PortSettingsChanged", "port",
                             {"PARAMETER_CHANGED", "CONFIG_CHANGED", "EVENT_ERROR"}, TRUE)>>)
  <1>1. Source \in Comps /\ Sink \in Comps
    BY DEF Comps
  <1>2. IsProgram(FlushTunnels)
    BY <1>1, CommandSteps, EventSteps, ShortPrograms DEF FlushTunnels
  <1>3. IsProgram(TeardownTunnels)
    BY <1>1, OtherSteps, ShortPrograms DEF TeardownTunnels
  <1> QED
    BY <1>1, <1>2, <1>3, OtherSteps, EventSteps, ShortPrograms

\* ilclient_setup_tunnel
LEMMA SetupTunnelIsProgram ==
    ASSUME NEW timed \in BOOLEAN
    PROVE  IsProgram(SetupTunnel(timed))
  <1> DEFINE failed == <<Disconnect(Source), Disconnect(Sink)>>
             forget == <<RemoveError(Sink), RemoveError(Source)>>
             ended == If({0}, <<Result(0)>>, failed \o forget \o <<Result(-5)>>)
             enable == EnableTunnel \o <<ended>>
             connect == <<Connect, If({0}, enable, failed \o <<Result(-5)>>)>>
             streams == Choose({connect, <<Result(-3)>>, <<Result(-4)>>})
             direct == DisableTunnel \o <<streams>>
             first == WaitEvent(Source, "PortSettingsChanged", "port",
                                {"PARAMETER_CHANGED", "EVENT_ERROR"}, TRUE)
             settings == IF timed THEN <<first, If({0}, direct, <<>>)>> ELSE direct
             idle == ChangeState(Source, "Idle") \o <<If({0}, settings, <<Result(-2)>>)>>
  <1>1. Source \in Comps /\ Sink \in Comps
    BY DEF Comps
  <1>2. /\ \A v \in {0, -2, -3, -4, -5} : IsProgram(<<Result(v)>>)
        /\ IsProgram(<<>>)
    BY OtherSteps, ShortPrograms
  <1>3. IsProgram(failed) /\ IsProgram(forget)
    BY <1>1, OtherSteps, ShortPrograms
  <1> HIDE DEF failed, forget
  <1>4. IsStep(ended)
    <2>1. IsProgram(failed \o forget)
      BY <1>3, ConcatIsProgram
    <2>2. IsProgram(failed \o forget \o <<Result(-5)>>)
      BY <2>1, <1>2, ConcatIsProgram
    <2> QED
      BY <2>2, <1>2, IfIsStep
  <1> HIDE DEF ended
  <1>5. IsProgram(enable)
    BY <1>4, ShortPrograms, EnableTunnelIsProgram, ConcatIsProgram
  <1> HIDE DEF enable
  <1>6. IsProgram(connect)
    <2>1. IsProgram(failed \o <<Result(-5)>>)
      BY <1>2, <1>3, ConcatIsProgram
    <2>2. IsStep(If({0}, enable, failed \o <<Result(-5)>>))
      BY <2>1, <1>5, IfIsStep
    <2>3. IsStep(Connect)
      BY OtherSteps
    <2> QED
      BY <2>2, <2>3, ShortPrograms
  <1> HIDE DEF connect
  <1>7. IsStep(streams)
    <2>1. \A p \in {connect, <<Result(-3)>>, <<Result(-4)>>} : IsProgram(p)
      BY <1>2, <1>6
    <2> QED
      BY <2>1, ChooseIsStep
  <1> HIDE DEF streams
  <1>8. IsProgram(direct)
    BY <1>7, ShortPrograms, DisableTunnelIsProgram, ConcatIsProgram
  <1> HIDE DEF direct
  <1>9. IsStep(first)
    BY <1>1, EventSteps
  <1> HIDE DEF first
  <1>10. IsProgram(settings)
    <2>1. IsStep(If({0}, direct, <<>>))
      BY <1>2, <1>8, IfIsStep
    <2>2. IsProgram(<<first, If({0}, direct, <<>>)>>)
      BY <2>1, <1>9, ShortPrograms
    <2> QED
      BY <2>2, <1>8
  <1>11. SetupTunnel(timed) = <<IfLoaded(Source, idle, settings)>>
    BY DEF SetupTunnel, failed, forget, ended, enable, connect, streams, direct, first
  <1> HIDE DEF settings
  <1>12. IsProgram(idle)
    <2>1. IsStep(If({0}, settings, <<Result(-2)>>))
      BY <1>2, <1>10, IfIsStep
    <2>2. IsProgram(<<If({0}, settings, <<Result(-2)>>)>>)
      BY <2>1, ShortPrograms
    <2>3. IsProgram(ChangeState(Source, "Idle"))
      BY <1>1, PortPrograms DEF States, Next2
    <2> QED
      BY <2>2, <2>3, ConcatIsProgram
  <1> HIDE DEF idle
  <1>13. IsStep(IfLoaded(Source, idle, settings))
    BY <1>1, <1>10, <1>12, IfLoadedIsStep
  <1> QED
    BY <1>11, <1>13, ShortPrograms

\* ilclient_state_transition
LEMMA StateTransitionIsProgram ==
    ASSUME NEW t \in States
    PROVE  IsProgram(StateTransition(t))
  <1> DEFINE masks(on) == IF t = "Loaded" THEN <<Mask(Source, on), Mask(Sink, on)>> ELSE <<>>
             tell(c) == <<ClearError(c), Send(c, "StateSet", t)>>
             tells == Choose({tell(Source) \o tell(Sink), tell(Sink) \o tell(Source)})
             waits == <<Wait(Source, "StateSet", t), Check("state"),
                        Wait(Sink, "StateSet", t), Check("state")>>
  <1>1. Source \in Comps /\ Sink \in Comps
    BY DEF Comps
  <1>2. IsProgram(masks(TRUE)) /\ IsProgram(masks(FALSE))
    BY <1>1, OtherSteps, ShortPrograms
  <1>3. \A c \in Comps : IsProgram(tell(c))
    BY OtherSteps, CommandSteps, ShortPrograms
  <1>4. IsProgram(waits)
    BY <1>1, CommandSteps, PortPrograms, ShortPrograms DEF Wait
  <1>5. StateTransition(t) = ((masks(TRUE) \o <<tells>>) \o waits) \o masks(FALSE)
    BY DEF StateTransition
  <1> HIDE DEF masks, tell, waits
  <1>6. IsProgram(<<tells>>)
    <2>1. \A p \in {tell(Source) \o tell(Sink), tell(Sink) \o tell(Source)} : IsProgram(p)
      BY <1>1, <1>3, ConcatIsProgram
    <2>2. IsStep(tells)
      BY <2>1, ChooseIsStep
    <2> QED
      BY <2>2, ShortPrograms
  <1> HIDE DEF tells
  <1>7. IsProgram(masks(TRUE) \o <<tells>>)
    BY <1>2, <1>6, ConcatIsProgram
  <1>8. IsProgram((masks(TRUE) \o <<tells>>) \o waits)
    BY <1>7, <1>4, ConcatIsProgram
  <1> QED
    BY <1>2, <1>5, <1>8, ConcatIsProgram
-----------------------------------------------------------------------------
(* The invariant *)

TypeOK ==
    /\ list \in [Comps -> Seq(Events)]
    /\ spare \in Nat
    /\ flags \in [Comps -> SUBSET Flags]
    /\ mask \in [Comps -> BOOLEAN]
    /\ related \in [Comps -> Comps \cup {NoComp}]
    /\ pending \in [Comps -> Seq(Commands)]
    /\ state \in [Comps -> States]
    /\ IsProgram(todo)

\* While the client waits for one component on behalf of two, the other one knows whom to wake.
WatchSet ==
    /\ todo # <<>> /\ Step.do = "wait" /\ Step.other # NoComp
    /\ at \in {"scan", "blocked", "end"}
    => related[Step.other] = Step.c

\* A client that is blocked in a wait for a command has seen that there is nothing in the
\* lists, or has a flag up.
WaitHeeded ==
    /\ todo # <<>> /\ Step.do = "wait" /\ at = "blocked"
    => \/ /\ \A ev \in ToSet(list[Step.c]) : ~ Awaited(ev)
          /\ ~ Failing(Step.other)
       \/ flags[Step.c] \cap WaitMask # {}

\* The same of a wait for an event, from its first look at the list on.
EventHeeded ==
    /\ todo # <<>> /\ Step.do = "waitevent" /\ at \in {"errors", "configs", "blocked"}
    => \/ \A ev \in ToSet(list[Step.c]) : ~ Wanted(ev)
       \/ flags[Step.c] \cap Step.awaited # {}

Heeded == WatchSet /\ WaitHeeded /\ EventHeeded

\* After a callback a list has each event once, and the new one.
ListsShort == \A c \in Comps : Len(list[c]) <= EventKinds + 1

IInv == TypeOK /\ EventsConserved /\ Heeded

\* What a step of a program has, by its kind.
LEMMA StepFields ==
    ASSUME NEW x, IsStep(x)
    PROVE  /\ x.do = "send" => x.c \in Comps /\ <<x.cmd, x.arg>> \in Commands
           /\ x.do = "wait" => /\ x.c \in Comps /\ <<x.cmd, x.arg>> \in Commands
                               /\ x.other \in Comps \cup {NoComp}
           /\ x.do = "waitevent" => /\ x.c \in Comps /\ x.awaited \in SUBSET Flags
                                    /\ Announced(x)
           /\ x.do \in {"returnevents", "remove", "clear", "mask", "disconnect"} => x.c \in Comps
           /\ x.do = "mask" => x.on \in BOOLEAN
           /\ x.do = "assert" => x.what # "event_list"
           /\ x.do \in {"if", "ifloaded"} => IsProgram(x.then) /\ IsProgram(x.else)
           /\ x.do = "choose" => \A p \in x.programs : IsProgram(p)
  <1> DEFINE Goal == /\ x.do = "send" => x.c \in Comps /\ <<x.cmd, x.arg>> \in Commands
                     /\ x.do = "wait" => /\ x.c \in Comps /\ <<x.cmd, x.arg>> \in Commands
                                         /\ x.other \in Comps \cup {NoComp}
                     /\ x.do = "waitevent" => /\ x.c \in Comps /\ x.awaited \in SUBSET Flags
                                              /\ Announced(x)
                     /\ x.do \in {"returnevents", "remove", "clear", "mask", "disconnect"}
                            => x.c \in Comps
                     /\ x.do = "mask" => x.on \in BOOLEAN
                     /\ x.do = "assert" => x.what # "event_list"
                     /\ x.do \in {"if", "ifloaded"} => IsProgram(x.then) /\ IsProgram(x.else)
                     /\ x.do = "choose" => \A p \in x.programs : IsProgram(p)
  <1>1. \A k \in Commands : <<k[1], k[2]>> = k
    BY DEF Commands
  <1>2. ASSUME NEW c \in Comps, NEW k \in Commands, x = Send(c, k[1], k[2])
        PROVE  Goal
    BY <1>1, <1>2 DEF Send
  <1>3. ASSUME NEW c \in Comps, NEW k \in Commands, NEW d \in Comps \cup {NoComp},
               x = WaitDual(c, k[1], k[2], d)
        PROVE  Goal
    BY <1>1, <1>3 DEF WaitDual
  <1>4. ASSUME NEW c \in Comps, NEW e, NEW d1, NEW w \in SUBSET Flags, NEW timed,
               x = WaitEvent(c, e, d1, w, timed), Announced(x)
        PROVE  Goal
    <2>1. x.do = "waitevent" /\ x.c = c /\ x.awaited = w
      BY <1>4 DEF WaitEvent
    <2> QED
      BY <1>4, <2>1
  <1>5. ASSUME NEW c \in Comps, \/ x = ReturnEvents(c) \/ x = RemoveError(c)
                                \/ x = ClearError(c) \/ x = Disconnect(c)
        PROVE  Goal
    BY <1>5 DEF ReturnEvents, RemoveError, ClearError, Disconnect
  <1>6. ASSUME NEW c \in Comps, NEW on \in BOOLEAN, x = Mask(c, on)
        PROVE  Goal
    BY <1>6 DEF Mask
  <1>7. ASSUME NEW v, NEW w \in {"disable", "enable", "state"},
               x = Connect \/ x = Result(v) \/ x = VcAssert(w)
        PROVE  Goal
    BY <1>7 DEF Connect, Result, VcAssert
  <1>8. ASSUME NEW p, IsProgram(p), NEW q, IsProgram(q), NEW v,
               x = If(v, p, q) \/ x = IfLoaded(v, p, q)
        PROVE  Goal
    BY <1>8 DEF If, IfLoaded
  <1>9. ASSUME NEW P, \A p \in P : IsProgram(p), x = Choose(P)
        PROVE  Goal
    BY <1>9 DEF Choose
  <1> HIDE DEF Goal
  <1>10. x \in Plain => Goal
    BY <1>2, <1>3, <1>4, <1>5, <1>6, <1>7 DEF Plain
  <1>11. Goal
    BY <1>8, <1>9, <1>10, BranchesArePrograms
  <1> QED
    BY <1>11 DEF Goal

-----------------------------------------------------------------------------
(* The callback *)

\* The records that a callback moves: those of duplicates go back, and one holds the new
\* event, if any is free.
LEMMA CallbackRecords ==
    ASSUME TypeOK, NEW c \in Comps, NEW ev \in Events, Callback(c, ev)
    PROVE  \E kept \in Seq(Events), new \in Seq(Events) :
              /\ list' = [list EXCEPT ![c] = new \o kept]
              /\ new \o kept \in Seq(Events)
              /\ Len(new \o kept) = Len(new) + Len(kept)
              /\ spare' \in Nat /\ spare' = spare + Len(list[c]) - Len(kept) - Len(new)
              /\ kept = Dedupe(list[c])
              /\ ToSet(kept) \subseteq ToSet(list[c])
              /\ new = <<>> \/ (new = <<ev>> /\ ~ Masked(c, ev))
              /\ asserted' = IF spare + Len(list[c]) - Len(kept) = 0
                             THEN asserted \cup {"event_list"} ELSE asserted
  <1> DEFINE kept == Dedupe(list[c])
             free == spare + Len(list[c]) - Len(kept)
             new == IF Masked(c, ev) \/ free = 0 THEN <<>> ELSE <<ev>>
  <1>1. list[c] \in Seq(Events) /\ spare \in Nat
    BY DEF TypeOK
  <1>2. kept \in Seq(Events) /\ Len(kept) <= Len(list[c]) /\ ToSet(kept) \subseteq ToSet(list[c])
    BY <1>1, DedupeProperties
  <1>3. Len(kept) \in Nat /\ Len(list[c]) \in Nat
    BY <1>1, <1>2, LenProperties
  <1>4. /\ list' = [list EXCEPT ![c] = new \o kept]
        /\ spare' = free - Len(new)
        /\ asserted' = IF free = 0 THEN asserted \cup {"event_list"} ELSE asserted
    BY DEF Callback
  <1> HIDE DEF kept
  <1>5. free \in Nat
    BY <1>1, <1>2, <1>3
  <1>6. /\ new \in Seq(Events)
        /\ \/ new = <<>> /\ Len(new) = 0
           \/ new = <<ev>> /\ ~ Masked(c, ev) /\ Len(new) = 1 /\ free # 0
    <2>1. <<>> \in Seq(Events) /\ Len(<<>>) = 0
      BY EmptySeq
    <2>2. <<ev>> \in Seq(Events) /\ Len(<<ev>>) = 1
      OBVIOUS
    <2>3. CASE Masked(c, ev) \/ free = 0
      BY <2>1, <2>3
    <2>4. CASE ~ (Masked(c, ev) \/ free = 0)
      BY <2>2, <2>4
    <2> QED
      BY <2>3, <2>4
  <1>7. spare' \in Nat
    <2>1. spare' = free - Len(new)
      BY <1>4
    <2>2. Len(new) = 0 \/ (Len(new) = 1 /\ free # 0)
      BY <1>6
    <2>3. \A f \in Nat, n \in Nat : n = 0 \/ (n = 1 /\ f # 0) => f - n \in Nat
      OBVIOUS
    <2> HIDE DEF free, new
    <2> QED
      BY <1>5, <2>1, <2>2, <2>3
  <1> HIDE DEF new
  <1>8. new \o kept \in Seq(Events) /\ Len(new \o kept) = Len(new) + Len(kept)
    BY <1>2, <1>6, ConcatProperties
  <1>9. spare' = spare + Len(list[c]) - Len(kept) - Len(new)
    BY <1>1, <1>3, <1>4, <1>6, LenProperties
  <1> QED
    BY <1>2, <1>4, <1>6, <1>7, <1>8, <1>9 DEF kept

\* The two lists and the free list have as many records as before.
LEMMA CallbackConserves ==
    ASSUME TypeOK, EventsConserved, NEW c \in Comps, NEW ev \in Events, Callback(c, ev)
    PROVE  EventsConserved'
  <1>1. PICK kept \in Seq(Events), new \in Seq(Events) :
           /\ list' = [list EXCEPT ![c] = new \o kept]
           /\ Len(new \o kept) = Len(new) + Len(kept)
           /\ spare' = spare + Len(list[c]) - Len(kept) - Len(new)
    BY CallbackRecords
  <1>2. list \in [Comps -> Seq(Events)] /\ spare \in Nat
    BY DEF TypeOK
  <1>3. Len(kept) \in Nat /\ Len(new) \in Nat
    BY LenProperties
  <1>4. Source \in Comps /\ Sink \in Comps /\ Comps = {Source, Sink} /\ Source # Sink
    BY CompsAssumption DEF Comps
  <1>5. \A d \in Comps : list[d] \in Seq(Events) /\ Len(list[d]) \in Nat
    BY <1>2, LenProperties
  <1>6. /\ Len(list'[c]) = Len(new) + Len(kept)
        /\ \A d \in Comps : d # c => list'[d] = list[d]
    BY <1>1, <1>2
  <1> DEFINE size(d) == Len(list[d])
             sizeNow(d) == Len(list'[d])
             k == Len(kept)
             n == Len(new)
  <1>7. k \in Nat /\ n \in Nat /\ spare \in Nat /\ size(Source) \in Nat /\ size(Sink) \in Nat
    BY <1>2, <1>3, <1>4, <1>5
  <1>8. spare' = spare + size(c) - k - n /\ sizeNow(c) = n + k
    BY <1>1, <1>6
  <1>9. \A d \in Comps : d # c => sizeNow(d) = size(d)
    BY <1>6
  <1>10. spare + size(Source) + size(Sink) = NumEvents
    BY DEF EventsConserved
  <1> HIDE DEF size, sizeNow, k, n
  <1>11. spare' + sizeNow(Source) + sizeNow(Sink) = NumEvents
    BY SMTT(30), <1>4, <1>7, <1>8, <1>9, <1>10
  <1> QED
    BY <1>11 DEF EventsConserved, sizeNow

\* A callback adds its own event to its own list, and to no other.
LEMMA CallbackLists ==
    ASSUME TypeOK, NEW c \in Comps, NEW ev \in Events, Callback(c, ev)
    PROVE  /\ \A d \in Comps : d # c => list'[d] = list[d]
           /\ \A x \in ToSet(list'[c]) : \/ x \in ToSet(list[c])
                                         \/ (x = ev /\ ~ Masked(c, ev))
  <1>1. PICK kept \in Seq(Events), new \in Seq(Events) :
           /\ list' = [list EXCEPT ![c] = new \o kept]
           /\ ToSet(kept) \subseteq ToSet(list[c])
           /\ new = <<>> \/ (new = <<ev>> /\ ~ Masked(c, ev))
    BY CallbackRecords
  <1>2. list'[c] = new \o kept /\ \A d \in Comps : d # c => list'[d] = list[d]
    BY <1>1 DEF TypeOK
  <1>3. ASSUME NEW x \in ToSet(new \o kept)
        PROVE  x \in ToSet(kept) \/ (new # <<>> /\ x = ev)
    <2>1. new \o kept \in Seq(Events) /\ Len(new \o kept) = Len(new) + Len(kept)
          /\ \A i \in 1 .. Len(new) + Len(kept) :
                (new \o kept)[i] = IF i <= Len(new) THEN new[i] ELSE kept[i - Len(new)]
      BY ConcatProperties
    <2>2. Len(new) \in Nat /\ Len(kept) \in Nat /\ DOMAIN kept = 1 .. Len(kept)
      BY LenProperties
    <2>3. PICK i \in 1 .. Len(new) + Len(kept) : x = (new \o kept)[i]
      BY <1>3, <2>1, LenProperties DEF ToSet
    <2>4. CASE i <= Len(new)
      <3>1. x = new[i] /\ Len(new) # 0
        BY <2>1, <2>2, <2>3, <2>4
      <3>2. new # <<>>
        BY <3>1, EmptySeq
      <3>3. new = <<ev>>
        BY <3>2, <1>1
      <3>4. Len(<<ev>>) = 1 /\ <<ev>>[1] = ev
        OBVIOUS
      <3>5. i = 1
        BY <2>3, <2>4, <3>3, <3>4
      <3> QED
        BY <3>1, <3>2, <3>3, <3>4, <3>5
    <2>5. CASE ~ i <= Len(new)
      <3> DEFINE j == i - Len(new)
      <3>1. x = kept[j] /\ j \in 1 .. Len(kept)
        BY <2>1, <2>2, <2>3, <2>5
      <3> HIDE DEF j
      <3>2. x \in ToSet(kept)
        BY <3>1, <2>2 DEF ToSet
      <3> QED
        BY <3>2
    <2> QED
      BY <2>4, <2>5
  <1>4. ASSUME NEW x \in ToSet(list'[c])
        PROVE  x \in ToSet(list[c]) \/ (x = ev /\ ~ Masked(c, ev))
    BY <1>1, <1>2, <1>3
  <1> QED
    BY <1>2, <1>4

\* The state of the library keeps its types.
LEMMA CallbackTypes ==
    ASSUME TypeOK, NEW c \in Comps, NEW ev \in Events, Callback(c, ev)
    PROVE  /\ list' \in [Comps -> Seq(Events)] /\ spare' \in Nat
           /\ flags' \in [Comps -> SUBSET Flags] /\ mask' \in [Comps -> BOOLEAN]
           /\ related' \in [Comps -> Comps \cup {NoComp}]
  <1>1. list' \in [Comps -> Seq(Events)] /\ spare' \in Nat
    BY CallbackRecords DEF TypeOK
  <1>2. \A d \in Comps : Raised(c, d, ev) \in SUBSET Flags
    <2>1. FlagFor(ev) \in Flags /\ "EVENT_ERROR" \in Flags
      BY FlagsOfEvents DEF Flags
    <2> QED
      BY <2>1 DEF Raised
  <1>3. flags' = [d \in Comps |-> flags[d] \cup Raised(c, d, ev)]
        /\ mask' = mask /\ related' = related
    BY DEF Callback
  <1> QED
    BY <1>1, <1>2, <1>3 DEF TypeOK

\* Whom a wait concerns: the flags of its mask announce what it waits for.
LEMMA AwaitedIsAnnounced ==
    ASSUME NEW x, NEW ev \in Events, <<x.cmd, x.arg>> \in Commands,
           ev = Complete(x.cmd, x.arg) \/ IsFailure(ev)
    PROVE  FlagFor(ev) \in {"EVENT_ERROR", FlagOf[x.cmd]}
  <1>1. CASE ev = Complete(x.cmd, x.arg)
    <2>1. ev.e = "CmdComplete" /\ ev.d1 = x.cmd
      BY <1>1 DEF Complete, Event
    <2> QED
      BY <2>1, FlagsOfEvents
  <1>2. CASE IsFailure(ev)
    BY <1>2, FlagsOfEvents DEF IsFailure
  <1> QED
    BY <1>1, <1>2

\* A callback wakes the client, if it brings what the client is blocked for.
LEMMA CallbackHeeded ==
    ASSUME TypeOK, Heeded, NEW c \in Comps, NEW ev \in Events, Callback(c, ev),
           todo' = todo, at' = at
    PROVE  Heeded'
  <1> DEFINE x == Head(todo)
             failing(d) == IF d = NoComp THEN FALSE ELSE \E y \in ToSet(list'[d]) : IsFailure(y)
  <1>1. flags' = [d \in Comps |-> flags[d] \cup Raised(c, d, ev)] /\ related' = related
    BY DEF Callback
  <1>2. todo # <<>> => IsStep(x)
    BY HeadOfProgram DEF TypeOK
  <1>3. Step = x /\ Step' = x
    BY DEF Step
  <1>4. WatchSet'
    BY <1>1, <1>3 DEF Heeded, WatchSet
  <1>5. /\ \A d \in Comps : d # c => list'[d] = list[d]
        /\ \A y \in ToSet(list'[c]) : y \in ToSet(list[c]) \/ (y = ev /\ ~ Masked(c, ev))
    BY CallbackLists
  <1>6. ~ Masked(c, ev) => FlagFor(ev) \in flags'[c]
    BY <1>1 DEF Raised
  <1>7. ASSUME todo # <<>>, x.do = "wait", at = "blocked"
        PROVE  \/ /\ \A y \in ToSet(list'[x.c]) : ~ (y = Complete(x.cmd, x.arg) \/ IsFailure(y))
                  /\ ~ failing(x.other)
               \/ flags'[x.c] \cap {"EVENT_ERROR", FlagOf[x.cmd]} # {}
    <2> DEFINE wakes == {"EVENT_ERROR", FlagOf[x.cmd]}
    <2>1. /\ x.c \in Comps /\ <<x.cmd, x.arg>> \in Commands /\ x.other \in Comps \cup {NoComp}
      BY <1>2, <1>7, StepFields
    <2>2. flags[x.c] \subseteq flags'[x.c]
      BY <1>1, <2>1
    <2>3. SUFFICES ASSUME flags'[x.c] \cap wakes = {}
                   PROVE  /\ \A y \in ToSet(list'[x.c]) :
                                ~ (y = Complete(x.cmd, x.arg) \/ IsFailure(y))
                          /\ ~ failing(x.other)
      OBVIOUS
    <2>4. /\ \A y \in ToSet(list[x.c]) : ~ (y = Complete(x.cmd, x.arg) \/ IsFailure(y))
          /\ ~ Failing(x.other)
      <3>1. WaitHeeded /\ flags[x.c] \cap wakes = {}
        BY <2>2, <2>3 DEF Heeded
      <3> QED
        BY <1>3, <1>7, <3>1 DEF WaitHeeded, WaitMask, Awaited
    <2>5. \A y \in ToSet(list'[x.c]) : ~ (y = Complete(x.cmd, x.arg) \/ IsFailure(y))
      <3>1. CASE c = x.c
        <4>1. ~ Masked(c, ev) => ~ (ev = Complete(x.cmd, x.arg) \/ IsFailure(ev))
          BY <1>6, <2>1, <2>3, <3>1, AwaitedIsAnnounced
        <4> QED
          BY <1>5, <2>4, <3>1, <4>1
      <3>2. CASE c # x.c
        BY <1>5, <2>1, <2>4, <3>2
      <3> QED
        BY <3>1, <3>2
    <2>6. ~ failing(x.other)
      <3>1. CASE x.other = NoComp
        BY <3>1
      <3>2. CASE x.other # NoComp /\ c = x.other
        <4>1. related[c] = x.c
          BY <1>3, <1>7, <3>2 DEF Heeded, WatchSet
        <4>2. ~ IsFailure(ev)
          <5>1. IsFailure(ev) => "EVENT_ERROR" \in Raised(c, x.c, ev)
            BY <4>1 DEF Raised
          <5>2. flags'[x.c] = flags[x.c] \cup Raised(c, x.c, ev)
            BY <1>1, <2>1
          <5> QED
            BY <5>1, <5>2, <2>3
        <4>3. \A y \in ToSet(list[c]) : ~ IsFailure(y)
          BY <2>4, <3>2 DEF Failing
        <4> QED
          BY <1>5, <3>2, <4>2, <4>3
      <3>3. CASE x.other # NoComp /\ c # x.other
        <4>1. list'[x.other] = list[x.other]
          BY <1>5, <2>1, <3>3
        <4> QED
          BY <2>4, <3>3, <4>1 DEF Failing
      <3> QED
        BY <3>1, <3>2, <3>3
    <2> QED
      BY <2>5, <2>6
  <1>8. ASSUME todo # <<>>, x.do = "waitevent", at \in {"errors", "configs", "blocked"}
        PROVE  \/ \A y \in ToSet(list'[x.c]) : ~ (y.e = x.e /\ y.d1 = x.d1)
               \/ flags'[x.c] \cap x.awaited # {}
    <2>1. x.c \in Comps /\ Announced(x)
      BY <1>2, <1>8, StepFields
    <2>2. flags[x.c] \subseteq flags'[x.c]
      BY <1>1, <2>1
    <2>3. SUFFICES ASSUME flags'[x.c] \cap x.awaited = {}
                   PROVE  \A y \in ToSet(list'[x.c]) : ~ (y.e = x.e /\ y.d1 = x.d1)
      OBVIOUS
    <2>4. \A y \in ToSet(list[x.c]) : ~ (y.e = x.e /\ y.d1 = x.d1)
      <3>1. EventHeeded /\ flags[x.c] \cap x.awaited = {}
        BY <2>2, <2>3 DEF Heeded
      <3> QED
        BY <1>3, <1>8, <3>1 DEF EventHeeded, Wanted
    <2>5. CASE c = x.c
      <3>1. ~ Masked(c, ev) => ~ (ev.e = x.e /\ ev.d1 = x.d1)
        BY <1>6, <2>1, <2>3, <2>5 DEF Announced
      <3> QED
        BY <1>5, <2>4, <2>5, <3>1
    <2>6. CASE c # x.c
      BY <1>5, <2>1, <2>4, <2>6
    <2> QED
      BY <2>5, <2>6
  <1>9. WaitHeeded'
    BY <1>3, <1>7 DEF WaitHeeded, WaitMask, Awaited, Failing
  <1>10. EventHeeded'
    BY <1>3, <1>8 DEF EventHeeded, Wanted
  <1> QED
    BY <1>4, <1>9, <1>10 DEF Heeded

-----------------------------------------------------------------------------
(* The client's steps *)

\* The first of some places of a list.
LEMMA FirstPlace ==
    ASSUME NEW n \in Nat, NEW I \in SUBSET (1 .. n), I # {}
    PROVE  Min(I) \in I
  <1>1. I \subseteq Nat /\ I # {}
    OBVIOUS
  <1>2. PICK x \in I : \A y \in I : ~ (<<y, x>> \in OpToRel(<, Nat))
    BY <1>1, NatLessThanWellFounded, WFMin
  <1>3. \A y \in I : ~ (y < x)
    BY <1>1, <1>2 DEF OpToRel
  <1>4. \A y \in I : x <= y
    BY <1>1, <1>3
  <1> QED
    BY <1>4 DEF Min

\* What the waits find.
LEMMA Found ==
    ASSUME NEW c \in Comps, list[c] \in Seq(Events)
    PROVE  /\ LET i == Find(list[c], Awaited)
              IN  \/ i = 0 /\ \A ev \in ToSet(list[c]) : ~ Awaited(ev)
                  \/ i \in 1 .. Len(list[c]) /\ Awaited(list[c][i])
           /\ LET i == Find(list[c], Wanted)
              IN  \/ i = 0 /\ \A ev \in ToSet(list[c]) : ~ Wanted(ev)
                  \/ i \in 1 .. Len(list[c]) /\ Wanted(list[c][i])
           /\ LET i == Find(list[c], LAMBDA ev : ev.e = "Error")
              IN  i = 0 \/ i \in 1 .. Len(list[c])
  <1> DEFINE s == list[c]
             A == {i \in 1 .. Len(s) : Awaited(s[i])}
             W == {i \in 1 .. Len(s) : Wanted(s[i])}
             E == {i \in 1 .. Len(s) : s[i].e = "Error"}
             first(I) == IF I # {} THEN Min(I) ELSE 0
  <1>1. Len(s) \in Nat /\ DOMAIN s = 1 .. Len(s)
    BY LenProperties
  <1>2. ASSUME NEW I \in SUBSET (1 .. Len(s))
        PROVE  IF I = {} THEN first(I) = 0 ELSE first(I) \in I
    BY <1>1, FirstPlace
  <1>3. /\ Find(s, Awaited) = first(A)
        /\ Find(s, Wanted) = first(W)
        /\ Find(s, LAMBDA ev : ev.e = "Error") = first(E)
    BY DEF Find, SelectInSeq
  <1> HIDE DEF first
  <1>4. A = {} => \A ev \in ToSet(s) : ~ Awaited(ev)
    BY <1>1 DEF ToSet
  <1>5. W = {} => \A ev \in ToSet(s) : ~ Wanted(ev)
    BY <1>1 DEF ToSet
  <1>6. (first(A) = 0 /\ A = {}) \/ first(A) \in A
    BY <1>2
  <1>7. (first(W) = 0 /\ W = {}) \/ first(W) \in W
    BY <1>2
  <1>8. first(E) = 0 \/ first(E) \in E
    BY <1>2
  <1> QED
    BY <1>3, <1>4, <1>5, <1>6, <1>7, <1>8

\* A record that a wait takes goes back into the free list.
LEMMA TakeKeeps ==
    ASSUME TypeOK, EventsConserved, NEW c \in Comps, NEW i \in 1 .. Len(list[c]), Take(c, i)
    PROVE  /\ list' \in [Comps -> Seq(Events)] /\ spare' \in Nat
           /\ EventsConserved'
           /\ \A d \in Comps : Len(list'[d]) <= Len(list[d])
  <1>1. list \in [Comps -> Seq(Events)] /\ spare \in Nat /\ list[c] \in Seq(Events)
    BY DEF TypeOK
  <1>2. list' = [list EXCEPT ![c] = RemoveAt(list[c], i)] /\ spare' = spare + 1
    BY DEF Take
  <1>3. RemoveAt(list[c], i) \in Seq(Events) /\ Len(RemoveAt(list[c], i)) = Len(list[c]) - 1
    BY <1>1, RemoveAtProperties
  <1> DEFINE size(d) == Len(list[d])
             sizeNow(d) == Len(list'[d])
  <1>4. Source \in Comps /\ Sink \in Comps /\ Comps = {Source, Sink} /\ Source # Sink
    BY CompsAssumption DEF Comps
  <1>5. \A d \in Comps : size(d) \in Nat
    BY <1>1, LenProperties
  <1>6. sizeNow(c) = size(c) - 1 /\ \A d \in Comps : d # c => sizeNow(d) = size(d)
    BY <1>1, <1>2, <1>3
  <1>7. spare + size(Source) + size(Sink) = NumEvents
    BY DEF EventsConserved
  <1>8. list' \in [Comps -> Seq(Events)] /\ spare' \in Nat
    BY <1>1, <1>2, <1>3
  <1> HIDE DEF size, sizeNow
  <1>9. spare' + sizeNow(Source) + sizeNow(Sink) = NumEvents
    BY <1>1, <1>2, <1>4, <1>5, <1>6, <1>7
  <1>10. \A d \in Comps : sizeNow(d) <= size(d)
    BY <1>5, <1>6
  <1> QED
    BY <1>8, <1>9, <1>10 DEF EventsConserved, size, sizeNow

\* The program goes on with another one, and nothing is waited for.
LEMMA ProceedKeeps ==
    ASSUME TypeOK, todo # <<>>, NEW next, IsProgram(next), Proceed(next)
    PROVE  IsProgram(todo') /\ Heeded'
  <1>1. IsProgram(todo')
    BY HeadOfProgram, ConcatIsProgram DEF Proceed, TypeOK
  <1>2. at' = "start"
    BY DEF Proceed
  <1> QED
    BY <1>1, <1>2 DEF Heeded, WatchSet, WaitHeeded, EventHeeded

\* Reading flags keeps them flags.
LEMMA ConsumeTypes ==
    ASSUME TypeOK, NEW c \in Comps, NEW set, Consume(c, set)
    PROVE  flags' \in [Comps -> SUBSET Flags]
  BY DEF TypeOK, Consume

\* The first step, and that it may be left out.
LEMMA StepIsStep ==
    ASSUME TypeOK, todo # <<>>
    PROVE  IsStep(Step) /\ IsProgram(<<>>)
  BY HeadOfProgram, ShortPrograms DEF TypeOK, Step

\* ilclient_wait_for_command_complete_dual, all of its passes.
LEMMA WaitSteps ==
    ASSUME IInv, WaitBegins \/ WaitScans \/ WaitWakes \/ WaitEnds
    PROVE  IInv'
  <1> USE DEF IInv
  <1>1. todo # <<>> /\ Step.do = "wait"
    BY DEF WaitBegins, WaitScans, WaitWakes, WaitEnds, Running
  <1>2. /\ Step.c \in Comps /\ Step.other \in Comps \cup {NoComp}
        /\ IsStep(Step) /\ IsProgram(<<>>) /\ IsProgram(todo)
    BY <1>1, StepIsStep, StepFields DEF TypeOK
  <1>3. /\ list[Step.c] \in Seq(Events)
        /\ pending \in [Comps -> Seq(Commands)] /\ state \in [Comps -> States]
        /\ list \in [Comps -> Seq(Events)] /\ spare \in Nat /\ flags \in [Comps -> SUBSET Flags]
        /\ mask \in [Comps -> BOOLEAN] /\ related \in [Comps -> Comps \cup {NoComp}]
    BY <1>2 DEF TypeOK
  <1>4. CASE WaitBegins
    <2>1. /\ related' = [related EXCEPT ![Step.other] = Step.c] /\ Step.other # NoComp
          /\ todo' = todo /\ at' = "scan"
          /\ UNCHANGED <<list, spare, flags, mask, pending, state>>
      BY <1>4 DEF WaitBegins, Stay, comps
    <2>2. related' \in [Comps -> Comps \cup {NoComp}] /\ related'[Step.other] = Step.c
      BY <1>2, <1>3, <2>1
    <2>3. TypeOK'
      BY <1>2, <1>3, <2>1, <2>2 DEF TypeOK
    <2>4. Step' = Step
      BY <2>1 DEF Step
    <2>5. WatchSet' /\ WaitHeeded' /\ EventHeeded'
      BY <1>1, <2>1, <2>2, <2>4 DEF WatchSet, WaitHeeded, EventHeeded
    <2>6. EventsConserved'
      BY <2>1 DEF EventsConserved
    <2> QED
      BY <2>3, <2>5, <2>6 DEF Heeded
  <1>5. CASE WaitScans
    <2> DEFINE i == Find(list[Step.c], Awaited)
    <2>1. UNCHANGED <<mask, related, pending, state>>
      BY <1>5 DEF WaitScans, comps
    <2>2. \/ i = 0 /\ \A ev \in ToSet(list[Step.c]) : ~ Awaited(ev)
          \/ i \in 1 .. Len(list[Step.c])
      BY <1>2, <1>3, Found
    <2>3. at = "scan" \/ (at = "start" /\ Step.other = NoComp)
      BY <1>5 DEF WaitScans, Running
    <2>4. ASSUME UNCHANGED todo, at' \in {"end", "blocked"}
          PROVE  IsProgram(todo') /\ Step' = Step
      BY <2>4, <1>2 DEF Step
    <2>5. ASSUME WaitReturns
          PROVE  IsProgram(todo') /\ Heeded'
      <3>1. CASE Step.other = NoComp
        BY <1>1, <1>2, <2>5, <3>1, ProceedKeeps DEF WaitReturns
      <3>2. CASE Step.other # NoComp
        <4>1. todo' = todo /\ at' = "end"
          BY <2>5, <3>2 DEF WaitReturns, Stay
        <4>2. WatchSet' /\ WaitHeeded' /\ EventHeeded'
          BY <1>1, <2>1, <2>3, <2>4, <3>2, <4>1 DEF Heeded, WatchSet, WaitHeeded, EventHeeded
        <4> QED
          BY <2>4, <4>1, <4>2 DEF Heeded
      <3> QED
        BY <3>1, <3>2
    <2>6. CASE /\ i # 0
               /\ Take(Step.c, i)
               /\ Consume(Step.c, {"EVENT_ERROR"}) \/ UNCHANGED flags
               /\ WaitReturns
      <3>1. list' \in [Comps -> Seq(Events)] /\ spare' \in Nat /\ EventsConserved'
        BY <1>2, <2>2, <2>6, TakeKeeps
      <3>2. flags' \in [Comps -> SUBSET Flags]
        BY <1>2, <1>3, <2>6, ConsumeTypes
      <3> QED
        BY <1>3, <2>1, <2>5, <2>6, <3>1, <3>2 DEF TypeOK
    <2>7. CASE WaitReturns /\ UNCHANGED <<list, spare, flags>>
      <3>1. EventsConserved'
        BY <2>7 DEF EventsConserved
      <3> QED
        BY <1>3, <2>1, <2>5, <2>7, <3>1 DEF TypeOK
    <2>8. CASE /\ i = 0 /\ ~ Failing(Step.other)
               /\ Stay("blocked") /\ UNCHANGED <<list, spare, flags>>
      <3>1. todo' = todo /\ at' = "blocked" /\ UNCHANGED <<list, spare, flags, related>>
        BY <2>1, <2>8 DEF Stay
      <3>2. EventsConserved'
        BY <3>1 DEF EventsConserved
      <3>3. \A ev \in ToSet(list[Step.c]) : ~ Awaited(ev)
        BY <2>2, <2>8
      <3>4. WaitHeeded'
        BY <2>4, <2>8, <3>1, <3>3 DEF WaitHeeded, Awaited, Failing
      <3>5. WatchSet' /\ EventHeeded'
        BY <1>1, <2>1, <2>3, <2>4, <3>1 DEF Heeded, WatchSet, EventHeeded
      <3> QED
        BY <1>3, <2>1, <2>4, <3>1, <3>2, <3>4, <3>5 DEF TypeOK, Heeded
    <2> HIDE DEF i
    <2> QED
      BY <1>5, <2>6, <2>7, <2>8 DEF WaitScans, i
  <1>6. CASE WaitWakes
    <2>1. /\ todo' = todo /\ at = "blocked"
          /\ IF Step.other = NoComp THEN at' = "start" ELSE at' = "scan"
          /\ UNCHANGED <<list, spare, mask, related, pending, state>>
      BY <1>6 DEF WaitWakes, Running, Stay, comps
    <2>2. flags' \in [Comps -> SUBSET Flags]
      BY <1>2, <1>6, ConsumeTypes DEF WaitWakes
    <2>3. TypeOK'
      BY <1>2, <1>3, <2>1, <2>2 DEF TypeOK
    <2>4. Step' = Step
      BY <2>1 DEF Step
    <2>5. WatchSet' /\ WaitHeeded' /\ EventHeeded'
      BY <1>1, <2>1, <2>4 DEF Heeded, WatchSet, WaitHeeded, EventHeeded
    <2>6. EventsConserved'
      BY <2>1 DEF EventsConserved
    <2> QED
      BY <2>3, <2>5, <2>6 DEF Heeded
  <1>7. CASE WaitEnds
    <2>1. /\ related' = [related EXCEPT ![Step.other] = NoComp]
          /\ Proceed(<<>>)
          /\ UNCHANGED <<list, spare, flags, mask, pending, state>>
      BY <1>7 DEF WaitEnds, comps
    <2>2. related' \in [Comps -> Comps \cup {NoComp}]
      BY <1>2, <1>3, <2>1
    <2>3. IsProgram(todo') /\ Heeded'
      BY <1>1, <1>2, <2>1, ProceedKeeps
    <2>4. EventsConserved'
      BY <2>1 DEF EventsConserved
    <2> QED
      BY <1>3, <2>1, <2>2, <2>3, <2>4 DEF TypeOK
  <1> QED
    BY <1>4, <1>5, <1>6, <1>7

\* ilclient_wait_for_event, all of its looks at the list and the flags.
LEMMA EventWaitSteps ==
    ASSUME IInv,
           EventLooked \/ EventErrors \/ EventConfigs \/ EventLast \/ EventWakes \/ EventTimesOut
    PROVE  IInv'
  <1> USE DEF IInv
  <1>1. todo # <<>> /\ Step.do = "waitevent"
    BY DEF EventLooked, EventErrors, EventConfigs, EventLast, EventWakes, EventTimesOut, Running
  <1>2. Step.c \in Comps /\ IsStep(Step) /\ IsProgram(<<>>) /\ IsProgram(todo)
    BY <1>1, StepIsStep, StepFields DEF TypeOK
  <1>3. /\ list[Step.c] \in Seq(Events)
        /\ pending \in [Comps -> Seq(Commands)] /\ state \in [Comps -> States]
        /\ list \in [Comps -> Seq(Events)] /\ spare \in Nat /\ flags \in [Comps -> SUBSET Flags]
        /\ mask \in [Comps -> BOOLEAN] /\ related \in [Comps -> Comps \cup {NoComp}]
    BY <1>2 DEF TypeOK
  <1>4. UNCHANGED <<mask, related, pending, state>>
    BY DEF EventLooked, EventErrors, EventConfigs, EventLast, EventWakes, EventTimesOut, comps, lib
  <1> DEFINE i == Find(list[Step.c], Wanted)
  <1>5. \/ i = 0 /\ \A ev \in ToSet(list[Step.c]) : ~ Wanted(ev)
        \/ i \in 1 .. Len(list[Step.c])
    BY <1>2, <1>3, Found
  \* The wait ends, by whichever result.
  <1>6. ASSUME NEW r, Finish(r),
               \/ UNCHANGED <<list, spare, flags>>
               \/ UNCHANGED <<list, spare>> /\ \E set : Consume(Step.c, set)
               \/ i # 0 /\ Take(Step.c, i) /\ UNCHANGED flags
        PROVE  IInv'
    <2>1. IsProgram(todo') /\ Heeded'
      BY <1>1, <1>2, <1>6, ProceedKeeps DEF Finish
    <2>2. /\ list' \in [Comps -> Seq(Events)] /\ spare' \in Nat /\ EventsConserved'
      <3>1. CASE UNCHANGED <<list, spare>>
        BY <1>3, <3>1 DEF EventsConserved
      <3>2. CASE i # 0 /\ Take(Step.c, i)
        BY <1>2, <1>5, <3>2, TakeKeeps
      <3> QED
        BY <1>6, <3>1, <3>2
    <2>3. flags' \in [Comps -> SUBSET Flags]
      BY <1>2, <1>3, <1>6, ConsumeTypes
    <2> QED
      BY <1>3, <1>4, <2>1, <2>2, <2>3 DEF TypeOK
  \* The wait goes on.
  <1>7. ASSUME NEW where, Stay(where), UNCHANGED <<list, spare>>,
               flags' \in [Comps -> SUBSET Flags],
               where \in {"errors", "configs", "blocked"}
                  => /\ UNCHANGED flags
                     /\ \/ at \in {"errors", "configs", "blocked"}
                        \/ \A ev \in ToSet(list[Step.c]) : ~ Wanted(ev)
        PROVE  IInv'
    <2>1. todo' = todo /\ at' = where /\ Step' = Step
      BY <1>7 DEF Stay, Step
    <2>2. WatchSet' /\ WaitHeeded'
      BY <1>1, <2>1 DEF WatchSet, WaitHeeded
    <2>3. EventHeeded'
      BY <1>1, <1>7, <2>1 DEF Heeded, EventHeeded, Wanted
    <2>4. EventsConserved'
      BY <1>7 DEF EventsConserved
    <2> QED
      BY <1>2, <1>3, <1>4, <1>7, <2>1, <2>2, <2>3, <2>4 DEF TypeOK, Heeded
  <1>8. CASE EventLooked
    <2>1. CASE i # 0 /\ Take(Step.c, i) /\ Finish(0)
      BY <1>6, <1>8, <2>1 DEF EventLooked
    <2>2. CASE i = 0
      <3>1. /\ Stay("errors") \/ Stay("blocked")
            /\ UNCHANGED <<list, spare, flags>>
        BY <1>8, <2>2 DEF EventLooked
      <3>2. \A ev \in ToSet(list[Step.c]) : ~ Wanted(ev)
        BY <1>5, <2>2
      <3> QED
        BY <1>3, <1>7, <3>1, <3>2
    <2> QED
      BY <1>8, <2>1, <2>2 DEF EventLooked
  <1>9. CASE EventErrors
    <2>1. at = "errors" /\ UNCHANGED <<list, spare>>
      BY <1>9 DEF EventErrors, Running
    <2>2. CASE Consume(Step.c, {"EVENT_ERROR"}) /\ Finish(-2)
      BY <1>6, <2>1, <2>2
    <2>3. CASE (Stay("configs") \/ Stay("blocked")) /\ UNCHANGED flags
      BY <1>3, <1>7, <2>1, <2>3
    <2> QED
      BY <1>9, <2>2, <2>3 DEF EventErrors
  <1>10. CASE EventConfigs
    <2>1. at = "configs" /\ UNCHANGED <<list, spare, flags>> /\ (Stay("last") \/ Stay("blocked"))
      BY <1>10 DEF EventConfigs, Running, lib
    <2> QED
      BY <1>3, <1>7, <2>1
  <1>11. CASE EventLast
    <2>1. CASE i # 0 /\ Take(Step.c, i) /\ Finish(0)
      BY <1>6, <1>11, <2>1 DEF EventLast
    <2>2. CASE Finish(-3) /\ UNCHANGED <<list, spare>>
      BY <1>6, <1>11, <2>2 DEF EventLast
    <2> QED
      BY <1>11, <2>1, <2>2 DEF EventLast
  <1>12. CASE EventWakes
    <2>1. Consume(Step.c, Step.awaited) /\ UNCHANGED <<list, spare>>
      BY <1>12 DEF EventWakes
    <2>2. flags' \in [Comps -> SUBSET Flags]
      BY <1>2, <2>1, ConsumeTypes
    <2>3. CASE Finish(-2)
      BY <1>6, <2>1, <2>3
    <2>4. CASE Stay("last") \/ Stay("start")
      BY <1>7, <2>1, <2>2, <2>4
    <2> QED
      BY <1>12, <2>3, <2>4 DEF EventWakes
  <1>13. CASE EventTimesOut
    BY <1>6, <1>13 DEF EventTimesOut, lib
  <1> QED
    BY <1>8, <1>9, <1>10, <1>11, <1>12, <1>13

\* Events are taken back one by one or all at once.
LEMMA ReturningSteps ==
    ASSUME IInv, RemoveErrors \/ ReturnAll
    PROVE  IInv'
  <1> USE DEF IInv
  <1>1. todo # <<>> /\ Step.do \in {"remove", "returnevents"} /\ Proceed(<<>>)
    BY DEF RemoveErrors, ReturnAll, Running
  <1>2. Step.c \in Comps /\ IsProgram(<<>>)
    BY <1>1, StepIsStep, StepFields
  <1>3. /\ list[Step.c] \in Seq(Events)
        /\ pending \in [Comps -> Seq(Commands)] /\ state \in [Comps -> States]
        /\ list \in [Comps -> Seq(Events)] /\ spare \in Nat /\ flags \in [Comps -> SUBSET Flags]
        /\ mask \in [Comps -> BOOLEAN] /\ related \in [Comps -> Comps \cup {NoComp}]
    BY <1>2 DEF TypeOK
  <1>4. UNCHANGED <<mask, related, pending, state>> /\ IsProgram(todo') /\ Heeded'
    <2>1. UNCHANGED <<mask, related, pending, state>>
      BY DEF RemoveErrors, ReturnAll, comps
    <2> QED
      BY <1>1, <1>2, <2>1, ProceedKeeps
  <1>5. CASE RemoveErrors
    <2> DEFINE i == Find(list[Step.c], LAMBDA ev : ev.e = "Error")
    <2>1. i = 0 \/ i \in 1 .. Len(list[Step.c])
      BY <1>2, <1>3, Found
    <2>2. IF i # 0 THEN Take(Step.c, i) /\ Consume(Step.c, {"EVENT_ERROR"})
          ELSE UNCHANGED <<list, spare, flags>>
      BY <1>5 DEF RemoveErrors
    <2> HIDE DEF i
    <2>3. list' \in [Comps -> Seq(Events)] /\ spare' \in Nat /\ EventsConserved'
      <3>1. CASE i = 0
        BY <1>3, <2>2, <3>1 DEF EventsConserved
      <3>2. CASE i # 0
        BY <1>2, <2>1, <2>2, <3>2, TakeKeeps
      <3> QED
        BY <3>1, <3>2
    <2>4. flags' \in [Comps -> SUBSET Flags]
      BY <1>2, <1>3, <2>2, ConsumeTypes
    <2> QED
      BY <1>3, <1>4, <2>3, <2>4 DEF TypeOK
  <1>6. CASE ReturnAll
    <2>1. /\ list' = [list EXCEPT ![Step.c] = <<>>]
          /\ spare' = spare + Len(list[Step.c])
          /\ UNCHANGED flags
      BY <1>6 DEF ReturnAll
    <2>2. <<>> \in Seq(Events) /\ Len(<<>>) = 0
      BY EmptySeq
    <2> DEFINE size(d) == Len(list[d])
               sizeNow(d) == Len(list'[d])
    <2>3. Source \in Comps /\ Sink \in Comps /\ Comps = {Source, Sink} /\ Source # Sink
      BY CompsAssumption DEF Comps
    <2>4. \A d \in Comps : size(d) \in Nat
      BY <1>3, LenProperties
    <2>5. sizeNow(Step.c) = 0 /\ \A d \in Comps : d # Step.c => sizeNow(d) = size(d)
      BY <1>2, <1>3, <2>1, <2>2
    <2>6. spare + size(Source) + size(Sink) = NumEvents
      BY DEF EventsConserved
    <2>7. list' \in [Comps -> Seq(Events)] /\ spare' = spare + size(Step.c)
      BY <1>3, <2>1, <2>2
    <2> HIDE DEF size, sizeNow
    <2>8. spare' \in Nat /\ spare' + sizeNow(Source) + sizeNow(Sink) = NumEvents
      <3>1. size(Source) \in Nat /\ size(Sink) \in Nat /\ spare \in Nat
        BY <1>3, <2>3, <2>4
      <3>2. CASE Step.c = Source
        <4>1. sizeNow(Source) = 0 /\ sizeNow(Sink) = size(Sink)
          BY <2>3, <2>5, <3>2
        <4>2. spare' = spare + size(Source)
          BY <2>7, <3>2
        <4> QED
          BY <2>6, <3>1, <4>1, <4>2
      <3>3. CASE Step.c = Sink
        <4>1. sizeNow(Sink) = 0 /\ sizeNow(Source) = size(Source)
          BY <2>3, <2>5, <3>3
        <4>2. spare' = spare + size(Sink)
          BY <2>7, <3>3
        <4> QED
          BY <2>6, <3>1, <4>1, <4>2
      <3> QED
        BY <1>2, <2>3, <3>2, <3>3
    <2>9. EventsConserved'
      BY <2>8 DEF EventsConserved, sizeNow
    <2> QED
      BY <1>3, <1>4, <2>1, <2>7, <2>8, <2>9 DEF TypeOK
  <1> QED
    BY <1>5, <1>6

\* The steps that do not touch the lists.
LEMMA OtherClientSteps ==
    ASSUME IInv,
           \/ SendCommand \/ ClearErrorFlag \/ SetMask \/ ConnectPorts \/ DisconnectPort
           \/ Control
    PROVE  IInv'
  <1> USE DEF IInv
  <1>1. /\ todo # <<>> /\ UNCHANGED <<list, spare, related, state>>
        /\ IsStep(Step) /\ IsProgram(<<>>)
    <2>1. todo # <<>> /\ UNCHANGED <<list, spare, related, state>>
      BY DEF SendCommand, ClearErrorFlag, SetMask, ConnectPorts, DisconnectPort, Control,
             Running, lib, comps
    <2> QED
      BY <2>1, StepIsStep
  <1>2. EventsConserved'
    BY <1>1 DEF EventsConserved
  <1>3. IsProgram(todo') /\ Heeded'
    <2>1. CASE Proceed(<<>>)
      BY <1>1, <2>1, ProceedKeeps
    <2>2. CASE Control /\ Step.do \in {"if", "ifloaded"}
      <3>1. IsProgram(Step.then) /\ IsProgram(Step.else)
        BY <1>1, <2>2, StepFields
      <3>2. Proceed(Step.then) \/ Proceed(Step.else)
        BY <2>2 DEF Control
      <3> QED
        BY <1>1, <3>1, <3>2, ProceedKeeps
    <2>3. CASE Control /\ Step.do = "choose"
      <3>1. \A p \in Step.programs : IsProgram(p)
        BY <1>1, <2>3, StepFields
      <3>2. PICK p \in Step.programs : Proceed(p)
        BY <2>3 DEF Control
      <3> QED
        BY <1>1, <3>1, <3>2, ProceedKeeps
    <2> QED
      BY <2>1, <2>2, <2>3 DEF SendCommand, ClearErrorFlag, SetMask, ConnectPorts,
                              DisconnectPort, Control, Finish
  <1>4. CASE SendCommand
    <2>1. Step.c \in Comps /\ <<Step.cmd, Step.arg>> \in Commands
      BY <1>1, <1>4, StepFields DEF SendCommand, Running
    <2>2. pending' = [pending EXCEPT ![Step.c] = Append(pending[Step.c], <<Step.cmd, Step.arg>>)]
          /\ UNCHANGED <<flags, mask>>
      BY <1>4 DEF SendCommand, lib
    <2>3. pending' \in [Comps -> Seq(Commands)]
      BY <2>1, <2>2, AppendProperties DEF TypeOK
    <2> QED
      BY <1>1, <1>2, <1>3, <2>2, <2>3 DEF TypeOK
  <1>5. CASE ClearErrorFlag
    <2>1. Step.c \in Comps
      BY <1>1, <1>5, StepFields DEF ClearErrorFlag, Running
    <2>2. flags' \in [Comps -> SUBSET Flags] /\ UNCHANGED <<mask, pending>>
      BY <1>5, <2>1, ConsumeTypes DEF ClearErrorFlag, comps
    <2> QED
      BY <1>1, <1>2, <1>3, <2>2 DEF TypeOK
  <1>6. CASE SetMask
    <2>1. Step.c \in Comps /\ Step.on \in BOOLEAN
      BY <1>1, <1>6, StepFields DEF SetMask, Running
    <2>2. mask' \in [Comps -> BOOLEAN] /\ UNCHANGED <<flags, pending>>
      BY <1>6, <2>1 DEF SetMask, comps, TypeOK
    <2> QED
      BY <1>1, <1>2, <1>3, <2>2 DEF TypeOK
  <1>7. CASE ConnectPorts \/ DisconnectPort \/ Control
    <2>1. UNCHANGED <<flags, mask, pending>>
      BY <1>7 DEF ConnectPorts, DisconnectPort, Control, lib, comps
    <2> QED
      BY <1>1, <1>2, <1>3, <2>1 DEF TypeOK
  <1> QED
    BY <1>4, <1>5, <1>6, <1>7

\* A client calls one of the library's functions.
LEMMA OperationKeeps ==
    ASSUME IInv, Operation
    PROVE  IInv'
  <1> USE DEF IInv
  <1>1. PICK op, p : Start(op, p) /\ IsProgram(p)
    <2>1. Source \in Comps /\ Sink \in Comps
      BY DEF Comps
    <2>2. \A c \in Comps, t \in States : t \in Next2[state[c]] => t \in States
      OBVIOUS
    <2>3. \A c \in Comps : Next2[state[c]] \subseteq States
      BY DEF TypeOK, States, Next2
    <2>4. CASE \E timed \in BOOLEAN : Start(Op("setup_tunnel", NoComp, ""), SetupTunnel(timed))
      BY <2>4, SetupTunnelIsProgram
    <2>5. CASE \/ Start(Op("enable_tunnel", NoComp, ""), EnableTunnel)
               \/ Start(Op("disable_tunnel", NoComp, ""), DisableTunnel)
               \/ Start(Op("teardown_tunnels", NoComp, ""), TeardownTunnels)
               \/ Start(Op("flush_tunnels", NoComp, ""), FlushTunnels)
      BY <2>5, EnableTunnelIsProgram, DisableTunnelIsProgram, SmallPrograms
    <2>6. CASE \E t \in States : Start(Op("state_transition", NoComp, t), StateTransition(t))
      BY <2>6, StateTransitionIsProgram
    <2>7. CASE \E c \in Comps : \/ \E t \in Next2[state[c]] :
                                      Start(Op("change_component_state", c, t), ChangeState(c, t))
                                \/ Start(Op("disable_port", c, ""), DisablePort(c))
                                \/ Start(Op("enable_port", c, ""), EnablePort(c))
                                \/ Start(Op("return_events", c, ""), <<ReturnEvents(c)>>)
      BY <2>3, <2>7, PortPrograms, SmallPrograms
    <2>8. CASE Start(Op("wait_for_event", NoComp, ""),
                     <<WaitEvent(Source, "PortSettingsChanged", "port",
                                 {"PARAMETER_CHANGED", "CONFIG_CHANGED", "EVENT_ERROR"}, TRUE)>>)
      BY <2>8, SmallPrograms
    <2> QED
      BY <2>4, <2>5, <2>6, <2>7, <2>8 DEF Operation
  <1>2. todo' = p /\ at' = "start"
        /\ UNCHANGED <<list, spare, flags, mask, related, pending, state>>
    BY <1>1 DEF Start, lib, comps
  <1>3. Heeded'
    BY <1>2 DEF Heeded, WatchSet, WaitHeeded, EventHeeded
  <1> QED
    BY <1>1, <1>2, <1>3 DEF TypeOK, EventsConserved

-----------------------------------------------------------------------------
(* The components' steps *)

\* Whatever a component does, it calls back with one event.
LEMMA ComponentCallsBack ==
    ASSUME TypeOK, NEW c \in Comps, Answer(c) \/ Fail(c) \/ Unpopulated(c) \/ Report(c)
    PROVE  /\ \E ev \in Events : Callback(c, ev)
           /\ UNCHANGED <<todo, at>>
           /\ pending' \in [Comps -> Seq(Commands)]
           /\ state' \in [Comps -> States]
  <1>1. pending \in [Comps -> Seq(Commands)] /\ state \in [Comps -> States]
    BY DEF TypeOK
  <1>2. /\ Event("Error", "SameState", "1") \in Events
        /\ Event("Error", "InsufficientResources", "1") \in Events
        /\ \A d2 \in {"0", "1"} : Event("Error", "PortUnpopulated", d2) \in Events
        /\ {Settings, Event("ParamOrConfigChanged", "port", ""),
            Event("Error", "StreamCorrupt", "0")} \subseteq Events
        /\ \A k \in Commands : Complete(k[1], k[2]) \in Events
    BY DEF Events
  <1>3. ASSUME Answered(c), pending[c] # <<>>
        PROVE  pending' \in [Comps -> Seq(Commands)]
    <2>1. Tail(pending[c]) \in Seq(Commands)
      BY <1>1, <1>3, HeadTailProperties
    <2> QED
      BY <1>1, <1>3, <2>1 DEF Answered
  <1>4. CASE Answer(c)
    <2> DEFINE k == Head(pending[c])
    <2>1. pending[c] # <<>> /\ Answered(c) /\ UNCHANGED <<todo, at>>
      BY <1>4 DEF Answer
    <2>2. k \in Commands
      BY <1>1, <2>1, HeadTailProperties
    <2>3. \/ Callback(c, Event("Error", "SameState", "1")) /\ state' = state
          \/ /\ Callback(c, Complete(k[1], k[2]))
             /\ state' = IF k[1] = "StateSet" THEN [state EXCEPT ![c] = k[2]] ELSE state
      BY <1>4 DEF Answer
    <2>4. k[1] = "StateSet" => k[2] \in States
      BY <2>2 DEF Commands
    <2>5. state' \in [Comps -> States]
      <3> HIDE DEF k
      <3> QED
        BY <1>1, <2>3, <2>4
    <2>6. \E ev \in Events : Callback(c, ev)
      <3> HIDE DEF k
      <3> QED
        BY <1>2, <2>2, <2>3
    <2> QED
      BY <1>3, <2>1, <2>5, <2>6
  <1>5. CASE Fail(c)
    <2>1. pending[c] # <<>> /\ Answered(c) /\ UNCHANGED <<todo, at, state>>
          /\ Callback(c, Event("Error", "InsufficientResources", "1"))
      BY <1>5 DEF Fail, Asked
    <2> QED
      BY <1>1, <1>2, <1>3, <2>1
  <1>6. CASE Unpopulated(c)
    <2>1. UNCHANGED <<todo, at, state, pending>>
          /\ \E d2 \in {"0", "1"} : Callback(c, Event("Error", "PortUnpopulated", d2))
      BY <1>6 DEF Unpopulated
    <2> QED
      BY <1>1, <1>2, <2>1
  <1>7. CASE Report(c)
    <2>1. UNCHANGED <<todo, at, state, pending>>
          /\ \E ev \in {Settings, Event("ParamOrConfigChanged", "port", ""),
                        Event("Error", "StreamCorrupt", "0")} : Callback(c, ev)
      BY <1>7 DEF Report, comps
    <2> QED
      BY <1>1, <1>2, <2>1
  <1> QED
    BY <1>4, <1>5, <1>6, <1>7

\* What a component does, which reaches the client as a callback, preserves the invariant.
LEMMA ComponentKeeps ==
    ASSUME IInv, NEW c \in Comps, Answer(c) \/ Fail(c) \/ Unpopulated(c) \/ Report(c)
    PROVE  IInv'
  <1> USE DEF IInv
  <1>1. PICK ev \in Events : Callback(c, ev)
    BY ComponentCallsBack
  <1>2. /\ UNCHANGED <<todo, at>> /\ pending' \in [Comps -> Seq(Commands)]
        /\ state' \in [Comps -> States]
    BY ComponentCallsBack
  <1>3. EventsConserved'
    BY <1>1, CallbackConserves
  <1>4. Heeded'
    BY <1>1, <1>2, CallbackHeeded
  <1>5. TypeOK'
    BY <1>1, <1>2, CallbackTypes DEF TypeOK
  <1> QED
    BY <1>3, <1>4, <1>5

-----------------------------------------------------------------------------
(* The theorems *)

\* The lists are empty at first.
LEMMA InitHolds ==
    ASSUME Init
    PROVE  IInv /\ ListsShort /\ "event_list" \notin asserted
  <1>1. Source \in Comps /\ Sink \in Comps /\ Comps = {Source, Sink} /\ Source # Sink
    BY CompsAssumption DEF Comps
  <1>2. <<>> \in Seq(Events) /\ Len(<<>>) = 0
    BY EmptySeq
  <1>3. <<Settings, Settings>> \in Seq(Events) /\ Len(<<Settings, Settings>>) = 2
    <2>1. Settings \in Events
      BY DEF Events
    <2> HIDE DEF Settings
    <2> QED
      BY <2>1
  <1>4. \/ list = [c \in Comps |-> <<>>]
        \/ list = [c \in Comps |-> IF c = Sink THEN <<>> ELSE <<Settings, Settings>>]
    BY DEF Init
  <1>5. /\ list \in [Comps -> Seq(Events)]
        /\ Len(list[Source]) \in {0, 2} /\ Len(list[Sink]) = 0
    BY <1>1, <1>2, <1>3, <1>4
  <1>6. spare = NumEvents - Len(list[Source])
    BY DEF Init
  <1>7. spare \in Nat /\ spare + Len(list[Source]) + Len(list[Sink]) = NumEvents
    <2> DEFINE a == Len(list[Source])
               b == Len(list[Sink])
    <2>1. a \in {0, 2} /\ b = 0 /\ spare = NumEvents - a
      BY <1>5, <1>6
    <2> HIDE DEF a, b
    <2>2. spare \in Nat /\ spare + a + b = NumEvents
      BY <2>1, NumEventsAssumption
    <2> QED
      BY <2>2 DEF a, b
  <1>8. state \in [Comps -> States]
    BY DEF Init, States, Next2
  <1>9. TypeOK
    BY <1>2, <1>5, <1>7, <1>8, ShortPrograms, EmptySeq DEF Init, TypeOK
  <1>10. Heeded
    BY DEF Init, Heeded, WatchSet, WaitHeeded, EventHeeded
  <1>11. ListsShort
    <2>1. \A c \in Comps : Len(list[c]) \in {0, 2}
      BY <1>1, <1>5
    <2>2. \A n \in {0, 2} : n <= EventKinds + 1
      BY DEF EventKinds
    <2> QED
      BY <2>1, <2>2 DEF ListsShort
  <1> QED
    BY <1>7, <1>9, <1>10, <1>11 DEF Init, IInv, EventsConserved

\* Every step preserves the invariant.
LEMMA NextKeeps ==
    ASSUME IInv, [Next]_vars
    PROVE  IInv'
  <1>1. CASE ClientStep
    BY <1>1, WaitSteps, EventWaitSteps, ReturningSteps, OtherClientSteps DEF ClientStep
  <1>2. CASE Operation
    BY <1>2, OperationKeeps
  <1>3. CASE \E c \in Comps : Answer(c) \/ Fail(c) \/ Unpopulated(c) \/ Report(c)
    BY <1>3, ComponentKeeps
  <1>4. CASE UNCHANGED vars
    <2>1. UNCHANGED <<list, spare, flags, mask, related, todo, at, pending, state>>
      BY <1>4 DEF vars, lib, client, comps
    <2>2. TypeOK' /\ EventsConserved'
      BY <2>1 DEF IInv, TypeOK, EventsConserved
    <2>3. Step' = Step
      BY <2>1 DEF Step
    <2>4. WatchSet' /\ WaitHeeded' /\ EventHeeded'
      BY <2>1, <2>3 DEF IInv, Heeded, WatchSet, WaitHeeded, EventHeeded, Awaited, Failing,
                        WaitMask, Wanted
    <2> QED
      BY <2>2, <2>4 DEF IInv, Heeded
  <1> QED
    BY <1>1, <1>2, <1>3, <1>4 DEF Next

\* The invariant: types, programs of known steps, records accounted for, waits heeded.
THEOREM Invariant == Spec => []IInv
  <1>1. Init => IInv
    BY InitHolds
  <1>2. IInv /\ [Next]_vars => IInv'
    BY NextKeeps
  <1> QED
    BY <1>1, <1>2, PTL DEF Spec

\* No record of an event is lost or listed twice, however many records there are and
\* whatever the client and the components do (ilclient.c:376-383, 688-693, 1220-1234,
\* 1439-1444, 1582-1596).
THEOREM RecordsAreConserved == Spec => []EventsConserved
  <1>1. IInv => EventsConserved
    BY DEF IInv
  <1> QED
    BY <1>1, Invariant, PTL

\* A client that is blocked in a wait has nothing to wait for in the lists, or a flag that
\* wakes it is up (ilclient.c:1111-1162, 1179-1257, 1412-1598).
THEOREM NoWakeupIsLost == Spec => []NoLostWakeup
  <1>1. IInv => NoLostWakeup
    <2> SUFFICES ASSUME IInv PROVE NoLostWakeup
      OBVIOUS
    <2>1. ASSUME Running("wait", "blocked")
          PROVE  \/ Find(list[Step.c], Awaited) = 0 /\ ~ Failing(Step.other)
                 \/ flags[Step.c] \cap WaitMask # {}
      <3>1. todo # <<>> /\ Step.do = "wait" /\ at = "blocked"
        BY <2>1 DEF Running
      <3>2. Step.c \in Comps
        BY <3>1, StepIsStep, StepFields DEF IInv
      <3>3. list[Step.c] \in Seq(Events)
        BY <3>2 DEF IInv, TypeOK
      <3>4. (\A ev \in ToSet(list[Step.c]) : ~ Awaited(ev)) => Find(list[Step.c], Awaited) = 0
        <4> DEFINE i == Find(list[Step.c], Awaited)
        <4>1. \/ i = 0 /\ \A ev \in ToSet(list[Step.c]) : ~ Awaited(ev)
              \/ i \in 1 .. Len(list[Step.c]) /\ Awaited(list[Step.c][i])
          BY <3>2, <3>3, Found
        <4> HIDE DEF i
        <4>2. i \in 1 .. Len(list[Step.c]) => list[Step.c][i] \in ToSet(list[Step.c])
          BY <3>3, LenProperties DEF ToSet
        <4>3. (\A ev \in ToSet(list[Step.c]) : ~ Awaited(ev)) => i = 0
          BY <4>1, <4>2
        <4> QED
          BY <4>3 DEF i
      <3> QED
        BY <3>1, <3>4 DEF IInv, Heeded, WaitHeeded
    <2>2. ASSUME Running("waitevent", "blocked")
          PROVE  Find(list[Step.c], Wanted) = 0 \/ flags[Step.c] \cap Step.awaited # {}
      <3>1. todo # <<>> /\ Step.do = "waitevent" /\ at = "blocked"
        BY <2>2 DEF Running
      <3>2. Step.c \in Comps
        BY <3>1, StepIsStep, StepFields DEF IInv
      <3>3. list[Step.c] \in Seq(Events)
        BY <3>2 DEF IInv, TypeOK
      <3>4. (\A ev \in ToSet(list[Step.c]) : ~ Wanted(ev)) => Find(list[Step.c], Wanted) = 0
        <4> DEFINE i == Find(list[Step.c], Wanted)
        <4>1. \/ i = 0 /\ \A ev \in ToSet(list[Step.c]) : ~ Wanted(ev)
              \/ i \in 1 .. Len(list[Step.c]) /\ Wanted(list[Step.c][i])
          BY <3>2, <3>3, Found
        <4> HIDE DEF i
        <4>2. i \in 1 .. Len(list[Step.c]) => list[Step.c][i] \in ToSet(list[Step.c])
          BY <3>3, LenProperties DEF ToSet
        <4>3. (\A ev \in ToSet(list[Step.c]) : ~ Wanted(ev)) => i = 0
          BY <4>1, <4>2
        <4> QED
          BY <4>3 DEF i
      <3> QED
        BY <3>1, <3>4 DEF IInv, Heeded, EventHeeded
    <2> QED
      BY <2>1, <2>2 DEF NoLostWakeup
  <1> QED
    BY <1>1, Invariant, PTL

-----------------------------------------------------------------------------
(* The list of free records does not run out *)

\* A set with one more member has at most one more.
LEMMA OneMore ==
    ASSUME NEW S, NEW n \in Nat, NEW x, IsFiniteSet(S), Cardinality(S) <= n
    PROVE  IsFiniteSet(S \cup {x}) /\ Cardinality(S \cup {x}) <= n + 1
  <1>1. Cardinality(S) \in Nat
    BY FS_CardinalityType
  <1>2. /\ IsFiniteSet(S \cup {x})
        /\ Cardinality(S \cup {x}) = IF x \in S THEN Cardinality(S) ELSE Cardinality(S) + 1
    BY FS_AddElement
  <1> QED
    BY <1>1, <1>2

\* There are 13 different events.
LEMMA EventsAreFew == IsFiniteSet(Events) /\ Cardinality(Events) <= EventKinds
  <1> DEFINE few(S, n) == IsFiniteSet(S) /\ Cardinality(S) <= n
             grown(S, T) == \E x : T = S \cup {x}
             e1 == Complete("StateSet", "Loaded")
             e2 == Complete("StateSet", "Idle")
             e3 == Complete("StateSet", "Executing")
             e4 == Complete("PortDisable", "port")
             e5 == Complete("PortEnable", "port")
             e6 == Complete("Flush", "port")
             e7 == Event("Error", "SameState", "1")
             e8 == Event("Error", "InsufficientResources", "1")
             e9 == Event("Error", "PortUnpopulated", "0")
             e10 == Event("Error", "PortUnpopulated", "1")
             e11 == Event("Error", "StreamCorrupt", "0")
             e12 == Settings
             e13 == Event("ParamOrConfigChanged", "port", "")
             s1 == {e1}
             s2 == s1 \cup {e2}
             s3 == s2 \cup {e3}
             s4 == s3 \cup {e4}
             s5 == s4 \cup {e5}
             s6 == s5 \cup {e6}
             s7 == s6 \cup {e7}
             s8 == s7 \cup {e8}
             s9 == s8 \cup {e9}
             s10 == s9 \cup {e10}
             s11 == s10 \cup {e11}
             s12 == s11 \cup {e12}
             s13 == s12 \cup {e13}
  <1>1. few(s1, 1)
    BY FS_Singleton
  <1>2. \A S, T : \A n \in Nat : few(S, n) /\ grown(S, T) => few(T, n + 1)
    BY OneMore
  <1>3. Events = s13
    <2>1. States = {"Loaded", "Idle", "Executing"}
      BY DEF States, Next2
    <2>2. Commands = {<<"StateSet", "Loaded">>, <<"StateSet", "Idle">>,
                      <<"StateSet", "Executing">>, <<"PortDisable", "port">>,
                      <<"PortEnable", "port">>, <<"Flush", "port">>}
      BY <2>1 DEF Commands
    <2>3. {Complete(k[1], k[2]) : k \in Commands} = {e1, e2, e3, e4, e5, e6}
      BY <2>2
    <2> QED
      BY <2>3 DEF Events
  <1>4. /\ grown(s1, s2) /\ grown(s2, s3) /\ grown(s3, s4)
        /\ grown(s4, s5) /\ grown(s5, s6) /\ grown(s6, s7)
        /\ grown(s7, s8) /\ grown(s8, s9) /\ grown(s9, s10)
        /\ grown(s10, s11) /\ grown(s11, s12) /\ grown(s12, s13)
    OBVIOUS
  <1> HIDE DEF few, grown, s1, s2, s3, s4, s5, s6, s7, s8, s9, s10, s11, s12, s13
  <1>5. few(s2, 2)
    BY <1>1, <1>2, <1>4, 1 + 1 = 2
  <1>6. few(s3, 3)
    BY <1>5, <1>2, <1>4, 2 + 1 = 3
  <1>7. few(s4, 4)
    BY <1>6, <1>2, <1>4, 3 + 1 = 4
  <1>8. few(s5, 5)
    BY <1>7, <1>2, <1>4, 4 + 1 = 5
  <1>9. few(s6, 6)
    BY <1>8, <1>2, <1>4, 5 + 1 = 6
  <1>10. few(s7, 7)
    BY <1>9, <1>2, <1>4, 6 + 1 = 7
  <1>11. few(s8, 8)
    BY <1>10, <1>2, <1>4, 7 + 1 = 8
  <1>12. few(s9, 9)
    BY <1>11, <1>2, <1>4, 8 + 1 = 9
  <1>13. few(s10, 10)
    BY <1>12, <1>2, <1>4, 9 + 1 = 10
  <1>14. few(s11, 11)
    BY <1>13, <1>2, <1>4, 10 + 1 = 11
  <1>15. few(s12, 12)
    BY <1>14, <1>2, <1>4, 11 + 1 = 12
  <1>16. few(s13, 13)
    BY <1>15, <1>2, <1>4, 12 + 1 = 13
  <1> QED
    BY <1>3, <1>16 DEF few, EventKinds

\* The client takes records out of the lists, and asserts nothing of the free list.
LEMMA ClientTakes ==
    ASSUME IInv, ClientStep \/ Operation
    PROVE  /\ \A d \in Comps : Len(list'[d]) <= Len(list[d])
           /\ "event_list" \in asserted' => "event_list" \in asserted
  <1> USE DEF IInv
  <1>1. list \in [Comps -> Seq(Events)] /\ \A d \in Comps : Len(list[d]) \in Nat
    BY LenProperties DEF TypeOK
  <1>2. ASSUME UNCHANGED list
        PROVE  \A d \in Comps : Len(list'[d]) <= Len(list[d])
    BY <1>1, <1>2
  <1>3. ASSUME NEW c \in Comps, NEW i \in 1 .. Len(list[c]), Take(c, i)
        PROVE  \A d \in Comps : Len(list'[d]) <= Len(list[d])
    BY <1>3, TakeKeeps
  <1>4. ASSUME todo # <<>>
        PROVE  IsStep(Step)
    BY <1>4, StepIsStep
  <1>5. CASE \/ WaitBegins \/ WaitWakes \/ WaitEnds \/ EventErrors \/ EventConfigs \/ EventWakes
             \/ EventTimesOut \/ SendCommand \/ ClearErrorFlag \/ SetMask \/ ConnectPorts
             \/ DisconnectPort \/ Operation
    <2>1. UNCHANGED <<list, asserted>>
      BY <1>5 DEF WaitBegins, WaitWakes, WaitEnds, EventErrors, EventConfigs, EventWakes,
                  EventTimesOut, SendCommand, ClearErrorFlag, SetMask, ConnectPorts,
                  DisconnectPort, Operation, Start, lib
    <2> QED
      BY <1>2, <2>1
  <1>6. CASE Control
    <2>1. UNCHANGED list /\ todo # <<>>
          /\ \/ asserted' = asserted
             \/ Step.do = "assert" /\ asserted' = asserted \cup {Step.what}
      BY <1>6 DEF Control, lib
    <2>2. Step.do = "assert" => Step.what # "event_list"
      BY <1>4, <2>1, StepFields
    <2> QED
      BY <1>2, <2>1, <2>2
  <1>7. CASE WaitScans
    <2>1. todo # <<>> /\ Step.do = "wait" /\ asserted' = asserted
      BY <1>7 DEF WaitScans, Running
    <2>2. Step.c \in Comps /\ list[Step.c] \in Seq(Events)
      BY <1>1, <1>4, <2>1, StepFields
    <2> DEFINE i == Find(list[Step.c], Awaited)
    <2>3. i = 0 \/ i \in 1 .. Len(list[Step.c])
      BY <2>2, Found
    <2>4. (i # 0 /\ Take(Step.c, i)) \/ UNCHANGED list
      BY <1>7 DEF WaitScans
    <2> HIDE DEF i
    <2> QED
      BY <1>2, <1>3, <2>1, <2>2, <2>3, <2>4
  <1>8. CASE EventLooked \/ EventLast
    <2>1. todo # <<>> /\ Step.do = "waitevent" /\ asserted' = asserted
      BY <1>8 DEF EventLooked, EventLast, Running
    <2>2. Step.c \in Comps /\ list[Step.c] \in Seq(Events)
      BY <1>1, <1>4, <2>1, StepFields
    <2> DEFINE i == Find(list[Step.c], Wanted)
    <2>3. i = 0 \/ i \in 1 .. Len(list[Step.c])
      BY <2>2, Found
    <2>4. (i # 0 /\ Take(Step.c, i)) \/ UNCHANGED list
      BY <1>8 DEF EventLooked, EventLast
    <2> HIDE DEF i
    <2> QED
      BY <1>2, <1>3, <2>1, <2>2, <2>3, <2>4
  <1>9. CASE RemoveErrors
    <2>1. todo # <<>> /\ Step.do = "remove" /\ asserted' = asserted
      BY <1>9 DEF RemoveErrors, Running
    <2>2. Step.c \in Comps /\ list[Step.c] \in Seq(Events)
      BY <1>1, <1>4, <2>1, StepFields
    <2> DEFINE i == Find(list[Step.c], LAMBDA ev : ev.e = "Error")
    <2>3. i = 0 \/ i \in 1 .. Len(list[Step.c])
      BY <2>2, Found
    <2>4. (i # 0 /\ Take(Step.c, i)) \/ UNCHANGED list
      BY <1>9 DEF RemoveErrors
    <2> HIDE DEF i
    <2> QED
      BY <1>2, <1>3, <2>1, <2>2, <2>3, <2>4
  <1>10. CASE ReturnAll
    <2>1. todo # <<>> /\ Step.do = "returnevents" /\ asserted' = asserted
          /\ list' = [list EXCEPT ![Step.c] = <<>>]
      BY <1>10 DEF ReturnAll, Running
    <2>2. Step.c \in Comps
      BY <1>4, <2>1, StepFields
    <2>3. Len(<<>>) = 0
      BY EmptySeq
    <2>4. ASSUME NEW d \in Comps
          PROVE  Len(list'[d]) <= Len(list[d])
      <3>1. list'[d] = list[d] \/ list'[d] = <<>>
        BY <1>1, <2>1, <2>2
      <3> QED
        BY <1>1, <2>3, <3>1
    <2> QED
      BY <2>1, <2>4
  <1> QED
    BY <1>5, <1>6, <1>7, <1>8, <1>9, <1>10 DEF ClientStep

\* With more than 27 records a callback finds one free: the two lists hold each event once,
\* and the last one of each list perhaps again.
LEMMA CallbackFindsRecord ==
    ASSUME IInv, ListsShort, NumEvents > 2 * EventKinds + 1,
           NEW c \in Comps, NEW ev \in Events, Callback(c, ev)
    PROVE  ListsShort' /\ ("event_list" \in asserted' => "event_list" \in asserted)
  <1>1. TypeOK /\ EventsConserved
    BY DEF IInv
  <1>2. PICK kept \in Seq(Events), new \in Seq(Events) :
           /\ list' = [list EXCEPT ![c] = new \o kept]
           /\ Len(new \o kept) = Len(new) + Len(kept)
           /\ kept = Dedupe(list[c])
           /\ new = <<>> \/ (new = <<ev>> /\ ~ Masked(c, ev))
           /\ asserted' = IF spare + Len(list[c]) - Len(kept) = 0
                          THEN asserted \cup {"event_list"} ELSE asserted
    BY <1>1, CallbackRecords
  <1>3. list \in [Comps -> Seq(Events)] /\ list[c] \in Seq(Events) /\ spare \in Nat
    BY <1>1 DEF TypeOK
  <1>4. Source \in Comps /\ Sink \in Comps /\ Comps = {Source, Sink} /\ Source # Sink
    BY CompsAssumption DEF Comps
  <1>5. Len(kept) \in Nat /\ Len(kept) <= EventKinds
    <2>1. Len(kept) <= Cardinality(Events) /\ Cardinality(Events) \in Nat /\ Len(kept) \in Nat
      BY <1>2, <1>3, DedupeIsShort, EventsAreFew, FS_CardinalityType, LenProperties
    <2> DEFINE n == Len(kept)
               m == Cardinality(Events)
    <2>2. n <= m /\ m \in Nat /\ n \in Nat /\ m <= EventKinds
      BY <2>1, EventsAreFew
    <2> HIDE DEF n, m
    <2>3. n <= EventKinds
      BY <2>2 DEF EventKinds
    <2> QED
      BY <2>1, <2>3 DEF n
  <1>6. Len(new) \in {0, 1}
    BY <1>2, EmptySeq
  <1> DEFINE size(d) == Len(list[d])
             sizeNow(d) == Len(list'[d])
             k == Len(kept)
             n == Len(new)
  <1>7. /\ size(Source) \in Nat /\ size(Sink) \in Nat
        /\ size(Source) <= EventKinds + 1 /\ size(Sink) <= EventKinds + 1
    BY <1>3, <1>4, LenProperties DEF ListsShort
  <1>8. k \in Nat /\ k <= EventKinds /\ n \in {0, 1} /\ sizeNow(c) = n + k
    BY <1>2, <1>3, <1>5, <1>6
  <1>9. \A d \in Comps : d # c => sizeNow(d) = size(d)
    BY <1>2, <1>3
  <1>10. spare + size(Source) + size(Sink) = NumEvents
    BY <1>1 DEF EventsConserved
  <1>11. asserted' = IF spare + size(c) - k = 0 THEN asserted \cup {"event_list"} ELSE asserted
    BY <1>2
  <1> HIDE DEF size, sizeNow, k, n
  <1>12. \A d \in Comps : sizeNow(d) <= EventKinds + 1
    BY <1>4, <1>7, <1>8, <1>9 DEF EventKinds
  <1>13. spare + size(c) - k # 0
    BY <1>3, <1>4, <1>7, <1>8, <1>10, NumEventsAssumption DEF EventKinds
  <1>14. ListsShort'
    BY <1>12 DEF ListsShort, sizeNow
  <1> QED
    BY <1>11, <1>13, <1>14

\* With enough records no callback ever fails its assertion that there is a free one,
\* however many events the components report ("it's better than asserting when we run
\* out", ilclient.c:1425); NUM_EVENTS is 100 (ilclient.c:77).
THEOREM FreeListSuffices ==
    ASSUME NumEvents > 2 * EventKinds + 1
    PROVE  Spec => []("event_list" \notin asserted)
  <1> DEFINE Suffices == IInv /\ ListsShort /\ "event_list" \notin asserted
  <1>1. Init => Suffices
    BY InitHolds
  <1>2. Suffices /\ [Next]_vars => Suffices'
    <2> SUFFICES ASSUME Suffices, [Next]_vars
                 PROVE  ListsShort' /\ "event_list" \notin asserted'
      BY NextKeeps
    <2>1. CASE ClientStep \/ Operation
      <3>1. /\ \A d \in Comps : Len(list'[d]) <= Len(list[d])
            /\ "event_list" \notin asserted'
        BY <2>1, ClientTakes
      <3>2. TypeOK /\ TypeOK'
        BY <2>1, NextKeeps DEF IInv
      <3>3. ASSUME NEW d \in Comps
            PROVE  Len(list'[d]) <= EventKinds + 1
        <4> DEFINE a == Len(list[d])
                   b == Len(list'[d])
        <4>1. a \in Nat /\ b \in Nat
          BY <3>2, LenProperties DEF TypeOK
        <4>2. b <= a /\ a <= EventKinds + 1
          BY <3>1 DEF ListsShort
        <4> HIDE DEF a, b
        <4>3. b <= EventKinds + 1
          BY <4>1, <4>2 DEF EventKinds
        <4> QED
          BY <4>3 DEF b
      <3> QED
        BY <3>1, <3>3 DEF ListsShort
    <2>2. CASE \E c \in Comps : Answer(c) \/ Fail(c) \/ Unpopulated(c) \/ Report(c)
      <3>1. PICK c \in Comps : Answer(c) \/ Fail(c) \/ Unpopulated(c) \/ Report(c)
        BY <2>2
      <3>2. PICK ev \in Events : Callback(c, ev)
        BY <3>1, ComponentCallsBack DEF IInv
      <3> QED
        BY <3>2, CallbackFindsRecord
    <2>3. CASE UNCHANGED vars
      BY <2>3 DEF vars, lib, client, ListsShort
    <2> QED
      BY <2>1, <2>2, <2>3 DEF Next
  <1>3. Suffices => "event_list" \notin asserted
    OBVIOUS
  <1> QED
    BY <1>1, <1>2, <1>3, PTL DEF Spec

-----------------------------------------------------------------------------
(* Success is true.  On the way to success a component has at most one      *)
(* command to answer, and its list at most one answer, which is that of     *)
(* this command.  Anything else leads to a result that is not 0.            *)

Nothing == <<"none", "">>
ToState(t) == <<"StateSet", t>>
On == <<"PortEnable", "port">>
Off == <<"PortDisable", "port">>
Flushing == <<"Flush", "port">>

\* What a wait for a command may take, and what it takes for success.
IsAnswer(ev) == ev.e = "CmdComplete" \/ IsFailure(ev)
Succeeded(ev) == ev.e = "CmdComplete" \/ ev.d1 = "SameState"

Quiet(s) == \A i \in 1 .. Len(s) : ~ IsAnswer(s[i])
Lone(s) == \A i, j \in 1 .. Len(s) : IsAnswer(s[i]) /\ IsAnswer(s[j]) => i = j

\* The command k had its effect on c.
Effect(c, k) == /\ k[1] = "StateSet" => state[c] = k[2]
                /\ k[1] = "PortEnable" => enabled[c]
                /\ k[1] = "PortDisable" => ~ enabled[c]

\* While o is to be answered the effect of k stays.
Stays(o, k) == /\ o[1] = "StateSet" => k[1] # "StateSet"
               /\ o[1] = "PortEnable" => k[1] # "PortDisable"
               /\ o[1] = "PortDisable" => k[1] # "PortEnable"

\* c owes the answer to o, or has given it, and the client has not taken it.
Owes(c, o) ==
    /\ pending[c] = <<>> \/ (o # Nothing /\ pending[c] = <<o>> /\ Quiet(list[c]))
    /\ Lone(list[c])
    /\ \A i \in 1 .. Len(list[c]) :
          IsAnswer(list[c][i]) => o # Nothing /\ (Succeeded(list[c][i]) => Effect(c, o))

\* Commands that make the other end of the tunnel report PortUnpopulated.
Tearing == {Off, ToState("Loaded")}

\* What the components are at: a and b are what source and sink owe, K the effects that
\* are known, and m whether PortUnpopulated is masked ("masked" or "open").
Here(a, b, K, m) ==
    /\ Owes(Source, a) /\ Owes(Sink, b)
    /\ \A x \in K : x[1] \in Comps /\ Effect(x[1], x[2])
                    /\ Stays(IF x[1] = Source THEN a ELSE b, x[2])
    /\ IF m = "masked" THEN \A c \in Comps : mask[c]
       ELSE freed = {} /\ (tunnel => a \notin Tearing /\ b \notin Tearing)

Both(k) == {<<Source, k>>, <<Sink, k>>}
If0(K, a, b, m) == ret = 0 => Here(a, b, K, m)

Then(x, r) == <<x>> \o r

\* What is left of an operation has a result that is not 0, and then comes k.
Lost(k) == \E p, v : IsProgram(p) /\ v \in Int \ {0} /\ todo = p \o Then(Result(v), k)

\* ilclient_change_component_state
AtChange(c, t, k) ==
    LET end == Then(If({0}, <<>>, <<RemoveError(c), Result(-1)>>), k)
        waiting == Then(Wait(c, "StateSet", t), end)
        a == IF c = Source THEN ToState(t) ELSE Nothing
        b == IF c = Source THEN Nothing ELSE ToState(t)
        done == {<<c, ToState(t)>>}
    IN  /\ t = "Loaded" => ~ tunnel
        /\ \/ todo = Then(Send(c, "StateSet", t), waiting) /\ Here(Nothing, Nothing, {}, "open")
           \/ todo = waiting /\ at # "end" /\ Here(a, b, {}, "open")
           \/ todo = end /\ If0(done, Nothing, Nothing, "open")

\* ilclient_disable_port and ilclient_enable_port
AtPort(c, o, what) ==
    LET end == <<Check(what)>>
        waiting == Then(Wait(c, o[1], "port"), end)
        a == IF c = Source THEN o ELSE Nothing
        b == IF c = Source THEN Nothing ELSE o
    IN  /\ o = Off => ~ tunnel
        /\ \/ todo = Then(Send(c, o[1], "port"), waiting) /\ Here(Nothing, Nothing, {}, "open")
           \/ todo = waiting /\ at # "end" /\ Here(a, b, {}, "open")
           \/ todo = end /\ If0({}, Nothing, Nothing, "open")

\* The masks are set and reset on the way.
AtMasking(k) ==
    \/ /\ todo = Then(Mask(Source, TRUE), Then(Mask(Sink, TRUE), k))
       /\ Here(Nothing, Nothing, {}, "open")
    \/ todo = Then(Mask(Sink, TRUE), k) /\ mask[Source] /\ Here(Nothing, Nothing, {}, "open")
AtUnmasking(K, k) ==
    \/ /\ todo = Then(Mask(Source, FALSE), Then(Mask(Sink, FALSE), k))
       /\ ret = 0 /\ Here(Nothing, Nothing, K, "masked")
    \/ todo = Then(Mask(Sink, FALSE), k) /\ ret = 0 /\ Here(Nothing, Nothing, K, "open")

\* Both components have been told o, and are awaited one after the other.
Awaiting(o, what, k) ==
    Then(Wait(Source, o[1], o[2]), Then(Check(what),
         Then(Wait(Sink, o[1], o[2]), Then(Check(what), k))))
AtAwaiting(o, what, m, k) ==
    LET end == Then(Check(what), k)
        waiting == Then(Wait(Sink, o[1], o[2]), end)
    IN  \/ todo = Awaiting(o, what, k) /\ at # "end" /\ Here(o, o, {}, m)
        \/ todo = Then(Check(what), waiting) /\ If0({<<Source, o>>}, Nothing, o, m)
        \/ todo = waiting /\ at # "end" /\ Here(Nothing, o, {<<Source, o>>}, m)
        \/ todo = end /\ If0(Both(o), Nothing, Nothing, m)

\* ilclient_disable_tunnel
AtDisableTunnel(k) ==
    LET unmask == Then(Mask(Source, FALSE), Then(Mask(Sink, FALSE), k))
        await == Awaiting(Off, "disable", unmask)
        sendSink == Then(Send(Sink, "PortDisable", "port"), await)
        sendSource == Then(Send(Source, "PortDisable", "port"), sendSink)
    IN  \/ AtMasking(sendSource)
        \/ todo = sendSource /\ Here(Nothing, Nothing, {}, "masked")
        \/ todo = sendSink /\ Here(Off, Nothing, {}, "masked")
        \/ AtAwaiting(Off, "disable", "masked", unmask)
        \/ AtUnmasking(Both(Off), k)

\* ilclient_enable_tunnel
FailTunnel == DisablePort(Source) \o <<Result(-1)>>
ForgetSource == <<Wait(Source, "PortEnable", "port")>> \o DisablePort(Sink)
CleanUpSource == <<WaitEvent(Source, "CmdComplete", "PortEnable",
                             {"PORT_ENABLED", "EVENT_ERROR"}, FALSE), Result(-1)>>
FinishEnd == If({0}, <<Result(0)>>, DisablePort(Sink) \o <<Result(-1)>>)
FinishTunnel == <<Wait(Source, "PortEnable", "port"), FinishEnd>>
ToIdleEnd == If({0}, FinishTunnel, <<If({-2}, ForgetSource, <<>>)>> \o FailTunnel)
ToIdle == <<Send(Sink, "StateSet", "Idle"), WaitDual(Sink, "StateSet", "Idle", Source), ToIdleEnd>>
LoadedEnd == If({0}, ToIdle, FailTunnel)
ElseEnd == If({0}, FinishTunnel, DisablePort(Source) \o CleanUpSource)
EnableBranch == IfLoaded(Sink, <<Wait(Sink, "PortEnable", "port"), LoadedEnd>>,
                               <<Wait(Sink, "PortEnable", "port"), ElseEnd>>)

SinkOn == {<<Sink, On>>}
AtEnableTunnel(k) ==
    LET branch == Then(EnableBranch, k)
        sendSink == Then(Send(Sink, "PortEnable", "port"), branch)
        dual == Then(WaitDual(Sink, "StateSet", "Idle", Source), Then(ToIdleEnd, k))
    IN  \/ todo = Then(Send(Source, "PortEnable", "port"), sendSink)
           /\ Here(Nothing, Nothing, {}, "open")
        \/ todo = sendSink /\ Here(On, Nothing, {}, "open")
        \/ todo = branch /\ Here(On, On, {}, "open")
        \/ \E x \in {LoadedEnd, ElseEnd} :
              \/ /\ todo = Then(Wait(Sink, "PortEnable", "port"), Then(x, k)) /\ at # "end"
                 /\ Here(On, On, {}, "open")
              \/ todo = Then(x, k) /\ If0(SinkOn, On, Nothing, "open")
        \/ todo = Then(Send(Sink, "StateSet", "Idle"), dual) /\ Here(On, Nothing, SinkOn, "open")
        \/ todo = dual /\ at # "end" /\ Here(On, ToState("Idle"), SinkOn, "open")
        \/ todo = dual /\ at = "end" /\ If0(SinkOn, On, Nothing, "open")
        \/ todo = Then(ToIdleEnd, k) /\ If0(SinkOn, On, Nothing, "open")
        \/ /\ todo = Then(Wait(Source, "PortEnable", "port"), Then(FinishEnd, k)) /\ at # "end"
           /\ Here(On, Nothing, SinkOn, "open")
        \/ todo = Then(FinishEnd, k) /\ If0(Both(On), Nothing, Nothing, "open")
        \/ todo = Then(Result(0), k) /\ Here(Nothing, Nothing, Both(On), "open")

\* ilclient_setup_tunnel
NotConnected == <<Disconnect(Source), Disconnect(Sink)>>
SetupEnd == If({0}, <<Result(0)>>,
               NotConnected \o <<RemoveError(Sink), RemoveError(Source)>> \o <<Result(-5)>>)
ConnectEnd == If({0}, EnableTunnel \o <<SetupEnd>>, NotConnected \o <<Result(-5)>>)
Streams == Choose({<<Connect, ConnectEnd>>, <<Result(-3)>>, <<Result(-4)>>})
SettingsEnd == If({0}, DisableTunnel \o <<Streams>>, <<>>)
SettingsWait == WaitEvent(Source, "PortSettingsChanged", "port",
                          {"PARAMETER_CHANGED", "EVENT_ERROR"}, TRUE)
SetupSettings(timed) == IF timed THEN <<SettingsWait, SettingsEnd>>
                        ELSE DisableTunnel \o <<Streams>>
SetupIdleEnd(timed) == If({0}, SetupSettings(timed), <<Result(-2)>>)
SetupStart(timed) == IfLoaded(Source, ChangeState(Source, "Idle") \o <<SetupIdleEnd(timed)>>,
                              SetupSettings(timed))
AtSetupTunnel(timed) ==
    \/ todo = <<SetupStart(timed)>> /\ Here(Nothing, Nothing, {}, "open")
    \/ AtChange(Source, "Idle", <<SetupIdleEnd(timed)>>)
    \/ todo = <<SetupIdleEnd(timed)>> /\ If0({}, Nothing, Nothing, "open")
    \/ todo = <<SettingsWait, SettingsEnd>> /\ Here(Nothing, Nothing, {}, "open")
    \/ todo = <<SettingsEnd>> /\ If0({}, Nothing, Nothing, "open")
    \/ AtDisableTunnel(<<Streams>>)
    \/ todo = <<Streams>> /\ Here(Nothing, Nothing, {}, "open")
    \/ todo = <<Connect, ConnectEnd>> /\ Here(Nothing, Nothing, {}, "open")
    \/ todo = <<ConnectEnd>> /\ (ret = 0 => tunnel /\ Here(Nothing, Nothing, {}, "open"))
    \/ tunnel /\ AtEnableTunnel(<<SetupEnd>>)
    \/ todo = <<SetupEnd>> /\ (ret = 0 => tunnel /\ Here(Nothing, Nothing, Both(On), "open"))
    \/ todo = <<Result(0)>> /\ tunnel /\ Here(Nothing, Nothing, Both(On), "open")

\* ilclient_flush_tunnels and ilclient_teardown_tunnels
AtFlush ==
    LET waitSink == <<WaitEvent(Sink, "CmdComplete", "Flush", {"PORT_FLUSH"}, FALSE)>>
        waitSource == Then(WaitEvent(Source, "CmdComplete", "Flush", {"PORT_FLUSH"}, FALSE),
                           waitSink)
        sendSink == Then(Send(Sink, "Flush", "port"), waitSource)
    IN  \/ /\ todo = Then(Send(Source, "Flush", "port"), sendSink)
           /\ Here(Nothing, Nothing, {}, "open")
        \/ todo = sendSink /\ Here(Flushing, Nothing, {}, "open")
        \/ /\ todo = waitSource /\ at \in {"start", "blocked"}
           /\ Here(Flushing, Flushing, {}, "open")
        \/ todo = waitSink /\ at \in {"start", "blocked"} /\ Here(Nothing, Flushing, {}, "open")

AtTeardown == /\ \/ todo = NotConnected
                 \/ todo = <<Disconnect(Sink)>>
              /\ ret = 0 /\ Here(Nothing, Nothing, {}, "open")

\* ilclient_state_transition
AtTransition(t) ==
    LET o == ToState(t)
        m == IF t = "Loaded" THEN "masked" ELSE "open"
        unmask == IF t = "Loaded" THEN <<Mask(Source, FALSE), Mask(Sink, FALSE)>> ELSE <<>>
        await == Awaiting(o, "state", unmask)
        tell(c) == <<ClearError(c), Send(c, "StateSet", t)>>
        choose == Then(Choose({tell(Source) \o tell(Sink), tell(Sink) \o tell(Source)}), await)
        tells(c, r) == Then(ClearError(c), Then(Send(c, "StateSet", t), r))
        owed(c, x, y) == IF c = Source THEN Here(x, y, {}, m) ELSE Here(y, x, {}, m)
    IN  \/ t = "Loaded" /\ AtMasking(choose)
        \/ todo = choose /\ Here(Nothing, Nothing, {}, m)
        \/ \E c \in Comps :
              \/ /\ \/ todo = tells(c, tells(Peer(c), await))
                    \/ todo = Then(Send(c, "StateSet", t), tells(Peer(c), await))
                 /\ Here(Nothing, Nothing, {}, m)
              \/ /\ \/ todo = tells(Peer(c), await)
                    \/ todo = Then(Send(Peer(c), "StateSet", t), await)
                 /\ owed(c, o, Nothing)
        \/ AtAwaiting(o, "state", m, unmask)
        \/ t = "Loaded" /\ AtUnmasking(Both(o), <<>>)

\* ilclient_return_events, and a wait for a change of settings
AtLook == \/ \E c \in Comps : todo = <<ReturnEvents(c)>> /\ ret = 0
          \/ todo = <<WaitEvent(Source, "PortSettingsChanged", "port",
                                {"PARAMETER_CHANGED", "CONFIG_CHANGED", "EVENT_ERROR"}, TRUE)>>

\* No operation runs, and the last one has done what it was to do.
Outcome == CASE last.name \in {"setup_tunnel", "enable_tunnel"} -> Both(On)
             [] last.name = "disable_tunnel" -> Both(Off)
             [] last.name = "state_transition" -> Both(ToState(last.s))
             [] last.name = "change_component_state" -> {<<last.c, ToState(last.s)>>}
             [] OTHER -> {}
AtRest == /\ todo = <<>> /\ ret = 0 /\ Here(Nothing, Nothing, Outcome, "open")
          /\ last.name \in {"setup_tunnel", "enable_tunnel"} => tunnel

OnTrack ==
    \/ AtRest
    \/ last.name = "setup_tunnel" /\ \E timed \in BOOLEAN : AtSetupTunnel(timed)
    \/ last.name = "enable_tunnel" /\ tunnel /\ AtEnableTunnel(<<>>)
    \/ last.name = "disable_tunnel" /\ AtDisableTunnel(<<>>)
    \/ last.name = "teardown_tunnels" /\ AtTeardown
    \/ last.name = "flush_tunnels" /\ AtFlush
    \/ last.name = "state_transition" /\ last.s \in States /\ AtTransition(last.s)
    \/ /\ last.name = "change_component_state" /\ last.c \in Comps /\ last.s \in States
       /\ AtChange(last.c, last.s, <<>>)
    \/ last.name = "disable_port" /\ \E c \in Comps : AtPort(c, Off, "disable")
    \/ last.name = "enable_port" /\ \E c \in Comps : AtPort(c, On, "enable")
    \/ last.name \in {"return_events", "wait_for_event"} /\ AtLook
                     /\ Here(Nothing, Nothing, {}, "open")

\* An assertion is about to fail.
Accused == todo # <<>> /\ Step.do = "assert"

\* What runs after a part of setup_tunnel, or nothing.
Ends == {<<>>, <<SetupEnd>>, <<SetupIdleEnd(TRUE)>>, <<SetupIdleEnd(FALSE)>>}

\* The operation ends with a result that is not 0.
Doomed == \/ todo \in Ends /\ ret # 0
          \/ \E k \in Ends : Lost(k)

\* Who is about to report PortUnpopulated has its port enabled.
FreedAreUp == /\ enabled \in [Comps -> BOOLEAN]
              /\ \A c \in freed : c \in Comps /\ enabled[c] /\ state[c] # "Loaded"

\* As long as no assertion has failed: the client is at a point of its operation at which
\* what it has done holds, or success is out of reach.
OnWay == asserted = {} => OnTrack \/ Accused \/ Doomed

\* The invariant that success rests on.
SInv == IInv /\ FreedAreUp /\ OnWay

-----------------------------------------------------------------------------
(* Programs as lists of steps *)

IsList(r) == \E S : r \in Seq(S)

\* Then puts a step before a list.
LEMMA ThenIsList ==
    ASSUME NEW x, NEW r, IsList(r)
    PROVE  /\ IsList(Then(x, r)) /\ Then(x, r) # <<>>
           /\ Head(Then(x, r)) = x /\ Tail(Then(x, r)) = r
  <1>1. PICK S : r \in Seq(S)
    BY DEF IsList
  <1> DEFINE T == S \cup {x}
  <1>2. r \in Seq(T) /\ <<x>> \in Seq(T) /\ Len(<<x>>) = 1 /\ <<x>>[1] = x
    <2>1. S \subseteq T /\ x \in T
      OBVIOUS
    <2>2. r \in Seq(T)
      BY <1>1, <2>1, SeqMonotonic
    <2> HIDE DEF T
    <2> QED
      BY <2>1, <2>2
  <1> HIDE DEF T
  <1>3. <<x>> \o r \in Seq(T) /\ <<x>> \o r # <<>>
    BY <1>2, ConcatProperties
  <1>4. Head(<<x>> \o r) = x /\ Tail(<<x>> \o r) = r
    BY <1>2
  <1> QED
    BY <1>3, <1>4 DEF Then, IsList

\* The empty list and lists of one, two and three steps.
LEMMA ShortLists ==
    /\ IsList(<<>>)
    /\ \A x : <<x>> = Then(x, <<>>)
    /\ \A x, y : <<x, y>> = Then(x, Then(y, <<>>))
    /\ \A x, y, z : <<x, y, z>> = Then(x, Then(y, Then(z, <<>>)))
    /\ \A x, y, z, u : <<x, y, z, u>> = Then(x, Then(y, Then(z, Then(u, <<>>))))
  <1>1. IsList(<<>>)
    BY EmptySeq DEF IsList
  <1>2. ASSUME NEW x
        PROVE  <<x>> \o <<>> = <<x>>
    <2>1. <<x>> \in Seq({x})
      OBVIOUS
    <2> QED
      BY <2>1, ConcatEmptySeq
  <1>3. ASSUME NEW x, NEW y
        PROVE  <<x>> \o <<y>> = <<x, y>>
    <2> DEFINE S == {x, y}
    <2>1. /\ <<x>> \in Seq(S) /\ <<y>> \in Seq(S) /\ <<x, y>> \in Seq(S)
          /\ Len(<<x>>) = 1 /\ Len(<<y>>) = 1 /\ Len(<<x, y>>) = 2
      OBVIOUS
    <2>2. /\ <<x>>[1] = x /\ <<y>>[1] = y
          /\ <<x, y>>[1] = x /\ <<x, y>>[2] = y
      OBVIOUS
    <2> HIDE DEF S
    <2>3. /\ <<x>> \o <<y>> \in Seq(S) /\ Len(<<x>> \o <<y>>) = 2
          /\ (<<x>> \o <<y>>)[1] = x /\ (<<x>> \o <<y>>)[2] = y
      BY <2>1, <2>2, ConcatProperties
    <2>4. \A i \in 1 .. 2 : (<<x>> \o <<y>>)[i] = <<x, y>>[i]
      BY <2>2, <2>3
    <2> QED
      BY <2>1, <2>3, <2>4, SeqEqual
  <1>4. ASSUME NEW x, NEW y, NEW z
        PROVE  <<x>> \o <<y, z>> = <<x, y, z>>
    <2> DEFINE S == {x, y, z}
    <2>1. /\ <<x>> \in Seq(S) /\ <<y, z>> \in Seq(S) /\ <<x, y, z>> \in Seq(S)
          /\ Len(<<x>>) = 1 /\ Len(<<y, z>>) = 2 /\ Len(<<x, y, z>>) = 3
      OBVIOUS
    <2>2. /\ <<x>>[1] = x /\ <<y, z>>[1] = y /\ <<y, z>>[2] = z
          /\ <<x, y, z>>[1] = x /\ <<x, y, z>>[2] = y /\ <<x, y, z>>[3] = z
      OBVIOUS
    <2> HIDE DEF S
    <2>3. /\ <<x>> \o <<y, z>> \in Seq(S) /\ Len(<<x>> \o <<y, z>>) = 3
          /\ (<<x>> \o <<y, z>>)[1] = x /\ (<<x>> \o <<y, z>>)[2] = y /\ (<<x>> \o <<y, z>>)[3] = z
      BY <2>1, <2>2, ConcatProperties
    <2>4. \A i \in 1 .. 3 : (<<x>> \o <<y, z>>)[i] = <<x, y, z>>[i]
      BY <2>2, <2>3
    <2> QED
      BY <2>1, <2>3, <2>4, SeqEqual
  <1>5. ASSUME NEW x, NEW y, NEW z, NEW u
        PROVE  <<x>> \o <<y, z, u>> = <<x, y, z, u>>
    <2> DEFINE S == {x, y, z, u}
    <2>1. /\ <<x>> \in Seq(S) /\ <<y, z, u>> \in Seq(S) /\ <<x, y, z, u>> \in Seq(S)
          /\ Len(<<x>>) = 1 /\ Len(<<y, z, u>>) = 3 /\ Len(<<x, y, z, u>>) = 4
      OBVIOUS
    <2>2. /\ <<x>>[1] = x /\ <<y, z, u>>[1] = y /\ <<y, z, u>>[2] = z /\ <<y, z, u>>[3] = u
          /\ <<x, y, z, u>>[1] = x /\ <<x, y, z, u>>[2] = y /\ <<x, y, z, u>>[3] = z
          /\ <<x, y, z, u>>[4] = u
      OBVIOUS
    <2> HIDE DEF S
    <2>3. /\ <<x>> \o <<y, z, u>> \in Seq(S) /\ Len(<<x>> \o <<y, z, u>>) = 4
          /\ (<<x>> \o <<y, z, u>>)[1] = x /\ (<<x>> \o <<y, z, u>>)[2] = y
          /\ (<<x>> \o <<y, z, u>>)[3] = z /\ (<<x>> \o <<y, z, u>>)[4] = u
      BY <2>1, <2>2, ConcatProperties
    <2>4. \A i \in 1 .. 4 : (<<x>> \o <<y, z, u>>)[i] = <<x, y, z, u>>[i]
      BY <2>2, <2>3
    <2> QED
      BY <2>1, <2>3, <2>4, SeqEqual
  <1>6. \A x : Then(x, <<>>) = <<x>>
    BY <1>2 DEF Then
  <1>7. /\ \A x, y : Then(x, <<y>>) = <<x, y>>
        /\ \A x, y, z : Then(x, <<y, z>>) = <<x, y, z>>
        /\ \A x, y, z, u : Then(x, <<y, z, u>>) = <<x, y, z, u>>
    BY <1>3, <1>4, <1>5, Zenon DEF Then
  <1>8. ASSUME NEW x, NEW y
        PROVE  <<x, y>> = Then(x, Then(y, <<>>))
    BY <1>6, <1>7
  <1>9. ASSUME NEW x, NEW y, NEW z
        PROVE  <<x, y, z>> = Then(x, Then(y, Then(z, <<>>)))
    BY <1>7, <1>8
  <1>10. ASSUME NEW x, NEW y, NEW z, NEW u
         PROVE  <<x, y, z, u>> = Then(x, Then(y, Then(z, Then(u, <<>>))))
    BY <1>7, <1>9
  <1>11. \A x : <<x>> = Then(x, <<>>)
    BY <1>6
  <1> QED
    BY <1>1, <1>8, <1>9, <1>10, <1>11, Zenon

\* Programs are lists.
LEMMA ProgramIsList ==
    ASSUME NEW p, IsProgram(p)
    PROVE  IsList(p)
  BY DEF IsProgram, IsList

\* Lists are concatenated step by step.
LEMMA ThenConcat ==
    ASSUME NEW x, NEW p, NEW r, IsList(p), IsList(r)
    PROVE  /\ Then(x, p) \o r = Then(x, p \o r) /\ IsList(p \o r)
           /\ <<>> \o r = r /\ r \o <<>> = r
  <1>1. PICK S, T : p \in Seq(S) /\ r \in Seq(T)
    BY DEF IsList
  <1> DEFINE U == S \cup T \cup {x}
  <1>2. p \in Seq(U) /\ r \in Seq(U) /\ <<x>> \in Seq(U)
    <2>1. S \subseteq U /\ T \subseteq U /\ x \in U
      OBVIOUS
    <2>2. p \in Seq(U) /\ r \in Seq(U)
      BY <1>1, <2>1, SeqMonotonic
    <2> HIDE DEF U
    <2> QED
      BY <2>1, <2>2
  <1> HIDE DEF U
  <1>3. (<<x>> \o p) \o r = <<x>> \o (p \o r)
    BY <1>2, ConcatAssociative
  <1>4. p \o r \in Seq(U)
    BY <1>2, ConcatProperties
  <1>5. <<>> \o r = r /\ r \o <<>> = r
    BY <1>2, ConcatEmptySeq
  <1> QED
    BY <1>3, <1>4, <1>5 DEF Then, IsList

\* Concatenation is associative.
LEMMA ListsConcat ==
    ASSUME NEW p, NEW q, NEW r, IsList(p), IsList(q), IsList(r)
    PROVE  (p \o q) \o r = p \o (q \o r)
  <1>1. PICK S, T, U : p \in Seq(S) /\ q \in Seq(T) /\ r \in Seq(U)
    BY DEF IsList
  <1> DEFINE V == S \cup T \cup U
  <1>2. p \in Seq(V) /\ q \in Seq(V) /\ r \in Seq(V)
    <2>1. S \subseteq V /\ T \subseteq V /\ U \subseteq V
      OBVIOUS
    <2> HIDE DEF V
    <2> QED
      BY <1>1, <2>1, SeqMonotonic
  <1> QED
    BY <1>2, ConcatAssociative

-----------------------------------------------------------------------------
(* Lists of events that lose some *)

\* Every event of t is one of s, and different ones are at different places.
Thins(s, t) ==
    \E f : /\ \A j \in 1 .. Len(t) : f[j] \in 1 .. Len(s) /\ t[j] = s[f[j]]
           /\ \A i, j \in 1 .. Len(t) : f[i] = f[j] => i = j

\* No answer comes to be there that was not, or twice.
LEMMA ThinnedLists ==
    ASSUME NEW s, NEW t, Thins(s, t)
    PROVE  /\ Quiet(s) => Quiet(t)
           /\ Lone(s) => Lone(t)
           /\ \A j \in 1 .. Len(t) : \E i \in 1 .. Len(s) : t[j] = s[i]
  <1>1. PICK f : /\ \A j \in 1 .. Len(t) : f[j] \in 1 .. Len(s) /\ t[j] = s[f[j]]
                 /\ \A i, j \in 1 .. Len(t) : f[i] = f[j] => i = j
    BY DEF Thins
  <1>2. Quiet(s) => Quiet(t)
    BY <1>1 DEF Quiet
  <1>3. ASSUME Lone(s), NEW i \in 1 .. Len(t), NEW j \in 1 .. Len(t),
               IsAnswer(t[i]), IsAnswer(t[j])
        PROVE  i = j
    <2>1. f[i] \in 1 .. Len(s) /\ f[j] \in 1 .. Len(s) /\ IsAnswer(s[f[i]]) /\ IsAnswer(s[f[j]])
      BY <1>1, <1>3
    <2>2. f[i] = f[j]
      BY <1>3, <2>1 DEF Lone
    <2> QED
      BY <1>1, <2>2
  <1>4. Lone(s) => Lone(t)
    BY <1>3 DEF Lone
  <1> QED
    BY <1>1, <1>2, <1>4

\* Dropping duplicates thins a list.
LEMMA DedupeThins ==
    ASSUME NEW E, NEW s \in Seq(E)
    PROVE  Thins(s, Dedupe(s))
  <1> DEFINE F == Firsts(s)
             m == Cardinality(F)
             nth(k) == CHOOSE i \in F : Cardinality(F \cap 1 .. i) = k
             t == [k \in 1 .. m |-> s[nth(k)]]
             f == [k \in 1 .. m |-> nth(k)]
  <1>1. Len(s) \in Nat /\ F \in SUBSET (1 .. Len(s))
    BY LenProperties DEF Firsts
  <1>2. ASSUME NEW k \in 1 .. m
        PROVE  nth(k) \in 1 .. Len(s) /\ Cardinality(F \cap 1 .. nth(k)) = k
    <2>1. \E i \in F : Cardinality(F \cap 1 .. i) = k
      <3> HIDE DEF F
      <3> QED
        BY <1>1, RankExists
    <2>2. nth(k) \in F /\ Cardinality(F \cap 1 .. nth(k)) = k
      BY <2>1
    <2> QED
      BY <1>1, <2>2
  <1>3. Dedupe(s) = t /\ Len(Dedupe(s)) = m
    BY DedupeProperties DEF Dedupe
  <1> HIDE DEF nth, F
  <1>4. \A j \in 1 .. m : f[j] \in 1 .. Len(s) /\ t[j] = s[f[j]]
    BY <1>2
  <1>5. \A i, j \in 1 .. m : f[i] = f[j] => i = j
    BY <1>2
  <1> HIDE DEF f, t, m
  <1> QED
    BY <1>3, <1>4, <1>5 DEF Thins

\* So does removing one, and if it was the only answer, none is left.
LEMMA RemoveThins ==
    ASSUME NEW E, NEW s \in Seq(E), NEW i \in 1 .. Len(s)
    PROVE  /\ Thins(s, RemoveAt(s, i))
           /\ Lone(s) /\ IsAnswer(s[i]) => Quiet(RemoveAt(s, i))
  <1> DEFINE n == Len(s)
             t == RemoveAt(s, i)
             f == [j \in 1 .. n - 1 |-> IF j < i THEN j ELSE j + 1]
  <1>1. n \in Nat /\ s \in [1 .. n -> E]
    BY LenProperties
  <1>2. Len(t) = n - 1 /\ t \in Seq(E)
    BY RemoveAtProperties
  <1>3. \A j \in 1 .. n - 1 : t[j] = s[IF j < i THEN j ELSE j + 1]
    <2> DEFINE a == SubSeq(s, 1, i - 1)
               b == SubSeq(s, i + 1, n)
    <2>1. i \in 1 .. n /\ n \in Nat
      BY <1>1
    <2>2. a \in Seq(E) /\ Len(a) = i - 1 /\ \A j \in 1 .. i - 1 : a[j] = s[j]
      BY <1>1, <2>1, SubSeqProperties
    <2>3. b \in Seq(E) /\ Len(b) = n - i /\ \A j \in 1 .. n - i : b[j] = s[i + j]
      <3>1. i + 1 \in Int /\ n \in Int /\ \A j \in i + 1 .. n : s[j] \in E
        BY <1>1
      <3>2. /\ b \in Seq(E) /\ Len(b) = IF i + 1 <= n THEN n - (i + 1) + 1 ELSE 0
            /\ \A j \in 1 .. n - (i + 1) + 1 : b[j] = s[i + 1 + j - 1]
        BY <3>1, SubSeqProperties
      <3> HIDE DEF b, n
      <3>3. n - (i + 1) + 1 = n - i /\ \A j \in 1 .. n - i : i + 1 + j - 1 = i + j
        BY <2>1
      <3>4. Len(b) = n - i
        BY <2>1, <3>2
      <3> QED
        BY <3>2, <3>3, <3>4
    <2>4. t = a \o b
      BY DEF RemoveAt
    <2> HIDE DEF a, b, t, n
    <2>5. \A j \in 1 .. n - 1 : (a \o b)[j] = IF j <= i - 1 THEN a[j] ELSE b[j - (i - 1)]
      <3>1. /\ Len(a \o b) = Len(a) + Len(b)
            /\ \A j \in 1 .. Len(a) + Len(b) :
                  (a \o b)[j] = IF j <= Len(a) THEN a[j] ELSE b[j - Len(a)]
        BY <2>2, <2>3, ConcatProperties
      <3> QED
        BY <2>1, <2>2, <2>3, <3>1
    <2>6. ASSUME NEW j \in 1 .. n - 1
          PROVE  t[j] = s[IF j < i THEN j ELSE j + 1]
      <3>1. CASE j < i
        BY <2>1, <2>2, <2>4, <2>5, <3>1
      <3>2. CASE ~ j < i
        <4>1. t[j] = b[j - (i - 1)]
          <5>1. ~ j <= i - 1
            BY <2>1, <3>2
          <5> QED
            BY <2>4, <2>5, <5>1
        <4>2. j - (i - 1) \in 1 .. n - i
          BY <2>1, <3>2
        <4>3. b[j - (i - 1)] = s[i + (j - (i - 1))] /\ i + (j - (i - 1)) = j + 1
          BY <2>1, <2>3, <4>2
        <4> QED
          BY <4>1, <4>3, <3>2
      <3> QED
        BY <3>1, <3>2
    <2> QED
      BY <2>6
  <1>4. \A j \in 1 .. n - 1 : f[j] \in 1 .. n /\ f[j] # i /\ t[j] = s[f[j]]
    <2> HIDE DEF t
    <2> QED
      BY <1>1, <1>3
  <1>5. \A j, k \in 1 .. n - 1 : f[j] = f[k] => j = k
    BY <1>1
  <1> HIDE DEF f, t
  <1>6. Thins(s, t)
    <2> HIDE DEF n
    <2>1. /\ \A j \in 1 .. Len(t) : f[j] \in 1 .. n /\ t[j] = s[f[j]]
          /\ \A j, k \in 1 .. Len(t) : f[j] = f[k] => j = k
      BY <1>2, <1>4, <1>5
    <2> QED
      BY <2>1 DEF Thins, n
  <1>7. ASSUME Lone(s), IsAnswer(s[i]), NEW j \in 1 .. Len(t), IsAnswer(t[j])
        PROVE  FALSE
    <2>1. f[j] \in 1 .. n /\ f[j] # i /\ IsAnswer(s[f[j]])
      BY <1>2, <1>4, <1>7
    <2> QED
      BY <1>7, <2>1 DEF Lone
  <1> QED
    BY <1>6, <1>7 DEF Quiet, t

-----------------------------------------------------------------------------
(* What the components do *)

\* The events of t are those of s, and s had no answer more than t.
Same(s, t) == /\ Quiet(s) => Quiet(t)
              /\ Lone(s) => Lone(t)
              /\ \A j \in 1 .. Len(t) :
                    IsAnswer(t[j]) => \E i \in 1 .. Len(s) : t[j] = s[i]

\* What a callback makes of the list: an event that is no answer owes nothing, and an
\* answer is the only one in a list that had none.
LEMMA CallbackLeaves ==
    ASSUME TypeOK, NEW c \in Comps, NEW ev \in Events, Callback(c, ev)
    PROVE  \E t \in Seq(Events) :
              /\ list' = [list EXCEPT ![c] = t]
              /\ Masked(c, ev) \/ ~ IsAnswer(ev) => Same(list[c], t)
              /\ Quiet(list[c]) => /\ Lone(t)
                                   /\ \A i \in 1 .. Len(t) : IsAnswer(t[i]) => t[i] = ev
  <1>1. PICK kept \in Seq(Events), new \in Seq(Events) :
           /\ list' = [list EXCEPT ![c] = new \o kept]
           /\ new \o kept \in Seq(Events)
           /\ Len(new \o kept) = Len(new) + Len(kept)
           /\ kept = Dedupe(list[c])
           /\ new = <<>> \/ (new = <<ev>> /\ ~ Masked(c, ev))
    BY CallbackRecords
  <1>2. list[c] \in Seq(Events)
    BY DEF TypeOK
  <1>3. Same(list[c], kept)
    <2>1. Thins(list[c], kept)
      BY <1>1, <1>2, DedupeThins
    <2> QED
      BY <2>1, ThinnedLists DEF Same
  <1>4. CASE new = <<>>
    <2>1. new \o kept = kept
      BY <1>1, <1>4, ConcatEmptySeq
    <2>2. Quiet(kept) => /\ Lone(kept)
                         /\ \A i \in 1 .. Len(kept) : IsAnswer(kept[i]) => kept[i] = ev
      BY DEF Quiet, Lone
    <2> QED
      BY <1>1, <1>3, <2>1, <2>2 DEF Same
  <1>5. CASE new = <<ev>> /\ ~ Masked(c, ev)
    <2> DEFINE t == new \o kept
               s == list[c]
    <2>1. Len(kept) \in Nat /\ Len(new) = 1 /\ new[1] = ev
      BY <1>5, LenProperties
    <2>2. /\ t \in Seq(Events) /\ Len(t) = 1 + Len(kept) /\ t[1] = ev
          /\ \A i \in 1 .. Len(t) : i # 1 => i - 1 \in 1 .. Len(kept) /\ t[i] = kept[i - 1]
      <3>1. \A i \in 1 .. Len(new) + Len(kept) :
               t[i] = IF i <= Len(new) THEN new[i] ELSE kept[i - Len(new)]
        BY <1>1, ConcatProperties
      <3> HIDE DEF t
      <3>2. t \in Seq(Events) /\ Len(t) = 1 + Len(kept)
        BY <1>1, <2>1 DEF t
      <3>3. t[1] = ev
        BY <2>1, <3>1
      <3>4. ASSUME NEW i \in 1 .. Len(t), i # 1
            PROVE  i - 1 \in 1 .. Len(kept) /\ t[i] = kept[i - 1]
        BY <2>1, <3>1, <3>2, <3>4
      <3> QED
        BY <3>2, <3>3, <3>4
    <2> HIDE DEF t, s
    <2>3. ASSUME Quiet(kept)
          PROVE  Lone(t) /\ \A i \in 1 .. Len(t) : IsAnswer(t[i]) => i = 1 /\ t[i] = ev
      BY <2>2, <2>3 DEF Quiet, Lone
    <2>4. ASSUME ~ IsAnswer(ev)
          PROVE  /\ Quiet(kept) => Quiet(t)
                 /\ Lone(kept) => Lone(t)
                 /\ \A j \in 1 .. Len(t) :
                       IsAnswer(t[j]) => \E i \in 1 .. Len(kept) : t[j] = kept[i]
      <3>1. \A i \in 1 .. Len(t) : IsAnswer(t[i]) => i # 1
        BY <2>2, <2>4
      <3>2. Quiet(kept) => Quiet(t)
        BY <2>2, <3>1 DEF Quiet
      <3>3. ASSUME Lone(kept), NEW i \in 1 .. Len(t), NEW j \in 1 .. Len(t),
                   IsAnswer(t[i]), IsAnswer(t[j])
            PROVE  i = j
        <4>1. /\ i - 1 \in 1 .. Len(kept) /\ j - 1 \in 1 .. Len(kept)
              /\ IsAnswer(kept[i - 1]) /\ IsAnswer(kept[j - 1])
          BY <2>2, <3>1, <3>3
        <4>2. i - 1 = j - 1
          BY <3>3, <4>1 DEF Lone
        <4> QED
          BY <2>1, <2>2, <4>2
      <3>4. Lone(kept) => Lone(t)
        BY <3>3 DEF Lone
      <3> QED
        BY <2>2, <3>1, <3>2, <3>4
    <2>5. Quiet(s) => Quiet(kept)
      BY <1>3 DEF Same, s
    <2>6. Lone(s) => Lone(kept)
      BY <1>3 DEF Same, s
    <2>7. \A j \in 1 .. Len(kept) : IsAnswer(kept[j]) => \E i \in 1 .. Len(s) : kept[j] = s[i]
      BY <1>3 DEF Same, s
    <2>8. t \in Seq(Events) /\ list' = [list EXCEPT ![c] = t]
      BY <1>1, <2>2 DEF t
    <2>9. Quiet(s) => Lone(t) /\ \A i \in 1 .. Len(t) : IsAnswer(t[i]) => t[i] = ev
      BY <2>3, <2>5
    <2>10. ~ IsAnswer(ev) => Same(s, t)
      BY <2>4, <2>5, <2>6, <2>7 DEF Same
    <2> QED
      BY <1>5, <2>8, <2>9, <2>10 DEF s
  <1> QED
    BY <1>1, <1>4, <1>5

\* What is owed stays so if the list gets no answer, and the effect remains.
LEMMA OwedKept ==
    ASSUME NEW c, NEW o, Owes(c, o), pending'[c] = pending[c], Same(list[c], list'[c]),
           Effect(c, o) => Effect(c, o)'
    PROVE  Owes(c, o)'
  BY DEF Owes, Same

\* A command that is answered is no longer pending.
LEMMA OwedAnswered ==
    ASSUME NEW c, NEW o, Owes(c, o), pending[c] # <<>>, pending'[c] = Tail(pending[c]), NEW ev,
           Lone(list'[c]), \A i \in 1 .. Len(list'[c]) : IsAnswer(list'[c][i]) => list'[c][i] = ev,
           Succeeded(ev) => Effect(c, o)'
    PROVE  Owes(c, o)'
  <1>1. o # Nothing /\ pending[c] = <<o>>
    BY DEF Owes
  <1>2. pending'[c] = <<>>
    BY <1>1
  <1> QED
    BY <1>1, <1>2 DEF Owes

\* The effect of a command is that of its first part and its second.
LEMMA EffectsStay ==
    ASSUME NEW c, NEW k,
           k[1] = "StateSet" => state'[c] = state[c],
           k[1] \in {"PortEnable", "PortDisable"} => enabled'[c] = enabled[c]
    PROVE  Effect(c, k) => Effect(c, k)'
  BY DEF Effect

\* The end of the tunnel that owes o answers it: the other end is not disturbed, and
\* neither are the effects that o lets stay.
LEMMA AnswerOwed ==
    ASSUME TypeOK, FreedAreUp, NEW c \in Comps, NEW o, Owes(c, o), Answer(c)
    PROVE  /\ o # Nothing /\ pending[c] = <<o>>
           /\ Owes(c, o)'
           /\ \A k : Stays(o, k) /\ Effect(c, k) => Effect(c, k)'
           /\ \A d \in Comps \ {c} : /\ \A k : Effect(d, k) => Effect(d, k)'
                                     /\ \A k : Owes(d, k) => Owes(d, k)'
           /\ freed' # {} /\ freed = {} => tunnel /\ o \in Tearing
           /\ UNCHANGED <<todo, at, ret, last, tunnel, mask>>
  <1>1. pending[c] # <<>> /\ o # Nothing /\ pending[c] = <<o>> /\ Quiet(list[c])
    BY DEF Answer, Owes
  <1>2. o \in Commands
    <2>1. pending[c] \in Seq(Commands)
      BY DEF TypeOK
    <2> QED
      BY <1>1, <2>1, HeadTailProperties
  <1>3. Head(pending[c]) = o /\ Tail(pending[c]) = <<>>
    BY <1>1
  <1>4. /\ pending' = [pending EXCEPT ![c] = Tail(pending[c])]
        /\ UNCHANGED <<tunnel, todo, at, ret, last>>
        /\ freed' = IF Frees(c) THEN {Peer(c)} ELSE freed \ {c}
    BY DEF Answer, Answered
  <1>5. \/ /\ AlreadyDone(c, o[1], o[2]) /\ Callback(c, Event("Error", "SameState", "1"))
           /\ UNCHANGED <<state, enabled>>
        \/ /\ Callback(c, Complete(o[1], o[2]))
           /\ state' = IF o[1] = "StateSet" THEN [state EXCEPT ![c] = o[2]] ELSE state
           /\ enabled' = [enabled EXCEPT ![c] = CASE o[1] = "PortEnable" -> TRUE
                                                  [] o[1] = "PortDisable" -> FALSE
                                                  [] OTHER -> enabled[c]]
    BY <1>3 DEF Answer
  <1>6. /\ state \in [Comps -> States] /\ enabled \in [Comps -> BOOLEAN]
        /\ pending \in [Comps -> Seq(Commands)] /\ list \in [Comps -> Seq(Events)]
    BY DEF TypeOK, FreedAreUp
  <1>7. PICK ev \in Events : Callback(c, ev)
    <2>1. Event("Error", "SameState", "1") \in Events /\ Complete(o[1], o[2]) \in Events
      BY <1>2 DEF Events
    <2> QED
      BY <1>5, <2>1
  <1>8. Effect(c, o)'
    BY <1>2, <1>5, <1>6 DEF Effect, AlreadyDone, Commands
  <1>9. PICK t \in Seq(Events) : /\ list' = [list EXCEPT ![c] = t] /\ Lone(t)
                                 /\ \A i \in 1 .. Len(t) : IsAnswer(t[i]) => t[i] = ev
    <2>1. \E t \in Seq(Events) :
             /\ list' = [list EXCEPT ![c] = t]
             /\ Quiet(list[c]) => /\ Lone(t)
                                  /\ \A i \in 1 .. Len(t) : IsAnswer(t[i]) => t[i] = ev
      BY <1>7, CallbackLeaves
    <2> QED
      BY <1>1, <2>1
  <1>10. list'[c] = t /\ pending'[c] = Tail(pending[c])
    BY <1>4, <1>6, <1>9
  <1>11. Owes(c, o)'
    BY <1>1, <1>8, <1>9, <1>10, OwedAnswered
  <1>12. ASSUME NEW k, Stays(o, k)
         PROVE  Effect(c, k) => Effect(c, k)'
    BY <1>2, <1>5, <1>6, <1>12 DEF Stays, Effect, Commands
  <1>13. ASSUME NEW d \in Comps \ {c}
         PROVE  /\ state'[d] = state[d] /\ enabled'[d] = enabled[d]
                /\ list'[d] = list[d] /\ pending'[d] = pending[d]
    BY <1>4, <1>5, <1>6, <1>9
  <1>14. ASSUME NEW d \in Comps \ {c}
         PROVE  /\ \A k : Effect(d, k) => Effect(d, k)'
                /\ \A k : Owes(d, k) => Owes(d, k)'
    <2>1. \A k : Effect(d, k) => Effect(d, k)'
      BY <1>13 DEF Effect
    <2>2. Same(list[d], list'[d])
      BY <1>13 DEF Same
    <2> QED
      BY <2>1, <2>2, <1>13, OwedKept
  <1>15. Frees(c) => tunnel /\ o \in Tearing
    BY <1>3 DEF Frees, Tearing, Off, ToState
  <1>16. freed' # {} /\ freed = {} => tunnel /\ o \in Tearing
    BY <1>4, <1>15
  <1>17. mask' = mask
    BY <1>7 DEF Callback
  <1> QED
    BY <1>1, <1>4, <1>11, <1>12, <1>14, <1>16, <1>17

\* So it is when the command fails, and when c reports something of its own accord.
LEMMA FailureOwed ==
    ASSUME TypeOK, FreedAreUp, NEW c \in Comps, NEW o, Owes(c, o), Fail(c)
    PROVE  /\ Owes(c, o)' /\ UNCHANGED <<state, enabled, freed>>
           /\ \A d \in Comps \ {c} : list'[d] = list[d] /\ pending'[d] = pending[d]
           /\ UNCHANGED <<todo, at, ret, last, tunnel, mask>>
  <1> DEFINE ev == Event("Error", "InsufficientResources", "1")
  <1>1. /\ Callback(c, ev) /\ ev \in Events /\ ~ Succeeded(ev) /\ pending[c] # <<>>
        /\ UNCHANGED <<state, enabled, tunnel, freed, todo, at, ret, last>>
        /\ pending' = [pending EXCEPT ![c] = Tail(pending[c])]
    BY DEF Fail, Asked, Answered, Succeeded, Event, Events
  <1>2. pending \in [Comps -> Seq(Commands)] /\ list \in [Comps -> Seq(Events)]
    BY DEF TypeOK
  <1>3. Quiet(list[c])
    BY <1>1 DEF Owes
  <1> HIDE DEF ev
  <1>4. PICK t \in Seq(Events) : /\ list' = [list EXCEPT ![c] = t] /\ Lone(t)
                                 /\ \A i \in 1 .. Len(t) : IsAnswer(t[i]) => t[i] = ev
    <2>1. \E t \in Seq(Events) :
             /\ list' = [list EXCEPT ![c] = t]
             /\ Quiet(list[c]) => /\ Lone(t)
                                  /\ \A i \in 1 .. Len(t) : IsAnswer(t[i]) => t[i] = ev
      BY <1>1, CallbackLeaves
    <2> QED
      BY <1>3, <2>1
  <1>5. list'[c] = t /\ pending'[c] = Tail(pending[c])
    BY <1>1, <1>2, <1>4
  <1>6. Owes(c, o)'
    BY <1>1, <1>4, <1>5, OwedAnswered
  <1>7. mask' = mask
    BY <1>1 DEF Callback
  <1> QED
    BY <1>1, <1>2, <1>4, <1>6, <1>7

\* An event that is no answer, or is masked.
LEMMA ReportOwed ==
    ASSUME TypeOK, FreedAreUp, NEW c \in Comps, Unpopulated(c) \/ Report(c),
           freed = {} \/ mask[c]
    PROVE  /\ \A d \in Comps : Same(list[d], list'[d])
           /\ freed' \subseteq freed
           /\ UNCHANGED <<todo, at, ret, last, tunnel, mask, pending, state, enabled>>
  <1>1. PICK ev \in Events : Callback(c, ev) /\ (Masked(c, ev) \/ ~ IsAnswer(ev))
    <2>1. CASE Unpopulated(c)
      <3>1. PICK d2 \in {"0", "1"} : Callback(c, Event("Error", "PortUnpopulated", d2))
        BY <2>1 DEF Unpopulated
      <3>2. mask[c]
        BY <2>1 DEF Unpopulated
      <3>3. Event("Error", "PortUnpopulated", d2) \in Events
        BY DEF Events
      <3>4. Masked(c, Event("Error", "PortUnpopulated", d2))
        BY <3>2 DEF Masked, Event
      <3> QED
        BY <3>1, <3>3, <3>4
    <2>2. CASE Report(c)
      <3>1. PICK ev \in {Settings, Event("ParamOrConfigChanged", "port", ""),
                         Event("Error", "StreamCorrupt", "0")} : Callback(c, ev)
        BY <2>2 DEF Report
      <3>2. ev \in Events
        BY DEF Events
      <3>3. ev.e # "CmdComplete" /\ ev.d2 # "1"
        <4>1. CASE ev = Settings
          BY <4>1 DEF Settings, Event
        <4>2. CASE ev = Event("ParamOrConfigChanged", "port", "")
          BY <4>2 DEF Event
        <4>3. CASE ev = Event("Error", "StreamCorrupt", "0")
          BY <4>3 DEF Event
        <4> QED
          BY <4>1, <4>2, <4>3
      <3>4. ~ IsAnswer(ev)
        BY <3>3 DEF IsAnswer, IsFailure
      <3> QED
        BY <3>1, <3>2, <3>4
    <2> QED
      BY <2>1, <2>2
  <1>2. PICK t \in Seq(Events) : list' = [list EXCEPT ![c] = t] /\ Same(list[c], t)
    <2>1. \E t \in Seq(Events) :
             /\ list' = [list EXCEPT ![c] = t]
             /\ Masked(c, ev) \/ ~ IsAnswer(ev) => Same(list[c], t)
      BY <1>1, CallbackLeaves
    <2> QED
      BY <1>1, <2>1
  <1>3. list \in [Comps -> Seq(Events)]
    BY DEF TypeOK
  <1>4. \A d \in Comps : Same(list[d], list'[d])
    <2>1. Same(list[c], list'[c])
      BY <1>2, <1>3
    <2>2. ASSUME NEW d \in Comps, d # c
          PROVE  Same(list[d], list'[d])
      BY <1>2, <1>3, <2>2 DEF Same
    <2> QED
      BY <2>1, <2>2
  <1>5. mask' = mask
    BY <1>1 DEF Callback
  <1>6. /\ freed' \subseteq freed
        /\ UNCHANGED <<todo, at, ret, last, tunnel, pending, state, enabled>>
    BY DEF Unpopulated, Report, comps
  <1> QED
    BY <1>4, <1>5, <1>6

\* Who is about to report PortUnpopulated keeps its port enabled until then.
LEMMA FreedKept ==
    ASSUME TypeOK, FreedAreUp, NEW c \in Comps,
           Answer(c) \/ Fail(c) \/ Unpopulated(c) \/ Report(c)
    PROVE  FreedAreUp'
  <1>1. state \in [Comps -> States] /\ enabled \in [Comps -> BOOLEAN]
    BY DEF TypeOK, FreedAreUp
  <1>2. CASE Answer(c)
    <2>1. /\ \A d \in Comps \ {c} : state'[d] = state[d] /\ enabled'[d] = enabled[d]
          /\ enabled' \in [Comps -> BOOLEAN]
      BY <1>1, <1>2 DEF Answer
    <2>2. freed' = IF Frees(c) THEN {Peer(c)} ELSE freed \ {c}
      BY <1>2 DEF Answer
    <2>3. Peer(c) \in Comps \ {c}
      BY CompsAssumption DEF Peer, Comps
    <2>4. Frees(c) => enabled[Peer(c)] /\ state[Peer(c)] # "Loaded"
      BY <2>3 DEF Frees, AllEnabled
    <2>5. \A d \in freed' : d \in Comps \ {c} /\ enabled[d] /\ state[d] # "Loaded"
      BY <2>2, <2>3, <2>4 DEF FreedAreUp
    <2> QED
      BY <2>1, <2>5 DEF FreedAreUp
  <1>3. CASE Fail(c) \/ Unpopulated(c) \/ Report(c)
    <2>1. UNCHANGED <<state, enabled>> /\ freed' \subseteq freed
      BY <1>3 DEF Fail, Unpopulated, Report, comps
    <2> QED
      BY <2>1 DEF FreedAreUp
  <1> QED
    BY <1>2, <1>3

\* What the client knows of the components stays true while they are at work.
LEMMA HereCarried ==
    ASSUME TypeOK, FreedAreUp, NEW c \in Comps,
           Answer(c) \/ Fail(c) \/ Unpopulated(c) \/ Report(c),
           NEW a, NEW b, NEW K, NEW m, Here(a, b, K, m)
    PROVE  Here(a, b, K, m)'
  <1>0. PICK o : o = [d \in Comps |-> IF d = Source THEN a ELSE b]
    OBVIOUS
  <1>1. /\ Comps = {Source, Sink} /\ Source # Sink /\ o[Source] = a /\ o[Sink] = b
    BY <1>0, CompsAssumption DEF Comps
  <1>2. /\ \A d \in Comps : Owes(d, o[d])
        /\ \A x \in K : x[1] \in Comps /\ Effect(x[1], x[2]) /\ Stays(o[x[1]], x[2])
        /\ IF m = "masked" THEN \A d \in Comps : mask[d]
           ELSE freed = {} /\ (tunnel => \A d \in Comps : o[d] \notin Tearing)
    BY <1>0, <1>1 DEF Here
  <1>9. UNCHANGED <<mask, tunnel>>
    BY DEF Answer, Fail, Unpopulated, Report, Callback, comps
  <1>3. SUFFICES /\ \A d \in Comps : Owes(d, o[d])'
                 /\ \A x \in K : Effect(x[1], x[2])'
                 /\ freed = {} /\ (tunnel => \A d \in Comps : o[d] \notin Tearing) => freed' = {}
    BY <1>0, <1>1, <1>2, <1>9 DEF Here
  <1>4. CASE Answer(c)
    <2>1. /\ Owes(c, o[c])'
          /\ \A k : Stays(o[c], k) /\ Effect(c, k) => Effect(c, k)'
          /\ \A d \in Comps \ {c} : /\ \A k : Effect(d, k) => Effect(d, k)'
                                    /\ \A k : Owes(d, k) => Owes(d, k)'
          /\ freed' # {} /\ freed = {} => tunnel /\ o[c] \in Tearing
          /\ mask' = mask
      BY <1>2, <1>4, AnswerOwed
    <2>2. \A d \in Comps : Owes(d, o[d])'
      BY <1>2, <2>1
    <2>3. \A x \in K : Effect(x[1], x[2])'
      BY <1>2, <2>1
    <2> QED
      BY <2>1, <2>2, <2>3
  <1>5. CASE Fail(c)
    <2>1. /\ Owes(c, o[c])' /\ UNCHANGED <<state, enabled, freed>>
          /\ \A d \in Comps \ {c} : list'[d] = list[d] /\ pending'[d] = pending[d]
          /\ UNCHANGED <<todo, at, ret, last, tunnel, mask>>
      BY <1>2, <1>5, FailureOwed
    <2>2. \A d, k : Effect(d, k) => Effect(d, k)'
      BY <2>1 DEF Effect
    <2>3. ASSUME NEW d \in Comps \ {c}
          PROVE  Owes(d, o[d])'
      <3>1. Same(list[d], list'[d])
        BY <2>1 DEF Same
      <3> QED
        BY <1>2, <2>1, <2>2, <3>1, OwedKept
    <2> QED
      BY <1>2, <2>1, <2>2, <2>3
  <1>6. CASE Unpopulated(c) \/ Report(c)
    <2>1. freed = {} \/ mask[c]
      BY <1>2
    <2>2. /\ \A d \in Comps : Same(list[d], list'[d])
          /\ freed' \subseteq freed
          /\ UNCHANGED <<todo, at, ret, last, tunnel, mask, pending, state, enabled>>
      BY <1>6, <2>1, ReportOwed
    <2>3. \A d, k : Effect(d, k) => Effect(d, k)'
      BY <2>2 DEF Effect
    <2>4. \A d \in Comps : Owes(d, o[d])'
      BY <1>2, <2>2, <2>3, OwedKept
    <2> QED
      BY <1>2, <2>2, <2>3, <2>4
  <1> QED
    BY <1>4, <1>5, <1>6

\* The client has taken no step, and what it knows of the components is as true as before.
Carried == /\ UNCHANGED <<todo, at, ret, last, tunnel, mask>>
           /\ \A a, b, K, m : Here(a, b, K, m) => Here(a, b, K, m)'

\* The points that operations have in common.
LEMMA PartsCarried ==
    ASSUME Carried
    PROVE  /\ \A c, t, k : AtChange(c, t, k) => AtChange(c, t, k)'
           /\ \A c, o, w : AtPort(c, o, w) => AtPort(c, o, w)'
           /\ \A k : AtDisableTunnel(k) => AtDisableTunnel(k)'
           /\ \A k : AtEnableTunnel(k) => AtEnableTunnel(k)'
  <1>1. ASSUME NEW c, NEW t, NEW k, AtChange(c, t, k)
        PROVE  AtChange(c, t, k)'
    BY <1>1 DEF Carried, AtChange, If0
  <1>2. ASSUME NEW c, NEW o, NEW w, AtPort(c, o, w)
        PROVE  AtPort(c, o, w)'
    BY <1>2 DEF Carried, AtPort, If0
  <1>3. ASSUME NEW k, AtDisableTunnel(k)
        PROVE  AtDisableTunnel(k)'
    BY <1>3 DEF Carried, AtDisableTunnel, AtMasking, AtUnmasking, AtAwaiting, If0
  <1>4. ASSUME NEW k, AtEnableTunnel(k)
        PROVE  AtEnableTunnel(k)'
    BY <1>4 DEF Carried, AtEnableTunnel, If0
  <1> QED
    BY <1>1, <1>2, <1>3, <1>4

\* Every point of every operation.
LEMMA TrackCarried ==
    ASSUME Carried, OnTrack \/ Accused \/ Doomed
    PROVE  (OnTrack \/ Accused \/ Doomed)'
  <1>1. ASSUME NEW timed, AtSetupTunnel(timed)
        PROVE  AtSetupTunnel(timed)'
    BY <1>1, PartsCarried DEF Carried, AtSetupTunnel, If0
  <1>2. ASSUME NEW t, AtTransition(t)
        PROVE  AtTransition(t)'
    BY <1>2 DEF Carried, AtTransition, AtMasking, AtUnmasking, AtAwaiting, If0
  <1>3. AtFlush => AtFlush'
    BY DEF Carried, AtFlush
  <1>4. AtTeardown => AtTeardown'
    BY DEF Carried, AtTeardown
  <1>5. AtLook => AtLook'
    BY DEF Carried, AtLook
  <1>6. AtRest => AtRest'
    BY DEF Carried, AtRest, Outcome
  <1>7. OnTrack => OnTrack'
    BY <1>1, <1>2, <1>3, <1>4, <1>5, <1>6, PartsCarried DEF Carried, OnTrack
  <1>8. Accused => Accused'
    BY DEF Carried, Accused, Step
  <1>9. Doomed => Doomed'
    BY DEF Carried, Doomed, Lost
  <1> QED
    BY <1>7, <1>8, <1>9

\* A component's step leaves the client on its way.
LEMMA ComponentsLeaveOnWay ==
    ASSUME TypeOK, FreedAreUp, OnWay, NEW c \in Comps,
           Answer(c) \/ Fail(c) \/ Unpopulated(c) \/ Report(c)
    PROVE  OnWay'
  <1>1. Carried
    <2>1. \A a, b, K, m : Here(a, b, K, m) => Here(a, b, K, m)'
      BY HereCarried
    <2>2. UNCHANGED <<todo, at, ret, last, tunnel, mask>>
      <3>1. mask' = mask
        BY DEF Answer, Fail, Unpopulated, Report, Callback
      <3> QED
        BY <3>1 DEF Answer, Fail, Unpopulated, Report, comps
    <2> QED
      BY <2>1, <2>2 DEF Carried
  <1>2. asserted \subseteq asserted'
    BY DEF Answer, Fail, Unpopulated, Report, Callback
  <1> QED
    BY <1>1, <1>2, TrackCarried DEF OnWay

-----------------------------------------------------------------------------
(* What the client does, by the kind of the first step *)

\* A step of the client is a pass over the first step of its program.
LEMMA StepKinds ==
    ASSUME ClientStep
    PROVE  /\ todo # <<>> /\ last' = last
           /\ Step.do = "wait" => WaitBegins \/ WaitScans \/ WaitWakes \/ WaitEnds
           /\ Step.do = "waitevent" => \/ EventLooked \/ EventErrors \/ EventConfigs
                                       \/ EventLast \/ EventWakes \/ EventTimesOut
           /\ Step.do = "remove" => RemoveErrors
           /\ Step.do = "returnevents" => ReturnAll
           /\ Step.do = "send" => SendCommand
           /\ Step.do = "clear" => ClearErrorFlag
           /\ Step.do = "mask" => SetMask
           /\ Step.do = "connect" => ConnectPorts
           /\ Step.do = "disconnect" => DisconnectPort
           /\ Step.do \in {"result", "if", "ifloaded", "choose", "assert"} => Control
  <1>1. CASE WaitBegins \/ WaitScans \/ WaitWakes \/ WaitEnds
    <2>1. todo # <<>> /\ Step.do = "wait"
      BY <1>1 DEF WaitBegins, WaitScans, WaitWakes, WaitEnds, Running
    <2>2. last' = last
      BY <1>1 DEF WaitBegins, WaitScans, WaitWakes, WaitEnds, WaitReturns, Stay, Proceed
    <2> QED
      BY <1>1, <2>1, <2>2
  <1>2. CASE \/ EventLooked \/ EventErrors \/ EventConfigs
             \/ EventLast \/ EventWakes \/ EventTimesOut
    <2>1. todo # <<>> /\ Step.do = "waitevent"
      BY <1>2 DEF EventLooked, EventErrors, EventConfigs, EventLast, EventWakes,
                  EventTimesOut, Running
    <2>2. last' = last
      BY <1>2 DEF EventLooked, EventErrors, EventConfigs, EventLast, EventWakes,
                  EventTimesOut, Stay, Finish, Proceed
    <2> QED
      BY <1>2, <2>1, <2>2
  <1>3. CASE RemoveErrors
    BY <1>3 DEF RemoveErrors, Running, Proceed
  <1>4. CASE ReturnAll
    BY <1>4 DEF ReturnAll, Running, Proceed
  <1>5. CASE SendCommand
    BY <1>5 DEF SendCommand, Running, Proceed
  <1>6. CASE ClearErrorFlag
    BY <1>6 DEF ClearErrorFlag, Running, Proceed
  <1>7. CASE SetMask
    BY <1>7 DEF SetMask, Running, Proceed
  <1>8. CASE ConnectPorts
    BY <1>8 DEF ConnectPorts, Running, Finish, Proceed
  <1>9. CASE DisconnectPort
    BY <1>9 DEF DisconnectPort, Running, Proceed
  <1>10. CASE Control
    BY <1>10 DEF Control, Finish, Proceed
  <1> QED
    BY <1>1, <1>2, <1>3, <1>4, <1>5, <1>6, <1>7, <1>8, <1>9, <1>10 DEF ClientStep

\* The program is x and then r.
LEMMA FirstStep ==
    ASSUME NEW x, NEW r, IsList(r), todo = Then(x, r)
    PROVE  /\ todo # <<>> /\ Step = x
           /\ \A p : Proceed(p) => todo' = p \o r /\ at' = "start"
           /\ Proceed(<<>>) => todo' = r /\ at' = "start"
  BY ZenonT(30), ThenIsList, ThenConcat DEF Step, Proceed

\* The components, and what the client has of them.
Theirs == <<list, mask, state, enabled, tunnel, pending, freed>>

\* Steps that change nothing of the components.
LEMMA BranchSteps ==
    ASSUME ClientStep, NEW x, NEW r, IsList(r), todo = Then(x, r)
    PROVE  /\ \A v, p, q : x = If(v, p, q) =>
                 /\ todo' = (IF ret \in v THEN p ELSE q) \o r
                 /\ ret' = ret /\ at' = "start" /\ UNCHANGED Theirs
           /\ \A c, p, q : x = IfLoaded(c, p, q) =>
                 /\ todo' = (IF state[c] = "Loaded" THEN p ELSE q) \o r
                 /\ ret' = ret /\ at' = "start" /\ UNCHANGED Theirs
           /\ \A P : x = Choose(P) =>
                 /\ \E p \in P : todo' = p \o r
                 /\ ret' = ret /\ at' = "start" /\ UNCHANGED Theirs
           /\ \A v : x = Result(v) =>
                 todo' = r /\ ret' = v /\ at' = "start" /\ UNCHANGED Theirs
           /\ \A c : x = ClearError(c) =>
                 todo' = r /\ ret' = ret /\ at' = "start" /\ UNCHANGED Theirs
           /\ \A w : x = VcAssert(w) => asserted' # {}
  <1>1. /\ Step = x
        /\ \A p : Proceed(p) => todo' = p \o r /\ at' = "start"
        /\ Proceed(<<>>) => todo' = r /\ at' = "start"
    BY FirstStep
  <1>2. ASSUME NEW v, NEW p, NEW q, x = If(v, p, q)
        PROVE  /\ todo' = (IF ret \in v THEN p ELSE q) \o r
               /\ ret' = ret /\ at' = "start" /\ UNCHANGED Theirs
    <2>1. Step.do = "if" /\ Step.values = v /\ Step.then = p /\ Step.else = q
      BY <1>1, <1>2 DEF If
    <2> QED
      BY <1>1, <2>1, StepKinds DEF Control, Theirs, lib, comps
  <1>3. ASSUME NEW c, NEW p, NEW q, x = IfLoaded(c, p, q)
        PROVE  /\ todo' = (IF state[c] = "Loaded" THEN p ELSE q) \o r
               /\ ret' = ret /\ at' = "start" /\ UNCHANGED Theirs
    <2>1. Step.do = "ifloaded" /\ Step.c = c /\ Step.then = p /\ Step.else = q
      BY <1>1, <1>3 DEF IfLoaded
    <2> QED
      BY <1>1, <2>1, StepKinds DEF Control, Theirs, lib, comps
  <1>4. ASSUME NEW P, x = Choose(P)
        PROVE  /\ \E p \in P : todo' = p \o r
               /\ ret' = ret /\ at' = "start" /\ UNCHANGED Theirs
    <2>1. Step.do = "choose" /\ Step.programs = P
      BY <1>1, <1>4 DEF Choose
    <2> QED
      BY <1>1, <2>1, StepKinds DEF Control, Theirs, lib, comps
  <1>5. ASSUME NEW v, x = Result(v)
        PROVE  todo' = r /\ ret' = v /\ at' = "start" /\ UNCHANGED Theirs
    <2>1. Step.do = "result" /\ Step.value = v
      BY <1>1, <1>5 DEF Result
    <2> QED
      BY <1>1, <2>1, StepKinds DEF Control, Finish, Theirs, lib, comps
  <1>6. ASSUME NEW c, x = ClearError(c)
        PROVE  todo' = r /\ ret' = ret /\ at' = "start" /\ UNCHANGED Theirs
    <2>1. Step.do = "clear"
      BY <1>1, <1>6 DEF ClearError
    <2> QED
      BY <1>1, <2>1, StepKinds DEF ClearErrorFlag, Theirs, comps
  <1>7. ASSUME NEW w, x = VcAssert(w)
        PROVE  asserted' # {}
    <2>1. Step.do = "assert"
      BY <1>1, <1>7 DEF VcAssert
    <2> QED
      BY <2>1, StepKinds DEF Control
  <1> QED
    BY <1>2, <1>3, <1>4, <1>5, <1>6, <1>7

\* The calls into the components, and the masks.
LEMMA CallSteps ==
    ASSUME ClientStep, NEW x, NEW r, IsList(r), todo = Then(x, r)
    PROVE  /\ \A c, cmd, arg : x = Send(c, cmd, arg) =>
                 /\ todo' = r /\ ret' = ret /\ at' = "start"
                 /\ pending' = [pending EXCEPT ![c] = Append(@, <<cmd, arg>>)]
                 /\ UNCHANGED <<list, mask, state, enabled, tunnel, freed>>
           /\ \A c, on : x = Mask(c, on) =>
                 /\ todo' = r /\ ret' = ret /\ at' = "start"
                 /\ mask' = [mask EXCEPT ![c] = on]
                 /\ UNCHANGED <<list, state, enabled, tunnel, pending, freed>>
           /\ \A c : x = Disconnect(c) =>
                 /\ todo' = r /\ ret' = ret /\ at' = "start" /\ tunnel' = FALSE
                 /\ UNCHANGED <<list, mask, state, enabled, pending, freed>>
           /\ x = Connect =>
                 /\ todo' = r /\ at' = "start" /\ (ret' = 0 => tunnel' = TRUE)
                 /\ UNCHANGED <<list, mask, state, enabled, pending, freed>>
           /\ \A c : x = ReturnEvents(c) =>
                 /\ todo' = r /\ ret' = ret /\ at' = "start"
                 /\ list' = [list EXCEPT ![c] = <<>>]
                 /\ UNCHANGED <<mask, state, enabled, tunnel, pending, freed>>
  <1>1. /\ Step = x
        /\ \A p : Proceed(p) => todo' = p \o r /\ at' = "start"
        /\ Proceed(<<>>) => todo' = r /\ at' = "start"
    BY FirstStep
  <1>2. ASSUME NEW c, NEW cmd, NEW arg, x = Send(c, cmd, arg)
        PROVE  /\ todo' = r /\ ret' = ret /\ at' = "start"
               /\ pending' = [pending EXCEPT ![c] = Append(@, <<cmd, arg>>)]
               /\ UNCHANGED <<list, mask, state, enabled, tunnel, freed>>
    <2>1. Step.do = "send" /\ Step.c = c /\ Step.cmd = cmd /\ Step.arg = arg
      BY <1>1, <1>2 DEF Send
    <2> QED
      BY <1>1, <2>1, StepKinds DEF SendCommand, lib
  <1>3. ASSUME NEW c, NEW on, x = Mask(c, on)
        PROVE  /\ todo' = r /\ ret' = ret /\ at' = "start"
               /\ mask' = [mask EXCEPT ![c] = on]
               /\ UNCHANGED <<list, state, enabled, tunnel, pending, freed>>
    <2>1. Step.do = "mask" /\ Step.c = c /\ Step.on = on
      BY <1>1, <1>3 DEF Mask
    <2> QED
      BY <1>1, <2>1, StepKinds DEF SetMask, comps
  <1>4. ASSUME NEW c, x = Disconnect(c)
        PROVE  /\ todo' = r /\ ret' = ret /\ at' = "start" /\ tunnel' = FALSE
               /\ UNCHANGED <<list, mask, state, enabled, pending, freed>>
    <2>1. Step.do = "disconnect"
      BY <1>1, <1>4 DEF Disconnect
    <2> QED
      BY <1>1, <2>1, StepKinds DEF DisconnectPort, lib
  <1>5. ASSUME x = Connect
        PROVE  /\ todo' = r /\ at' = "start" /\ (ret' = 0 => tunnel' = TRUE)
               /\ UNCHANGED <<list, mask, state, enabled, pending, freed>>
    <2>1. Step.do = "connect"
      BY <1>1, <1>5 DEF Connect
    <2> QED
      <3>1. ConnectPorts
        BY <2>1, StepKinds
      <3>2. UNCHANGED <<list, mask, state, enabled, pending, freed>>
        BY <3>1 DEF ConnectPorts, lib
      <3>3. \/ tunnel' = TRUE /\ Finish(0)
            \/ Finish(-1)
        BY <3>1 DEF ConnectPorts
      <3>4. Finish(0) \/ Finish(-1) => todo' = r /\ at' = "start"
        BY <1>1 DEF Finish
      <3>5. Finish(-1) => ret' # 0
        BY DEF Finish
      <3> QED
        BY <3>2, <3>3, <3>4, <3>5
  <1>6. ASSUME NEW c, x = ReturnEvents(c)
        PROVE  /\ todo' = r /\ ret' = ret /\ at' = "start"
               /\ list' = [list EXCEPT ![c] = <<>>]
               /\ UNCHANGED <<mask, state, enabled, tunnel, pending, freed>>
    <2>1. Step.do = "returnevents" /\ Step.c = c
      BY <1>1, <1>6 DEF ReturnEvents
    <2> QED
      BY <1>1, <2>1, StepKinds DEF ReturnAll, comps
  <1> QED
    BY <1>2, <1>3, <1>4, <1>5, <1>6

\* A wait has taken event i of c's list, which answers a command.
Took(c, ev, i) == /\ i \in 1 .. Len(list[c]) /\ IsAnswer(list[c][i])
                  /\ list' = [list EXCEPT ![c] = RemoveAt(@, i)]
                  /\ (ret' = 0 => Succeeded(list[c][i])) /\ ev = list[c][i]

\* ilclient_wait_for_command_complete_dual goes on waiting, or takes an event, or returns
\* because the other component failed; another pass resets related.
LEMMA WaitPasses ==
    ASSUME TypeOK, ClientStep, NEW c \in Comps, NEW cmd, NEW arg, NEW other, NEW r, IsList(r),
           todo = Then(WaitDual(c, cmd, arg, other), r)
    PROVE  /\ UNCHANGED <<mask, state, enabled, tunnel, pending, freed>>
           /\ \/ todo' = todo /\ at' # "end" /\ list' = list /\ ret' = ret /\ at # "end"
              \/ /\ at # "end"
                 /\ \/ \E i, ev : Took(c, ev, i)
                    \/ other # NoComp /\ ret' # 0 /\ list' = list
                 /\ IF other = NoComp THEN todo' = r /\ at' = "start"
                                      ELSE todo' = todo /\ at' = "end"
              \/ at = "end" /\ todo' = r /\ at' = "start" /\ list' = list /\ ret' = ret
  <1> DEFINE x == WaitDual(c, cmd, arg, other)
  <1>1. /\ Step = x
        /\ \A p : Proceed(p) => todo' = p \o r /\ at' = "start"
        /\ Proceed(<<>>) => todo' = r /\ at' = "start"
    BY FirstStep
  <1>2. Step.do = "wait" /\ Step.c = c /\ Step.cmd = cmd /\ Step.arg = arg /\ Step.other = other
    BY <1>1 DEF WaitDual
  <1>3. WaitBegins \/ WaitScans \/ WaitWakes \/ WaitEnds
    BY <1>2, StepKinds
  <1>4. CASE WaitBegins
    BY <1>4 DEF WaitBegins, Running, Stay, comps
  <1>5. CASE WaitScans
    <2> DEFINE i == Find(list[c], Awaited)
    <2>1. list[c] \in Seq(Events)
      BY DEF TypeOK
    <2>2. i = 0 \/ (i \in 1 .. Len(list[c]) /\ Awaited(list[c][i]))
      BY <2>1, Found
    <2>3. /\ UNCHANGED <<mask, state, enabled, tunnel, pending, freed>>
          /\ at # "end"
          /\ \/ /\ i # 0 /\ list' = [list EXCEPT ![c] = RemoveAt(@, i)]
                /\ ret' = IF list[c][i].e = "CmdComplete" \/ list[c][i].d1 = "SameState"
                          THEN 0 ELSE -1
                /\ WaitReturns
             \/ /\ i = 0 /\ Failing(other) /\ ret' = -2 /\ WaitReturns /\ list' = list
             \/ /\ i = 0 /\ Stay("blocked") /\ list' = list /\ ret' = ret
      BY <1>2, <1>5 DEF WaitScans, Running, Take, comps
    <2>4. WaitReturns => IF other = NoComp THEN todo' = r /\ at' = "start"
                                           ELSE todo' = todo /\ at' = "end"
      BY <1>1, <1>2 DEF WaitReturns, Stay
    <2>5. Stay("blocked") => todo' = todo /\ at' # "end"
      BY DEF Stay
    <2>6. Failing(other) => other # NoComp
      BY DEF Failing
    <2>7. \A ev : Awaited(ev) => IsAnswer(ev)
      BY DEF Awaited, IsAnswer, Complete, Event
    <2> HIDE DEF i
    <2>8. CASE i # 0
      <3>1. /\ IsAnswer(list[c][i]) /\ i \in 1 .. Len(list[c])
            /\ ret' = 0 => Succeeded(list[c][i])
        BY <2>2, <2>3, <2>7, <2>8 DEF Succeeded
      <3>2. Took(c, list[c][i], i)
        BY <2>3, <2>8, <3>1 DEF Took
      <3> QED
        BY <2>3, <2>4, <2>8, <3>2
    <2>9. CASE i = 0
      BY <2>3, <2>4, <2>5, <2>6, <2>9
    <2> QED
      BY <2>8, <2>9
  <1>6. CASE WaitWakes
    BY <1>6 DEF WaitWakes, Running, Stay, comps
  <1>7. CASE WaitEnds
    BY <1>1, <1>7 DEF WaitEnds, Running, comps
  <1> QED
    BY <1>3, <1>4, <1>5, <1>6, <1>7

\* An event of the kind e has left c's list.
Left(c, e) == \E i \in 1 .. Len(list[c]) : /\ list[c][i].e = e
                                          /\ list' = [list EXCEPT ![c] = RemoveAt(@, i)]

\* A wait for an event goes on, or returns; it only takes what it waits for.
LEMMA EventPasses ==
    ASSUME TypeOK, ClientStep, NEW c \in Comps, NEW e, NEW d1, NEW w, NEW timed, NEW r, IsList(r),
           todo = Then(WaitEvent(c, e, d1, w, timed), r)
    PROVE  /\ UNCHANGED <<mask, state, enabled, tunnel, pending, freed>>
           /\ \/ todo' = todo /\ list' = list /\ ret' = ret
              \/ todo' = r /\ at' = "start" /\ list' = list /\ ret' # 0
              \/ todo' = r /\ at' = "start" /\ ret' = 0 /\ Left(c, e)
           /\ w = {"PORT_FLUSH"} /\ ~ timed /\ at \in {"start", "blocked"} =>
                 \/ todo' = todo /\ at' \in {"start", "blocked"}
                 \/ todo' = r /\ ret' = 0
  <1> DEFINE x == WaitEvent(c, e, d1, w, timed)
  <1>1. /\ Step = x
        /\ \A p : Proceed(p) => todo' = p \o r /\ at' = "start"
        /\ Proceed(<<>>) => todo' = r /\ at' = "start"
    BY FirstStep
  <1>2. /\ Step.do = "waitevent" /\ Step.c = c /\ Step.e = e /\ Step.awaited = w
        /\ Step.timed = timed
    BY <1>1 DEF WaitEvent
  <1>3. \/ EventLooked \/ EventErrors \/ EventConfigs
        \/ EventLast \/ EventWakes \/ EventTimesOut
    BY <1>2, StepKinds
  <1>4. CASE EventLooked \/ EventLast
    <2> DEFINE i == Find(list[c], Wanted)
    <2>1. list[c] \in Seq(Events)
      BY DEF TypeOK
    <2>2. i = 0 \/ (i \in 1 .. Len(list[c]) /\ list[c][i].e = e)
      BY <1>2, <2>1, Found DEF Wanted
    <2>3. /\ UNCHANGED <<mask, state, enabled, tunnel, pending, freed>>
          /\ \/ i # 0 /\ list' = [list EXCEPT ![c] = RemoveAt(@, i)] /\ Finish(0)
             \/ /\ list' = list
                /\ \/ Finish(-3) /\ at = "last"
                   \/ /\ Stay(IF "EVENT_ERROR" \in w THEN "errors" ELSE "blocked")
                      /\ ret' = ret
      BY <1>2, <1>4 DEF EventLooked, EventLast, Running, Take, comps
    <2> HIDE DEF i
    <2> QED
      BY <1>1, <2>2, <2>3 DEF Finish, Stay, Left
  <1>5. CASE EventErrors \/ EventConfigs \/ EventTimesOut
    BY <1>1, <1>2, <1>5 DEF EventErrors, EventConfigs, EventTimesOut, Running, Finish, Stay,
                            lib, comps
  <1>6. CASE EventWakes
    <2>1. /\ UNCHANGED <<list, mask, state, enabled, tunnel, pending, freed>>
          /\ \/ "EVENT_ERROR" \in w /\ Finish(-2)
             \/ /\ Stay(IF "CONFIG_CHANGED" \in flags[c] \cap w THEN "last" ELSE "start")
                /\ ret' = ret
      BY <1>2, <1>6 DEF EventWakes, comps
    <2> QED
      BY <1>1, <2>1 DEF Finish, Stay
  <1> QED
    BY <1>3, <1>4, <1>5, <1>6

-----------------------------------------------------------------------------
(* What the client knows of the components after its own steps *)

\* It is the same if the components do nothing and the lists get no answer.
LEMMA HereStill ==
    ASSUME NEW a, NEW b, NEW K, NEW m, Here(a, b, K, m),
           UNCHANGED <<state, enabled, pending, freed>>,
           \A c \in Comps : Same(list[c], list'[c]),
           m = "masked" => mask' = mask,
           tunnel' = tunnel \/ (a \notin Tearing /\ b \notin Tearing)
    PROVE  Here(a, b, K, m)'
  <1>1. \A d, k : Effect(d, k) => Effect(d, k)'
    BY DEF Effect
  <1>2. Source \in Comps /\ Sink \in Comps
    BY DEF Comps
  <1>3. Owes(Source, a)' /\ Owes(Sink, b)'
    BY <1>1, <1>2, OwedKept DEF Here
  <1>4. \A x \in K : /\ x[1] \in Comps /\ Effect(x[1], x[2])'
                     /\ Stays(IF x[1] = Source THEN a ELSE b, x[2])
    BY <1>1 DEF Here
  <1>5. IF m = "masked" THEN \A c \in Comps : mask'[c]
        ELSE freed' = {} /\ (tunnel' => a \notin Tearing /\ b \notin Tearing)
    BY DEF Here
  <1> QED
    BY <1>3, <1>4, <1>5 DEF Here

\* A step that changes nothing of the components.
LEMMA HereSame ==
    ASSUME UNCHANGED Theirs
    PROVE  \A a, b, K, m : Here(a, b, K, m) => Here(a, b, K, m)'
  <1>1. /\ UNCHANGED <<state, enabled, pending, freed, mask, tunnel>>
        /\ \A c \in Comps : Same(list[c], list'[c])
    BY DEF Theirs, Same
  <1> QED
    BY <1>1, HereStill

\* Less is known.
LEMMA HereLess ==
    ASSUME NEW a, NEW b, NEW K, NEW L \in SUBSET K, NEW m
    PROVE  /\ Here(a, b, K, m) => Here(a, b, L, m)
           /\ Here(a, b, K, m)' => Here(a, b, L, m)'
  <1>1. Here(a, b, K, m) => Here(a, b, L, m)
    BY DEF Here
  <1>2. Here(a, b, K, m)' => Here(a, b, L, m)'
    BY DEF Here
  <1> QED
    BY <1>1, <1>2

\* PortUnpopulated is masked on both sides, or no longer.
LEMMA HereMasked ==
    ASSUME NEW a, NEW b, NEW K,
           UNCHANGED <<list, state, enabled, tunnel, pending, freed>>
    PROVE  /\ Here(a, b, K, "open") /\ (\A c \in Comps : mask'[c]) => Here(a, b, K, "masked")'
           /\ Here(Nothing, Nothing, K, "masked") /\ freed = {}
                 => Here(Nothing, Nothing, K, "open")'
  <1>1. \A d, k : /\ Effect(d, k) => Effect(d, k)'
                  /\ Owes(d, k) => Owes(d, k)'
    BY DEF Effect, Owes
  <1>2. Nothing \notin Tearing
    BY DEF Nothing, Tearing, Off, ToState
  <1>3. Here(a, b, K, "open") /\ (\A c \in Comps : mask'[c]) => Here(a, b, K, "masked")'
    BY <1>1 DEF Here
  <1>4. Here(Nothing, Nothing, K, "masked") /\ freed = {} => Here(Nothing, Nothing, K, "open")'
    BY <1>1, <1>2 DEF Here
  <1> QED
    BY <1>3, <1>4

\* The client sends a command to a component that owes nothing.
LEMMA SendingStep ==
    ASSUME TypeOK, ClientStep, NEW r, IsList(r), NEW c \in Comps, NEW cmd, NEW arg,
           todo = Then(Send(c, cmd, arg), r),
           NEW a, NEW b, NEW K, NEW m, Here(a, b, K, m),
           IF c = Source THEN a = Nothing ELSE b = Nothing,
           cmd # "none",
           \A x \in K : x[1] = c => Stays(<<cmd, arg>>, x[2]),
           m = "masked" \/ ~ tunnel \/ <<cmd, arg>> \notin Tearing
    PROVE  /\ todo' = r /\ ret' = ret /\ at' = "start" /\ UNCHANGED <<tunnel, last>>
           /\ IF c = Source THEN Here(<<cmd, arg>>, b, K, m)' ELSE Here(a, <<cmd, arg>>, K, m)'
  <1>1. PICK k : k = <<cmd, arg>>
    OBVIOUS
  <1>2. /\ todo' = r /\ ret' = ret /\ at' = "start"
        /\ pending' = [pending EXCEPT ![c] = Append(@, k)]
        /\ UNCHANGED <<list, mask, state, enabled, tunnel, freed>>
    <2>1. /\ todo' = r /\ ret' = ret /\ at' = "start"
          /\ pending' = [pending EXCEPT ![c] = Append(@, <<cmd, arg>>)]
          /\ UNCHANGED <<list, mask, state, enabled, tunnel, freed>>
      BY CallSteps
    <2> QED
      BY <1>1, <2>1
  <1>3. k # Nothing
    BY <1>1 DEF Nothing
  <1>4. Comps = {Source, Sink} /\ Source # Sink
    BY CompsAssumption DEF Comps
  <1>5. pending \in [Comps -> Seq(Commands)]
    BY DEF TypeOK
  <1>6. Owes(c, Nothing)
    BY <1>4 DEF Here
  <1>7. Owes(c, k)'
    <2>1. /\ pending[c] = <<>> /\ \A i \in 1 .. Len(list[c]) : ~ IsAnswer(list[c][i])
      BY <1>6 DEF Owes
    <2>2. pending'[c] = <<k>>
      BY <1>2, <1>5, <2>1
    <2> QED
      BY <1>2, <1>3, <2>1, <2>2 DEF Owes, Quiet, Lone
  <1>8. \A d, j : Effect(d, j) => Effect(d, j)'
    BY <1>2 DEF Effect
  <1>9. \A d \in Comps \ {c} : \A j : Owes(d, j) => Owes(d, j)'
    <2>1. \A d \in Comps \ {c} : pending'[d] = pending[d]
      BY <1>2, <1>5
    <2> QED
      BY <1>2, <2>1 DEF Owes, Effect
  <1>10. CASE c = Source
    <2>1. Owes(Source, k)' /\ Owes(Sink, b)'
      BY <1>4, <1>7, <1>9, <1>10 DEF Here
    <2>2. \A x \in K : /\ x[1] \in Comps /\ Effect(x[1], x[2])'
                       /\ Stays(IF x[1] = Source THEN k ELSE b, x[2])
      BY <1>1, <1>8, <1>10 DEF Here
    <2> QED
      BY <1>1, <1>2, <1>10, <2>1, <2>2, StepKinds DEF Here
  <1>11. CASE c # Source
    <2>1. Owes(Source, a)' /\ Owes(Sink, k)'
      BY <1>4, <1>7, <1>9, <1>11 DEF Here
    <2>2. \A x \in K : /\ x[1] \in Comps /\ Effect(x[1], x[2])'
                       /\ Stays(IF x[1] = Source THEN a ELSE k, x[2])
      BY <1>1, <1>4, <1>8, <1>11 DEF Here
    <2> QED
      BY <1>1, <1>2, <1>11, <2>1, <2>2, StepKinds DEF Here
  <1> QED
    BY <1>10, <1>11

\* The client has taken the answer of c: nothing is owed there, and if it was a success
\* the effect is known.
LEMMA HereTaken ==
    ASSUME TypeOK, NEW c \in Comps, NEW i, NEW ev, Took(c, ev, i),
           UNCHANGED <<mask, state, enabled, tunnel, pending, freed>>,
           NEW a, NEW b, NEW K, NEW m, Here(a, b, K, m), ret' = 0
    PROVE  IF c = Source THEN Here(Nothing, b, K \cup {<<Source, a>>}, m)'
           ELSE Here(a, Nothing, K \cup {<<Sink, b>>}, m)'
  <1>1. Comps = {Source, Sink} /\ Source # Sink
    BY CompsAssumption DEF Comps
  <1>2. PICK o : o = IF c = Source THEN a ELSE b
    OBVIOUS
  <1>3. Owes(c, o)
    BY <1>1, <1>2 DEF Here
  <1>4. /\ i \in 1 .. Len(list[c]) /\ IsAnswer(list[c][i]) /\ Succeeded(list[c][i])
        /\ list' = [list EXCEPT ![c] = RemoveAt(list[c], i)]
        /\ list \in [Comps -> Seq(Events)] /\ list[c] \in Seq(Events)
    BY DEF Took, TypeOK
  <1>5. Effect(c, o) /\ pending[c] = <<>> /\ Lone(list[c])
    BY <1>3, <1>4 DEF Owes, Quiet
  <1>6. Quiet(RemoveAt(list[c], i))
    BY <1>4, <1>5, RemoveThins
  <1>7. list'[c] = RemoveAt(list[c], i) /\ \A d \in Comps \ {c} : list'[d] = list[d]
    BY <1>4
  <1>8. Owes(c, Nothing)'
    BY <1>5, <1>6, <1>7 DEF Owes, Quiet, Lone
  <1>9. \A d \in Comps \ {c} : \A j : Owes(d, j) => Owes(d, j)'
    BY <1>7 DEF Owes, Effect
  <1>10. \A d, j : Effect(d, j) => Effect(d, j)'
    BY DEF Effect
  <1>11. Nothing \notin Tearing /\ \A j : Stays(Nothing, j)
    BY DEF Nothing, Tearing, Off, ToState, Stays
  <1>12. CASE c = Source
    <2>1. Owes(Source, Nothing)' /\ Owes(Sink, b)'
      BY <1>1, <1>8, <1>9, <1>12 DEF Here
    <2>2. \A x \in K \cup {<<Source, a>>} :
             /\ x[1] \in Comps /\ Effect(x[1], x[2])'
             /\ Stays(IF x[1] = Source THEN Nothing ELSE b, x[2])
      BY <1>1, <1>2, <1>5, <1>10, <1>11, <1>12 DEF Here
    <2>3. IF m = "masked" THEN \A d \in Comps : mask'[d]
          ELSE freed' = {} /\ (tunnel' => Nothing \notin Tearing /\ b \notin Tearing)
      BY <1>11 DEF Here
    <2> QED
      BY <1>12, <2>1, <2>2, <2>3 DEF Here
  <1>13. CASE c # Source
    <2>1. Owes(Source, a)' /\ Owes(Sink, Nothing)'
      BY <1>1, <1>8, <1>9, <1>13 DEF Here
    <2>2. \A x \in K \cup {<<Sink, b>>} :
             /\ x[1] \in Comps /\ Effect(x[1], x[2])'
             /\ Stays(IF x[1] = Source THEN a ELSE Nothing, x[2])
      BY <1>1, <1>2, <1>5, <1>10, <1>11, <1>13 DEF Here
    <2>3. IF m = "masked" THEN \A d \in Comps : mask'[d]
          ELSE freed' = {} /\ (tunnel' => a \notin Tearing /\ Nothing \notin Tearing)
      BY <1>11 DEF Here
    <2> QED
      BY <1>13, <2>1, <2>2, <2>3 DEF Here
  <1> QED
    BY <1>12, <1>13

\* The source or the sink is told to do something.
LEMMA SourceTold ==
    ASSUME TypeOK, ClientStep, NEW r, IsList(r), NEW cmd, NEW arg,
           todo = Then(Send(Source, cmd, arg), r),
           NEW b, NEW K, NEW m, Here(Nothing, b, K, m), cmd # "none",
           \A x \in K : x[1] = Source => Stays(<<cmd, arg>>, x[2]),
           m = "masked" \/ ~ tunnel \/ <<cmd, arg>> \notin Tearing
    PROVE  /\ todo' = r /\ ret' = ret /\ at' = "start" /\ UNCHANGED <<tunnel, last>>
           /\ Here(<<cmd, arg>>, b, K, m)'
  BY SendingStep DEF Comps

\* Or the sink.
LEMMA SinkTold ==
    ASSUME TypeOK, ClientStep, NEW r, IsList(r), NEW cmd, NEW arg,
           todo = Then(Send(Sink, cmd, arg), r),
           NEW a, NEW K, NEW m, Here(a, Nothing, K, m), cmd # "none",
           \A x \in K : x[1] = Sink => Stays(<<cmd, arg>>, x[2]),
           m = "masked" \/ ~ tunnel \/ <<cmd, arg>> \notin Tearing
    PROVE  /\ todo' = r /\ ret' = ret /\ at' = "start" /\ UNCHANGED <<tunnel, last>>
           /\ Here(a, <<cmd, arg>>, K, m)'
  BY SendingStep, CompsAssumption DEF Comps

\* The client waits for what the source owes.
LEMMA SourceAwaited ==
    ASSUME TypeOK, ClientStep, NEW r, IsList(r), NEW cmd, NEW arg,
           todo = Then(Wait(Source, cmd, arg), r), at # "end",
           NEW a, NEW b, NEW K, NEW m, Here(a, b, K, m),
           NEW L, L \subseteq K \cup {<<Source, a>>}
    PROVE  /\ UNCHANGED <<tunnel, last>>
           /\ \/ todo' = todo /\ at' # "end" /\ Here(a, b, K, m)'
              \/ todo' = r /\ (ret' = 0 => Here(Nothing, b, L, m)')
  <1>1. /\ UNCHANGED <<mask, state, enabled, tunnel, pending, freed, last>>
        /\ \/ todo' = todo /\ at' # "end" /\ list' = list
           \/ /\ \/ \E i, ev : Took(Source, ev, i)
                 \/ NoComp # NoComp
              /\ todo' = r
    BY WaitPasses, StepKinds DEF Wait, Comps
  <1>2. CASE todo' = todo /\ at' # "end" /\ list' = list
    BY <1>1, <1>2, HereSame DEF Theirs
  <1>3. ASSUME NEW i, NEW ev, Took(Source, ev, i), ret' = 0
        PROVE  Here(Nothing, b, L, m)'
    <2>1. Here(Nothing, b, K \cup {<<Source, a>>}, m)'
      BY <1>1, <1>3, HereTaken DEF Comps
    <2> QED
      BY <2>1, HereLess
  <1> QED
    BY <1>1, <1>2, <1>3

\* The wait for the sink may watch the source as well, and then ends with a failure of it.
LEMMA SinkPasses ==
    ASSUME TypeOK, ClientStep, NEW r, IsList(r), NEW cmd, NEW arg, NEW other,
           todo = Then(WaitDual(Sink, cmd, arg, other), r), at # "end",
           NEW a, NEW b, NEW K, NEW m, Here(a, b, K, m),
           NEW L, L \subseteq K \cup {<<Sink, b>>}
    PROVE  /\ UNCHANGED <<tunnel, last>>
           /\ \/ todo' = todo /\ at' # "end" /\ Here(a, b, K, m)'
              \/ /\ IF other = NoComp THEN todo' = r ELSE todo' = todo /\ at' = "end"
                 /\ ret' = 0 => Here(a, Nothing, L, m)'
  <1>1. /\ UNCHANGED <<mask, state, enabled, tunnel, pending, freed, last>>
        /\ \/ todo' = todo /\ at' # "end" /\ list' = list
           \/ /\ \/ \E i, ev : Took(Sink, ev, i)
                 \/ ret' # 0
              /\ IF other = NoComp THEN todo' = r ELSE todo' = todo /\ at' = "end"
    BY WaitPasses, StepKinds DEF Comps
  <1>2. CASE todo' = todo /\ at' # "end" /\ list' = list
    BY <1>1, <1>2, HereSame DEF Theirs
  <1>3. ASSUME NEW i, NEW ev, Took(Sink, ev, i), ret' = 0
        PROVE  Here(a, Nothing, L, m)'
    <2>1. Here(a, Nothing, K \cup {<<Sink, b>>}, m)'
      BY <1>1, <1>3, HereTaken, CompsAssumption DEF Comps
    <2> QED
      BY <2>1, HereLess
  <1> QED
    BY <1>1, <1>2, <1>3

\* The sink is awaited alone.
LEMMA SinkAwaited ==
    ASSUME TypeOK, ClientStep, NEW r, IsList(r), NEW cmd, NEW arg,
           todo = Then(Wait(Sink, cmd, arg), r), at # "end",
           NEW a, NEW b, NEW K, NEW m, Here(a, b, K, m),
           NEW L, L \subseteq K \cup {<<Sink, b>>}
    PROVE  /\ UNCHANGED <<tunnel, last>>
           /\ \/ todo' = todo /\ at' # "end" /\ Here(a, b, K, m)'
              \/ todo' = r /\ (ret' = 0 => Here(a, Nothing, L, m)')
  BY SinkPasses DEF Wait

-----------------------------------------------------------------------------
(* The operations, point by point *)

\* Lists of steps, whatever the steps are.
LEMMA Lists ==
    /\ \A x, r : IsList(r) => IsList(Then(x, r)) /\ Then(x, r) # <<>>
    /\ \A x, p, r : IsList(p) /\ IsList(r) => Then(x, p) \o r = Then(x, p \o r)
    /\ \A r : IsList(r) => <<>> \o r = r /\ r \o <<>> = r
    /\ \A p, r : IsList(p) /\ IsList(r) => IsList(p \o r)
    /\ IsList(<<>>)
  <1>1. IsList(<<>>)
    BY ShortLists
  <1>2. ASSUME NEW x, NEW r, IsList(r)
        PROVE  IsList(Then(x, r)) /\ Then(x, r) # <<>>
    BY <1>2, ThenIsList
  <1>3. ASSUME NEW x, NEW p, NEW r, IsList(p), IsList(r)
        PROVE  Then(x, p) \o r = Then(x, p \o r)
    BY <1>3, ThenConcat
  <1>4. ASSUME NEW r, IsList(r)
        PROVE  <<>> \o r = r /\ r \o <<>> = r
    BY <1>4, ThenConcat
  <1>5. ASSUME NEW p, NEW r, IsList(p), IsList(r)
        PROVE  IsList(p \o r)
    <2>1. Then(p, p) \o r = Then(p, p \o r) /\ IsList(p \o r)
      BY <1>5, ThenConcat
    <2> QED
      BY <2>1
  <1> QED
    BY <1>1, <1>2, <1>3, <1>4, <1>5

\* What is left of an operation that has failed.
LEMMA FailingPrograms ==
    ASSUME NEW k, IsList(k), NEW p, IsProgram(p), NEW v \in Int \ {0}
    PROVE  /\ todo = (p \o <<Result(v)>>) \o k => Lost(k)
           /\ todo' = (p \o <<Result(v)>>) \o k => Lost(k)'
  <1>1. IsList(p) /\ IsList(<<Result(v)>>)
    BY ProgramIsList, ShortLists, Lists
  <1>2. (p \o <<Result(v)>>) \o k = p \o Then(Result(v), k)
    BY <1>1, ListsConcat DEF Then
  <1>3. todo = (p \o <<Result(v)>>) \o k => Lost(k)
    BY <1>2 DEF Lost
  <1>4. todo' = (p \o <<Result(v)>>) \o k => Lost(k)'
    BY <1>2 DEF Lost
  <1> QED
    BY <1>3, <1>4

\* The lists of what has an effect.
LEMMA Known ==
    /\ \A k : Both(k) = {<<Source, k>>} \cup {<<Sink, k>>}
    /\ SinkOn = {<<Sink, On>>}
  BY DEF Both, SinkOn

\* A branch on the result of a wait, and an assertion about it.
LEMMA ResultBranches ==
    ASSUME ClientStep, NEW p, NEW q, NEW r, IsList(r), todo = Then(If({0}, p, q), r)
    PROVE  /\ ret = 0 => todo' = p \o r
           /\ ret # 0 => todo' = q \o r
           /\ ret' = ret /\ at' = "start" /\ UNCHANGED <<Theirs, last, tunnel>>
           /\ \A a, b, K, m : Here(a, b, K, m) => Here(a, b, K, m)'
  <1>1. /\ todo' = (IF ret \in {0} THEN p ELSE q) \o r
        /\ ret' = ret /\ at' = "start" /\ UNCHANGED Theirs
    <2>1. PICK x : x = If({0}, p, q)
      OBVIOUS
    <2> QED
      BY <2>1, BranchSteps
  <1> QED
    BY <1>1, HereSame, StepKinds DEF Theirs

\* An assertion about the result: a result that is not 0 makes it fail.
LEMMA CheckStep ==
    ASSUME ClientStep, NEW w, NEW r, IsList(r), todo = Then(Check(w), r)
    PROVE  /\ ret = 0 => todo' = r /\ \A a, b, K, m : Here(a, b, K, m) => Here(a, b, K, m)'
           /\ ret # 0 => Accused'
           /\ ret' = ret /\ at' = "start" /\ UNCHANGED <<tunnel, last>>
  <1>1. /\ ret = 0 => todo' = <<>> \o r
        /\ ret # 0 => todo' = <<VcAssert(w)>> \o r
        /\ ret' = ret /\ at' = "start" /\ UNCHANGED <<Theirs, last, tunnel>>
        /\ \A a, b, K, m : Here(a, b, K, m) => Here(a, b, K, m)'
    BY ResultBranches DEF Check
  <1>2. ASSUME todo' = <<VcAssert(w)>> \o r
        PROVE  Accused'
    <2>1. todo' = Then(VcAssert(w), r)
      BY <1>2 DEF Then
    <2>2. todo' # <<>> /\ Head(todo') = VcAssert(w)
      BY <2>1, ThenIsList
    <2> QED
      BY <2>2 DEF Accused, Step, VcAssert
  <1> QED
    BY <1>1, <1>2, Lists

\* The client tells c something, or waits for what c owes, and the other one owes nothing.
LEMMA OneTold ==
    ASSUME TypeOK, ClientStep, NEW c \in Comps, NEW r, IsList(r), NEW cmd, NEW arg,
           todo = Then(Send(c, cmd, arg), r), Here(Nothing, Nothing, {}, "open"), cmd # "none",
           ~ tunnel \/ <<cmd, arg>> \notin Tearing,
           NEW a, NEW b, a = IF c = Source THEN <<cmd, arg>> ELSE Nothing,
           b = IF c = Source THEN Nothing ELSE <<cmd, arg>>
    PROVE  /\ todo' = r /\ ret' = ret /\ at' = "start" /\ UNCHANGED <<tunnel, last>>
           /\ Here(a, b, {}, "open")'
  <1>1. CASE c = Source
    BY <1>1, SourceTold
  <1>2. CASE c # Source
    <2>1. c = Sink
      BY <1>2 DEF Comps
    <2> QED
      BY <1>2, <2>1, SinkTold
  <1> QED
    BY <1>1, <1>2

\* And it waits for the answer.
LEMMA OneAwaited ==
    ASSUME TypeOK, ClientStep, NEW c \in Comps, NEW r, IsList(r), NEW cmd, NEW arg,
           todo = Then(Wait(c, cmd, arg), r), at # "end",
           NEW a, NEW b, Here(a, b, {}, "open"), NEW o,
           a = IF c = Source THEN o ELSE Nothing, b = IF c = Source THEN Nothing ELSE o
    PROVE  /\ UNCHANGED <<tunnel, last>>
           /\ \/ todo' = todo /\ at' # "end" /\ Here(a, b, {}, "open")'
              \/ todo' = r /\ (ret' = 0 => Here(Nothing, Nothing, {<<c, o>>}, "open")')
  <1> DEFINE L == {<<c, o>>}
  <1>1. CASE c = Source
    <2>1. L \subseteq {} \cup {<<Source, a>>}
      BY <1>1
    <2> HIDE DEF L
    <2>2. \/ todo' = todo /\ at' # "end" /\ Here(a, b, {}, "open")'
          \/ todo' = r /\ (ret' = 0 => Here(Nothing, b, L, "open")')
      BY <1>1, <2>1, SourceAwaited
    <2>3. UNCHANGED <<tunnel, last>>
      BY <1>1, <2>1, SourceAwaited
    <2> QED
      BY <1>1, <2>2, <2>3 DEF L
  <1>2. CASE c # Source
    <2>1. c = Sink /\ L \subseteq {} \cup {<<Sink, b>>}
      BY <1>2 DEF Comps
    <2> HIDE DEF L
    <2>2. \/ todo' = todo /\ at' # "end" /\ Here(a, b, {}, "open")'
          \/ todo' = r /\ (ret' = 0 => Here(a, Nothing, L, "open")')
      BY <1>2, <2>1, SinkAwaited
    <2>3. UNCHANGED <<tunnel, last>>
      BY <1>2, <2>1, SinkAwaited
    <2> QED
      BY <1>2, <2>2, <2>3 DEF L
  <1> QED
    BY <1>1, <1>2

\* ilclient_change_component_state
LEMMA ChangeStep ==
    ASSUME TypeOK, ClientStep, NEW c \in Comps, NEW t \in States, NEW k, IsList(k),
           AtChange(c, t, k)
    PROVE  /\ UNCHANGED <<tunnel, last>>
           /\ \/ AtChange(c, t, k)'
              \/ todo' = k /\ ret' = 0 /\ Here(Nothing, Nothing, {<<c, ToState(t)>>}, "open")'
              \/ Lost(k)'
  <1> DEFINE end == Then(If({0}, <<>>, <<RemoveError(c), Result(-1)>>), k)
             waiting == Then(Wait(c, "StateSet", t), end)
             a == IF c = Source THEN ToState(t) ELSE Nothing
             b == IF c = Source THEN Nothing ELSE ToState(t)
             done == {<<c, ToState(t)>>}
  <1>1. IsList(end) /\ IsList(waiting) /\ last' = last
    BY Lists, StepKinds
  <1>2. /\ t = "Loaded" => ~ tunnel
        /\ \/ todo = Then(Send(c, "StateSet", t), waiting) /\ Here(Nothing, Nothing, {}, "open")
           \/ todo = waiting /\ at # "end" /\ Here(a, b, {}, "open")
           \/ todo = end /\ If0(done, Nothing, Nothing, "open")
    BY DEF AtChange
  <1>3. tunnel' = tunnel /\ (\/ todo' = waiting /\ at' # "end" /\ Here(a, b, {}, "open")'
                             \/ todo' = end /\ If0(done, Nothing, Nothing, "open")')
        => AtChange(c, t, k)'
    BY <1>2 DEF AtChange
  <1>4. CASE todo = Then(Send(c, "StateSet", t), waiting) /\ Here(Nothing, Nothing, {}, "open")
    <2>1. ~ tunnel \/ <<"StateSet", t>> \notin Tearing
      BY <1>2 DEF Tearing, Off, ToState
    <2>2. /\ a = IF c = Source THEN <<"StateSet", t>> ELSE Nothing
          /\ b = IF c = Source THEN Nothing ELSE <<"StateSet", t>>
      BY DEF ToState
    <2> HIDE DEF a, b, waiting
    <2>3. /\ todo' = waiting /\ at' = "start" /\ UNCHANGED tunnel
          /\ Here(a, b, {}, "open")'
      BY <1>1, <1>4, <2>1, <2>2, OneTold
    <2> QED
      BY <1>1, <1>3, <2>3
  <1>5. CASE todo = waiting /\ at # "end" /\ Here(a, b, {}, "open")
    <2> HIDE DEF a, b, end
    <2>1. /\ UNCHANGED tunnel
          /\ \/ todo' = todo /\ at' # "end" /\ Here(a, b, {}, "open")'
             \/ todo' = end /\ (ret' = 0 => Here(Nothing, Nothing, done, "open")')
      BY <1>1, <1>5, OneAwaited DEF a, b
    <2> QED
      BY <1>1, <1>3, <1>5, <2>1 DEF If0
  <1>6. CASE todo = end /\ If0(done, Nothing, Nothing, "open")
    <2>1. /\ ret = 0 => todo' = <<>> \o k
          /\ ret # 0 => todo' = <<RemoveError(c), Result(-1)>> \o k
          /\ ret' = ret /\ UNCHANGED tunnel
          /\ Here(Nothing, Nothing, done, "open") => Here(Nothing, Nothing, done, "open")'
      BY <1>6, ResultBranches
    <2>2. CASE ret = 0
      BY <1>1, <1>6, <2>1, <2>2, Lists DEF If0
    <2>3. CASE ret # 0
      <3>1. IsProgram(<<RemoveError(c)>>) /\ -1 \in Int \ {0}
        BY OtherSteps, ShortPrograms
      <3>2. <<RemoveError(c), Result(-1)>> = <<RemoveError(c)>> \o <<Result(-1)>>
        BY ShortLists DEF Then
      <3> QED
        BY <1>1, <2>1, <2>3, <3>1, <3>2, FailingPrograms
    <2> QED
      BY <2>2, <2>3
  <1> QED
    BY <1>2, <1>4, <1>5, <1>6

\* ilclient_disable_port and ilclient_enable_port
LEMMA PortStep ==
    ASSUME TypeOK, ClientStep, NEW c \in Comps, NEW o \in {On, Off}, NEW w, AtPort(c, o, w)
    PROVE  /\ UNCHANGED <<tunnel, last>>
           /\ \/ AtPort(c, o, w)'
              \/ todo' = <<>> /\ ret' = 0 /\ Here(Nothing, Nothing, {}, "open")'
              \/ Accused'
  <1> DEFINE end == <<Check(w)>>
             waiting == Then(Wait(c, o[1], "port"), end)
             a == IF c = Source THEN o ELSE Nothing
             b == IF c = Source THEN Nothing ELSE o
  <1>1. IsList(<<>>) /\ end = Then(Check(w), <<>>) /\ IsList(end) /\ IsList(waiting)
    <2>1. IsList(<<>>) /\ \A x : <<x>> = Then(x, <<>>)
      BY ShortLists
    <2>2. end = Then(Check(w), <<>>)
      BY <2>1
    <2>3. \A x, r : IsList(r) => IsList(Then(x, r))
      BY Lists
    <2>4. IsList(end)
      <3> HIDE DEF end
      <3> QED
        BY <2>1, <2>2, <2>3
    <2> HIDE DEF end
    <2> QED
      BY <2>1, <2>2, <2>3, <2>4
  <1>2. /\ o = Off => ~ tunnel
        /\ \/ todo = Then(Send(c, o[1], "port"), waiting) /\ Here(Nothing, Nothing, {}, "open")
           \/ todo = waiting /\ at # "end" /\ Here(a, b, {}, "open")
           \/ todo = end /\ If0({}, Nothing, Nothing, "open")
    BY DEF AtPort
  <1>3. tunnel' = tunnel /\ (\/ todo' = waiting /\ at' # "end" /\ Here(a, b, {}, "open")'
                             \/ todo' = end /\ If0({}, Nothing, Nothing, "open")')
        => AtPort(c, o, w)'
    BY <1>2 DEF AtPort
  <1>4. <<o[1], "port">> = o /\ o[1] # "none" /\ (~ tunnel \/ o \notin Tearing)
    BY <1>2 DEF On, Off, Tearing, ToState
  <1>5. CASE todo = Then(Send(c, o[1], "port"), waiting) /\ Here(Nothing, Nothing, {}, "open")
    <2>1. a = (IF c = Source THEN o ELSE Nothing) /\ b = (IF c = Source THEN Nothing ELSE o)
      OBVIOUS
    <2> HIDE DEF a, b, waiting
    <2>2. /\ todo' = waiting /\ at' = "start" /\ UNCHANGED <<tunnel, last>>
          /\ Here(a, b, {}, "open")'
      <3>1. PICK cmd : cmd = o[1]
        OBVIOUS
      <3> QED
        BY <1>1, <1>4, <1>5, <2>1, <3>1, OneTold
    <2> QED
      BY <1>3, <2>2
  <1>6. CASE todo = waiting /\ at # "end" /\ Here(a, b, {}, "open")
    <2> HIDE DEF a, b, end
    <2>1. /\ UNCHANGED <<tunnel, last>>
          /\ \/ todo' = todo /\ at' # "end" /\ Here(a, b, {}, "open")'
             \/ todo' = end /\ (ret' = 0 => Here(Nothing, Nothing, {<<c, o>>}, "open")')
      BY <1>1, <1>6, OneAwaited DEF a, b
    <2>2. Here(Nothing, Nothing, {<<c, o>>}, "open")' => Here(Nothing, Nothing, {}, "open")'
      BY HereLess
    <2> QED
      BY <1>3, <1>6, <2>1, <2>2 DEF If0
  <1>7. CASE todo = end /\ If0({}, Nothing, Nothing, "open")
    <2>1. /\ ret = 0 => todo' = <<>> /\ (Here(Nothing, Nothing, {}, "open")
                                          => Here(Nothing, Nothing, {}, "open")')
          /\ ret # 0 => Accused'
          /\ ret' = ret /\ UNCHANGED <<tunnel, last>>
      <3> HIDE DEF end
      <3> QED
        BY <1>1, <1>7, CheckStep
    <2> QED
      BY <1>7, <2>1 DEF If0
  <1> QED
    BY <1>2, <1>5, <1>6, <1>7

\* The mask of c is set or reset.
LEMMA MaskStep ==
    ASSUME ClientStep, NEW c, NEW on, NEW r, IsList(r), todo = Then(Mask(c, on), r)
    PROVE  /\ todo' = r /\ ret' = ret /\ mask' = [mask EXCEPT ![c] = on]
           /\ UNCHANGED <<list, state, enabled, tunnel, pending, freed, last>>
  <1>1. Step = Mask(c, on) /\ (Proceed(<<>>) => todo' = r)
    BY FirstStep
  <1>2. Step.do = "mask" /\ Step.c = c /\ Step.on = on
    BY <1>1 DEF Mask
  <1>3. SetMask /\ last' = last
    BY <1>2, StepKinds
  <1> QED
    BY <1>1, <1>2, <1>3 DEF SetMask, comps

\* The masks are set, and then comes k.
LEMMA MaskingStep ==
    ASSUME TypeOK, ClientStep, NEW k, IsList(k), AtMasking(k)
    PROVE  /\ UNCHANGED <<tunnel, last>>
           /\ \/ AtMasking(k)'
              \/ todo' = k /\ Here(Nothing, Nothing, {}, "masked")'
  <1>1. mask \in [Comps -> BOOLEAN] /\ Comps = {Source, Sink} /\ Source # Sink
    BY CompsAssumption DEF TypeOK, Comps
  <1>2. PICK on : on = TRUE
    OBVIOUS
  <1>3. CASE /\ todo = Then(Mask(Source, TRUE), Then(Mask(Sink, TRUE), k))
             /\ Here(Nothing, Nothing, {}, "open")
    <2>1. /\ todo' = Then(Mask(Sink, on), k) /\ mask' = [mask EXCEPT ![Source] = on]
          /\ UNCHANGED <<list, state, enabled, tunnel, pending, freed>>
      <3>1. todo = Then(Mask(Source, on), Then(Mask(Sink, on), k))
        BY <1>2, <1>3
      <3>2. IsList(Then(Mask(Sink, on), k))
        BY Lists
      <3> QED
        BY <3>1, <3>2, MaskStep
    <2>2. mask'[Source]
      BY <1>1, <1>2, <2>1
    <2>3. Nothing \notin Tearing /\ \A c \in Comps : Same(list[c], list'[c])
      BY <2>1 DEF Nothing, Tearing, Off, ToState, Same
    <2>4. Here(Nothing, Nothing, {}, "open")'
      BY <1>3, <2>1, <2>3, HereStill
    <2> QED
      BY <1>2, <2>1, <2>2, <2>4, StepKinds DEF AtMasking
  <1>4. CASE todo = Then(Mask(Sink, TRUE), k) /\ mask[Source] /\ Here(Nothing, Nothing, {}, "open")
    <2>1. /\ todo' = k /\ mask' = [mask EXCEPT ![Sink] = on]
          /\ UNCHANGED <<list, state, enabled, tunnel, pending, freed>>
      <3>1. todo = Then(Mask(Sink, on), k)
        BY <1>2, <1>4
      <3> QED
        BY <3>1, MaskStep
    <2>2. \A c \in Comps : mask'[c]
      BY <1>1, <1>2, <1>4, <2>1
    <2>3. Here(Nothing, Nothing, {}, "masked")'
      BY <1>4, <2>1, <2>2, HereMasked
    <2> QED
      BY <2>1, <2>3, StepKinds
  <1> QED
    BY <1>3, <1>4 DEF AtMasking

\* The masks are reset, and then comes k: nobody is about to report PortUnpopulated if both
\* ports are disabled, or both components in Loaded.
LEMMA UnmaskingStep ==
    ASSUME TypeOK, FreedAreUp, ClientStep, NEW k, IsList(k), NEW o \in Tearing,
           AtUnmasking(Both(o), k)
    PROVE  /\ UNCHANGED <<tunnel, last>>
           /\ \/ AtUnmasking(Both(o), k)'
              \/ todo' = k /\ ret' = 0 /\ Here(Nothing, Nothing, Both(o), "open")'
  <1> DEFINE K == Both(o)
  <1>1. PICK on : on = FALSE
    OBVIOUS
  <1>2. CASE /\ todo = Then(Mask(Source, FALSE), Then(Mask(Sink, FALSE), k))
             /\ ret = 0 /\ Here(Nothing, Nothing, K, "masked")
    <2>1. /\ todo' = Then(Mask(Sink, on), k) /\ ret' = ret
          /\ UNCHANGED <<list, state, enabled, tunnel, pending, freed>>
      <3>1. todo = Then(Mask(Source, on), Then(Mask(Sink, on), k))
        BY <1>1, <1>2
      <3>2. IsList(Then(Mask(Sink, on), k))
        BY Lists
      <3> QED
        BY <3>1, <3>2, MaskStep
    <2>2. freed = {}
      <3>1. \A c \in Comps : Effect(c, o)
        BY <1>2 DEF Here, Both, Comps
      <3>2. \A c \in Comps : Effect(c, o) => c \notin freed
        BY DEF Effect, FreedAreUp, Tearing, Off, ToState
      <3> QED
        BY <3>1, <3>2 DEF FreedAreUp
    <2> HIDE DEF K
    <2>3. Here(Nothing, Nothing, K, "open")'
      BY <1>2, <2>1, <2>2, HereMasked
    <2> QED
      BY <1>1, <1>2, <2>1, <2>3, StepKinds DEF AtUnmasking, K
  <1>3. CASE todo = Then(Mask(Sink, FALSE), k) /\ ret = 0 /\ Here(Nothing, Nothing, K, "open")
    <2>1. /\ todo' = k /\ ret' = ret
          /\ UNCHANGED <<list, state, enabled, tunnel, pending, freed>>
      <3>1. todo = Then(Mask(Sink, on), k)
        BY <1>1, <1>3
      <3> QED
        BY <3>1, MaskStep
    <2>2. Nothing \notin Tearing /\ \A c \in Comps : Same(list[c], list'[c])
      BY <2>1 DEF Nothing, Tearing, Off, ToState, Same
    <2> HIDE DEF K
    <2>3. Here(Nothing, Nothing, K, "open")'
      BY <1>3, <2>1, <2>2, HereStill
    <2> QED
      BY <1>3, <2>1, <2>3, StepKinds DEF K
  <1> QED
    BY <1>2, <1>3 DEF AtUnmasking

\* Both components are awaited, and then comes k.
LEMMA AwaitingStep ==
    ASSUME TypeOK, ClientStep, NEW k, IsList(k), NEW o, NEW w, NEW m, AtAwaiting(o, w, m, k)
    PROVE  /\ UNCHANGED <<tunnel, last>>
           /\ \/ AtAwaiting(o, w, m, k)'
              \/ todo' = k /\ ret' = 0 /\ Here(Nothing, Nothing, Both(o), m)'
              \/ Accused'
  <1> DEFINE end == Then(Check(w), k)
             waiting == Then(Wait(Sink, o[1], o[2]), end)
             check == Then(Check(w), waiting)
             K == {<<Source, o>>}
  <1>1. IsList(end) /\ IsList(waiting) /\ IsList(check)
    BY Lists
  <1>2. /\ \/ todo = Then(Wait(Source, o[1], o[2]), check) /\ at # "end" /\ Here(o, o, {}, m)
           \/ todo = check /\ If0(K, Nothing, o, m)
           \/ todo = waiting /\ at # "end" /\ Here(Nothing, o, K, m)
           \/ todo = end /\ If0(Both(o), Nothing, Nothing, m)
        /\ \/ todo' = todo /\ todo = Then(Wait(Source, o[1], o[2]), check) /\ at' # "end"
              /\ Here(o, o, {}, m)'
           \/ todo' = check /\ If0(K, Nothing, o, m)'
           \/ todo' = waiting /\ at' # "end" /\ Here(Nothing, o, K, m)'
           \/ todo' = end /\ If0(Both(o), Nothing, Nothing, m)'
           => AtAwaiting(o, w, m, k)'
    BY DEF AtAwaiting, Awaiting
  <1>3. PICK cmd, arg : cmd = o[1] /\ arg = o[2]
    OBVIOUS
  <1>4. CASE todo = Then(Wait(Source, o[1], o[2]), check) /\ at # "end" /\ Here(o, o, {}, m)
    <2>1. K \subseteq {} \cup {<<Source, o>>}
      OBVIOUS
    <2> HIDE DEF K, check
    <2>2. /\ UNCHANGED <<tunnel, last>>
          /\ \/ todo' = todo /\ at' # "end" /\ Here(o, o, {}, m)'
             \/ todo' = check /\ (ret' = 0 => Here(Nothing, o, K, m)')
      BY <1>1, <1>3, <1>4, <2>1, SourceAwaited
    <2> QED
      BY <1>2, <1>4, <2>2 DEF If0
  <1>5. CASE todo = check /\ If0(K, Nothing, o, m)
    <2> HIDE DEF K, waiting
    <2>1. /\ ret = 0 => todo' = waiting /\ (Here(Nothing, o, K, m) => Here(Nothing, o, K, m)')
          /\ ret # 0 => Accused'
          /\ at' = "start" /\ UNCHANGED <<tunnel, last>>
      BY <1>1, <1>5, CheckStep
    <2> QED
      BY <1>2, <1>5, <2>1 DEF If0
  <1>6. CASE todo = waiting /\ at # "end" /\ Here(Nothing, o, K, m)
    <2> DEFINE L == Both(o)
    <2>1. L \subseteq K \cup {<<Sink, o>>}
      BY DEF Both
    <2> HIDE DEF K, end, L
    <2>2. /\ UNCHANGED <<tunnel, last>>
          /\ \/ todo' = todo /\ at' # "end" /\ Here(Nothing, o, K, m)'
             \/ todo' = end /\ (ret' = 0 => Here(Nothing, Nothing, L, m)')
      BY <1>1, <1>3, <1>6, <2>1, SinkAwaited
    <2> QED
      BY <1>2, <1>6, <2>2 DEF If0, L
  <1>7. CASE todo = end /\ If0(Both(o), Nothing, Nothing, m)
    <2> DEFINE L == Both(o)
    <2> HIDE DEF L
    <2>1. /\ ret = 0 => todo' = k /\ (Here(Nothing, Nothing, L, m) => Here(Nothing, Nothing, L, m)')
          /\ ret # 0 => Accused'
          /\ ret' = ret /\ UNCHANGED <<tunnel, last>>
      BY <1>1, <1>7, CheckStep
    <2> QED
      BY <1>7, <2>1 DEF If0, L
  <1> QED
    BY <1>2, <1>4, <1>5, <1>6, <1>7

\* ilclient_disable_tunnel
LEMMA DisableTunnelStep ==
    ASSUME TypeOK, FreedAreUp, ClientStep, NEW k, IsList(k), AtDisableTunnel(k)
    PROVE  /\ UNCHANGED <<tunnel, last>>
           /\ \/ AtDisableTunnel(k)'
              \/ todo' = k /\ ret' = 0 /\ Here(Nothing, Nothing, Both(Off), "open")'
              \/ Accused'
  <1> DEFINE unmask == Then(Mask(Source, FALSE), Then(Mask(Sink, FALSE), k))
             await == Awaiting(Off, "disable", unmask)
             sendSink == Then(Send(Sink, "PortDisable", "port"), await)
             sendSource == Then(Send(Source, "PortDisable", "port"), sendSink)
  <1>1. IsList(unmask) /\ IsList(await) /\ IsList(sendSink) /\ IsList(sendSource)
    <2>1. IsList(unmask)
      BY Lists
    <2> HIDE DEF unmask
    <2>2. IsList(await)
      BY <2>1, Lists DEF Awaiting
    <2> HIDE DEF await
    <2> QED
      BY <2>1, <2>2, Lists
  <1>2. /\ \/ AtMasking(sendSource)
           \/ todo = sendSource /\ Here(Nothing, Nothing, {}, "masked")
           \/ todo = sendSink /\ Here(Off, Nothing, {}, "masked")
           \/ AtAwaiting(Off, "disable", "masked", unmask)
           \/ AtUnmasking(Both(Off), k)
        /\ \/ AtMasking(sendSource)'
           \/ todo' = sendSource /\ Here(Nothing, Nothing, {}, "masked")'
           \/ todo' = sendSink /\ Here(Off, Nothing, {}, "masked")'
           \/ AtAwaiting(Off, "disable", "masked", unmask)'
           \/ AtUnmasking(Both(Off), k)'
           => AtDisableTunnel(k)'
    BY DEF AtDisableTunnel
  <1>3. /\ todo' = await /\ at' # "end" /\ Here(Off, Off, {}, "masked")'
           => AtAwaiting(Off, "disable", "masked", unmask)'
        /\ todo' = unmask /\ ret' = 0 /\ Here(Nothing, Nothing, Both(Off), "masked")'
           => AtUnmasking(Both(Off), k)'
    BY DEF AtAwaiting, AtUnmasking
  <1>4. Off = <<"PortDisable", "port">> /\ Off \in Tearing
    BY DEF Off, Tearing
  <1>5. CASE AtMasking(sendSource)
    <2> HIDE DEF sendSource
    <2> QED
      BY <1>1, <1>2, <1>5, MaskingStep
  <1>6. CASE todo = sendSource /\ Here(Nothing, Nothing, {}, "masked")
    <2> HIDE DEF sendSink
    <2>1. /\ todo' = sendSink /\ UNCHANGED <<tunnel, last>> /\ Here(Off, Nothing, {}, "masked")'
      BY <1>1, <1>4, <1>6, SourceTold
    <2> QED
      BY <1>2, <2>1
  <1>7. CASE todo = sendSink /\ Here(Off, Nothing, {}, "masked")
    <2> HIDE DEF await
    <2>1. /\ todo' = await /\ at' = "start" /\ UNCHANGED <<tunnel, last>>
          /\ Here(Off, Off, {}, "masked")'
      BY <1>1, <1>4, <1>7, SinkTold
    <2> QED
      BY <1>2, <1>3, <2>1
  <1>8. CASE AtAwaiting(Off, "disable", "masked", unmask)
    <2> HIDE DEF unmask
    <2>1. /\ UNCHANGED <<tunnel, last>>
          /\ \/ AtAwaiting(Off, "disable", "masked", unmask)'
             \/ todo' = unmask /\ ret' = 0 /\ Here(Nothing, Nothing, Both(Off), "masked")'
             \/ Accused'
      BY <1>1, <1>8, AwaitingStep
    <2> QED
      BY <1>2, <1>3, <2>1
  <1>9. CASE AtUnmasking(Both(Off), k)
    <2>1. /\ UNCHANGED <<tunnel, last>>
          /\ \/ AtUnmasking(Both(Off), k)'
             \/ todo' = k /\ ret' = 0 /\ Here(Nothing, Nothing, Both(Off), "open")'
      BY <1>4, <1>9, UnmaskingStep
    <2> QED
      BY <1>2, <2>1
  <1> QED
    BY <1>2, <1>5, <1>6, <1>7, <1>8, <1>9

\* A wait for an event that answers no command.
LEMMA SettingsStep ==
    ASSUME TypeOK, ClientStep, NEW c \in Comps, NEW d1, NEW w, NEW timed, NEW r, IsList(r),
           todo = Then(WaitEvent(c, "PortSettingsChanged", d1, w, timed), r),
           Here(Nothing, Nothing, {}, "open")
    PROVE  /\ UNCHANGED <<tunnel, last>> /\ Here(Nothing, Nothing, {}, "open")'
           /\ (todo' = todo /\ ret' = ret) \/ todo' = r
  <1>1. PICK e : e = "PortSettingsChanged"
    OBVIOUS
  <1>2. /\ UNCHANGED <<mask, state, enabled, tunnel, pending, freed, last>>
        /\ (todo' = todo /\ ret' = ret) \/ todo' = r
        /\ list' = list \/ Left(c, e)
    BY <1>1, EventPasses, StepKinds
  <1>3. list \in [Comps -> Seq(Events)]
    BY DEF TypeOK
  <1>4. \A d \in Comps : Same(list[d], list'[d])
    <2>1. \A s : Same(s, s)
      BY DEF Same
    <2>2. ASSUME NEW i \in 1 .. Len(list[c]), list' = [list EXCEPT ![c] = RemoveAt(@, i)]
          PROVE  \A d \in Comps : Same(list[d], list'[d])
      <3>1. Thins(list[c], RemoveAt(list[c], i))
        BY <1>3, RemoveThins
      <3>2. Same(list[c], RemoveAt(list[c], i))
        BY <3>1, ThinnedLists DEF Same
      <3> QED
        BY <1>3, <2>1, <2>2, <3>2
    <2> QED
      BY <1>2, <2>1, <2>2 DEF Left
  <1>5. Nothing \notin Tearing
    BY DEF Nothing, Tearing, Off, ToState
  <1>6. Here(Nothing, Nothing, {}, "open")'
    BY <1>2, <1>4, <1>5, HereStill
  <1> QED
    BY <1>2, <1>6

\* ilclient_return_events
LEMMA ReturningStep ==
    ASSUME TypeOK, ClientStep, NEW c \in Comps, NEW r, IsList(r),
           todo = Then(ReturnEvents(c), r), Here(Nothing, Nothing, {}, "open")
    PROVE  /\ todo' = r /\ ret' = ret /\ UNCHANGED <<tunnel, last>>
           /\ Here(Nothing, Nothing, {}, "open")'
  <1>1. PICK x : x = ReturnEvents(c)
    OBVIOUS
  <1>2. /\ todo' = r /\ ret' = ret
        /\ list' = [list EXCEPT ![c] = <<>>]
        /\ UNCHANGED <<mask, state, enabled, tunnel, pending, freed, last>>
    BY <1>1, CallSteps, StepKinds
  <1>3. list \in [Comps -> Seq(Events)]
    BY DEF TypeOK
  <1>4. Len(<<>>) = 0
    OBVIOUS
  <1>5. \A d \in Comps : Same(list[d], list'[d])
    BY <1>2, <1>3, <1>4 DEF Same, Quiet, Lone
  <1>6. Nothing \notin Tearing
    BY DEF Nothing, Tearing, Off, ToState
  <1>7. Here(Nothing, Nothing, {}, "open")'
    BY <1>2, <1>5, <1>6, HereStill
  <1> QED
    BY <1>2, <1>7

\* The end of the tunnel at c is disconnected.
LEMMA DisconnectStep ==
    ASSUME TypeOK, ClientStep, NEW c \in Comps, NEW r, IsList(r),
           todo = Then(Disconnect(c), r), Here(Nothing, Nothing, {}, "open")
    PROVE  /\ todo' = r /\ ret' = ret /\ last' = last
           /\ Here(Nothing, Nothing, {}, "open")'
  <1>1. PICK x : x = Disconnect(c)
    OBVIOUS
  <1>2. /\ todo' = r /\ ret' = ret
        /\ UNCHANGED <<list, mask, state, enabled, pending, freed, last>>
    BY <1>1, CallSteps, StepKinds
  <1>3. \A d \in Comps : Same(list[d], list'[d])
    BY <1>2 DEF Same
  <1>4. Nothing \notin Tearing
    BY DEF Nothing, Tearing, Off, ToState
  <1>5. Here(Nothing, Nothing, {}, "open")'
    BY <1>2, <1>3, <1>4, HereStill
  <1> QED
    BY <1>2, <1>5

\* ilclient_teardown_tunnels
LEMMA TeardownStep ==
    ASSUME TypeOK, ClientStep, AtTeardown
    PROVE  /\ last' = last
           /\ \/ AtTeardown'
              \/ todo' = <<>> /\ ret' = 0 /\ Here(Nothing, Nothing, {}, "open")'
  <1>1. /\ NotConnected = Then(Disconnect(Source), <<Disconnect(Sink)>>)
        /\ <<Disconnect(Sink)>> = Then(Disconnect(Sink), <<>>)
        /\ IsList(<<Disconnect(Sink)>>) /\ IsList(<<>>)
        /\ Source \in Comps /\ Sink \in Comps
    <2>1. <<Disconnect(Sink)>> = Then(Disconnect(Sink), <<>>) /\ IsList(<<>>)
      BY ShortLists
    <2>2. NotConnected = Then(Disconnect(Source), Then(Disconnect(Sink), <<>>))
      BY ShortLists, Zenon DEF NotConnected
    <2>3. IsList(<<Disconnect(Sink)>>)
      BY <2>1, Lists
    <2> QED
      BY <2>1, <2>2, <2>3 DEF Comps
  <1>2. CASE todo = NotConnected
    BY <1>1, <1>2, DisconnectStep DEF AtTeardown
  <1>3. CASE todo = <<Disconnect(Sink)>>
    BY <1>1, <1>3, DisconnectStep DEF AtTeardown
  <1> QED
    BY <1>2, <1>3 DEF AtTeardown

\* ilclient_return_events, and a wait for a change of settings that the client asks for.
LEMMA LookStep ==
    ASSUME TypeOK, ClientStep, AtLook, Here(Nothing, Nothing, {}, "open")
    PROVE  /\ UNCHANGED <<tunnel, last>> /\ Here(Nothing, Nothing, {}, "open")'
           /\ AtLook' \/ todo' = <<>>
  <1>1. /\ \A x : <<x>> = Then(x, <<>>)
        /\ IsList(<<>>) /\ Source \in Comps
    BY ShortLists DEF Comps
  <1>2. ASSUME NEW c \in Comps, todo = <<ReturnEvents(c)>>
        PROVE  /\ UNCHANGED <<tunnel, last>> /\ Here(Nothing, Nothing, {}, "open")'
               /\ todo' = <<>>
    BY <1>1, <1>2, ReturningStep
  <1>3. CASE todo = <<WaitEvent(Source, "PortSettingsChanged", "port",
                                {"PARAMETER_CHANGED", "CONFIG_CHANGED", "EVENT_ERROR"}, TRUE)>>
    <2>1. PICK timed, w : /\ timed = TRUE
                          /\ w = {"PARAMETER_CHANGED", "CONFIG_CHANGED", "EVENT_ERROR"}
      OBVIOUS
    <2>2. todo = Then(WaitEvent(Source, "PortSettingsChanged", "port", w, timed), <<>>)
      BY <1>1, <1>3, <2>1
    <2>3. /\ UNCHANGED <<tunnel, last>> /\ Here(Nothing, Nothing, {}, "open")'
          /\ (todo' = todo /\ ret' = ret) \/ todo' = <<>>
      BY <1>1, <2>2, SettingsStep
    <2> QED
      BY <1>3, <2>3 DEF AtLook
  <1> QED
    BY <1>2, <1>3 DEF AtLook

\* A list is not what is left of it after a step.
LEMMA ThenDiffers ==
    ASSUME NEW x, NEW r, IsList(r)
    PROVE  Then(x, r) # r
  <1>1. PICK S : r \in Seq(S)
    BY DEF IsList
  <1> DEFINE T == S \cup {x}
  <1>2. r \in Seq(T) /\ <<x>> \in Seq(T) /\ Len(<<x>>) = 1
    <2>1. S \subseteq T /\ x \in T
      OBVIOUS
    <2>2. r \in Seq(T)
      BY <1>1, <2>1, SeqMonotonic
    <2> HIDE DEF T
    <2> QED
      BY <2>1, <2>2
  <1> HIDE DEF T
  <1>3. Len(<<x>> \o r) = 1 + Len(r) /\ Len(r) \in Nat
    BY <1>2, ConcatProperties, LenProperties
  <1> QED
    BY <1>3 DEF Then

\* The client waits for the end of a flush.
LEMMA FlushAwaited ==
    ASSUME TypeOK, ClientStep, NEW c \in Comps, NEW r, IsList(r),
           todo = Then(WaitEvent(c, "CmdComplete", "Flush", {"PORT_FLUSH"}, FALSE), r),
           at \in {"start", "blocked"},
           NEW a, NEW b, Here(a, b, {}, "open")
    PROVE  /\ UNCHANGED <<tunnel, last>>
           /\ \/ todo' = todo /\ at' \in {"start", "blocked"} /\ Here(a, b, {}, "open")'
              \/ /\ todo' = r /\ at' = "start" /\ ret' = 0
                 /\ IF c = Source THEN Here(Nothing, b, {}, "open")'
                                  ELSE Here(a, Nothing, {}, "open")'
  <1>1. PICK e, d1, w, timed : /\ e = "CmdComplete" /\ d1 = "Flush" /\ w = {"PORT_FLUSH"}
                               /\ timed = FALSE
    OBVIOUS
  <1>2. todo = Then(WaitEvent(c, e, d1, w, timed), r)
    BY <1>1
  <1>3. /\ UNCHANGED <<mask, state, enabled, tunnel, pending, freed, last>>
        /\ \/ todo' = todo /\ list' = list /\ ret' = ret
           \/ todo' = r /\ at' = "start" /\ list' = list /\ ret' # 0
           \/ /\ todo' = r /\ at' = "start" /\ ret' = 0
              /\ Left(c, e)
        /\ \/ todo' = todo /\ at' \in {"start", "blocked"}
           \/ todo' = r /\ ret' = 0
    <2>1. w = {"PORT_FLUSH"} /\ ~ timed /\ at \in {"start", "blocked"}
      BY <1>1
    <2>2. UNCHANGED <<mask, state, enabled, tunnel, pending, freed>>
      BY <1>2, EventPasses
    <2>4. \/ todo' = todo /\ list' = list /\ ret' = ret
          \/ todo' = r /\ at' = "start" /\ list' = list /\ ret' # 0
          \/ /\ todo' = r /\ at' = "start" /\ ret' = 0
             /\ Left(c, e)
      BY <1>2, EventPasses
    <2>3. w = {"PORT_FLUSH"} /\ ~ timed /\ at \in {"start", "blocked"} =>
             \/ todo' = todo /\ at' \in {"start", "blocked"}
             \/ todo' = r /\ ret' = 0
      BY <1>2, EventPasses
    <2> QED
      BY <2>1, <2>2, <2>3, <2>4, StepKinds
  <1>4. r # todo
    BY <1>2, ThenDiffers
  <1>5. CASE todo' = todo
    <2>1. UNCHANGED Theirs
      BY <1>3, <1>4, <1>5 DEF Theirs
    <2> QED
      BY <1>3, <1>4, <1>5, <2>1, HereSame
  <1>6. CASE todo' = r
    <2>1. PICK i \in 1 .. Len(list[c]) : /\ list[c][i].e = e
                                         /\ list' = [list EXCEPT ![c] = RemoveAt(@, i)]
      BY <1>3, <1>4, <1>6 DEF Left
    <2>2. Took(c, list[c][i], i)
      BY <1>1, <2>1 DEF Took, IsAnswer, Succeeded
    <2>3. ret' = 0 /\ at' = "start"
      BY <1>3, <1>4, <1>6
    <2>4. IF c = Source THEN Here(Nothing, b, {} \cup {<<Source, a>>}, "open")'
                        ELSE Here(a, Nothing, {} \cup {<<Sink, b>>}, "open")'
      BY <1>3, <2>2, <2>3, HereTaken
    <2>5. IF c = Source THEN Here(Nothing, b, {}, "open")' ELSE Here(a, Nothing, {}, "open")'
      <3>1. /\ Here(Nothing, b, {} \cup {<<Source, a>>}, "open")' => Here(Nothing, b, {}, "open")'
            /\ Here(a, Nothing, {} \cup {<<Sink, b>>}, "open")' => Here(a, Nothing, {}, "open")'
        BY HereLess
      <3> QED
        BY <2>4, <3>1
    <2> QED
      BY <1>3, <1>6, <2>3, <2>5
  <1> QED
    BY <1>3, <1>5, <1>6

\* ilclient_flush_tunnels
LEMMA FlushStep ==
    ASSUME TypeOK, ClientStep, AtFlush
    PROVE  /\ UNCHANGED <<tunnel, last>>
           /\ \/ AtFlush'
              \/ todo' = <<>> /\ ret' = 0 /\ Here(Nothing, Nothing, {}, "open")'
  <1> DEFINE wait(c) == WaitEvent(c, "CmdComplete", "Flush", {"PORT_FLUSH"}, FALSE)
             waitSink == <<wait(Sink)>>
             waitSource == Then(wait(Source), waitSink)
             sendSink == Then(Send(Sink, "Flush", "port"), waitSource)
  <1>1. /\ IsList(waitSink) /\ IsList(waitSource) /\ IsList(sendSink) /\ IsList(<<>>)
        /\ waitSink = Then(wait(Sink), <<>>)
        /\ Source \in Comps /\ Sink \in Comps /\ Source # Sink
    <2>1. waitSink = Then(wait(Sink), <<>>) /\ IsList(<<>>)
      BY ShortLists
    <2> HIDE DEF wait
    <2>2. IsList(waitSink)
      BY <2>1, Lists
    <2> HIDE DEF waitSink
    <2> QED
      BY <2>1, <2>2, Lists, CompsAssumption DEF Comps
  <1>2. /\ \/ todo = Then(Send(Source, "Flush", "port"), sendSink)
              /\ Here(Nothing, Nothing, {}, "open")
           \/ todo = sendSink /\ Here(Flushing, Nothing, {}, "open")
           \/ /\ todo = waitSource /\ at \in {"start", "blocked"}
              /\ Here(Flushing, Flushing, {}, "open")
           \/ todo = waitSink /\ at \in {"start", "blocked"} /\ Here(Nothing, Flushing, {}, "open")
        /\ \/ todo' = sendSink /\ Here(Flushing, Nothing, {}, "open")'
           \/ /\ todo' = waitSource /\ at' \in {"start", "blocked"}
              /\ Here(Flushing, Flushing, {}, "open")'
           \/ /\ todo' = waitSink /\ at' \in {"start", "blocked"}
              /\ Here(Nothing, Flushing, {}, "open")'
           => AtFlush'
    BY DEF AtFlush
  <1>3. Flushing = <<"Flush", "port">> /\ <<"Flush", "port">> \notin Tearing
    BY DEF Flushing, Tearing, Off, ToState
  <1>4. CASE todo = Then(Send(Source, "Flush", "port"), sendSink)
             /\ Here(Nothing, Nothing, {}, "open")
    <2> HIDE DEF sendSink
    <2>1. todo' = sendSink /\ UNCHANGED <<tunnel, last>> /\ Here(Flushing, Nothing, {}, "open")'
      BY <1>1, <1>3, <1>4, SourceTold
    <2> QED
      BY <1>2, <2>1
  <1>5. CASE todo = sendSink /\ Here(Flushing, Nothing, {}, "open")
    <2> HIDE DEF waitSource
    <2>1. /\ todo' = waitSource /\ at' = "start" /\ UNCHANGED <<tunnel, last>>
          /\ Here(Flushing, Flushing, {}, "open")'
      BY <1>1, <1>3, <1>5, SinkTold
    <2> QED
      BY <1>2, <2>1
  <1>6. CASE /\ todo = waitSource /\ at \in {"start", "blocked"}
             /\ Here(Flushing, Flushing, {}, "open")
    <2>0. todo = Then(WaitEvent(Source, "CmdComplete", "Flush", {"PORT_FLUSH"}, FALSE), waitSink)
      BY <1>6
    <2> HIDE DEF waitSink
    <2>1. /\ UNCHANGED <<tunnel, last>>
          /\ \/ todo' = todo /\ at' \in {"start", "blocked"}
                /\ Here(Flushing, Flushing, {}, "open")'
             \/ /\ todo' = waitSink /\ at' = "start" /\ ret' = 0
                /\ Here(Nothing, Flushing, {}, "open")'
      BY <1>1, <1>6, <2>0, FlushAwaited
    <2> QED
      BY <1>2, <1>6, <2>1
  <1>7. CASE todo = waitSink /\ at \in {"start", "blocked"} /\ Here(Nothing, Flushing, {}, "open")
    <2> HIDE DEF waitSink
    <2>1. todo = Then(WaitEvent(Sink, "CmdComplete", "Flush", {"PORT_FLUSH"}, FALSE), <<>>)
      BY <1>1, <1>7
    <2>2. /\ UNCHANGED <<tunnel, last>>
          /\ \/ todo' = todo /\ at' \in {"start", "blocked"}
                /\ Here(Nothing, Flushing, {}, "open")'
             \/ todo' = <<>> /\ ret' = 0 /\ Here(Nothing, Nothing, {}, "open")'
      BY <1>1, <1>7, <2>1, FlushAwaited
    <2> QED
      BY <1>2, <1>7, <2>2
  <1> QED
    BY <1>2, <1>4, <1>5, <1>6, <1>7

\* Two pairs of steps before a list.
LEMMA PairsConcat ==
    ASSUME NEW x, NEW y, NEW z, NEW u, NEW r, IsList(r)
    PROVE  /\ <<x, y>> \o r = Then(x, Then(y, r))
           /\ (<<x, y>> \o <<z, u>>) \o r = Then(x, Then(y, Then(z, Then(u, r))))
  <1>1. ASSUME NEW v, NEW w, NEW q, IsList(q)
        PROVE  <<v, w>> \o q = Then(v, Then(w, q)) /\ IsList(<<v, w>>)
    <2>1. /\ <<v, w>> = Then(v, Then(w, <<>>)) /\ IsList(<<>>) /\ IsList(Then(w, <<>>))
          /\ IsList(Then(v, Then(w, <<>>)))
      BY ShortLists, Lists
    <2>2. Then(v, Then(w, <<>>)) \o q = Then(v, Then(w, <<>>) \o q)
      BY <1>1, <2>1, ThenConcat
    <2>3. Then(w, <<>>) \o q = Then(w, <<>> \o q)
      <3>1. PICK e : e = <<>>
        OBVIOUS
      <3>2. IsList(e)
        BY <2>1, <3>1
      <3>3. Then(w, e) \o q = Then(w, e \o q)
        BY <1>1, <3>2, ThenConcat
      <3> QED
        BY <3>1, <3>3
    <2>4. <<>> \o q = q
      BY <1>1, Lists
    <2> QED
      BY <2>1, <2>2, <2>3, <2>4
  <1>2. IsList(Then(z, Then(u, r)))
    BY Lists
  <1>3. PICK p, q : p = <<x, y>> /\ q = <<z, u>>
    OBVIOUS
  <1>4. /\ IsList(p) /\ IsList(q) /\ q \o r = Then(z, Then(u, r))
        /\ p \o r = Then(x, Then(y, r))
        /\ p \o Then(z, Then(u, r)) = Then(x, Then(y, Then(z, Then(u, r))))
    <2>1. /\ IsList(<<x, y>>) /\ IsList(<<z, u>>) /\ <<z, u>> \o r = Then(z, Then(u, r))
          /\ <<x, y>> \o r = Then(x, Then(y, r))
      BY <1>1
    <2>2. <<x, y>> \o Then(z, Then(u, r)) = Then(x, Then(y, Then(z, Then(u, r))))
      BY <1>1, <1>2
    <2> QED
      BY <1>3, <2>1, <2>2
  <1>5. (p \o q) \o r = p \o (q \o r)
    <2>1. IsList(p) /\ IsList(q)
      BY <1>4
    <2> QED
      BY <2>1, ListsConcat
  <1>6. /\ p \o r = Then(x, Then(y, r))
        /\ (p \o q) \o r = Then(x, Then(y, Then(z, Then(u, r))))
    BY <1>4, <1>5
  <1> QED
    BY <1>3, <1>6

\* ilclient_state_transition
LEMMA TransitionStep ==
    ASSUME TypeOK, FreedAreUp, ClientStep, NEW t \in States, AtTransition(t)
    PROVE  /\ UNCHANGED <<tunnel, last>>
           /\ \/ AtTransition(t)'
              \/ todo' = <<>> /\ ret' = 0 /\ Here(Nothing, Nothing, Both(ToState(t)), "open")'
              \/ Accused'
  <1> DEFINE o == ToState(t)
             m == IF t = "Loaded" THEN "masked" ELSE "open"
             unmask == IF t = "Loaded" THEN <<Mask(Source, FALSE), Mask(Sink, FALSE)>> ELSE <<>>
             await == Awaiting(o, "state", unmask)
             tell(c) == <<ClearError(c), Send(c, "StateSet", t)>>
             choose == Then(Choose({tell(Source) \o tell(Sink), tell(Sink) \o tell(Source)}), await)
             tells(c, r) == Then(ClearError(c), Then(Send(c, "StateSet", t), r))
             owed(c, x, y) == IF c = Source THEN Here(x, y, {}, m) ELSE Here(y, x, {}, m)
  <1>1. /\ Comps = {Source, Sink} /\ Source # Sink
        /\ Peer(Source) = Sink /\ Peer(Sink) = Source
    BY CompsAssumption DEF Comps, Peer
  <1>2. IsList(unmask)
    <2>1. IsList(<<>>) /\ IsList(Then(Mask(Source, FALSE), Then(Mask(Sink, FALSE), <<>>)))
      BY Lists
    <2>2. IsList(<<Mask(Source, FALSE), Mask(Sink, FALSE)>>)
      BY <2>1, ShortLists
    <2> QED
      BY <2>1, <2>2
  <1>3. IsList(await)
    <2> HIDE DEF unmask
    <2> QED
      BY <1>2, Lists DEF Awaiting
  <1>4. /\ \/ t = "Loaded" /\ AtMasking(choose)
           \/ todo = choose /\ Here(Nothing, Nothing, {}, m)
           \/ \E c \in Comps :
                 \/ /\ \/ todo = tells(c, tells(Peer(c), await))
                       \/ todo = Then(Send(c, "StateSet", t), tells(Peer(c), await))
                    /\ Here(Nothing, Nothing, {}, m)
                 \/ /\ \/ todo = tells(Peer(c), await)
                       \/ todo = Then(Send(Peer(c), "StateSet", t), await)
                    /\ owed(c, o, Nothing)
           \/ AtAwaiting(o, "state", m, unmask)
           \/ t = "Loaded" /\ AtUnmasking(Both(o), <<>>)
    BY DEF AtTransition
  <1>5. \/ t = "Loaded" /\ AtMasking(choose)'
        \/ todo' = choose /\ Here(Nothing, Nothing, {}, m)'
        \/ \E c \in Comps :
              \/ /\ \/ todo' = tells(c, tells(Peer(c), await))
                    \/ todo' = Then(Send(c, "StateSet", t), tells(Peer(c), await))
                 /\ Here(Nothing, Nothing, {}, m)'
              \/ /\ \/ todo' = tells(Peer(c), await)
                    \/ todo' = Then(Send(Peer(c), "StateSet", t), await)
                 /\ owed(c, o, Nothing)'
        \/ AtAwaiting(o, "state", m, unmask)'
        \/ t = "Loaded" /\ AtUnmasking(Both(o), <<>>)'
        => AtTransition(t)'
    BY DEF AtTransition
  <1>6. /\ o = <<"StateSet", t>>
        /\ m = "masked" \/ ~ tunnel \/ <<"StateSet", t>> \notin Tearing
    BY DEF ToState, Tearing, Off
  <1>7. CASE t = "Loaded" /\ AtMasking(choose)
    <2>1. IsList(choose)
      <3> HIDE DEF await
      <3> QED
        BY <1>3, Lists
    <2> HIDE DEF choose
    <2>2. /\ UNCHANGED <<tunnel, last>>
          /\ AtMasking(choose)' \/ (todo' = choose /\ Here(Nothing, Nothing, {}, "masked")')
      BY <1>7, <2>1, MaskingStep
    <2> QED
      BY <1>5, <1>7, <2>2
  <1>8. CASE todo = choose /\ Here(Nothing, Nothing, {}, m)
    <2>1. PICK P : P = {tell(Source) \o tell(Sink), tell(Sink) \o tell(Source)}
      OBVIOUS
    <2>2. todo = Then(Choose(P), await)
      BY <1>8, <2>1
    <2> HIDE DEF await, m
    <2>3. /\ \E p \in P : todo' = p \o await
          /\ UNCHANGED Theirs
      <3>1. PICK x : x = Choose(P)
        OBVIOUS
      <3> QED
        BY <1>3, <2>2, <3>1, BranchSteps
    <2>4. Here(Nothing, Nothing, {}, m)' /\ tunnel' = tunnel /\ last' = last
      BY <1>8, <2>3, HereSame, StepKinds DEF Theirs
    <2>5. \A c, d : (tell(c) \o tell(d)) \o await = tells(c, tells(d, await))
      BY <1>3, PairsConcat
    <2>6. \E c \in Comps : todo' = tells(c, tells(Peer(c), await))
      <3>1. \/ todo' = (tell(Source) \o tell(Sink)) \o await
            \/ todo' = (tell(Sink) \o tell(Source)) \o await
        BY <2>1, <2>3
      <3> HIDE DEF tell, tells
      <3> QED
        BY <1>1, <2>5, <3>1
    <2> QED
      BY <1>5, <2>4, <2>6
  <1>9. ASSUME NEW c \in Comps, Here(Nothing, Nothing, {}, m),
               \/ todo = tells(c, tells(Peer(c), await))
               \/ todo = Then(Send(c, "StateSet", t), tells(Peer(c), await))
        PROVE  /\ UNCHANGED <<tunnel, last>>
               /\ AtTransition(t)'
    <2> DEFINE rest == tells(Peer(c), await)
               send == Then(Send(c, "StateSet", t), rest)
    <2>1. IsList(rest) /\ IsList(send)
      <3>1. IsList(rest)
        <4> HIDE DEF await
        <4> QED
          BY <1>3, Lists
      <3> HIDE DEF rest
      <3> QED
        BY <3>1, Lists
    <2>2. CASE todo = Then(ClearError(c), send)
      <3> HIDE DEF send, m
      <3>1. todo' = send /\ UNCHANGED Theirs
        <4>1. PICK x : x = ClearError(c)
          OBVIOUS
        <4> QED
          BY <2>1, <2>2, <4>1, BranchSteps
      <3>2. Here(Nothing, Nothing, {}, m)' /\ tunnel' = tunnel /\ last' = last
        BY <1>9, <3>1, HereSame, StepKinds DEF Theirs
      <3> QED
        BY <1>5, <3>1, <3>2 DEF send
    <2>3. CASE todo = send
      <3> HIDE DEF rest, m, o
      <3>1. todo' = rest /\ UNCHANGED <<tunnel, last>> /\ owed(c, o, Nothing)'
        <4>1. CASE c = Source
          <5>1. todo' = rest /\ UNCHANGED <<tunnel, last>> /\ Here(o, Nothing, {}, m)'
            BY <1>6, <1>9, <2>1, <2>3, <4>1, SourceTold
          <5> QED
            BY <4>1, <5>1
        <4>2. CASE c = Sink
          <5>1. todo' = rest /\ UNCHANGED <<tunnel, last>> /\ Here(Nothing, o, {}, m)'
            BY <1>6, <1>9, <2>1, <2>3, <4>2, SinkTold
          <5> QED
            BY <1>1, <4>2, <5>1
        <4> QED
          BY <1>1, <4>1, <4>2
      <3> QED
        BY <1>5, <3>1 DEF rest
    <2> QED
      BY <1>9, <2>2, <2>3
  <1>10. ASSUME NEW c \in Comps, owed(c, o, Nothing),
                \/ todo = tells(Peer(c), await)
                \/ todo = Then(Send(Peer(c), "StateSet", t), await)
         PROVE  /\ UNCHANGED <<tunnel, last>>
                /\ AtTransition(t)'
    <2> DEFINE send == Then(Send(Peer(c), "StateSet", t), await)
    <2>1. IsList(send)
      <3> HIDE DEF await
      <3> QED
        BY <1>3, Lists
    <2>2. CASE todo = Then(ClearError(Peer(c)), send)
      <3> HIDE DEF send, m, o
      <3>1. todo' = send /\ UNCHANGED Theirs
        <4>1. PICK x : x = ClearError(Peer(c))
          OBVIOUS
        <4> QED
          BY <2>1, <2>2, <4>1, BranchSteps
      <3>2. owed(c, o, Nothing)' /\ tunnel' = tunnel /\ last' = last
        BY <1>10, <3>1, HereSame, StepKinds DEF Theirs
      <3> QED
        BY <1>5, <3>1, <3>2 DEF send
    <2>3. CASE todo = send
      <3> HIDE DEF await, m, o
      <3>1. todo' = await /\ at' = "start" /\ UNCHANGED <<tunnel, last>> /\ Here(o, o, {}, m)'
        <4>1. CASE c = Source
          <5>1. todo = Then(Send(Sink, "StateSet", t), await) /\ Here(o, Nothing, {}, m)
            BY <1>1, <1>10, <2>3, <4>1
          <5>2. todo' = await /\ at' = "start" /\ UNCHANGED <<tunnel, last>> /\ Here(o, o, {}, m)'
            BY <1>3, <1>6, <5>1, SinkTold
          <5> QED
            BY <5>2
        <4>2. CASE c = Sink
          <5>1. todo = Then(Send(Source, "StateSet", t), await) /\ Here(Nothing, o, {}, m)
            BY <1>1, <1>10, <2>3, <4>2
          <5>2. todo' = await /\ at' = "start" /\ UNCHANGED <<tunnel, last>> /\ Here(o, o, {}, m)'
            BY <1>3, <1>6, <5>1, SourceTold
          <5> QED
            BY <5>2
        <4> QED
          BY <1>1, <4>1, <4>2
      <3>2. AtAwaiting(o, "state", m, unmask)'
        <4> HIDE DEF unmask
        <4> QED
          BY <3>1 DEF AtAwaiting, await
      <3> QED
        BY <1>5, <3>1, <3>2
    <2> QED
      BY <1>10, <2>2, <2>3
  <1>11. CASE AtAwaiting(o, "state", m, unmask)
    <2> HIDE DEF unmask, m, o
    <2>1. /\ UNCHANGED <<tunnel, last>>
          /\ \/ AtAwaiting(o, "state", m, unmask)'
             \/ todo' = unmask /\ ret' = 0 /\ Here(Nothing, Nothing, Both(o), m)'
             \/ Accused'
      BY <1>2, <1>11, AwaitingStep
    <2>2. CASE todo' = unmask /\ ret' = 0 /\ Here(Nothing, Nothing, Both(o), m)'
      <3>1. CASE t = "Loaded"
        <4>1. unmask = Then(Mask(Source, FALSE), Then(Mask(Sink, FALSE), <<>>)) /\ m = "masked"
          BY <3>1, ShortLists, Zenon DEF unmask, m
        <4>2. AtUnmasking(Both(o), <<>>)'
          BY <2>2, <4>1 DEF AtUnmasking
        <4> QED
          BY <1>5, <2>1, <3>1, <4>2
      <3>2. CASE t # "Loaded"
        <4>1. unmask = <<>> /\ m = "open"
          BY <3>2 DEF unmask, m
        <4> QED
          BY <2>1, <2>2, <4>1 DEF o
      <3> QED
        BY <3>1, <3>2
    <2> QED
      BY <1>5, <2>1, <2>2
  <1>12. CASE t = "Loaded" /\ AtUnmasking(Both(o), <<>>)
    <2>1. o \in Tearing /\ IsList(<<>>)
      BY <1>12, Lists DEF Tearing
    <2> HIDE DEF o
    <2>2. /\ UNCHANGED <<tunnel, last>>
          /\ \/ AtUnmasking(Both(o), <<>>)'
             \/ todo' = <<>> /\ ret' = 0 /\ Here(Nothing, Nothing, Both(o), "open")'
      BY <1>12, <2>1, UnmaskingStep
    <2> QED
      BY <1>5, <1>12, <2>2 DEF o
  <1> HIDE DEF await, tells, choose, unmask, m, o, owed
  <1> QED
    BY <1>4, <1>7, <1>8, <1>9, <1>10, <1>11, <1>12

\* Where enabling the tunnel goes when all is well, and when it is not.
LEMMA EnableLists ==
    ASSUME NEW k, IsList(k)
    PROVE  /\ ToIdle \o k =
                 Then(Send(Sink, "StateSet", "Idle"),
                      Then(WaitDual(Sink, "StateSet", "Idle", Source), Then(ToIdleEnd, k)))
           /\ FinishTunnel \o k = Then(Wait(Source, "PortEnable", "port"), Then(FinishEnd, k))
           /\ \A x : <<Wait(Sink, "PortEnable", "port"), x>> \o k =
                        Then(Wait(Sink, "PortEnable", "port"), Then(x, k))
           /\ <<Result(0)>> \o k = Then(Result(0), k)
  <1>1. \A x, y : <<x, y>> \o k = Then(x, Then(y, k))
    BY PairsConcat
  <1>2. ASSUME NEW x, NEW y, NEW z
        PROVE  <<x, y, z>> \o k = Then(x, Then(y, Then(z, k)))
    <2>1. PICK p : p = <<y, z>>
      OBVIOUS
    <2>2. IsList(p) /\ <<x, y, z>> = Then(x, p)
      <3>1. <<y, z>> = Then(y, Then(z, <<>>)) /\ IsList(<<>>)
        BY ShortLists
      <3>2. <<x, y, z>> = Then(x, Then(y, Then(z, <<>>)))
        <4>1. \A u, v, w : <<u, v, w>> = Then(u, Then(v, Then(w, <<>>)))
          BY ShortLists
        <4> QED
          BY <4>1
      <3>3. IsList(Then(y, Then(z, <<>>)))
        BY <3>1, Lists
      <3> QED
        BY <2>1, <3>1, <3>2, <3>3
    <2>3. Then(x, p) \o k = Then(x, p \o k)
      BY <2>2, ThenConcat
    <2>4. p \o k = Then(y, Then(z, k))
      BY <1>1, <2>1
    <2> QED
      BY <2>2, <2>3, <2>4
  <1> QED
    BY <1>1, <1>2, Zenon DEF ToIdle, FinishTunnel, Then

\* The lists that enable_tunnel ends with when it failed.
LEMMA EnableFailures ==
    ASSUME NEW k, IsList(k),
           \/ todo' = FailTunnel \o k
           \/ todo' = (DisablePort(Source) \o CleanUpSource) \o k
           \/ todo' = (<<If({-2}, ForgetSource, <<>>)>> \o FailTunnel) \o k
           \/ todo' = (DisablePort(Sink) \o <<Result(-1)>>) \o k
    PROVE  Lost(k)'
  <1>1. Source \in Comps /\ Sink \in Comps /\ -1 \in Int \ {0}
    BY DEF Comps
  <1>2. IsProgram(DisablePort(Source)) /\ IsProgram(DisablePort(Sink)) /\ IsProgram(<<>>)
    BY <1>1, PortPrograms, ShortPrograms
  <1>3. PICK x, y, z : /\ x = WaitEvent(Source, "CmdComplete", "PortEnable",
                                       {"PORT_ENABLED", "EVENT_ERROR"}, FALSE)
                       /\ y = Result(-1) /\ z = If({-2}, ForgetSource, <<>>)
    OBVIOUS
  <1>4. IsProgram(<<x>>) /\ IsProgram(<<z>>) /\ IsProgram(<<y>>)
    <2>1. IsStep(x)
      BY <1>1, <1>3, EventSteps
    <2>2. IsStep(z)
      <3>1. IsProgram(<<Wait(Source, "PortEnable", "port")>>)
        BY <1>1, CommandSteps, ShortPrograms DEF Wait
      <3>2. IsProgram(ForgetSource)
        BY <1>2, <3>1, ConcatIsProgram DEF ForgetSource
      <3> QED
        BY <1>2, <1>3, <3>2, IfIsStep, {-2} \in SUBSET Int
    <2>3. IsStep(y)
      BY <1>3, OtherSteps
    <2> QED
      BY <2>1, <2>2, <2>3, ShortPrograms
  <1>5. \A p, q : IsProgram(p) /\ IsProgram(q) => (p \o q) \o <<y>> = p \o (q \o <<y>>)
    <2>1. PICK l : l = <<y>>
      OBVIOUS
    <2>2. IsList(l)
      BY <1>4, <2>1, ProgramIsList
    <2>3. ASSUME NEW p, NEW q, IsProgram(p), IsProgram(q)
          PROVE  (p \o q) \o l = p \o (q \o l)
      <3>1. IsList(p) /\ IsList(q)
        BY <2>3, ProgramIsList
      <3> QED
        BY <2>2, <3>1, ListsConcat
    <2> QED
      BY <2>1, <2>3
  <1>6. \A p : IsProgram(p) /\ todo' = (p \o <<y>>) \o k => Lost(k)'
    <2> SUFFICES ASSUME NEW p, IsProgram(p), todo' = (p \o <<y>>) \o k
                 PROVE  Lost(k)'
      OBVIOUS
    <2>1. PICK v : v = -1
      OBVIOUS
    <2> QED
      BY <1>1, <1>3, <2>1, FailingPrograms
  <1>7. CASE todo' = FailTunnel \o k
    BY <1>2, <1>3, <1>6, <1>7 DEF FailTunnel
  <1>8. CASE todo' = (DisablePort(Source) \o CleanUpSource) \o k
    <2>1. CleanUpSource = <<x>> \o <<y>>
      <3>1. <<x, y>> = Then(x, Then(y, <<>>)) /\ <<y>> = Then(y, <<>>)
        BY ShortLists
      <3>2. <<x, y>> = <<x>> \o <<y>>
        BY <3>1 DEF Then
      <3> QED
        BY <1>3, <3>2 DEF CleanUpSource
    <2>2. (DisablePort(Source) \o <<x>>) \o <<y>> = DisablePort(Source) \o CleanUpSource
      BY <1>2, <1>4, <1>5, <2>1
    <2>3. IsProgram(DisablePort(Source) \o <<x>>)
      BY <1>2, <1>4, ConcatIsProgram
    <2> QED
      BY <1>6, <1>8, <2>2, <2>3
  <1>9. CASE todo' = (<<If({-2}, ForgetSource, <<>>)>> \o FailTunnel) \o k
    <2>1. (<<z>> \o DisablePort(Source)) \o <<y>> = <<z>> \o FailTunnel
      BY <1>2, <1>3, <1>4, <1>5 DEF FailTunnel
    <2>2. IsProgram(<<z>> \o DisablePort(Source))
      BY <1>2, <1>4, ConcatIsProgram
    <2> QED
      BY <1>3, <1>6, <1>9, <2>1, <2>2
  <1>10. CASE todo' = (DisablePort(Sink) \o <<Result(-1)>>) \o k
    BY <1>2, <1>3, <1>6, <1>10
  <1> QED
    BY <1>7, <1>8, <1>9, <1>10

\* A branch on the result of a wait: what is known, if it is 0, stays known.
LEMMA BranchKeeps ==
    ASSUME ClientStep, NEW p, NEW q, NEW r, IsList(r), todo = Then(If({0}, p, q), r),
           NEW a, NEW b, NEW K, NEW m, If0(K, a, b, m)
    PROVE  /\ UNCHANGED <<tunnel, last>>
           /\ \/ ret = 0 /\ ret' = 0 /\ at' = "start" /\ todo' = p \o r /\ Here(a, b, K, m)'
              \/ ret # 0 /\ ret' # 0 /\ todo' = q \o r
  BY ResultBranches DEF If0

\* ilclient_enable_tunnel.  The branches for a sink in Loaded and for another one wait for
\* the same; they differ in what comes then.
LEMMA EnableTunnelStep ==
    ASSUME TypeOK, ClientStep, NEW k, IsList(k), AtEnableTunnel(k)
    PROVE  /\ UNCHANGED <<tunnel, last>>
           /\ \/ AtEnableTunnel(k)'
              \/ todo' = k /\ ret' = 0 /\ Here(Nothing, Nothing, Both(On), "open")'
              \/ Lost(k)'
  <1> DEFINE branch == Then(EnableBranch, k)
             sendSink == Then(Send(Sink, "PortEnable", "port"), branch)
             idle == Then(ToIdleEnd, k)
             dual == Then(WaitDual(Sink, "StateSet", "Idle", Source), idle)
             toIdle == Then(Send(Sink, "StateSet", "Idle"), dual)
             finish == Then(FinishEnd, k)
             wait(r) == Then(Wait(Sink, "PortEnable", "port"), r)
             waitSource == Then(Wait(Source, "PortEnable", "port"), finish)
  <1>1. /\ IsList(branch) /\ IsList(sendSink) /\ IsList(idle) /\ IsList(dual) /\ IsList(toIdle)
        /\ IsList(finish) /\ IsList(waitSource)
        /\ \A x : IsList(Then(x, k)) /\ IsList(wait(Then(x, k)))
    BY Lists
  <1>2. \/ todo = Then(Send(Source, "PortEnable", "port"), sendSink)
           /\ Here(Nothing, Nothing, {}, "open")
        \/ todo = sendSink /\ Here(On, Nothing, {}, "open")
        \/ todo = branch /\ Here(On, On, {}, "open")
        \/ \E x \in {LoadedEnd, ElseEnd} :
              \/ todo = wait(Then(x, k)) /\ at # "end" /\ Here(On, On, {}, "open")
              \/ todo = Then(x, k) /\ If0(SinkOn, On, Nothing, "open")
        \/ todo = toIdle /\ Here(On, Nothing, SinkOn, "open")
        \/ todo = dual /\ at # "end" /\ Here(On, ToState("Idle"), SinkOn, "open")
        \/ todo = dual /\ at = "end" /\ If0(SinkOn, On, Nothing, "open")
        \/ todo = idle /\ If0(SinkOn, On, Nothing, "open")
        \/ todo = waitSource /\ at # "end" /\ Here(On, Nothing, SinkOn, "open")
        \/ todo = finish /\ If0(Both(On), Nothing, Nothing, "open")
        \/ todo = Then(Result(0), k) /\ Here(Nothing, Nothing, Both(On), "open")
    BY DEF AtEnableTunnel
  <1>3. /\ todo' = sendSink /\ Here(On, Nothing, {}, "open")' => AtEnableTunnel(k)'
        /\ todo' = branch /\ Here(On, On, {}, "open")' => AtEnableTunnel(k)'
        /\ \A x \in {LoadedEnd, ElseEnd} :
              /\ todo' = wait(Then(x, k)) /\ at' # "end" /\ Here(On, On, {}, "open")'
                 => AtEnableTunnel(k)'
              /\ todo' = Then(x, k) /\ If0(SinkOn, On, Nothing, "open")' => AtEnableTunnel(k)'
        /\ todo' = toIdle /\ Here(On, Nothing, SinkOn, "open")' => AtEnableTunnel(k)'
        /\ todo' = dual /\ at' # "end" /\ Here(On, ToState("Idle"), SinkOn, "open")'
           => AtEnableTunnel(k)'
        /\ todo' = dual /\ at' = "end" /\ If0(SinkOn, On, Nothing, "open")' => AtEnableTunnel(k)'
        /\ todo' = idle /\ If0(SinkOn, On, Nothing, "open")' => AtEnableTunnel(k)'
        /\ todo' = waitSource /\ at' # "end" /\ Here(On, Nothing, SinkOn, "open")'
           => AtEnableTunnel(k)'
        /\ todo' = finish /\ If0(Both(On), Nothing, Nothing, "open")' => AtEnableTunnel(k)'
        /\ todo' = Then(Result(0), k) /\ Here(Nothing, Nothing, Both(On), "open")'
           => AtEnableTunnel(k)'
    BY DEF AtEnableTunnel
  <1>4. /\ On = <<"PortEnable", "port">> /\ <<"PortEnable", "port">> \notin Tearing
        /\ ToState("Idle") = <<"StateSet", "Idle">> /\ <<"StateSet", "Idle">> \notin Tearing
        /\ Source \in Comps /\ Sink \in Comps /\ Source # NoComp
    BY CompsAssumption DEF On, Tearing, Off, ToState, Comps
  <1>5. /\ ToIdle \o k = toIdle /\ FinishTunnel \o k = waitSource
        /\ \A x : <<Wait(Sink, "PortEnable", "port"), x>> \o k = wait(Then(x, k))
        /\ <<Result(0)>> \o k = Then(Result(0), k)
    BY EnableLists
  <1> HIDE DEF branch, sendSink, idle, dual, toIdle, finish, waitSource
  <1>6. CASE todo = Then(Send(Source, "PortEnable", "port"), sendSink)
             /\ Here(Nothing, Nothing, {}, "open")
    <2>1. todo' = sendSink /\ UNCHANGED <<tunnel, last>> /\ Here(On, Nothing, {}, "open")'
      BY <1>1, <1>4, <1>6, SourceTold
    <2> QED
      BY <1>3, <2>1
  <1>7. CASE todo = sendSink /\ Here(On, Nothing, {}, "open")
    <2>1. todo' = branch /\ UNCHANGED <<tunnel, last>> /\ Here(On, On, {}, "open")'
      BY <1>1, <1>4, <1>7, SinkTold DEF sendSink
    <2> QED
      BY <1>3, <2>1
  <1>8. CASE todo = branch /\ Here(On, On, {}, "open")
    <2>1. PICK p, q : /\ p = <<Wait(Sink, "PortEnable", "port"), LoadedEnd>>
                      /\ q = <<Wait(Sink, "PortEnable", "port"), ElseEnd>>
      OBVIOUS
    <2>2. todo = Then(IfLoaded(Sink, p, q), k)
      BY <1>8, <2>1 DEF branch, EnableBranch
    <2>3. /\ todo' = (IF state[Sink] = "Loaded" THEN p ELSE q) \o k
          /\ at' = "start" /\ UNCHANGED Theirs
      <3>1. PICK x : x = IfLoaded(Sink, p, q)
        OBVIOUS
      <3> QED
        BY <2>2, <3>1, BranchSteps
    <2>4. Here(On, On, {}, "open")' /\ UNCHANGED <<tunnel, last>>
      BY <1>8, <2>3, HereSame, StepKinds DEF Theirs
    <2>5. todo' = wait(Then(LoadedEnd, k)) \/ todo' = wait(Then(ElseEnd, k))
      BY <1>5, <2>1, <2>3
    <2> QED
      BY <1>3, <2>3, <2>4, <2>5
  <1>9. ASSUME NEW x \in {LoadedEnd, ElseEnd}, todo = wait(Then(x, k)), at # "end",
               Here(On, On, {}, "open")
        PROVE  UNCHANGED <<tunnel, last>> /\ AtEnableTunnel(k)'
    <2> DEFINE r == Then(x, k)
    <2>1. SinkOn \subseteq {} \cup {<<Sink, On>>} /\ IsList(r)
      BY <1>1 DEF SinkOn
    <2> HIDE DEF r
    <2>2. /\ UNCHANGED <<tunnel, last>>
          /\ \/ todo' = todo /\ at' # "end" /\ Here(On, On, {}, "open")'
             \/ todo' = r /\ (ret' = 0 => Here(On, Nothing, SinkOn, "open")')
      BY <1>9, <2>1, SinkAwaited DEF r
    <2> QED
      BY <1>3, <1>9, <2>2 DEF If0, r
  <1>10. CASE todo = Then(LoadedEnd, k) /\ If0(SinkOn, On, Nothing, "open")
    <2>1. /\ UNCHANGED <<tunnel, last>>
          /\ \/ ret' = 0 /\ todo' = ToIdle \o k /\ Here(On, Nothing, SinkOn, "open")'
             \/ todo' = FailTunnel \o k
      BY <1>10, BranchKeeps DEF LoadedEnd
    <2> QED
      BY <1>3, <1>5, <2>1, EnableFailures
  <1>11. CASE todo = Then(ElseEnd, k) /\ If0(SinkOn, On, Nothing, "open")
    <2>1. /\ UNCHANGED <<tunnel, last>>
          /\ \/ at' = "start" /\ todo' = FinishTunnel \o k /\ Here(On, Nothing, SinkOn, "open")'
             \/ todo' = (DisablePort(Source) \o CleanUpSource) \o k
      BY <1>11, BranchKeeps DEF ElseEnd
    <2> QED
      BY <1>3, <1>5, <2>1, EnableFailures
  <1>12. CASE todo = toIdle /\ Here(On, Nothing, SinkOn, "open")
    <2>1. \A x \in SinkOn : x[1] = Sink => Stays(<<"StateSet", "Idle">>, x[2])
      BY DEF SinkOn, On, Stays
    <2>2. todo = Then(Send(Sink, "StateSet", "Idle"), dual)
      BY <1>12 DEF toIdle
    <2>3. /\ todo' = dual /\ at' = "start" /\ UNCHANGED <<tunnel, last>>
          /\ Here(On, ToState("Idle"), SinkOn, "open")'
      BY <1>1, <1>4, <1>12, <2>1, <2>2, SinkTold
    <2> QED
      BY <1>3, <2>3
  <1>13. CASE todo = dual /\ at # "end" /\ Here(On, ToState("Idle"), SinkOn, "open")
    <2>1. /\ SinkOn \subseteq SinkOn \cup {<<Sink, ToState("Idle")>>}
          /\ todo = Then(WaitDual(Sink, "StateSet", "Idle", Source), idle)
      BY <1>13 DEF dual
    <2>2. /\ UNCHANGED <<tunnel, last>>
          /\ \/ todo' = todo /\ at' # "end" /\ Here(On, ToState("Idle"), SinkOn, "open")'
             \/ /\ IF Source = NoComp THEN todo' = idle ELSE todo' = todo /\ at' = "end"
                /\ ret' = 0 => Here(On, Nothing, SinkOn, "open")'
      BY <1>1, <1>13, <2>1, SinkPasses
    <2> QED
      BY <1>3, <1>4, <1>13, <2>2 DEF If0
  <1>14. CASE todo = dual /\ at = "end" /\ If0(SinkOn, On, Nothing, "open")
    <2>1. todo = Then(WaitDual(Sink, "StateSet", "Idle", Source), idle)
      BY <1>14 DEF dual
    <2>2. todo' = idle /\ ret' = ret /\ UNCHANGED Theirs
      BY <1>1, <1>4, <1>14, <2>1, WaitPasses DEF Theirs
    <2>3. If0(SinkOn, On, Nothing, "open")' /\ UNCHANGED <<tunnel, last>>
      BY <1>14, <2>2, HereSame, StepKinds DEF If0, Theirs
    <2> QED
      BY <1>3, <2>2, <2>3
  <1>15. CASE todo = idle /\ If0(SinkOn, On, Nothing, "open")
    <2>1. /\ UNCHANGED <<tunnel, last>>
          /\ \/ at' = "start" /\ todo' = FinishTunnel \o k /\ Here(On, Nothing, SinkOn, "open")'
             \/ todo' = (<<If({-2}, ForgetSource, <<>>)>> \o FailTunnel) \o k
      BY <1>15, BranchKeeps DEF idle, ToIdleEnd
    <2> QED
      BY <1>3, <1>5, <2>1, EnableFailures
  <1>16. CASE todo = waitSource /\ at # "end" /\ Here(On, Nothing, SinkOn, "open")
    <2> DEFINE L == Both(On)
    <2>1. /\ L \subseteq SinkOn \cup {<<Source, On>>}
          /\ todo = Then(Wait(Source, "PortEnable", "port"), finish)
      BY <1>16 DEF Both, SinkOn, waitSource
    <2> HIDE DEF L
    <2>2. /\ UNCHANGED <<tunnel, last>>
          /\ \/ todo' = todo /\ at' # "end" /\ Here(On, Nothing, SinkOn, "open")'
             \/ todo' = finish /\ (ret' = 0 => Here(Nothing, Nothing, L, "open")')
      BY <1>1, <1>16, <2>1, SourceAwaited
    <2> QED
      BY <1>3, <1>16, <2>2 DEF If0, L
  <1>17. CASE todo = finish /\ If0(Both(On), Nothing, Nothing, "open")
    <2>1. /\ UNCHANGED <<tunnel, last>>
          /\ \/ todo' = <<Result(0)>> \o k /\ Here(Nothing, Nothing, Both(On), "open")'
             \/ todo' = (DisablePort(Sink) \o <<Result(-1)>>) \o k
      BY <1>17, BranchKeeps DEF finish, FinishEnd
    <2> QED
      BY <1>3, <1>5, <2>1, EnableFailures
  <1>18. CASE todo = Then(Result(0), k) /\ Here(Nothing, Nothing, Both(On), "open")
    <2>1. todo' = k /\ ret' = 0 /\ UNCHANGED Theirs
      <3>1. PICK x, v : x = Result(v) /\ v = 0
        OBVIOUS
      <3> QED
        BY <1>18, <3>1, BranchSteps
    <2> QED
      BY <1>18, <2>1, HereSame, StepKinds DEF Theirs
  <1> HIDE DEF wait
  <1> QED
    BY <1>2, <1>6, <1>7, <1>8, <1>9, <1>10, <1>11, <1>12, <1>13, <1>14, <1>15, <1>16, <1>17, <1>18

-----------------------------------------------------------------------------
(* The programs begin where their points do *)

\* Three or four steps before a list.
LEMMA ShortConcats ==
    ASSUME NEW r, IsList(r)
    PROVE  /\ \A x, y, z : <<x, y, z>> \o r = Then(x, Then(y, Then(z, r)))
           /\ \A x, y, z, u : <<x, y, z, u>> \o r = Then(x, Then(y, Then(z, Then(u, r))))
           /\ \A x, y, z, u : IsList(<<x, y, z, u>>)
  <1>1. /\ \A x, y : <<x, y>> = Then(x, Then(y, <<>>))
        /\ \A x, y, z : <<x, y, z>> = Then(x, Then(y, Then(z, <<>>)))
        /\ \A x, y, z, u : <<x, y, z, u>> = Then(x, Then(y, Then(z, Then(u, <<>>))))
    BY ShortLists
  <1>2. IsList(<<>>) /\ \A x, s : IsList(s) => IsList(Then(x, s))
    BY Lists
  <1>3. ASSUME NEW x, NEW y, NEW z
        PROVE  /\ <<x, y, z>> \o r = Then(x, Then(y, Then(z, r)))
               /\ IsList(<<x, y, z>>)
    <2>1. PICK p : p = <<y, z>>
      OBVIOUS
    <2>2. IsList(p) /\ <<x, y, z>> = Then(x, p)
      <3>1. <<y, z>> = Then(y, Then(z, <<>>))
        BY <1>1
      <3>2. <<x, y, z>> = Then(x, Then(y, Then(z, <<>>)))
        BY <1>1
      <3>3. IsList(Then(y, Then(z, <<>>)))
        BY <1>2
      <3> QED
        BY <2>1, <3>1, <3>2, <3>3
    <2>3. Then(x, p) \o r = Then(x, p \o r)
      BY <2>2, ThenConcat
    <2>4. p \o r = Then(y, Then(z, r))
      BY <2>1, PairsConcat
    <2> QED
      BY <1>2, <2>2, <2>3, <2>4
  <1>4. ASSUME NEW x, NEW y, NEW z, NEW u
        PROVE  /\ <<x, y, z, u>> \o r = Then(x, Then(y, Then(z, Then(u, r))))
               /\ IsList(<<x, y, z, u>>)
    <2>1. PICK p : p = <<y, z, u>>
      OBVIOUS
    <2>2. IsList(p) /\ <<x, y, z, u>> = Then(x, p)
      <3>1. <<y, z, u>> = Then(y, Then(z, Then(u, <<>>)))
        BY <1>1
      <3>2. <<x, y, z, u>> = Then(x, Then(y, Then(z, Then(u, <<>>))))
        BY <1>1
      <3>3. IsList(Then(y, Then(z, Then(u, <<>>))))
        BY <1>2
      <3> QED
        BY <2>1, <3>1, <3>2, <3>3
    <2>3. Then(x, p) \o r = Then(x, p \o r)
      BY SMTT(30), <2>2, ThenConcat
    <2>4. p \o r = Then(y, Then(z, Then(u, r)))
      BY <1>3, <2>1
    <2> QED
      BY <1>2, <2>2, <2>3, <2>4
  <1>5. \A x, y, z : <<x, y, z>> \o r = Then(x, Then(y, Then(z, r)))
    BY <1>3
  <1>6. /\ \A x, y, z, u : <<x, y, z, u>> \o r = Then(x, Then(y, Then(z, Then(u, r))))
        /\ \A x, y, z, u : IsList(<<x, y, z, u>>)
    BY <1>4
  <1> QED
    BY <1>5, <1>6

\* A list of ten steps.
LEMMA TenSteps ==
    ASSUME NEW a, NEW b, NEW c, NEW d, NEW e, NEW f, NEW g, NEW h, NEW i, NEW j, NEW r, IsList(r)
    PROVE  <<a, b, c, d, e, f, g, h, i, j>> \o r =
              Then(a, Then(b, Then(c, Then(d, Then(e, Then(f, Then(g, Then(h,
                   Then(i, Then(j, r))))))))))
  <1> DEFINE S == {a, b, c, d, e, f, g, h, i, j}
             u == <<a, b, c, d>>
             v == <<e, f, g, h>>
             w == <<i, j>>
             vw == <<e, f, g, h, i, j>>
             uvw == <<a, b, c, d, e, f, g, h, i, j>>
  <1>1. /\ u \in Seq(S) /\ v \in Seq(S) /\ w \in Seq(S) /\ vw \in Seq(S) /\ uvw \in Seq(S)
        /\ Len(u) = 4 /\ Len(v) = 4 /\ Len(w) = 2 /\ Len(vw) = 6 /\ Len(uvw) = 10
    OBVIOUS
  <1>2. v \o w = vw
    <2>1. /\ v[1] = e /\ v[2] = f /\ v[3] = g /\ v[4] = h /\ w[1] = i /\ w[2] = j
          /\ vw[1] = e /\ vw[2] = f /\ vw[3] = g /\ vw[4] = h /\ vw[5] = i /\ vw[6] = j
      OBVIOUS
    <2> HIDE DEF S, u, v, w, vw, uvw
    <2>2. /\ v \o w \in Seq(S) /\ Len(v \o w) = 6
          /\ (v \o w)[1] = v[1] /\ (v \o w)[2] = v[2] /\ (v \o w)[3] = v[3] /\ (v \o w)[4] = v[4]
          /\ (v \o w)[5] = w[1] /\ (v \o w)[6] = w[2]
      <3>1. /\ v \o w \in Seq(S) /\ Len(v \o w) = Len(v) + Len(w)
            /\ \A n \in 1 .. Len(v) + Len(w) :
                  (v \o w)[n] = IF n <= Len(v) THEN v[n] ELSE w[n - Len(v)]
        BY <1>1, ConcatProperties
      <3>2. \A n \in 1 .. 6 : (v \o w)[n] = IF n <= 4 THEN v[n] ELSE w[n - 4]
        BY <1>1, <3>1
      <3>3. Len(v \o w) = 6
        BY <1>1, <3>1
      <3> QED
        BY <3>1, <3>2, <3>3
    <2>3. \A n \in 1 .. 6 : (v \o w)[n] = vw[n]
      BY <2>1, <2>2
    <2> QED
      BY <1>1, <2>2, <2>3, SeqEqual
  <1>3. u \o vw = uvw
    <2>1. /\ u[1] = a /\ u[2] = b /\ u[3] = c /\ u[4] = d
          /\ vw[1] = e /\ vw[2] = f /\ vw[3] = g /\ vw[4] = h /\ vw[5] = i /\ vw[6] = j
      OBVIOUS
    <2>2. /\ uvw[1] = a /\ uvw[2] = b /\ uvw[3] = c /\ uvw[4] = d /\ uvw[5] = e /\ uvw[6] = f
          /\ uvw[7] = g /\ uvw[8] = h /\ uvw[9] = i /\ uvw[10] = j
      OBVIOUS
    <2> HIDE DEF S, u, v, w, vw, uvw
    <2>7. u \in Seq(S) /\ vw \in Seq(S) /\ Len(u) = 4 /\ Len(vw) = 6
      BY <1>1
    <2>8. /\ u \o vw \in Seq(S) /\ Len(u \o vw) = Len(u) + Len(vw)
          /\ \A n \in 1 .. Len(u) + Len(vw) :
                (u \o vw)[n] = IF n <= Len(u) THEN u[n] ELSE vw[n - Len(u)]
      BY <2>7, ConcatProperties
    <2>3. u \o vw \in Seq(S) /\ Len(u \o vw) = 10
      BY <2>7, <2>8
    <2>4. ASSUME NEW n \in 1 .. 4
          PROVE  (u \o vw)[n] = uvw[n]
      <3>1. (u \o vw)[n] = u[n]
        BY SMTT(30), <2>7, <2>8
      <3>2. n = 1 \/ n = 2 \/ n = 3 \/ n = 4
        OBVIOUS
      <3> QED
        BY <2>1, <2>2, <3>1, <3>2
    <2>5. ASSUME NEW n \in 1 .. 6
          PROVE  (u \o vw)[n + 4] = uvw[n + 4]
      <3>1. (u \o vw)[n + 4] = vw[n]
        <4>1. PICK m : m = n + 4
          OBVIOUS
        <4>2. m \in 1 .. Len(u) + Len(vw) /\ ~ (m <= Len(u)) /\ m - Len(u) = n
          BY <2>7, <4>1
        <4>3. (u \o vw)[m] = IF m <= Len(u) THEN u[m] ELSE vw[m - Len(u)]
          BY <2>8, <4>2, Zenon
        <4>4. (u \o vw)[m] = vw[n]
          BY <4>2, <4>3
        <4> QED
          BY <4>1, <4>4
      <3>2. n = 1 \/ n = 2 \/ n = 3 \/ n = 4 \/ n = 5 \/ n = 6
        OBVIOUS
      <3> QED
        BY <2>1, <2>2, <3>1, <3>2
    <2>6. \A n \in 1 .. 10 : (u \o vw)[n] = uvw[n]
      <3>1. \A n \in 1 .. 10 : n \in 1 .. 4 \/ (n - 4 \in 1 .. 6 /\ n - 4 + 4 = n)
        OBVIOUS
      <3> QED
        BY <2>4, <2>5, <3>1
    <2> QED
      BY <1>1, <2>3, <2>6, SeqEqual
  <1>4. IsList(u) /\ IsList(v) /\ IsList(w) /\ IsList(vw)
    BY <1>1 DEF IsList
  <1>5. /\ w \o r = Then(i, Then(j, r)) /\ IsList(w \o r)
    <2>1. w \o r = Then(i, Then(j, r))
      BY PairsConcat
    <2> HIDE DEF w
    <2> QED
      BY <2>1, Lists
  <1>6. v \o (w \o r) = Then(e, Then(f, Then(g, Then(h, w \o r))))
    <2> HIDE DEF w
    <2> QED
      BY <1>5, ShortConcats
  <1>7. /\ u \o (vw \o r) = Then(a, Then(b, Then(c, Then(d, vw \o r))))
    <2> HIDE DEF vw
    <2>1. PICK q : q = vw \o r
      OBVIOUS
    <2>2. IsList(q)
      BY <1>4, <2>1, Lists
    <2>3. u \o q = Then(a, Then(b, Then(c, Then(d, q))))
      BY <2>2, ShortConcats
    <2> QED
      BY <2>1, <2>3
  <1> HIDE DEF u, v, w, vw, uvw
  <1>8. vw \o r = v \o (w \o r) /\ uvw \o r = u \o (vw \o r)
    <2>1. IsList(u) /\ IsList(v) /\ IsList(w) /\ IsList(vw)
      BY <1>4
    <2>2. (v \o w) \o r = v \o (w \o r)
      BY <2>1, ListsConcat
    <2>3. (u \o vw) \o r = u \o (vw \o r)
      BY <2>1, ListsConcat
    <2> QED
      BY <1>2, <1>3, <2>2, <2>3
  <1>9. uvw \o r = Then(a, Then(b, Then(c, Then(d, Then(e, Then(f, Then(g, Then(h,
                        Then(i, Then(j, r))))))))))
    BY <1>5, <1>6, <1>7, <1>8
  <1> QED
    BY <1>9 DEF uvw

\* ilclient_disable_tunnel, ilclient_enable_tunnel and ilclient_change_component_state
\* before a list.
LEMMA FirstPoints ==
    ASSUME NEW k, IsList(k), Here(Nothing, Nothing, {}, "open")'
    PROVE  /\ todo' = DisableTunnel \o k => AtDisableTunnel(k)'
           /\ todo' = EnableTunnel \o k => AtEnableTunnel(k)'
           /\ \A c, t : todo' = ChangeState(c, t) \o k /\ (t = "Loaded" => ~ tunnel')
                           => AtChange(c, t, k)'
  <1>1. ASSUME todo' = DisableTunnel \o k
        PROVE  AtDisableTunnel(k)'
    <2>1. DisableTunnel \o k =
             Then(Mask(Source, TRUE), Then(Mask(Sink, TRUE),
                  Then(Send(Source, "PortDisable", "port"), Then(Send(Sink, "PortDisable", "port"),
                       Awaiting(Off, "disable",
                                Then(Mask(Source, FALSE), Then(Mask(Sink, FALSE), k)))))))
      <3>1. Off[1] = "PortDisable" /\ Off[2] = "port"
        BY DEF Off
      <3>2. PICK m1, m2, s1, s2, w1, w2, check, u1, u2 :
               /\ m1 = Mask(Source, TRUE) /\ m2 = Mask(Sink, TRUE)
               /\ s1 = Send(Source, "PortDisable", "port")
               /\ s2 = Send(Sink, "PortDisable", "port")
               /\ w1 = Wait(Source, "PortDisable", "port")
               /\ w2 = Wait(Sink, "PortDisable", "port")
               /\ check = Check("disable") /\ u1 = Mask(Source, FALSE) /\ u2 = Mask(Sink, FALSE)
        OBVIOUS
      <3>3. <<m1, m2, s1, s2, w1, check, w2, check, u1, u2>> \o k =
               Then(m1, Then(m2, Then(s1, Then(s2, Then(w1, Then(check, Then(w2, Then(check,
                    Then(u1, Then(u2, k))))))))))
        BY TenSteps
      <3> QED
        BY <3>1, <3>2, <3>3 DEF DisableTunnel, Awaiting
    <2> QED
      BY <1>1, <2>1 DEF AtDisableTunnel, AtMasking
  <1>2. ASSUME todo' = EnableTunnel \o k
        PROVE  AtEnableTunnel(k)'
    <2>1. EnableTunnel = <<Send(Source, "PortEnable", "port"), Send(Sink, "PortEnable", "port"),
                           EnableBranch>>
      BY DEF EnableTunnel, EnableBranch, ElseEnd, LoadedEnd, ToIdle, ToIdleEnd, FinishTunnel,
             FinishEnd, CleanUpSource, ForgetSource, FailTunnel
    <2>2. EnableTunnel \o k = Then(Send(Source, "PortEnable", "port"),
                                   Then(Send(Sink, "PortEnable", "port"), Then(EnableBranch, k)))
      BY <2>1, ShortConcats
    <2> QED
      BY <1>2, <2>2 DEF AtEnableTunnel
  <1>3. ASSUME NEW c, NEW t, todo' = ChangeState(c, t) \o k, t = "Loaded" => ~ tunnel'
        PROVE  AtChange(c, t, k)'
    <2>1. ChangeState(c, t) \o k =
             Then(Send(c, "StateSet", t), Then(Wait(c, "StateSet", t),
                  Then(If({0}, <<>>, <<RemoveError(c), Result(-1)>>), k)))
      <3>1. PICK x, y, z : /\ x = Send(c, "StateSet", t) /\ y = Wait(c, "StateSet", t)
                           /\ z = If({0}, <<>>, <<RemoveError(c), Result(-1)>>)
        OBVIOUS
      <3>2. <<x, y, z>> \o k = Then(x, Then(y, Then(z, k)))
        BY ShortConcats
      <3> QED
        BY <3>1, <3>2 DEF ChangeState
    <2> QED
      BY <1>3, <2>1 DEF AtChange
  <1> QED
    BY <1>1, <1>2, <1>3

-----------------------------------------------------------------------------
(* Failed operations *)

\* A step of the client stays at the first step of its program, or replaces it by a program.
LEMMA ClientMoves ==
    ASSUME TypeOK, ClientStep
    PROVE  todo' = todo \/ \E next : IsProgram(next) /\ todo' = next \o Tail(todo)
  <1>1. todo # <<>>
    BY StepKinds
  <1>2. IsStep(Step) /\ IsProgram(<<>>)
    BY <1>1, StepIsStep
  <1>3. \A next : Proceed(next) => todo' = next \o Tail(todo)
    BY DEF Proceed
  <1>4. CASE \/ WaitBegins \/ WaitScans \/ WaitWakes \/ WaitEnds
    <2>1. todo' = todo \/ Proceed(<<>>)
      BY <1>4 DEF WaitBegins, WaitScans, WaitWakes, WaitEnds, WaitReturns, Stay
    <2> QED
      BY <1>2, <1>3, <2>1
  <1>5. CASE \/ EventLooked \/ EventErrors \/ EventConfigs \/ EventLast \/ EventWakes
             \/ EventTimesOut
    <2>1. todo' = todo \/ Proceed(<<>>)
      BY <1>5 DEF EventLooked, EventErrors, EventConfigs, EventLast, EventWakes, EventTimesOut,
                  Stay, Finish
    <2> QED
      BY <1>2, <1>3, <2>1
  <1>6. CASE \/ RemoveErrors \/ ReturnAll \/ SendCommand \/ ClearErrorFlag \/ SetMask
             \/ ConnectPorts \/ DisconnectPort
    <2>1. Proceed(<<>>)
      BY <1>6 DEF RemoveErrors, ReturnAll, SendCommand, ClearErrorFlag, SetMask, ConnectPorts,
                  DisconnectPort, Finish
    <2> QED
      BY <1>2, <1>3, <2>1
  <1>7. CASE Control
    <2>1. \/ Proceed(<<>>)
          \/ Step.do \in {"if", "ifloaded"} /\ (Proceed(Step.then) \/ Proceed(Step.else))
          \/ Step.do = "choose" /\ \E p \in Step.programs : Proceed(p)
      BY <1>7 DEF Control, Finish
    <2>2. /\ Step.do \in {"if", "ifloaded"} => IsProgram(Step.then) /\ IsProgram(Step.else)
          /\ Step.do = "choose" => \A p \in Step.programs : IsProgram(p)
      BY <1>2, StepFields
    <2> QED
      BY <1>2, <1>3, <2>1, <2>2
  <1> QED
    BY <1>4, <1>5, <1>6, <1>7 DEF ClientStep

\* The lists that setup_tunnel ends with when it failed.
LEMMA SetupFailures ==
    ASSUME \/ todo' = NotConnected \o <<RemoveError(Sink), RemoveError(Source)>> \o <<Result(-5)>>
           \/ todo' = NotConnected \o <<Result(-5)>>
           \/ \E v \in {-2, -3, -4} : todo' = <<Result(v)>>
    PROVE  Doomed'
  <1>1. Source \in Comps /\ Sink \in Comps
    BY DEF Comps
  <1>2. /\ IsProgram(NotConnected) /\ IsProgram(<<>>)
        /\ IsProgram(<<RemoveError(Sink), RemoveError(Source)>>)
    BY <1>1, OtherSteps, ShortPrograms DEF NotConnected
  <1>3. \A p : IsList(p) => p \o <<>> = p /\ <<>> \o p = p
    BY Lists
  <1>4. ASSUME NEW p, IsProgram(p), NEW v \in Int \ {0}, todo' = p \o <<Result(v)>>
        PROVE  Doomed'
    <2>1. IsList(p \o <<Result(v)>>) /\ IsList(<<>>)
      BY <1>4, ProgramIsList, ShortLists, Lists
    <2>2. todo' = (p \o <<Result(v)>>) \o <<>>
      BY <1>3, <1>4, <2>1
    <2>3. PICK k : k = <<>>
      OBVIOUS
    <2>4. Lost(k)'
      BY <1>4, <2>1, <2>2, <2>3, FailingPrograms
    <2>5. k \in Ends
      BY <2>3 DEF Ends
    <2> QED
      BY <2>4, <2>5 DEF Doomed
  <1>5. CASE todo' = NotConnected \o <<RemoveError(Sink), RemoveError(Source)>> \o <<Result(-5)>>
    <2>1. PICK p : p = NotConnected \o <<RemoveError(Sink), RemoveError(Source)>>
      OBVIOUS
    <2>2. IsProgram(p)
      BY <1>2, <2>1, ConcatIsProgram
    <2>3. PICK v : v = -5
      OBVIOUS
    <2>4. v \in Int \ {0}
      BY <2>3
    <2>5. todo' = p \o <<Result(v)>>
      BY <1>5, <2>1, <2>3
    <2> QED
      BY <1>4, <2>2, <2>4, <2>5
  <1>6. CASE todo' = NotConnected \o <<Result(-5)>>
    BY <1>2, <1>4, <1>6
  <1>7. ASSUME NEW v \in {-2, -3, -4}, todo' = <<Result(v)>>
        PROVE  Doomed'
    <2>1. <<>> \o <<Result(v)>> = <<Result(v)>>
      <3>1. IsList(<<Result(v)>>)
        <4>1. IsList(<<>>) /\ <<Result(v)>> = Then(Result(v), <<>>)
          BY ShortLists
        <4> QED
          BY <4>1, Lists
      <3> QED
        BY <1>3, <3>1
    <2> QED
      BY SMTT(30), <1>2, <1>4, <1>7, <2>1
  <1> QED
    BY <1>5, <1>6, <1>7

\* A branch on the result that has nothing after it.
LEMMA LastBranch ==
    ASSUME TypeOK, ClientStep, NEW p, NEW q, todo = <<If({0}, p, q)>>
    PROVE  /\ ret = 0 => todo' = p
           /\ ret # 0 => todo' = q
           /\ ret' = ret /\ at' = "start" /\ UNCHANGED <<Theirs, last, tunnel>>
           /\ \A a, b, K, m : Here(a, b, K, m) => Here(a, b, K, m)'
  <1>1. todo = Then(If({0}, p, q), <<>>) /\ IsList(<<>>)
    BY ShortLists
  <1>2. /\ ret = 0 => todo' = p \o <<>>
        /\ ret # 0 => todo' = q \o <<>>
        /\ ret' = ret /\ at' = "start" /\ UNCHANGED <<Theirs, last, tunnel>>
        /\ \A a, b, K, m : Here(a, b, K, m) => Here(a, b, K, m)'
    <2>1. PICK k : k = <<>>
      OBVIOUS
    <2> QED
      BY <1>1, <2>1, ResultBranches
  <1>3. IsList(p) /\ IsList(q)
    <2>1. todo # <<>> /\ Step = If({0}, p, q)
      BY <1>1, FirstStep
    <2>2. IsStep(Step)
      BY <2>1, StepIsStep
    <2>3. Step.do = "if" /\ Step.then = p /\ Step.else = q
      BY <2>1 DEF If
    <2> QED
      BY <2>2, <2>3, StepFields, ProgramIsList
  <1> QED
    BY <1>2, <1>3, Lists

\* An operation that has failed ends with a result that is not 0.
LEMMA DoomedStep ==
    ASSUME TypeOK, ClientStep, Doomed
    PROVE  Doomed'
  <1>1. todo # <<>>
    BY StepKinds
  <1>2. CASE todo \in Ends /\ ret # 0
    <2>1. CASE todo = <<SetupEnd>>
      BY <1>2, <2>1, LastBranch, SetupFailures DEF SetupEnd
    <2>2. ASSUME NEW timed, todo = <<SetupIdleEnd(timed)>>
          PROVE  Doomed'
      <3>1. todo' = <<Result(-2)>>
        BY <1>2, <2>2, LastBranch DEF SetupIdleEnd
      <3> QED
        BY <3>1, SetupFailures
    <2> QED
      BY <1>1, <1>2, <2>1, <2>2 DEF Ends
  <1>3. ASSUME NEW k \in Ends, Lost(k)
        PROVE  Doomed'
    <2>1. PICK p, v : IsProgram(p) /\ v \in Int \ {0} /\ todo = p \o Then(Result(v), k)
      BY <1>3 DEF Lost
    <2> DEFINE end == Then(Result(v), k)
    <2>2. IsList(p) /\ IsList(k) /\ IsList(end)
      <3>1. IsList(<<>>) /\ \A x : IsList(<<x>>)
        BY ShortLists, Lists
      <3>2. IsList(k)
        BY <3>1 DEF Ends
      <3> QED
        BY <2>1, <3>2, ProgramIsList, Lists
    <2>3. CASE p = <<>>
      <3>1. todo = Then(Result(v), k)
        BY <2>1, <2>2, <2>3, Lists
      <3>2. todo' = k /\ ret' = v
        <4>1. PICK x : x = Result(v)
          OBVIOUS
        <4> QED
          BY <2>2, <3>1, <4>1, BranchSteps
      <3> QED
        BY <1>3, <2>1, <3>2 DEF Doomed
    <2>4. CASE p # <<>>
      <3>1. PICK S : p \in Seq(S) /\ \A x \in S : IsStep(x)
        BY <2>1 DEF IsProgram
      <3>2. PICK y, t : p = Then(y, t) /\ IsProgram(t)
        <4>1. Tail(p) \in Seq(S) /\ Head(p) \in S /\ p = <<Head(p)>> \o Tail(p)
          BY <2>4, <3>1, HeadTailProperties
        <4> QED
          BY <3>1, <4>1 DEF Then, IsProgram
      <3>3. IsList(t) /\ todo = Then(y, t \o end) /\ IsList(t \o end)
        <4> HIDE DEF end
        <4>1. IsList(t)
          BY <3>2, ProgramIsList
        <4>2. Then(y, t) \o end = Then(y, t \o end) /\ IsList(t \o end)
          BY <2>2, <4>1, Lists
        <4>3. todo = p \o end
          BY <2>1 DEF end
        <4> QED
          BY <3>2, <4>1, <4>2, <4>3
      <3>4. Tail(todo) = t \o end
        BY <3>3, ThenIsList
      <3>5. CASE todo' = todo
        <4>1. Lost(k)'
          BY <2>1, <3>5 DEF Lost
        <4> QED
          BY <4>1 DEF Doomed
      <3>6. ASSUME NEW next, IsProgram(next), todo' = next \o Tail(todo)
            PROVE  Doomed'
        <4>1. IsProgram(next \o t)
          BY <3>2, <3>6, ConcatIsProgram
        <4>2. (next \o t) \o end = next \o (t \o end)
          <5>1. IsList(next)
            BY <3>6, ProgramIsList
          <5> HIDE DEF end
          <5> QED
            BY SMTT(30), <2>2, <3>3, <5>1, ListsConcat
        <4>3. todo' = (next \o t) \o Then(Result(v), k)
          BY <3>4, <3>6, <4>2
        <4>4. Lost(k)'
          BY <2>1, <4>1, <4>3 DEF Lost
        <4> QED
          BY <4>4 DEF Doomed
      <3> QED
        BY <3>5, <3>6, ClientMoves
    <2> QED
      BY <2>3, <2>4
  <1> QED
    BY <1>2, <1>3 DEF Doomed

-----------------------------------------------------------------------------
(* ilclient_setup_tunnel *)

\* A step alone is a list, and so are two.
LEMMA StepsAreLists ==
    \A x, y : IsList(<<x>>) /\ IsList(<<x, y>>)
  <1>1. ASSUME NEW x, NEW y
        PROVE  IsList(<<x>>) /\ IsList(<<x, y>>)
    <2>1. IsList(<<>>) /\ <<x>> = Then(x, <<>>) /\ <<x, y>> = Then(x, Then(y, <<>>))
      BY ShortLists
    <2>2. IsList(Then(x, <<>>)) /\ IsList(Then(y, <<>>))
      BY <2>1, Lists
    <2>3. IsList(Then(x, Then(y, <<>>)))
      BY <2>2, Lists
    <2> QED
      BY <2>1, <2>2, <2>3
  <1> QED
    BY <1>1

\* A branch on the state, or on a choice, that has nothing after it.
LEMMA LastChoices ==
    ASSUME TypeOK, ClientStep
    PROVE  /\ \A c, p, q : todo = <<IfLoaded(c, p, q)>> => todo' = p \/ todo' = q
           /\ \A P : todo = <<Choose(P)>> => \E p \in P : todo' = p
           /\ \A c, p, q, P : todo = <<IfLoaded(c, p, q)>> \/ todo = <<Choose(P)>> =>
                 /\ UNCHANGED <<last, tunnel>>
                 /\ \A a, b, K, m : Here(a, b, K, m) => Here(a, b, K, m)'
  <1>1. IsList(<<>>) /\ \A x : <<x>> = Then(x, <<>>)
    BY ShortLists
  <1>2. PICK r : r = <<>>
    OBVIOUS
  <1>3. todo # <<>> /\ last' = last
    BY StepKinds
  <1>4. IsStep(Step)
    BY <1>3, StepIsStep
  <1>5. ASSUME NEW c, NEW p, NEW q, todo = <<IfLoaded(c, p, q)>>
        PROVE  /\ todo' = p \/ todo' = q
               /\ UNCHANGED Theirs
    <2>1. PICK x : x = IfLoaded(c, p, q)
      OBVIOUS
    <2>2. todo = Then(x, r) /\ IsList(r)
      BY <1>1, <1>2, <1>5, <2>1
    <2>3. Step = x
      BY <2>2, FirstStep
    <2>4. IsList(p) /\ IsList(q)
      <3>1. Step.do = "ifloaded" /\ Step.then = p /\ Step.else = q
        BY <2>1, <2>3 DEF IfLoaded
      <3> QED
        BY <1>4, <3>1, StepFields, ProgramIsList
    <2>5. todo' = (IF state[c] = "Loaded" THEN p ELSE q) \o r /\ UNCHANGED Theirs
      BY <2>1, <2>2, BranchSteps
    <2>6. p \o r = p /\ q \o r = q
      BY <1>2, <2>4, Lists
    <2> QED
      BY <2>5, <2>6
  <1>6. ASSUME NEW P, todo = <<Choose(P)>>
        PROVE  /\ \E p \in P : todo' = p
               /\ UNCHANGED Theirs
    <2>1. PICK x : x = Choose(P)
      OBVIOUS
    <2>2. todo = Then(x, r) /\ IsList(r)
      BY <1>1, <1>2, <1>6, <2>1
    <2>3. Step = x
      BY <2>2, FirstStep
    <2>4. \A p \in P : IsList(p)
      <3>1. Step.do = "choose" /\ Step.programs = P
        BY <2>1, <2>3 DEF Choose
      <3> QED
        BY <1>4, <3>1, StepFields, ProgramIsList
    <2>5. (\E p \in P : todo' = p \o r) /\ UNCHANGED Theirs
      BY <2>1, <2>2, BranchSteps
    <2>6. \A p \in P : p \o r = p
      BY <1>2, <2>4, Lists
    <2> QED
      BY <2>5, <2>6
  <1> QED
    BY <1>3, <1>5, <1>6, HereSame DEF Theirs

\* The settings of the source are next, or its port.
LEMMA SetupContinues ==
    ASSUME NEW timed \in BOOLEAN, Here(Nothing, Nothing, {}, "open")',
           todo' = SetupSettings(timed)
    PROVE  AtSetupTunnel(timed)'
  <1>1. CASE timed
    BY <1>1 DEF AtSetupTunnel, SetupSettings
  <1>2. CASE ~ timed
    <2>1. PICK k : k = <<Streams>>
      OBVIOUS
    <2>2. IsList(k)
      BY <2>1, StepsAreLists
    <2>3. todo' = DisableTunnel \o k
      BY <1>2, <2>1 DEF SetupSettings
    <2>4. AtDisableTunnel(k)'
      BY <2>2, <2>3, FirstPoints
    <2> QED
      BY <2>1, <2>4 DEF AtSetupTunnel
  <1> QED
    BY <1>1, <1>2

\* ilclient_setup_tunnel up to the change of the source's state.
LEMMA SetupBegins ==
    ASSUME TypeOK, ClientStep, NEW timed \in BOOLEAN,
           todo = <<SetupStart(timed)>>, Here(Nothing, Nothing, {}, "open")
    PROVE  last' = last /\ AtSetupTunnel(timed)'
  <1> DEFINE p == ChangeState(Source, "Idle") \o <<SetupIdleEnd(timed)>>
             q == SetupSettings(timed)
  <1>1. todo = <<IfLoaded(Source, p, q)>>
    BY DEF SetupStart
  <1> HIDE DEF p, q
  <1>2. todo' = p \/ todo' = q
    BY <1>1, LastChoices
  <1>3. last' = last /\ Here(Nothing, Nothing, {}, "open")'
    BY <1>1, LastChoices
  <1>4. CASE todo' = p
    <2>1. PICK k : k = <<SetupIdleEnd(timed)>>
      OBVIOUS
    <2>2. IsList(k)
      BY <2>1, StepsAreLists
    <2>3. PICK c, t : c = Source /\ t = "Idle"
      OBVIOUS
    <2>4. todo' = ChangeState(c, t) \o k /\ t # "Loaded"
      BY <1>4, <2>1, <2>3 DEF p
    <2>5. AtChange(c, t, k)'
      BY <1>3, <2>2, <2>4, FirstPoints
    <2> QED
      BY <1>3, <2>1, <2>3, <2>5 DEF AtSetupTunnel
  <1>5. CASE todo' = q
    BY <1>3, <1>5, SetupContinues DEF q
  <1> QED
    BY <1>2, <1>4, <1>5

\* After the change of the source's state.
LEMMA SetupIdles ==
    ASSUME TypeOK, ClientStep, NEW timed \in BOOLEAN,
           todo = <<SetupIdleEnd(timed)>>, If0({}, Nothing, Nothing, "open")
    PROVE  last' = last /\ (AtSetupTunnel(timed)' \/ Doomed')
  <1> DEFINE p == SetupSettings(timed)
             q == <<Result(-2)>>
  <1>1. todo = <<If({0}, p, q)>>
    BY DEF SetupIdleEnd
  <1> HIDE DEF p, q
  <1>2. /\ ret = 0 => todo' = p
        /\ ret # 0 => todo' = q
    BY <1>1, LastBranch
  <1>3. last' = last
    BY StepKinds
  <1>4. CASE ret = 0
    <2>1. Here(Nothing, Nothing, {}, "open")
      BY <1>4 DEF If0
    <2>2. Here(Nothing, Nothing, {}, "open")'
      BY <1>1, <2>1, LastBranch
    <2> QED
      BY <1>2, <1>3, <1>4, <2>2, SetupContinues DEF p
  <1>5. CASE ret # 0
    <2>1. todo' = <<Result(-2)>>
      BY <1>2, <1>5 DEF q
    <2> QED
      BY <1>3, <2>1, SetupFailures
  <1> QED
    BY <1>4, <1>5

\* The wait for the source's settings, and what it returns.
LEMMA SetupWaits ==
    ASSUME TypeOK, ClientStep, NEW timed \in BOOLEAN,
           \/ todo = <<SettingsWait, SettingsEnd>> /\ Here(Nothing, Nothing, {}, "open")
           \/ todo = <<SettingsEnd>> /\ If0({}, Nothing, Nothing, "open")
    PROVE  last' = last /\ (AtSetupTunnel(timed)' \/ Doomed')
  <1>1. last' = last
    BY StepKinds
  <1>2. CASE todo = <<SettingsWait, SettingsEnd>> /\ Here(Nothing, Nothing, {}, "open")
    <2>1. PICK r : r = <<SettingsEnd>>
      OBVIOUS
    <2>2. IsList(r) /\ todo = Then(SettingsWait, r)
      <3>1. r = Then(SettingsEnd, <<>>) /\ IsList(<<>>)
        BY <2>1, ShortLists
      <3>2. todo = Then(SettingsWait, Then(SettingsEnd, <<>>))
        BY <1>2, ShortLists
      <3> QED
        BY <3>1, <3>2, Lists
    <2>3. PICK c, d1, w, timing : /\ c = Source /\ d1 = "port" /\ timing = TRUE
                                  /\ w = {"PARAMETER_CHANGED", "EVENT_ERROR"}
      OBVIOUS
    <2>4. c \in Comps /\ todo = Then(WaitEvent(c, "PortSettingsChanged", d1, w, timing), r)
      BY <2>2, <2>3 DEF SettingsWait, Comps
    <2>5. Here(Nothing, Nothing, {}, "open")' /\ (todo' = todo \/ todo' = r)
      BY <1>2, <2>2, <2>4, SettingsStep
    <2> QED
      BY <1>1, <1>2, <2>1, <2>5 DEF AtSetupTunnel, If0
  <1>3. CASE todo = <<SettingsEnd>> /\ If0({}, Nothing, Nothing, "open")
    <2> DEFINE p == DisableTunnel \o <<Streams>>
               q == <<>>
    <2>1. todo = <<If({0}, p, q)>>
      BY <1>3 DEF SettingsEnd
    <2> HIDE DEF p, q
    <2>2. /\ ret = 0 => todo' = p
          /\ ret # 0 => todo' = q
          /\ ret' = ret
      BY <2>1, LastBranch
    <2>3. CASE ret = 0
      <3>1. Here(Nothing, Nothing, {}, "open")
        BY <1>3, <2>3 DEF If0
      <3>2. Here(Nothing, Nothing, {}, "open")'
        BY <2>1, <3>1, LastBranch
      <3>3. PICK k : k = <<Streams>>
        OBVIOUS
      <3>4. IsList(k)
        BY <3>3, StepsAreLists
      <3>5. todo' = DisableTunnel \o k
        BY <2>2, <2>3, <3>3 DEF p
      <3>6. AtDisableTunnel(k)'
        BY <3>2, <3>4, <3>5, FirstPoints
      <3> QED
        BY <1>1, <3>3, <3>6 DEF AtSetupTunnel
    <2>4. CASE ret # 0
      <3>1. todo' = <<>> /\ ret' # 0
        BY <2>2, <2>4 DEF q
      <3>2. todo' \in Ends
        BY <3>1 DEF Ends
      <3>3. Doomed'
        BY <3>1, <3>2 DEF Doomed
      <3> QED
        BY <1>1, <3>3
    <2> QED
      BY <2>3, <2>4
  <1> QED
    BY <1>2, <1>3

\* The number of streams, the formats, and the connection.
LEMMA SetupConnects ==
    ASSUME TypeOK, ClientStep, NEW timed \in BOOLEAN,
           \/ todo = <<Streams>>
           \/ todo = <<Connect, ConnectEnd>>,
           Here(Nothing, Nothing, {}, "open")
    PROVE  last' = last /\ (AtSetupTunnel(timed)' \/ Doomed')
  <1>1. last' = last
    BY StepKinds
  <1>2. CASE todo = <<Streams>>
    <2>1. PICK P : P = {<<Connect, ConnectEnd>>, <<Result(-3)>>, <<Result(-4)>>}
      OBVIOUS
    <2>2. todo = <<Choose(P)>>
      BY <1>2, <2>1 DEF Streams
    <2>3. Here(Nothing, Nothing, {}, "open")' /\ \E p \in P : todo' = p
      BY <2>2, LastChoices
    <2>4. CASE todo' = <<Connect, ConnectEnd>>
      BY <1>1, <2>3, <2>4 DEF AtSetupTunnel
    <2>5. CASE todo' = <<Result(-3)>> \/ todo' = <<Result(-4)>>
      BY <1>1, <2>5, SetupFailures
    <2> QED
      BY <2>1, <2>3, <2>4, <2>5
  <1>3. CASE todo = <<Connect, ConnectEnd>>
    <2>1. PICK r, x : r = <<ConnectEnd>> /\ x = Connect
      OBVIOUS
    <2>2. IsList(r) /\ todo = Then(x, r)
      <3>1. r = Then(ConnectEnd, <<>>) /\ todo = Then(Connect, Then(ConnectEnd, <<>>))
        BY <1>3, <2>1, ShortLists
      <3> QED
        BY <2>1, <3>1, StepsAreLists
    <2>3. /\ todo' = r /\ (ret' = 0 => tunnel' = TRUE)
          /\ UNCHANGED <<list, mask, state, enabled, pending, freed>>
      BY <2>1, <2>2, CallSteps
    <2>4. Here(Nothing, Nothing, {}, "open")'
      <3>1. Nothing \notin Tearing
        BY DEF Nothing, Tearing, Off, ToState
      <3>2. \A d \in Comps : Same(list[d], list'[d])
        BY <2>3 DEF Same
      <3>3. PICK a, b, K, m : a = Nothing /\ b = Nothing /\ K = {} /\ m = "open"
        OBVIOUS
      <3>4. Here(a, b, K, m)'
        BY <2>3, <3>1, <3>2, <3>3, HereStill
      <3> QED
        BY <3>3, <3>4
    <2>5. ret' = 0 => tunnel'
      BY <2>3
    <2>6. todo' = <<ConnectEnd>>
      BY <2>1, <2>3
    <2> QED
      BY <1>1, <2>4, <2>5, <2>6 DEF AtSetupTunnel
  <1> QED
    BY <1>2, <1>3

\* The tunnel is enabled when the ports are connected.
LEMMA SetupEnables ==
    ASSUME TypeOK, ClientStep, NEW timed \in BOOLEAN,
           \/ todo = <<ConnectEnd>> /\ (ret = 0 => tunnel /\ Here(Nothing, Nothing, {}, "open"))
           \/ tunnel /\ AtEnableTunnel(<<SetupEnd>>)
    PROVE  last' = last /\ (AtSetupTunnel(timed)' \/ Doomed')
  <1>1. last' = last
    BY StepKinds
  <1>2. PICK k : k = <<SetupEnd>>
    OBVIOUS
  <1>3. IsList(k) /\ k \in Ends
    BY <1>2, StepsAreLists DEF Ends
  <1>4. CASE todo = <<ConnectEnd>> /\ (ret = 0 => tunnel /\ Here(Nothing, Nothing, {}, "open"))
    <2> DEFINE p == EnableTunnel \o <<SetupEnd>>
               q == NotConnected \o <<Result(-5)>>
    <2>1. todo = <<If({0}, p, q)>>
      BY <1>4 DEF ConnectEnd
    <2> HIDE DEF p, q
    <2>2. /\ ret = 0 => todo' = p
          /\ ret # 0 => todo' = q
          /\ tunnel' = tunnel
          /\ Here(Nothing, Nothing, {}, "open") => Here(Nothing, Nothing, {}, "open")'
      BY <2>1, LastBranch
    <2>3. CASE ret = 0
      <3>1. todo' = EnableTunnel \o k
        BY <1>2, <2>2, <2>3 DEF p
      <3>2. Here(Nothing, Nothing, {}, "open")'
        BY <1>4, <2>2, <2>3
      <3>3. AtEnableTunnel(k)'
        BY <1>3, <3>1, <3>2, FirstPoints
      <3>4. tunnel
        BY <1>4, <2>3
      <3>5. tunnel'
        BY <2>2, <3>4
      <3> QED
        BY <1>1, <1>2, <3>3, <3>5 DEF AtSetupTunnel
    <2>4. CASE ret # 0
      <3>1. todo' = NotConnected \o <<Result(-5)>>
        BY <2>2, <2>4 DEF q
      <3> QED
        BY <1>1, <3>1, SetupFailures
    <2> QED
      BY <2>3, <2>4
  <1>5. CASE tunnel /\ AtEnableTunnel(<<SetupEnd>>)
    <2>1. AtEnableTunnel(k)
      BY <1>2, <1>5
    <2>2. /\ tunnel' = tunnel
          /\ \/ AtEnableTunnel(k)'
             \/ todo' = k /\ ret' = 0 /\ Here(Nothing, Nothing, Both(On), "open")'
             \/ Lost(k)'
      BY <1>3, <2>1, EnableTunnelStep
    <2>3. tunnel'
      BY <1>5, <2>2
    <2>4. CASE AtEnableTunnel(k)'
      BY <1>1, <1>2, <2>3, <2>4 DEF AtSetupTunnel
    <2>5. CASE todo' = k /\ ret' = 0 /\ Here(Nothing, Nothing, Both(On), "open")'
      BY <1>1, <1>2, <2>3, <2>5 DEF AtSetupTunnel
    <2>6. CASE Lost(k)'
      BY <1>1, <1>3, <2>6 DEF Doomed
    <2> QED
      BY <2>2, <2>4, <2>5, <2>6
  <1> QED
    BY <1>4, <1>5

\* The result of ilclient_setup_tunnel.
LEMMA SetupReturns ==
    ASSUME TypeOK, ClientStep, NEW timed \in BOOLEAN,
           \/ todo = <<SetupEnd>> /\ (ret = 0 => tunnel /\ Here(Nothing, Nothing, Both(On), "open"))
           \/ todo = <<Result(0)>> /\ tunnel /\ Here(Nothing, Nothing, Both(On), "open")
    PROVE  /\ last' = last
           /\ \/ AtSetupTunnel(timed)' \/ Doomed'
              \/ /\ todo' = <<>> /\ ret' = 0 /\ tunnel'
                 /\ Here(Nothing, Nothing, Both(On), "open")'
  <1>1. last' = last
    BY StepKinds
  <1>2. CASE todo = <<SetupEnd>> /\ (ret = 0 => tunnel /\ Here(Nothing, Nothing, Both(On), "open"))
    <2> DEFINE p == <<Result(0)>>
               q == NotConnected \o <<RemoveError(Sink), RemoveError(Source)>> \o <<Result(-5)>>
    <2>1. todo = <<If({0}, p, q)>>
      BY <1>2 DEF SetupEnd
    <2> HIDE DEF p, q
    <2>2. /\ ret = 0 => todo' = p
          /\ ret # 0 => todo' = q
          /\ tunnel' = tunnel
          /\ \A a, b, K, m : Here(a, b, K, m) => Here(a, b, K, m)'
      BY <2>1, LastBranch
    <2>3. CASE ret = 0
      <3>1. Here(Nothing, Nothing, Both(On), "open")
        BY <1>2, <2>3
      <3>2. Here(Nothing, Nothing, Both(On), "open")'
        BY <2>2, <3>1
      <3>3. tunnel
        BY <1>2, <2>3
      <3>4. tunnel'
        BY <2>2, <3>3
      <3>5. todo' = <<Result(0)>>
        BY <2>2, <2>3 DEF p
      <3> QED
        BY <1>1, <3>2, <3>4, <3>5 DEF AtSetupTunnel
    <2>4. CASE ret # 0
      <3>1. todo' = NotConnected \o <<RemoveError(Sink), RemoveError(Source)>> \o <<Result(-5)>>
        BY <2>2, <2>4 DEF q
      <3> QED
        BY <1>1, <3>1, SetupFailures
    <2> QED
      BY <2>3, <2>4
  <1>3. CASE todo = <<Result(0)>> /\ tunnel /\ Here(Nothing, Nothing, Both(On), "open")
    <2>1. PICK r, v : r = <<>> /\ v = 0
      OBVIOUS
    <2>2. PICK x : x = Result(v)
      OBVIOUS
    <2>3. IsList(r) /\ todo = Then(x, r)
      BY <1>3, <2>1, <2>2, ShortLists
    <2>4. todo' = r /\ ret' = v /\ UNCHANGED Theirs
      BY <2>2, <2>3, BranchSteps
    <2>5. Here(Nothing, Nothing, Both(On), "open")'
      BY <1>3, <2>4, HereSame
    <2>6. tunnel' = tunnel
      BY <2>4 DEF Theirs
    <2>7. tunnel'
      BY <1>3, <2>6
    <2> QED
      BY <1>1, <2>1, <2>4, <2>5, <2>7
  <1> QED
    BY <1>2, <1>3

\* A step of the client leaves ilclient_setup_tunnel on its way.
LEMMA SetupStep ==
    ASSUME TypeOK, FreedAreUp, ClientStep, NEW timed \in BOOLEAN, AtSetupTunnel(timed)
    PROVE  /\ last' = last
           /\ \/ AtSetupTunnel(timed)' \/ Doomed' \/ Accused'
              \/ /\ todo' = <<>> /\ ret' = 0 /\ tunnel'
                 /\ Here(Nothing, Nothing, Both(On), "open")'
  <1>1. last' = last
    BY StepKinds
  <1>2. CASE AtChange(Source, "Idle", <<SetupIdleEnd(timed)>>)
    <2>1. PICK c, t, k : c = Source /\ t = "Idle" /\ k = <<SetupIdleEnd(timed)>>
      OBVIOUS
    <2>2. c \in Comps /\ t \in States /\ IsList(k)
      BY <2>1, StepsAreLists DEF Comps, States, Next2
    <2>3. k \in Ends
      <3>1. timed = TRUE \/ timed = FALSE
        OBVIOUS
      <3> QED
        BY <2>1, <3>1 DEF Ends
    <2>4. \/ AtChange(c, t, k)'
          \/ todo' = k /\ ret' = 0 /\ Here(Nothing, Nothing, {<<c, ToState(t)>>}, "open")'
          \/ Lost(k)'
      BY <1>2, <2>1, <2>2, ChangeStep
    <2>5. CASE AtChange(c, t, k)'
      BY <1>1, <2>1, <2>5 DEF AtSetupTunnel
    <2>6. CASE todo' = k /\ ret' = 0 /\ Here(Nothing, Nothing, {<<c, ToState(t)>>}, "open")'
      <3>1. PICK a, b, K, L, m : /\ a = Nothing /\ b = Nothing /\ K = {<<c, ToState(t)>>}
                                 /\ L = {} /\ m = "open"
        OBVIOUS
      <3>2. L \in SUBSET K
        BY <3>1
      <3>3. Here(a, b, L, m)'
        BY <2>6, <3>1, <3>2, HereLess
      <3>4. If0({}, Nothing, Nothing, "open")'
        BY <3>1, <3>3 DEF If0
      <3> QED
        BY <1>1, <2>1, <2>6, <3>4 DEF AtSetupTunnel
    <2>7. CASE Lost(k)'
      BY <1>1, <2>3, <2>7 DEF Doomed
    <2> QED
      BY <2>4, <2>5, <2>6, <2>7
  <1>3. CASE AtDisableTunnel(<<Streams>>)
    <2>1. PICK k : k = <<Streams>>
      OBVIOUS
    <2>2. IsList(k) /\ AtDisableTunnel(k)
      BY <1>3, <2>1, StepsAreLists
    <2>3. \/ AtDisableTunnel(k)'
          \/ todo' = k /\ ret' = 0 /\ Here(Nothing, Nothing, Both(Off), "open")'
          \/ Accused'
      BY <2>2, DisableTunnelStep
    <2>4. CASE AtDisableTunnel(k)'
      BY <1>1, <2>1, <2>4 DEF AtSetupTunnel
    <2>5. CASE todo' = k /\ ret' = 0 /\ Here(Nothing, Nothing, Both(Off), "open")'
      <3>1. PICK a, b, K, L, m : /\ a = Nothing /\ b = Nothing /\ K = Both(Off)
                                 /\ L = {} /\ m = "open"
        OBVIOUS
      <3>2. L \in SUBSET K
        BY <3>1
      <3>3. Here(a, b, L, m)'
        BY <2>5, <3>1, <3>2, HereLess
      <3> QED
        BY <1>1, <2>1, <2>5, <3>1, <3>3 DEF AtSetupTunnel
    <2> QED
      BY <1>1, <2>3, <2>4, <2>5
  <1>4. CASE todo = <<SetupStart(timed)>> /\ Here(Nothing, Nothing, {}, "open")
    BY <1>4, SetupBegins
  <1>5. CASE todo = <<SetupIdleEnd(timed)>> /\ If0({}, Nothing, Nothing, "open")
    BY <1>5, SetupIdles
  <1>6. CASE \/ todo = <<SettingsWait, SettingsEnd>> /\ Here(Nothing, Nothing, {}, "open")
             \/ todo = <<SettingsEnd>> /\ If0({}, Nothing, Nothing, "open")
    BY <1>6, SetupWaits
  <1>7. CASE /\ todo = <<Streams>> \/ todo = <<Connect, ConnectEnd>>
             /\ Here(Nothing, Nothing, {}, "open")
    BY <1>7, SetupConnects
  <1>8. CASE \/ todo = <<ConnectEnd>> /\ (ret = 0 => tunnel /\ Here(Nothing, Nothing, {}, "open"))
             \/ tunnel /\ AtEnableTunnel(<<SetupEnd>>)
    BY <1>8, SetupEnables
  <1>9. CASE \/ /\ todo = <<SetupEnd>>
                /\ ret = 0 => tunnel /\ Here(Nothing, Nothing, Both(On), "open")
             \/ todo = <<Result(0)>> /\ tunnel /\ Here(Nothing, Nothing, Both(On), "open")
    BY <1>9, SetupReturns
  <1> QED
    BY <1>2, <1>3, <1>4, <1>5, <1>6, <1>7, <1>8, <1>9 DEF AtSetupTunnel

-----------------------------------------------------------------------------
(* Whole operations *)

\* While a part of an operation runs there is a step to run.
LEMMA PartsRun ==
    ASSUME NEW k, IsList(k), todo = <<>>
    PROVE  /\ \A c, t : ~ AtChange(c, t, k)
           /\ \A c, o, w : ~ AtPort(c, o, w)
           /\ ~ AtMasking(k)
           /\ \A K : ~ AtUnmasking(K, k)
           /\ \A o, w, m : ~ AtAwaiting(o, w, m, k)
  <1>1. \A x, r : IsList(r) => IsList(Then(x, r)) /\ Then(x, r) # todo
    BY Lists
  <1>2. \A x : <<x>> # todo /\ IsList(<<x>>)
    BY StepsAreLists
  <1>3. ASSUME NEW c, NEW t
        PROVE  ~ AtChange(c, t, k)
    <2>1. IsList(Then(If({0}, <<>>, <<RemoveError(c), Result(-1)>>), k))
      BY <1>1
    <2>2. IsList(Then(Wait(c, "StateSet", t),
                      Then(If({0}, <<>>, <<RemoveError(c), Result(-1)>>), k)))
      BY <1>1, <2>1
    <2> QED
      BY <1>1, <2>1, <2>2 DEF AtChange
  <1>4. ASSUME NEW c, NEW o, NEW w
        PROVE  ~ AtPort(c, o, w)
    <2>1. IsList(<<Check(w)>>)
      BY <1>2
    <2>2. IsList(Then(Wait(c, o[1], "port"), <<Check(w)>>))
      BY <1>1, <2>1
    <2> QED
      BY <1>1, <1>2, <2>1, <2>2 DEF AtPort
  <1>5. ~ AtMasking(k)
    <2>1. IsList(Then(Mask(Sink, TRUE), k))
      BY <1>1
    <2> QED
      BY <1>1, <2>1 DEF AtMasking
  <1>6. ASSUME NEW K
        PROVE  ~ AtUnmasking(K, k)
    <2>1. IsList(Then(Mask(Sink, FALSE), k))
      BY <1>1
    <2> QED
      BY <1>1, <2>1 DEF AtUnmasking
  <1>7. ASSUME NEW o, NEW w, NEW m
        PROVE  ~ AtAwaiting(o, w, m, k)
    <2>1. IsList(Then(Check(w), k))
      BY <1>1
    <2>2. IsList(Then(Wait(Sink, o[1], o[2]), Then(Check(w), k)))
      BY <1>1, <2>1
    <2>3. IsList(Then(Check(w), Then(Wait(Sink, o[1], o[2]), Then(Check(w), k))))
      BY <1>1, <2>2
    <2> QED
      BY <1>1, <2>1, <2>2, <2>3 DEF AtAwaiting, Awaiting
  <1> QED
    BY <1>3, <1>4, <1>5, <1>6, <1>7

\* So it is with the tunnel.
LEMMA TunnelsRun ==
    ASSUME NEW k, IsList(k), todo = <<>>
    PROVE  ~ AtDisableTunnel(k) /\ ~ AtEnableTunnel(k)
  <1>1. \A x, r : IsList(r) => IsList(Then(x, r)) /\ Then(x, r) # todo
    BY Lists
  <1>2. ~ AtDisableTunnel(k)
    <2> DEFINE unmask == Then(Mask(Source, FALSE), Then(Mask(Sink, FALSE), k))
               await == Awaiting(Off, "disable", unmask)
               sendSink == Then(Send(Sink, "PortDisable", "port"), await)
               sendSource == Then(Send(Source, "PortDisable", "port"), sendSink)
    <2>1. IsList(unmask)
      <3>1. IsList(Then(Mask(Sink, FALSE), k))
        BY <1>1
      <3> QED
        BY <1>1, <3>1
    <2>2. IsList(await)
      <3> HIDE DEF unmask
      <3>1. IsList(Then(Check("disable"), unmask))
        BY <1>1, <2>1
      <3>2. IsList(Then(Wait(Sink, Off[1], Off[2]), Then(Check("disable"), unmask)))
        BY <1>1, <3>1
      <3>3. IsList(Then(Check("disable"),
                        Then(Wait(Sink, Off[1], Off[2]), Then(Check("disable"), unmask))))
        BY <1>1, <3>2
      <3> QED
        BY <1>1, <3>3 DEF Awaiting
    <2>3. IsList(sendSink)
      <3> HIDE DEF await
      <3> QED
        BY <1>1, <2>2
    <2>4. IsList(sendSource) /\ sendSink # todo /\ sendSource # todo
      <3>1. sendSink # todo
        <4> HIDE DEF await
        <4> QED
          BY <1>1, <2>2
      <3> HIDE DEF sendSink
      <3> QED
        BY <1>1, <2>3, <3>1
    <2>5. AtDisableTunnel(k) => \/ AtMasking(sendSource) \/ todo = sendSource \/ todo = sendSink
                                \/ AtAwaiting(Off, "disable", "masked", unmask)
                                \/ AtUnmasking(Both(Off), k)
      BY DEF AtDisableTunnel
    <2> HIDE DEF unmask, await, sendSink, sendSource
    <2>6. PICK o, w, m, K : o = Off /\ w = "disable" /\ m = "masked" /\ K = Both(Off)
      OBVIOUS
    <2>7. ~ AtMasking(sendSource)
      BY <2>4, PartsRun
    <2>8. ~ AtAwaiting(o, w, m, unmask)
      BY <2>1, PartsRun
    <2>9. ~ AtUnmasking(K, k)
      BY PartsRun
    <2> QED
      BY <2>4, <2>5, <2>6, <2>7, <2>8, <2>9
  <1>3. ~ AtEnableTunnel(k)
    <2>1. /\ IsList(Then(EnableBranch, k)) /\ Then(EnableBranch, k) # todo
          /\ IsList(Then(ToIdleEnd, k)) /\ Then(ToIdleEnd, k) # todo
          /\ IsList(Then(FinishEnd, k)) /\ Then(FinishEnd, k) # todo
          /\ Then(Result(0), k) # todo
          /\ \A x : IsList(Then(x, k)) /\ Then(x, k) # todo
      BY <1>1
    <2>2. \A x : \A y : Then(y, Then(x, k)) # todo /\ IsList(Then(y, Then(x, k)))
      BY <1>1, <2>1
    <2>3. \A x, y, z : Then(z, Then(y, Then(x, k))) # todo
      BY <1>1, <2>2
    <2> QED
      BY <2>1, <2>2, <2>3 DEF AtEnableTunnel
  <1> QED
    BY <1>2, <1>3

\* And with a change of the states of both components.
LEMMA TransitionsRun ==
    ASSUME todo = <<>>, NEW t
    PROVE  ~ AtTransition(t)
  <1> DEFINE o == ToState(t)
             m == IF t = "Loaded" THEN "masked" ELSE "open"
             unmask == IF t = "Loaded" THEN <<Mask(Source, FALSE), Mask(Sink, FALSE)>> ELSE <<>>
             await == Awaiting(o, "state", unmask)
             tell(c) == <<ClearError(c), Send(c, "StateSet", t)>>
             P == {tell(Source) \o tell(Sink), tell(Sink) \o tell(Source)}
             choose == Then(Choose(P), await)
             tells(c, r) == Then(ClearError(c), Then(Send(c, "StateSet", t), r))
  <1>1. \A x, r : IsList(r) => IsList(Then(x, r)) /\ Then(x, r) # todo
    BY Lists
  <1>2. IsList(unmask)
    BY StepsAreLists, Lists
  <1>3. IsList(await)
    <2> HIDE DEF unmask, o
    <2>1. IsList(Then(Check("state"), unmask))
      BY <1>1, <1>2
    <2>2. IsList(Then(Wait(Sink, o[1], o[2]), Then(Check("state"), unmask)))
      BY <1>1, <2>1
    <2>3. IsList(Then(Check("state"),
                      Then(Wait(Sink, o[1], o[2]), Then(Check("state"), unmask))))
      BY <1>1, <2>2
    <2> QED
      BY <1>1, <2>3 DEF Awaiting
  <1>4. IsList(choose) /\ choose # todo
    <2> HIDE DEF await, P
    <2> QED
      BY <1>1, <1>3
  <1>5. \A c, r : IsList(r) => IsList(tells(c, r)) /\ tells(c, r) # todo
                               /\ Then(Send(c, "StateSet", t), r) # todo
    BY <1>1
  <1>6. \A c, d : /\ tells(c, await) # todo /\ tells(d, tells(c, await)) # todo
                  /\ Then(Send(d, "StateSet", t), tells(c, await)) # todo
                  /\ Then(Send(c, "StateSet", t), await) # todo
    <2> HIDE DEF await, tells
    <2> QED
      BY <1>3, <1>5
  <1>7. AtTransition(t) =>
           \/ AtMasking(choose) \/ todo = choose
           \/ \E c, d : \/ todo = tells(c, await) \/ todo = tells(d, tells(c, await))
                        \/ todo = Then(Send(d, "StateSet", t), tells(c, await))
                        \/ todo = Then(Send(c, "StateSet", t), await)
           \/ AtAwaiting(o, "state", m, unmask)
           \/ AtUnmasking(Both(o), <<>>)
    <2> HIDE DEF await, o, m
    <2> QED
      BY DEF AtTransition, await, o, m
  <1> HIDE DEF o, m, unmask, await, P, choose, tells
  <1>8. ~ AtMasking(choose)
    BY <1>4, PartsRun
  <1>9. ~ AtAwaiting(o, "state", m, unmask)
    <2>1. PICK p, w, n : p = o /\ w = "state" /\ n = m
      OBVIOUS
    <2>2. ~ AtAwaiting(p, w, n, unmask)
      BY <1>2, PartsRun
    <2> QED
      BY <2>1, <2>2
  <1>10. ~ AtUnmasking(Both(o), <<>>)
    <2>1. PICK K, k : K = Both(o) /\ k = <<>>
      OBVIOUS
    <2>2. ~ AtUnmasking(K, k)
      BY <2>1, Lists, PartsRun
    <2> QED
      BY <2>1, <2>2
  <1> QED
    BY <1>4, <1>6, <1>7, <1>8, <1>9, <1>10

\* An operation on its way that has no step left, and returned 0, has done what it was to do.
LEMMA IdleIsAtRest ==
    ASSUME OnTrack \/ Accused \/ Doomed, todo = <<>>, ret = 0
    PROVE  AtRest
  <1>1. PICK k : k = <<>>
    OBVIOUS
  <1>2. IsList(k) /\ \A x, y : <<x>> # todo /\ <<x, y>> # todo
    BY <1>1, Lists
  <1>3. ASSUME NEW j \in Ends, Lost(j)
        PROVE  FALSE
    <2>1. PICK p, v : IsProgram(p) /\ todo = p \o Then(Result(v), j)
      BY <1>3 DEF Lost
    <2>2. IsList(p) /\ IsList(j)
      BY <2>1, ProgramIsList, StepsAreLists, Lists DEF Ends
    <2>3. PICK e : e = Then(Result(v), j)
      OBVIOUS
    <2>4. IsList(e) /\ e # <<>>
      BY <2>2, <2>3, Lists
    <2>5. PICK S, T : p \in Seq(S) /\ e \in Seq(T)
      BY <2>2, <2>4 DEF IsList
    <2>6. Len(p \o e) = Len(p) + Len(e) /\ Len(p) \in Nat /\ Len(e) \in Nat /\ Len(e) # 0
      <3>1. p \in Seq(S \cup T) /\ e \in Seq(S \cup T)
        BY <2>5, SeqMonotonic
      <3> QED
        BY <2>4, <3>1, ConcatProperties, LenProperties, EmptySeq
    <2> QED
      BY SMTT(30), <1>2, <2>1, <2>3, <2>6
  <1>4. CASE Doomed
    BY <1>3, <1>4 DEF Doomed
  <1>5. CASE Accused
    BY <1>5 DEF Accused
  <1>6. ASSUME NEW timed \in BOOLEAN, AtSetupTunnel(timed)
        PROVE  FALSE
    <2>1. PICK p, q, r : p = <<SetupIdleEnd(timed)>> /\ q = <<Streams>> /\ r = <<SetupEnd>>
      OBVIOUS
    <2>2. IsList(p) /\ IsList(q) /\ IsList(r)
      BY <2>1, StepsAreLists
    <2>3. PICK c, t : c = Source /\ t = "Idle"
      OBVIOUS
    <2>4. ~ AtChange(c, t, p)
      BY <2>2, PartsRun
    <2>5. ~ AtDisableTunnel(q) /\ ~ AtEnableTunnel(r)
      BY <2>2, TunnelsRun
    <2> QED
      BY <1>2, <1>6, <2>1, <2>3, <2>4, <2>5 DEF AtSetupTunnel
  <1>7. ~ AtDisableTunnel(k) /\ ~ AtEnableTunnel(k)
    BY <1>2, TunnelsRun
  <1>8. ~ AtTeardown /\ ~ AtLook
    BY <1>2 DEF AtTeardown, AtLook, NotConnected
  <1>9. ~ AtFlush
    <2>1. \A x, r : IsList(r) => IsList(Then(x, r)) /\ Then(x, r) # todo
      BY Lists
    <2>2. \A x, y : /\ IsList(Then(y, <<x>>)) /\ IsList(<<x>>) /\ <<x>> # todo
                    /\ Then(y, <<x>>) # todo
      BY <1>2, <2>1, StepsAreLists
    <2>3. \A x, y, z : Then(z, Then(y, <<x>>)) # todo /\ IsList(Then(z, Then(y, <<x>>)))
      BY <2>1, <2>2
    <2>4. \A x, y, z, u : Then(u, Then(z, Then(y, <<x>>))) # todo
      BY <2>1, <2>3
    <2> QED
      BY <2>2, <2>3, <2>4 DEF AtFlush
  <1>10. ~ AtTransition(last.s)
    BY TransitionsRun
  <1>11. ~ AtChange(last.c, last.s, k)
    <2>1. PICK c, t : c = last.c /\ t = last.s
      OBVIOUS
    <2> QED
      BY <1>2, <2>1, PartsRun
  <1>12. \A c : ~ AtPort(c, Off, "disable") /\ ~ AtPort(c, On, "enable")
    <2>1. PICK off, on, w, x : off = Off /\ on = On /\ w = "disable" /\ x = "enable"
      OBVIOUS
    <2>2. \A c : ~ AtPort(c, off, w) /\ ~ AtPort(c, on, x)
      BY <1>2, PartsRun
    <2> QED
      BY <2>1, <2>2
  <1>13. CASE OnTrack
    BY <1>1, <1>6, <1>7, <1>8, <1>9, <1>10, <1>11, <1>12, <1>13 DEF OnTrack
  <1> QED
    BY <1>4, <1>5, <1>13

\* A failed assertion is not forgotten, and one that is about to fail fails.
LEMMA AssertionsFail ==
    ASSUME ClientStep
    PROVE  /\ asserted \subseteq asserted'
           /\ Accused => asserted' # {}
  <1>1. CASE \/ WaitBegins \/ WaitScans \/ WaitWakes \/ WaitEnds
    BY <1>1, StepKinds DEF WaitBegins, WaitScans, WaitWakes, WaitEnds, Accused, Running
  <1>2. CASE \/ EventLooked \/ EventErrors \/ EventConfigs \/ EventLast \/ EventWakes
             \/ EventTimesOut
    BY <1>2 DEF EventLooked, EventErrors, EventConfigs, EventLast, EventWakes, EventTimesOut,
                Accused, Running
  <1>3. CASE \/ RemoveErrors \/ ReturnAll \/ SendCommand \/ ClearErrorFlag \/ SetMask
             \/ ConnectPorts \/ DisconnectPort
    BY <1>3 DEF RemoveErrors, ReturnAll, SendCommand, ClearErrorFlag, SetMask, ConnectPorts,
                DisconnectPort, Accused, Running
  <1>4. CASE Control
    BY <1>4 DEF Control, Accused
  <1> QED
    BY <1>1, <1>2, <1>3, <1>4 DEF ClientStep

\* An operation is done.
LEMMA RestReached ==
    ASSUME todo' = <<>>, ret' = 0, NEW K, Here(Nothing, Nothing, K, "open")', Outcome' \subseteq K,
           last'.name \in {"setup_tunnel", "enable_tunnel"} => tunnel'
    PROVE  AtRest'
  <1>1. PICK a, b, L, m : a = Nothing /\ b = Nothing /\ L = Outcome' /\ m = "open"
    OBVIOUS
  <1>2. Here(a, b, K, m)' /\ L \in SUBSET K
    BY <1>1
  <1>3. Here(a, b, L, m)'
    BY <1>2, HereLess
  <1> QED
    BY <1>1, <1>3 DEF AtRest

\* What the operations promise.
LEMMA Outcomes ==
    /\ last.name \in {"setup_tunnel", "enable_tunnel"} => Outcome = Both(On)
    /\ last.name = "disable_tunnel" => Outcome = Both(Off)
    /\ last.name = "state_transition" => Outcome = Both(ToState(last.s))
    /\ last.name = "change_component_state" => Outcome = {<<last.c, ToState(last.s)>>}
    /\ last.name \in {"none", "teardown_tunnels", "flush_tunnels", "disable_port", "enable_port",
                      "return_events", "wait_for_event"} => Outcome = {}
  BY DEF Outcome

\* A step of the client leaves its operation on its way.
LEMMA ClientLeavesOnWay ==
    ASSUME TypeOK, FreedAreUp, ClientStep, OnWay
    PROVE  OnWay'
  <1> SUFFICES ASSUME asserted' = {}
               PROVE  (OnTrack \/ Accused \/ Doomed)'
    BY DEF OnWay
  <1>1. todo # <<>> /\ last' = last
    BY StepKinds
  <1>2. asserted = {} /\ ~ Accused
    BY AssertionsFail
  <1>3. PICK k : k = <<>>
    OBVIOUS
  <1>4. IsList(k) /\ k \in Ends
    BY <1>3, Lists DEF Ends
  <1>5. CASE Doomed
    BY <1>5, DoomedStep
  <1>6. Lost(k)' => Doomed'
    BY <1>4 DEF Doomed
  <1>7. Outcome' = Outcome
    BY <1>1 DEF Outcome
  <1>8. ASSUME NEW K, todo' = k, ret' = 0, Here(Nothing, Nothing, K, "open")', Outcome \subseteq K,
               last.name \notin {"setup_tunnel", "enable_tunnel"}
        PROVE  OnTrack'
    <2>1. todo' = <<>> /\ last'.name \notin {"setup_tunnel", "enable_tunnel"}
      BY <1>1, <1>3, <1>8
    <2>2. AtRest'
      BY <1>7, <1>8, <2>1, RestReached
    <2> QED
      BY <2>2 DEF OnTrack
  <1>9. ASSUME last.name \in {"setup_tunnel", "enable_tunnel"}, todo' = k, ret' = 0, tunnel',
               Here(Nothing, Nothing, Both(On), "open")'
        PROVE  OnTrack'
    <2>1. PICK K : K = Both(On)
      OBVIOUS
    <2>2. Outcome' \subseteq K
      BY <1>7, <1>9, <2>1, Outcomes
    <2>3. AtRest'
      BY <1>3, <1>9, <2>1, <2>2, RestReached
    <2> QED
      BY <2>3 DEF OnTrack
  <1>10. ASSUME last.name = "setup_tunnel", NEW timed \in BOOLEAN, AtSetupTunnel(timed)
         PROVE  (OnTrack \/ Accused \/ Doomed)'
    <2>1. \/ AtSetupTunnel(timed)' \/ Doomed' \/ Accused'
          \/ /\ todo' = <<>> /\ ret' = 0 /\ tunnel'
             /\ Here(Nothing, Nothing, Both(On), "open")'
      BY <1>10, SetupStep
    <2>2. CASE AtSetupTunnel(timed)'
      BY <1>1, <1>10, <2>2 DEF OnTrack
    <2>3. CASE /\ todo' = <<>> /\ ret' = 0 /\ tunnel'
               /\ Here(Nothing, Nothing, Both(On), "open")'
      BY <1>3, <1>9, <1>10, <2>3
    <2> QED
      BY <2>1, <2>2, <2>3
  <1>11. ASSUME last.name = "enable_tunnel", tunnel, AtEnableTunnel(<<>>)
         PROVE  (OnTrack \/ Accused \/ Doomed)'
    <2>1. AtEnableTunnel(k)
      BY <1>3, <1>11
    <2>2. /\ UNCHANGED <<tunnel, last>>
          /\ \/ AtEnableTunnel(k)'
             \/ todo' = k /\ ret' = 0 /\ Here(Nothing, Nothing, Both(On), "open")'
             \/ Lost(k)'
      BY <1>4, <2>1, EnableTunnelStep
    <2>3. tunnel'
      BY <1>11, <2>2
    <2>4. CASE AtEnableTunnel(k)'
      BY <1>1, <1>3, <1>11, <2>3, <2>4 DEF OnTrack
    <2>5. CASE todo' = k /\ ret' = 0 /\ Here(Nothing, Nothing, Both(On), "open")'
      BY <1>9, <1>11, <2>3, <2>5
    <2> QED
      BY <1>6, <2>2, <2>4, <2>5
  <1>12. ASSUME last.name = "disable_tunnel", AtDisableTunnel(<<>>)
         PROVE  (OnTrack \/ Accused \/ Doomed)'
    <2>1. AtDisableTunnel(k)
      BY <1>3, <1>12
    <2>2. \/ AtDisableTunnel(k)'
          \/ todo' = k /\ ret' = 0 /\ Here(Nothing, Nothing, Both(Off), "open")'
          \/ Accused'
      BY <1>4, <2>1, DisableTunnelStep
    <2>3. CASE AtDisableTunnel(k)'
      BY <1>1, <1>3, <1>12, <2>3 DEF OnTrack
    <2>4. CASE todo' = k /\ ret' = 0 /\ Here(Nothing, Nothing, Both(Off), "open")'
      <3>1. PICK K : K = Both(Off)
        OBVIOUS
      <3>2. Outcome \subseteq K
        BY <1>12, <3>1, Outcomes
      <3> QED
        BY <1>8, <1>12, <2>4, <3>1, <3>2
    <2> QED
      BY <2>2, <2>3, <2>4
  <1>13. ASSUME last.name = "state_transition", last.s \in States, AtTransition(last.s)
         PROVE  (OnTrack \/ Accused \/ Doomed)'
    <2>1. PICK t : t = last.s
      OBVIOUS
    <2>2. \/ AtTransition(t)'
          \/ todo' = <<>> /\ ret' = 0 /\ Here(Nothing, Nothing, Both(ToState(t)), "open")'
          \/ Accused'
      BY <1>13, <2>1, TransitionStep
    <2>3. CASE AtTransition(t)'
      <3>1. last'.s = t
        BY <1>1, <2>1
      <3> QED
        BY <1>1, <1>13, <2>1, <2>3, <3>1 DEF OnTrack
    <2>4. CASE todo' = <<>> /\ ret' = 0 /\ Here(Nothing, Nothing, Both(ToState(t)), "open")'
      <3>1. PICK K : K = Both(ToState(t))
        OBVIOUS
      <3>2. Outcome \subseteq K
        BY <1>13, <2>1, <3>1, Outcomes
      <3> QED
        BY <1>3, <1>8, <1>13, <2>4, <3>1, <3>2
    <2> QED
      BY <2>2, <2>3, <2>4
  <1>14. ASSUME last.name = "change_component_state", last.c \in Comps, last.s \in States,
                AtChange(last.c, last.s, <<>>)
         PROVE  (OnTrack \/ Accused \/ Doomed)'
    <2>1. PICK c, t : c = last.c /\ t = last.s
      OBVIOUS
    <2>2. AtChange(c, t, k)
      BY <1>3, <1>14, <2>1
    <2>3. \/ AtChange(c, t, k)'
          \/ todo' = k /\ ret' = 0 /\ Here(Nothing, Nothing, {<<c, ToState(t)>>}, "open")'
          \/ Lost(k)'
      BY <1>4, <1>14, <2>1, <2>2, ChangeStep
    <2>4. CASE AtChange(c, t, k)'
      <3>1. last'.c = c /\ last'.s = t
        BY <1>1, <2>1
      <3> QED
        BY <1>1, <1>3, <1>14, <2>1, <2>4, <3>1 DEF OnTrack
    <2>5. CASE todo' = k /\ ret' = 0 /\ Here(Nothing, Nothing, {<<c, ToState(t)>>}, "open")'
      <3>1. PICK K : K = {<<c, ToState(t)>>}
        OBVIOUS
      <3>2. Outcome \subseteq K
        BY <1>14, <2>1, <3>1, Outcomes
      <3> QED
        BY <1>8, <1>14, <2>5, <3>1, <3>2
    <2> QED
      BY <1>6, <2>3, <2>4, <2>5
  <1>15. ASSUME last.name \in {"teardown_tunnels", "flush_tunnels", "disable_port", "enable_port",
                               "return_events", "wait_for_event"},
                todo' = <<>>, ret' = 0, Here(Nothing, Nothing, {}, "open")'
         PROVE  (OnTrack \/ Accused \/ Doomed)'
    <2>1. PICK K : K = {}
      OBVIOUS
    <2>2. Outcome \subseteq K
      BY <1>15, <2>1, Outcomes
    <2> QED
      BY <1>3, <1>8, <1>15, <2>1, <2>2
  <1>16. ASSUME last.name = "teardown_tunnels", AtTeardown
         PROVE  (OnTrack \/ Accused \/ Doomed)'
    <2>1. AtTeardown' \/ (todo' = <<>> /\ ret' = 0 /\ Here(Nothing, Nothing, {}, "open")')
      BY <1>16, TeardownStep
    <2>2. CASE AtTeardown'
      BY <1>1, <1>16, <2>2 DEF OnTrack
    <2> QED
      BY <1>15, <1>16, <2>1, <2>2
  <1>17. ASSUME last.name = "flush_tunnels", AtFlush
         PROVE  (OnTrack \/ Accused \/ Doomed)'
    <2>1. AtFlush' \/ (todo' = <<>> /\ ret' = 0 /\ Here(Nothing, Nothing, {}, "open")')
      BY <1>17, FlushStep
    <2>2. CASE AtFlush'
      BY <1>1, <1>17, <2>2 DEF OnTrack
    <2> QED
      BY <1>15, <1>17, <2>1, <2>2
  <1>18. ASSUME NEW c \in Comps,
                \/ last.name = "disable_port" /\ AtPort(c, Off, "disable")
                \/ last.name = "enable_port" /\ AtPort(c, On, "enable")
         PROVE  (OnTrack \/ Accused \/ Doomed)'
    <2>1. PICK o, w : /\ last.name = "disable_port" => o = Off /\ w = "disable"
                      /\ last.name # "disable_port" => o = On /\ w = "enable"
      OBVIOUS
    <2>2. o \in {On, Off} /\ AtPort(c, o, w)
      BY <1>18, <2>1
    <2>3. \/ AtPort(c, o, w)'
          \/ todo' = <<>> /\ ret' = 0 /\ Here(Nothing, Nothing, {}, "open")'
          \/ Accused'
      BY <2>2, PortStep
    <2>4. CASE AtPort(c, o, w)'
      BY <1>1, <1>18, <2>1, <2>4 DEF OnTrack
    <2> QED
      BY <1>15, <1>18, <2>3, <2>4
  <1>19. ASSUME last.name \in {"return_events", "wait_for_event"}, AtLook,
                Here(Nothing, Nothing, {}, "open")
         PROVE  (OnTrack \/ Accused \/ Doomed)'
    <2>1. Here(Nothing, Nothing, {}, "open")' /\ (AtLook' \/ todo' = <<>>)
      BY <1>19, LookStep
    <2>2. CASE AtLook'
      BY <1>1, <1>19, <2>1, <2>2 DEF OnTrack
    <2>3. CASE todo' = <<>> /\ ret' # 0
      BY <1>3, <1>4, <2>3 DEF Doomed
    <2> QED
      BY <1>15, <1>19, <2>1, <2>2, <2>3
  <1>20. CASE OnTrack
    BY <1>1, <1>10, <1>11, <1>12, <1>13, <1>14, <1>16, <1>17, <1>18, <1>19, <1>20
       DEF OnTrack, AtRest
  <1> QED
    BY <1>2, <1>5, <1>20 DEF OnWay

\* The programs of the operations start where the operations start.
LEMMA Beginnings ==
    ASSUME Here(Nothing, Nothing, {}, "open")', ret' = 0
    PROVE  /\ \A timed \in BOOLEAN : todo' = SetupTunnel(timed) => AtSetupTunnel(timed)'
           /\ todo' = EnableTunnel => AtEnableTunnel(<<>>)'
           /\ todo' = DisableTunnel => AtDisableTunnel(<<>>)'
           /\ todo' = TeardownTunnels => AtTeardown'
           /\ todo' = FlushTunnels => AtFlush'
           /\ \A c \in Comps, t \in States :
                 todo' = ChangeState(c, t) /\ ~ tunnel' => AtChange(c, t, <<>>)'
           /\ \A c : todo' = DisablePort(c) /\ ~ tunnel' => AtPort(c, Off, "disable")'
           /\ \A c : todo' = EnablePort(c) => AtPort(c, On, "enable")'
           /\ \A c \in Comps : todo' = <<ReturnEvents(c)>> => AtLook'
           /\ todo' = <<WaitEvent(Source, "PortSettingsChanged", "port",
                                  {"PARAMETER_CHANGED", "CONFIG_CHANGED", "EVENT_ERROR"}, TRUE)>>
                 => AtLook'
  <1>1. PICK k : k = <<>>
    OBVIOUS
  <1>2. IsList(k) /\ \A r : IsList(r) => r \o k = r
    BY <1>1, Lists
  <1>3. ASSUME NEW timed \in BOOLEAN, todo' = SetupTunnel(timed)
        PROVE  AtSetupTunnel(timed)'
    <2>1. SetupTunnel(timed) = <<SetupStart(timed)>>
      BY DEF SetupTunnel, SetupStart, SetupSettings, SetupIdleEnd, SettingsWait, SettingsEnd,
             Streams, ConnectEnd, SetupEnd, NotConnected
    <2> QED
      BY <1>3, <2>1 DEF AtSetupTunnel
  <1>4. ASSUME todo' = EnableTunnel
        PROVE  AtEnableTunnel(<<>>)'
    <2>1. EnableTunnel \o k = EnableTunnel
      BY <1>2, EnableTunnelIsProgram, ProgramIsList
    <2>2. AtEnableTunnel(k)'
      BY <1>2, <1>4, <2>1, FirstPoints
    <2> QED
      BY <1>1, <2>2
  <1>5. ASSUME todo' = DisableTunnel
        PROVE  AtDisableTunnel(<<>>)'
    <2>1. DisableTunnel \o k = DisableTunnel
      BY <1>2, DisableTunnelIsProgram, ProgramIsList
    <2>2. AtDisableTunnel(k)'
      BY <1>2, <1>5, <2>1, FirstPoints
    <2> QED
      BY <1>1, <2>2
  <1>6. todo' = TeardownTunnels => AtTeardown'
    BY DEF TeardownTunnels, AtTeardown, NotConnected
  <1>7. todo' = FlushTunnels => AtFlush'
    <2>1. PICK x, y, z, u :
             /\ x = Send(Source, "Flush", "port") /\ y = Send(Sink, "Flush", "port")
             /\ z = WaitEvent(Source, "CmdComplete", "Flush", {"PORT_FLUSH"}, FALSE)
             /\ u = WaitEvent(Sink, "CmdComplete", "Flush", {"PORT_FLUSH"}, FALSE)
      OBVIOUS
    <2>2. <<x, y, z, u>> = Then(x, Then(y, Then(z, <<u>>)))
      <3>1. <<x, y, z, u>> = Then(x, Then(y, Then(z, Then(u, <<>>))))
        BY ShortLists
      <3>2. <<u>> = Then(u, <<>>)
        BY ShortLists
      <3> QED
        BY <3>1, <3>2
    <2> QED
      BY <2>1, <2>2 DEF FlushTunnels, AtFlush
  <1>8. ASSUME NEW c \in Comps, NEW t \in States, todo' = ChangeState(c, t), ~ tunnel'
        PROVE  AtChange(c, t, <<>>)'
    <2>1. ChangeState(c, t) \o k = ChangeState(c, t)
      BY <1>2, PortPrograms, ProgramIsList
    <2>2. AtChange(c, t, k)'
      BY <1>2, <1>8, <2>1, FirstPoints
    <2> QED
      BY <1>1, <2>2
  <1>9. ASSUME NEW c, NEW o \in {On, Off}, NEW w,
               todo' = <<Send(c, o[1], "port"), Wait(c, o[1], "port"), Check(w)>>,
               o = Off => ~ tunnel'
        PROVE  AtPort(c, o, w)'
    <2>1. PICK x, y, z : x = Send(c, o[1], "port") /\ y = Wait(c, o[1], "port") /\ z = Check(w)
      OBVIOUS
    <2>2. <<x, y, z>> = Then(x, Then(y, <<z>>))
      <3>1. <<x, y, z>> = Then(x, Then(y, Then(z, <<>>)))
        BY ShortLists
      <3>2. <<z>> = Then(z, <<>>)
        BY ShortLists
      <3> QED
        BY <3>1, <3>2
    <2> QED
      BY <1>9, <2>1, <2>2 DEF AtPort
  <1>10. ASSUME NEW c, todo' = DisablePort(c), ~ tunnel'
         PROVE  AtPort(c, Off, "disable")'
    <2>1. PICK o, w : o = Off /\ w = "disable"
      OBVIOUS
    <2>2. todo' = <<Send(c, o[1], "port"), Wait(c, o[1], "port"), Check(w)>> /\ o \in {On, Off}
      BY <1>10, <2>1 DEF DisablePort, Off
    <2>3. AtPort(c, o, w)'
      BY <1>9, <1>10, <2>2
    <2> QED
      BY <2>1, <2>3
  <1>11. ASSUME NEW c, todo' = EnablePort(c)
         PROVE  AtPort(c, On, "enable")'
    <2>1. PICK o, w : o = On /\ w = "enable"
      OBVIOUS
    <2>2. /\ todo' = <<Send(c, o[1], "port"), Wait(c, o[1], "port"), Check(w)>>
          /\ o \in {On, Off} /\ o # Off
      BY <1>11, <2>1 DEF EnablePort, On, Off
    <2>3. AtPort(c, o, w)'
      BY <1>9, <2>2
    <2> QED
      BY <2>1, <2>3
  <1>12. /\ \A c \in Comps : todo' = <<ReturnEvents(c)>> => AtLook'
         /\ todo' = <<WaitEvent(Source, "PortSettingsChanged", "port",
                                {"PARAMETER_CHANGED", "CONFIG_CHANGED", "EVENT_ERROR"}, TRUE)>>
               => AtLook'
    BY DEF AtLook
  <1> QED
    BY <1>3, <1>4, <1>5, <1>6, <1>7, <1>8, <1>10, <1>11, <1>12

\* So does that of ilclient_state_transition.
LEMMA TransitionBegins ==
    ASSUME NEW t \in States, Here(Nothing, Nothing, {}, "open")', todo' = StateTransition(t)
    PROVE  AtTransition(t)'
  <1> DEFINE o == ToState(t)
             unmask == IF t = "Loaded" THEN <<Mask(Source, FALSE), Mask(Sink, FALSE)>> ELSE <<>>
             masks == IF t = "Loaded" THEN <<Mask(Source, TRUE), Mask(Sink, TRUE)>> ELSE <<>>
             await == Awaiting(o, "state", unmask)
             tell(c) == <<ClearError(c), Send(c, "StateSet", t)>>
             P == {tell(Source) \o tell(Sink), tell(Sink) \o tell(Source)}
             waits == <<Wait(Source, "StateSet", t), Check("state"),
                        Wait(Sink, "StateSet", t), Check("state")>>
             choose == Then(Choose(P), await)
  <1>1. StateTransition(t) = masks \o <<Choose(P)>> \o waits \o unmask
    BY DEF StateTransition
  <1>2. IsList(unmask) /\ IsList(masks)
    BY StepsAreLists, Lists
  <1>3. IsList(waits) /\ waits \o unmask = await
    <2>1. PICK x, y, z : /\ x = Wait(Source, "StateSet", t) /\ y = Check("state")
                         /\ z = Wait(Sink, "StateSet", t)
      OBVIOUS
    <2>2. o[1] = "StateSet" /\ o[2] = t
      BY DEF ToState
    <2> HIDE DEF unmask, o
    <2>3. <<x, y, z, y>> \o unmask = Then(x, Then(y, Then(z, Then(y, unmask))))
          /\ IsList(<<x, y, z, y>>)
      BY <1>2, ShortConcats
    <2> QED
      BY <2>1, <2>2, <2>3 DEF Awaiting
  <1>4. masks \o <<Choose(P)>> \o waits \o unmask = masks \o choose /\ IsList(choose)
    <2>1. PICK x : x = <<Choose(P)>>
      OBVIOUS
    <2>2. IsList(x)
      BY <2>1, StepsAreLists
    <2> HIDE DEF masks, unmask, waits, await, P
    <2>3. IsList(masks \o x)
      BY <1>2, <2>2, Lists
    <2>4. (masks \o x) \o waits \o unmask = (masks \o x) \o (waits \o unmask)
      <3>1. PICK y : y = masks \o x
        OBVIOUS
      <3>2. IsList(y) /\ IsList(waits) /\ IsList(unmask)
        BY <1>2, <1>3, <2>3, <3>1
      <3>3. (y \o waits) \o unmask = y \o (waits \o unmask)
        BY <3>2, ListsConcat
      <3> QED
        BY <3>1, <3>3
    <2>5. IsList(await)
      BY <1>2, <1>3, Lists
    <2>6. (masks \o x) \o await = masks \o (x \o await)
      BY <1>2, <2>2, <2>5, ListsConcat
    <2>7. x \o await = choose /\ IsList(choose)
      BY <2>1, <2>2, <2>5, Lists DEF Then
    <2> QED
      BY <1>3, <2>1, <2>4, <2>6, <2>7
  <1>5. todo' = masks \o choose
    BY <1>1, <1>4
  <1>6. CASE t = "Loaded"
    <2>1. masks \o choose = Then(Mask(Source, TRUE), Then(Mask(Sink, TRUE), choose))
      <3>1. PICK x, y : x = Mask(Source, TRUE) /\ y = Mask(Sink, TRUE)
        OBVIOUS
      <3>2. masks = <<x, y>>
        BY <1>6, <3>1
      <3> HIDE DEF choose, masks, o, unmask, await, tell, P, waits
      <3>3. IsList(choose)
        BY <1>4
      <3>4. <<x, y>> \o choose = Then(x, Then(y, choose))
        BY <3>3, PairsConcat
      <3> QED
        BY <3>1, <3>2, <3>4
    <2>2. AtMasking(choose)'
      <3> HIDE DEF choose, masks
      <3> QED
        BY <1>5, <2>1 DEF AtMasking
    <2> QED
      BY <1>6, <2>2 DEF AtTransition
  <1>7. CASE t # "Loaded"
    <2>1. todo' = choose
      <3>1. masks = <<>>
        BY <1>7
      <3> HIDE DEF choose, masks
      <3> QED
        BY <1>4, <1>5, <3>1, Lists
    <2> QED
      BY <1>7, <2>1 DEF AtTransition
  <1> QED
    BY <1>6, <1>7

\* An operation starts when the one before has done what it was to do.
LEMMA StartsFromRest ==
    ASSUME Retry = FALSE, OnWay, NEW op, NEW program, Start(op, program)
    PROVE  /\ todo' = program /\ ret' = 0 /\ last' = op
           /\ UNCHANGED Theirs /\ Here(Nothing, Nothing, {}, "open")'
  <1>1. /\ todo = <<>> /\ asserted = {} /\ ret = 0
        /\ todo' = program /\ ret' = 0 /\ last' = op
        /\ UNCHANGED Theirs
    BY DEF Start, Theirs, lib, comps
  <1>2. AtRest
    BY <1>1, IdleIsAtRest DEF OnWay
  <1>3. PICK a, b, K, L, m : a = Nothing /\ b = Nothing /\ K = Outcome /\ L = {} /\ m = "open"
    OBVIOUS
  <1>4. Here(a, b, K, m) /\ L \in SUBSET K
    BY <1>2, <1>3 DEF AtRest
  <1>5. Here(a, b, L, m)
    BY <1>4, HereLess
  <1>6. Here(Nothing, Nothing, {}, "open")
    BY <1>3, <1>5
  <1> QED
    BY <1>1, <1>6, HereSame

\* A client that ends with the first failure starts operations on their way.
LEMMA OperationsBegin ==
    ASSUME TypeOK, Retry = FALSE, OnWay, Operation
    PROVE  OnTrack' /\ UNCHANGED Theirs
  <1>1. \A op, program : Start(op, program) =>
           /\ todo' = program /\ ret' = 0 /\ last' = op
           /\ UNCHANGED Theirs /\ Here(Nothing, Nothing, {}, "open")'
    BY StartsFromRest
  <1> DEFINE Started(name, c, s) == last'.name = name /\ last'.c = c /\ last'.s = s
  <1>2. ASSUME NEW name, NEW c, NEW s, NEW program, Start(Op(name, c, s), program)
         PROVE  Started(name, c, s)
    <2>1. last' = Op(name, c, s)
      BY <1>1, <1>2
    <2> QED
      BY <2>1 DEF Op
  <1>3. UNCHANGED Theirs => tunnel' = tunnel
    BY DEF Theirs
  <1>4. \A c \in Comps : Next2[state[c]] \subseteq States
    BY DEF TypeOK, States, Next2
  <1>5. Source \in Comps
    BY DEF Comps
  <1>6. ASSUME NEW timed \in BOOLEAN, Start(Op("setup_tunnel", NoComp, ""), SetupTunnel(timed))
        PROVE  OnTrack' /\ UNCHANGED Theirs
    <2>1. last'.name = "setup_tunnel"
      BY <1>2, <1>6
    <2>2. AtSetupTunnel(timed)'
      BY <1>1, <1>6, Beginnings
    <2> QED
      BY <1>1, <1>6, <2>1, <2>2 DEF OnTrack
  <1>7. ASSUME tunnel, Start(Op("enable_tunnel", NoComp, ""), EnableTunnel)
        PROVE  OnTrack' /\ UNCHANGED Theirs
    <2>1. last'.name = "enable_tunnel"
      BY <1>2, <1>7
    <2>2. AtEnableTunnel(<<>>)'
      BY <1>1, <1>7, Beginnings
    <2>3. tunnel' = tunnel
      BY <1>1, <1>3, <1>7
    <2>4. tunnel'
      BY <1>7, <2>3
    <2> QED
      BY <1>1, <1>7, <2>1, <2>2, <2>4 DEF OnTrack
  <1>8. ASSUME Start(Op("disable_tunnel", NoComp, ""), DisableTunnel)
        PROVE  OnTrack' /\ UNCHANGED Theirs
    <2>1. last'.name = "disable_tunnel"
      BY <1>2, <1>8
    <2>2. AtDisableTunnel(<<>>)'
      BY <1>1, <1>8, Beginnings
    <2> QED
      BY <1>1, <1>8, <2>1, <2>2 DEF OnTrack
  <1>9. ASSUME Start(Op("teardown_tunnels", NoComp, ""), TeardownTunnels)
        PROVE  OnTrack' /\ UNCHANGED Theirs
    <2>1. last'.name = "teardown_tunnels"
      BY <1>2, <1>9
    <2>2. AtTeardown'
      BY <1>1, <1>9, Beginnings
    <2> QED
      BY <1>1, <1>9, <2>1, <2>2 DEF OnTrack
  <1>10. ASSUME Start(Op("flush_tunnels", NoComp, ""), FlushTunnels)
        PROVE  OnTrack' /\ UNCHANGED Theirs
    <2>1. last'.name = "flush_tunnels"
      BY <1>2, <1>10
    <2>2. AtFlush'
      BY <1>1, <1>10, Beginnings
    <2> QED
      BY <1>1, <1>10, <2>1, <2>2 DEF OnTrack
  <1>11. ASSUME NEW s \in States, Start(Op("state_transition", NoComp, s), StateTransition(s))
         PROVE  OnTrack' /\ UNCHANGED Theirs
    <2>1. last'.name = "state_transition" /\ last'.s = s
      BY <1>2, <1>11
    <2>2. AtTransition(s)'
      BY <1>1, <1>11, TransitionBegins
    <2> QED
      BY <1>1, <1>11, <2>1, <2>2 DEF OnTrack
  <1>12. ASSUME NEW c \in Comps, ~ tunnel, NEW s \in Next2[state[c]],
                Start(Op("change_component_state", c, s), ChangeState(c, s))
         PROVE  OnTrack' /\ UNCHANGED Theirs
    <2>1. last'.name = "change_component_state" /\ last'.c = c /\ last'.s = s
      BY <1>2, <1>12
    <2>2. tunnel' = tunnel
      BY <1>1, <1>3, <1>12
    <2>3. s \in States
      BY <1>4
    <2>4. ~ tunnel'
      BY <1>12, <2>2
    <2>5. AtChange(c, s, <<>>)'
      BY <1>1, <1>12, <2>3, <2>4, Beginnings
    <2> QED
      BY <1>1, <1>12, <2>1, <2>3, <2>5 DEF OnTrack
  <1>13. ASSUME NEW c \in Comps,
                \/ ~ tunnel /\ Start(Op("disable_port", c, ""), DisablePort(c))
                \/ Start(Op("enable_port", c, ""), EnablePort(c))
         PROVE  OnTrack' /\ UNCHANGED Theirs
    <2>1. CASE ~ tunnel /\ Start(Op("disable_port", c, ""), DisablePort(c))
      <3>1. last'.name = "disable_port"
        BY <1>2, <2>1
      <3>2. tunnel' = tunnel
        BY <1>1, <1>3, <2>1
      <3>3. ~ tunnel'
        BY <2>1, <3>2
      <3>4. AtPort(c, Off, "disable")'
        BY <1>1, <2>1, <3>3, Beginnings
      <3> QED
        BY <1>1, <2>1, <3>1, <3>4 DEF OnTrack
    <2>2. CASE Start(Op("enable_port", c, ""), EnablePort(c))
      <3>1. last'.name = "enable_port"
        BY <1>2, <2>2
      <3>2. AtPort(c, On, "enable")'
        BY <1>1, <2>2, Beginnings
      <3> QED
        BY <1>1, <2>2, <3>1, <3>2 DEF OnTrack
    <2> QED
      BY <1>13, <2>1, <2>2
  <1>14. ASSUME NEW c \in Comps, Start(Op("return_events", c, ""), <<ReturnEvents(c)>>)
         PROVE  OnTrack' /\ UNCHANGED Theirs
    <2>1. last'.name = "return_events"
      BY <1>2, <1>14
    <2>2. AtLook' /\ Here(Nothing, Nothing, {}, "open")'
      <3>1. todo' = <<ReturnEvents(c)>> /\ ret' = 0 /\ Here(Nothing, Nothing, {}, "open")'
        BY <1>1, <1>14
      <3> QED
        BY <3>1, Beginnings
    <2> QED
      BY <1>1, <1>14, <2>1, <2>2 DEF OnTrack
  <1>15. ASSUME Start(Op("wait_for_event", NoComp, ""),
                      <<WaitEvent(Source, "PortSettingsChanged", "port",
                         {"PARAMETER_CHANGED", "CONFIG_CHANGED", "EVENT_ERROR"}, TRUE)>>)
         PROVE  OnTrack' /\ UNCHANGED Theirs
    <2>1. last'.name = "wait_for_event"
      BY <1>2, <1>15
    <2>2. AtLook' /\ Here(Nothing, Nothing, {}, "open")'
      <3>1. /\ todo' = <<WaitEvent(Source, "PortSettingsChanged", "port",
                                {"PARAMETER_CHANGED", "CONFIG_CHANGED", "EVENT_ERROR"}, TRUE)>>
            /\ ret' = 0 /\ Here(Nothing, Nothing, {}, "open")'
        BY <1>1, <1>15
      <3> QED
        BY <3>1, Beginnings
    <2> QED
      BY <1>1, <1>15, <2>1, <2>2 DEF OnTrack
  <1> QED
    BY <1>6, <1>7, <1>8, <1>9, <1>10, <1>11, <1>12, <1>13, <1>14, <1>15 DEF Operation

\* At first nothing is owed, and nothing known.
LEMMA FirstAtRest ==
    ASSUME Init
    PROVE  FreedAreUp /\ OnWay
  <1>1. freed = {} /\ enabled \in [Comps -> BOOLEAN]
    BY DEF Init
  <1>2. todo = <<>> /\ ret = 0 /\ last.name = "none"
    BY DEF Init, Op
  <1>3. ASSUME NEW c \in Comps
        PROVE  Owes(c, Nothing)
    <2>1. pending[c] = <<>> /\ list[c] \in {<<>>, <<Settings, Settings>>}
      BY <1>3 DEF Init
    <2>2. ~ IsAnswer(Settings)
      BY DEF IsAnswer, IsFailure, Settings, Event
    <2>3. \A i \in 1 .. Len(list[c]) : ~ IsAnswer(list[c][i])
      BY <2>1, <2>2
    <2> QED
      BY <2>1, <2>3 DEF Owes, Lone
  <1>4. Nothing \notin Tearing
    BY DEF Nothing, Tearing, Off, ToState
  <1>5. Here(Nothing, Nothing, {}, "open")
    BY <1>1, <1>3, <1>4 DEF Here, Comps
  <1>6. Outcome = {}
    BY <1>2, Outcomes
  <1>7. AtRest
    BY <1>2, <1>5, <1>6 DEF AtRest
  <1> QED
    BY <1>1, <1>7 DEF FreedAreUp, OnWay, OnTrack

\* The states and ports of the components are not for the client to change.
LEMMA ClientLeavesStates ==
    ASSUME ClientStep
    PROVE  UNCHANGED <<state, enabled, freed>>
  <1>1. CASE \/ WaitBegins \/ WaitScans \/ WaitWakes \/ WaitEnds
    BY <1>1 DEF WaitBegins, WaitScans, WaitWakes, WaitEnds, comps
  <1>2. CASE \/ EventLooked \/ EventErrors \/ EventConfigs \/ EventLast \/ EventWakes
             \/ EventTimesOut
    BY <1>2 DEF EventLooked, EventErrors, EventConfigs, EventLast, EventWakes, EventTimesOut, comps
  <1>3. CASE \/ RemoveErrors \/ ReturnAll \/ SendCommand \/ ClearErrorFlag \/ SetMask
             \/ ConnectPorts \/ DisconnectPort
    BY <1>3 DEF RemoveErrors, ReturnAll, SendCommand, ClearErrorFlag, SetMask, ConnectPorts,
                DisconnectPort, comps
  <1>4. CASE Control
    BY <1>4 DEF Control, comps
  <1> QED
    BY <1>1, <1>2, <1>3, <1>4 DEF ClientStep

\* The invariant of a client that ends with the first failure.
LEMMA OnWayKept ==
    ASSUME Retry = FALSE, SInv, [Next]_vars
    PROVE  SInv'
  <1>1. IInv'
    BY NextKeeps DEF SInv
  <1>2. TypeOK /\ FreedAreUp /\ OnWay
    BY DEF SInv, IInv
  <1>3. UNCHANGED <<state, enabled, freed>> => FreedAreUp'
    BY <1>2 DEF FreedAreUp
  <1>4. CASE ClientStep
    BY <1>1, <1>2, <1>3, <1>4, ClientLeavesStates, ClientLeavesOnWay DEF SInv
  <1>5. CASE Operation
    <2>1. OnTrack' /\ UNCHANGED Theirs
      BY <1>2, <1>5, OperationsBegin
    <2> QED
      BY <1>1, <1>3, <2>1 DEF SInv, OnWay, Theirs
  <1>6. CASE \E c \in Comps : Answer(c) \/ Fail(c) \/ Unpopulated(c) \/ Report(c)
    BY <1>1, <1>2, <1>6, FreedKept, ComponentsLeaveOnWay DEF SInv
  <1>7. CASE UNCHANGED vars
    <2>1. /\ UNCHANGED Theirs /\ UNCHANGED <<todo, at, ret, last, tunnel, mask, asserted>>
          /\ UNCHANGED <<state, enabled, freed>>
      BY <1>7 DEF vars, lib, client, comps, Theirs
    <2>2. Carried
      BY <2>1, HereSame DEF Carried
    <2>3. OnWay'
      BY <1>2, <2>1, <2>2, TrackCarried DEF OnWay
    <2> QED
      BY <1>1, <1>3, <2>1, <2>3 DEF SInv
  <1> QED
    BY <1>4, <1>5, <1>6, <1>7 DEF Next

\* At rest the last operation has had its effect.
LEMMA RestIsTrue ==
    ASSUME OnWay
    PROVE  SuccessIsTrue
  <1> SUFFICES ASSUME Idle, ret = 0
               PROVE  /\ last.name \in {"setup_tunnel", "enable_tunnel"} => tunnel /\ AllEnabled
                      /\ last.name = "disable_tunnel" => NoneEnabled
                      /\ last.name = "state_transition" => \A c \in Comps : state[c] = last.s
                      /\ last.name = "change_component_state" => state[last.c] = last.s
    BY DEF SuccessIsTrue
  <1>1. AtRest
    BY IdleIsAtRest DEF Idle, OnWay
  <1>2. \A x \in Outcome : Effect(x[1], x[2])
    BY <1>1 DEF AtRest, Here
  <1>3. \A k : Both(k) \subseteq Outcome => \A c \in Comps : Effect(c, k)
    BY <1>2 DEF Both, Comps
  <1>4. ASSUME last.name \in {"setup_tunnel", "enable_tunnel"}
        PROVE  tunnel /\ AllEnabled
    <2>1. \A c \in Comps : Effect(c, On)
      BY <1>3, <1>4, Outcomes
    <2>2. AllEnabled
      BY <2>1 DEF Effect, On, AllEnabled
    <2>3. tunnel
      BY <1>1, <1>4 DEF AtRest
    <2> QED
      BY <2>2, <2>3
  <1>5. ASSUME last.name = "disable_tunnel"
        PROVE  NoneEnabled
    <2>1. \A c \in Comps : Effect(c, Off)
      BY <1>3, <1>5, Outcomes
    <2> QED
      BY <2>1 DEF Effect, Off, NoneEnabled
  <1>6. ASSUME last.name = "state_transition"
        PROVE  \A c \in Comps : state[c] = last.s
    <2>1. \A c \in Comps : Effect(c, ToState(last.s))
      BY <1>3, <1>6, Outcomes
    <2> QED
      BY <2>1 DEF Effect, ToState
  <1>7. ASSUME last.name = "change_component_state"
        PROVE  state[last.c] = last.s
    <2>1. Effect(last.c, ToState(last.s))
      <3>1. PICK x : x = <<last.c, ToState(last.s)>>
        OBVIOUS
      <3>2. x \in Outcome /\ x[1] = last.c /\ x[2] = ToState(last.s)
        <4>1. Outcome = {<<last.c, ToState(last.s)>>}
          BY <1>7, Outcomes
        <4> QED
          BY <3>1, <4>1
      <3> QED
        BY <1>2, <3>2
    <2> QED
      BY <2>1 DEF Effect, ToState
  <1> QED
    BY <1>4, <1>5, <1>6, <1>7

\* When the client ends with the first operation that fails, an operation that returns
\* success has had its effect on both components, however many records, operations, failed
\* commands and reports there are: the completion it took was that of its own command
\* (ilclient.h:472-476, 651-653, 669-686; ilclient.c:1111-1162, 1179-1257).
THEOREM SuccessIsNoAccident ==
    ASSUME Retry = FALSE
    PROVE  Spec => []SuccessIsTrue
  <1>1. Init => SInv
    BY InitHolds, FirstAtRest DEF SInv
  <1>2. SInv /\ [Next]_vars => SInv'
    BY OnWayKept
  <1>3. SInv => SuccessIsTrue
    BY RestIsTrue DEF SInv
  <1> QED
    BY <1>1, <1>2, <1>3, PTL DEF Spec
=============================================================================
