-------------------------- MODULE IlBuffers_proofs --------------------------
(***************************************************************************)
(* Proofs about the buffers of IlBuffers, for any ports, buffer counts and *)
(* threads, whatever the client takes care of: a buffer is in one place, a *)
(* port's buffers are found in the order of their return, and no wakeup of *)
(* a thread that waits for one is lost.  The threads use ports of          *)
(* different directions (Apart): two that share a list do not keep these.  *)
(***************************************************************************)
EXTENDS IlBuffers, SequenceTheorems, FiniteSetTheorems, WellFoundedInduction, TLAPS

-----------------------------------------------------------------------------
(* Lists *)

\* The buffer at the place i of s, or the null pointer.
At(s, i) == IF i \in 1 .. Len(s) THEN s[i] ELSE Nil

\* The list that starts at x is s.
IsList(links, x, s) == /\ s \in Seq(Buffers)
                       /\ IsInjective(s)
                       /\ x = At(s, 1)
                       /\ \A i \in 1 .. Len(s) : links[s[i]] = At(s, i + 1)

\* There are finitely many buffers.
LEMMA BuffersFinite ==
    /\ IsFiniteSet(Buffers) /\ Cardinality(Buffers) \in Nat
    /\ \A b \in Buffers : Port(b) \in Ports /\ Dir[Port(b)] \in Dirs /\ b # Nil
  <1> DEFINE F(p) == {p} \X (1 .. Count[p])
             S == {F(p) : p \in Ports}
             f == [p \in Ports |-> F(p)]
  <1>1. IsFiniteSet(S)
    <2>1. f \in Surjection(Ports, S)
      BY DEF Surjection
    <2> HIDE DEF f, S
    <2> QED
      BY <2>1, FS_Surjection, PortsAssumption
  <1>2. \A p \in Ports : IsFiniteSet(F(p))
    <2> SUFFICES ASSUME NEW p \in Ports PROVE IsFiniteSet(F(p))
      OBVIOUS
    <2>1. Count[p] \in Int /\ 1 \in Int
      BY PortsAssumption
    <2>2. IsFiniteSet({p}) /\ IsFiniteSet(1 .. Count[p])
      BY <2>1, FS_Singleton, FS_Interval
    <2> QED
      BY <2>2, FS_Product
  <1>3. \A T \in S : IsFiniteSet(T)
    BY <1>2
  <1>4. Buffers = UNION S
    BY DEF Buffers
  <1> HIDE DEF S
  <1>5. IsFiniteSet(Buffers)
    BY <1>1, <1>3, <1>4, FS_UNION
  <1>6. \A b \in Buffers : Port(b) \in Ports
    BY DEF Buffers, Port
  <1> QED
    BY <1>5, <1>6, FS_CardinalityType, PortsAssumption

\* No number is the first for which something fails.
LEMMA NoFirst ==
    ASSUME NEW bad \in SUBSET Nat,
           \A n \in bad : n # 0 /\ n - 1 \in bad
    PROVE  bad = {}
  <1> SUFFICES ASSUME bad # {} PROVE FALSE
    OBVIOUS
  <1>1. PICK x \in bad : \A y \in bad : ~ (<<y, x>> \in OpToRel(<, Nat))
    BY NatLessThanWellFounded, WFMin
  <1>2. x \in Nat /\ x - 1 \in bad /\ x - 1 \in Nat /\ x - 1 < x
    OBVIOUS
  <1> QED
    BY <1>1, <1>2 DEF OpToRel

\* Different buffers in a list are not more than there are.
LEMMA ListIsShort ==
    ASSUME NEW s \in Seq(Buffers), IsInjective(s)
    PROVE  Len(s) \in Nat /\ Len(s) <= Cardinality(Buffers)
  <1>1. Len(s) \in Nat /\ s \in [1 .. Len(s) -> Buffers]
    BY LenProperties
  <1>2. s \in Injection(1 .. Len(s), Buffers)
    BY <1>1 DEF Injection
  <1>3. Cardinality(1 .. Len(s)) = Len(s)
    BY <1>1, FS_Interval
  <1> QED
    BY <1>1, <1>2, <1>3, FS_Injection, BuffersFinite

\* What Chain walks along is the list.
LEMMA ChainIsList ==
    ASSUME NEW links, NEW x, NEW s, IsList(links, x, s)
    PROVE  Chain(links, x) = s
  <1> DEFINE step(f) == [n \in Nat |-> IF n = 0 THEN x
                                       ELSE IF f[n - 1] = Nil THEN Nil ELSE links[f[n - 1]]]
             at == CHOOSE f : f = step(f)
             w == [n \in Nat |-> At(s, n + 1)]
             N == Cardinality(Buffers)
             long == {n \in 0 .. N : at[n] # Nil}
  <1>1. s \in Seq(Buffers) /\ Len(s) \in Nat /\ Len(s) <= N /\ N \in Nat
        /\ DOMAIN s = 1 .. Len(s) /\ \A i \in 1 .. Len(s) : s[i] \in Buffers /\ s[i] # Nil
    BY ListIsShort, BuffersFinite, LenProperties DEF IsList
  <1>2. w = step(w)
    <2>1. \A n \in Nat : w[n] = At(s, n + 1)
      OBVIOUS
    <2>2. ASSUME NEW n \in Nat
          PROVE  w[n] = IF n = 0 THEN x ELSE IF w[n - 1] = Nil THEN Nil ELSE links[w[n - 1]]
      <3>1. CASE n = 0
        BY <2>1, <3>1 DEF IsList
      <3>2. CASE n # 0
        <4>1. n - 1 \in Nat /\ w[n - 1] = At(s, n) /\ w[n] = At(s, n + 1)
          BY <2>1, <3>2
        <4>2. CASE n \in 1 .. Len(s)
          BY <4>1, <4>2, <1>1, <3>2 DEF IsList, At
        <4>3. CASE n \notin 1 .. Len(s)
          BY <4>1, <4>3, <1>1, <3>2 DEF At
        <4> QED
          BY <4>2, <4>3
      <3> QED
        BY <3>1, <3>2
    <2> QED
      BY <2>2
  <1>3. at = step(at)
    BY <1>2
  <1> HIDE DEF at
  <1>4. \A n \in Nat : at[n] = w[n]
    <2> DEFINE bad == {n \in Nat : at[n] # w[n]}
    <2>1. \A n \in Nat : /\ at[n] = IF n = 0 THEN x ELSE IF at[n - 1] = Nil THEN Nil
                                                         ELSE links[at[n - 1]]
                         /\ w[n] = IF n = 0 THEN x ELSE IF w[n - 1] = Nil THEN Nil
                                                        ELSE links[w[n - 1]]
      BY <1>2, <1>3
    <2> HIDE DEF w
    <2>2. \A n \in bad : n # 0 /\ n - 1 \in bad
      BY <2>1
    <2>3. bad = {}
      BY <2>2, NoFirst
    <2> QED
      BY <2>3
  <1>5. long = 0 .. Len(s) - 1
    BY <1>1, <1>4, SMTT(30) DEF At
  <1>6. Cardinality(long) = Len(s)
    <2> DEFINE n == Len(s)
    <2>1. n \in Nat
      BY <1>1
    <2> HIDE DEF long, n
    <2>2. Cardinality(0 .. n - 1) = IF 0 > n - 1 THEN 0 ELSE (n - 1) - 0 + 1
      BY <2>1, FS_Interval, n - 1 \in Int, 0 \in Int
    <2>3. Cardinality(0 .. n - 1) = n
      BY <2>1, <2>2
    <2> QED
      BY <1>5, <2>3 DEF n
  <1>7. Chain(links, x) = [i \in 1 .. Cardinality(long) |-> at[i - 1]]
    BY DEF Chain, at, long
  <1>8. [i \in 1 .. Len(s) |-> at[i - 1]] = s
    <2>1. \A i \in 1 .. Len(s) : at[i - 1] = s[i]
      BY <1>1, <1>4 DEF At
    <2>2. s = [i \in 1 .. Len(s) |-> s[i]]
      BY <1>1, LenProperties
    <2> QED
      BY <2>1, <2>2
  <1> QED
    BY <1>6, <1>7, <1>8

\* A list goes on as long as none of its links changes.
LEMMA SameLinks ==
    ASSUME NEW links, NEW x, NEW s, IsList(links, x, s),
           NEW new, \A b \in ToSet(s) : new[b] = links[b]
    PROVE  IsList(new, x, s)
  <1>1. \A i \in 1 .. Len(s) : s[i] \in ToSet(s)
    BY LenProperties DEF IsList, ToSet
  <1> QED
    BY <1>1 DEF IsList

\* A sequence without one of its elements.
LEMMA RemoveAtPlaces ==
    ASSUME NEW E, NEW s \in Seq(E), NEW i \in 1 .. Len(s)
    PROVE  /\ RemoveAt(s, i) \in Seq(E)
           /\ Len(s) \in Nat /\ Len(RemoveAt(s, i)) = Len(s) - 1
           /\ \A j \in 1 .. Len(s) - 1 :
                 RemoveAt(s, i)[j] = IF j < i THEN s[j] ELSE s[j + 1]
  <1> DEFINE n == Len(s)
             a == SubSeq(s, 1, i - 1)
             b == SubSeq(s, i + 1, n)
  <1>1. n \in Nat /\ i \in Int /\ 1 <= i /\ i <= n /\ \A j \in 1 .. n : s[j] \in E
    BY LenProperties, ElementOfSeq
  <1>2. \A j \in 1 .. i - 1 : s[j] \in E
    BY <1>1
  <1>3. \A j \in i + 1 .. n : s[j] \in E
    BY <1>1
  <1>4. /\ a \in Seq(E) /\ Len(a) = IF 1 <= i - 1 THEN i - 1 - 1 + 1 ELSE 0
        /\ \A j \in 1 .. i - 1 - 1 + 1 : a[j] = s[1 + j - 1]
    BY <1>1, <1>2, SubSeqProperties, i - 1 \in Int
  <1>5. /\ b \in Seq(E) /\ Len(b) = IF i + 1 <= n THEN n - (i + 1) + 1 ELSE 0
        /\ \A j \in 1 .. n - (i + 1) + 1 : b[j] = s[i + 1 + j - 1]
    BY <1>1, <1>3, SubSeqProperties, i + 1 \in Int
  <1>6. RemoveAt(s, i) = a \o b
    BY DEF RemoveAt
  <1>7. /\ a \o b \in Seq(E) /\ Len(a \o b) = Len(a) + Len(b)
        /\ \A j \in 1 .. Len(a) + Len(b) :
              (a \o b)[j] = IF j <= Len(a) THEN a[j] ELSE b[j - Len(a)]
    BY <1>4, <1>5, ConcatProperties
  <1> HIDE DEF a, b, n
  <1>8. Len(a) = i - 1 /\ Len(b) = n - i
    BY <1>1, <1>4, <1>5
  <1>9. \A j \in 1 .. n - 1 : (a \o b)[j] = IF j < i THEN s[j] ELSE s[j + 1]
    <2> SUFFICES ASSUME NEW j \in 1 .. n - 1
                 PROVE  (a \o b)[j] = IF j < i THEN s[j] ELSE s[j + 1]
      OBVIOUS
    <2>1. j \in 1 .. Len(a) + Len(b)
      BY <1>1, <1>8
    <2>2. CASE j < i
      BY <1>1, <1>4, <1>7, <1>8, <2>1, <2>2
    <2>3. CASE ~ (j < i)
      <3>1. j - Len(a) \in 1 .. n - (i + 1) + 1 /\ ~ (j <= Len(a))
        BY <1>1, <1>8, <2>3
      <3>2. i + 1 + (j - Len(a)) - 1 = j + 1
        BY <1>1, <1>8
      <3> QED
        BY <1>5, <1>7, <2>1, <2>3, <3>1, <3>2
    <2> QED
      BY <2>2, <2>3
  <1>10. Len(a) + Len(b) = n - 1
    BY <1>1, <1>8
  <1> QED
    BY <1>1, <1>6, <1>7, <1>9, <1>10 DEF n

\* If they are different, it has all but that one.
LEMMA RemoveAtElements ==
    ASSUME NEW E, NEW s \in Seq(E), IsInjective(s), NEW i \in 1 .. Len(s)
    PROVE  /\ IsInjective(RemoveAt(s, i))
           /\ ToSet(RemoveAt(s, i)) = ToSet(s) \ {s[i]}
  <1> DEFINE n == Len(s)
             r == RemoveAt(s, i)
  <1>1. /\ n \in Nat /\ DOMAIN s = 1 .. n /\ DOMAIN r = 1 .. n - 1
        /\ \A j \in 1 .. n - 1 : r[j] = IF j < i THEN s[j] ELSE s[j + 1]
    BY RemoveAtPlaces, LenProperties
  <1>2. i \in Int /\ 1 <= i /\ i <= n
    BY <1>1
  <1>3. \A j, k \in 1 .. n : s[j] = s[k] => j = k
    BY <1>1 DEF IsInjective
  <1> HIDE DEF n, r
  <1>4. IsInjective(r)
    <2> SUFFICES ASSUME NEW j \in 1 .. n - 1, NEW k \in 1 .. n - 1, r[j] = r[k]
                 PROVE  j = k
      BY <1>1 DEF IsInjective
    <2> QED
      BY <1>1, <1>2, <1>3
  <1>5. ASSUME NEW j \in 1 .. n - 1
        PROVE  r[j] \in ToSet(s) \ {s[i]}
    <2>1. j \in 1 .. n /\ j + 1 \in 1 .. n /\ i \in 1 .. n
      BY <1>1, <1>2
    <2> QED
      BY <1>1, <1>2, <1>3, <2>1 DEF ToSet
  <1>6. ASSUME NEW k \in 1 .. n, k # i
        PROVE  \E j \in 1 .. n - 1 : r[j] = s[k]
    <2>1. CASE k < i
      <3>1. k \in 1 .. n - 1
        BY <1>1, <1>2, <2>1
      <3> QED
        BY <1>1, <2>1, <3>1
    <2>2. CASE ~ (k < i)
      <3>1. k - 1 \in 1 .. n - 1 /\ ~ (k - 1 < i) /\ k - 1 + 1 = k
        BY <1>1, <1>2, <1>6, <2>2
      <3> QED
        BY <1>1, <3>1
    <2> QED
      BY <2>1, <2>2
  <1>7. /\ \A v : v \in ToSet(r) <=> \E j \in 1 .. n - 1 : v = r[j]
        /\ \A v : v \in ToSet(s) <=> \E j \in 1 .. n : v = s[j]
    BY <1>1 DEF ToSet
  <1>8. \A v : v \in ToSet(r) <=> v \in ToSet(s) \ {s[i]}
    BY <1>5, <1>6, <1>7
  <1> QED
    BY <1>4, <1>8 DEF r

\* What Unlink makes of a list: the buffer at the place i leaves it.
LEMMA Unlinked ==
    ASSUME NEW links \in [Buffers -> Buffers \cup {Nil}], NEW x, NEW s, IsList(links, x, s),
           NEW i \in 1 .. Len(s),
           NEW x2, NEW new,
           IF i = 1 THEN x2 = links[s[i]] /\ new = [links EXCEPT ![s[i]] = Nil]
                    ELSE x2 = x /\ new = [links EXCEPT ![s[i - 1]] = links[s[i]], ![s[i]] = Nil]
    PROVE  IsList(new, x2, RemoveAt(s, i))
  <1> DEFINE n == Len(s)
             r == RemoveAt(s, i)
  <1>1. /\ n \in Nat /\ s \in Seq(Buffers) /\ IsInjective(s)
        /\ i \in Int /\ 1 <= i /\ i <= n
        /\ DOMAIN s = 1 .. n
        /\ \A j \in 1 .. n : s[j] \in Buffers /\ s[j] # Nil
        /\ \A j, k \in 1 .. n : s[j] = s[k] => j = k
        /\ \A j \in 1 .. n : links[s[j]] = IF j < n THEN s[j + 1] ELSE Nil
        /\ x = s[1]
    BY LenProperties, BuffersFinite DEF IsList, At, IsInjective
  <1>2. /\ r \in Seq(Buffers) /\ Len(r) = n - 1 /\ IsInjective(r)
        /\ \A j \in 1 .. n - 1 : r[j] = IF j < i THEN s[j] ELSE s[j + 1]
    <2>1. s \in Seq(Buffers) /\ IsInjective(s)
      BY <1>1
    <2>2. IsInjective(r)
      BY <2>1, RemoveAtElements
    <2>3. /\ r \in Seq(Buffers) /\ Len(r) = n - 1
          /\ \A j \in 1 .. n - 1 : r[j] = IF j < i THEN s[j] ELSE s[j + 1]
      BY <2>1, RemoveAtPlaces
    <2> QED
      BY <2>2, <2>3
  <1> HIDE DEF n, r
  <1>3. x2 = At(r, 1)
    <2>1. CASE i = 1
      BY <1>1, <1>2, <2>1 DEF At
    <2>2. CASE i # 1
      <3>1. 1 \in 1 .. n - 1 /\ 1 < i
        BY <1>1, <2>2
      <3> QED
        BY <1>1, <1>2, <2>2, <3>1 DEF At
    <2> QED
      BY <2>1, <2>2
  <1>4. ASSUME NEW j \in 1 .. n - 1
        PROVE  new[r[j]] = At(r, j + 1)
    <2>1. j \in 1 .. n /\ j + 1 \in 1 .. n
      BY <1>1
    <2>2. At(r, j + 1) = IF j + 1 < n THEN r[j + 1] ELSE Nil
      BY <1>1, <1>2 DEF At
    <2>3. CASE j < i - 1
      <3>1. r[j] = s[j] /\ r[j + 1] = s[j + 1] /\ j + 1 < n
        BY <1>1, <1>2, <2>1, <2>3
      <3>2. i # 1 /\ i - 1 \in 1 .. n /\ i \in 1 .. n
        BY <1>1, <2>1, <2>3
      <3>3. s[j] # s[i - 1] /\ s[j] # s[i]
        BY <1>1, <2>1, <2>3, <3>2
      <3> QED
        BY <1>1, <2>1, <2>2, <3>1, <3>2, <3>3
    <2>4. CASE j = i - 1
      <3>1. r[j] = s[j] /\ i # 1 /\ i \in 1 .. n
        BY <1>1, <1>2, <2>1, <2>4
      <3>2. s[j] # s[i]
        BY <1>1, <2>1, <2>4, <3>1
      <3>3. new[r[j]] = links[s[i]]
        BY <1>1, <2>1, <2>4, <3>1, <3>2
      <3>4. j + 1 < n => r[j + 1] = s[i + 1]
        BY <1>1, <1>2, <2>1, <2>4
      <3>5. i = j + 1
        BY <1>1, <2>4
      <3> QED
        BY <1>1, <2>2, <3>1, <3>3, <3>4, <3>5
    <2>5. CASE i <= j
      <3>1. r[j] = s[j + 1] /\ (j + 1 < n => r[j + 1] = s[j + 2])
        BY <1>1, <1>2, <2>1, <2>5
      <3>2. s[j + 1] # s[i]
        BY <1>1, <2>1, <2>5
      <3>3. i # 1 => i - 1 \in 1 .. n /\ s[j + 1] # s[i - 1]
        BY <1>1, <2>1, <2>5
      <3>4. new[r[j]] = links[s[j + 1]]
        BY <1>1, <2>1, <3>1, <3>2, <3>3
      <3>5. j + 1 + 1 = j + 2
        BY <1>1
      <3> QED
        BY <1>1, <2>1, <2>2, <3>1, <3>4, <3>5
    <2> QED
      BY <1>1, <2>3, <2>4, <2>5
  <1>5. \A j \in 1 .. Len(r) : new[r[j]] = At(r, j + 1)
    BY <1>2, <1>4
  <1> QED
    BY <1>2, <1>3, <1>5 DEF IsList, r

\* What LinkLast makes of it: a buffer that was not in it is its last.
LEMMA Linked ==
    ASSUME NEW links \in [Buffers -> Buffers \cup {Nil}], NEW x, NEW s, IsList(links, x, s),
           NEW b \in Buffers \ ToSet(s),
           NEW x2, NEW new,
           IF s = <<>> THEN x2 = b /\ new = [links EXCEPT ![b] = Nil]
                       ELSE x2 = x /\ new = [links EXCEPT ![Last(s)] = b, ![b] = Nil]
    PROVE  IsList(new, x2, Append(s, b))
  <1> DEFINE n == Len(s)
             a == Append(s, b)
  <1>1. /\ n \in Nat /\ s \in Seq(Buffers) /\ (s = <<>> <=> n = 0)
        /\ DOMAIN s = 1 .. n
        /\ \A j \in 1 .. n : s[j] \in Buffers /\ s[j] # Nil /\ s[j] # b
        /\ \A j, k \in 1 .. n : s[j] = s[k] => j = k
        /\ \A j \in 1 .. n : links[s[j]] = IF j < n THEN s[j + 1] ELSE Nil
        /\ n > 0 => x = s[1]
    BY LenProperties, EmptySeq, BuffersFinite DEF IsList, At, IsInjective, ToSet
  <1>2. /\ a \in Seq(Buffers) /\ Len(a) = n + 1 /\ a[n + 1] = b
        /\ \A j \in 1 .. n : a[j] = s[j]
        /\ DOMAIN a = 1 .. n + 1
    BY <1>1, AppendProperties, LenProperties
  <1>3. n > 0 => Last(s) = s[n] /\ n \in 1 .. n
    BY <1>1 DEF Last
  <1> HIDE DEF n, a
  <1>4. IsInjective(a)
    <2> SUFFICES ASSUME NEW j \in 1 .. n + 1, NEW k \in 1 .. n + 1, a[j] = a[k]
                 PROVE  j = k
      BY <1>2 DEF IsInjective
    <2>1. \A m \in 1 .. n + 1 : m = n + 1 \/ m \in 1 .. n
      BY <1>1
    <2> QED
      BY <1>1, <1>2, <2>1
  <1>5. x2 = At(a, 1)
    <2>1. CASE n = 0
      BY <1>1, <1>2, <2>1 DEF At
    <2>2. CASE n # 0
      <3>1. 1 \in 1 .. n /\ 1 \in 1 .. n + 1
        BY <1>1, <2>2
      <3> QED
        BY <1>1, <1>2, <2>2, <3>1 DEF At
    <2> QED
      BY <2>1, <2>2
  <1>6. ASSUME NEW j \in 1 .. n + 1
        PROVE  new[a[j]] = IF j < n + 1 THEN a[j + 1] ELSE Nil
    <2>1. CASE j = n + 1
      BY <1>1, <1>2, <2>1
    <2>2. CASE j = n /\ n > 0
      <3>1. s # <<>> /\ j \in 1 .. n /\ s[n] # b /\ s[n] \in Buffers
        BY <1>1, <2>2
      <3>2. new[s[n]] = b
        BY <1>1, <1>3, <2>2, <3>1
      <3> QED
        BY <1>2, <2>2, <3>1, <3>2
    <2>3. CASE j < n
      <3>1. j \in 1 .. n /\ j + 1 \in 1 .. n /\ n > 0 /\ n \in 1 .. n
        BY <1>1, <2>3
      <3>2. s[j] # s[n] /\ s[j] # b /\ s[j] \in Buffers
        BY <1>1, <2>3, <3>1
      <3>3. new[s[j]] = links[s[j]]
        BY <1>1, <1>3, <3>1, <3>2
      <3> QED
        BY <1>1, <1>2, <2>3, <3>1, <3>3
    <2> QED
      BY <1>1, <2>1, <2>2, <2>3
  <1>7. \A j \in 1 .. Len(a) : new[a[j]] = At(a, j + 1)
    BY <1>1, <1>2, <1>6 DEF At
  <1> QED
    BY <1>2, <1>4, <1>5, <1>7 DEF IsList, a

\* What Queue makes of it: new buffers stand before it.
LEMMA Queued ==
    ASSUME NEW links, NEW x, NEW s, IsList(links, x, s),
           NEW q \in Seq(Buffers), IsInjective(q), ToSet(q) \cap ToSet(s) = {},
           NEW x2, NEW new,
           x2 = IF q = <<>> THEN x ELSE q[1],
           \A i \in 1 .. Len(q) : new[q[i]] = IF i = Len(q) THEN x ELSE q[i + 1],
           \A b \in ToSet(s) : new[b] = links[b]
    PROVE  IsList(new, x2, q \o s)
  <1> DEFINE m == Len(q)
             n == Len(s)
             c == q \o s
  <1>1. /\ n \in Nat /\ s \in Seq(Buffers) /\ m \in Nat /\ (q = <<>> <=> m = 0)
        /\ DOMAIN s = 1 .. n /\ DOMAIN q = 1 .. m
        /\ \A j, k \in 1 .. n : s[j] = s[k] => j = k
        /\ \A j, k \in 1 .. m : q[j] = q[k] => j = k
        /\ \A j \in 1 .. n : links[s[j]] = IF j < n THEN s[j + 1] ELSE Nil
        /\ x = IF n > 0 THEN s[1] ELSE Nil
    BY LenProperties, EmptySeq DEF IsList, At, IsInjective
  <1>2. /\ \A j \in 1 .. m, k \in 1 .. n : q[j] # s[k]
        /\ \A k \in 1 .. n : new[s[k]] = links[s[k]]
    <2>1. \A k \in 1 .. n : s[k] \in ToSet(s)
      BY <1>1 DEF ToSet
    <2>2. \A j \in 1 .. m : q[j] \in ToSet(q)
      BY <1>1 DEF ToSet
    <2> QED
      BY <2>1, <2>2
  <1>3. /\ c \in Seq(Buffers) /\ Len(c) = m + n /\ DOMAIN c = 1 .. m + n
        /\ \A j \in 1 .. m + n : c[j] = IF j <= m THEN q[j] ELSE s[j - m]
    <2>0. s \in Seq(Buffers) /\ q \in Seq(Buffers)
      BY <1>1
    <2>1. /\ c \in Seq(Buffers) /\ Len(c) = m + n
          /\ \A j \in 1 .. m + n : c[j] = IF j <= m THEN q[j] ELSE s[j - m]
      BY <2>0, ConcatProperties
    <2>2. DOMAIN c = 1 .. m + n
      BY <2>1, LenProperties
    <2> QED
      BY <2>1, <2>2
  <1>4. /\ x2 = IF m = 0 THEN x ELSE q[1]
        /\ \A i \in 1 .. m : new[q[i]] = IF i = m THEN x ELSE q[i + 1]
    BY <1>1
  <1> HIDE DEF m, n, c
  <1>5. \A j \in 1 .. m + n :
           \/ j \in 1 .. m /\ c[j] = q[j]
           \/ j - m \in 1 .. n /\ j > m /\ c[j] = s[j - m]
    BY <1>1, <1>3
  <1>6. IsInjective(c)
    <2> SUFFICES ASSUME NEW j \in 1 .. m + n, NEW k \in 1 .. m + n, c[j] = c[k]
                 PROVE  j = k
      BY <1>3 DEF IsInjective
    <2>1. CASE j \in 1 .. m /\ k \in 1 .. m
      BY <1>1, <1>3, <2>1, SMTT(30)
    <2>2. CASE j - m \in 1 .. n /\ k - m \in 1 .. n /\ j > m /\ k > m
      <3>1. j - m = k - m
        BY <1>1, <1>3, <2>2
      <3> QED
        BY <1>1, <3>1
    <2> QED
      BY <1>2, <1>5, <2>1, <2>2
  <1>7. x2 = At(c, 1)
    <2>1. CASE m = 0 /\ n = 0
      BY <1>1, <1>3, <1>4, <2>1 DEF At
    <2>2. CASE m = 0 /\ n > 0
      <3>1. 1 \in 1 .. m + n /\ 1 - m = 1 /\ ~ (1 <= m)
        BY <1>1, <2>2
      <3> QED
        BY <1>1, <1>3, <1>4, <2>2, <3>1 DEF At
    <2>3. CASE m > 0
      <3>1. 1 \in 1 .. m + n /\ 1 <= m /\ m # 0
        BY <1>1, <2>3
      <3> QED
        BY <1>3, <1>4, <3>1 DEF At
    <2> QED
      BY <1>1, <2>1, <2>2, <2>3
  <1>8. ASSUME NEW j \in 1 .. m + n
        PROVE  new[c[j]] = IF j < m + n THEN c[j + 1] ELSE Nil
    <2>1. CASE j < m
      <3>1. j \in 1 .. m /\ j + 1 \in 1 .. m + n /\ j + 1 <= m /\ j # m /\ j <= m
        BY <1>1, <2>1
      <3> QED
        BY <1>1, <1>3, <1>4, <3>1
    <2>2. CASE j = m
      <3>1. j \in 1 .. m /\ c[j] = q[j] /\ new[c[j]] = x
        BY <1>1, <1>3, <1>4, <2>2
      <3>2. n > 0 => j + 1 \in 1 .. m + n /\ ~ (j + 1 <= m) /\ j + 1 - m = 1
        BY <1>1, <2>2
      <3> QED
        BY <1>1, <1>3, <2>2, <3>1, <3>2
    <2>3. CASE j > m
      <3>1. j - m \in 1 .. n /\ c[j] = s[j - m]
        BY <1>1, <1>3, <2>3
      <3>2. new[c[j]] = IF j - m < n THEN s[j - m + 1] ELSE Nil
        BY <1>1, <1>2, <3>1
      <3>3. j < m + n => j + 1 \in 1 .. m + n /\ ~ (j + 1 <= m) /\ j + 1 - m = j - m + 1
        BY <1>1, <2>3
      <3>4. CASE j < m + n
        <4>1. j - m < n /\ c[j + 1] = s[j - m + 1]
          BY <1>1, <1>3, <3>3, <3>4
        <4> QED
          BY <3>2, <3>4, <4>1
      <3>5. CASE ~ (j < m + n)
        <4>1. ~ (j - m < n)
          BY <1>1, <3>5
        <4> QED
          BY <3>2, <3>5, <4>1
      <3> QED
        BY <3>4, <3>5
    <2> QED
      BY <1>1, <2>1, <2>2, <2>3
  <1>9. \A j \in 1 .. Len(c) : new[c[j]] = At(c, j + 1)
    BY <1>1, <1>3, <1>8 DEF At
  <1> QED
    BY <1>3, <1>6, <1>7, <1>9 DEF IsList, c

\* The list that ends where it starts.
LEMMA EmptyList ==
    /\ <<>> \in Seq(Buffers) /\ Len(<<>>) = 0 /\ ToSet(<<>>) = {} /\ IsInjective(<<>>)
    /\ \A links : IsList(links, Nil, <<>>)
  <1>1. DOMAIN <<>> = {}
    OBVIOUS
  <1>2. <<>> \in Seq(Buffers) /\ Len(<<>>) = 0 /\ ToSet(<<>>) = {} /\ IsInjective(<<>>)
    BY <1>1, EmptySeq DEF ToSet, IsInjective
  <1>3. At(<<>>, 1) = Nil /\ 1 .. Len(<<>>) = {}
    BY <1>2 DEF At
  <1>4. \A links : \A i \in 1 .. Len(<<>>) : links[<<>>[i]] = At(<<>>, i + 1)
    BY <1>3
  <1> QED
    BY <1>2, <1>3, <1>4, Zenon DEF IsList

-----------------------------------------------------------------------------
(* The order of return *)

\* o has the buffers of p that are in s, in the same order.
Ordered(o, s, p) ==
    /\ {b \in ToSet(s) : Port(b) = p} = ToSet(o)
    /\ \A i, j \in 1 .. Len(o), m, n \in 1 .. Len(s) :
          i < j /\ s[m] = o[i] /\ s[n] = o[j] => m < n

\* The first of some places.
LEMMA FirstPlace ==
    ASSUME NEW n \in Nat, NEW I \in SUBSET (1 .. n), I # {}
    PROVE  Min(I) \in I /\ \A j \in I : Min(I) <= j
  <1>1. I \subseteq Nat /\ I # {}
    OBVIOUS
  <1>2. PICK x \in I : \A y \in I : ~ (<<y, x>> \in OpToRel(<, Nat))
    BY <1>1, NatLessThanWellFounded, WFMin
  <1>3. \A y \in I : ~ (y < x)
    BY <1>1, <1>2 DEF OpToRel
  <1>4. \A y \in I : x <= y
    BY <1>1, <1>3
  <1> QED
    BY <1>4 DEF Min

\* RemoveFirst takes an element out.
LEMMA RemoveFirstPlace ==
    ASSUME NEW E, NEW o \in Seq(E), NEW e \in ToSet(o)
    PROVE  \E k \in 1 .. Len(o) : o[k] = e /\ RemoveFirst(o, e) = RemoveAt(o, k)
  <1> DEFINE I == {i \in 1 .. Len(o) : o[i] = e}
  <1>1. Len(o) \in Nat /\ DOMAIN o = 1 .. Len(o)
    BY LenProperties
  <1>2. I # {} /\ \E i \in 1 .. Len(o) : o[i] = e
    BY <1>1 DEF ToSet
  <1>3. RemoveFirst(o, e) = RemoveAt(o, Min(I))
    BY <1>2 DEF RemoveFirst, SelectInSeq
  <1>4. Min(I) \in I
    BY <1>1, <1>2, FirstPlace
  <1> QED
    BY <1>3, <1>4

\* Nothing stands in such an order twice.
LEMMA OrderedOnce ==
    ASSUME NEW o \in Seq(Buffers), NEW s \in Seq(Buffers), NEW p, Ordered(o, s, p)
    PROVE  IsInjective(o)
  <1>1. /\ Len(o) \in Nat /\ DOMAIN o = 1 .. Len(o)
        /\ Len(s) \in Nat /\ DOMAIN s = 1 .. Len(s)
    BY LenProperties
  <1>2. \A i \in 1 .. Len(o) : \E m \in 1 .. Len(s) : s[m] = o[i]
    BY <1>1 DEF Ordered, ToSet
  <1>3. \A i, j \in 1 .. Len(o) : i < j => o[i] # o[j]
    <2> SUFFICES ASSUME NEW i \in 1 .. Len(o), NEW j \in 1 .. Len(o), i < j, o[i] = o[j]
                 PROVE  FALSE
      OBVIOUS
    <2>1. PICK m \in 1 .. Len(s) : s[m] = o[i]
      BY <1>2
    <2>2. m < m
      BY <2>1 DEF Ordered
    <2> QED
      BY <1>1, <2>2
  <1>4. ASSUME NEW i \in 1 .. Len(o), NEW j \in 1 .. Len(o), o[i] = o[j]
        PROVE  i = j
    <2>1. ~ (i < j) /\ ~ (j < i)
      BY <1>3, <1>4
    <2> QED
      BY <1>1, <2>1
  <1> QED
    BY <1>1, <1>4 DEF IsInjective

\* A buffer leaves the list.
LEMMA OrderedRemove ==
    ASSUME NEW o \in Seq(Buffers), NEW s \in Seq(Buffers), NEW p, Ordered(o, s, p),
           IsInjective(s), NEW i \in 1 .. Len(s)
    PROVE  /\ Port(s[i]) # p => Ordered(o, RemoveAt(s, i), p)
           /\ Port(s[i]) = p => /\ RemoveFirst(o, s[i]) \in Seq(Buffers)
                               /\ Ordered(RemoveFirst(o, s[i]), RemoveAt(s, i), p)
  <1> DEFINE n == Len(s)
             r == RemoveAt(s, i)
  <1>1. /\ n \in Nat /\ Len(r) = n - 1 /\ i \in 1 .. n
        /\ \A j \in 1 .. n - 1 : r[j] = IF j < i THEN s[j] ELSE s[j + 1]
    BY RemoveAtPlaces
  <1>2. ToSet(r) = ToSet(s) \ {s[i]}
    BY RemoveAtElements
  <1>3. s[i] \in ToSet(s)
    BY LenProperties DEF ToSet
  <1> HIDE DEF r
  <1>4. CASE Port(s[i]) # p
    <2>1. {b \in ToSet(r) : Port(b) = p} = ToSet(o)
      BY <1>2, <1>4 DEF Ordered
    <2>2. ASSUME NEW j \in 1 .. Len(o), NEW k \in 1 .. Len(o), NEW a \in 1 .. n - 1,
                 NEW b \in 1 .. n - 1, j < k, r[a] = o[j], r[b] = o[k]
          PROVE  a < b
      <3> DEFINE a2 == IF a < i THEN a ELSE a + 1
                 b2 == IF b < i THEN b ELSE b + 1
      <3>1. a2 \in 1 .. n /\ b2 \in 1 .. n /\ s[a2] = o[j] /\ s[b2] = o[k]
        BY <1>1, <2>2
      <3>2. a2 < b2
        <4> HIDE DEF a2, b2
        <4> QED
          BY <2>2, <3>1 DEF Ordered
      <3> QED
        BY <1>1, <3>2
    <2> QED
      BY <1>1, <1>4, <2>1, <2>2 DEF Ordered, r
  <1>5. CASE Port(s[i]) = p
    <2>1. s[i] \in ToSet(o)
      BY <1>3, <1>5 DEF Ordered
    <2>2. PICK k \in 1 .. Len(o) : o[k] = s[i] /\ RemoveFirst(o, s[i]) = RemoveAt(o, k)
      BY <2>1, RemoveFirstPlace
    <2> DEFINE l == Len(o)
               q == RemoveAt(o, k)
    <2>3. /\ q \in Seq(Buffers) /\ l \in Nat /\ Len(q) = l - 1 /\ k \in 1 .. l
          /\ \A j \in 1 .. l - 1 : q[j] = IF j < k THEN o[j] ELSE o[j + 1]
      BY RemoveAtPlaces
    <2>4. ToSet(q) = ToSet(o) \ {o[k]}
      BY OrderedOnce, RemoveAtElements
    <2> HIDE DEF q
    <2>5. {b \in ToSet(r) : Port(b) = p} = ToSet(q)
      BY <1>2, <2>2, <2>4 DEF Ordered
    <2>6. ASSUME NEW j \in 1 .. l - 1, NEW h \in 1 .. l - 1, NEW a \in 1 .. n - 1,
                 NEW b \in 1 .. n - 1, j < h, r[a] = q[j], r[b] = q[h]
          PROVE  a < b
      <3> DEFINE a2 == IF a < i THEN a ELSE a + 1
                 b2 == IF b < i THEN b ELSE b + 1
                 j2 == IF j < k THEN j ELSE j + 1
                 h2 == IF h < k THEN h ELSE h + 1
      <3>1. a2 \in 1 .. n /\ b2 \in 1 .. n /\ j2 \in 1 .. l /\ h2 \in 1 .. l
        BY <1>1, <2>3
      <3>2. j2 < h2
        BY <2>3, <2>6
      <3>3. s[a2] = r[a] /\ s[b2] = r[b] /\ o[j2] = q[j] /\ o[h2] = q[h]
        BY <1>1, <2>3
      <3>4. a2 < b2
        <4> HIDE DEF a2, b2, j2, h2
        <4> QED
          BY <2>6, <3>1, <3>2, <3>3 DEF Ordered
      <3> QED
        BY <1>1, <3>4
    <2> QED
      BY <1>1, <1>5, <2>2, <2>3, <2>5, <2>6 DEF Ordered, r, q
  <1> QED
    BY <1>4, <1>5 DEF r

\* A buffer is added to the end of the list.
LEMMA OrderedAppend ==
    ASSUME NEW o \in Seq(Buffers), NEW s \in Seq(Buffers), NEW p, Ordered(o, s, p),
           NEW b \in Buffers, b \notin ToSet(s)
    PROVE  /\ Port(b) # p => Ordered(o, Append(s, b), p)
           /\ Port(b) = p => Ordered(Append(o, b), Append(s, b), p)
  <1> DEFINE n == Len(s)
             r == Append(s, b)
             l == Len(o)
             q == Append(o, b)
  <1>1. /\ r \in Seq(Buffers) /\ Len(r) = n + 1 /\ r[n + 1] = b /\ n \in Nat
        /\ \A j \in 1 .. n : r[j] = s[j]
    BY AppendProperties, LenProperties
  <1>2. /\ q \in Seq(Buffers) /\ Len(q) = l + 1 /\ q[l + 1] = b /\ l \in Nat
        /\ \A j \in 1 .. l : q[j] = o[j]
    BY AppendProperties, LenProperties
  <1>3. /\ \A v : v \in ToSet(s) <=> \E j \in 1 .. n : v = s[j]
        /\ \A v : v \in ToSet(o) <=> \E j \in 1 .. l : v = o[j]
    BY LenProperties DEF ToSet
  <1>4. /\ \A v : v \in ToSet(r) <=> \E j \in 1 .. n + 1 : v = r[j]
        /\ \A v : v \in ToSet(q) <=> \E j \in 1 .. l + 1 : v = q[j]
    <2> HIDE DEF r, q
    <2>1. DOMAIN r = 1 .. n + 1 /\ DOMAIN q = 1 .. l + 1
      BY <1>1, <1>2, LenProperties
    <2> QED
      BY <2>1 DEF ToSet
  <1>5. \A v \in ToSet(o) : v \in ToSet(s)
    BY DEF Ordered
  <1>6. \A j \in 1 .. l : o[j] # b
    BY <1>3, <1>5
  <1> HIDE DEF r, q, n, l
  <1>7. /\ \A j \in 1 .. n + 1 : j \in 1 .. n \/ j = n + 1
        /\ \A j \in 1 .. n : j \in 1 .. n + 1 /\ j < n + 1
        /\ n + 1 \in 1 .. n + 1
        /\ \A j \in 1 .. l + 1 : j \in 1 .. l \/ j = l + 1
        /\ \A j \in 1 .. l : j \in 1 .. l + 1 /\ ~ (l + 1 < j)
        /\ l + 1 \in 1 .. l + 1 /\ ~ (l + 1 < l + 1)
    BY <1>1, <1>2
  <1>8. ToSet(r) = ToSet(s) \cup {b} /\ ToSet(q) = ToSet(o) \cup {b}
    <2>1. \A v : v \in ToSet(r) <=> v \in ToSet(s) \/ v = b
      BY <1>1, <1>3, <1>4, <1>7
    <2>2. \A v : v \in ToSet(q) <=> v \in ToSet(o) \/ v = b
      BY <1>2, <1>3, <1>4, <1>7
    <2> QED
      BY <2>1, <2>2
  <1>9. \A i, j \in 1 .. l, c, d \in 1 .. n : i < j /\ s[c] = o[i] /\ s[d] = o[j] => c < d
    BY DEF Ordered, n, l
  <1>10. CASE Port(b) # p
    <2>1. {v \in ToSet(r) : Port(v) = p} = ToSet(o)
      BY <1>8, <1>10 DEF Ordered
    <2>2. ASSUME NEW i \in 1 .. l, NEW j \in 1 .. l, NEW c \in 1 .. n + 1, NEW d \in 1 .. n + 1,
                 i < j, r[c] = o[i], r[d] = o[j]
          PROVE  c < d
      <3>1. c \in 1 .. n /\ d \in 1 .. n
        BY <1>1, <1>6, <1>7, <2>2
      <3> QED
        BY <1>1, <1>9, <2>2, <3>1
    <2> QED
      BY <1>1, <1>10, <2>1, <2>2 DEF Ordered, l, r
  <1>11. CASE Port(b) = p
    <2>1. {v \in ToSet(r) : Port(v) = p} = ToSet(q)
      BY <1>8, <1>11 DEF Ordered
    <2>2. ASSUME NEW i \in 1 .. l + 1, NEW j \in 1 .. l + 1, NEW c \in 1 .. n + 1,
                 NEW d \in 1 .. n + 1, i < j, r[c] = q[i], r[d] = q[j]
          PROVE  c < d
      <3>1. i \in 1 .. l
        BY <1>7, <2>2
      <3>2. c \in 1 .. n /\ s[c] = o[i]
        BY <1>1, <1>2, <1>6, <1>7, <2>2, <3>1
      <3>3. CASE j \in 1 .. l
        <4>1. d \in 1 .. n /\ s[d] = o[j]
          BY <1>1, <1>2, <1>6, <1>7, <2>2, <3>3
        <4> QED
          BY <1>9, <2>2, <3>1, <3>2, <3>3, <4>1
      <3>4. CASE j = l + 1
        <4>1. r[d] = b
          BY <1>2, <2>2, <3>4
        <4>2. d = n + 1
          <5>1. d \in 1 .. n => r[d] \in ToSet(s)
            BY <1>1, <1>3
          <5> QED
            BY <1>7, <4>1, <5>1
        <4> QED
          BY <1>7, <3>2, <4>2
      <3> QED
        BY <1>7, <3>3, <3>4
    <2> QED
      BY <1>1, <1>2, <1>11, <2>1, <2>2 DEF Ordered, r, q
  <1> QED
    BY <1>10, <1>11 DEF r, q

\* The elements of two sequences, one after the other.
LEMMA ConcatElements ==
    ASSUME NEW E, NEW q \in Seq(E), NEW s \in Seq(E)
    PROVE  ToSet(q \o s) = ToSet(q) \cup ToSet(s)
  <1> DEFINE m == Len(q)
             n == Len(s)
             c == q \o s
  <1>1. /\ c \in Seq(E) /\ Len(c) = m + n /\ m \in Nat /\ n \in Nat
        /\ \A j \in 1 .. m + n : c[j] = IF j <= m THEN q[j] ELSE s[j - m]
    BY ConcatProperties, LenProperties
  <1>2. /\ \A v : v \in ToSet(q) <=> \E j \in 1 .. m : v = q[j]
        /\ \A v : v \in ToSet(s) <=> \E j \in 1 .. n : v = s[j]
    BY LenProperties DEF ToSet
  <1>3. \A v : v \in ToSet(c) <=> \E j \in 1 .. m + n : v = c[j]
    <2> HIDE DEF c
    <2> QED
      BY <1>1, LenProperties DEF ToSet
  <1> HIDE DEF c, m, n
  <1>4. \A j \in 1 .. m + n : c[j] \in ToSet(q) \cup ToSet(s)
    <2> SUFFICES ASSUME NEW j \in 1 .. m + n PROVE c[j] \in ToSet(q) \cup ToSet(s)
      OBVIOUS
    <2>1. CASE j <= m
      <3>1. j \in 1 .. m /\ c[j] = q[j]
        BY <1>1, <2>1
      <3> QED
        BY <1>2, <3>1
    <2>2. CASE ~ (j <= m)
      <3>1. j - m \in 1 .. n /\ c[j] = s[j - m]
        BY <1>1, <2>2
      <3> QED
        BY <1>2, <3>1
    <2> QED
      BY <2>1, <2>2
  <1>5. \A j \in 1 .. m : j \in 1 .. m + n /\ c[j] = q[j]
    BY <1>1
  <1>6. \A j \in 1 .. n : j + m \in 1 .. m + n /\ c[j + m] = s[j]
    <2> SUFFICES ASSUME NEW j \in 1 .. n PROVE j + m \in 1 .. m + n /\ c[j + m] = s[j]
      OBVIOUS
    <2>1. j + m \in 1 .. m + n /\ ~ (j + m <= m) /\ j + m - m = j
      BY <1>1
    <2> QED
      BY <1>1, <2>1
  <1>7. \A v : v \in ToSet(c) <=> v \in ToSet(q) \cup ToSet(s)
    BY <1>2, <1>3, <1>4, <1>5, <1>6
  <1> QED
    BY <1>7 DEF c

\* New buffers are put before the list.
LEMMA OrderedQueue ==
    ASSUME NEW o \in Seq(Buffers), NEW s \in Seq(Buffers), NEW p, Ordered(o, s, p),
           NEW q \in Seq(Buffers), IsInjective(q), ToSet(q) \cap ToSet(s) = {}
    PROVE  /\ (\A b \in ToSet(q) : Port(b) # p) => Ordered(o, q \o s, p)
           /\ (\A b \in ToSet(q) : Port(b) = p) => Ordered(q \o o, q \o s, p)
  <1> DEFINE m == Len(q)
             n == Len(s)
             c == q \o s
             l == Len(o)
             u == q \o o
  <1>1. /\ c \in Seq(Buffers) /\ Len(c) = m + n /\ m \in Nat /\ n \in Nat
        /\ \A j \in 1 .. m + n : c[j] = IF j <= m THEN q[j] ELSE s[j - m]
    BY ConcatProperties, LenProperties
  <1>2. /\ u \in Seq(Buffers) /\ Len(u) = m + l /\ l \in Nat
        /\ \A j \in 1 .. m + l : u[j] = IF j <= m THEN q[j] ELSE o[j - m]
    BY ConcatProperties, LenProperties
  <1>3. ToSet(c) = ToSet(q) \cup ToSet(s) /\ ToSet(u) = ToSet(q) \cup ToSet(o)
    BY ConcatElements
  <1>4. /\ \A j \in 1 .. m : q[j] \in ToSet(q)
        /\ \A j \in 1 .. n : s[j] \in ToSet(s)
        /\ \A j \in 1 .. l : o[j] \in ToSet(o)
        /\ \A j, k \in 1 .. m : q[j] = q[k] => j = k
    BY LenProperties DEF ToSet, IsInjective
  <1>5. \A i, j \in 1 .. l, a, b \in 1 .. n : i < j /\ s[a] = o[i] /\ s[b] = o[j] => a < b
    BY DEF Ordered
  <1>6. ToSet(o) = {b \in ToSet(s) : Port(b) = p}
    BY DEF Ordered
  <1> HIDE DEF m, n, c, l, u
  <1>7. /\ \A j \in 1 .. m + n :
              \/ j \in 1 .. m /\ c[j] = q[j]
              \/ j - m \in 1 .. n /\ j > m /\ c[j] = s[j - m]
        /\ \A j \in 1 .. m + l :
              \/ j \in 1 .. m /\ u[j] = q[j]
              \/ j - m \in 1 .. l /\ j > m /\ u[j] = o[j - m]
    BY <1>1, <1>2
  <1>8. /\ \A j \in 1 .. m, k \in 1 .. n : q[j] # s[k]
        /\ \A j \in 1 .. m, k \in 1 .. l : q[j] # o[k]
    BY <1>4, <1>6
  <1>9. ASSUME \A b \in ToSet(q) : Port(b) # p
        PROVE  Ordered(o, c, p)
    <2>1. {b \in ToSet(c) : Port(b) = p} = ToSet(o)
      BY <1>3, <1>6, <1>9
    <2>2. ASSUME NEW i \in 1 .. l, NEW j \in 1 .. l, NEW a \in 1 .. m + n, NEW b \in 1 .. m + n,
                 i < j, c[a] = o[i], c[b] = o[j]
          PROVE  a < b
      <3>1. a - m \in 1 .. n /\ b - m \in 1 .. n /\ s[a - m] = o[i] /\ s[b - m] = o[j]
        BY <1>7, <1>8, <2>2
      <3>2. a - m < b - m
        BY <1>5, <2>2, <3>1
      <3> QED
        BY <1>1, <3>2
    <2>3. Ordered(o, c, p)
      BY <1>1, <2>1, <2>2 DEF Ordered, l
    <2> QED
      BY <1>9, <2>3
  <1>10. ASSUME \A b \in ToSet(q) : Port(b) = p
         PROVE  Ordered(u, c, p)
    <2>1. {b \in ToSet(c) : Port(b) = p} = ToSet(u)
      BY <1>3, <1>6, <1>10
    <2>2. ASSUME NEW i \in 1 .. m + l, NEW j \in 1 .. m + l, NEW a \in 1 .. m + n,
                 NEW b \in 1 .. m + n, i < j, c[a] = u[i], c[b] = u[j]
          PROVE  a < b
      <3>1. CASE i \in 1 .. m
        <4>0. u[i] = q[i] /\ ~ (i > m)
          BY <1>1, <1>2, <3>1
        <4>1. a = i
          BY <1>4, <1>7, <1>8, <2>2, <3>1, <4>0
        <4>2. CASE j \in 1 .. m
          <5>1. u[j] = q[j] /\ ~ (j > m)
            BY <1>1, <1>2, <4>2
          <5>2. b = j
            BY <1>4, <1>7, <1>8, <2>2, <4>2, <5>1
          <5> QED
            BY <2>2, <4>1, <5>2
        <4>3. CASE j \notin 1 .. m
          <5>1. u[j] = o[j - m] /\ j - m \in 1 .. l
            BY <1>7, <4>3
          <5>2. b > m
            BY <1>7, <1>8, <2>2, <5>1
          <5> QED
            BY <1>1, <3>1, <4>1, <5>2
        <4> QED
          BY <4>2, <4>3
      <3>2. CASE i \notin 1 .. m
        <4>1. i - m \in 1 .. l /\ i > m /\ u[i] = o[i - m]
          BY <1>7, <3>2
        <4>2. j \notin 1 .. m
          BY <1>1, <2>2, <4>1
        <4>3. j - m \in 1 .. l /\ u[j] = o[j - m]
          BY <1>7, <4>2
        <4>4. a - m \in 1 .. n /\ s[a - m] = o[i - m]
          BY <1>7, <1>8, <2>2, <4>1
        <4>5. b - m \in 1 .. n /\ s[b - m] = o[j - m]
          BY <1>7, <1>8, <2>2, <4>3
        <4>6. i - m < j - m
          BY <1>1, <2>2
        <4>7. a - m < b - m
          BY <1>5, <4>1, <4>3, <4>4, <4>5, <4>6
        <4> QED
          BY <1>1, <4>7
      <3> QED
        BY <3>1, <3>2
    <2>3. Ordered(u, c, p)
      BY <1>1, <1>2, <2>1, <2>2 DEF Ordered
    <2> QED
      BY <1>10, <2>3
  <1>11. /\ (\A b \in ToSet(q) : Port(b) # p) => Ordered(o, c, p)
         /\ (\A b \in ToSet(q) : Port(b) = p) => Ordered(u, c, p)
    BY <1>9, <1>10
  <1> QED
    BY <1>11 DEF c, u

-----------------------------------------------------------------------------
(* The inductive invariant *)

\* Different threads use ports of different directions.
Apart == \A t, u \in Threads : t # u => \A p \in Uses[t], q \in Uses[u] : Dir[p] # Dir[q]

Pointers == Buffers \cup {Nil}

Labels == {"idle", "get", "waiting", "allocate", "enabling", "undone", "disable", "take", "free",
           "flags", "disabling", "enableSleep", "disableSleep", "asserted", "undefined"}

Flags == {"EMPTY_BUFFER_DONE", "FILL_BUFFER_DONE", "EVENT_ERROR", "PORT_ENABLED",
          "PORT_DISABLED"}

Events == ({"PortEnable", "PortDisable"} \X Ports) \cup {Error}

PlacesOK == /\ live \in SUBSET Buffers
            /\ held \in SUBSET Buffers
            /\ sent \in SUBSET Buffers
            /\ batch \in [Threads -> SUBSET Buffers]

ListsOK == /\ head \in [Dirs -> Pointers]
           /\ next \in [Buffers -> Pointers]
           /\ order \in [Ports -> Seq(Buffers)]

CompOK == /\ flags \in SUBSET Flags
          /\ events \in SUBSET Events
          /\ raising \in SUBSET Dirs
          /\ on \in [Ports -> BOOLEAN]
          /\ cmd \in [Ports -> {"none", "enable", "disable"}]

ThreadsOK == /\ pc \in [Threads -> Labels]
             /\ arg \in [Threads -> Ports]
             /\ \A t \in Threads : arg[t] \in Uses[t]
             /\ prev \in [Threads -> Pointers]
             /\ block \in [Threads -> BOOLEAN]
             /\ num \in [Threads -> Int]
             /\ undo \in [Threads -> BOOLEAN]
             /\ allocs \in Int

TypeOK == PlacesOK /\ ListsOK /\ CompOK /\ ThreadsOK

\* Each direction has a list, of buffers of its ports.
ListInv == \A d \in Dirs : /\ IsList(next, head[d], Listed(d))
                           /\ \A b \in ToSet(Listed(d)) : Dir[Port(b)] = d

InLists == {b \in Buffers : b \in ToSet(Listed(Dir[Port(b)]))}

\* A live buffer is in one place.
PlaceInv == /\ held \cap sent = {}
            /\ held \cap InLists = {} /\ sent \cap InLists = {}
            /\ \A t \in Threads : batch[t] \cap (held \cup sent \cup InLists) = {}
            /\ \A t, u \in Threads : t # u => batch[t] \cap batch[u] = {}
            /\ \A b \in Buffers : b \in live <=> \/ b \in held \cup sent \cup InLists
                                                 \/ \E t \in Threads : b \in batch[t]

Busy(t) == pc[t] \notin {"idle", "get", "waiting"}

\* One thread at a time enables or disables ports; what it frees is its batch, what it allocates
\* is new.
OneBusy == \A t, u \in Threads : t # u => ~ Busy(t) \/ ~ Busy(u)
BatchInv == \A t \in Threads : batch[t] # {} => pc[t] = "free"
FreshInv == \A t \in Threads : pc[t] = "allocate" => BuffersOf(arg[t]) \cap live = {}

\* The first k buffers of the list s, of which the last one is b, are not the port's.
Passed(s, b, p, k) == s[k] = b /\ \A j \in 1 .. k : Port(s[j]) # p

\* What prev points to is in the list, before all buffers of the thread's port.
PrevInv ==
    \A t \in Threads :
        pc[t] \in {"get", "waiting"} /\ prev[t] # Nil =>
            \E k \in 1 .. Len(Listed(Dir[arg[t]])) : Passed(Listed(Dir[arg[t]]), prev[t], arg[t], k)

OrderInv == \A p \in Ports : Ordered(order[p], Listed(Dir[p]), p)

\* The first half of NoLostWakeup; the other is AnswerInv.
BufferWakes == \A t \in Threads : WokenByBuffer(t)

IInv == /\ TypeOK
        /\ ListInv /\ PlaceInv /\ OrderInv
        /\ OneBusy /\ BatchInv /\ FreshInv /\ PrevInv
        /\ BufferWakes

-----------------------------------------------------------------------------
(* What every step has to do with *)

\* Threads that are apart work on different lists and are woken by different flags.
LEMMA OtherThreads ==
    ASSUME Apart, ThreadsOK, NEW t \in Threads, NEW u \in Threads, t # u
    PROVE  /\ Dir[arg[t]] \in Dirs /\ Dir[arg[u]] \in Dirs
           /\ arg[t] # arg[u] /\ Dir[arg[t]] # Dir[arg[u]]
           /\ DoneFlag[Dir[arg[t]]] # DoneFlag[Dir[arg[u]]]
  <1>1. arg[t] \in Uses[t] /\ arg[u] \in Uses[u] /\ arg[t] \in Ports /\ arg[u] \in Ports
    BY DEF ThreadsOK
  <1>2. Dir[arg[t]] \in Dirs /\ Dir[arg[u]] \in Dirs
    BY <1>1, PortsAssumption
  <1>3. Dir[arg[t]] # Dir[arg[u]]
    BY <1>1 DEF Apart
  <1> QED
    BY <1>2, <1>3 DEF Dirs, DoneFlag

\* The list of a direction, as the invariant has it.
LEMMA TheList ==
    ASSUME ListInv, NEW d \in Dirs
    PROVE  /\ IsList(next, head[d], Listed(d))
           /\ Listed(d) \in Seq(Buffers) /\ IsInjective(Listed(d))
           /\ Len(Listed(d)) \in Nat
           /\ \A b \in Buffers : b \in ToSet(Listed(d)) <=> b \in InLists /\ Dir[Port(b)] = d
           /\ ToSet(Listed(d)) \subseteq Buffers
  <1>1. IsList(next, head[d], Listed(d)) /\ Listed(d) \in Seq(Buffers) /\ IsInjective(Listed(d))
    BY DEF ListInv, IsList
  <1>2. Len(Listed(d)) \in Nat /\ ToSet(Listed(d)) \subseteq Buffers
    BY <1>1, LenProperties DEF ToSet
  <1> QED
    BY <1>1, <1>2 DEF ListInv, InLists

\* If neither lists nor places change, no list does, and nothing moves.
LEMMA SamePlaces ==
    ASSUME IInv, UNCHANGED <<head, next, order, live, held, sent, batch>>
    PROVE  /\ ListInv' /\ PlaceInv' /\ OrderInv' /\ PlacesOK' /\ ListsOK'
           /\ \A d \in Dirs : Listed(d)' = Listed(d)
  <1>1. \A d \in Dirs : Listed(d)' = Listed(d)
    BY DEF Listed
  <1>2. ListInv'
    BY <1>1 DEF IInv, ListInv
  <1>3. InLists' = InLists
    BY <1>1, BuffersFinite DEF InLists
  <1>4. PlaceInv'
    BY <1>3 DEF IInv, PlaceInv
  <1>5. OrderInv'
    BY <1>1, PortsAssumption DEF IInv, OrderInv
  <1> QED
    BY <1>1, <1>2, <1>4, <1>5 DEF IInv, TypeOK, PlacesOK, ListsOK

\* The invariant holds at first.
LEMMA InitHolds ==
    ASSUME Init
    PROVE  IInv
  <1>1. <<>> \in Seq(Buffers) /\ Len(<<>>) = 0 /\ ToSet(<<>>) = {}
    BY EmptyList
  <1>2. TypeOK
    <2>1. ThreadsOK
      BY ThreadsAssumption, MaxAllocsAssumption DEF Init, ThreadsOK, Labels, Pointers
    <2>2. ListsOK /\ PlacesOK
      BY <1>1 DEF Init, ListsOK, PlacesOK, Pointers
    <2>3. CompOK
      BY DEF Init, CompOK
    <2> QED
      BY <2>1, <2>2, <2>3 DEF TypeOK
  <1>3. \A d \in Dirs : IsList(next, head[d], <<>>)
    BY EmptyList DEF Init
  <1>4. \A d \in Dirs : Listed(d) = <<>>
    BY <1>3, ChainIsList DEF Listed
  <1>5. ListInv
    BY <1>1, <1>3, <1>4 DEF ListInv
  <1>6. InLists = {}
    BY <1>1, <1>4, BuffersFinite DEF InLists
  <1>7. PlaceInv
    BY <1>6 DEF Init, PlaceInv
  <1>8. OrderInv
    <2> SUFFICES ASSUME NEW p \in Ports
                 PROVE  Ordered(order[p], Listed(Dir[p]), p)
      BY DEF OrderInv
    <2>1. order[p] = <<>> /\ Listed(Dir[p]) = <<>>
      BY <1>4, PortsAssumption DEF Init
    <2> QED
      BY <1>1, <2>1 DEF Ordered
  <1>9. OneBusy /\ BatchInv /\ FreshInv /\ PrevInv
    BY DEF Init, OneBusy, BatchInv, FreshInv, PrevInv, Busy
  <1>10. BufferWakes
    BY DEF Init, BufferWakes, WokenByBuffer
  <1> QED
    BY <1>2, <1>5, <1>7, <1>8, <1>9, <1>10 DEF IInv

\* A thread that starts to enable or disable a port is the only one.
LEMMA StaysOneBusy ==
    ASSUME ThreadsOK, OneBusy, NEW t \in Threads, NEW l, pc' = [pc EXCEPT ![t] = l],
           l \in {"idle", "get", "waiting"} \/ Busy(t) \/ Exclusive(t)
    PROVE  OneBusy'
  <1> SUFFICES ASSUME NEW u \in Threads, NEW v \in Threads, u # v, Busy(u)', Busy(v)'
               PROVE  FALSE
    BY DEF OneBusy
  <1>1. /\ pc'[t] = l
        /\ \A w \in Threads : w # t => pc'[w] = pc[w]
    BY DEF ThreadsOK
  <1>2. u = t \/ v = t
    BY <1>1 DEF OneBusy, Busy
  <1>3. PICK w \in Threads : w # t /\ Busy(w) /\ l \notin {"idle", "get", "waiting"}
    BY <1>1, <1>2 DEF Busy
  <1>4. ~ Exclusive(t)
    BY <1>3 DEF Exclusive, Busy
  <1>5. ~ Busy(t)
    BY <1>3 DEF OneBusy
  <1> QED
    BY <1>3, <1>4, <1>5

\* A step of a thread that moves no buffer.
LEMMA QuietStep ==
    ASSUME IInv, UNCHANGED <<head, next, order, live, held, sent, batch, raising>>,
           CompOK', ThreadsOK',
           NEW t \in Threads, NEW l, pc' = [pc EXCEPT ![t] = l], pc[t] # "free",
           l \in {"idle", "get", "waiting"} \/ Busy(t) \/ Exclusive(t),
           l # "allocate" \/ BuffersOf(arg'[t]) \cap live = {},
           \A u \in Threads : u # t => arg'[u] = arg[u] /\ prev'[u] = prev[u],
           l \in {"get", "waiting"} /\ prev'[t] # Nil =>
               \E k \in 1 .. Len(Listed(Dir[arg'[t]])) :
                   Passed(Listed(Dir[arg'[t]]), prev'[t], arg'[t], k),
           l = "waiting" => order[arg'[t]] = <<>>,
           \A u \in Threads : u # t /\ DoneFlag[Dir[arg[u]]] \in flags
                              => DoneFlag[Dir[arg[u]]] \in flags'
    PROVE  IInv'
  <1> USE DEF IInv, TypeOK
  <1>1. /\ ListInv' /\ PlaceInv' /\ OrderInv' /\ PlacesOK' /\ ListsOK'
        /\ \A d \in Dirs : Listed(d)' = Listed(d)
    BY SamePlaces
  <1>2. /\ pc'[t] = l
        /\ \A u \in Threads : u # t => pc'[u] = pc[u]
    BY DEF ThreadsOK
  <1>3. OneBusy'
    BY StaysOneBusy
  <1>4. BatchInv'
    <2>1. batch[t] = {}
      BY DEF BatchInv
    <2> QED
      BY <1>2, <2>1 DEF BatchInv
  <1>5. FreshInv'
    BY <1>2 DEF FreshInv
  <1>6. PrevInv'
    <2> SUFFICES ASSUME NEW u \in Threads, pc'[u] \in {"get", "waiting"}, prev'[u] # Nil
                 PROVE  \E k \in 1 .. Len(Listed(Dir[arg[u]])') :
                            Passed(Listed(Dir[arg[u]])', prev'[u], arg'[u], k)
      BY DEF PrevInv, Passed
    <2>1. Dir[arg'[u]] \in Dirs
      BY PortsAssumption DEF ThreadsOK
    <2>2. Listed(Dir[arg[u]])' = Listed(Dir[arg'[u]])
      BY <1>1, <2>1 DEF Listed
    <2>3. CASE u = t
      BY <1>2, <2>2, <2>3
    <2>4. CASE u # t
      BY <1>2, <2>2, <2>4 DEF PrevInv
    <2> QED
      BY <2>3, <2>4
  <1>7. BufferWakes'
    <2> SUFFICES ASSUME NEW u \in Threads, pc'[u] = "waiting", order'[arg'[u]] # <<>>
                 PROVE  DoneFlag[Dir[arg'[u]]] \in flags' \/ Dir[arg'[u]] \in raising'
      BY DEF BufferWakes, WokenByBuffer
    <2>1. u # t
      BY <1>2
    <2> QED
      BY <1>2, <2>1 DEF BufferWakes, WokenByBuffer
  <1> QED
    BY <1>1, <1>3, <1>4, <1>5, <1>6, <1>7

-----------------------------------------------------------------------------
(* Steps that move no buffer *)

USE DEF lists, places, comp, threads

\* ilclient_get_output_buffer and ilclient_get_input_buffer begin.
LEMMA GetBeginsKeeps ==
    ASSUME IInv, NEW t \in Threads, NEW p \in Ports, GetBegins(t, p)
    PROVE  IInv'
  <1>1. /\ pc[t] = "idle" /\ p \in Uses[t]
        /\ pc' = [pc EXCEPT ![t] = "get"] /\ arg' = [arg EXCEPT ![t] = p]
        /\ prev' = [prev EXCEPT ![t] = Nil]
        /\ \E b \in BOOLEAN : block' = [block EXCEPT ![t] = b]
        /\ UNCHANGED <<head, next, order, live, held, sent, flags, events, on, cmd, raising,
                       batch, num, undo, allocs>>
    BY DEF GetBegins, Goto
  <1>2. CompOK' /\ ThreadsOK'
    BY <1>1 DEF IInv, TypeOK, CompOK, ThreadsOK, Labels, Pointers
  <1>3. \A u \in Threads : u # t => arg'[u] = arg[u] /\ prev'[u] = prev[u]
    BY <1>1 DEF IInv, TypeOK, ThreadsOK
  <1>4. prev'[t] = Nil
    BY <1>1 DEF IInv, TypeOK, ThreadsOK
  <1> QED
    BY <1>1, <1>2, <1>3, <1>4, QuietStep

\* They wake up.
LEMMA GetWakesKeeps ==
    ASSUME IInv, Apart, NEW t \in Threads, NEW d, GetWakes(t, d)
    PROVE  IInv'
  <1>1. /\ pc[t] = "waiting" /\ Dir[arg[t]] = d
        /\ pc' = [pc EXCEPT ![t] = "get"]
        /\ flags' = flags \ {DoneFlag[d]}
        /\ UNCHANGED <<head, next, order, live, held, sent, events, on, cmd, raising,
                       arg, prev, block, batch, num, undo, allocs>>
    BY DEF GetWakes, Goto
  <1>2. CompOK' /\ ThreadsOK'
    BY <1>1 DEF IInv, TypeOK, CompOK, ThreadsOK, Labels
  <1>3. \A u \in Threads : u # t /\ DoneFlag[Dir[arg[u]]] \in flags
                           => DoneFlag[Dir[arg[u]]] \in flags'
    BY <1>1, OtherThreads DEF IInv, TypeOK
  <1>4. prev[t] # Nil => \E k \in 1 .. Len(Listed(Dir[arg[t]])) :
                             Passed(Listed(Dir[arg[t]]), prev[t], arg[t], k)
    BY <1>1 DEF IInv, PrevInv
  <1> QED
    BY <1>1, <1>2, <1>3, <1>4, QuietStep

\* What a search for a buffer of a port finds.
FirstOf(s, p) == SelectInSeq(s, LAMBDA b : Port(b) = p)

LEMMA FirstOfPort ==
    ASSUME NEW s \in Seq(Buffers), NEW p
    PROVE  LET i == FirstOf(s, p)
           IN  \/ i = 0 /\ \A j \in 1 .. Len(s) : Port(s[j]) # p
               \/ /\ i \in 1 .. Len(s) /\ i # 0 /\ Port(s[i]) = p
                  /\ \A j \in 1 .. i - 1 : Port(s[j]) # p
  <1> DEFINE I == {i \in 1 .. Len(s) : Port(s[i]) = p}
  <1>1. Len(s) \in Nat
    BY LenProperties
  <1>2. FirstOf(s, p) = IF I # {} THEN Min(I) ELSE 0
    BY DEF FirstOf, SelectInSeq
  <1>3. CASE I = {}
    BY <1>2, <1>3
  <1>4. CASE I # {}
    <2> DEFINE m == Min(I)
    <2>1. m \in I /\ \A j \in I : m <= j
      BY <1>1, <1>4, FirstPlace
    <2> HIDE DEF m
    <2>2. m \in 1 .. Len(s) /\ m # 0 /\ Port(s[m]) = p
      BY <2>1
    <2>3. \A j \in 1 .. m - 1 : Port(s[j]) # p
      BY <1>1, <2>1, <2>2
    <2>4. FirstOf(s, p) = m
      BY <1>2, <1>4 DEF m
    <2> QED
      BY <2>2, <2>3, <2>4
  <1> QED
    BY <1>3, <1>4

\* A list without buffers of the port has none of its returned ones.
LEMMA NoneReturned ==
    ASSUME IInv, NEW p \in Ports, \A j \in 1 .. Len(Listed(Dir[p])) : Port(Listed(Dir[p])[j]) # p
    PROVE  order[p] = <<>>
  <1> DEFINE s == Listed(Dir[p])
  <1>1. Dir[p] \in Dirs
    BY PortsAssumption
  <1>2. s \in Seq(Buffers) /\ Ordered(order[p], s, p) /\ order[p] \in Seq(Buffers)
    BY <1>1, TheList DEF IInv, OrderInv, TypeOK, ListsOK
  <1> HIDE DEF s
  <1>3. \A b \in ToSet(s) : Port(b) # p
    BY <1>2, LenProperties DEF ToSet, s
  <1>4. ToSet(order[p]) = {}
    BY <1>2, <1>3 DEF Ordered
  <1> SUFFICES ASSUME order[p] # <<>> PROVE FALSE
    OBVIOUS
  <1>5. 1 \in 1 .. Len(order[p]) /\ DOMAIN order[p] = 1 .. Len(order[p])
    BY <1>2, EmptySeq, LenProperties
  <1>6. order[p][1] \in ToSet(order[p])
    BY <1>5 DEF ToSet
  <1> QED
    BY <1>4, <1>6

\* They search in vain.
LEMMA GetFindsNothingKeeps ==
    ASSUME IInv, NEW t \in Threads, NEW d, GetSearches(t, d),
           FirstOf(Listed(d), arg[t]) = 0
    PROVE  IInv'
  <1> DEFINE s == Listed(d)
             n == Len(s)
             before == IF block[t] THEN IF n = 0 THEN prev[t] ELSE s[n] ELSE Nil
             l == IF block[t] THEN "waiting" ELSE "idle"
  <1>1. pc[t] = "get" /\ Dir[arg[t]] = d
    BY DEF GetSearches
  <1>2. arg[t] \in Ports /\ d \in Dirs
    BY <1>1, PortsAssumption DEF IInv, TypeOK, ThreadsOK
  <1>3. s \in Seq(Buffers) /\ n \in Nat /\ \A j \in 1 .. n : s[j] \in Buffers
    BY <1>2, TheList, LenProperties DEF IInv
  <1>4. /\ prev' = [prev EXCEPT ![t] = before]
        /\ block' = [block EXCEPT ![t] = block[t]]
        /\ pc' = [pc EXCEPT ![t] = l]
        /\ UNCHANGED <<head, next, order, live, held, sent, flags, events, on, cmd, raising,
                       arg, batch, num, undo, allocs>>
    <2>1. block[t] \in BOOLEAN
      BY DEF IInv, TypeOK, ThreadsOK
    <2>2. CASE block[t] = TRUE
      BY <2>2 DEF GetSearches, Goto, FirstOf
    <2>3. CASE block[t] = FALSE
      BY <2>3 DEF GetSearches, Goto, FirstOf
    <2> QED
      BY <2>1, <2>2, <2>3
  <1> HIDE DEF s
  <1>5. \A j \in 1 .. n : Port(s[j]) # arg[t]
    <2>1. n = Len(Listed(d)) /\ s = Listed(d)
      BY DEF s
    <2>2. s \in Seq(Buffers)
      BY <1>3
    <2> QED
      BY <2>1, <2>2, FirstOfPort
  <1>6. CompOK' /\ ThreadsOK'
    <2>1. before \in Pointers /\ l \in Labels
      BY <1>3 DEF IInv, TypeOK, ThreadsOK, Pointers, Labels
    <2>2. block[t] \in BOOLEAN
      BY DEF IInv, TypeOK, ThreadsOK
    <2> HIDE DEF before, l
    <2> QED
      BY <1>4, <2>1, <2>2 DEF IInv, TypeOK, CompOK, ThreadsOK
  <1>7. /\ prev'[t] = before
        /\ \A u \in Threads : u # t => arg'[u] = arg[u] /\ prev'[u] = prev[u]
    BY <1>4 DEF IInv, TypeOK, ThreadsOK
  <1>8. before # Nil => \E k \in 1 .. n : Passed(s, before, arg[t], k)
    <2>1. CASE n = 0
      BY <1>1, <2>1 DEF IInv, PrevInv, s
    <2>2. CASE n # 0
      BY <1>3, <1>5, <2>2 DEF Passed
    <2> QED
      BY <2>1, <2>2
  <1>9. order[arg[t]] = <<>>
    BY <1>1, <1>2, <1>5, NoneReturned DEF s
  <1>10. /\ l \in {"idle", "get", "waiting"} /\ l # "allocate" /\ pc[t] # "free"
         /\ arg'[t] = arg[t] /\ flags' = flags
    BY <1>1, <1>4
  <1>11. prev'[t] # Nil => \E k \in 1 .. Len(Listed(Dir[arg'[t]])) :
                               Passed(Listed(Dir[arg'[t]]), prev'[t], arg'[t], k)
    BY <1>1, <1>7, <1>8, <1>10 DEF s
  <1> HIDE DEF l, before, n
  <1> QED
    BY <1>4, <1>6, <1>7, <1>9, <1>10, <1>11, QuietStep

\* ilclient_enable_port_buffers begins.
LEMMA EnableBeginsKeeps ==
    ASSUME IInv, NEW t \in Threads, NEW p \in Ports, EnableBegins(t, p)
    PROVE  IInv'
  <1>1. /\ pc[t] = "idle" /\ p \in Uses[t] /\ Exclusive(t)
        /\ BuffersOf(p) \cap live = {}
        /\ allocs' = allocs - 1
        /\ on' = [on EXCEPT ![p] = TRUE] /\ cmd' = [cmd EXCEPT ![p] = "enable"]
        /\ pc' = [pc EXCEPT ![t] = "allocate"] /\ arg' = [arg EXCEPT ![t] = p]
        /\ UNCHANGED <<head, next, order, live, held, sent, flags, events, raising, prev, block,
                       batch, num, undo>>
    BY DEF EnableBegins, Goto
  <1>2. CompOK' /\ ThreadsOK'
    BY <1>1 DEF IInv, TypeOK, CompOK, ThreadsOK, Labels
  <1>3. arg'[t] = p /\ \A u \in Threads : u # t => arg'[u] = arg[u] /\ prev'[u] = prev[u]
    BY <1>1 DEF IInv, TypeOK, ThreadsOK
  <1> QED
    BY <1>1, <1>2, <1>3, QuietStep

\* It ends, or has to undo what it did, or waits.
LEMMA EnableEndsKeeps ==
    ASSUME IInv, NEW t \in Threads, EnableEnds(t)
    PROVE  IInv'
  <1>1. /\ pc[t] = "enabling"
        /\ UNCHANGED <<head, next, order, live, held, sent, on, cmd, raising, arg, prev,
                       block, batch, num, allocs>>
    BY DEF EnableEnds
  <1>2. /\ events' \subseteq events
        /\ flags' = flags \/ flags' = flags \ {"EVENT_ERROR"}
    BY DEF EnableEnds, Scan, Answered
  <1>3. PICK l \in {"enableSleep", "disable", "idle"} : pc' = [pc EXCEPT ![t] = l]
    BY DEF EnableEnds, Scan, Goto
  <1>4. undo' \in [Threads -> BOOLEAN]
    BY DEF EnableEnds, Scan, IInv, TypeOK, ThreadsOK
  <1>5. CompOK'
    BY <1>1, <1>2 DEF IInv, TypeOK, CompOK
  <1>6. ThreadsOK'
    BY <1>1, <1>3, <1>4 DEF IInv, TypeOK, ThreadsOK, Labels
  <1>7. Busy(t)
    BY <1>1 DEF Busy
  <1>8. \A u \in Threads : DoneFlag[Dir[arg[u]]] # "EVENT_ERROR"
    BY PortsAssumption DEF IInv, TypeOK, ThreadsOK, DoneFlag, Dirs
  <1> QED
    BY <1>1, <1>2, <1>3, <1>5, <1>6, <1>7, <1>8, QuietStep

\* A wait for the end of a command wakes up.
LEMMA CommandWakesKeeps ==
    ASSUME IInv, NEW t \in Threads, CommandWakes(t)
    PROVE  IInv'
  <1>1. PICK l \in {"enabling", "disabling"} : pc' = [pc EXCEPT ![t] = l]
    BY DEF CommandWakes, Goto
  <1>2. /\ pc[t] \in {"enableSleep", "disableSleep"}
        /\ flags' = flags \ CommandMask[pc[t]]
        /\ UNCHANGED <<head, next, order, live, held, sent, events, on, cmd, raising, arg, prev,
                       block, batch, num, undo, allocs>>
    BY DEF CommandWakes, CommandMask
  <1>3. CommandMask[pc[t]] \subseteq {"EVENT_ERROR", "PORT_ENABLED", "PORT_DISABLED"}
    BY <1>2 DEF CommandMask
  <1>4. CompOK' /\ ThreadsOK'
    BY <1>1, <1>2 DEF IInv, TypeOK, CompOK, ThreadsOK, Labels
  <1>5. Busy(t)
    BY <1>2 DEF Busy
  <1>6. \A u \in Threads : DoneFlag[Dir[arg[u]]] \notin CommandMask[pc[t]]
    BY <1>3, PortsAssumption DEF IInv, TypeOK, ThreadsOK, DoneFlag, Dirs
  <1> QED
    BY <1>1, <1>2, <1>4, <1>5, <1>6, QuietStep

\* ilclient_enable_port_buffers fails.
LEMMA EnableFailsKeeps ==
    ASSUME IInv, NEW t \in Threads, EnableFails(t)
    PROVE  IInv'
  <1>1. /\ pc[t] = "undone"
        /\ events' = events \ {Error}
        /\ flags' = flags \/ flags' = flags \ {"EVENT_ERROR"}
        /\ undo' = [undo EXCEPT ![t] = FALSE]
        /\ pc' = [pc EXCEPT ![t] = "idle"]
        /\ UNCHANGED <<head, next, order, live, held, sent, on, cmd, raising, arg, prev, block,
                       batch, num, allocs>>
    BY DEF EnableFails, Goto
  <1>2. CompOK' /\ ThreadsOK'
    BY <1>1 DEF IInv, TypeOK, CompOK, ThreadsOK, Labels
  <1>3. Busy(t)
    BY <1>1 DEF Busy
  <1>4. \A u \in Threads : DoneFlag[Dir[arg[u]]] # "EVENT_ERROR"
    BY PortsAssumption DEF IInv, TypeOK, ThreadsOK, DoneFlag, Dirs
  <1> QED
    BY <1>1, <1>2, <1>3, <1>4, QuietStep

\* ilclient_disable_port_buffers is called.
LEMMA DisableCalledKeeps ==
    ASSUME IInv, NEW t \in Threads, NEW p \in Ports, DisableCalled(t, p)
    PROVE  IInv'
  <1>1. /\ pc[t] = "idle" /\ p \in Uses[t] /\ Exclusive(t)
        /\ pc' = [pc EXCEPT ![t] = "disable"] /\ arg' = [arg EXCEPT ![t] = p]
        /\ UNCHANGED <<head, next, order, live, held, sent, flags, events, on, cmd, raising,
                       prev, block, batch, num, undo, allocs>>
    BY DEF DisableCalled, Goto
  <1>2. CompOK' /\ ThreadsOK'
    BY <1>1 DEF IInv, TypeOK, CompOK, ThreadsOK, Labels
  <1>3. \A u \in Threads : u # t => arg'[u] = arg[u] /\ prev'[u] = prev[u]
    BY <1>1 DEF IInv, TypeOK, ThreadsOK
  <1> QED
    BY <1>1, <1>2, <1>3, QuietStep

\* The port is not enabled.
LEMMA DisableOfNothingKeeps ==
    ASSUME IInv, NEW t \in Threads, DisableBegins(t), ~ on[arg[t]]
    PROVE  IInv'
  <1>1. /\ pc[t] = "disable"
        /\ pc' = [pc EXCEPT ![t] = IF undo[t] THEN "undone" ELSE "idle"]
        /\ UNCHANGED <<head, next, order, live, held, sent, flags, events, on, cmd, raising, arg,
                       prev, block, batch, num, undo, allocs>>
    BY DEF DisableBegins, Returns, Goto
  <1> DEFINE l == IF undo[t] THEN "undone" ELSE "idle"
  <1>2. l \in {"undone", "idle"} /\ pc' = [pc EXCEPT ![t] = l]
    BY <1>1
  <1> HIDE DEF l
  <1>3. CompOK' /\ ThreadsOK'
    BY <1>1, <1>2 DEF IInv, TypeOK, CompOK, ThreadsOK, Labels
  <1>4. Busy(t)
    BY <1>1 DEF Busy
  <1> QED
    BY <1>1, <1>2, <1>3, <1>4, QuietStep

\* A buffer of another port is in the way.
LEMMA DisableLosesItsWayKeeps ==
    ASSUME IInv, NEW t \in Threads, DisableTakes(t),
           ~ \A b \in ToSet(Listed(Dir[arg[t]])) : Port(b) = arg[t]
    PROVE  IInv'
  <1>1. /\ pc[t] = "take"
        /\ pc' = [pc EXCEPT ![t] = "undefined"]
        /\ UNCHANGED <<head, next, order, live, held, sent, flags, events, on, cmd, raising, arg,
                       prev, block, batch, num, undo, allocs>>
    BY DEF DisableTakes, Goto
  <1>2. CompOK' /\ ThreadsOK'
    BY <1>1 DEF IInv, TypeOK, CompOK, ThreadsOK, Labels
  <1>3. Busy(t)
    BY <1>1 DEF Busy
  <1> QED
    BY <1>1, <1>2, <1>3, QuietStep

\* The thread that disables a port wakes up; the flag of another direction stays.
LEMMA DisableWakesKeeps ==
    ASSUME IInv, Apart, NEW t \in Threads, DisableWakes(t)
    PROVE  IInv'
  <1>1. PICK l \in {"undone", "idle", "take"} : pc' = [pc EXCEPT ![t] = l]
    BY DEF DisableWakes, Returns, Goto
  <1>2. /\ pc[t] = "flags" /\ flags' = flags \ DisableMask(arg[t])
        /\ events' \subseteq events
        /\ UNCHANGED <<head, next, order, live, held, sent, on, cmd, raising, arg, prev, block,
                       batch, num, undo, allocs>>
    BY DEF DisableWakes
  <1>3. CompOK' /\ ThreadsOK'
    BY <1>1, <1>2 DEF IInv, TypeOK, CompOK, ThreadsOK, Labels
  <1>4. Busy(t)
    BY <1>2 DEF Busy
  <1>5. \A u \in Threads : u # t => DoneFlag[Dir[arg[u]]] \notin DisableMask(arg[t])
    <2>1. \A u \in Threads : DoneFlag[Dir[arg[u]]] \notin {"EVENT_ERROR", "PORT_DISABLED"}
      BY PortsAssumption DEF IInv, TypeOK, ThreadsOK, DoneFlag, Dirs
    <2>2. \A u \in Threads : u # t => DoneFlag[Dir[arg[u]]] # DoneFlag[Dir[arg[t]]]
      BY OtherThreads DEF IInv, TypeOK
    <2> QED
      BY <2>1, <2>2 DEF DisableMask
  <1> QED
    BY <1>1, <1>2, <1>3, <1>4, <1>5, QuietStep

\* The port is disabled, or the assertion fails, or the thread waits.
LEMMA DisableEndsKeeps ==
    ASSUME IInv, NEW t \in Threads, DisableEnds(t)
    PROVE  IInv'
  <1>1. PICK l \in {"undone", "idle", "asserted", "disableSleep"} : pc' = [pc EXCEPT ![t] = l]
    BY DEF DisableEnds, Scan, Returns, Goto
  <1>2. /\ pc[t] = "disabling" /\ events' \subseteq events
        /\ flags' = flags \/ flags' = flags \ {"EVENT_ERROR"}
        /\ UNCHANGED <<head, next, order, live, held, sent, on, cmd, raising, arg, prev,
                       block, batch, num, undo, allocs>>
    BY DEF DisableEnds, Scan, Answered
  <1>3. CompOK' /\ ThreadsOK'
    BY <1>1, <1>2 DEF IInv, TypeOK, CompOK, ThreadsOK, Labels
  <1>4. Busy(t)
    BY <1>2 DEF Busy
  <1>5. \A u \in Threads : DoneFlag[Dir[arg[u]]] # "EVENT_ERROR"
    BY PortsAssumption DEF IInv, TypeOK, ThreadsOK, DoneFlag, Dirs
  <1> QED
    BY <1>1, <1>2, <1>3, <1>4, <1>5, QuietStep

\* A step of the component that moves no buffer: no flag is lost.
LEMMA QuietAnswer ==
    ASSUME IInv, UNCHANGED <<head, next, order, live, held, sent, threads, allocs>>, CompOK',
           flags \subseteq flags',
           \A d \in raising : d \in raising' \/ DoneFlag[d] \in flags'
    PROVE  IInv'
  <1> USE DEF IInv, TypeOK
  <1>1. /\ ListInv' /\ PlaceInv' /\ OrderInv' /\ PlacesOK' /\ ListsOK'
        /\ \A d \in Dirs : Listed(d)' = Listed(d)
    BY SamePlaces
  <1>2. ThreadsOK' /\ OneBusy' /\ BatchInv' /\ FreshInv'
    BY DEF ThreadsOK, OneBusy, BatchInv, FreshInv, Busy
  <1>3. PrevInv'
    <2> SUFFICES ASSUME NEW u \in Threads, pc'[u] \in {"get", "waiting"}, prev'[u] # Nil
                 PROVE  \E k \in 1 .. Len(Listed(Dir[arg[u]])') :
                            Passed(Listed(Dir[arg[u]])', prev'[u], arg'[u], k)
      BY DEF PrevInv, Passed
    <2>1. Dir[arg[u]] \in Dirs /\ Listed(Dir[arg[u]])' = Listed(Dir[arg[u]])
      BY <1>1, PortsAssumption DEF ThreadsOK, Listed
    <2> QED
      BY <2>1 DEF PrevInv
  <1>4. BufferWakes'
    BY DEF BufferWakes, WokenByBuffer
  <1> QED
    BY <1>1, <1>2, <1>3, <1>4

\* The callback sets its flag; the component answers.
LEMMA RaiseDoneKeeps ==
    ASSUME IInv, RaiseDone
    PROVE  IInv'
  <1>1. /\ raising' = {} /\ flags' = flags \cup {DoneFlag[d] : d \in raising}
        /\ UNCHANGED <<head, next, order, live, held, sent, events, on, cmd, threads, allocs>>
    BY DEF RaiseDone
  <1>2. {DoneFlag[d] : d \in raising} \subseteq Flags
    BY DEF IInv, TypeOK, CompOK, DoneFlag, Dirs, Flags
  <1>3. CompOK'
    BY <1>1, <1>2 DEF IInv, TypeOK, CompOK
  <1> QED
    BY <1>1, <1>3, QuietAnswer

LEMMA AnswersKeep ==
    ASSUME IInv, NEW p \in Ports, PortAnswers(p) \/ PortRefused(p)
    PROVE  IInv'
  <1>1. /\ UNCHANGED <<head, next, order, live, held, sent, raising, threads, allocs>>
        /\ flags \subseteq flags'
    BY DEF PortAnswers, PortEnabled, PortDisabled, PortRefused
  <1>2. /\ cmd' = [cmd EXCEPT ![p] = "none"]
        /\ on' = on \/ on' = [on EXCEPT ![p] = FALSE]
    BY DEF PortAnswers, PortEnabled, PortDisabled, PortRefused
  <1>3. PICK e \in {Error, <<"PortEnable", p>>, <<"PortDisable", p>>} :
            events' = events \cup {e}
    BY DEF PortAnswers, PortEnabled, PortDisabled, PortRefused
  <1>4. flags' \subseteq flags \cup {"EVENT_ERROR", "PORT_ENABLED", "PORT_DISABLED"}
    BY DEF PortAnswers, PortEnabled, PortDisabled, PortRefused
  <1>5. CompOK'
    <2>1. cmd' \in [Ports -> {"none", "enable", "disable"}] /\ on' \in [Ports -> BOOLEAN]
      BY <1>2 DEF IInv, TypeOK, CompOK
    <2>2. events' \in SUBSET Events
      BY <1>3 DEF IInv, TypeOK, CompOK, Events
    <2>3. flags' \in SUBSET Flags /\ raising' \in SUBSET Dirs
      BY <1>1, <1>4 DEF IInv, TypeOK, CompOK, Flags
    <2> QED
      BY <2>1, <2>2, <2>3 DEF CompOK
  <1> QED
    BY <1>1, <1>5, QuietAnswer

-----------------------------------------------------------------------------
(* Steps that move buffers *)

\* If the list of one direction becomes s, the other stays as it is.
LEMMA OtherLists ==
    ASSUME IInv, NEW d \in Dirs,
           \A e \in Dirs : e # d => head'[e] = head[e],
           \A b \in Buffers : Dir[Port(b)] # d => next'[b] = next[b],
           NEW s, IsList(next', head'[d], s), \A b \in ToSet(s) : Dir[Port(b)] = d
    PROVE  /\ ListInv'
           /\ Listed(d)' = s
           /\ \A e \in Dirs : e # d => Listed(e)' = Listed(e)
           /\ \A b \in Buffers : b \in InLists' <=> IF Dir[Port(b)] = d THEN b \in ToSet(s)
                                                    ELSE b \in InLists
  <1>1. Listed(d)' = s
    BY ChainIsList DEF Listed
  <1>2. ASSUME NEW e \in Dirs, e # d
        PROVE  /\ IsList(next', head'[e], Listed(e)) /\ Listed(e)' = Listed(e)
               /\ \A b \in ToSet(Listed(e)) : Dir[Port(b)] = e
    <2>1. /\ IsList(next, head[e], Listed(e))
          /\ \A b \in ToSet(Listed(e)) : b \in Buffers /\ Dir[Port(b)] = e
      BY TheList DEF IInv, ListInv
    <2>2. \A b \in ToSet(Listed(e)) : next'[b] = next[b]
      BY <1>2, <2>1
    <2>3. IsList(next', head[e], Listed(e))
      BY <2>1, <2>2, SameLinks
    <2>4. head'[e] = head[e]
      BY <1>2
    <2>5. Chain(next', head'[e]) = Listed(e)
      BY <2>3, <2>4, ChainIsList
    <2> QED
      BY <2>1, <2>3, <2>4, <2>5 DEF Listed
  <1>3. ListInv'
    BY <1>1, <1>2 DEF ListInv
  <1>4. \A b \in Buffers : b \in InLists' <=> IF Dir[Port(b)] = d THEN b \in ToSet(s)
                                              ELSE b \in InLists
    <2> SUFFICES ASSUME NEW b \in Buffers
                 PROVE  b \in InLists' <=> IF Dir[Port(b)] = d THEN b \in ToSet(s)
                                           ELSE b \in InLists
      OBVIOUS
    <2>1. Dir[Port(b)] \in Dirs
      BY BuffersFinite
    <2>2. b \in InLists' <=> b \in ToSet(Listed(Dir[Port(b)])')
      BY DEF InLists, Listed
    <2>3. b \in InLists <=> b \in ToSet(Listed(Dir[Port(b)]))
      BY DEF InLists
    <2>4. Listed(Dir[Port(b)])' = IF Dir[Port(b)] = d THEN s ELSE Listed(Dir[Port(b)])
      BY <1>1, <1>2, <2>1 DEF Listed
    <2> QED
      BY <2>2, <2>3, <2>4
  <1> QED
    BY <1>1, <1>2, <1>3, <1>4

\* And the orders of return that go with it.
LEMMA OtherOrders ==
    ASSUME IInv, NEW d \in Dirs, NEW s,
           Listed(d)' = s, \A e \in Dirs : e # d => Listed(e)' = Listed(e),
           \A p \in Ports : IF Dir[p] = d THEN Ordered(order'[p], s, p) ELSE order'[p] = order[p]
    PROVE  OrderInv'
  <1> SUFFICES ASSUME NEW p \in Ports
               PROVE  Ordered(order'[p], Listed(Dir[p])', p)
    BY DEF OrderInv, Ordered
  <1>1. Dir[p] \in Dirs
    BY PortsAssumption
  <1>2. CASE Dir[p] = d
    BY <1>2 DEF Listed
  <1>3. CASE Dir[p] # d
    BY <1>1, <1>3 DEF IInv, OrderInv
  <1> QED
    BY <1>2, <1>3

\* A step of a thread that moves buffers of its port's direction.
LEMMA MovingStep ==
    ASSUME IInv, Apart, NEW t \in Threads, NEW d \in Dirs, d = Dir[arg[t]],
           NEW l, pc' = [pc EXCEPT ![t] = l],
           l \in {"idle", "enabling", "disable", "take", "free", "flags", "disabling"},
           Busy(t) \/ (l = "idle" /\ live' = live),
           arg' = arg, raising' = raising, flags \subseteq flags',
           \A u \in Threads : u # t => prev'[u] = prev[u] /\ batch'[u] = batch[u],
           batch'[t] # {} => l = "free",
           \A e \in Dirs : e # d => Listed(e)' = Listed(e),
           \A p \in Ports : Dir[p] # d => order'[p] = order[p],
           TypeOK', ListInv', PlaceInv', OrderInv'
    PROVE  IInv'
  <1> USE DEF IInv
  <1>1. /\ pc'[t] = l
        /\ \A u \in Threads : u # t => pc'[u] = pc[u]
    BY DEF TypeOK, ThreadsOK
  <1>2. OneBusy'
    BY StaysOneBusy DEF TypeOK
  <1>3. BatchInv'
    BY <1>1 DEF BatchInv
  <1>4. FreshInv'
    <2> SUFFICES ASSUME NEW u \in Threads, pc'[u] = "allocate"
                 PROVE  BuffersOf(arg'[u]) \cap live' = {}
      BY DEF FreshInv, BuffersOf
    <2>1. u # t /\ pc[u] = "allocate"
      BY <1>1
    <2>2. ~ Busy(t)
      BY <2>1 DEF OneBusy, Busy
    <2> QED
      BY <2>1, <2>2 DEF FreshInv
  <1>5. \A u \in Threads : u # t => arg[u] \in Ports /\ Dir[arg[u]] \in Dirs /\ Dir[arg[u]] # d
    BY OtherThreads DEF TypeOK, ThreadsOK
  <1>6. PrevInv'
    <2> SUFFICES ASSUME NEW u \in Threads, pc'[u] \in {"get", "waiting"}, prev'[u] # Nil
                 PROVE  \E k \in 1 .. Len(Listed(Dir[arg[u]])') :
                            Passed(Listed(Dir[arg[u]])', prev'[u], arg'[u], k)
      BY DEF PrevInv, Passed
    <2>1. u # t
      BY <1>1
    <2>2. Listed(Dir[arg[u]])' = Listed(Dir[arg[u]])
      BY <1>5, <2>1 DEF Listed
    <2> QED
      BY <1>1, <2>1, <2>2 DEF PrevInv
  <1>7. BufferWakes'
    <2> SUFFICES ASSUME NEW u \in Threads, pc'[u] = "waiting", order'[arg'[u]] # <<>>
                 PROVE  DoneFlag[Dir[arg'[u]]] \in flags' \/ Dir[arg'[u]] \in raising'
      BY DEF BufferWakes, WokenByBuffer
    <2>1. u # t
      BY <1>1
    <2>2. order'[arg[u]] = order[arg[u]]
      BY <1>5, <2>1
    <2> QED
      BY <1>1, <2>1, <2>2 DEF BufferWakes, WokenByBuffer
  <1> QED
    BY <1>2, <1>3, <1>4, <1>6, <1>7

\* They find a buffer, and take it.
LEMMA GetFindsKeeps ==
    ASSUME IInv, Apart, NEW t \in Threads, NEW d, GetSearches(t, d),
           FirstOf(Listed(d), arg[t]) # 0
    PROVE  IInv'
  <1> DEFINE s == Listed(d)
             i == FirstOf(Listed(d), arg[t])
             before == IF i - 1 = 0 THEN prev[t] ELSE s[i - 1]
             r == RemoveAt(s, i)
             c == s[i]
             p == arg[t]
  <1>1. pc[t] = "get" /\ Dir[p] = d
    BY DEF GetSearches
  <1>2. p \in Ports /\ d \in Dirs
    BY <1>1, PortsAssumption DEF IInv, TypeOK, ThreadsOK
  <1>3. /\ IsList(next, head[d], s) /\ s \in Seq(Buffers) /\ IsInjective(s) /\ Len(s) \in Nat
        /\ \A b \in Buffers : b \in ToSet(s) <=> b \in InLists /\ Dir[Port(b)] = d
        /\ DOMAIN s = 1 .. Len(s) /\ \A j \in 1 .. Len(s) : s[j] \in Buffers
        /\ ToSet(s) \subseteq Buffers
    BY <1>2, TheList, LenProperties DEF IInv
  <1>4. i \in 1 .. Len(s) /\ Port(c) = p /\ \A j \in 1 .. i - 1 : Port(s[j]) # p
    <2>1. s \in Seq(Buffers)
      BY <1>3
    <2> QED
      BY <2>1, FirstOfPort
  <1>5. /\ prev' = [prev EXCEPT ![t] = Nil]
        /\ block' = [block EXCEPT ![t] = FALSE]
        /\ Unlink(d, c, before)
        /\ held' = held \cup {c}
        /\ order' = [order EXCEPT ![p] = RemoveFirst(@, c)]
        /\ pc' = [pc EXCEPT ![t] = "idle"]
        /\ UNCHANGED <<live, sent, flags, events, on, cmd, raising, arg, batch, num, undo,
                       allocs>>
    <2>1. i # 0
      OBVIOUS
    <2>2. before = IF (IF i = 0 THEN Len(s) ELSE i - 1) = 0 THEN prev[t]
                   ELSE s[IF i = 0 THEN Len(s) ELSE i - 1]
      BY <2>1
    <2> QED
      BY <2>1, <2>2 DEF GetSearches, Goto, FirstOf
  <1> HIDE DEF i, s
  <1>6. c \in Buffers /\ c \in ToSet(s) /\ Dir[Port(c)] = d /\ c # Nil
    <2>1. c \in Buffers /\ c \in ToSet(s)
      BY <1>3, <1>4 DEF ToSet
    <2> QED
      BY <1>3, <2>1, BuffersFinite
  <1>7. i = 1 => before = Nil
    <2> SUFFICES ASSUME i = 1, prev[t] # Nil PROVE FALSE
      OBVIOUS
    <2>1. PICK k \in 1 .. Len(s) : Passed(s, prev[t], p, k)
      BY <1>1 DEF IInv, PrevInv, s
    <2>2. 1 \in 1 .. k
      BY <1>3, <2>1
    <2> QED
      BY <1>4, <2>1, <2>2 DEF Passed
  <1>8. i # 1 => /\ before = s[i - 1] /\ before # Nil /\ before \in Buffers /\ before # c
                 /\ Dir[Port(before)] = d
    <2> SUFFICES ASSUME i # 1
                 PROVE  /\ before = s[i - 1] /\ before # Nil /\ before \in Buffers /\ before # c
                        /\ Dir[Port(before)] = d
      OBVIOUS
    <2>1. i - 1 \in 1 .. Len(s) /\ i - 1 # 0 /\ i - 1 # i
      BY <1>3, <1>4
    <2>2. before = s[i - 1] /\ before \in Buffers /\ before \in ToSet(s)
      BY <1>3, <2>1 DEF ToSet
    <2>3. before # c
      BY <1>3, <1>4, <2>1, <2>2 DEF IsInjective
    <2> QED
      BY <1>3, <2>2, <2>3, BuffersFinite
  <1> HIDE DEF before, r, c, p
  <1>9. /\ next \in [Buffers -> Buffers \cup {Nil}] /\ head \in [Dirs -> Buffers \cup {Nil}]
        /\ order \in [Ports -> Seq(Buffers)]
    BY DEF IInv, TypeOK, ListsOK, Pointers
  <1>10. /\ next' \in [Buffers -> Pointers] /\ head' \in [Dirs -> Pointers]
         /\ \A e \in Dirs : e # d => head'[e] = head[e]
         /\ \A b \in Buffers : Dir[Port(b)] # d => next'[b] = next[b]
         /\ IF i = 1 THEN head'[d] = next[c] /\ next' = [next EXCEPT ![c] = Nil]
                     ELSE /\ head'[d] = head[d]
                          /\ next' = [next EXCEPT ![before] = next[c], ![c] = Nil]
    <2>1. CASE i = 1
      <3>1. head' = [head EXCEPT ![d] = next[c]] /\ next' = [next EXCEPT ![c] = Nil]
        BY <1>5, <1>7, <2>1 DEF Unlink
      <3> QED
        BY <1>2, <1>6, <1>9, <2>1, <3>1 DEF Pointers
    <2>2. CASE i # 1
      <3>1. head' = head /\ next' = [next EXCEPT ![before] = next[c], ![c] = Nil]
        BY <1>5, <1>8, <2>2 DEF Unlink
      <3> QED
        BY <1>6, <1>8, <1>9, <2>2, <3>1 DEF Pointers
    <2> QED
      BY <2>1, <2>2
  <1>11. IsList(next', head'[d], r)
    <2>1. i - 1 \in Int /\ s[i] = c /\ (i # 1 => s[i - 1] = before)
      BY <1>4, <1>8 DEF c
    <2>2. IF i = 1 THEN head'[d] = next[s[i]] /\ next' = [next EXCEPT ![s[i]] = Nil]
                   ELSE /\ head'[d] = head[d]
                        /\ next' = [next EXCEPT ![s[i - 1]] = next[s[i]], ![s[i]] = Nil]
      BY <1>10, <2>1
    <2> QED
      BY <1>3, <1>4, <1>9, <2>2, Unlinked DEF r
  <1>12. r \in Seq(Buffers) /\ ToSet(r) = ToSet(s) \ {c}
    BY <1>3, <1>4, RemoveAtPlaces, RemoveAtElements DEF r, c
  <1>13. \A b \in ToSet(r) : Dir[Port(b)] = d
    BY <1>3, <1>12
  <1>14. /\ ListInv' /\ Listed(d)' = r
         /\ \A e \in Dirs : e # d => Listed(e)' = Listed(e)
         /\ \A b \in Buffers : b \in InLists' <=> IF Dir[Port(b)] = d THEN b \in ToSet(r)
                                                  ELSE b \in InLists
    BY <1>2, <1>10, <1>11, <1>13, OtherLists
  <1>15. /\ \A q \in Ports : IF Dir[q] = d THEN Ordered(order'[q], r, q) ELSE order'[q] = order[q]
         /\ order' \in [Ports -> Seq(Buffers)]
    <2>1. \A q \in Ports : Dir[q] = d => Ordered(order[q], s, q)
      BY DEF IInv, OrderInv, s
    <2>2. ASSUME NEW q \in Ports, Dir[q] = d
          PROVE  /\ q # p => Ordered(order[q], r, q)
                 /\ q = p => /\ RemoveFirst(order[q], c) \in Seq(Buffers)
                             /\ Ordered(RemoveFirst(order[q], c), r, q)
      <3>1. order[q] \in Seq(Buffers) /\ Ordered(order[q], s, q)
        BY <1>9, <2>1, <2>2
      <3>2. /\ Port(s[i]) # q => Ordered(order[q], RemoveAt(s, i), q)
            /\ Port(s[i]) = q => /\ RemoveFirst(order[q], s[i]) \in Seq(Buffers)
                                 /\ Ordered(RemoveFirst(order[q], s[i]), RemoveAt(s, i), q)
        BY <1>3, <1>4, <3>1, OrderedRemove
      <3> QED
        BY <1>4, <3>2 DEF c, r
    <2>3. /\ order'[p] = RemoveFirst(order[p], c)
          /\ \A q \in Ports : q # p => order'[q] = order[q]
      BY <1>2, <1>5, <1>9
    <2>4. RemoveFirst(order[p], c) \in Seq(Buffers)
      BY <1>1, <1>2, <2>2 DEF p
    <2>5. order' \in [Ports -> Seq(Buffers)]
      BY <1>5, <1>9, <2>4
    <2> QED
      BY <1>1, <2>2, <2>3, <2>5 DEF p
  <1>16. OrderInv'
    BY <1>2, <1>14, <1>15, OtherOrders
  <1>17. PlaceInv'
    <2>1. \A b \in Buffers : b \in InLists' <=> b \in InLists /\ b # c
      BY <1>3, <1>6, <1>12, <1>14
    <2>2. InLists' \subseteq Buffers /\ InLists \subseteq Buffers /\ c \in InLists
      BY <1>3, <1>6 DEF InLists
    <2>3. InLists' = InLists \ {c}
      BY <2>1, <2>2
    <2> QED
      BY <1>5, <1>6, <2>2, <2>3 DEF IInv, PlaceInv
  <1>18. TypeOK'
    <2>1. PlacesOK' /\ CompOK'
      BY <1>5, <1>6 DEF IInv, TypeOK, PlacesOK, CompOK
    <2>2. ListsOK'
      BY <1>10, <1>15 DEF ListsOK
    <2>4. ThreadsOK'
      BY <1>5 DEF IInv, TypeOK, ThreadsOK, Labels, Pointers
    <2> QED
      BY <2>1, <2>2, <2>4 DEF TypeOK
  <1>19. \A u \in Threads : u # t => prev'[u] = prev[u] /\ batch'[u] = batch[u]
    BY <1>5 DEF IInv, TypeOK, ThreadsOK
  <1>20. batch'[t] = {}
    BY <1>1, <1>5 DEF IInv, BatchInv
  <1>21. \A q \in Ports : Dir[q] # d => order'[q] = order[q]
    BY <1>15
  <1> QED
    BY <1>1, <1>2, <1>5, <1>14, <1>16, <1>17, <1>18, <1>19, <1>20, <1>21, MovingStep DEF p

\* OMX_FillThisBuffer and OMX_EmptyThisBuffer.
LEMMA SubmitKeeps ==
    ASSUME IInv, Apart, NEW t \in Threads, NEW b \in Buffers, Submit(t, b)
    PROVE  IInv'
  <1>1. /\ pc[t] = "idle" /\ b \in held
        /\ held' = held \ {b} /\ sent' = sent \cup {b}
        /\ UNCHANGED <<head, next, order, live, flags, events, on, cmd, raising, threads, allocs>>
    BY DEF Submit
  <1> DEFINE d == Dir[arg[t]]
  <1>2. d \in Dirs
    BY PortsAssumption DEF IInv, TypeOK, ThreadsOK
  <1>3. \A e \in Dirs : Listed(e)' = Listed(e)
    BY <1>1 DEF Listed
  <1>4. InLists' = InLists
    BY <1>3, BuffersFinite DEF InLists
  <1>5. ListInv' /\ OrderInv'
    BY <1>1, <1>3, PortsAssumption DEF IInv, ListInv, OrderInv
  <1>6. PlaceInv'
    BY <1>1, <1>4 DEF IInv, PlaceInv
  <1>7. TypeOK'
    BY <1>1 DEF IInv, TypeOK, PlacesOK, ListsOK, CompOK, ThreadsOK
  <1>8. pc' = [pc EXCEPT ![t] = "idle"]
    BY <1>1 DEF IInv, TypeOK, ThreadsOK
  <1>9. batch'[t] = {}
    BY <1>1 DEF IInv, BatchInv
  <1> QED
    BY <1>1, <1>2, <1>3, <1>5, <1>6, <1>7, <1>8, <1>9, MovingStep

\* The component gives a buffer back.
LEMMA BufferDoneKeeps ==
    ASSUME IInv, NEW b \in Buffers, NEW d, BufferDone(b, d)
    PROVE  IInv'
  <1> DEFINE s == Listed(d)
             a == Append(s, b)
  <1>1. /\ b \in sent /\ Dir[Port(b)] = d /\ raising = {} /\ LinkLast(d, b)
        /\ sent' = sent \ {b}
        /\ order' = [order EXCEPT ![Port(b)] = Append(@, b)]
        /\ raising' = {d}
        /\ UNCHANGED <<live, held, flags, events, on, cmd, pc, arg, prev, block, batch, num, undo,
                       allocs>>
    BY DEF BufferDone
  <1>2. d \in Dirs /\ Port(b) \in Ports /\ b # Nil
    BY <1>1, BuffersFinite
  <1>3. /\ IsList(next, head[d], s) /\ s \in Seq(Buffers) /\ Len(s) \in Nat
        /\ \A c \in Buffers : c \in ToSet(s) <=> c \in InLists /\ Dir[Port(c)] = d
        /\ DOMAIN s = 1 .. Len(s) /\ (s = <<>> <=> Len(s) = 0)
        /\ ToSet(s) \subseteq Buffers
    BY <1>2, TheList, LenProperties, EmptySeq DEF IInv
  <1>4. b \notin ToSet(s) /\ b \notin InLists
    BY <1>1, <1>3 DEF IInv, PlaceInv
  <1>5. /\ next \in [Buffers -> Buffers \cup {Nil}] /\ head \in [Dirs -> Buffers \cup {Nil}]
        /\ order \in [Ports -> Seq(Buffers)]
    BY DEF IInv, TypeOK, ListsOK, Pointers
  <1>6. IF s = <<>> THEN head' = [head EXCEPT ![d] = b] /\ next' = [next EXCEPT ![b] = Nil]
                    ELSE next' = [next EXCEPT ![Last(s)] = b, ![b] = Nil] /\ head' = head
    BY <1>1 DEF LinkLast
  <1> HIDE DEF s, a
  <1>7. s # <<>> => Last(s) \in ToSet(s) /\ Last(s) \in Buffers /\ Dir[Port(Last(s))] = d
    <2> SUFFICES ASSUME s # <<>>
                 PROVE  Last(s) \in ToSet(s) /\ Last(s) \in Buffers /\ Dir[Port(Last(s))] = d
      OBVIOUS
    <2>1. Len(s) \in 1 .. Len(s)
      BY <1>3
    <2>2. Last(s) \in ToSet(s)
      BY <1>3, <2>1 DEF Last, ToSet
    <2> QED
      BY <1>3, <2>2
  <1>8. /\ next' \in [Buffers -> Pointers] /\ head' \in [Dirs -> Pointers]
        /\ \A e \in Dirs : e # d => head'[e] = head[e]
        /\ \A c \in Buffers : Dir[Port(c)] # d => next'[c] = next[c]
        /\ IF s = <<>> THEN head'[d] = b /\ next' = [next EXCEPT ![b] = Nil]
                       ELSE head'[d] = head[d] /\ next' = [next EXCEPT ![Last(s)] = b, ![b] = Nil]
    <2>1. CASE s = <<>>
      BY <1>1, <1>2, <1>5, <1>6, <2>1 DEF Pointers
    <2>2. CASE s # <<>>
      BY <1>1, <1>2, <1>5, <1>6, <1>7, <2>2 DEF Pointers
    <2> QED
      BY <2>1, <2>2
  <1>9. IsList(next', head'[d], a)
    BY <1>3, <1>4, <1>5, <1>8, Linked DEF a
  <1>10. /\ a \in Seq(Buffers) /\ Len(a) = Len(s) + 1
         /\ \A j \in 1 .. Len(s) : a[j] = s[j]
         /\ \A v : v \in ToSet(a) <=> v \in ToSet(s) \/ v = b
    <2>1. /\ a \in Seq(Buffers) /\ Len(a) = Len(s) + 1 /\ a[Len(s) + 1] = b
          /\ \A j \in 1 .. Len(s) : a[j] = s[j]
      BY <1>3, AppendProperties DEF a
    <2>2. DOMAIN a = 1 .. Len(s) + 1
      BY <2>1, LenProperties
    <2>3. \A j \in 1 .. Len(s) + 1 : j \in 1 .. Len(s) \/ j = Len(s) + 1
      BY <1>3
    <2>4. \A j \in 1 .. Len(s) : j \in 1 .. Len(s) + 1
      BY <1>3
    <2>5. Len(s) + 1 \in 1 .. Len(s) + 1
      BY <1>3
    <2> QED
      BY <1>3, <2>1, <2>2, <2>3, <2>4, <2>5 DEF ToSet
  <1>11. \A c \in ToSet(a) : Dir[Port(c)] = d
    BY <1>1, <1>3, <1>10
  <1>12. /\ ListInv' /\ Listed(d)' = a
         /\ \A e \in Dirs : e # d => Listed(e)' = Listed(e)
         /\ \A c \in Buffers : c \in InLists' <=> IF Dir[Port(c)] = d THEN c \in ToSet(a)
                                                  ELSE c \in InLists
    BY <1>2, <1>8, <1>9, <1>11, OtherLists
  <1>13. /\ \A q \in Ports : IF Dir[q] = d THEN Ordered(order'[q], a, q) ELSE order'[q] = order[q]
         /\ order' \in [Ports -> Seq(Buffers)]
    <2>1. \A q \in Ports : Dir[q] = d => Ordered(order[q], s, q)
      BY DEF IInv, OrderInv, s
    <2>2. ASSUME NEW q \in Ports, Dir[q] = d
          PROVE  /\ q # Port(b) => Ordered(order[q], a, q)
                 /\ q = Port(b) => Ordered(Append(order[q], b), a, q)
      <3>1. order[q] \in Seq(Buffers) /\ Ordered(order[q], s, q) /\ s \in Seq(Buffers)
        BY <1>3, <1>5, <2>1, <2>2
      <3>2. /\ Port(b) # q => Ordered(order[q], Append(s, b), q)
            /\ Port(b) = q => Ordered(Append(order[q], b), Append(s, b), q)
        BY <1>4, <3>1, OrderedAppend
      <3> QED
        BY <3>2 DEF a
    <2>3. /\ order'[Port(b)] = Append(order[Port(b)], b)
          /\ \A q \in Ports : q # Port(b) => order'[q] = order[q]
      BY <1>1, <1>2, <1>5
    <2>4. Append(order[Port(b)], b) \in Seq(Buffers)
      BY <1>2, <1>5, AppendProperties
    <2>5. order' \in [Ports -> Seq(Buffers)]
      BY <1>1, <1>5, <2>4
    <2> QED
      BY <1>1, <2>2, <2>3, <2>5
  <1>14. OrderInv'
    BY <1>2, <1>12, <1>13, OtherOrders
  <1>15. PlaceInv'
    <2>1. \A c \in Buffers : c \in InLists' <=> c \in InLists \/ c = b
      BY <1>1, <1>3, <1>10, <1>12
    <2>2. InLists' \subseteq Buffers /\ InLists \subseteq Buffers
      BY DEF InLists
    <2>3. InLists' = InLists \cup {b}
      BY <2>1, <2>2
    <2> QED
      BY <1>1, <1>4, <2>2, <2>3 DEF IInv, PlaceInv
  <1>16. TypeOK'
    <2>1. PlacesOK' /\ CompOK' /\ ThreadsOK'
      BY <1>1, <1>2 DEF IInv, TypeOK, PlacesOK, CompOK, ThreadsOK
    <2>2. ListsOK'
      BY <1>8, <1>13 DEF ListsOK
    <2> QED
      BY <2>1, <2>2 DEF TypeOK
  <1>17. OneBusy' /\ BatchInv' /\ FreshInv'
    BY <1>1 DEF IInv, OneBusy, BatchInv, FreshInv, Busy
  <1>18. PrevInv'
    <2> SUFFICES ASSUME NEW u \in Threads, pc'[u] \in {"get", "waiting"}, prev'[u] # Nil
                 PROVE  \E k \in 1 .. Len(Listed(Dir[arg[u]])') :
                            Passed(Listed(Dir[arg[u]])', prev'[u], arg'[u], k)
      BY DEF PrevInv, Passed
    <2>1. arg'[u] = arg[u] /\ prev'[u] = prev[u] /\ Dir[arg[u]] \in Dirs
      BY <1>1, PortsAssumption DEF IInv, TypeOK, ThreadsOK
    <2>2. PICK k \in 1 .. Len(Listed(Dir[arg[u]])) :
              Passed(Listed(Dir[arg[u]]), prev[u], arg[u], k)
      BY <1>1 DEF IInv, PrevInv
    <2>3. CASE Dir[arg[u]] # d
      <3>1. Listed(Dir[arg[u]])' = Listed(Dir[arg[u]])
        BY <1>12, <2>1, <2>3 DEF Listed
      <3> QED
        BY <2>1, <2>2, <3>1
    <2>4. CASE Dir[arg[u]] = d
      <3>1. Listed(Dir[arg[u]])' = a
        BY <1>12, <2>1, <2>4 DEF Listed
      <3>2. k \in 1 .. Len(s) /\ Passed(s, prev[u], arg[u], k)
        BY <2>2, <2>4 DEF s
      <3>3. k \in 1 .. Len(a) /\ \A j \in 1 .. k : j \in 1 .. Len(s)
        BY <1>3, <1>10, <3>2
      <3>4. Passed(a, prev[u], arg[u], k)
        BY <1>10, <3>2, <3>3 DEF Passed
      <3> QED
        BY <2>1, <3>1, <3>3, <3>4
    <2> QED
      BY <2>3, <2>4
  <1>19. BufferWakes'
    <2> SUFFICES ASSUME NEW u \in Threads, pc'[u] = "waiting", order'[arg'[u]] # <<>>
                 PROVE  DoneFlag[Dir[arg'[u]]] \in flags' \/ Dir[arg'[u]] \in raising'
      BY DEF BufferWakes, WokenByBuffer
    <2>1. CASE Dir[arg[u]] = d
      BY <1>1, <2>1
    <2>2. CASE Dir[arg[u]] # d
      <3>1. arg[u] \in Ports /\ order'[arg[u]] = order[arg[u]]
        BY <1>13, <2>2 DEF IInv, TypeOK, ThreadsOK
      <3> QED
        BY <1>1, <3>1 DEF IInv, BufferWakes, WokenByBuffer
    <2> QED
      BY <2>1, <2>2
  <1> QED
    BY <1>12, <1>14, <1>15, <1>16, <1>17, <1>18, <1>19 DEF IInv

\* The buffers that a thread disables a port with are its batch.
LEMMA DisableOfHeldKeeps ==
    ASSUME IInv, Apart, NEW t \in Threads, DisableBegins(t), on[arg[t]]
    PROVE  IInv'
  <1> DEFINE mine == IF undo[t] THEN {} ELSE held \cap BuffersOf(arg[t])
             l == IF mine = {} THEN "take" ELSE "free"
             d == Dir[arg[t]]
  <1>1. /\ pc[t] = "disable"
        /\ cmd' = [cmd EXCEPT ![arg[t]] = "disable"]
        /\ num' = [num EXCEPT ![t] = Count[arg[t]]]
        /\ batch' = [batch EXCEPT ![t] = mine]
        /\ held' = held \ mine
        /\ pc' = [pc EXCEPT ![t] = l]
        /\ UNCHANGED <<head, next, order, live, sent, on, raising, arg, prev, block, undo, allocs>>
    BY DEF DisableBegins, Goto
  <1>2. /\ flags' = flags \/ flags' = flags \cup {"EVENT_ERROR"}
        /\ events' = events \/ events' = events \cup {Error}
    BY DEF DisableBegins
  <1>3. mine \subseteq held /\ (mine # {} => l = "free") /\ l \in {"take", "free"}
    OBVIOUS
  <1>4. arg[t] \in Ports /\ d \in Dirs /\ Count[arg[t]] \in Int
    BY PortsAssumption DEF IInv, TypeOK, ThreadsOK
  <1> HIDE DEF mine, l
  <1>5. \A e \in Dirs : Listed(e)' = Listed(e)
    BY <1>1 DEF Listed
  <1>6. InLists' = InLists
    BY <1>5, BuffersFinite DEF InLists
  <1>7. ListInv' /\ OrderInv'
    BY <1>1, <1>5, PortsAssumption DEF IInv, ListInv, OrderInv
  <1>8. TypeOK'
    <2>1. PlacesOK' /\ ListsOK'
      BY <1>1, <1>3 DEF IInv, TypeOK, PlacesOK, ListsOK
    <2>2. ThreadsOK'
      BY <1>1, <1>3, <1>4 DEF IInv, TypeOK, ThreadsOK, Labels
    <2>3. events' \in SUBSET Events
      BY <1>2 DEF IInv, TypeOK, CompOK, Events
    <2>4. CompOK'
      BY <1>1, <1>2, <2>3 DEF IInv, TypeOK, CompOK, Flags
    <2> QED
      BY <2>1, <2>2, <2>4 DEF TypeOK
  <1>9. batch[t] = {} /\ batch'[t] = mine /\ \A u \in Threads : u # t => batch'[u] = batch[u]
    BY <1>1 DEF IInv, BatchInv, TypeOK, PlacesOK
  <1>10. PlaceInv'
    <2>1. held' \cap sent' = {} /\ held' \cap InLists' = {} /\ sent' \cap InLists' = {}
      BY <1>1, <1>6 DEF IInv, PlaceInv
    <2>2. ASSUME NEW u \in Threads
          PROVE  batch'[u] \cap (held' \cup sent' \cup InLists') = {}
      BY <1>1, <1>3, <1>6, <1>9 DEF IInv, PlaceInv
    <2>3. ASSUME NEW u \in Threads, NEW v \in Threads, u # v
          PROVE  batch'[u] \cap batch'[v] = {}
      BY <1>3, <1>9, <2>3 DEF IInv, PlaceInv
    <2>4. ASSUME NEW b \in Buffers
          PROVE  b \in live' <=> \/ b \in held' \cup sent' \cup InLists'
                                 \/ \E u \in Threads : b \in batch'[u]
      <3>1. (\E u \in Threads : b \in batch'[u])
                <=> b \in mine \/ \E u \in Threads : b \in batch[u]
        BY <1>9
      <3> QED
        BY <1>1, <1>3, <1>6, <3>1 DEF IInv, PlaceInv
    <2> QED
      BY <2>1, <2>2, <2>3, <2>4 DEF PlaceInv
  <1>11. Busy(t)
    BY <1>1 DEF Busy
  <1>12. batch'[t] # {} => l = "free"
    BY <1>3, <1>9
  <1> QED
    BY <1>1, <1>2, <1>3, <1>4, <1>5, <1>7, <1>8, <1>9, <1>10, <1>11, <1>12, MovingStep

\* The buffers on the list are the thread's batch.
LEMMA DisableTakesKeeps ==
    ASSUME IInv, Apart, NEW t \in Threads, DisableTakes(t),
           \A b \in ToSet(Listed(Dir[arg[t]])) : Port(b) = arg[t]
    PROVE  IInv'
  <1>0. PICK d \in Dirs : d = Dir[arg[t]]
    BY PortsAssumption DEF IInv, TypeOK, ThreadsOK
  <1> DEFINE p == arg[t]
             s == Listed(d)
             B == ToSet(s)
  <1>1. /\ pc[t] = "take"
        /\ head' = [head EXCEPT ![d] = Nil]
        /\ batch' = [batch EXCEPT ![t] = B]
        /\ order' = [order EXCEPT ![p] = <<>>]
        /\ pc' = [pc EXCEPT ![t] = "free"]
        /\ UNCHANGED <<next, live, held, sent, flags, events, on, cmd, raising, arg, prev, block,
                       num, undo, allocs>>
    BY <1>0 DEF DisableTakes, Goto
  <1>2. p \in Ports /\ d \in Dirs
    BY DEF IInv, TypeOK, ThreadsOK
  <1>3. /\ \A b \in Buffers : b \in B <=> b \in InLists /\ Dir[Port(b)] = d
        /\ B \subseteq Buffers
        /\ \A b \in B : Port(b) = p
    BY <1>0, <1>2, TheList DEF IInv
  <1>4. /\ next \in [Buffers -> Buffers \cup {Nil}] /\ head \in [Dirs -> Buffers \cup {Nil}]
        /\ order \in [Ports -> Seq(Buffers)]
        /\ batch \in [Threads -> SUBSET Buffers]
    BY DEF IInv, TypeOK, ListsOK, PlacesOK, Pointers
  <1>5. \A q \in Ports : Dir[q] = d => {b \in B : Port(b) = q} = ToSet(order[q])
    BY DEF IInv, OrderInv, Ordered
  <1> HIDE DEF B, s, p
  <1>6. head'[d] = Nil /\ \A e \in Dirs : e # d => head'[e] = head[e]
    BY <1>1, <1>2, <1>4
  <1>7. IsList(next', head'[d], <<>>) /\ \A b \in ToSet(<<>>) : Dir[Port(b)] = d
    BY <1>6, EmptyList
  <1>8. /\ ListInv' /\ Listed(d)' = <<>>
        /\ \A e \in Dirs : e # d => Listed(e)' = Listed(e)
        /\ \A b \in Buffers : b \in InLists' <=> IF Dir[Port(b)] = d THEN b \in ToSet(<<>>)
                                                 ELSE b \in InLists
    BY <1>1, <1>2, <1>6, <1>7, OtherLists
  <1>9. \A q \in Ports : IF Dir[q] = d THEN Ordered(order'[q], <<>>, q) ELSE order'[q] = order[q]
    <2> SUFFICES ASSUME NEW q \in Ports
                 PROVE  IF Dir[q] = d THEN Ordered(order'[q], <<>>, q) ELSE order'[q] = order[q]
      OBVIOUS
    <2>1. CASE q = p
      <3>1. order'[q] = <<>> /\ Dir[q] = d
        BY <1>0, <1>1, <1>4, <2>1 DEF p
      <3>2. Ordered(<<>>, <<>>, q)
        BY EmptyList DEF Ordered
      <3> QED
        BY <3>1, <3>2
    <2>2. CASE q # p
      <3>1. order'[q] = order[q]
        BY <1>1, <1>4, <2>2
      <3>2. Dir[q] = d => ToSet(order[q]) = {}
        BY <1>3, <1>5, <2>2
      <3>3. Dir[q] = d => Ordered(order[q], <<>>, q)
        BY <3>2, EmptyList DEF Ordered
      <3> QED
        BY <3>1, <3>3
    <2> QED
      BY <2>1, <2>2
  <1>10. OrderInv'
    BY <1>2, <1>8, <1>9, OtherOrders
  <1>11. batch[t] = {} /\ batch'[t] = B /\ \A u \in Threads : u # t => batch'[u] = batch[u]
    BY <1>1, <1>4 DEF IInv, BatchInv
  <1>12. InLists' = InLists \ B /\ B \subseteq InLists
    <2>1. \A b \in Buffers : b \in InLists' <=> b \in InLists /\ b \notin B
      BY <1>3, <1>8, EmptyList
    <2>2. InLists' \subseteq Buffers /\ InLists \subseteq Buffers
      BY DEF InLists
    <2> QED
      BY <1>3, <2>1, <2>2
  <1>13. PlaceInv'
    <2>1. held' \cap sent' = {} /\ held' \cap InLists' = {} /\ sent' \cap InLists' = {}
      BY <1>1, <1>12 DEF IInv, PlaceInv
    <2>2. ASSUME NEW u \in Threads
          PROVE  batch'[u] \cap (held' \cup sent' \cup InLists') = {}
      BY <1>1, <1>11, <1>12 DEF IInv, PlaceInv
    <2>3. ASSUME NEW u \in Threads, NEW v \in Threads, u # v
          PROVE  batch'[u] \cap batch'[v] = {}
      BY <1>11, <1>12, <2>3 DEF IInv, PlaceInv
    <2>4. ASSUME NEW b \in Buffers
          PROVE  b \in live' <=> \/ b \in held' \cup sent' \cup InLists'
                                 \/ \E u \in Threads : b \in batch'[u]
      <3>1. (\E u \in Threads : b \in batch'[u]) <=> b \in B \/ \E u \in Threads : b \in batch[u]
        BY <1>11
      <3> QED
        BY <1>1, <1>12, <3>1 DEF IInv, PlaceInv
    <2> QED
      BY <2>1, <2>2, <2>3, <2>4 DEF PlaceInv
  <1>14. TypeOK'
    <2>1. PlacesOK' /\ CompOK' /\ ThreadsOK'
      BY <1>1, <1>3 DEF IInv, TypeOK, PlacesOK, CompOK, ThreadsOK, Labels
    <2>2. ListsOK'
      BY <1>1, <1>4, EmptyList DEF ListsOK, Pointers
    <2> QED
      BY <2>1, <2>2 DEF TypeOK
  <1>15. Busy(t)
    BY <1>1 DEF Busy
  <1>16. \A q \in Ports : Dir[q] # d => order'[q] = order[q]
    BY <1>9
  <1> QED
    BY <1>0, <1>1, <1>8, <1>10, <1>11, <1>13, <1>14, <1>15, <1>16, MovingStep, ZenonT(30)

\* The batch is freed.
LEMMA DisableFreesKeeps ==
    ASSUME IInv, Apart, NEW t \in Threads, DisableFrees(t)
    PROVE  IInv'
  <1> DEFINE l == IF num[t] = Cardinality(batch[t]) THEN "disabling" ELSE "flags"
             d == Dir[arg[t]]
             rest == num[t] - Cardinality(batch[t])
  <1>1. /\ pc[t] = "free"
        /\ live' = live \ batch[t]
        /\ num' = [num EXCEPT ![t] = rest]
        /\ batch' = [batch EXCEPT ![t] = {}]
        /\ pc' = [pc EXCEPT ![t] = l]
        /\ UNCHANGED <<head, next, order, held, sent, flags, events, on, cmd, raising, arg, prev,
                       block, undo, allocs>>
    BY DEF DisableFrees, Goto
  <1>2. d \in Dirs /\ l \in {"disabling", "flags"}
    BY PortsAssumption DEF IInv, TypeOK, ThreadsOK
  <1>3. rest \in Int
    <2>1. batch[t] \subseteq Buffers /\ num[t] \in Int
      BY DEF IInv, TypeOK, PlacesOK, ThreadsOK
    <2>2. Cardinality(batch[t]) \in Nat
      BY <2>1, BuffersFinite, FS_Subset, FS_CardinalityType
    <2> QED
      BY <2>1, <2>2
  <1> HIDE DEF l, rest
  <1>4. \A e \in Dirs : Listed(e)' = Listed(e)
    BY <1>1 DEF Listed
  <1>5. InLists' = InLists
    BY <1>4, BuffersFinite DEF InLists
  <1>6. ListInv' /\ OrderInv'
    BY <1>1, <1>4, PortsAssumption DEF IInv, ListInv, OrderInv
  <1>7. TypeOK'
    <2>1. PlacesOK' /\ ListsOK' /\ CompOK'
      BY <1>1 DEF IInv, TypeOK, PlacesOK, ListsOK, CompOK
    <2>2. ThreadsOK'
      BY <1>1, <1>2, <1>3 DEF IInv, TypeOK, ThreadsOK, Labels
    <2> QED
      BY <2>1, <2>2 DEF TypeOK
  <1>8. batch'[t] = {} /\ \A u \in Threads : u # t => batch'[u] = batch[u]
    BY <1>1 DEF IInv, TypeOK, PlacesOK
  <1>9. PlaceInv'
    <2>1. held' \cap sent' = {} /\ held' \cap InLists' = {} /\ sent' \cap InLists' = {}
      BY <1>1, <1>5 DEF IInv, PlaceInv
    <2>2. ASSUME NEW u \in Threads
          PROVE  batch'[u] \cap (held' \cup sent' \cup InLists') = {}
      BY <1>1, <1>5, <1>8 DEF IInv, PlaceInv
    <2>3. ASSUME NEW u \in Threads, NEW v \in Threads, u # v
          PROVE  batch'[u] \cap batch'[v] = {}
      BY <1>8, <2>3 DEF IInv, PlaceInv
    <2>4. ASSUME NEW b \in Buffers
          PROVE  b \in live' <=> \/ b \in held' \cup sent' \cup InLists'
                                 \/ \E u \in Threads : b \in batch'[u]
      <3>1. CASE b \in batch[t]
        <4>1. b \notin live' /\ b \notin held' \cup sent' \cup InLists'
          BY <1>1, <1>5, <3>1 DEF IInv, PlaceInv
        <4>2. \A u \in Threads : b \notin batch'[u]
          BY <1>8, <3>1 DEF IInv, PlaceInv
        <4> QED
          BY <4>1, <4>2
      <3>2. CASE b \notin batch[t]
        <4>1. (\E u \in Threads : b \in batch'[u]) <=> \E u \in Threads : b \in batch[u]
          BY <1>8, <3>2
        <4> QED
          BY <1>1, <1>5, <3>2, <4>1 DEF IInv, PlaceInv
      <3> QED
        BY <3>1, <3>2
    <2> QED
      BY <2>1, <2>2, <2>3, <2>4 DEF PlaceInv
  <1>10. Busy(t)
    BY <1>1 DEF Busy
  <1> QED
    BY <1>1, <1>2, <1>4, <1>6, <1>7, <1>8, <1>9, <1>10, MovingStep

\* The place of a buffer in a sequence.
PlaceOf(s, b) == SelectInSeq(s, LAMBDA c : c = b)

LEMMA PlaceOfElement ==
    ASSUME NEW s \in Seq(Buffers), IsInjective(s)
    PROVE  /\ \A i \in 1 .. Len(s) : PlaceOf(s, s[i]) = i
           /\ \A b : b \notin ToSet(s) => PlaceOf(s, b) = 0
  <1> DEFINE I(b) == {j \in 1 .. Len(s) : s[j] = b}
  <1>1. Len(s) \in Nat /\ DOMAIN s = 1 .. Len(s)
    BY LenProperties
  <1>2. \A b : PlaceOf(s, b) = IF I(b) # {} THEN Min(I(b)) ELSE 0
    BY DEF PlaceOf, SelectInSeq
  <1>3. ASSUME NEW i \in 1 .. Len(s)
        PROVE  PlaceOf(s, s[i]) = i
    <2>1. I(s[i]) = {i}
      BY <1>1 DEF IsInjective
    <2>2. Min({i}) \in {i}
      <3>1. {i} \in SUBSET (1 .. Len(s)) /\ {i} # {}
        OBVIOUS
      <3> QED
        BY <1>1, <3>1, FirstPlace
    <2>3. {i} # {}
      OBVIOUS
    <2>4. PlaceOf(s, s[i]) = Min(I(s[i]))
      BY <1>2, <2>1, <2>3
    <2> QED
      BY <2>1, <2>2, <2>4
  <1>4. ASSUME NEW b, b \notin ToSet(s)
        PROVE  PlaceOf(s, b) = 0
    <2>1. I(b) = {}
      BY <1>1, <1>4 DEF ToSet
    <2> QED
      BY <1>2, <2>1
  <1> QED
    BY <1>3, <1>4

\* The first k buffers of a port, as they are allocated.
NewBuffers(p, k) == [i \in 1 .. k |-> <<p, i>>]

LEMMA NewOnes ==
    ASSUME NEW p \in Ports, NEW k \in 0 .. Count[p]
    PROVE  /\ NewBuffers(p, k) \in Seq(Buffers) /\ Len(NewBuffers(p, k)) = k
           /\ IsInjective(NewBuffers(p, k))
           /\ ToSet(NewBuffers(p, k)) = {<<p, i>> : i \in 1 .. k}
           /\ ToSet(NewBuffers(p, k)) \subseteq BuffersOf(p)
  <1> DEFINE q == NewBuffers(p, k)
  <1>1. k \in Nat /\ Count[p] \in Nat /\ \A i \in 1 .. k : i \in 1 .. Count[p]
    BY PortsAssumption
  <1>2. \A i \in 1 .. k : <<p, i>> \in Buffers /\ Port(<<p, i>>) = p
    BY <1>1 DEF Buffers, Port
  <1>3. DOMAIN q = 1 .. k /\ \A i \in 1 .. k : q[i] = <<p, i>>
    BY DEF NewBuffers
  <1>4. q \in Seq(Buffers) /\ Len(q) = k
    <2>1. q \in [1 .. k -> Buffers]
      BY <1>2 DEF NewBuffers
    <2> QED
      BY <1>1, <2>1, SeqDef, LenProperties
  <1>5. IsInjective(q)
    BY <1>3 DEF IsInjective
  <1>6. ToSet(q) = {<<p, i>> : i \in 1 .. k}
    BY <1>3 DEF ToSet
  <1>7. ToSet(q) \subseteq BuffersOf(p)
    BY <1>2, <1>6 DEF BuffersOf
  <1> QED
    BY <1>4, <1>5, <1>6, <1>7

\* Buffers are allocated for a port that had none.
LEMMA AllocatesKeeps ==
    ASSUME IInv, Apart, NEW t \in Threads, Allocates(t)
    PROVE  IInv'
  <1>1. PICK d \in Dirs, p \in Ports : p = arg[t] /\ d = Dir[p]
    BY PortsAssumption DEF IInv, TypeOK, ThreadsOK
  <1>2. PICK k \in 0 .. Count[p] :
           /\ Queue(d, NewBuffers(p, k))
           /\ live' = live \cup {<<p, i>> : i \in 1 .. k}
           /\ order' = [order EXCEPT ![p] = NewBuffers(p, k) \o @]
           /\ undo' = [undo EXCEPT ![t] = k # Count[p]]
           /\ pc' = [pc EXCEPT ![t] = IF k = Count[p] THEN "enabling" ELSE "disable"]
    <2>1. PICK k \in 0 .. Count[arg[t]] :
             /\ Queue(Dir[arg[t]], NewBuffers(arg[t], k))
             /\ live' = live \cup {<<arg[t], i>> : i \in 1 .. k}
             /\ order' = [order EXCEPT ![arg[t]] = NewBuffers(arg[t], k) \o @]
             /\ undo' = [undo EXCEPT ![t] = k # Count[arg[t]]]
             /\ pc' = [pc EXCEPT ![t] = IF k = Count[arg[t]] THEN "enabling" ELSE "disable"]
      BY Zenon DEF Allocates, Goto, NewBuffers
    <2> QED
      BY <1>1, <2>1
  <1>3. /\ pc[t] = "allocate"
        /\ UNCHANGED <<held, sent, flags, events, on, cmd, raising, arg, prev, block, batch, num,
                       allocs>>
    BY DEF Allocates
  <1> DEFINE q == NewBuffers(p, k)
             s == Listed(d)
             c == q \o s
             N == ToSet(q)
             l == IF k = Count[p] THEN "enabling" ELSE "disable"
             failed == k # Count[p]
  <1>4. /\ q \in Seq(Buffers) /\ IsInjective(q) /\ N \subseteq BuffersOf(p)
        /\ live' = live \cup N
    BY <1>2, NewOnes
  <1>5. \A b \in N : b \in Buffers /\ Port(b) = p /\ b \notin live
    BY <1>1, <1>3, <1>4 DEF IInv, FreshInv, BuffersOf
  <1>6. /\ IsList(next, head[d], s) /\ s \in Seq(Buffers) /\ Len(s) \in Nat
        /\ \A b \in Buffers : b \in ToSet(s) <=> b \in InLists /\ Dir[Port(b)] = d
        /\ ToSet(s) \subseteq Buffers
    BY TheList DEF IInv
  <1>7. InLists \subseteq live /\ held \subseteq live /\ sent \subseteq live
        /\ \A u \in Threads : batch[u] \subseteq live
    BY DEF IInv, PlaceInv, TypeOK, PlacesOK, InLists
  <1>8. N \cap ToSet(s) = {} /\ N \cap InLists = {}
    BY <1>5, <1>6, <1>7
  <1>9. /\ next \in [Buffers -> Buffers \cup {Nil}] /\ head \in [Dirs -> Buffers \cup {Nil}]
        /\ order \in [Ports -> Seq(Buffers)]
    BY DEF IInv, TypeOK, ListsOK, Pointers
  <1>10. /\ head' = [head EXCEPT ![d] = IF q = <<>> THEN @ ELSE q[1]]
         /\ next' = [b \in Buffers |-> IF PlaceOf(q, b) = 0 THEN next[b]
                                       ELSE IF PlaceOf(q, b) = Len(q) THEN head[d]
                                       ELSE q[PlaceOf(q, b) + 1]]
    BY <1>2 DEF Queue, PlaceOf
  <1>11. /\ l \in {"enabling", "disable"} /\ pc' = [pc EXCEPT ![t] = l]
         /\ failed \in BOOLEAN /\ undo' = [undo EXCEPT ![t] = failed]
         /\ order' = [order EXCEPT ![p] = q \o @]
    BY <1>2
  <1> HIDE DEF q, s, c, N, l, failed
  <1>12. /\ Len(q) \in Nat /\ DOMAIN q = 1 .. Len(q) /\ (q = <<>> <=> Len(q) = 0)
         /\ \A i \in 1 .. Len(q) : q[i] \in Buffers /\ q[i] \in N
    BY <1>4, LenProperties, EmptySeq DEF N, ToSet
  <1>13. /\ \A i \in 1 .. Len(q) : PlaceOf(q, q[i]) = i /\ i # 0
         /\ \A b : b \notin N => PlaceOf(q, b) = 0
    BY <1>4, <1>12, PlaceOfElement DEF N
  <1>14. /\ \A i \in 1 .. Len(q) : next'[q[i]] = IF i = Len(q) THEN head[d] ELSE q[i + 1]
         /\ \A b \in Buffers : b \notin N => next'[b] = next[b]
    BY <1>10, <1>12, <1>13
  <1>15. next' \in [Buffers -> Pointers]
    <2> SUFFICES ASSUME NEW b \in Buffers
                 PROVE  next'[b] \in Pointers
      BY <1>10
    <2>1. CASE b \notin N
      BY <1>9, <1>14, <2>1 DEF Pointers
    <2>2. CASE b \in N
      <3>1. PICK i \in 1 .. Len(q) : q[i] = b
        BY <1>12, <2>2 DEF N, ToSet
      <3> DEFINE m == Len(q)
      <3>2. i # m => i + 1 \in 1 .. m
        <4>1. m \in Nat /\ i \in 1 .. m
          BY <1>12
        <4> HIDE DEF m
        <4> QED
          BY <4>1
      <3>3. head[d] \in Pointers /\ (i # Len(q) => q[i + 1] \in Pointers)
        BY <1>9, <1>12, <3>2 DEF Pointers
      <3> QED
        BY <1>14, <3>1, <3>3
    <2> QED
      BY <2>1, <2>2
  <1>16. /\ head'[d] = IF q = <<>> THEN head[d] ELSE q[1]
         /\ \A e \in Dirs : e # d => head'[e] = head[e]
         /\ head' \in [Dirs -> Pointers]
    <2>1. q # <<>> => q[1] \in Buffers
      BY <1>12
    <2>2. (IF q = <<>> THEN head[d] ELSE q[1]) \in Pointers
      BY <1>9, <2>1 DEF Pointers
    <2> QED
      BY <1>9, <1>10, <2>2 DEF Pointers
  <1>17. IsList(next', head'[d], c)
    <2>1. ToSet(q) \cap ToSet(s) = {} /\ \A b \in ToSet(s) : next'[b] = next[b]
      BY <1>6, <1>8, <1>14 DEF N
    <2> QED
      BY <1>4, <1>6, <1>14, <1>16, <2>1, Queued DEF c
  <1>18. c \in Seq(Buffers) /\ ToSet(c) = N \cup ToSet(s)
    BY <1>4, <1>6, ConcatElements, ConcatProperties DEF c, N
  <1>19. /\ \A b \in ToSet(c) : Dir[Port(b)] = d
         /\ \A b \in Buffers : Dir[Port(b)] # d => next'[b] = next[b]
    BY <1>1, <1>5, <1>6, <1>14, <1>18
  <1>20. /\ ListInv' /\ Listed(d)' = c
         /\ \A e \in Dirs : e # d => Listed(e)' = Listed(e)
         /\ \A b \in Buffers : b \in InLists' <=> IF Dir[Port(b)] = d THEN b \in ToSet(c)
                                                  ELSE b \in InLists
    BY <1>16, <1>17, <1>19, OtherLists
  <1>21. /\ \A r \in Ports : IF Dir[r] = d THEN Ordered(order'[r], c, r) ELSE order'[r] = order[r]
         /\ order' \in [Ports -> Seq(Buffers)]
    <2>1. \A r \in Ports : Dir[r] = d => Ordered(order[r], s, r)
      BY DEF IInv, OrderInv, s
    <2>2. ASSUME NEW r \in Ports, Dir[r] = d
          PROVE  /\ r # p => Ordered(order[r], c, r)
                 /\ r = p => Ordered(q \o order[r], c, r)
      <3>1. order[r] \in Seq(Buffers) /\ Ordered(order[r], s, r) /\ s \in Seq(Buffers)
            /\ ToSet(q) \cap ToSet(s) = {} /\ q \in Seq(Buffers) /\ IsInjective(q)
        BY <1>4, <1>6, <1>8, <1>9, <2>1, <2>2 DEF N
      <3>2. /\ (\A b \in ToSet(q) : Port(b) # r) => Ordered(order[r], q \o s, r)
            /\ (\A b \in ToSet(q) : Port(b) = r) => Ordered(q \o order[r], q \o s, r)
        BY <3>1, OrderedQueue
      <3> QED
        BY <1>5, <3>2 DEF c, N
    <2>3. /\ order'[p] = q \o order[p]
          /\ \A r \in Ports : r # p => order'[r] = order[r]
      BY <1>9, <1>11
    <2>4. q \o order[p] \in Seq(Buffers)
      BY <1>4, <1>9, ConcatProperties
    <2>5. order' \in [Ports -> Seq(Buffers)]
      BY <1>9, <1>11, <2>4
    <2> QED
      BY <1>1, <2>2, <2>3, <2>5
  <1>22. OrderInv'
    BY <1>20, <1>21, OtherOrders
  <1>23. InLists' = InLists \cup N
    <2>1. \A b \in Buffers : b \in InLists' <=> b \in InLists \/ b \in N
      BY <1>1, <1>5, <1>6, <1>18, <1>20
    <2>2. InLists' \subseteq Buffers /\ InLists \subseteq Buffers /\ N \subseteq Buffers
      BY <1>5 DEF InLists
    <2> QED
      BY <2>1, <2>2
  <1>24. PlaceInv'
    <2>1. N \cap held = {} /\ N \cap sent = {} /\ \A u \in Threads : batch[u] \cap N = {}
      BY <1>5, <1>7
    <2> QED
      BY <1>3, <1>4, <1>8, <1>23, <2>1 DEF IInv, PlaceInv
  <1>25. TypeOK'
    <2>1. PlacesOK' /\ CompOK'
      BY <1>3, <1>4, <1>5 DEF IInv, TypeOK, PlacesOK, CompOK
    <2>2. ThreadsOK'
      BY <1>3, <1>11 DEF IInv, TypeOK, ThreadsOK, Labels
    <2>3. ListsOK'
      BY <1>15, <1>16, <1>21 DEF ListsOK
    <2> QED
      BY <2>1, <2>2, <2>3 DEF TypeOK
  <1>26. Busy(t)
    BY <1>3 DEF Busy
  <1>27. batch'[t] = {} /\ \A r \in Ports : Dir[r] # d => order'[r] = order[r]
    BY <1>3, <1>21 DEF IInv, BatchInv
  <1> QED
    BY <1>1, <1>3, <1>11, <1>20, <1>22, <1>24, <1>25, <1>26, <1>27, MovingStep

-----------------------------------------------------------------------------
(* The theorems *)

\* Every step keeps the invariant.
LEMMA GetStepKeeps ==
    ASSUME IInv, Apart, NEW t \in Threads, GetStep(t)
    PROVE  IInv'
  <1>1. ASSUME NEW d, GetSearches(t, d)
        PROVE  IInv'
    BY <1>1, GetFindsNothingKeeps, GetFindsKeeps
  <1>2. ASSUME NEW d, GetWakes(t, d)
        PROVE  IInv'
    BY <1>2, GetWakesKeeps
  <1> QED
    BY <1>1, <1>2 DEF GetStep, GetOutputBuffer, GetInputBuffer

LEMMA PortStepKeeps ==
    ASSUME IInv, Apart, NEW t \in Threads, PortStep(t)
    PROVE  IInv'
  <1>1. CASE Allocates(t)
    BY <1>1, AllocatesKeeps
  <1>2. CASE EnableEnds(t)
    BY <1>2, EnableEndsKeeps
  <1>9. CASE CommandWakes(t)
    BY <1>9, CommandWakesKeeps
  <1>3. CASE EnableFails(t)
    BY <1>3, EnableFailsKeeps
  <1>4. CASE DisableBegins(t)
    BY <1>4, DisableOfNothingKeeps, DisableOfHeldKeeps
  <1>5. CASE DisableTakes(t)
    BY <1>5, DisableLosesItsWayKeeps, DisableTakesKeeps
  <1>6. CASE DisableFrees(t)
    BY <1>6, DisableFreesKeeps
  <1>7. CASE DisableWakes(t)
    BY <1>7, DisableWakesKeeps
  <1>8. CASE DisableEnds(t)
    BY <1>8, DisableEndsKeeps
  <1> QED
    BY <1>1, <1>2, <1>3, <1>4, <1>5, <1>6, <1>7, <1>8, <1>9 DEF PortStep

LEMMA CompStepKeeps ==
    ASSUME IInv, CompStep
    PROVE  IInv'
  <1>1. ASSUME NEW p \in Ports, PortReturns(p)
        PROVE  IInv'
    <2>1. PICK b \in BuffersOf(p) : FillBufferDone(b) \/ EmptyBufferDone(b)
      BY <1>1 DEF PortReturns
    <2>2. b \in Buffers /\ (BufferDone(b, "out") \/ BufferDone(b, "in"))
      BY <2>1 DEF BuffersOf, FillBufferDone, EmptyBufferDone
    <2> QED
      BY <2>2, BufferDoneKeeps
  <1>2. ASSUME NEW p \in Ports, PortAnswers(p) \/ PortRefused(p)
        PROVE  IInv'
    BY <1>2, AnswersKeep
  <1> QED
    BY <1>1, <1>2, RaiseDoneKeeps DEF CompStep

LEMMA NextKeeps ==
    ASSUME Apart, IInv, [Next]_vars
    PROVE  IInv'
  <1>1. ASSUME NEW t \in Threads, GetStep(t) \/ PortStep(t)
        PROVE  IInv'
    BY <1>1, GetStepKeeps, PortStepKeeps
  <1>2. ASSUME NEW t \in Threads, NEW p \in Ports,
               GetBegins(t, p) \/ EnableBegins(t, p) \/ DisableCalled(t, p)
        PROVE  IInv'
    BY <1>2, GetBeginsKeeps, EnableBeginsKeeps, DisableCalledKeeps
  <1>3. ASSUME NEW t \in Threads, NEW b \in Buffers, Submit(t, b)
        PROVE  IInv'
    BY <1>3, SubmitKeeps
  <1>4. CASE CompStep
    BY <1>4, CompStepKeeps
  <1>5. CASE UNCHANGED vars
    <2>1. UNCHANGED <<head, next, order, live, held, sent, threads, allocs>> /\ CompOK'
          /\ flags' = flags /\ raising' = raising
      BY <1>5 DEF vars, IInv, TypeOK, CompOK
    <2> QED
      BY <2>1, QuietAnswer
  <1> QED
    BY <1>1, <1>2, <1>3, <1>4, <1>5 DEF Next

\* Invariant.  The inductive invariant holds: the lists are lists, of different buffers of their
\* direction, each live buffer is in one place, prev points into the part of the list that
\* was searched, and so on.
THEOREM Invariant ==
    ASSUME Apart
    PROVE  Spec => []IInv
  <1>1. Init => IInv
    BY InitHolds
  <1>2. IInv /\ [Next]_vars => IInv'
    BY NextKeeps
  <1> QED
    BY <1>1, <1>2, PTL DEF Spec

\* A buffer is in one of the places if and only if it is live.
LEMMA OnePlace ==
    ASSUME IInv
    PROVE  BuffersConserved
  <1>1. \A d \in Dirs : IsInjective(Listed(d)) /\ Len(Listed(d)) <= Cardinality(Buffers)
    <2> SUFFICES ASSUME NEW d \in Dirs
                 PROVE  IsInjective(Listed(d)) /\ Len(Listed(d)) <= Cardinality(Buffers)
      OBVIOUS
    <2>1. Listed(d) \in Seq(Buffers) /\ IsInjective(Listed(d))
      BY TheList DEF IInv
    <2> QED
      BY <2>1, ListIsShort
  <1>2. ASSUME NEW b \in Buffers
        PROVE  (IF b \in held THEN 1 ELSE 0) + (IF b \in sent THEN 1 ELSE 0)
               + Cardinality({t \in Threads : b \in batch[t]})
               + Cardinality({d \in Dirs : b \in ToSet(Listed(d))})
                   = IF b \in live THEN 1 ELSE 0
    <2> DEFINE T == {t \in Threads : b \in batch[t]}
               D == {d \in Dirs : b \in ToSet(Listed(d))}
    <2>1. /\ Cardinality({}) = 0
          /\ \A x : Cardinality({x}) = 1
      BY FS_EmptySet, FS_Singleton
    <2>2. D = IF b \in InLists THEN {Dir[Port(b)]} ELSE {}
      <3>1. Dir[Port(b)] \in Dirs
        BY BuffersFinite
      <3>2. \A d \in Dirs : b \in ToSet(Listed(d)) <=> b \in InLists /\ d = Dir[Port(b)]
        BY TheList DEF IInv
      <3> QED
        BY <3>1, <3>2
    <2>3. Cardinality(D) = IF b \in InLists THEN 1 ELSE 0
      BY <2>1, <2>2
    <2>4. Cardinality(T) = IF \E t \in Threads : b \in batch[t] THEN 1 ELSE 0
      <3>1. CASE \E t \in Threads : b \in batch[t]
        <4>1. PICK t \in Threads : b \in batch[t]
          BY <3>1
        <4>2. T = {t}
          BY <4>1 DEF IInv, PlaceInv
        <4> QED
          BY <2>1, <3>1, <4>2
      <3>2. CASE ~ \E t \in Threads : b \in batch[t]
        <4>1. T = {}
          BY <3>2
        <4> QED
          BY <2>1, <3>2, <4>1
      <3> QED
        BY <3>1, <3>2
    <2> HIDE DEF T, D
    <2>5. /\ ~ (b \in held /\ b \in sent)
          /\ ~ (b \in held /\ b \in InLists)
          /\ ~ (b \in sent /\ b \in InLists)
          /\ (\E t \in Threads : b \in batch[t]) => b \notin held /\ b \notin sent /\ b \notin InLists
          /\ b \in live <=> \/ b \in held \/ b \in sent \/ b \in InLists
                            \/ \E t \in Threads : b \in batch[t]
      BY DEF IInv, PlaceInv
    <2>6. (IF b \in held THEN 1 ELSE 0) + (IF b \in sent THEN 1 ELSE 0)
          + Cardinality(T) + Cardinality(D) = IF b \in live THEN 1 ELSE 0
      <3> DEFINE inBatch == \E t \in Threads : b \in batch[t]
      <3>1. Cardinality(T) = IF inBatch THEN 1 ELSE 0
        BY <2>4
      <3>2. /\ ~ (b \in held /\ b \in sent)
            /\ ~ (b \in held /\ b \in InLists)
            /\ ~ (b \in sent /\ b \in InLists)
            /\ inBatch => b \notin held /\ b \notin sent /\ b \notin InLists
            /\ b \in live <=> b \in held \/ b \in sent \/ b \in InLists \/ inBatch
        BY <2>5
      <3> HIDE DEF inBatch
      <3> QED
        BY <2>3, <3>1, <3>2
    <2> QED
      BY <2>6 DEF T, D
  <1> QED
    BY <1>1, <1>2 DEF BuffersConserved

\* BuffersAreConserved.  Each buffer that ilclient_enable_port_buffers allocated, and
\* ilclient_disable_port_buffers has not freed, is in one list of the component, once, or with
\* the client, or with the component, or on its way to being freed, whatever ports, threads and
\* buffer counts there are, as long as different threads use different directions.
THEOREM BuffersAreConserved ==
    ASSUME Apart
    PROVE  Spec => []BuffersConserved
  <1>1. IInv => BuffersConserved
    BY OnePlace
  <1> QED
    BY <1>1, Invariant, PTL

\* ListsAreInOrder.  ilclient_get_output_buffer and ilclient_get_input_buffer find a port's
\* buffers in the order in which ilclient_fill_buffer_done and ilclient_empty_buffer_done were
\* called with them.
THEOREM ListsAreInOrder ==
    ASSUME Apart
    PROVE  Spec => []InOrder
  <1>1. IInv => InOrder
    BY DEF IInv, OrderInv, Ordered, InOrder
  <1> QED
    BY <1>1, Invariant, PTL

\* Whoever sleeps for the end of a command was told nothing, or has a flag set.
AnswerInv == \A t \in Threads : WokenByAnswer(t)

\* A step that leaves the events and the flags of commands alone, or sets them.
LEMMA AnswerStays ==
    ASSUME AnswerInv, arg' = arg, NEW t \in Threads,
           pc'[t] \in {"enableSleep", "disableSleep"} => pc'[t] = pc[t],
           \/ events' = events /\ \A f \in {"EVENT_ERROR", "PORT_ENABLED", "PORT_DISABLED"} :
                                       f \in flags => f \in flags'
           \/ /\ flags \subseteq flags'
              /\ Error \in events' \ events => "EVENT_ERROR" \in flags'
              /\ <<"PortEnable", arg[t]>> \in events' \ events => "PORT_ENABLED" \in flags'
              /\ <<"PortDisable", arg[t]>> \in events' \ events => "PORT_DISABLED" \in flags'
    PROVE  WokenByAnswer(t)'
  <1> USE DEF Answers, CommandMask
  <1>1. WokenByAnswer(t)
    BY DEF AnswerInv
  <1>2. CASE pc'[t] = "enableSleep"
    BY <1>1, <1>2 DEF WokenByAnswer
  <1>3. CASE pc'[t] = "disableSleep"
    BY <1>1, <1>3 DEF WokenByAnswer
  <1>4. CASE pc'[t] \notin {"enableSleep", "disableSleep"}
    BY <1>4 DEF WokenByAnswer
  <1> QED
    BY <1>2, <1>3, <1>4

\* What a thread that enables or disables a port does is no matter to the others; it goes to
\* sleep itself only if it finds no answer.
LEMMA PortStepKeepsAnswers ==
    ASSUME IInv, AnswerInv, NEW t \in Threads, PortStep(t)
    PROVE  AnswerInv'
  <1> SUFFICES ASSUME NEW u \in Threads PROVE WokenByAnswer(u)'
    BY DEF AnswerInv
  <1>1. pc[t] \notin {"idle", "get", "waiting"} /\ arg' = arg
    BY DEF PortStep, Allocates, EnableEnds, CommandWakes, CommandMask, EnableFails, DisableBegins,
           DisableTakes, DisableFrees, DisableWakes, DisableEnds
  <1>2. PICK l : pc' = [pc EXCEPT ![t] = l]
    BY DEF PortStep, Allocates, EnableEnds, CommandWakes, EnableFails, DisableBegins,
           DisableTakes, DisableFrees, DisableWakes, DisableEnds, Scan, Returns, Goto
  <1>3. CASE u # t
    <2>1. ~ Busy(u) /\ pc'[u] = pc[u]
      BY <1>1, <1>2, <1>3 DEF IInv, OneBusy, Busy, TypeOK, ThreadsOK
    <2> QED
      BY <2>1 DEF WokenByAnswer, Busy
  <1>4. CASE u = t
    <2>1. CASE Answers("PortEnable", arg[t]) = {} /\ pc'[t] = "enableSleep" /\ events' = events
      BY <1>1, <1>4, <2>1 DEF WokenByAnswer, Answers
    <2>2. CASE Answers("PortDisable", arg[t]) = {} /\ pc'[t] = "disableSleep" /\ events' = events
      BY <1>1, <1>4, <2>2 DEF WokenByAnswer, Answers
    <2>3. CASE pc'[t] \notin {"enableSleep", "disableSleep"}
      BY <1>4, <2>3 DEF WokenByAnswer
    <2>4. pc'[t] = l /\ pc \in [Threads -> Labels]
      BY <1>2 DEF IInv, TypeOK, ThreadsOK
    <2>5. CASE EnableEnds(t)
      BY <2>1, <2>3, <2>4, <2>5 DEF EnableEnds, Scan, Goto
    <2>6. CASE DisableEnds(t)
      BY <2>2, <2>3, <2>4, <2>6 DEF DisableEnds, Scan, Returns, Goto
    <2>7. CASE ~ EnableEnds(t) /\ ~ DisableEnds(t)
      BY <2>3, <2>4, <2>7 DEF PortStep, Allocates, CommandWakes, EnableFails, DisableBegins,
         DisableTakes, DisableFrees, DisableWakes, Returns, Goto
    <2> QED
      BY <2>5, <2>6, <2>7
  <1> QED
    BY <1>3, <1>4

\* ilclient_get_output_buffer and ilclient_get_input_buffer consume no flag of a command, and
\* what begins a call sends none to sleep.
LEMMA OtherStepsKeepAnswers ==
    ASSUME IInv, AnswerInv, NEW t \in Threads,
           \/ GetStep(t)
           \/ \E p \in Ports : GetBegins(t, p) \/ EnableBegins(t, p) \/ DisableCalled(t, p)
           \/ \E b \in Buffers : Submit(t, b)
    PROVE  AnswerInv'
  <1> SUFFICES ASSUME NEW u \in Threads PROVE WokenByAnswer(u)'
    BY DEF AnswerInv
  <1>1. /\ events' = events
        /\ \A f \in {"EVENT_ERROR", "PORT_ENABLED", "PORT_DISABLED"} : f \in flags => f \in flags'
    <2>1. ASSUME NEW d \in Dirs, GetWakes(t, d)
          PROVE  events' = events /\ flags' = flags \ {DoneFlag[d]}
      BY <2>1 DEF GetWakes
    <2>2. \A d \in Dirs : DoneFlag[d] \notin {"EVENT_ERROR", "PORT_ENABLED", "PORT_DISABLED"}
      BY DEF DoneFlag, Dirs
    <2> QED
      BY <2>1, <2>2 DEF GetStep, GetOutputBuffer, GetInputBuffer, GetSearches, GetBegins,
         EnableBegins, DisableCalled, Submit, Dirs
  <1>2. /\ pc'[u] \in {"enableSleep", "disableSleep"} => pc'[u] = pc[u]
        /\ pc[u] \in {"enableSleep", "disableSleep"} => arg'[u] = arg[u]
    <2>1. pc \in [Threads -> Labels] /\ arg \in [Threads -> Ports]
      BY DEF IInv, TypeOK, ThreadsOK
    <2>2. CASE GetStep(t)
      <3>1. arg' = arg /\ \E l \in {"get", "waiting", "idle"} : pc' = [pc EXCEPT ![t] = l]
        BY <2>2 DEF GetStep, GetOutputBuffer, GetInputBuffer, GetSearches, GetWakes, Goto
      <3> QED
        BY <2>1, <3>1
    <2>3. ASSUME NEW p \in Ports, GetBegins(t, p) \/ EnableBegins(t, p) \/ DisableCalled(t, p)
          PROVE  /\ pc'[u] \in {"enableSleep", "disableSleep"} => pc'[u] = pc[u]
                 /\ pc[u] \in {"enableSleep", "disableSleep"} => arg'[u] = arg[u]
      <3>1. /\ pc[t] = "idle" /\ arg' = [arg EXCEPT ![t] = p]
            /\ \E l \in {"get", "allocate", "disable"} : pc' = [pc EXCEPT ![t] = l]
        BY <2>3 DEF GetBegins, EnableBegins, DisableCalled, Goto
      <3> QED
        BY <2>1, <3>1
    <2>4. ASSUME NEW b \in Buffers, Submit(t, b)
          PROVE  pc' = pc /\ arg' = arg
      BY <2>4 DEF Submit
    <2> QED
      BY <2>2, <2>3, <2>4
  <1> USE DEF Answers, CommandMask
  <1>3. WokenByAnswer(u)
    BY DEF AnswerInv
  <1>4. CASE pc'[u] = "enableSleep"
    BY <1>1, <1>2, <1>3, <1>4 DEF WokenByAnswer
  <1>5. CASE pc'[u] = "disableSleep"
    BY <1>1, <1>2, <1>3, <1>5 DEF WokenByAnswer
  <1>6. CASE pc'[u] \notin {"enableSleep", "disableSleep"}
    BY <1>6 DEF WokenByAnswer
  <1> QED
    BY <1>4, <1>5, <1>6

\* Each answer of the component comes with its flag.
LEMMA CompStepKeepsAnswers ==
    ASSUME AnswerInv, CompStep
    PROVE  AnswerInv'
  <1> SUFFICES ASSUME NEW t \in Threads PROVE WokenByAnswer(t)'
    BY DEF AnswerInv
  <1>1. pc' = pc /\ arg' = arg /\ flags \subseteq flags'
    BY DEF CompStep, RaiseDone, PortReturns, FillBufferDone, EmptyBufferDone, BufferDone,
           PortAnswers, PortEnabled, PortDisabled, PortRefused
  <1>2. \/ events' = events
        \/ events' = events \cup {Error} /\ "EVENT_ERROR" \in flags'
        \/ \E p \in Ports : \/ events' = events \cup {<<"PortEnable", p>>}
                               /\ "PORT_ENABLED" \in flags'
                            \/ events' = events \cup {<<"PortDisable", p>>}
                               /\ "PORT_DISABLED" \in flags'
    BY DEF CompStep, RaiseDone, PortReturns, FillBufferDone, EmptyBufferDone, BufferDone,
           PortAnswers, PortEnabled, PortDisabled, PortRefused
  <1>3. /\ Error \in events' \ events => "EVENT_ERROR" \in flags'
        /\ <<"PortEnable", arg[t]>> \in events' \ events => "PORT_ENABLED" \in flags'
        /\ <<"PortDisable", arg[t]>> \in events' \ events => "PORT_DISABLED" \in flags'
    BY <1>2 DEF Error
  <1> QED
    BY <1>1, <1>3, AnswerStays

\* NoWakeupIsLost.  Whoever waits in ilclient_get_output_buffer or ilclient_get_input_buffer
\* while a buffer of the port is listed will be woken, and so will ilclient_enable_port_buffers
\* and ilclient_disable_port_buffers while the component's answer is in the event list: no other
\* wait takes the flag from them.
THEOREM NoWakeupIsLost ==
    ASSUME Apart
    PROVE  Spec => []NoLostWakeup
  <1>1. Init => AnswerInv
    BY DEF Init, AnswerInv, WokenByAnswer
  <1>2. IInv /\ AnswerInv /\ [Next]_vars => AnswerInv'
    <2> SUFFICES ASSUME IInv, AnswerInv, [Next]_vars PROVE AnswerInv'
      OBVIOUS
    <2>1. CASE UNCHANGED vars
      BY <2>1 DEF vars, AnswerInv, WokenByAnswer, Answers
    <2> QED
      BY <2>1, PortStepKeepsAnswers, OtherStepsKeepAnswers, CompStepKeepsAnswers DEF Next
  <1>3. IInv /\ AnswerInv => NoLostWakeup
    BY DEF IInv, BufferWakes, AnswerInv, NoLostWakeup
  <1> QED
    BY <1>1, <1>2, <1>3, Invariant, PTL DEF Spec
=============================================================================
