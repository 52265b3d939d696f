-------------------------- MODULE SensorBus_proofs --------------------------
(***************************************************************************)
(* Proofs about SensorBus, for any sensors whose tables are as the three   *)
(* assumptions on them say, any command lines and any number of            *)
(* invocations.  The probe finds the sensor that is there and no other     *)
(* one.  The table that a start sends is that of the mode after the edits  *)
(* of the options, one after the other, and what each option asked for     *)
(* reaches the sensor, whatever the other ones did, unless an assignment   *)
(* of -regs edits the same registers.  A start or a stop that arrives      *)
(* starts or stops the stream.                                             *)
(***************************************************************************)
EXTENDS SensorBus, NaturalsInduction, WellFoundedInduction, TLAPS

\* The least-number principle for sets of naturals.
LEMMA NoFirst ==
    ASSUME NEW bad \in SUBSET Nat,
           \A n \in bad : n # 0 /\ n - 1 \in bad
    PROVE  bad = {}
  <1> SUFFICES ASSUME bad # {} PROVE FALSE
    OBVIOUS
  <1>1. PICK x \in bad : \A y \in bad : ~ (<<y, x>> \in OpToRel(<, Nat))
    BY NatLessThanWellFounded, WFMin
  <1>2. x \in Nat /\ x - 1 \in bad /\ x - 1 \in Nat /\ x - 1 < x
    OBVIOUS
  <1> QED
    BY <1>1, <1>2 DEF OpToRel

-----------------------------------------------------------------------------
(* Editing a table changes data, never the registers of its entries *)

\* t has the registers of u, entry by entry.
HasRegs(t, u) == /\ t = [i \in 1 .. Len(u) |-> t[i]]
                 /\ \A i \in 1 .. Len(u) : DOMAIN t[i] = {"reg", "data"} /\ t[i].reg = u[i].reg

\* A table has its own registers (the mode's table before any edit, main 1538-1541).
LEMMA HasOwnRegs ==
    ASSUME NEW u \in Seq(Entry)
    PROVE  HasRegs(u, u)
  <1>1. u = [i \in 1 .. Len(u) |-> u[i]]
    OBVIOUS
  <1>2. \A i \in 1 .. Len(u) : u[i] \in Entry
    OBVIOUS
  <1>3. \A e \in Entry : DOMAIN e = {"reg", "data"}
    BY DEF Entry
  <1> QED
    BY <1>1, <1>2, <1>3 DEF HasRegs

\* To replace the data of one entry, if there is such an entry, keeps the registers.
LEMMA DataIsReplaced ==
    ASSUME NEW t, NEW u \in Seq(Entry), HasRegs(t, u), NEW k, NEW v
    PROVE  HasRegs([t EXCEPT ![k].data = v], u)
  <1> DEFINE w == [t EXCEPT ![k].data = v]
             n == Len(u)
  <1>1. t = [i \in 1 .. n |-> t[i]]
        /\ \A i \in 1 .. n : DOMAIN t[i] = {"reg", "data"} /\ t[i].reg = u[i].reg
    BY DEF HasRegs
  <1>2. DOMAIN t = 1 .. n
    BY <1>1
  <1>3. w = [i \in 1 .. n |-> w[i]]
    BY <1>2
  <1>4. \A i \in 1 .. n : w[i] = IF i = k THEN [t[i] EXCEPT !.data = v] ELSE t[i]
    BY <1>2
  <1>5. ASSUME NEW i \in 1 .. n
        PROVE  DOMAIN w[i] = {"reg", "data"} /\ w[i].reg = u[i].reg
    <2>1. DOMAIN t[i] = {"reg", "data"} /\ t[i].reg = u[i].reg
      BY <1>1
    <2> DEFINE x == t[i]
    <2>2. DOMAIN [x EXCEPT !.data = v] = {"reg", "data"} /\ [x EXCEPT !.data = v].reg = x.reg
      <3> HIDE DEF x
      <3>1. DOMAIN x = {"reg", "data"}
        BY <2>1 DEF x
      <3> QED
        BY <3>1
    <2> QED
      BY <1>4, <2>1, <2>2
  <1> HIDE DEF w
  <1>6. HasRegs(w, u)
    BY <1>3, <1>5 DEF HasRegs
  <1> QED
    BY <1>6 DEF w

\* modRegBit and modReg (raspiraw.c:2363-2399) keep the registers.
LEMMA XorBitKeeps ==
    ASSUME NEW t, NEW u \in Seq(Entry), HasRegs(t, u), NEW reg, NEW bit, NEW value
    PROVE  HasRegs(XorBit(t, reg, bit, value), u)
  <1> DEFINE k == First(t, reg)
             v == Toggle(t[k].data, bit)
  <1>1. HasRegs([t EXCEPT ![k].data = v], u)
    <2> HIDE DEF k, v
    <2> QED
      BY DataIsReplaced
  <1>2. XorBit(t, reg, bit, value) \in {t, [t EXCEPT ![k].data = v]}
    BY Zenon DEF XorBit
  <1> QED
    BY <1>1, <1>2

\* modReg changes data alone (raspiraw.c:2393-2399).
LEMMA modRegKeeps ==
    ASSUME NEW t, NEW u \in Seq(Entry), HasRegs(t, u), NEW reg, NEW endBit, NEW value
    PROVE  HasRegs(modReg(t, reg, endBit, value), u)
  <1> DEFINE k == First(t, reg)
             m == 2^(endBit + 1)
             v == t[k].data - (t[k].data % m) + (value % m)
  <1>1. HasRegs([t EXCEPT ![k].data = v], u)
    <2> HIDE DEF k, v
    <2> QED
      BY DataIsReplaced
  <1>2. modReg(t, reg, endBit, value) \in {t, [t EXCEPT ![k].data = v]}
    BY Zenon DEF modReg
  <1> QED
    BY <1>1, <1>2

\* So do the edits of two registers by -fps, -width, -height, -left and -top.
LEMMA PairKeeps ==
    ASSUME NEW t, NEW u \in Seq(Entry), HasRegs(t, u), NEW reg, NEW endBit, NEW value
    PROVE  HasRegs(Pair(t, reg, endBit, value), u)
  BY modRegKeeps DEF Pair

\* The size and position options edit two bytes each (raspiraw.c:1603-1629).
LEMMA PutKeeps ==
    ASSUME NEW t, NEW u \in Seq(Entry), HasRegs(t, u), NEW reg, NEW value
    PROVE  HasRegs(Put(t, reg, value), u)
  BY PairKeeps DEF Put

-----------------------------------------------------------------------------
(* The loops over a list of edits *)

\* One step of the loop of modRegs, and the loop up to its n-th step.
Edited(t, list, f, i) ==
    IF i = 0 THEN t ELSE modReg(f[i - 1], list[i].reg, 7, list[i].data)
IsLoop(t, list, n, f) == f = [i \in 0 .. n |-> Edited(t, list, f, i)]

\* The recursive definition of modRegs defines a function.
LEMMA LoopExists ==
    ASSUME NEW t, NEW list
    PROVE  \A n \in Nat : \E f : IsLoop(t, list, n, f)
  <1> DEFINE bad == {n \in Nat : ~ \E f : IsLoop(t, list, n, f)}
  <1>1. 0 \notin bad
    <2> DEFINE f == [i \in 0 .. 0 |-> t]
    <2>1. IsLoop(t, list, 0, f)
      BY DEF IsLoop, Edited
    <2> QED
      BY <2>1
  <1>2. ASSUME NEW n \in Nat, n # 0, n - 1 \notin bad
        PROVE  n \notin bad
    <2>1. n - 1 \in Nat
      BY <1>2
    <2>2. PICK f : IsLoop(t, list, n - 1, f)
      BY <1>2, <2>1
    <2> DEFINE last == modReg(f[n - 1], list[n].reg, 7, list[n].data)
               g == [i \in 0 .. n |-> IF i = n THEN last ELSE f[i]]
    <2>3. \A i \in 0 .. n - 1 : f[i] = Edited(t, list, f, i)
      BY <2>2 DEF IsLoop
    <2>4. ASSUME NEW i \in 0 .. n
          PROVE  g[i] = Edited(t, list, g, i)
      <3>1. CASE i = n
        <4>1. g[i] = last /\ g[n - 1] = f[n - 1]
          BY <1>2, <2>1, <3>1
        <4> HIDE DEF g
        <4> QED
          BY <1>2, <3>1, <4>1 DEF Edited
      <3>2. CASE i # n /\ i # 0
        <4>1. i \in 0 .. n - 1 /\ i - 1 \in 0 .. n /\ i - 1 # n
          BY <3>2, <1>2
        <4>2. g[i] = f[i] /\ g[i - 1] = f[i - 1]
          BY <4>1, <3>2
        <4> HIDE DEF g
        <4> QED
          BY <2>3, <4>1, <4>2, <3>2 DEF Edited
      <3>3. CASE i # n /\ i = 0
        <4>1. i \in 0 .. n - 1
          BY <3>3, <1>2
        <4>2. g[i] = f[i]
          BY <3>3
        <4> HIDE DEF g
        <4> QED
          BY <2>3, <4>1, <4>2, <3>3 DEF Edited
      <3> QED
        BY <3>1, <3>2, <3>3
    <2>5. g = [i \in 0 .. n |-> g[i]]
      OBVIOUS
    <2> HIDE DEF g
    <2>6. IsLoop(t, list, n, g)
      BY <2>4, <2>5 DEF IsLoop
    <2> QED
      BY <2>6
  <1>3. bad = {}
    <2> HIDE DEF bad
    <2>1. bad \in SUBSET Nat
      BY DEF bad
    <2>2. \A n \in bad : n # 0 /\ n - 1 \in bad
      BY <1>1, <1>2, <2>1
    <2> QED
      BY <2>1, <2>2, NoFirst
  <1> QED
    BY <1>3

\* The edits of -regs, -hinc and -vinc, and those of a field, keep the registers.
LEMMA modRegsKeeps ==
    ASSUME NEW t, NEW u \in Seq(Entry), HasRegs(t, u), NEW list, Len(list) \in Nat
    PROVE  HasRegs(modRegs(t, list), u)
  <1> DEFINE n == Len(list)
             f == CHOOSE g : IsLoop(t, list, n, g)
             bad == {i \in 0 .. n : ~ HasRegs(f[i], u)}
  <1>1. IsLoop(t, list, n, f)
    BY LoopExists, Zenon
  <1>2. modRegs(t, list) = f[n]
    BY DEF modRegs, IsLoop, Edited
  <1> HIDE DEF f
  <1>3. \A i \in 0 .. n : f[i] = Edited(t, list, f, i)
    BY <1>1 DEF IsLoop
  <1>4. 0 \notin bad
    BY <1>3 DEF Edited
  <1>5. ASSUME NEW i \in 0 .. n, i # 0, HasRegs(f[i - 1], u)
        PROVE  HasRegs(f[i], u)
    <2>1. f[i] = modReg(f[i - 1], list[i].reg, 7, list[i].data)
      BY <1>3, <1>5 DEF Edited
    <2> QED
      BY <1>5, <2>1, modRegKeeps
  <1>6. bad = {}
    <2> HIDE DEF n
    <2>0. n \in Nat
      BY DEF n
    <2>1. bad \in SUBSET Nat
      BY <2>0
    <2>2. \A i \in bad : i # 0 /\ i - 1 \in bad
      BY <1>4, <1>5, <2>0
    <2> HIDE DEF bad
    <2> QED
      BY <2>1, <2>2, NoFirst
  <1> QED
    BY <1>2, <1>6

\* update_regs' exposure, frame length and gain (raspiraw.c:2417-2478).
LEMMA FieldKeeps ==
    ASSUME NEW t, NEW u \in Seq(Entry), HasRegs(t, u), NEW reg, NEW bits \in Nat, NEW value
    PROVE  HasRegs(Field(t, reg, bits, value), u)
  <1> DEFINE list == [i \in 1 .. Count(bits) |->
                         [reg |-> reg + i - 1,
                          data |-> value \div 2^(8 * (Count(bits) - i))]]
  <1>1. Count(bits) \in Nat
    BY DEF Count
  <1>2. Len(list) = Count(bits)
    BY <1>1
  <1>3. Field(t, reg, bits, value) = modRegs(t, list)
    BY DEF Field
  <1> HIDE DEF list
  <1> QED
    BY <1>1, <1>2, <1>3, modRegsKeeps
-----------------------------------------------------------------------------
(* Identification *)

\* A register of 16 bits is the same after it was swapped twice (i2c_rd, 324).
LEMMA SwapTwice ==
    ASSUME NEW n \in Value16
    PROVE  Swap(Swap(n)) = n /\ Swap(n) \in Int /\ n \in Int
  <1> DEFINE low == n % 256
             high == n \div 256
             m == 256 * low + high
  <1>1. low \in 0 .. 255 /\ high \in 0 .. 255 /\ n = 256 * high + low /\ n \in Int
    BY DEF Value16
  <1>2. Swap(n) = m
    BY DEF Swap
  <1> HIDE DEF low, high
  <1>3. m % 256 = high /\ m \div 256 = low
    BY <1>1
  <1>4. Swap(m) = 256 * (m % 256) + m \div 256
    BY DEF Swap
  <1>5. Swap(m) = n /\ m \in Int
    BY <1>1, <1>3, <1>4
  <1> HIDE DEF m
  <1> QED
    BY <1>1, <1>2, <1>5

\* A table that spares the identification leaves it, whichever transfers fail.
LEMMA IdentIsSpared ==
    ASSUME NEW s, NEW t, NEW u \in Seq(Entry), HasRegs(t, u), Spares(s, u),
           NEW n \in 0 .. Len(u), NEW bad, NEW old
    PROVE  CellAfter(s, t, n, bad, IdentCell(s), old) = old
  <1> DEFINE c == IdentCell(s)
             hits == Hits(s, t, n, bad, c)
  <1>1. ASSUME NEW i \in 1 .. n, IsWrite(t[i])
        PROVE  CellReg(s, t[i].reg) # c[2]
    <2>1. i \in 1 .. Len(u)
      OBVIOUS
    <2>2. t[i].reg = u[i].reg
      BY <2>1 DEF HasRegs
    <2> HIDE DEF c
    <2>3. IsWrite(u[i])
      BY <1>1, <2>2 DEF IsWrite
    <2>4. CellReg(s, u[i].reg) # IdentCell(s)[2]
      BY <2>1, <2>3 DEF Spares
    <2> QED
      BY <2>2, <2>4 DEF c
  <1>2. hits = {}
    BY <1>1, Zenon DEF Hits
  <1>3. CellAfter(s, t, n, bad, c, old) =
            IF hits = {} THEN old
            ELSE CellData(s, t[CHOOSE i \in hits : \A j \in hits : j <= i].data)
    BY DEF CellAfter
  <1> QED
    BY <1>2, <1>3, Zenon

\* A stop table that arrives restores an identification that streaming changed.
LEMMA IdentIsRestored ==
    ASSUME NEW s, NEW t, NEW n, NEW c, NEW v \in Int,
           CellAfter(s, t, n, {}, c, v + 1) = v, NEW old
    PROVE  CellAfter(s, t, n, {}, c, old) = v
  <1> DEFINE hits == Hits(s, t, n, {}, c)
             last == CellData(s, t[CHOOSE i \in hits : \A j \in hits : j <= i].data)
  <1>1. CellAfter(s, t, n, {}, c, v + 1) = IF hits = {} THEN v + 1 ELSE last
    BY Zenon DEF CellAfter
  <1>2. CellAfter(s, t, n, {}, c, old) = IF hits = {} THEN old ELSE last
    BY Zenon DEF CellAfter
  <1> HIDE DEF hits, last
  <1> QED
    BY <1>1, <1>2

-----------------------------------------------------------------------------
(* The invariant *)

\* The sensor that is attached
A == Sensors[attached]

\* What is known of the sensor's registers: which ones are kept, and that the one it is
\* identified by holds its identification, unless it streams or was not stopped in order.
Identified ==
    /\ attached \in 0 .. Len(Sensors)
    /\ attached # 0 =>
          /\ DOMAIN mem = {IdentCell(A)} \cup DOMAIN StreamCells(A)
          /\ orderly \/ ~ IdentChanges(A) => mem[IdentCell(A)] = Identity(A)

\* Once a sensor was found it is the one that is attached.
Chosen == pc \notin {"probe", "ended"} => attached # 0 /\ sensor = attached

\* From main's edits of the table to its second start, it is that of a mode of the sensor but
\* for the data.
Editing == {"regs", "fps", "size", "depth", "expus", "vflip", "hflip", "exposure", "vts", "gain",
            "encoding", "start", "streaming", "restart", "restreaming"}
Tables == pc \in Editing => /\ opt.mode \in 0 .. Len(S.modes) - 1
                            /\ HasRegs(regs, M.regs)

\* The inductive invariant of the probe
IInv == opt \in Options /\ Identified /\ Chosen /\ Tables /\ FoundAgain

\* What the assumption says of a sensor.
LEMMA OfASensor ==
    ASSUME NEW s, ProperSensor(s)
    PROVE  /\ s.ident.value \in Value16
           /\ s.exposure.bits \in Nat /\ s.vts.bits \in Nat /\ s.gain.bits \in Nat
           /\ Len(s.modes) \in Nat /\ TablesOf(s) \subseteq Seq(Entry)
           /\ IdentChanges(s) => Restores(s, s.stop)
           /\ ~ IdentChanges(s) => \A t \in TablesOf(s) : Spares(s, t)
  BY Zenon DEF ProperSensor

\* What SensorsAssumption says of the tables of a mode, which send_regs is given at a start.
LEMMA ModeTables ==
    ASSUME NEW s, ProperSensor(s), NEW m, m \in 0 .. Len(s.modes) - 1
    PROVE  LET u == s.modes[m + 1].regs
           IN  u \in Seq(Entry) /\ (~ IdentChanges(s) => Spares(s, u))
  <1> DEFINE k == m + 1
             n == Len(s.modes)
             u == s.modes[k].regs
  <1>1. n \in Nat
    BY OfASensor, Zenon
  <1>2. k \in 1 .. n
    <2> HIDE DEF n
    <2> QED
      BY <1>1 DEF n
  <1> HIDE DEF k
  <1>3. u \in TablesOf(s)
    BY <1>2, Zenon DEF TablesOf
  <1>4. u \in Seq(Entry) /\ (~ IdentChanges(s) => Spares(s, u))
    <2> HIDE DEF u
    <2>1. /\ TablesOf(s) \subseteq Seq(Entry)
          /\ ~ IdentChanges(s) => \A t \in TablesOf(s) : Spares(s, t)
      BY OfASensor, Zenon
    <2> QED
      BY <1>3, <2>1, Zenon
  <1> QED
    BY <1>4 DEF k

\* What SensorsAssumption says of the table that stop_camera_streaming sends.
LEMMA StopTable ==
    ASSUME NEW s, ProperSensor(s)
    PROVE  /\ s.stop \in Seq(Entry)
           /\ ~ IdentChanges(s) => Spares(s, s.stop)
           /\ IdentChanges(s) => Restores(s, s.stop)
           /\ Identity(s) \in Int
  <1> DEFINE v == s.ident.value
             u == s.stop
  <1>1. v \in Value16
    BY OfASensor, Zenon
  <1>2. Identity(s) \in Int
    <2>1. Identity(s) \in {v, Swap(v)}
      BY Zenon DEF Identity
    <2> HIDE DEF v
    <2>2. Swap(v) \in Int /\ v \in Int
      BY <1>1, SwapTwice
    <2> QED
      BY <2>1, <2>2
  <1>3. u \in TablesOf(s)
    BY Zenon DEF TablesOf
  <1>4. /\ TablesOf(s) \subseteq Seq(Entry)
        /\ ~ IdentChanges(s) => \A t \in TablesOf(s) : Spares(s, t)
    BY OfASensor, Zenon
  <1>5. IdentChanges(s) => Restores(s, s.stop)
    BY OfASensor, Zenon
  <1> QED
    BY <1>2, <1>3, <1>4, <1>5, Zenon

\* The sensor that is attached is one of the table.
LEMMA Attached ==
    ASSUME Identified, attached # 0
    PROVE  attached \in 1 .. Len(Sensors) /\ ProperSensor(A)
  <1> DEFINE n == Len(Sensors)
  <1>1. n \in Nat /\ attached \in 0 .. n
    BY SensorsAssumption DEF Identified
  <1>2. attached \in 1 .. n
    <2> HIDE DEF n
    <2> QED
      BY <1>1
  <1> QED
    BY <1>2, SensorsAssumption DEF A

\* Before the first probe each sensor answers with its identification (raspiraw.c:1492-1531).
LEMMA InitIInv == Init => IInv
  <1> SUFFICES ASSUME Init PROVE IInv
    OBVIOUS
  <1>1. pc = "probe" /\ opt \in Options /\ attached \in 0 .. Len(Sensors)
    BY DEF Init
  <1>2. ASSUME attached # 0
        PROVE  /\ DOMAIN mem = {IdentCell(A)} \cup DOMAIN StreamCells(A)
               /\ mem[IdentCell(A)] = Identity(A)
    <2>1. mem = PowerOn(A)
      BY <1>2 DEF Init, A
    <2> QED
      BY <2>1 DEF PowerOn
  <1> QED
    BY <1>1, <1>2 DEF IInv, Identified, Chosen, Tables, Editing, FoundAgain

\* The probe (raspiraw.c:356-390): only the sensor that is attached answers, and it does if
\* it holds its identification.
LEMMA OnlyItAnswers ==
    ASSUME Identified, NEW i \in 1 .. Len(Sensors)
    PROVE  /\ Answers(Sensors[i]) => i = attached
           /\ i = attached /\ (orderly \/ ~ IdentChanges(A)) => Answers(Sensors[i])
  <1>1. ASSUME Answers(Sensors[i]), i # attached
        PROVE  FALSE
    <2>1. attached # 0 /\ IdentCell(Sensors[i]) \in DOMAIN mem
      BY <1>1 DEF Answers
    <2>2. attached \in 1 .. Len(Sensors)
      BY <2>1, Attached
    <2>3. IdentCell(Sensors[i]) \notin {IdentCell(A)} \cup DOMAIN StreamCells(A)
      BY <2>2, <1>1, SensorsAssumption DEF A
    <2> QED
      BY <2>1, <2>3 DEF Identified
  <1>2. ASSUME i = attached, orderly \/ ~ IdentChanges(A)
        PROVE  Answers(Sensors[i])
    <2>0. i # 0
      OBVIOUS
    <2>1. attached # 0 /\ Sensors[i] = A
      BY <2>0, <1>2 DEF A
    <2>2. IdentCell(A) \in DOMAIN mem /\ mem[IdentCell(A)] = Identity(A)
      BY <2>1, <1>2 DEF Identified
    <2>3. A.ident.value \in Value16
      BY <2>1, SensorsAssumption, OfASensor, Zenon
    <2>4. Swap(Swap(A.ident.value)) = A.ident.value
      BY <2>3, SwapTwice
    <2> QED
      BY <2>1, <2>2, <2>4 DEF Answers, Identity
  <1> QED
    BY <1>1, <1>2

\* The probe takes the sensor that answers with its identification (raspiraw.c:356-389).
LEMMA ProbeKeeps == IInv /\ Probe => IInv'
  <1> SUFFICES ASSUME IInv, Probe PROVE IInv'
    OBVIOUS
  <1>1. PICK readable \in SUBSET (1 .. Len(Sensors)) :
            LET found == {i \in readable : Answers(Sensors[i])}
            IN  /\ sensor' = IF found = {} THEN 0
                             ELSE CHOOSE i \in found : \A j \in found : i <= j
                /\ heard' = (readable = 1 .. Len(Sensors))
    BY DEF Probe
  <1> DEFINE found == {i \in readable : Answers(Sensors[i])}
  <1>2. /\ pc' = IF sensor' = 0 THEN "ended" ELSE "mode"
        /\ UNCHANGED <<opt, attached, mem, orderly>>
    BY DEF Probe
  <1>3. attached \in Int /\ found \subseteq {attached} /\ 0 \notin found
    <2>1. \A i \in found : i \in 1 .. Len(Sensors) /\ i = attached /\ i # 0
      BY OnlyItAnswers, SensorsAssumption DEF IInv
    <2>2. attached \in Int
      BY DEF IInv, Identified
    <2> HIDE DEF found
    <2> QED
      BY <2>1, <2>2
  <1>4. sensor' = IF found = {} THEN 0 ELSE CHOOSE i \in found : \A j \in found : i <= j
    BY <1>1
  <1>5. ASSUME heard', attached # 0, orderly \/ ~ IdentChanges(A)
        PROVE  attached \in found
    <2>1. attached \in 1 .. Len(Sensors)
      BY <1>5, Attached DEF IInv
    <2>2. readable = 1 .. Len(Sensors)
      BY <1>1, <1>5, Zenon
    <2>3. Answers(Sensors[attached])
      BY <2>1, <1>5, OnlyItAnswers DEF IInv
    <2> QED
      BY <2>1, <2>2, <2>3
  <1> HIDE DEF found
  <1>6. sensor' = IF attached \in found THEN attached ELSE 0
    <2>1. CASE found = {}
      BY <2>1, <1>4
    <2>2. CASE found = {attached}
      BY <2>2, <1>3, <1>4
    <2> QED
      BY <2>1, <2>2, <1>3
  <1>7. Identified' /\ opt' \in Options
    BY <1>2 DEF IInv, Identified, A
  <1>8. Chosen' /\ Tables'
    BY <1>2, <1>3, <1>6 DEF Chosen, Tables, Editing
  <1>9. FoundAgain'
    BY <1>2, <1>3, <1>5, <1>6 DEF FoundAgain, A
  <1> QED
    BY <1>7, <1>8, <1>9 DEF IInv

-----------------------------------------------------------------------------
(* The edits, main from the choice of the mode to the start (1538-1823) *)

\* A step of main leaves the sensor alone; main goes on or ends.
LEMMA EditLeaves ==
    ASSUME IInv, EditStep, UNCHANGED bus
    PROVE  /\ sensor' = sensor /\ opt' = opt
           /\ (opt \in Options /\ Identified /\ Chosen /\ FoundAgain)'
           /\ sensor = attached /\ ProperSensor(S)
  <1>1. sensor' = sensor /\ opt' = opt /\ pc \notin {"probe", "ended"} /\ pc' # "probe"
    BY DEF EditStep, Step, ChooseMode, EditRegs, SetFps, SetSize, SetDepth, SetExposureUs,
           SetVFlip, SetHFlip, SetExposure, SetVts, SetGain, SetEncoding
  <1>2. attached # 0 /\ sensor = attached
    BY <1>1 DEF IInv, Chosen
  <1>3. UNCHANGED <<attached, mem, heard, orderly>>
    BY DEF bus
  <1>4. ProperSensor(S)
    BY <1>2, Attached DEF IInv, A, S
  <1>5. opt' \in Options /\ Identified'
    BY <1>1, <1>3 DEF IInv, Identified, A
  <1>6. Chosen' /\ FoundAgain'
    BY <1>1, <1>2, <1>3 DEF IInv, Chosen, FoundAgain
  <1> QED
    BY <1>1, <1>2, <1>4, <1>5, <1>6

\* The mode's table stays the one that the edited table has the registers of.
LEMMA TableKept ==
    ASSUME sensor' = sensor, opt' = opt, opt.mode \in 0 .. Len(S.modes) - 1,
           NEW u, u = M.regs, HasRegs(regs', u)
    PROVE  Tables'
  <1>1. S' = S
    BY DEF S
  <1>2. M'.regs = u /\ opt'.mode = opt.mode
    BY <1>1 DEF M
  <1> QED
    BY <1>1, <1>2 DEF Tables

\* Main gets no mode that the sensor does not have (1538-1547).
LEMMA ModeIsChosen ==
    ASSUME ChooseMode, sensor' = sensor, opt' = opt, ProperSensor(S)
    PROVE  Tables'
  <1>1. CASE opt.mode \in 0 .. Len(S.modes) - 1
    <2>1. PICK u : u = M.regs
      OBVIOUS
    <2>2. u \in Seq(Entry)
      BY <1>1, <2>1, ModeTables DEF M
    <2>3. regs' = u
      BY <1>1, <2>1 DEF ChooseMode
    <2>4. HasRegs(regs', u)
      BY <2>2, <2>3, HasOwnRegs
    <2> QED
      BY <1>1, <2>1, <2>4, TableKept
  <1>2. CASE opt.mode \notin 0 .. Len(S.modes) - 1
    <2>1. pc' = "ended"
      BY <1>2 DEF ChooseMode
    <2> QED
      BY <2>1 DEF Tables, Editing
  <1> QED
    BY <1>1, <1>2

\* Every later step keeps the registers of the table: the edits by the lemmas above.
LEMMA TableIsEdited ==
    ASSUME IInv, sensor' = sensor, opt' = opt, ProperSensor(S),
           \/ EditRegs \/ SetFps \/ SetSize \/ SetDepth \/ SetExposureUs
           \/ SetVFlip \/ SetHFlip \/ SetExposure \/ SetVts \/ SetGain \/ SetEncoding
    PROVE  Tables'
  <1>1. pc \in Editing
    BY DEF EditRegs, SetFps, SetSize, SetDepth, SetExposureUs, SetVFlip, SetHFlip, SetExposure,
           SetVts, SetGain, SetEncoding, Step, Editing
  <1>2. PICK u : u = M.regs
    OBVIOUS
  <1>3. opt.mode \in 0 .. Len(S.modes) - 1 /\ HasRegs(regs, u)
    BY <1>1, <1>2 DEF IInv, Tables
  <1>4. u \in Seq(Entry)
    BY <1>2, <1>3, ModeTables DEF M
  <1>5. S.exposure.bits \in Nat /\ S.vts.bits \in Nat /\ S.gain.bits \in Nat
    BY OfASensor, Zenon
  <1>6. HasRegs(regs', u)
    <2>1. CASE EditRegs
      <3>1. regs' = modRegs(regs, opt.edits) /\ Len(opt.edits) \in Nat
        BY <2>1, OptionsAssumption DEF EditRegs, IInv, ProperOptions
      <3> QED
        BY <3>1, <1>3, <1>4, modRegsKeeps
    <2>2. CASE SetFps
      <3>1. regs' \in {regs, Pair(regs, S.vts.reg, 7, FrameTime)}
        BY <2>2, Zenon DEF SetFps
      <3> QED
        BY <3>1, <1>3, <1>4, PairKeeps
    <2>3. CASE SetSize
      <3>1. regs' = Put(Put(Put(Put(regs, 14344, opt.width), 14346, opt.height),
                        14336, opt.left * Unit), 14338, opt.top * Unit)
        BY <2>3 DEF SetSize
      <3>2. PICK a, b : /\ a = Put(regs, 14344, opt.width)
                        /\ b = Put(a, 14346, opt.height)
        OBVIOUS
      <3>3. HasRegs(a, u)
        BY <3>2, <1>3, <1>4, PutKeeps
      <3>4. HasRegs(b, u)
        BY <3>2, <3>3, <1>4, PutKeeps
      <3>5. HasRegs(Put(b, 14336, opt.left * Unit), u)
        BY <3>4, <1>4, PutKeeps
      <3> QED
        BY <3>1, <3>2, <3>5, <1>4, PutKeeps
    <2>4. CASE SetDepth \/ SetExposureUs \/ SetEncoding
      BY <2>4, <1>3 DEF SetDepth, SetExposureUs, SetEncoding
    <2>5. CASE SetVFlip
      <3>1. regs' \in {regs, XorBit(regs, S.vflip.reg, S.vflip.bit, opt.vflip)}
        BY <2>5, Zenon DEF SetVFlip
      <3> QED
        BY <3>1, <1>3, <1>4, XorBitKeeps
    <2>6. CASE SetHFlip
      <3>1. regs' \in {regs, XorBit(regs, S.hflip.reg, S.hflip.bit, opt.hflip)}
        BY <2>6, Zenon DEF SetHFlip
      <3> QED
        BY <3>1, <1>3, <1>4, XorBitKeeps
    <2>7. CASE SetExposure
      <3>1. regs' \in {regs, Field(regs, S.exposure.reg, S.exposure.bits, exposure)}
        BY <2>7, Zenon DEF SetExposure
      <3> QED
        BY <3>1, <1>3, <1>4, <1>5, FieldKeeps
    <2>8. CASE SetVts
      <3>1. regs' \in {regs, Field(regs, S.vts.reg, S.vts.bits, exposure)}
        BY <2>8, Zenon DEF SetVts
      <3> QED
        BY <3>1, <1>3, <1>4, <1>5, FieldKeeps
    <2>9. CASE SetGain
      <3>1. regs' \in {regs, Field(regs, S.gain.reg, S.gain.bits, opt.gain)}
        BY <2>9, Zenon DEF SetGain
      <3> QED
        BY <3>1, <1>3, <1>4, <1>5, FieldKeeps
    <2> QED
      BY <2>1, <2>2, <2>3, <2>4, <2>5, <2>6, <2>7, <2>8, <2>9
  <1> QED
    BY <1>2, <1>3, <1>6, TableKept

\* Edits do not touch the bus; by the lemmas above they keep the table's registers.
LEMMA EditKeeps == IInv /\ EditStep /\ UNCHANGED bus => IInv'
  <1> SUFFICES ASSUME IInv, EditStep, UNCHANGED bus PROVE IInv'
    OBVIOUS
  <1>1. Tables'
    BY EditLeaves, ModeIsChosen, TableIsEdited DEF EditStep
  <1> QED
    BY <1>1, EditLeaves DEF IInv

-----------------------------------------------------------------------------
(* The transfers (start_camera_streaming and stop_camera_streaming, 445-480) *)

\* A transfer of a table of the attached sensor leaves what Identified says.
LEMMA SendingIdentifies ==
    ASSUME Identified, attached # 0, UNCHANGED attached,
           NEW t, NEW n, NEW bad, mem' = AfterSending(A, t, n, bad),
           NEW u \in Seq(Entry), HasRegs(t, u), n \in 0 .. Len(u),
           ~ IdentChanges(A) => Spares(A, u),
           orderly' /\ IdentChanges(A) =>
               \A old : CellAfter(A, t, n, bad, IdentCell(A), old) = Identity(A)
    PROVE  Identified'
  <1>1. A' = A
    BY DEF A
  <1>2. IdentCell(A) \in DOMAIN mem /\ DOMAIN mem' = DOMAIN mem
    BY DEF Identified, AfterSending
  <1>3. mem'[IdentCell(A)] =
            CellAfter(A, t, n, bad, IdentCell(A), mem[IdentCell(A)])
    BY <1>2 DEF AfterSending
  <1>4. ASSUME ~ IdentChanges(A)
        PROVE  mem'[IdentCell(A)] = Identity(A)
    <2>1. CellAfter(A, t, n, bad, IdentCell(A), mem[IdentCell(A)]) = mem[IdentCell(A)]
      BY <1>4, IdentIsSpared
    <2> QED
      BY <1>3, <1>4, <2>1 DEF Identified
  <1>5. ASSUME orderly', IdentChanges(A)
        PROVE  mem'[IdentCell(A)] = Identity(A)
    BY <1>3, <1>5
  <1> QED
    BY <1>1, <1>2, <1>4, <1>5 DEF Identified

\* A start leaves what identifies a sensor, unless it is the ar0144 (raspiraw.c:445-462).
LEMMA StartKeeps == IInv /\ Start => IInv'
  <1> SUFFICES ASSUME IInv, Start PROVE IInv'
    OBVIOUS
  <1>1. pc \in {"start", "restart"} /\ UNCHANGED <<sensor, opt, regs, attached, heard>>
        /\ ~ orderly' /\ pc' \in {"streaming", "restreaming", "off"}
    BY DEF Start, Started, edited
  <1>2. sensor = attached /\ attached # 0 /\ S = A /\ ProperSensor(A)
    BY <1>1, Attached DEF IInv, Chosen, S, A
  <1>3. PICK u : u = M.regs
    OBVIOUS
  <1>4. HasRegs(regs, u) /\ opt.mode \in 0 .. Len(A.modes) - 1
    BY <1>1, <1>2, <1>3 DEF IInv, Tables, Editing
  <1>5. u \in Seq(Entry) /\ (~ IdentChanges(A) => Spares(A, u))
    BY <1>2, <1>3, <1>4, ModeTables DEF M
  <1>6. Len(regs) = Len(u)
    <2>1. Len(u) \in Nat
      BY <1>5
    <2>2. regs = [i \in 1 .. Len(u) |-> regs[i]]
      BY <1>4 DEF HasRegs
    <2>3. Len([i \in 1 .. Len(u) |-> regs[i]]) = Len(u)
      BY <2>1
    <2> QED
      BY <2>2, <2>3
  <1>7. \E bad, n : mem' = AfterSending(A, regs, n, bad) /\ n \in 0 .. Len(u)
    <2>1. PICK bad \in Failures(S, regs), n \in {Len(regs), 0} \cup Matters(S, regs) :
              mem' = AfterSending(S, regs, n, bad)
      BY Zenon DEF Start
    <2>2. n \in 0 .. Len(u)
      BY <1>5, <1>6 DEF Matters
    <2> QED
      BY <1>2, <2>1, <2>2
  <1>8. Identified'
    BY <1>1, <1>2, <1>4, <1>5, <1>7, SendingIdentifies DEF IInv
  <1>9. (opt \in Options)' /\ Chosen' /\ Tables' /\ FoundAgain'
    BY <1>1, <1>2 DEF IInv, Chosen, Tables, Editing, FoundAgain, S, M
  <1> QED
    BY <1>8, <1>9 DEF IInv

\* A stop restores it, if all of its transfers arrive (raspiraw.c:464-480).
LEMMA StopKeeps == IInv /\ Stop => IInv'
  <1> SUFFICES ASSUME IInv, Stop PROVE IInv'
    OBVIOUS
  <1>1. pc \in {"streaming", "restreaming"} /\ UNCHANGED <<sensor, opt, regs, attached, heard>>
        /\ pc' \in {"restart", "stopped", "off"}
    BY DEF Stop, Stopped, edited
  <1>2. sensor = attached /\ attached # 0 /\ S = A /\ ProperSensor(A)
    BY <1>1, Attached DEF IInv, Chosen, S, A
  <1>3. PICK bad, n : /\ mem' = AfterSending(S, S.stop, n, bad)
                      /\ n \in {Len(S.stop), 0} \cup Matters(S, S.stop)
                      /\ orderly' => bad = {} /\ n = Len(S.stop)
    BY Zenon DEF Stop
  <1>4. PICK u : u = A.stop
    OBVIOUS
  <1>5. u \in Seq(Entry) /\ (~ IdentChanges(A) => Spares(A, u)) /\ Identity(A) \in Int
        /\ (IdentChanges(A) => Restores(A, u))
    BY <1>2, <1>4, StopTable
  <1>6. mem' = AfterSending(A, u, n, bad) /\ n \in 0 .. Len(u) /\ HasRegs(u, u)
    BY <1>2, <1>3, <1>4, <1>5, HasOwnRegs DEF Matters
  <1>7. ASSUME orderly', IdentChanges(A), NEW old
        PROVE  CellAfter(A, u, n, bad, IdentCell(A), old) = Identity(A)
    <2>1. bad = {} /\ n = Len(u)
      BY <1>2, <1>3, <1>4, <1>7
    <2> QED
      BY <1>5, <1>7, <2>1, IdentIsRestored DEF Restores
  <1>8. Identified'
    BY <1>1, <1>2, <1>5, <1>6, <1>7, SendingIdentifies DEF IInv
  <1>9. (opt \in Options)' /\ Chosen' /\ Tables' /\ FoundAgain'
    BY <1>1, <1>2 DEF IInv, Chosen, Tables, Editing, FoundAgain, S, M
  <1> QED
    BY <1>8, <1>9 DEF IInv

-----------------------------------------------------------------------------
(* The theorems *)

\* Every step of raspiraw, of its user and of a new invocation keeps the invariant.
LEMMA NextKeeps == IInv /\ [Next]_vars => IInv'
  <1> SUFFICES ASSUME IInv, [Next]_vars PROVE IInv'
    OBVIOUS
  <1>1. CASE Probe
    BY <1>1, ProbeKeeps
  <1>2. CASE EditStep /\ UNCHANGED bus
    BY <1>2, EditKeeps
  <1>3. CASE Start
    BY <1>3, StartKeeps
  <1>4. CASE Stop
    BY <1>4, StopKeeps
  <1>5. CASE Kill
    <2>1. pc \in {"streaming", "restart", "restreaming"} /\ pc' = "off"
          /\ UNCHANGED <<sensor, opt, attached, mem, heard, orderly>>
      BY <1>5 DEF Kill, bus
    <2> QED
      BY <2>1 DEF IInv, Identified, A, Chosen, Tables, Editing, FoundAgain
  <1>6. CASE Again
    <2>1. pc' = "probe" /\ UNCHANGED <<opt, attached, mem, orderly>>
      BY <1>6 DEF Again
    <2> QED
      BY <2>1 DEF IInv, Identified, A, Chosen, Tables, Editing, FoundAgain
  <1>7. CASE UNCHANGED vars
    <2>1. UNCHANGED <<sensor, opt, regs, pc, attached, mem, heard, orderly>>
      BY <1>7 DEF vars, bus, edited
    <2> QED
      BY <2>1 DEF IInv, Identified, A, Chosen, Tables, Editing, FoundAgain, S, M
  <1> QED
    BY <1>1, <1>2, <1>3, <1>4, <1>5, <1>6, <1>7 DEF Next

\* The invariant of every behaviour.
THEOREM Invariant == Spec => []IInv
  <1>1. IInv /\ [Next]_vars => IInv'
    BY NextKeeps
  <1> QED
    BY InitIInv, <1>1, PTL DEF Spec

\* FoundAgain: over any number of invocations, killed or not, with whatever options edited
\* the tables and whichever transfers failed, no sensor is taken for another one, and the
\* probe finds the one that is attached as long as the bus works and it was stopped in order
\* or answers with a register that its tables leave alone (raspiraw.c:356-480).
THEOREM TheSensorIsFoundAgain == Spec => []FoundAgain
  <1>1. IInv => FoundAgain
    BY DEF IInv
  <1> QED
    BY Invariant, <1>1, PTL

\* The table that a mode's edits leave has the registers of the mode, entry by entry, until
\* it is sent: options change the data alone (raspiraw.c:1550-1630, 2363-2478).
THEOREM OnlyDataIsEdited == Spec => [](pc = "start" => HasRegs(regs, M.regs))
  <1>1. IInv => (pc = "start" => HasRegs(regs, M.regs))
    BY DEF IInv, Tables, Editing
  <1> QED
    BY Invariant, <1>1, PTL

-----------------------------------------------------------------------------
(* What an edit does to the registers that a table has once *)

\* A set of naturals has its least element (the entry that modRegBit's search finds).
LEMMA LeastIsIn ==
    ASSUME NEW W \in SUBSET Nat, W # {}
    PROVE  (CHOOSE i \in W : \A j \in W : i <= j) \in W
  <1>1. PICK x \in W : \A y \in W : ~ (<<y, x>> \in OpToRel(<, Nat))
    BY NatLessThanWellFounded, WFMin
  <1>2. ASSUME NEW y \in W PROVE x <= y
    <2>1. x \in Nat /\ y \in Nat
      OBVIOUS
    <2>2. ~ (y < x)
      BY <1>1, <2>1 DEF OpToRel
    <2> QED
      BY <2>1, <2>2
  <1> QED
    BY <1>2

\* An edited table has its registers where the mode's table has them.
LEMMA WhereSame ==
    ASSUME NEW t, NEW u \in Seq(Entry), HasRegs(t, u)
    PROVE  /\ DOMAIN t = 1 .. Len(u) /\ Len(t) = Len(u)
           /\ \A r : Where(t, r) = Where(u, r)
  <1>0. Len(u) \in Nat
    OBVIOUS
  <1>1. t = [i \in 1 .. Len(u) |-> t[i]] /\ \A i \in 1 .. Len(u) : t[i].reg = u[i].reg
    BY DEF HasRegs
  <1>2. DOMAIN t = 1 .. Len(u)
    BY <1>1
  <1>3. Len(t) = Len(u)
    <2>1. Len([i \in 1 .. Len(u) |-> t[i]]) = Len(u)
      BY <1>0
    <2> QED
      BY <1>1, <2>1
  <1> QED
    BY <1>1, <1>2, <1>3 DEF Where

\* The place of a register that the table has once
At(u, r) == CHOOSE k \in 1 .. Len(u) : Where(u, r) = {k}

\* There the search of modRegBit finds it, and it is what the sensor gets.
LEMMA FoundOnce ==
    ASSUME NEW t, NEW u \in Seq(Entry), HasRegs(t, u), NEW r, Once(u, r)
    PROVE  /\ At(u, r) \in 1 .. Len(u) /\ Where(t, r) = {At(u, r)}
           /\ First(t, r) = At(u, r) /\ Sent(t, r) = t[At(u, r)].data
  <1> DEFINE k == At(u, r)
  <1>1. k \in 1 .. Len(u) /\ Where(u, r) = {k}
    BY DEF Once, At
  <1> HIDE DEF k
  <1>2. Where(t, r) = {k}
    BY <1>1, WhereSame
  <1>3. k \in Nat
    BY <1>1
  <1>4. First(t, r) = k
    BY <1>2, <1>3 DEF First
  <1>5. (CHOOSE i \in {k} : \A j \in {k} : j <= i) = k
    BY <1>3
  <1>6. Sent(t, r) = t[k].data
    BY <1>2, <1>5 DEF Sent
  <1> QED
    BY <1>1, <1>2, <1>4, <1>6 DEF k

\* The first entry of another register is elsewhere.
LEMMA FirstIsElsewhere ==
    ASSUME NEW t, NEW u \in Seq(Entry), HasRegs(t, u), NEW r, Once(u, r),
           NEW reg, reg # r, Where(t, reg) # {}
    PROVE  First(t, reg) # At(u, r)
  <1>1. Where(t, reg) \in SUBSET Nat
    BY WhereSame DEF Where
  <1>2. First(t, reg) \in Where(t, reg)
    BY <1>1, LeastIsIn DEF First
  <1>3. At(u, r) \in Where(t, r)
    BY FoundOnce
  <1> QED
    BY <1>2, <1>3 DEF Where

\* What is sent after the data of one entry was replaced
Replaced(t, j, v) == [t EXCEPT ![j].data = v]

\* A register that a table has once is sent as replaced, if it is its entry that is.
LEMMA SentReplaced ==
    ASSUME NEW t, NEW u \in Seq(Entry), HasRegs(t, u), NEW r, Once(u, r), NEW j, NEW v
    PROVE  Sent(Replaced(t, j, v), r) = IF j = At(u, r) THEN v ELSE Sent(t, r)
  <1> DEFINE w == [t EXCEPT ![j].data = v]
             k == At(u, r)
  <1>1. HasRegs(w, u)
    BY DataIsReplaced
  <1>2. Sent(w, r) = w[k].data /\ Sent(t, r) = t[k].data /\ k \in 1 .. Len(u)
    <2> HIDE DEF w
    <2> QED
      BY <1>1, FoundOnce
  <1>3. k \in DOMAIN t /\ DOMAIN t[k] = {"reg", "data"}
    BY <1>2, WhereSame DEF HasRegs
  <1>4. w[k] = IF k = j THEN [t[k] EXCEPT !.data = v] ELSE t[k]
    <2> HIDE DEF k
    <2> QED
      BY <1>3
  <1>5. [t[k] EXCEPT !.data = v].data = v
    <2> DEFINE x == t[k]
    <2>1. DOMAIN x = {"reg", "data"}
      BY <1>3
    <2> HIDE DEF x
    <2>2. [x EXCEPT !.data = v].data = v
      BY <2>1
    <2> QED
      BY <2>2 DEF x
  <1> HIDE DEF w, k
  <1>6. Sent(w, r) = IF j = k THEN v ELSE Sent(t, r)
    BY <1>2, <1>4, <1>5
  <1> QED
    BY <1>6 DEF w, k, Replaced

\* n, its bits below m being those of value
Masked(n, m, value) == n - (n % m) + (value % m)

\* modReg changes the low bits of its own register and no other one (raspiraw.c:2363-2399).
LEMMA modRegSent ==
    ASSUME NEW t, NEW u \in Seq(Entry), HasRegs(t, u), NEW r, Once(u, r),
           NEW reg, NEW endBit, NEW value, NEW m, m = 2^(endBit + 1)
    PROVE  Sent(modReg(t, reg, endBit, value), r) =
               IF reg = r THEN Masked(Sent(t, r), m, value) ELSE Sent(t, r)
  <1> DEFINE k == First(t, reg)
             v == Masked(t[k].data, m, value)
             w == Replaced(t, k, v)
             w2 == modReg(t, reg, endBit, value)
  <1>1. w2 = IF Where(t, reg) = {} THEN t ELSE w
    BY Zenon DEF modReg, Masked, Replaced
  <1>2. Sent(w, r) = IF k = At(u, r) THEN v ELSE Sent(t, r)
    <2> HIDE DEF v, k
    <2> QED
      BY SentReplaced
  <1> HIDE DEF w, w2
  <1>3. CASE reg = r
    <2>0. Where(t, r) = {At(u, r)} /\ First(t, r) = At(u, r) /\ Sent(t, r) = t[At(u, r)].data
      BY FoundOnce
    <2>1. k = At(u, r) /\ Where(t, reg) # {} /\ Sent(t, r) = t[k].data
      BY <1>3, <2>0
    <2> HIDE DEF k
    <2>2. Sent(w2, r) = Masked(Sent(t, r), m, value)
      BY <1>1, <1>2, <2>1
    <2> QED
      BY <1>3, <2>2 DEF w2
  <1>4. CASE reg # r
    <2>1. Where(t, reg) # {} => k # At(u, r)
      BY <1>4, FirstIsElsewhere
    <2> HIDE DEF k
    <2>2. Sent(w2, r) = Sent(t, r)
      BY <1>1, <1>2, <2>1
    <2> QED
      BY <1>4, <2>2 DEF w2
  <1> QED
    BY <1>3, <1>4

\* The same with eight bits, which is how all but the flips use it.
LEMMA ByteSent ==
    ASSUME NEW t, NEW u \in Seq(Entry), HasRegs(t, u), NEW r, Once(u, r),
           NEW reg, NEW value
    PROVE  Sent(modReg(t, reg, 7, value), r) =
               IF reg = r THEN Masked(Sent(t, r), 256, value) ELSE Sent(t, r)
  <1>1. PICK e, m : e = 7 /\ m = 256 /\ m = 2^(e + 1)
    BY 256 = 2^(7 + 1)
  <1>2. Sent(modReg(t, reg, e, value), r) =
            IF reg = r THEN Masked(Sent(t, r), m, value) ELSE Sent(t, r)
    <2>1. m = 2^(e + 1)
      BY <1>1
    <2> QED
      BY <2>1, modRegSent
  <1> QED
    BY <1>1, <1>2

\* modRegBit toggles a bit of its register and no other one (2363-2387).
LEMMA XorBitSent ==
    ASSUME NEW t, NEW u \in Seq(Entry), HasRegs(t, u), NEW r, Once(u, r),
           NEW reg, NEW bit, NEW value
    PROVE  Sent(XorBit(t, reg, bit, value), r) =
               IF reg = r /\ value THEN Toggle(Sent(t, r), bit) ELSE Sent(t, r)
  <1> DEFINE k == First(t, reg)
             v == Toggle(t[k].data, bit)
             w == Replaced(t, k, v)
             w2 == XorBit(t, reg, bit, value)
  <1>1. w2 = IF value /\ Where(t, reg) # {} THEN w ELSE t
    BY Zenon DEF XorBit, Replaced
  <1>2. Sent(w, r) = IF k = At(u, r) THEN v ELSE Sent(t, r)
    <2> HIDE DEF v, k
    <2> QED
      BY SentReplaced
  <1> HIDE DEF w, w2
  <1>3. CASE reg = r
    <2>0. Where(t, r) = {At(u, r)} /\ First(t, r) = At(u, r) /\ Sent(t, r) = t[At(u, r)].data
      BY FoundOnce
    <2>1. k = At(u, r) /\ Where(t, reg) # {} /\ Sent(t, r) = t[k].data
      BY <1>3, <2>0
    <2> HIDE DEF k
    <2>2. Sent(w2, r) = IF value THEN Toggle(Sent(t, r), bit) ELSE Sent(t, r)
      BY Zenon, <1>1, <1>2, <2>1 DEF v
    <2> QED
      BY <1>3, <2>2 DEF w2
  <1>4. CASE reg # r
    <2>1. Where(t, reg) # {} => k # At(u, r)
      BY <1>4, FirstIsElsewhere
    <2> HIDE DEF k
    <2>2. Sent(w2, r) = Sent(t, r)
      BY <1>1, <1>2, <2>1
    <2> QED
      BY <1>4, <2>2 DEF w2
  <1> QED
    BY <1>3, <1>4

\* A value of two registers: the low byte is set whole, of the high byte the low bits.
LEMMA PairSent ==
    ASSUME NEW t, NEW u \in Seq(Entry), HasRegs(t, u), NEW r, Once(u, r),
           NEW reg \in Int, NEW endBit, NEW value
    PROVE  Sent(Pair(t, reg, endBit, value), r) =
               IF reg = r THEN Masked(Sent(t, r), 2^(endBit + 1), value \div 256)
               ELSE IF reg + 1 = r THEN Masked(Sent(t, r), 256, value) ELSE Sent(t, r)
  <1> DEFINE high == value \div 256
             m == 2^(endBit + 1)
             w == modReg(t, reg, endBit, high)
             next == reg + 1
             w2 == modReg(w, next, 7, value)
  <1>1. HasRegs(w, u) /\ Pair(t, reg, endBit, value) = w2 /\ next # reg
    BY modRegKeeps DEF Pair
  <1>2. Sent(w, r) = IF reg = r THEN Masked(Sent(t, r), m, high) ELSE Sent(t, r)
    BY modRegSent
  <1> HIDE DEF w, high, m, next
  <1>3. Sent(w2, r) = IF next = r THEN Masked(Sent(w, r), 256, value) ELSE Sent(w, r)
    BY <1>1, ByteSent
  <1> HIDE DEF w2
  <1>5. Sent(w2, r) = IF reg = r THEN Masked(Sent(t, r), m, high)
                      ELSE IF next = r THEN Masked(Sent(t, r), 256, value) ELSE Sent(t, r)
    BY Zenon, <1>1, <1>2, <1>3
  <1> QED
    BY <1>1, <1>5 DEF next, m, high

\* The loop of modRegs: a register that the list names once gets its data, when it is its turn;
\* one that the list does not name (i is then beyond its end) stays as it was.
LEMMA LoopSent ==
    ASSUME NEW t, NEW u \in Seq(Entry), HasRegs(t, u), NEW r, Once(u, r),
           NEW list, Len(list) \in Nat, NEW i \in Nat \ {0},
           \A j \in 1 .. Len(list) : list[j].reg = r <=> j = i
    PROVE  Sent(modRegs(t, list), r) =
               IF i <= Len(list) THEN Masked(Sent(t, r), 256, list[i].data) ELSE Sent(t, r)
  <1> DEFINE n == Len(list)
             f == CHOOSE g : IsLoop(t, list, n, g)
             Want(j) == IF i <= j THEN Masked(Sent(t, r), 256, list[i].data) ELSE Sent(t, r)
             bad == {j \in 0 .. n : ~ (HasRegs(f[j], u) /\ Sent(f[j], r) = Want(j))}
  <1>1. IsLoop(t, list, n, f)
    BY LoopExists, Zenon
  <1>2. modRegs(t, list) = f[n]
    BY DEF modRegs, IsLoop, Edited
  <1> HIDE DEF f
  <1>3. \A j \in 0 .. n : f[j] = Edited(t, list, f, j)
    BY <1>1 DEF IsLoop
  <1> HIDE DEF n
  <1>n. n \in Nat /\ 0 \in 0 .. n
    BY DEF n
  <1>4. 0 \notin bad
    <2>1. f[0] = t /\ Want(0) = Sent(t, r)
      BY <1>3, <1>n DEF Edited
    <2> QED
      BY <2>1
  <1>5. ASSUME NEW j \in 0 .. n, j # 0, HasRegs(f[j - 1], u), Sent(f[j - 1], r) = Want(j - 1)
        PROVE  HasRegs(f[j], u) /\ Sent(f[j], r) = Want(j)
    <2> DEFINE reg == list[j].reg
               data == list[j].data
               prev == f[j - 1]
    <2>1. f[j] = modReg(prev, reg, 7, data)
      BY <1>3, <1>5 DEF Edited
    <2>2. HasRegs(f[j], u)
      BY <1>5, <2>1, modRegKeeps
    <2>4. Sent(f[j], r) = IF reg = r THEN Masked(Sent(prev, r), 256, data) ELSE Sent(prev, r)
      <3> HIDE DEF prev, reg, data
      <3>1. HasRegs(prev, u)
        BY <1>5 DEF prev
      <3> QED
        BY <2>1, <3>1, ByteSent
    <2>5. reg = r <=> j = i
      BY <1>n, <1>5 DEF n
    <2>6. Sent(prev, r) = Want(j - 1)
      BY <1>5
    <2> HIDE DEF prev, reg
    <2>7. CASE j = i
      <3>1. Want(j - 1) = Sent(t, r) /\ Want(j) = Masked(Sent(t, r), 256, data)
        BY <2>7, <1>n
      <3> HIDE DEF Want, data
      <3> QED
        BY <2>2, <2>4, <2>5, <2>6, <2>7, <3>1
    <2>8. CASE j # i
      <3>1. i <= j - 1 <=> i <= j
        BY <2>8, <1>n
      <3>2. Want(j - 1) = Want(j)
        BY <3>1
      <3> HIDE DEF Want
      <3> QED
        BY <2>2, <2>4, <2>5, <2>6, <2>8, <3>2
    <2> QED
      BY <2>7, <2>8
  <1>6. bad = {}
    <2> HIDE DEF Want
    <2>1. bad \in SUBSET Nat
      BY <1>n
    <2>2. ASSUME NEW j \in bad PROVE j # 0 /\ j - 1 \in bad
      <3>1. j \in 0 .. n /\ ~ (HasRegs(f[j], u) /\ Sent(f[j], r) = Want(j)) /\ j # 0
        BY <1>4
      <3>2. j - 1 \in 0 .. n
        BY <3>1, <1>n
      <3>3. ~ (HasRegs(f[j - 1], u) /\ Sent(f[j - 1], r) = Want(j - 1))
        BY <1>5, <3>1
      <3> QED
        BY <3>1, <3>2, <3>3
    <2> HIDE DEF bad
    <2> QED
      BY <2>1, <2>2, NoFirst
  <1>7. n \in 0 .. n
    BY <1>n
  <1>8. Sent(f[n], r) = Want(n)
    <2> HIDE DEF Want
    <2> QED
      BY <1>6, <1>7
  <1> QED
    BY <1>2, <1>8 DEF n

\* An assignment of -regs, -hinc or -vinc leaves the other registers (1550-1594).
Spared(list, R) == \A i \in 1 .. Len(list) : list[i].reg \notin R

\* A list of assignments leaves the registers it does not name (raspiraw.c:1555-1578).
LEMMA modRegsSpare ==
    ASSUME NEW t, NEW u \in Seq(Entry), HasRegs(t, u), NEW r, Once(u, r),
           NEW list, Len(list) \in Nat, NEW R, r \in R, Spared(list, R)
    PROVE  Sent(modRegs(t, list), r) = Sent(t, r)
  <1> DEFINE n == Len(list)
             i == n + 1
  <1>1. n \in Nat
    OBVIOUS
  <1>2. i \in Nat \ {0} /\ ~ i <= n /\ \A j \in 1 .. n : j # i
    <2> HIDE DEF n
    <2> QED
      BY <1>1
  <1>3. \A j \in 1 .. n : list[j].reg # r
    BY DEF Spared
  <1> HIDE DEF i
  <1>4. \A j \in 1 .. Len(list) : list[j].reg = r <=> j = i
    BY <1>2, <1>3
  <1> QED
    BY <1>2, <1>4, LoopSent

\* The registers of a field get its bytes, high byte first, and no other register changes
\* (update_regs, 2417-2478).
LEMMA FieldSent ==
    ASSUME NEW t, NEW u \in Seq(Entry), HasRegs(t, u), NEW r, Once(u, r),
           NEW reg \in Int, NEW bits \in Nat, NEW value
    PROVE  /\ r \notin reg .. reg + Count(bits) - 1 =>
                  Sent(Field(t, reg, bits, value), r) = Sent(t, r)
           /\ \A i \in 1 .. Count(bits) :
                  r = reg + i - 1 =>
                      Sent(Field(t, reg, bits, value), r) =
                          Masked(Sent(t, r), 256, value \div 2^(8 * (Count(bits) - i)))
  <1> DEFINE n == Count(bits)
             Data(i) == value \div 2^(8 * (n - i))
             list == [i \in 1 .. n |-> [reg |-> reg + i - 1, data |-> Data(i)]]
  <1>1. n \in Nat
    BY DEF Count
  <1>2. Field(t, reg, bits, value) = modRegs(t, list)
    BY DEF Field
  <1> HIDE DEF n, Data
  <1>3. Len(list) = n
    BY <1>1
  <1>4. \A i \in 1 .. n : list[i].reg = reg + i - 1 /\ list[i].data = Data(i)
    OBVIOUS
  <1> HIDE DEF list
  <1>5. ASSUME r \notin reg .. reg + n - 1
        PROVE  Sent(modRegs(t, list), r) = Sent(t, r)
    <2>1. \A i \in 1 .. n : reg + i - 1 \in reg .. reg + n - 1
      BY <1>1
    <2>2. Spared(list, {r})
      BY <1>3, <1>4, <1>5, <2>1 DEF Spared
    <2> QED
      BY <1>1, <1>3, <2>2, modRegsSpare
  <1>6. ASSUME NEW i \in 1 .. n, r = reg + i - 1
        PROVE  Sent(modRegs(t, list), r) = Masked(Sent(t, r), 256, Data(i))
    <2>1. i \in Nat \ {0} /\ i <= n
      BY <1>1
    <2>2. \A j \in 1 .. n : reg + j - 1 = reg + i - 1 <=> j = i
      BY <1>1
    <2>3. \A j \in 1 .. Len(list) : list[j].reg = r <=> j = i
      BY <1>3, <1>4, <1>6, <2>2
    <2>4. Sent(modRegs(t, list), r) = Masked(Sent(t, r), 256, list[i].data)
      <3>1. PICK l : l = list
        OBVIOUS
      <3>2. Len(l) \in Nat /\ i <= Len(l) /\ \A j \in 1 .. Len(l) : l[j].reg = r <=> j = i
        BY <1>1, <1>3, <2>1, <2>3, <3>1
      <3>3. Sent(modRegs(t, l), r) = Masked(Sent(t, r), 256, l[i].data)
        BY <2>1, <3>2, LoopSent
      <3> QED
        BY <3>1, <3>3
    <2> QED
      BY <1>4, <2>4
  <1>7. /\ r \notin reg .. reg + n - 1 => Sent(Field(t, reg, bits, value), r) = Sent(t, r)
        /\ \A i \in 1 .. n : r = reg + i - 1 =>
               Sent(Field(t, reg, bits, value), r) = Masked(Sent(t, r), 256, Data(i))
    BY <1>2, <1>5, <1>6
  <1> QED
    BY <1>7 DEF n, Data

-----------------------------------------------------------------------------
(* What main made of the mode: its steps one after the other (1538-1823, 2401-2478) *)

\* The table after each step
AfterRegs == modRegs(M.regs, opt.edits)
AfterFps == IF opt.fps2 > 0 THEN Pair(AfterRegs, S.vts.reg, 7, FrameTime) ELSE AfterRegs
AfterSize == Put(Put(Put(Put(AfterFps, 14344, opt.width), 14346, opt.height),
                     14336, opt.left * Unit), 14338, opt.top * Unit)
AfterVFlip == IF S.vflip.reg # 0 THEN XorBit(AfterSize, S.vflip.reg, S.vflip.bit, opt.vflip)
              ELSE AfterSize
AfterHFlip == IF S.hflip.reg # 0 THEN XorBit(AfterVFlip, S.hflip.reg, S.hflip.bit, opt.hflip)
              ELSE AfterVFlip
AfterExposure == IF S.exposure.reg # 0 /\ Valid(exposure, S.exposure.bits)
                 THEN Field(AfterHFlip, S.exposure.reg, S.exposure.bits, exposure)
                 ELSE AfterHFlip
FrameFollows == /\ S.vts.reg # 0 /\ exposure # -1 /\ exposure >= M.min_vts
                /\ Valid(exposure, S.vts.bits)
AfterVts == IF FrameFollows THEN Field(AfterExposure, S.vts.reg, S.vts.bits, exposure)
            ELSE AfterExposure
AfterGain == IF S.gain.reg # 0 /\ Valid(opt.gain, S.gain.bits)
             THEN Field(AfterVts, S.gain.reg, S.gain.bits, opt.gain)
             ELSE AfterVts

\* The size and the order
AskedSize == <<IF opt.width > 0 THEN opt.width ELSE M.width,
               IF opt.height > 0 THEN opt.height ELSE M.height>>
VFlipped == S.vflip.reg # 0 /\ opt.vflip /\ ~ S.keepsOrder
HFlipped == S.hflip.reg # 0 /\ opt.hflip /\ ~ S.keepsOrder
OrderV == IF VFlipped THEN Toggle(M.order, 1) ELSE M.order
OrderH == IF HFlipped THEN Toggle(OrderV, 0) ELSE OrderV

\* What main has made of the mode's table when it comes to each option
Composed ==
    /\ pc = "regs" => regs = M.regs
    /\ pc = "fps" => regs = AfterRegs
    /\ pc = "size" => regs = AfterFps
    /\ pc \in {"depth", "expus", "vflip"} => regs = AfterSize
    /\ pc = "hflip" => regs = AfterVFlip
    /\ pc = "exposure" => regs = AfterHFlip
    /\ pc = "vts" => regs = AfterExposure
    /\ pc = "gain" => regs = AfterVts
    /\ pc \in {"encoding", "start", "streaming", "restart", "restreaming"} => regs = AfterGain

\* What it has made of the mode's description
Described ==
    /\ pc \in {"regs", "fps", "size"} => size = <<M.width, M.height>>
    /\ pc \in Editing \ {"regs", "fps", "size"} => size = AskedSize
    /\ pc \in {"regs", "fps", "size", "depth", "expus", "vflip"} => order = M.order
    /\ pc = "hflip" => order = OrderV
    /\ pc \in {"exposure", "vts", "gain", "encoding", "start"} => order = OrderH
    /\ pc \in Editing => exposure \in Int
    /\ pc = "start" /\ M.encoding = "none" =>
          encoding = <<order, depth>> /\ order \in Orders /\ depth \in {8, 10, 12, 16}

\* The invariant of the edits
CInv == IInv /\ Composed /\ Described

\* They depend on the sensor, the command line and the exposure.
LEMMA StepsStay ==
    ASSUME sensor' = sensor, opt' = opt
    PROVE  /\ S' = S /\ M' = M /\ FrameTime' = FrameTime /\ Unit' = Unit
           /\ AfterRegs' = AfterRegs /\ AfterFps' = AfterFps /\ AfterSize' = AfterSize
           /\ AfterVFlip' = AfterVFlip /\ AfterHFlip' = AfterHFlip
           /\ AskedSize' = AskedSize /\ OrderV' = OrderV /\ OrderH' = OrderH
           /\ exposure' = exposure =>
                  AfterExposure' = AfterExposure /\ AfterVts' = AfterVts /\ AfterGain' = AfterGain
  <1>1. S' = S
    BY DEF S
  <1>2. M' = M
    BY <1>1 DEF M
  <1>3. FrameTime' = FrameTime /\ Unit' = Unit
    BY <1>2 DEF FrameTime, Unit
  <1>4. AfterRegs' = AfterRegs
    BY <1>2 DEF AfterRegs
  <1>5. AfterFps' = AfterFps
    BY <1>1, <1>3, <1>4 DEF AfterFps
  <1>6. AfterSize' = AfterSize
    BY <1>3, <1>5 DEF AfterSize
  <1>7. AfterVFlip' = AfterVFlip
    BY <1>1, <1>6 DEF AfterVFlip
  <1>8. AfterHFlip' = AfterHFlip
    BY <1>1, <1>7 DEF AfterHFlip
  <1>9. AskedSize' = AskedSize
    BY <1>2 DEF AskedSize
  <1>10. OrderV' = OrderV
    BY <1>1, <1>2 DEF OrderV, VFlipped
  <1>11. OrderH' = OrderH
    BY <1>1, <1>10 DEF OrderH, HFlipped
  <1>12. ASSUME exposure' = exposure
         PROVE  AfterExposure' = AfterExposure /\ AfterVts' = AfterVts /\ AfterGain' = AfterGain
    <2>1. AfterExposure' = AfterExposure
      BY <1>1, <1>8, <1>12 DEF AfterExposure
    <2>2. AfterVts' = AfterVts
      BY <1>1, <1>2, <1>12, <2>1 DEF AfterVts, FrameFollows
    <2>3. AfterGain' = AfterGain
      BY <1>1, <2>2 DEF AfterGain
    <2> QED
      BY <2>1, <2>2, <2>3
  <1> QED
    BY <1>1, <1>2, <1>3, <1>4, <1>5, <1>6, <1>7, <1>8, <1>9, <1>10, <1>11, <1>12

\* Each step makes the next table of the one before.
LEMMA StepComposes ==
    ASSUME Composed, EditStep, sensor' = sensor, opt' = opt
    PROVE  Composed'
  <1>1. CASE ChooseMode
    BY <1>1, StepsStay DEF ChooseMode, Composed
  <1>2. CASE EditRegs
    BY <1>2, StepsStay DEF EditRegs, Step, Composed, AfterRegs
  <1>3. CASE SetFps
    BY <1>3, StepsStay DEF SetFps, Step, Composed, AfterFps
  <1>4. CASE SetSize
    BY <1>4, StepsStay DEF SetSize, Step, Composed, AfterSize
  <1>5. CASE SetDepth
    BY <1>5, StepsStay DEF SetDepth, Composed
  <1>6. CASE SetExposureUs
    BY <1>6, StepsStay DEF SetExposureUs, Composed
  <1>7. CASE SetVFlip
    BY <1>7, StepsStay DEF SetVFlip, Step, Composed, AfterVFlip
  <1>8. CASE SetHFlip
    BY <1>8, StepsStay DEF SetHFlip, Step, Composed, AfterHFlip
  <1>9. CASE SetExposure
    BY <1>9, StepsStay DEF SetExposure, Step, EditsTable, Composed, AfterExposure
  <1>10. CASE SetVts
    BY <1>10, StepsStay DEF SetVts, Step, EditsTable, Composed, AfterVts, FrameFollows
  <1>11. CASE SetGain
    BY <1>11, StepsStay DEF SetGain, Step, EditsTable, Composed, AfterGain
  <1>12. CASE SetEncoding
    BY <1>12, StepsStay DEF SetEncoding, Composed
  <1> QED
    BY <1>1, <1>2, <1>3, <1>4, <1>5, <1>6, <1>7, <1>8, <1>9, <1>10, <1>11, <1>12 DEF EditStep

\* What the assumptions say of the sensor, its mode and the command line.
LEMMA WhatIsKnown ==
    ASSUME IInv, pc \in Editing
    PROVE  /\ ProperSensor(S) /\ ProperPorts(S) /\ ProperMode(S, opt.mode + 1)
           /\ ProperOptions(opt)
           /\ M.regs \in Seq(Entry) /\ HasRegs(regs, M.regs)
  <1>1. attached # 0 /\ sensor = attached
    BY DEF IInv, Chosen, Editing
  <1>2. sensor \in 1 .. Len(Sensors) /\ ProperSensor(S)
    BY <1>1, Attached DEF IInv, A, S
  <1>3. ProperPorts(S) /\ Len(S.modes) \in Nat /\ \A k \in 1 .. Len(S.modes) : ProperMode(S, k)
    BY <1>2, TablesAssumption DEF S
  <1>4. opt.mode \in 0 .. Len(S.modes) - 1 /\ HasRegs(regs, M.regs)
    BY DEF IInv, Tables
  <1>5. ProperMode(S, opt.mode + 1)
    <2> DEFINE n == Len(S.modes)
               k == opt.mode + 1
    <2>1. k \in 1 .. n
      BY <1>3, <1>4
    <2> HIDE DEF k, n
    <2>2. ProperMode(S, k)
      BY <1>3, <2>1 DEF n
    <2> QED
      BY <2>2 DEF k
  <1>6. M.regs \in Seq(Entry)
    BY <1>2, <1>4, ModeTables DEF M
  <1>7. ProperOptions(opt)
    BY OptionsAssumption DEF IInv
  <1> QED
    BY <1>2, <1>3, <1>4, <1>5, <1>6, <1>7

\* What TablesAssumption says of a mode, but for the size it tells the sensor.
LEMMA OfAMode ==
    ASSUME NEW s, NEW k, ProperMode(s, k)
    PROVE  LET m == s.modes[k]
           IN  /\ m.order \in Orders
               /\ m.native_bit_depth \in Nat /\ m.line_time_ns \in Nat /\ m.min_vts \in Nat
               /\ \A r \in FlipRegs(s) \cup Regs(s.exposure) \cup Regs(s.gain) \cup Regs(s.vts) :
                     HoldsByte(m.regs, r)
  BY Zenon DEF ProperMode

\* What main says of the images: size, order and encoding
LEMMA StepDescribes ==
    ASSUME IInv, Described, EditStep, sensor' = sensor, opt' = opt
    PROVE  Described'
  <1>0. exposure \in Int \/ pc \notin Editing
    BY DEF Described
  <1>1. CASE ChooseMode
    <2>1. opt.exposure \in Int
      BY OptionsAssumption DEF IInv, ProperOptions
    <2> QED
      BY <1>1, <2>1, StepsStay DEF ChooseMode, Described, Editing
  <1>2. CASE EditRegs \/ SetFps
    BY <1>2, StepsStay DEF EditRegs, SetFps, Step, EditsTable, Described, Editing
  <1>3. CASE SetSize
    <2>1. pc = "size" /\ pc' = "depth" /\ UNCHANGED <<order, exposure>>
      BY <1>3 DEF SetSize, Step
    <2>2. size = <<M.width, M.height>> /\ order = M.order /\ exposure \in Int
      BY <2>1 DEF Described, Editing
    <2>3. size' = AskedSize
      BY <1>3, <2>2 DEF SetSize, AskedSize
    <2> QED
      BY <2>1, <2>2, <2>3, StepsStay DEF Described, Editing
  <1>4. CASE SetDepth
    BY <1>4, StepsStay DEF SetDepth, Described, Editing
  <1>5. CASE SetExposureUs
    <2>1. pc = "expus" /\ pc' \in {"ended", "vflip"} /\ UNCHANGED <<size, order>>
      BY <1>5 DEF SetExposureUs
    <2>2. exposure' \in Int
      <3>1. M.line_time_ns \in Nat
        BY <2>1, WhatIsKnown, OfAMode DEF Editing, M
      <3>2. opt.exposure_us \in Int
        BY OptionsAssumption DEF IInv, ProperOptions
      <3>3. exposure \in Int
        BY <2>1, <1>0 DEF Editing
      <3> DEFINE a == opt.exposure_us * 1000
                 l == M.line_time_ns
      <3>4. exposure' \in {exposure, 0} \/ (l # 0 /\ exposure' = a \div l)
        BY <1>5 DEF SetExposureUs
      <3>5. a \in Int
        BY <3>2
      <3> HIDE DEF a, l
      <3>6. l # 0 => a \div l \in Int
        BY <3>1, <3>5 DEF l
      <3> QED
        BY <3>3, <3>4, <3>6
    <2> QED
      BY <2>1, <2>2, StepsStay DEF Described, Editing
  <1>7. CASE SetVFlip
    <2>1. pc = "vflip" /\ pc' = "hflip" /\ UNCHANGED <<size, exposure>>
      BY <1>7 DEF SetVFlip, Step, EditsFlip
    <2>2. size = AskedSize /\ order = M.order /\ exposure \in Int
      BY <2>1 DEF Described, Editing
    <2>3. order' = OrderV
      BY <1>7, <2>2 DEF SetVFlip, OrderV, VFlipped
    <2> QED
      BY <2>1, <2>2, <2>3, StepsStay DEF Described, Editing
  <1>8. CASE SetHFlip
    <2>1. pc = "hflip" /\ pc' = "exposure" /\ UNCHANGED <<size, exposure>>
      BY <1>8 DEF SetHFlip, Step, EditsFlip
    <2>2. size = AskedSize /\ order = OrderV /\ exposure \in Int
      BY <2>1 DEF Described, Editing
    <2>3. order' = OrderH
      BY <1>8, <2>2 DEF SetHFlip, OrderH, HFlipped
    <2> QED
      BY <2>1, <2>2, <2>3, StepsStay DEF Described, Editing
  <1>9. CASE SetExposure \/ SetVts \/ SetGain
    BY <1>9, StepsStay DEF SetExposure, SetVts, SetGain, Step, EditsTable, Described, Editing
  <1>10. CASE SetEncoding
    <2>1. pc = "encoding" /\ pc' \in {"start", "ended"} /\ UNCHANGED <<size, order, exposure, depth>>
      BY <1>10 DEF SetEncoding
    <2>2. size = AskedSize /\ order = OrderH /\ exposure \in Int
      BY <2>1 DEF Described, Editing
    <2>3. ASSUME pc' = "start", M.encoding = "none"
          PROVE  encoding' = <<order, depth>> /\ order \in Orders /\ depth \in {8, 10, 12, 16}
      BY <1>10, <2>3, Zenon DEF SetEncoding
    <2>4. M' = M /\ AskedSize' = AskedSize /\ OrderH' = OrderH
      BY StepsStay
    <2>5. pc' = "start" /\ M'.encoding = "none" =>
            encoding' = <<order', depth'>> /\ order' \in Orders /\ depth' \in {8, 10, 12, 16}
      BY <2>1, <2>3, <2>4
    <2> QED
      BY <2>1, <2>2, <2>4, <2>5 DEF Described, Editing
  <1> QED
    BY <1>1, <1>2, <1>3, <1>4, <1>5, <1>7, <1>8, <1>9, <1>10 DEF EditStep

\* The inductive invariant of the edits
LEMMA CInvKeeps == CInv /\ [Next]_vars => CInv'
  <1> SUFFICES ASSUME CInv, [Next]_vars PROVE CInv'
    OBVIOUS
  <1>1. IInv'
    BY NextKeeps DEF CInv
  <1>2. CASE EditStep /\ UNCHANGED bus
    <2>1. sensor' = sensor /\ opt' = opt
      BY <1>2, EditLeaves DEF CInv
    <2> QED
      BY <1>1, <1>2, <2>1, StepComposes, StepDescribes DEF CInv
  <1>3. CASE Start \/ Stop
    <2>1. /\ UNCHANGED <<sensor, opt, regs, size, exposure>>
          /\ pc \in {"start", "streaming", "restart", "restreaming"}
          /\ pc' \in {"streaming", "restart", "restreaming", "stopped", "off"}
      BY <1>3 DEF Start, Stop, Started, Stopped, edited
    <2>2. Composed'
      BY <2>1, StepsStay DEF CInv, Composed
    <2>3. size = AskedSize /\ exposure \in Int /\ AskedSize' = AskedSize
      BY <2>1, StepsStay DEF CInv, Described, Editing
    <2>4. Described'
      BY <2>1, <2>3 DEF Described, Editing
    <2> QED
      BY <1>1, <2>2, <2>4 DEF CInv
  <1>5. CASE Probe \/ Kill \/ Again
    <2>1. pc' \notin Editing
      <3>1. Probe => pc' \in {"ended", "mode"}
        BY DEF Probe
      <3>2. Kill \/ Again => pc' \in {"off", "probe"}
        BY DEF Kill, Again
      <3> QED
        BY <1>5, <3>1, <3>2 DEF Editing
    <2>2. Composed' /\ Described'
      BY <2>1 DEF Composed, Described, Editing
    <2> QED
      BY <1>1, <2>2 DEF CInv
  <1>4. CASE UNCHANGED vars
    <2>1. UNCHANGED <<sensor, opt, regs, size, order, exposure, depth, encoding, pc>>
      BY <1>4 DEF vars, edited
    <2>2. Composed'
      BY <2>1, StepsStay DEF CInv, Composed
    <2>3. Described'
      BY <2>1, StepsStay DEF CInv, Described
    <2> QED
      BY <1>1, <2>2, <2>3 DEF CInv
  <1> QED
    BY <1>2, <1>3, <1>4, <1>5 DEF Next

\* At each step of main the table is that of the mode after exactly the edits so far, in the
\* order of main, and size, order and exposure are what they made of the mode's and the command
\* line's (raspiraw.c:1538-1659, 2401-2480).
THEOREM TablesAreComposed == Spec => []CInv
  <1>1. Init => CInv
    <2> SUFFICES ASSUME Init PROVE CInv
      OBVIOUS
    <2>1. pc = "probe"
      BY DEF Init
    <2>2. Composed /\ Described
      BY <2>1 DEF Composed, Described, Editing
    <2> QED
      BY <2>2, InitIInv DEF CInv
  <1>2. CInv /\ [Next]_vars => CInv'
    BY CInvKeeps
  <1> QED
    BY <1>1, <1>2, PTL DEF Spec

-----------------------------------------------------------------------------
(* Which step changes which register *)

\* Types of the registers of the options
LEMMA OfPorts ==
    ASSUME NEW s, ProperPorts(s)
    PROVE  /\ s.vflip.reg \in Nat /\ s.hflip.reg \in Nat /\ ~ s.keepsOrder
           /\ s.vflip.bit \in 0 .. 7 /\ s.hflip.bit \in 0 .. 7
           /\ s.vflip.reg = s.hflip.reg /\ s.vflip.reg # 0 => s.vflip.bit # s.hflip.bit
           /\ \A f \in {s.exposure, s.vts, s.gain} :
                  f.reg \in Nat /\ (f.reg # 0 => f.bits \in 1 .. 24)
           /\ s.vts.reg # 0 => s.vts.bits \in 9 .. 16
           /\ \A i, j \in 1 .. 5 : i # j => Ports(s)[i] \cap Ports(s)[j] = {}
  BY Zenon DEF ProperPorts

\* No register is edited by two of the options, from whichever side one looks.
LEMMA PortsApart ==
    ASSUME NEW s, ProperPorts(s)
    PROVE  /\ \A r \in FlipRegs(s) : /\ r \notin Regs(s.exposure) /\ r \notin Regs(s.gain)
                                     /\ r \notin FpsRegs(s) /\ r \notin SizeRegs
           /\ \A r \in Regs(s.exposure) : /\ r \notin FlipRegs(s) /\ r \notin Regs(s.gain)
                                          /\ r \notin FpsRegs(s) /\ r \notin SizeRegs
           /\ \A r \in Regs(s.gain) : /\ r \notin FlipRegs(s) /\ r \notin Regs(s.exposure)
                                      /\ r \notin FpsRegs(s) /\ r \notin SizeRegs
           /\ \A r \in FpsRegs(s) : /\ r \notin FlipRegs(s) /\ r \notin Regs(s.exposure)
                                    /\ r \notin Regs(s.gain) /\ r \notin SizeRegs
           /\ \A r \in SizeRegs : /\ r \notin FlipRegs(s) /\ r \notin Regs(s.exposure)
                                  /\ r \notin Regs(s.gain) /\ r \notin FpsRegs(s)
  <1> DEFINE p == Ports(s)
  <1>1. /\ p[1] = FlipRegs(s) /\ p[2] = Regs(s.exposure) /\ p[3] = Regs(s.gain)
        /\ p[4] = FpsRegs(s) /\ p[5] = SizeRegs
    BY DEF Ports
  <1>2. \A i, j \in 1 .. 5 : i # j => p[i] \cap p[j] = {}
    BY OfPorts
  <1> HIDE DEF p
  <1>3. /\ p[1] \cap p[2] = {} /\ p[1] \cap p[3] = {} /\ p[1] \cap p[4] = {} /\ p[1] \cap p[5] = {}
        /\ p[2] \cap p[3] = {} /\ p[2] \cap p[4] = {} /\ p[2] \cap p[5] = {}
        /\ p[3] \cap p[4] = {} /\ p[3] \cap p[5] = {} /\ p[4] \cap p[5] = {}
    BY <1>2
  <1> QED
    BY <1>1, <1>3, Zenon

\* The frame time's registers as a field are those of -fps: two.
LEMMA TwoBytes ==
    ASSUME NEW s, ProperPorts(s), s.vts.reg # 0
    PROVE  Count(s.vts.bits) = 2 /\ Regs(s.vts) = FpsRegs(s)
  <1>1. s.vts.bits \in 9 .. 16 /\ s.vts.reg \in Nat
    BY OfPorts
  <1>2. Count(s.vts.bits) = 2
    BY <1>1 DEF Count
  <1> DEFINE r == s.vts.reg
  <1>3. r .. r + 2 - 1 = {r, r + 1}
    BY <1>1
  <1> QED
    BY <1>2, <1>3 DEF Regs, FpsRegs

\* A field of register 0 is not edited; another one's registers are those of Regs.
LEMMA FieldSpares ==
    ASSUME NEW t, NEW u \in Seq(Entry), HasRegs(t, u), NEW r, Once(u, r),
           NEW f, f.reg \in Nat, f.reg # 0, f.bits \in Nat, NEW value, r \notin Regs(f)
    PROVE  Sent(Field(t, f.reg, f.bits, value), r) = Sent(t, r)
  <1>1. r \notin f.reg .. f.reg + Count(f.bits) - 1
    BY DEF Regs
  <1>2. f.reg \in Int
    OBVIOUS
  <1> QED
    BY <1>1, <1>2, FieldSent

\* A size or position option leaves the registers that are not its two.
LEMMA PutSpares ==
    ASSUME NEW t, NEW u \in Seq(Entry), HasRegs(t, u), NEW r, Once(u, r),
           NEW reg \in Int, NEW value, r # reg, r # reg + 1
    PROVE  Sent(Put(t, reg, value), r) = Sent(t, r)
  <1>1. Sent(Pair(t, reg, 3, value), r) = Sent(t, r)
    BY PairSent
  <1> QED
    BY <1>1 DEF Put

\* All tables have the registers of the mode's.
LEMMA AllHaveRegs ==
    ASSUME IInv, pc \in Editing, NEW u, u = M.regs
    PROVE  /\ u \in Seq(Entry) /\ HasRegs(u, u) /\ HasRegs(AfterRegs, u) /\ HasRegs(AfterFps, u)
           /\ HasRegs(AfterSize, u) /\ HasRegs(AfterVFlip, u) /\ HasRegs(AfterHFlip, u)
           /\ HasRegs(AfterExposure, u) /\ HasRegs(AfterVts, u) /\ HasRegs(AfterGain, u)
  <1>1. u \in Seq(Entry)
    BY WhatIsKnown
  <1>2. HasRegs(u, u)
    BY <1>1, HasOwnRegs
  <1>3. HasRegs(AfterRegs, u)
    <2>1. Len(opt.edits) \in Nat
      BY WhatIsKnown DEF ProperOptions
    <2> QED
      BY <1>1, <1>2, <2>1, modRegsKeeps DEF AfterRegs
  <1>4. HasRegs(AfterFps, u)
    BY <1>1, <1>3, PairKeeps DEF AfterFps
  <1>5. HasRegs(AfterSize, u)
    <2>1. PICK a, b, c : /\ a = Put(AfterFps, 14344, opt.width)
                         /\ b = Put(a, 14346, opt.height)
                         /\ c = Put(b, 14336, opt.left * Unit)
      OBVIOUS
    <2>2. HasRegs(a, u)
      BY <2>1, <1>1, <1>4, PutKeeps
    <2>3. HasRegs(b, u)
      BY <2>1, <2>2, <1>1, PutKeeps
    <2>4. HasRegs(c, u)
      BY <2>1, <2>3, <1>1, PutKeeps
    <2>5. AfterSize = Put(c, 14338, opt.top * Unit)
      BY <2>1 DEF AfterSize
    <2> QED
      BY <2>4, <2>5, <1>1, PutKeeps
  <1>6. HasRegs(AfterVFlip, u)
    BY <1>1, <1>5, XorBitKeeps DEF AfterVFlip
  <1>7. HasRegs(AfterHFlip, u)
    BY <1>1, <1>6, XorBitKeeps DEF AfterHFlip
  <1>0. S.exposure.bits \in Nat /\ S.vts.bits \in Nat /\ S.gain.bits \in Nat
    BY WhatIsKnown, OfASensor, Zenon
  <1>8. HasRegs(AfterExposure, u)
    BY <1>0, <1>1, <1>7, FieldKeeps DEF AfterExposure
  <1>9. HasRegs(AfterVts, u)
    BY <1>0, <1>1, <1>8, FieldKeeps DEF AfterVts
  <1>10. HasRegs(AfterGain, u)
    BY <1>0, <1>1, <1>9, FieldKeeps DEF AfterGain
  <1> QED
    BY <1>1, <1>2, <1>3, <1>4, <1>5, <1>6, <1>7, <1>8, <1>9, <1>10

\* Every step leaves what is not its own.
LEMMA StepsSpare ==
    ASSUME IInv, pc \in Editing, NEW r, Once(M.regs, r)
    PROVE  /\ Spared(opt.edits, {r}) => Sent(AfterRegs, r) = Sent(M.regs, r)
           /\ r \notin FpsRegs(S) => Sent(AfterFps, r) = Sent(AfterRegs, r)
           /\ r \notin SizeRegs => Sent(AfterSize, r) = Sent(AfterFps, r)
           /\ r \notin FlipRegs(S) => /\ Sent(AfterVFlip, r) = Sent(AfterSize, r)
                                      /\ Sent(AfterHFlip, r) = Sent(AfterVFlip, r)
           /\ r \notin Regs(S.exposure) => Sent(AfterExposure, r) = Sent(AfterHFlip, r)
           /\ r \notin Regs(S.vts) => Sent(AfterVts, r) = Sent(AfterExposure, r)
           /\ r \notin Regs(S.gain) => Sent(AfterGain, r) = Sent(AfterVts, r)
  <1>1. PICK u : u = M.regs
    OBVIOUS
  <1>2. Once(u, r) /\ u \in Seq(Entry)
    BY <1>1, AllHaveRegs
  <1>3. /\ HasRegs(u, u) /\ HasRegs(AfterRegs, u) /\ HasRegs(AfterFps, u)
        /\ HasRegs(AfterSize, u) /\ HasRegs(AfterVFlip, u) /\ HasRegs(AfterHFlip, u)
        /\ HasRegs(AfterExposure, u) /\ HasRegs(AfterVts, u) /\ HasRegs(AfterGain, u)
    BY <1>1, AllHaveRegs
  <1>4. ProperSensor(S) /\ ProperPorts(S) /\ ProperOptions(opt)
    BY WhatIsKnown
  <1>5. \A f \in {S.exposure, S.vts, S.gain} : f.reg \in Nat /\ f.bits \in Nat
    BY <1>4, OfASensor, OfPorts
  <1>6. ASSUME Spared(opt.edits, {r})
        PROVE  Sent(AfterRegs, r) = Sent(u, r)
    <2>1. Len(opt.edits) \in Nat
      BY <1>4 DEF ProperOptions
    <2> QED
      BY <1>1, <1>2, <1>3, <1>6, <2>1, modRegsSpare DEF AfterRegs
  <1>7. ASSUME r \notin FpsRegs(S)
        PROVE  Sent(AfterFps, r) = Sent(AfterRegs, r)
    <2>1. S.vts.reg \in Int /\ S.vts.reg # r /\ S.vts.reg + 1 # r
      BY <1>5, <1>7 DEF FpsRegs
    <2>2. Sent(Pair(AfterRegs, S.vts.reg, 7, FrameTime), r) = Sent(AfterRegs, r)
      BY <1>2, <1>3, <2>1, PairSent
    <2> QED
      BY <2>2 DEF AfterFps
  <1>8. ASSUME r \notin SizeRegs
        PROVE  Sent(AfterSize, r) = Sent(AfterFps, r)
    <2>1. PICK a, b, c : /\ a = Put(AfterFps, 14344, opt.width)
                         /\ b = Put(a, 14346, opt.height)
                         /\ c = Put(b, 14336, opt.left * Unit)
      OBVIOUS
    <2>2. HasRegs(a, u) /\ HasRegs(b, u) /\ HasRegs(c, u)
      BY <2>1, <1>2, <1>3, PutKeeps
    <2>3. /\ r # 14336 /\ r # 14336 + 1 /\ r # 14338 /\ r # 14338 + 1
          /\ r # 14344 /\ r # 14344 + 1 /\ r # 14346 /\ r # 14346 + 1
      BY <1>8 DEF SizeRegs
    <2>4. Sent(a, r) = Sent(AfterFps, r)
      BY <2>1, <2>3, <1>2, <1>3, PutSpares
    <2>5. Sent(b, r) = Sent(a, r)
      BY <2>1, <2>2, <2>3, <1>2, PutSpares
    <2>6. Sent(c, r) = Sent(b, r)
      BY <2>1, <2>2, <2>3, <1>2, PutSpares
    <2>7. Sent(Put(c, 14338, opt.top * Unit), r) = Sent(c, r)
      BY <2>2, <2>3, <1>2, PutSpares
    <2> QED
      BY <2>1, <2>4, <2>5, <2>6, <2>7 DEF AfterSize
  <1>9. ASSUME r \notin FlipRegs(S)
        PROVE  Sent(AfterVFlip, r) = Sent(AfterSize, r) /\ Sent(AfterHFlip, r) = Sent(AfterVFlip, r)
    <2>1. (S.vflip.reg # 0 => r # S.vflip.reg) /\ (S.hflip.reg # 0 => r # S.hflip.reg)
      BY <1>9 DEF FlipRegs
    <2>2. Sent(AfterVFlip, r) = Sent(AfterSize, r)
      BY <2>1, <1>2, <1>3, XorBitSent DEF AfterVFlip
    <2>3. Sent(AfterHFlip, r) = Sent(AfterVFlip, r)
      BY <2>1, <1>2, <1>3, XorBitSent DEF AfterHFlip
    <2> QED
      BY <2>2, <2>3
  <1>10. ASSUME r \notin Regs(S.exposure)
         PROVE  Sent(AfterExposure, r) = Sent(AfterHFlip, r)
    <2>1. S.exposure.reg # 0 =>
            Sent(Field(AfterHFlip, S.exposure.reg, S.exposure.bits, exposure), r) =
                Sent(AfterHFlip, r)
      BY <1>2, <1>3, <1>5, <1>10, FieldSpares
    <2> QED
      BY <2>1 DEF AfterExposure
  <1>11. ASSUME r \notin Regs(S.vts)
         PROVE  Sent(AfterVts, r) = Sent(AfterExposure, r)
    <2>1. S.vts.reg # 0 =>
            Sent(Field(AfterExposure, S.vts.reg, S.vts.bits, exposure), r) =
                Sent(AfterExposure, r)
      BY <1>2, <1>3, <1>5, <1>11, FieldSpares
    <2> QED
      BY <2>1 DEF AfterVts, FrameFollows
  <1>12. ASSUME r \notin Regs(S.gain)
         PROVE  Sent(AfterGain, r) = Sent(AfterVts, r)
    <2>1. S.gain.reg # 0 =>
            Sent(Field(AfterVts, S.gain.reg, S.gain.bits, opt.gain), r) = Sent(AfterVts, r)
      BY <1>2, <1>3, <1>5, <1>12, FieldSpares
    <2> QED
      BY <2>1 DEF AfterGain
  <1> QED
    BY <1>1, <1>6, <1>7, <1>8, <1>9, <1>10, <1>11, <1>12

-----------------------------------------------------------------------------
(* The flips and the order of the colours *)

\* The weight of a bit of a byte
LEMMA Powers ==
    ASSUME NEW b \in 0 .. 7
    PROVE  <<b, 2^b>> \in {<<0, 1>>, <<1, 2>>, <<2, 4>>, <<3, 8>>,
                            <<4, 16>>, <<5, 32>>, <<6, 64>>, <<7, 128>>}
  <1>1. CASE b = 0
    BY <1>1, 2^0 = 1
  <1>2. CASE b = 1
    BY <1>2, 2^1 = 2
  <1>3. CASE b = 2
    BY <1>3, 2^2 = 4
  <1>4. CASE b = 3
    BY <1>4, 2^3 = 8
  <1>5. CASE b = 4
    BY <1>5, 2^4 = 16
  <1>6. CASE b = 5
    BY <1>6, 2^5 = 32
  <1>7. CASE b = 6
    BY <1>7, 2^6 = 64
  <1>8. CASE b = 7
    BY <1>8, 2^7 = 128
  <1> QED
    BY <1>1, <1>2, <1>3, <1>4, <1>5, <1>6, <1>7, <1>8

\* A toggled bit is another one, and the other bits of the byte stay.
LEMMA BitToggled ==
    ASSUME NEW n \in Nat, NEW b \in 0 .. 7
    PROVE  /\ Toggle(n, b) \in Nat
           /\ (Toggle(n, b) \div 2^b) % 2 # (n \div 2^b) % 2
  <1> DEFINE p == 2^b
  <1>1. p \in {1, 2, 4, 8, 16, 32, 64, 128}
    BY Powers
  <1>2. Toggle(n, b) = IF (n \div p) % 2 = 1 THEN n - p ELSE n + p
    BY DEF Toggle
  <1> HIDE DEF p
  <1>3. CASE (n \div p) % 2 = 1
    <2>1. n - p \in Nat /\ ((n - p) \div p) % 2 = 0
      BY <1>1, <1>3
    <2> QED
      BY <1>2, <1>3, <2>1 DEF p
  <1>4. CASE (n \div p) % 2 # 1
    <2>1. n + p \in Nat /\ ((n + p) \div p) % 2 = 1
      BY <1>1, <1>4
    <2> QED
      BY <1>2, <1>4, <2>1 DEF p
  <1> QED
    BY <1>3, <1>4

\* Toggling a bit leaves the others: vflip and hflip may share a register (raspiraw.c:2386).
LEMMA OtherBitStays ==
    ASSUME NEW n \in Nat, NEW b \in 0 .. 7, NEW c \in 0 .. 7, b # c
    PROVE  (Toggle(n, b) \div 2^c) % 2 = (n \div 2^c) % 2
  <1> DEFINE p == 2^b
             q == 2^c
  <1>1. /\ p \in {1, 2, 4, 8, 16, 32, 64, 128} /\ q \in {1, 2, 4, 8, 16, 32, 64, 128}
        /\ p # q
    <2>1. PICK x, y : x = 2^b /\ y = 2^c
      OBVIOUS
    <2>2. /\ <<b, x>> \in {<<0, 1>>, <<1, 2>>, <<2, 4>>, <<3, 8>>,
                           <<4, 16>>, <<5, 32>>, <<6, 64>>, <<7, 128>>}
          /\ <<c, y>> \in {<<0, 1>>, <<1, 2>>, <<2, 4>>, <<3, 8>>,
                           <<4, 16>>, <<5, 32>>, <<6, 64>>, <<7, 128>>}
      BY <2>1, Powers
    <2>3. /\ x \in {1, 2, 4, 8, 16, 32, 64, 128} /\ y \in {1, 2, 4, 8, 16, 32, 64, 128}
          /\ x # y
      BY <2>2
    <2> QED
      BY <2>1, <2>3
  <1>2. Toggle(n, b) = IF (n \div p) % 2 = 1 THEN n - p ELSE n + p
    BY DEF Toggle
  <1> HIDE DEF p, q
  <1>3. CASE (n \div p) % 2 = 1
    <2>0. ((n - p) \div q) % 2 = (n \div q) % 2
      <3>1. CASE p = 1
        BY <1>1, <1>3, <3>1
      <3>2. CASE p = 2
        BY <1>1, <1>3, <3>2
      <3>3. CASE p = 4
        BY <1>1, <1>3, <3>3
      <3>4. CASE p = 8
        BY <1>1, <1>3, <3>4
      <3>5. CASE p = 16
        BY <1>1, <1>3, <3>5
      <3>6. CASE p = 32
        BY <1>1, <1>3, <3>6
      <3>7. CASE p = 64
        BY <1>1, <1>3, <3>7
      <3>8. CASE p = 128
        BY <1>1, <1>3, <3>8
      <3> QED
        BY <1>1, <3>1, <3>2, <3>3, <3>4, <3>5, <3>6, <3>7, <3>8
    <2> QED
      BY <1>2, <1>3, <2>0 DEF q
  <1>4. CASE (n \div p) % 2 # 1
    <2>0. ((n + p) \div q) % 2 = (n \div q) % 2
      <3>1. CASE p = 1
        BY <1>1, <1>4, <3>1
      <3>2. CASE p = 2
        BY <1>1, <1>4, <3>2
      <3>3. CASE p = 4
        BY <1>1, <1>4, <3>3
      <3>4. CASE p = 8
        BY <1>1, <1>4, <3>4
      <3>5. CASE p = 16
        BY <1>1, <1>4, <3>5
      <3>6. CASE p = 32
        BY <1>1, <1>4, <3>6
      <3>7. CASE p = 64
        BY <1>1, <1>4, <3>7
      <3>8. CASE p = 128
        BY <1>1, <1>4, <3>8
      <3> QED
        BY <1>1, <3>1, <3>2, <3>3, <3>4, <3>5, <3>6, <3>7, <3>8
    <2> QED
      BY <1>2, <1>4, <2>0 DEF q
  <1> QED
    BY <1>3, <1>4

\* A register of a flip, up to the flips and after them
LEMMA FlipRegister ==
    ASSUME CInv, pc = "start", Spared(opt.edits, FlipRegs(S)), NEW r \in FlipRegs(S)
    PROVE  /\ Has(r) /\ Sent(M.regs, r) \in Nat
           /\ Sent(AfterVFlip, r) = IF S.vflip.reg = r /\ opt.vflip
                                    THEN Toggle(Sent(M.regs, r), S.vflip.bit) ELSE Sent(M.regs, r)
           /\ Sent(regs, r) = IF S.hflip.reg = r /\ opt.hflip
                              THEN Toggle(Sent(AfterVFlip, r), S.hflip.bit)
                              ELSE Sent(AfterVFlip, r)
  <1>1. IInv /\ pc \in Editing /\ regs = AfterGain
    BY DEF CInv, Composed, Editing
  <1>2. ProperPorts(S) /\ ProperMode(S, opt.mode + 1)
    BY <1>1, WhatIsKnown
  <1>3. HoldsByte(M.regs, r)
    BY <1>2, OfAMode DEF M
  <1>4. Once(M.regs, r) /\ Sent(M.regs, r) \in Nat
    BY <1>3 DEF HoldsByte
  <1>5. PICK u : u = M.regs
    OBVIOUS
  <1>6. u \in Seq(Entry) /\ HasRegs(u, u) /\ HasRegs(AfterSize, u) /\ HasRegs(AfterVFlip, u)
        /\ Once(u, r)
    BY <1>1, <1>4, <1>5, AllHaveRegs
  <1>7. Has(r)
    <2>1. Where(u, r) = {At(u, r)}
      BY <1>6, FoundOnce
    <2> QED
      BY <1>5, <2>1 DEF Has
  <1>8. /\ r \notin Regs(S.exposure) /\ r \notin Regs(S.gain)
        /\ r \notin FpsRegs(S) /\ r \notin SizeRegs /\ r # 0
    BY <1>2, PortsApart DEF FlipRegs
  <1>9. r \notin Regs(S.vts)
    BY <1>2, <1>8, TwoBytes DEF Regs
  <1>10. Spared(opt.edits, {r})
    BY DEF Spared
  <1>11. Sent(AfterSize, r) = Sent(M.regs, r) /\ Sent(AfterGain, r) = Sent(AfterHFlip, r)
    BY <1>1, <1>4, <1>8, <1>9, <1>10, StepsSpare
  <1>12. Sent(AfterVFlip, r) = IF S.vflip.reg = r /\ opt.vflip
                               THEN Toggle(Sent(AfterSize, r), S.vflip.bit) ELSE Sent(AfterSize, r)
    <2>1. Sent(XorBit(AfterSize, S.vflip.reg, S.vflip.bit, opt.vflip), r) =
              IF S.vflip.reg = r /\ opt.vflip
              THEN Toggle(Sent(AfterSize, r), S.vflip.bit) ELSE Sent(AfterSize, r)
      BY <1>6, XorBitSent
    <2> QED
      BY <1>8, <2>1, Zenon DEF AfterVFlip
  <1>13. Sent(AfterHFlip, r) = IF S.hflip.reg = r /\ opt.hflip
                               THEN Toggle(Sent(AfterVFlip, r), S.hflip.bit)
                               ELSE Sent(AfterVFlip, r)
    <2>1. Sent(XorBit(AfterVFlip, S.hflip.reg, S.hflip.bit, opt.hflip), r) =
              IF S.hflip.reg = r /\ opt.hflip
              THEN Toggle(Sent(AfterVFlip, r), S.hflip.bit) ELSE Sent(AfterVFlip, r)
      BY <1>6, XorBitSent
    <2> QED
      BY <1>8, <2>1, Zenon DEF AfterHFlip
  <1> QED
    BY <1>1, <1>4, <1>7, <1>11, <1>12, <1>13, Zenon

\* A bit is flipped on the way to the sensor if its option is given.
LEMMA BitsAreFlipped ==
    ASSUME CInv, pc = "start", Spared(opt.edits, FlipRegs(S))
    PROVE  /\ S.vflip.reg # 0 =>
                 /\ Has(S.vflip.reg)
                 /\ BitOf(regs, S.vflip) # BitOf(M.regs, S.vflip) <=> opt.vflip = TRUE
           /\ S.hflip.reg # 0 =>
                 /\ Has(S.hflip.reg)
                 /\ BitOf(regs, S.hflip) # BitOf(M.regs, S.hflip) <=> opt.hflip = TRUE
  <1> DEFINE x == S.vflip.bit
             y == S.hflip.bit
             v == opt.vflip
             h == opt.hflip
  <1>1. IInv /\ pc \in Editing
    BY DEF CInv, Editing
  <1>2. ProperPorts(S) /\ v \in BOOLEAN /\ h \in BOOLEAN
    BY <1>1, WhatIsKnown DEF ProperOptions
  <1>3. x \in 0 .. 7 /\ y \in 0 .. 7 /\ (S.vflip.reg = S.hflip.reg /\ S.vflip.reg # 0 => x # y)
    BY <1>2, OfPorts
  <1>4. ASSUME S.vflip.reg # 0
        PROVE  /\ Has(S.vflip.reg)
               /\ BitOf(regs, S.vflip) # BitOf(M.regs, S.vflip) <=> v = TRUE
    <2> DEFINE r == S.vflip.reg
               a == Sent(M.regs, r)
               b == Sent(AfterVFlip, r)
               c == Sent(regs, r)
               same == S.hflip.reg = r
    <2>0. r \in FlipRegs(S)
      BY <1>4 DEF FlipRegs
    <2>1. Has(r) /\ a \in Nat
      BY <2>0, FlipRegister
    <2>2. b = IF v THEN Toggle(a, x) ELSE a
      BY <2>0, FlipRegister
    <2>3. c = IF same /\ h THEN Toggle(b, y) ELSE b
      BY <2>0, FlipRegister
    <2>4. BitOf(regs, S.vflip) = (c \div 2^x) % 2 /\ BitOf(M.regs, S.vflip) = (a \div 2^x) % 2
      BY DEF BitOf
    <2>5. same => x # y
      BY <1>3, <1>4
    <2>7. Has(r)
      BY <2>1
    <2> HIDE DEF a, b, c, same, x, y, v, h
    <2>8. b \in Nat /\ ((b \div 2^x) % 2 # (a \div 2^x) % 2 <=> v = TRUE)
      BY <1>2, <1>3, <2>1, <2>2, BitToggled
    <2>9. (c \div 2^x) % 2 = (b \div 2^x) % 2
      BY <1>3, <2>3, <2>5, <2>8, OtherBitStays
    <2> QED
      BY <2>4, <2>7, <2>8, <2>9
  <1>5. ASSUME S.hflip.reg # 0
        PROVE  /\ Has(S.hflip.reg)
               /\ BitOf(regs, S.hflip) # BitOf(M.regs, S.hflip) <=> h = TRUE
    <2> DEFINE r == S.hflip.reg
               a == Sent(M.regs, r)
               b == Sent(AfterVFlip, r)
               c == Sent(regs, r)
               same == S.vflip.reg = r
    <2>0. r \in FlipRegs(S)
      BY <1>5 DEF FlipRegs
    <2>1. Has(r) /\ a \in Nat
      BY <2>0, FlipRegister
    <2>2. b = IF same /\ v THEN Toggle(a, x) ELSE a
      BY <2>0, FlipRegister
    <2>3. c = IF h THEN Toggle(b, y) ELSE b
      BY <2>0, FlipRegister
    <2>4. BitOf(regs, S.hflip) = (c \div 2^y) % 2 /\ BitOf(M.regs, S.hflip) = (a \div 2^y) % 2
      BY DEF BitOf
    <2>5. same => x # y
      BY <1>3, <1>5
    <2>7. Has(r)
      BY <2>1
    <2> HIDE DEF a, b, c, same, x, y, v, h
    <2>8. b \in Nat /\ (b \div 2^y) % 2 = (a \div 2^y) % 2
      BY <1>3, <2>1, <2>2, <2>5, BitToggled, OtherBitStays
    <2>9. (c \div 2^y) % 2 # (b \div 2^y) % 2 <=> h = TRUE
      BY <1>2, <1>3, <2>3, <2>8, BitToggled
    <2> QED
      BY <2>4, <2>7, <2>8, <2>9
  <1> QED
    BY <1>4, <1>5

\* The order of a mirrored image is that of its mirrored quad (71-79).
LEMMA OrderOfMirrored ==
    ASSUME NEW o \in Orders
    PROVE  /\ Toggle(o, 1) \in Orders /\ Quad[Toggle(o, 1)] = MirrorRows(Quad[o])
           /\ Toggle(o, 0) \in Orders /\ Quad[Toggle(o, 0)] = MirrorColumns(Quad[o])
  <1>1. /\ Toggle(0, 1) = 2 /\ Toggle(1, 1) = 3 /\ Toggle(2, 1) = 0 /\ Toggle(3, 1) = 1
        /\ Toggle(0, 0) = 1 /\ Toggle(1, 0) = 0 /\ Toggle(2, 0) = 3 /\ Toggle(3, 0) = 2
    BY 2^1 = 2, 2^0 = 1 DEF Toggle
  <1>2. o \in {0, 1, 2, 3} /\ Orders = {0, 1, 2, 3}
    BY DEF Orders
  <1>3. /\ Quad[0] = <<"B", "G", "G", "R">> /\ Quad[1] = <<"G", "B", "R", "G">>
        /\ Quad[2] = <<"G", "R", "B", "G">> /\ Quad[3] = <<"R", "G", "G", "B">>
    BY DEF Quad, Orders
  <1>4. CASE o = 0
    BY <1>1, <1>2, <1>3, <1>4 DEF MirrorRows, MirrorColumns
  <1>5. CASE o = 1
    BY <1>1, <1>2, <1>3, <1>5 DEF MirrorRows, MirrorColumns
  <1>6. CASE o = 2
    BY <1>1, <1>2, <1>3, <1>6 DEF MirrorRows, MirrorColumns
  <1>7. CASE o = 3
    BY <1>1, <1>2, <1>3, <1>7 DEF MirrorRows, MirrorColumns
  <1> QED
    BY <1>2, <1>4, <1>5, <1>6, <1>7

\* The assignments of -regs leave the registers of the flips.
FlipsAreSpared == Spared(opt.edits, FlipRegs(S))

\* EncodingIsTrue holds when the edits are done.
LEMMA StartEncodes ==
    ASSUME CInv, pc = "start", FlipsAreSpared, M.encoding = "none"
    PROVE  EncodingIsTrue
  <1> DEFINE v == opt.vflip
             h == opt.hflip
             o == M.order
             flipped(f) == f.reg # 0 /\ Has(f.reg) /\ BitOf(regs, f) # BitOf(M.regs, f)
             rows == IF flipped(S.vflip) THEN MirrorRows(Quad[o]) ELSE Quad[o]
  <1>1. IInv /\ pc \in Editing
    BY DEF CInv, Editing
  <1>2. ProperPorts(S) /\ ProperMode(S, opt.mode + 1) /\ v \in BOOLEAN /\ h \in BOOLEAN
    BY <1>1, WhatIsKnown DEF ProperOptions
  <1>3. o \in Orders /\ M.native_bit_depth \in Nat
    BY <1>2, OfAMode DEF M
  <1>4. encoding = <<order, depth>> /\ order = OrderH /\ depth \in {8, 10, 12, 16}
    BY DEF CInv, Described
  <1>5. flipped(S.vflip) <=> VFlipped
    BY <1>2, BitsAreFlipped, OfPorts DEF FlipsAreSpared, VFlipped
  <1>6. flipped(S.hflip) <=> HFlipped
    BY <1>2, BitsAreFlipped, OfPorts DEF FlipsAreSpared, HFlipped
  <1>7. OrderV \in Orders /\ Quad[OrderV] = rows
    BY <1>3, <1>5, OrderOfMirrored DEF OrderV
  <1>8. Quad[OrderH] = IF flipped(S.hflip) THEN MirrorColumns(rows) ELSE rows
    BY <1>6, <1>7, OrderOfMirrored DEF OrderH
  <1> HIDE DEF flipped, rows
  <1>9. Quad[encoding[1]] = IF flipped(S.hflip) THEN MirrorColumns(rows) ELSE rows
    BY <1>4, <1>8
  <1>10. encoding[2] = IF Pack = 0 THEN M.native_bit_depth ELSE Pack
    BY <1>3, <1>4 DEF Pack
  <1>11. Pack # 0 => Unpack >= M.native_bit_depth
    BY <1>3 DEF Pack, Unpack
  <1> QED
    BY <1>9, <1>10, <1>11 DEF EncodingIsTrue, flipped, rows

\* EncodingIsTrue, of any command line whose assignments of -regs leave the flips' registers:
\* the receiver is told the Bayer order of the image as the sensor's bits mirror it and the
\* depth of the samples it writes (raspiraw.c:71-79, 1632-1659, 2401-2416).
THEOREM TheEncodingIsTrue == Spec => [](FlipsAreSpared => EncodingIsTrue)
  <1>1. CInv => (FlipsAreSpared => EncodingIsTrue)
    <2> SUFFICES ASSUME CInv, FlipsAreSpared PROVE EncodingIsTrue
      OBVIOUS
    <2>1. CASE pc = "start" /\ M.encoding = "none"
      BY <2>1, StartEncodes
    <2>2. CASE ~ (pc = "start" /\ M.encoding = "none")
      BY <2>2 DEF EncodingIsTrue, Done
    <2> QED
      BY <2>1, <2>2
  <1> QED
    BY TablesAreComposed, <1>1, PTL

-----------------------------------------------------------------------------
(* The fields *)

\* Fields are of one, two or three registers.
LEMMA ValueOfBytes ==
    ASSUME NEW t, NEW reg \in Nat
    PROVE  /\ Sent(t, reg) \in Nat => Value(t, reg, 1) = Sent(t, reg)
           /\ Sent(t, reg) \in Nat /\ Sent(t, reg + 1) \in Nat =>
                  Value(t, reg, 2) = 256 * Sent(t, reg) + Sent(t, reg + 1)
           /\ Sent(t, reg) \in Nat /\ Sent(t, reg + 1) \in Nat /\ Sent(t, reg + 2) \in Nat =>
                  Value(t, reg, 3) =
                      256 * (256 * Sent(t, reg) + Sent(t, reg + 1)) + Sent(t, reg + 2)
  <1> DEFINE Is(f, n) == f = [i \in 0 .. n |-> IF i = 0 THEN 0
                                              ELSE 256 * f[i - 1] + Sent(t, reg + i - 1)]
             a == Sent(t, reg)
             b == Sent(t, reg + 1)
             c == Sent(t, reg + 2)
  <1>1. \A n : Value(t, reg, n) = (CHOOSE f : Is(f, n))[n]
    BY DEF Value
  <1>2. \A i \in 0 .. 3 : i > 0 =>
            Sent(t, reg + i - 1) = IF i = 1 THEN a ELSE IF i = 2 THEN b ELSE c
    <2>1. reg + 1 - 1 = reg /\ reg + 2 - 1 = reg + 1 /\ reg + 3 - 1 = reg + 2
      OBVIOUS
    <2>2. ASSUME NEW i \in 0 .. 3, i > 0
          PROVE  Sent(t, reg + i - 1) = IF i = 1 THEN a ELSE IF i = 2 THEN b ELSE c
      <3>1. CASE i = 1
        BY <2>1, <3>1
      <3>2. CASE i = 2
        BY <2>1, <3>2
      <3>3. CASE i = 3
        BY <2>1, <3>3
      <3> QED
        BY <2>2, <3>1, <3>2, <3>3
    <2> QED
      BY <2>2
  <1> HIDE DEF a, b, c
  <1>3. ASSUME NEW n \in 0 .. 3
        PROVE  \E f : Is(f, n)
    <2> DEFINE f == [i \in 0 .. n |-> IF i = 0 THEN 0 ELSE IF i = 1 THEN 256 * 0 + a
                                      ELSE IF i = 2 THEN 256 * (256 * 0 + a) + b
                                      ELSE 256 * (256 * (256 * 0 + a) + b) + c]
    <2>1. ASSUME NEW i \in 0 .. n
          PROVE  f[i] = IF i = 0 THEN 0 ELSE 256 * f[i - 1] + Sent(t, reg + i - 1)
      <3>1. CASE i = 0
        BY <3>1
      <3>2. CASE i = 1
        BY <1>2, <3>2
      <3>3. CASE i = 2
        BY <1>2, <3>3
      <3>4. CASE i = 3
        BY <1>2, <3>4
      <3> QED
        BY <3>1, <3>2, <3>3, <3>4
    <2>2. f = [i \in 0 .. n |-> f[i]]
      OBVIOUS
    <2> HIDE DEF f
    <2>3. Is(f, n)
      BY <2>1, <2>2
    <2> QED
      BY <2>3
  <1>4. ASSUME NEW n \in 0 .. 3
        PROVE  \E f : f[n] = Value(t, reg, n) /\ Is(f, n)
    <2> DEFINE f == CHOOSE g : Is(g, n)
    <2>1. Is(f, n)
      BY <1>3, Zenon
    <2> HIDE DEF Is
    <2> QED
      BY <1>1, <2>1
  <1>5. ASSUME a \in Nat
        PROVE  Value(t, reg, 1) = a
    <2>1. PICK f : f[1] = Value(t, reg, 1) /\ Is(f, 1)
      BY <1>4
    <2>2. f[0] = 0 /\ f[1] = 256 * f[0] + Sent(t, reg + 1 - 1)
      BY <2>1
    <2> QED
      BY <1>2, <1>5, <2>1, <2>2
  <1>6. ASSUME a \in Nat, b \in Nat
        PROVE  Value(t, reg, 2) = 256 * a + b
    <2>1. PICK f : f[2] = Value(t, reg, 2) /\ Is(f, 2)
      BY <1>4
    <2>2. /\ f[0] = 0 /\ f[1] = 256 * f[0] + Sent(t, reg + 1 - 1)
          /\ f[2] = 256 * f[1] + Sent(t, reg + 2 - 1)
      BY <2>1
    <2> QED
      BY <1>2, <1>6, <2>1, <2>2
  <1>7. ASSUME a \in Nat, b \in Nat, c \in Nat
        PROVE  Value(t, reg, 3) = 256 * (256 * a + b) + c
    <2>1. PICK f : f[3] = Value(t, reg, 3) /\ Is(f, 3)
      BY <1>4
    <2>2. /\ f[0] = 0 /\ f[1] = 256 * f[0] + Sent(t, reg + 1 - 1)
          /\ f[2] = 256 * f[1] + Sent(t, reg + 2 - 1)
          /\ f[3] = 256 * f[2] + Sent(t, reg + 3 - 1)
      BY <2>1
    <2> QED
      BY <1>2, <1>7, <2>1, <2>2
  <1> QED
    BY <1>5, <1>6, <1>7 DEF a, b, c

\* As many registers as the bits need
Fits(limit, n) == /\ n = 1 => limit <= 256
                  /\ n = 2 => limit <= 65536
                  /\ n = 3 => limit <= 16777216

\* A field of up to 24 bits has up to three bytes, which hold its values (raspiraw.c:2428).
LEMMA WidthFits ==
    ASSUME NEW bits \in 1 .. 24
    PROVE  Count(bits) \in {1, 2, 3} /\ Fits(2^bits, Count(bits))
  <1>1. CASE bits = 1
    BY <1>1, 2^1 = 2 DEF Count, Fits
  <1>2. CASE bits = 2
    BY <1>2, 2^2 = 4 DEF Count, Fits
  <1>3. CASE bits = 3
    BY <1>3, 2^3 = 8 DEF Count, Fits
  <1>4. CASE bits = 4
    BY <1>4, 2^4 = 16 DEF Count, Fits
  <1>5. CASE bits = 5
    BY <1>5, 2^5 = 32 DEF Count, Fits
  <1>6. CASE bits = 6
    BY <1>6, 2^6 = 64 DEF Count, Fits
  <1>7. CASE bits = 7
    BY <1>7, 2^7 = 128 DEF Count, Fits
  <1>8. CASE bits = 8
    BY <1>8, 2^8 = 256 DEF Count, Fits
  <1>9. CASE bits = 9
    BY <1>9, 2^9 = 512 DEF Count, Fits
  <1>10. CASE bits = 10
    BY <1>10, 2^10 = 1024 DEF Count, Fits
  <1>11. CASE bits = 11
    BY <1>11, 2^11 = 2048 DEF Count, Fits
  <1>12. CASE bits = 12
    BY <1>12, 2^12 = 4096 DEF Count, Fits
  <1>13. CASE bits = 13
    BY <1>13, 2^13 = 8192 DEF Count, Fits
  <1>14. CASE bits = 14
    BY <1>14, 2^14 = 16384 DEF Count, Fits
  <1>15. CASE bits = 15
    BY <1>15, 2^15 = 32768 DEF Count, Fits
  <1>16. CASE bits = 16
    BY <1>16, 2^16 = 65536 DEF Count, Fits
  <1>17. CASE bits = 17
    BY <1>17, 2^17 = 131072 DEF Count, Fits
  <1>18. CASE bits = 18
    BY <1>18, 2^18 = 262144 DEF Count, Fits
  <1>19. CASE bits = 19
    BY <1>19, 2^19 = 524288 DEF Count, Fits
  <1>20. CASE bits = 20
    BY <1>20, 2^20 = 1048576 DEF Count, Fits
  <1>21. CASE bits = 21
    BY <1>21, 2^21 = 2097152 DEF Count, Fits
  <1>22. CASE bits = 22
    BY <1>22, 2^22 = 4194304 DEF Count, Fits
  <1>23. CASE bits = 23
    BY <1>23, 2^23 = 8388608 DEF Count, Fits
  <1>24. CASE bits = 24
    BY <1>24, 2^24 = 16777216 DEF Count, Fits
  <1>25. \/ bits \in 1 .. 8 \/ bits \in 9 .. 16 \/ bits \in 17 .. 24
    OBVIOUS
  <1> QED
    BY <1>25, <1>1, <1>2, <1>3, <1>4, <1>5, <1>6, <1>7, <1>8, <1>9, <1>10, <1>11, <1>12,
       <1>13, <1>14, <1>15, <1>16, <1>17, <1>18, <1>19, <1>20, <1>21, <1>22, <1>23, <1>24

\* A byte is replaced whole.
LEMMA MaskedByte ==
    ASSUME NEW n \in 0 .. 255, NEW value \in Int
    PROVE  Masked(n, 256, value) = value % 256 /\ value % 256 \in 0 .. 255
  BY DEF Masked

\* Three bytes put together again are the number they were split from (raspiraw.c:2425-2434).
LEMMA ThreeBytes ==
    ASSUME NEW value \in Nat, value < 16777216
    PROVE  256 * (256 * ((value \div 65536) % 256) + ((value \div 256) % 256)) + (value % 256)
               = value
  <1>1. PICK a, b, c : a = value \div 65536 /\ b = value \div 256 /\ c = value % 256
    OBVIOUS
  <1>2. /\ a \in Nat /\ b \in Nat /\ c \in Nat /\ value = 256 * b + c
        /\ a < 256 /\ 65536 * a <= value /\ value < 65536 * (a + 1) /\ c < 256
    BY <1>1
  <1>3. 256 * a <= b /\ b < 256 * (a + 1)
    BY <1>2
  <1>4. b % 256 = b - 256 * a /\ a % 256 = a
    BY <1>2, <1>3
  <1>5. 256 * (256 * (a % 256) + (b % 256)) + c = value
    BY <1>2, <1>4
  <1> QED
    BY <1>1, <1>5

\* A field
IsField(f) == f.reg \in Nat /\ f.reg # 0 /\ f.bits \in 1 .. 24

\* Registers that the table has once, that hold bytes, that two tables set to the same
OnceIn(u, R) == \A r \in R : Once(u, r)
BytesIn(t, R) == \A r \in R : Sent(t, r) \in 0 .. 255
SameIn(t, w, R) == \A r \in R : Sent(w, r) = Sent(t, r)

\* What a field was set to arrives.
LEMMA FieldArrives ==
    ASSUME NEW t, NEW u \in Seq(Entry), HasRegs(t, u),
           NEW f, IsField(f),
           OnceIn(u, Regs(f)), BytesIn(t, Regs(f)),
           NEW value, Valid(value, f.bits)
    PROVE  /\ Value(Field(t, f.reg, f.bits, value), f.reg, Count(f.bits)) = value
           /\ BytesIn(Field(t, f.reg, f.bits, value), Regs(f))
  <1> DEFINE reg == f.reg
             bits == f.bits
             n == Count(bits)
             w == Field(t, reg, bits, value)
             Byte(i) == (value \div 2^(8 * (n - i))) % 256
             limit == 2^bits
  <1>0. reg \in Nat /\ reg # 0 /\ bits \in 1 .. 24 /\ bits \in Nat
    BY SMTT(30) DEF IsField
  <1>1. /\ n \in {1, 2, 3} /\ (n = 1 => limit <= 256) /\ (n = 2 => limit <= 65536)
        /\ (n = 3 => limit <= 16777216)
    <2>1. PICK b : b = bits
      OBVIOUS
    <2>2. Count(b) \in {1, 2, 3} /\ Fits(2^b, Count(b))
      BY <1>0, <2>1, WidthFits
    <2>3. n \in {1, 2, 3} /\ Fits(limit, n)
      BY <2>1, <2>2
    <2> HIDE DEF n, limit
    <2> QED
      BY <2>3 DEF Fits
  <1>2. limit \in Int
    <2> HIDE DEF bits
    <2> QED
      BY <1>0
  <1>3. value \in Nat /\ value < limit
    <2>1. value \in 0 .. limit - 1
      BY DEF Valid
    <2> HIDE DEF limit
    <2> QED
      BY <1>2, <2>1
  <1>4. Regs(f) = reg .. reg + n - 1
    BY <1>0 DEF Regs
  <1> HIDE DEF n, limit
  <1>5. ASSUME NEW i \in 1 .. n
        PROVE  Sent(w, reg + i - 1) = Byte(i) /\ Byte(i) \in 0 .. 255
    <2> DEFINE r == reg + i - 1
               v == value \div 2^(8 * (n - i))
    <2>1. r \in Regs(f)
      BY <1>0, <1>1, <1>4
    <2>2. Once(u, r) /\ Sent(t, r) \in 0 .. 255
      BY <2>1 DEF OnceIn, BytesIn
    <2>3. Sent(w, r) = Masked(Sent(t, r), 256, v)
      <3>1. PICK x : x = r
        OBVIOUS
      <3>2. Once(u, x)
        BY <2>2, <3>1
      <3>3. \A j \in 1 .. Count(bits) : x = reg + j - 1 =>
               Sent(w, x) = Masked(Sent(t, x), 256, value \div 2^(8 * (Count(bits) - j)))
        BY <1>0, <3>2, FieldSent
      <3> QED
        BY <3>1, <3>3 DEF n
    <2>4. v \in Int
      <3>1. 8 * (n - i) \in {0, 8, 16}
        BY <1>1
      <3>2. 2^(8 * (n - i)) \in {1, 256, 65536}
        <4>1. PICK e : e = 8 * (n - i)
          OBVIOUS
        <4>2. 2^e \in {1, 256, 65536}
          <5>1. CASE e = 0
            BY <5>1, 2^0 = 1
          <5>2. CASE e = 8
            BY <5>2, 2^8 = 256
          <5>3. CASE e = 16
            BY <5>3, 2^16 = 65536
          <5> QED
            BY <3>1, <4>1, <5>1, <5>2, <5>3
        <4> QED
          BY <4>1, <4>2
      <3> QED
        BY <1>3, <3>2
    <2> HIDE DEF v, r, w
    <2>5. Sent(w, r) = v % 256 /\ v % 256 \in 0 .. 255
      BY <2>2, <2>3, <2>4, MaskedByte, ZenonT(30)
    <2> QED
      BY <2>5 DEF r, v
  <1>6. BytesIn(w, Regs(f))
    <2> HIDE DEF w, Byte, reg
    <2> SUFFICES ASSUME NEW r \in Regs(f) PROVE Sent(w, r) \in 0 .. 255
      BY DEF BytesIn
    <2>1. PICK i : i = r - reg + 1
      OBVIOUS
    <2>2. i \in 1 .. n /\ reg + i - 1 = r
      BY <1>0, <1>1, <1>4, <2>1
    <2> QED
      BY <1>5, <2>2
  <1> HIDE DEF w, reg, bits
  <1>7. CASE n = 1
    <2>1. Byte(1) = value
      <3>1. Byte(1) = (value \div 2^0) % 256
        BY <1>7
      <3> HIDE DEF Byte
      <3> QED
        BY <1>1, <1>2, <1>3, <1>7, <3>1, 2^0 = 1
    <2> HIDE DEF Byte
    <2>2. Sent(w, reg + 1 - 1) = Byte(1)
      BY <1>5, <1>7
    <2>3. Value(w, reg, 1) = value
      BY <1>0, <1>3, <2>1, <2>2, ValueOfBytes
    <2> QED
      BY <1>6, <1>7, <2>3 DEF n, w, reg, bits
  <1>8. CASE n = 2
    <2>1. Byte(1) = (value \div 256) % 256 /\ Byte(2) = value % 256
      <3>1. Byte(1) = (value \div 2^8) % 256 /\ Byte(2) = (value \div 2^0) % 256
        BY <1>8
      <3> HIDE DEF Byte
      <3> QED
        BY <1>3, <3>1, 2^0 = 1, 2^8 = 256
    <2> HIDE DEF Byte
    <2>2. Byte(1) \in Nat /\ Byte(2) \in Nat
      <3>1. PICK x, y : x = Byte(1) /\ y = Byte(2)
        OBVIOUS
      <3>2. x \in 0 .. 255 /\ y \in 0 .. 255
        BY <1>5, <1>8, <3>1
      <3>3. x \in Nat /\ y \in Nat
        BY <3>2
      <3> QED
        BY <3>1, <3>3
    <2>3. 256 * Byte(1) + Byte(2) = value
      <3>1. value < 65536
        BY <1>1, <1>2, <1>3, <1>8
      <3>2. value % 256 \in Nat /\ (value \div 256) % 256 = value \div 256
        BY <1>3, <3>1
      <3> QED
        BY <1>3, <2>1, <3>2
    <2>4. Sent(w, reg) = Byte(1) /\ Sent(w, reg + 1) = Byte(2)
      <3>1. Sent(w, reg + 1 - 1) = Byte(1) /\ Sent(w, reg + 2 - 1) = Byte(2)
        BY <1>5, <1>8
      <3>2. reg + 1 - 1 = reg /\ reg + 2 - 1 = reg + 1
        BY <1>0
      <3> QED
        BY <3>1, <3>2
    <2>5. Value(w, reg, 2) = value
      BY <1>0, <2>2, <2>3, <2>4, ValueOfBytes
    <2> QED
      BY <1>6, <1>8, <2>5 DEF n, w, reg, bits
  <1>9. CASE n = 3
    <2>1. Byte(1) = (value \div 65536) % 256 /\ Byte(2) = (value \div 256) % 256
          /\ Byte(3) = value % 256
      <3>1. Byte(1) = (value \div 2^16) % 256 /\ Byte(2) = (value \div 2^8) % 256
            /\ Byte(3) = (value \div 2^0) % 256
        BY <1>9
      <3> HIDE DEF Byte
      <3> QED
        BY <1>3, <3>1, 2^0 = 1, 2^8 = 256, 2^16 = 65536
    <2> HIDE DEF Byte
    <2>2. Byte(1) \in Nat /\ Byte(2) \in Nat /\ Byte(3) \in Nat
      <3>1. PICK x, y, z : x = Byte(1) /\ y = Byte(2) /\ z = Byte(3)
        OBVIOUS
      <3>2. x \in 0 .. 255 /\ y \in 0 .. 255 /\ z \in 0 .. 255
        BY <1>5, <1>9, <3>1
      <3>3. x \in Nat /\ y \in Nat /\ z \in Nat
        BY <3>2
      <3> QED
        BY <3>1, <3>3
    <2>3. 256 * (256 * Byte(1) + Byte(2)) + Byte(3) = value
      <3>1. value < 16777216
        BY <1>1, <1>2, <1>3, <1>9
      <3> QED
        BY <1>3, <2>1, <3>1, ThreeBytes
    <2>4. Sent(w, reg) = Byte(1) /\ Sent(w, reg + 1) = Byte(2) /\ Sent(w, reg + 2) = Byte(3)
      <3>1. Sent(w, reg + 1 - 1) = Byte(1) /\ Sent(w, reg + 2 - 1) = Byte(2)
            /\ Sent(w, reg + 3 - 1) = Byte(3)
        BY <1>5, <1>9
      <3>2. reg + 1 - 1 = reg /\ reg + 2 - 1 = reg + 1 /\ reg + 3 - 1 = reg + 2
        BY <1>0
      <3> QED
        BY <3>1, <3>2
    <2>5. Value(w, reg, 3) = value
      BY <1>0, <2>2, <2>3, <2>4, ValueOfBytes
    <2> QED
      BY <1>6, <1>9, <2>5 DEF n, w, reg, bits
  <1> QED
    BY <1>1, <1>7, <1>8, <1>9

\* The same bytes are the same value.
LEMMA SameValue ==
    ASSUME NEW t, NEW w, NEW f, IsField(f),
           BytesIn(t, Regs(f)), SameIn(t, w, Regs(f))
    PROVE  Value(w, f.reg, Count(f.bits)) = Value(t, f.reg, Count(f.bits))
  <1> DEFINE n == Count(f.bits)
             reg == f.reg
  <1>1. n \in {1, 2, 3} /\ reg \in Nat
    BY WidthFits DEF IsField
  <1>2. Regs(f) = reg .. reg + n - 1
    BY DEF Regs, IsField
  <1> HIDE DEF n, reg
  <1>3. \A r \in reg .. reg + n - 1 : Sent(t, r) \in Nat /\ Sent(w, r) = Sent(t, r)
    <2>1. \A x \in 0 .. 255 : x \in Nat
      OBVIOUS
    <2> QED
      BY <1>2, <2>1, Zenon DEF BytesIn, SameIn
  <1>4. Sent(t, reg) \in Nat /\ Sent(w, reg) = Sent(t, reg)
    <2>1. reg \in reg .. reg + n - 1
      BY <1>1
    <2> QED
      BY <1>3, <2>1
  <1>5. n # 1 => Sent(t, reg + 1) \in Nat /\ Sent(w, reg + 1) = Sent(t, reg + 1)
    <2>1. n # 1 => reg + 1 \in reg .. reg + n - 1
      BY <1>1
    <2> QED
      BY <1>3, <2>1
  <1>6. n = 3 => Sent(t, reg + 2) \in Nat /\ Sent(w, reg + 2) = Sent(t, reg + 2)
    <2>1. n = 3 => reg + 2 \in reg .. reg + n - 1
      BY <1>1
    <2> QED
      BY <1>3, <2>1
  <1>7. CASE n = 1
    <2>1. Value(w, reg, 1) = Value(t, reg, 1)
      BY <1>1, <1>4, ValueOfBytes
    <2> QED
      BY <1>7, <2>1 DEF n, reg
  <1>8. CASE n = 2
    <2>1. Value(w, reg, 2) = Value(t, reg, 2)
      BY <1>1, <1>4, <1>5, <1>8, ValueOfBytes
    <2> QED
      BY <1>8, <2>1 DEF n, reg
  <1>9. CASE n = 3
    <2>1. Value(w, reg, 3) = Value(t, reg, 3)
      BY <1>1, <1>4, <1>5, <1>6, <1>9, ValueOfBytes
    <2> QED
      BY <1>9, <2>1 DEF n, reg
  <1> QED
    BY <1>1, <1>7, <1>8, <1>9

\* A step that sets a field, and later steps that leave its registers
LEMMA FieldStep ==
    ASSUME NEW u \in Seq(Entry), NEW t, HasRegs(t, u), NEW f, IsField(f),
           OnceIn(u, Regs(f)), BytesIn(t, Regs(f)), NEW value, Valid(value, f.bits),
           NEW z, SameIn(Field(t, f.reg, f.bits, value), z, Regs(f))
    PROVE  Value(z, f.reg, Count(f.bits)) = value
  <1>1. PICK w : w = Field(t, f.reg, f.bits, value)
    OBVIOUS
  <1>2. Value(w, f.reg, Count(f.bits)) = value /\ BytesIn(w, Regs(f))
    BY <1>1, FieldArrives
  <1>3. Value(z, f.reg, Count(f.bits)) = Value(w, f.reg, Count(f.bits))
    BY <1>1, <1>2, SameValue
  <1> QED
    BY <1>2, <1>3

\* The fields of the sensor in the table of its mode
LEMMA OfAField ==
    ASSUME IInv, pc \in Editing, NEW f \in {S.exposure, S.vts, S.gain}, f.reg # 0
    PROVE  /\ IsField(f) /\ OnceIn(M.regs, Regs(f)) /\ BytesIn(M.regs, Regs(f))
           /\ M.regs \in Seq(Entry)
  <1>1. ProperPorts(S) /\ ProperMode(S, opt.mode + 1) /\ M.regs \in Seq(Entry)
    BY WhatIsKnown
  <1>2. IsField(f)
    BY <1>1, OfPorts DEF IsField
  <1>3. \A r \in Regs(f) : HoldsByte(M.regs, r)
    <2>1. \A r \in FlipRegs(S) \cup Regs(S.exposure) \cup Regs(S.gain) \cup Regs(S.vts) :
              HoldsByte(M.regs, r)
      BY <1>1, OfAMode DEF M
    <2> QED
      BY <2>1
  <1> QED
    BY <1>1, <1>2, <1>3 DEF OnceIn, BytesIn, HoldsByte

\* -ex or -eus: the exposure
LEMMA ExposureArrives ==
    ASSUME CInv, pc = "start", S.exposure.reg # 0, Spared(opt.edits, Regs(S.exposure))
    PROVE  Value(regs, S.exposure.reg, Count(S.exposure.bits)) =
               IF Valid(exposure, S.exposure.bits) THEN exposure
               ELSE Value(M.regs, S.exposure.reg, Count(S.exposure.bits))
  <1> DEFINE f == S.exposure
             R == Regs(f)
             u == M.regs
             t == AfterHFlip
             w == AfterExposure
             c == Valid(exposure, f.bits)
  <1>1. IInv /\ pc \in Editing /\ regs = AfterGain
    BY DEF CInv, Composed, Editing
  <1>2. IsField(f) /\ OnceIn(u, R) /\ BytesIn(u, R) /\ u \in Seq(Entry)
    BY <1>1, OfAField
  <1>3. HasRegs(t, u)
    BY <1>1, AllHaveRegs
  <1>4. ProperPorts(S)
    BY <1>1, WhatIsKnown
  <1>5. ASSUME NEW r \in R
        PROVE  Sent(t, r) = Sent(u, r) /\ Sent(regs, r) = Sent(w, r)
    <2>1. Once(M.regs, r)
      BY <1>2 DEF OnceIn
    <2>2. /\ r \notin FlipRegs(S) /\ r \notin Regs(S.gain)
          /\ r \notin FpsRegs(S) /\ r \notin SizeRegs
      BY <1>4, PortsApart
    <2>3. r \notin Regs(S.vts)
      BY <1>4, <2>2, TwoBytes DEF Regs
    <2>4. Spared(opt.edits, {r})
      BY DEF Spared
    <2> QED
      BY <1>1, <2>1, <2>2, <2>3, <2>4, StepsSpare
  <1>6. SameIn(u, t, R) /\ SameIn(w, regs, R)
    BY <1>5 DEF SameIn
  <1>7. BytesIn(t, R)
    BY <1>2, <1>6 DEF BytesIn, SameIn
  <1>8. w = IF c THEN Field(t, f.reg, f.bits, exposure) ELSE t
    BY DEF AfterExposure
  <1> HIDE DEF f, u, t, w
  <1>9. CASE c
    <2>1. SameIn(Field(t, f.reg, f.bits, exposure), regs, R)
      BY <1>6, <1>8, <1>9
    <2>2. Value(regs, f.reg, Count(f.bits)) = exposure
      BY <1>2, <1>3, <1>7, <1>9, <2>1, FieldStep
    <2> QED
      BY <1>9, <2>2 DEF f
  <1>10. CASE ~ c
    <2>1. SameIn(t, regs, R)
      BY <1>6, <1>8, <1>10
    <2>2. SameIn(u, regs, R)
      BY <1>6, <2>1 DEF SameIn
    <2>3. Value(regs, f.reg, Count(f.bits)) = Value(u, f.reg, Count(f.bits))
      BY <1>2, <2>2, SameValue
    <2> QED
      BY <1>10, <2>3 DEF f, u
  <1> QED
    BY <1>9, <1>10

\* -g: the gain
LEMMA GainArrives ==
    ASSUME CInv, pc = "start", S.gain.reg # 0, Spared(opt.edits, Regs(S.gain))
    PROVE  Value(regs, S.gain.reg, Count(S.gain.bits)) =
               IF Valid(opt.gain, S.gain.bits) THEN opt.gain
               ELSE Value(M.regs, S.gain.reg, Count(S.gain.bits))
  <1> DEFINE f == S.gain
             R == Regs(f)
             u == M.regs
             t == AfterVts
             w == AfterGain
             c == Valid(opt.gain, f.bits)
  <1>1. IInv /\ pc \in Editing /\ regs = AfterGain
    BY DEF CInv, Composed, Editing
  <1>2. IsField(f) /\ OnceIn(u, R) /\ BytesIn(u, R) /\ u \in Seq(Entry)
    BY <1>1, OfAField
  <1>3. HasRegs(t, u)
    BY <1>1, AllHaveRegs
  <1>4. ProperPorts(S)
    BY <1>1, WhatIsKnown
  <1>5. ASSUME NEW r \in R
        PROVE  Sent(t, r) = Sent(u, r)
    <2>1. Once(M.regs, r)
      BY <1>2 DEF OnceIn
    <2>2. /\ r \notin FlipRegs(S) /\ r \notin Regs(S.exposure)
          /\ r \notin FpsRegs(S) /\ r \notin SizeRegs
      BY <1>4, PortsApart
    <2>3. r \notin Regs(S.vts)
      BY <1>4, <2>2, TwoBytes DEF Regs
    <2>4. Spared(opt.edits, {r})
      BY DEF Spared
    <2> QED
      BY <1>1, <2>1, <2>2, <2>3, <2>4, StepsSpare
  <1>6. SameIn(u, t, R) /\ SameIn(w, regs, R)
    BY <1>1, <1>5 DEF SameIn
  <1>7. BytesIn(t, R)
    BY <1>2, <1>6 DEF BytesIn, SameIn
  <1>8. w = IF c THEN Field(t, f.reg, f.bits, opt.gain) ELSE t
    BY DEF AfterGain
  <1> HIDE DEF f, u, t, w
  <1>9. CASE c
    <2>1. SameIn(Field(t, f.reg, f.bits, opt.gain), regs, R)
      BY <1>6, <1>8, <1>9
    <2>2. Value(regs, f.reg, Count(f.bits)) = opt.gain
      BY <1>2, <1>3, <1>7, <1>9, <2>1, FieldStep
    <2> QED
      BY <1>9, <2>2 DEF f
  <1>10. CASE ~ c
    <2>1. SameIn(u, regs, R)
      BY <1>6, <1>8, <1>10 DEF SameIn
    <2>2. Value(regs, f.reg, Count(f.bits)) = Value(u, f.reg, Count(f.bits))
      BY <1>2, <2>1, SameValue
    <2> QED
      BY <1>10, <2>2 DEF f, u
  <1> QED
    BY <1>9, <1>10

\* Two registers that are set whole
LEMMA BytePairSent ==
    ASSUME NEW t, NEW u \in Seq(Entry), HasRegs(t, u), NEW r, Once(u, r),
           NEW reg \in Int, NEW value
    PROVE  Sent(Pair(t, reg, 7, value), r) =
               IF reg = r THEN Masked(Sent(t, r), 256, value \div 256)
               ELSE IF reg + 1 = r THEN Masked(Sent(t, r), 256, value) ELSE Sent(t, r)
  <1>1. PICK e, m : e = 7 /\ m = 256 /\ m = 2^(e + 1)
    BY 256 = 2^(7 + 1)
  <1>2. Sent(Pair(t, reg, e, value), r) =
            IF reg = r THEN Masked(Sent(t, r), m, value \div 256)
            ELSE IF reg + 1 = r THEN Masked(Sent(t, r), 256, value) ELSE Sent(t, r)
    <2>1. m = 2^(e + 1)
      BY <1>1
    <2> QED
      BY <2>1, PairSent
  <1> QED
    BY <1>1, <1>2

\* -fps leaves bytes in its two registers, whatever the frame time (raspiraw.c:1592-1597).
LEMMA BytePairIsByte ==
    ASSUME NEW t, NEW u \in Seq(Entry), HasRegs(t, u), NEW r, Once(u, r),
           NEW reg \in Int, NEW value \in Int, reg = r \/ reg + 1 = r, Sent(t, r) \in 0 .. 255
    PROVE  /\ Sent(Pair(t, reg, 7, value), r) =
                  IF reg = r THEN (value \div 256) % 256 ELSE value % 256
           /\ Sent(Pair(t, reg, 7, value), r) \in 0 .. 255
  <1> DEFINE n == Sent(t, r)
             high == value \div 256
             w == Pair(t, reg, 7, value)
  <1>1. Sent(w, r) = IF reg = r THEN Masked(n, 256, high)
                     ELSE IF reg + 1 = r THEN Masked(n, 256, value) ELSE n
    BY BytePairSent
  <1>2. n \in 0 .. 255 /\ high \in Int
    OBVIOUS
  <1> HIDE DEF n, high, w
  <1>3. Masked(n, 256, high) = high % 256 /\ high % 256 \in 0 .. 255
    BY <1>2, MaskedByte
  <1>4. Masked(n, 256, value) = value % 256 /\ value % 256 \in 0 .. 255
    BY <1>2, MaskedByte
  <1>5. /\ Sent(w, r) = IF reg = r THEN high % 256 ELSE value % 256
        /\ Sent(w, r) \in 0 .. 255
    BY <1>1, <1>3, <1>4
  <1> QED
    BY <1>5 DEF high, w

\* Two registers that were set to a value that fits them
LEMMA PairArrives ==
    ASSUME NEW u \in Seq(Entry), NEW t, HasRegs(t, u), NEW reg \in Nat,
           Once(u, reg), Once(u, reg + 1), BytesIn(t, {reg, reg + 1}),
           NEW value \in Nat, value < 65536,
           NEW z, SameIn(Pair(t, reg, 7, value), z, {reg, reg + 1})
    PROVE  Value(z, reg, 2) = value
  <1> DEFINE w == Pair(t, reg, 7, value)
             next == reg + 1
             high == value \div 256
  <1>1. Sent(t, reg) \in 0 .. 255 /\ Sent(t, next) \in 0 .. 255
    BY DEF BytesIn
  <1>2. Sent(w, reg) = high % 256
    BY <1>1, BytePairIsByte
  <1>3. Sent(w, next) = value % 256
    <2>1. PICK x : x = reg + 1
      OBVIOUS
    <2>2. Once(u, x) /\ reg + 1 = x /\ reg # x /\ reg \in Int /\ value \in Int
      BY <2>1
    <2>3. Sent(t, x) \in 0 .. 255
      BY <1>1, <2>1
    <2>4. Sent(w, x) = IF reg = x THEN (value \div 256) % 256 ELSE value % 256
      <3>1. Once(u, x) /\ reg \in Int /\ value \in Int /\ (reg = x \/ reg + 1 = x)
            /\ Sent(t, x) \in 0 .. 255 /\ HasRegs(t, u) /\ u \in Seq(Entry)
        BY <2>2, <2>3
      <3> QED
        BY ONLY <3>1, BytePairIsByte DEF w
    <2> QED
      BY <2>1, <2>2, <2>4
  <1>4. Sent(z, reg) = Sent(w, reg) /\ Sent(z, next) = Sent(w, next)
    BY DEF SameIn
  <1>5. high \in Nat /\ high % 256 = high /\ 256 * high + (value % 256) = value
        /\ value % 256 \in Nat
    OBVIOUS
  <1> HIDE DEF w, next, high
  <1>6. Sent(z, reg) = high /\ Sent(z, next) = value % 256
    BY <1>2, <1>3, <1>4, <1>5
  <1>7. Value(z, reg, 2) = 256 * Sent(z, reg) + Sent(z, next)
    BY <1>5, <1>6, ValueOfBytes DEF next
  <1> QED
    BY <1>5, <1>6, <1>7

\* The quotient of -fps is a natural number (raspiraw.c:1594).
LEMMA FrameTimeIsInt ==
    ASSUME IInv, pc \in Editing, opt.fps2 > 0
    PROVE  FrameTime \in Nat /\ FrameTime \in Int
  <1> DEFINE l == M.line_time_ns
             p == opt.fps2
  <1>1. l \in Nat /\ p \in Nat /\ p > 0
    BY WhatIsKnown, OfAMode DEF M, ProperOptions
  <1>2. FrameTime \in {2147483647} \cup {IF l = 0 THEN 0 ELSE 2000000000 \div (l * p)}
    BY DEF FrameTime
  <1> HIDE DEF l, p
  <1>3. l # 0 => l * p \in Nat /\ l * p > 0
    BY <1>1
  <1>4. l # 0 => 2000000000 \div (l * p) \in Nat
    BY <1>3
  <1> QED
    BY <1>2, <1>4

\* -fps, and a frame that follows the exposure
LEMMA FrameArrives ==
    ASSUME CInv, pc = "start", S.vts.reg # 0, Spared(opt.edits, FpsRegs(S))
    PROVE  /\ FrameFollows => Value(regs, S.vts.reg, 2) = exposure
           /\ ~ FrameFollows /\ opt.fps2 = 0 =>
                 Value(regs, S.vts.reg, 2) = Value(M.regs, S.vts.reg, 2)
           /\ ~ FrameFollows /\ opt.fps2 > 0 /\ FrameTime < 65536 =>
                 Value(regs, S.vts.reg, 2) = FrameTime
  <1> DEFINE f == S.vts
             R == Regs(f)
             u == M.regs
             t == AfterExposure
             w == AfterVts
  <1>1. IInv /\ pc \in Editing /\ regs = AfterGain
    BY DEF CInv, Composed, Editing
  <1>2. IsField(f) /\ OnceIn(u, R) /\ BytesIn(u, R) /\ u \in Seq(Entry)
    BY <1>1, OfAField
  <1>3. HasRegs(t, u) /\ HasRegs(AfterRegs, u)
    BY <1>1, AllHaveRegs
  <1>4. ProperPorts(S) /\ ProperMode(S, opt.mode + 1) /\ ProperOptions(opt)
    BY <1>1, WhatIsKnown
  <1>5. Count(f.bits) = 2 /\ R = {f.reg, f.reg + 1} /\ R = FpsRegs(S)
    BY <1>4, TwoBytes DEF FpsRegs
  <1>6. ASSUME NEW r \in R
        PROVE  /\ Sent(AfterRegs, r) = Sent(u, r) /\ Sent(t, r) = Sent(AfterFps, r)
               /\ Sent(regs, r) = Sent(w, r)
    <2>1. Once(M.regs, r)
      BY <1>2 DEF OnceIn
    <2>2. /\ r \notin FlipRegs(S) /\ r \notin Regs(S.exposure)
          /\ r \notin Regs(S.gain) /\ r \notin SizeRegs
      BY <1>4, <1>5, PortsApart
    <2>4. Spared(opt.edits, {r})
      BY <1>5 DEF Spared
    <2> QED
      BY <1>1, <2>1, <2>2, <2>4, StepsSpare
  <1>7. SameIn(u, AfterRegs, R) /\ SameIn(AfterFps, t, R) /\ SameIn(w, regs, R)
    BY <1>6 DEF SameIn
  <1>8. BytesIn(AfterRegs, R)
    BY <1>2, <1>7 DEF BytesIn, SameIn
  <1>9. w = IF FrameFollows THEN Field(t, f.reg, f.bits, exposure) ELSE t
    BY DEF AfterVts
  <1>10. AfterFps = IF opt.fps2 > 0 THEN Pair(AfterRegs, f.reg, 7, FrameTime) ELSE AfterRegs
    BY DEF AfterFps
  <1>11. BytesIn(AfterFps, R)
    <2>1. CASE opt.fps2 > 0
      <3>1. FrameTime \in Int
        BY <1>1, <2>1, FrameTimeIsInt
      <3>2. ASSUME NEW r \in R
            PROVE  Sent(Pair(AfterRegs, f.reg, 7, FrameTime), r) \in 0 .. 255
        <4>1. Once(u, r) /\ Sent(AfterRegs, r) \in 0 .. 255
          BY <1>2, <1>8 DEF OnceIn, BytesIn
        <4>2. f.reg \in Int /\ (f.reg = r \/ f.reg + 1 = r)
          BY <1>2, <1>5 DEF IsField
        <4> QED
          BY <1>2, <1>3, <3>1, <4>1, <4>2, BytePairIsByte
      <3> QED
        BY <1>10, <2>1, <3>2 DEF BytesIn
    <2>2. CASE ~ opt.fps2 > 0
      BY <1>8, <1>10, <2>2
    <2> QED
      BY <2>1, <2>2
  <1>12. BytesIn(t, R)
    BY <1>7, <1>11 DEF BytesIn, SameIn
  <1>13. ASSUME FrameFollows
         PROVE  Value(regs, f.reg, 2) = exposure
    <2>1. Valid(exposure, f.bits)
      BY <1>13 DEF FrameFollows
    <2>2. SameIn(Field(t, f.reg, f.bits, exposure), regs, R)
      BY <1>7, <1>9, <1>13
    <2> HIDE DEF f, u, t, w
    <2>3. Value(regs, f.reg, Count(f.bits)) = exposure
      BY <1>2, <1>3, <1>12, <2>1, <2>2, FieldStep
    <2> QED
      BY <1>5, <2>3
  <1>14. ASSUME ~ FrameFollows
         PROVE  SameIn(AfterFps, regs, R)
    BY <1>7, <1>9, <1>14 DEF SameIn
  <1>15. ASSUME ~ FrameFollows, opt.fps2 = 0
         PROVE  Value(regs, f.reg, 2) = Value(u, f.reg, 2)
    <2>1. SameIn(u, regs, R)
      BY <1>7, <1>10, <1>14, <1>15 DEF SameIn
    <2> HIDE DEF f, u
    <2>2. Value(regs, f.reg, Count(f.bits)) = Value(u, f.reg, Count(f.bits))
      BY <1>2, <2>1, SameValue
    <2> QED
      BY <1>5, <2>2
  <1>16. ASSUME ~ FrameFollows, opt.fps2 > 0, FrameTime < 65536
         PROVE  Value(regs, f.reg, 2) = FrameTime
    <2>1. SameIn(Pair(AfterRegs, f.reg, 7, FrameTime), regs, {f.reg, f.reg + 1})
      BY <1>5, <1>10, <1>14, <1>16
    <2>2. FrameTime \in Nat
      BY <1>1, <1>16, FrameTimeIsInt
    <2>3. f.reg \in Nat /\ Once(u, f.reg) /\ Once(u, f.reg + 1)
      BY <1>2, <1>5 DEF IsField, OnceIn
    <2>4. BytesIn(AfterRegs, {f.reg, f.reg + 1})
      BY <1>5, <1>8
    <2> HIDE DEF f, u
    <2> QED
      BY <1>2, <1>3, <1>16, <2>1, <2>2, <2>3, <2>4, PairArrives
  <1> QED
    BY <1>13, <1>15, <1>16

\* The assignments of -regs leave the registers of the exposure, the gain and the frame time.
FieldsAreSpared == /\ Spared(opt.edits, Regs(S.exposure)) /\ Spared(opt.edits, Regs(S.gain))
                   /\ Spared(opt.edits, FpsRegs(S))

\* FieldsHold holds when the edits are done.
LEMMA StartHolds ==
    ASSUME CInv, pc = "start", FieldsAreSpared
    PROVE  FieldsHold
  <1> DEFINE holds(f, value) ==
                 f.reg # 0 => Value(regs, f.reg, Count(f.bits)) =
                                  IF Valid(value, f.bits) THEN value
                                  ELSE Value(M.regs, f.reg, Count(f.bits))
  <1>1. holds(S.exposure, exposure)
    BY ExposureArrives DEF FieldsAreSpared
  <1>2. holds(S.gain, opt.gain)
    BY GainArrives DEF FieldsAreSpared
  <1>3. ASSUME S.vts.reg # 0, opt.fps2 > 0, FrameTime < 65536, exposure < M.min_vts
        PROVE  Value(regs, S.vts.reg, 2) = FrameTime
    <2>1. ~ FrameFollows
      <3>1. exposure \in Int /\ M.min_vts \in Nat
        <4>1. IInv /\ pc \in Editing /\ exposure \in Int
          BY DEF CInv, Described, Editing
        <4> QED
          BY <4>1, WhatIsKnown, OfAMode DEF M
      <3> QED
        BY <1>3, <3>1 DEF FrameFollows
    <2> QED
      BY <1>3, <2>1, FrameArrives DEF FieldsAreSpared
  <1>4. ASSUME NEW f \in {<<S.exposure, exposure>>, <<S.gain, opt.gain>>}
        PROVE  f[1].reg # 0 => Value(regs, f[1].reg, Count(f[1].bits)) =
                                   IF Valid(f[2], f[1].bits) THEN f[2]
                                   ELSE Value(M.regs, f[1].reg, Count(f[1].bits))
    <2>1. CASE f = <<S.exposure, exposure>>
      BY <1>1, <2>1
    <2>2. CASE f = <<S.gain, opt.gain>>
      BY <1>2, <2>2
    <2> QED
      BY <2>1, <2>2
  <1> QED
    BY <1>3, <1>4 DEF FieldsHold

\* FieldsHold, of any command line whose assignments of -regs leave the fields' registers:
\* exposure, gain and frame time arrive at the sensor as they were asked for, and a value
\* that the field does not hold changes nothing (raspiraw.c:1592-1597, 2417-2478).
THEOREM FieldsArrive == Spec => [](FieldsAreSpared => FieldsHold)
  <1>1. CInv => (FieldsAreSpared => FieldsHold)
    BY StartHolds DEF FieldsHold, Done
  <1> QED
    BY TablesAreComposed, <1>1, PTL

\* The frame time of a mode is a number.
LEMMA FrameIsInt ==
    ASSUME IInv, pc \in Editing, S.vts.reg # 0
    PROVE  Value(M.regs, S.vts.reg, 2) \in Int
  <1> DEFINE f == S.vts
             u == M.regs
  <1>1. IsField(f) /\ BytesIn(u, Regs(f))
    BY OfAField
  <1>2. Regs(f) = {f.reg, f.reg + 1}
    BY WhatIsKnown, TwoBytes DEF FpsRegs
  <1>3. Sent(u, f.reg) \in 0 .. 255 /\ Sent(u, f.reg + 1) \in 0 .. 255 /\ f.reg \in Nat
    BY <1>1, <1>2 DEF BytesIn, IsField
  <1> HIDE DEF u
  <1>4. \A x \in 0 .. 255 : x \in Nat
    OBVIOUS
  <1>5. Sent(u, f.reg) \in Nat /\ Sent(u, f.reg + 1) \in Nat
    BY <1>3, <1>4, Zenon
  <1>6. Value(u, f.reg, 2) = 256 * Sent(u, f.reg) + Sent(u, f.reg + 1)
    BY <1>3, <1>5, ValueOfBytes, ZenonT(30)
  <1> HIDE DEF f
  <1>7. Value(u, f.reg, 2) \in Int
    BY <1>5, <1>6
  <1> QED
    BY <1>7 DEF f, u

\* They leave those of the frame time.
FrameIsSpared == Spared(opt.edits, FpsRegs(S))

\* ExposureFitsFrame holds when the edits are done.
LEMMA StartFits ==
    ASSUME CInv, pc = "start", FrameIsSpared
    PROVE  ExposureFitsFrame
  <1> SUFFICES ASSUME opt.fps2 = 0, S.vts.reg # 0, Value(M.regs, S.vts.reg, 2) >= M.min_vts,
                      Valid(exposure, S.exposure.bits), Valid(exposure, S.vts.bits)
               PROVE  exposure <= Value(regs, S.vts.reg, 2)
    BY DEF ExposureFitsFrame
  <1>1. exposure \in Nat /\ M.min_vts \in Nat
    <2>1. IInv /\ pc \in Editing /\ exposure \in Int
      BY DEF CInv, Described, Editing
    <2>2. M.min_vts \in Nat
      BY <2>1, WhatIsKnown, OfAMode DEF M
    <2>3. exposure >= 0
      BY DEF Valid
    <2> QED
      BY <2>1, <2>2, <2>3
  <1>2. CASE FrameFollows
    <2>1. Value(regs, S.vts.reg, 2) = exposure
      BY <1>2, FrameArrives DEF FrameIsSpared
    <2> QED
      BY <1>1, <2>1
  <1>3. CASE ~ FrameFollows
    <2>1. Value(regs, S.vts.reg, 2) = Value(M.regs, S.vts.reg, 2)
      BY <1>3, FrameArrives DEF FrameIsSpared
    <2>2. exposure < M.min_vts
      BY <1>1, <1>3 DEF FrameFollows
    <2>3. PICK v : v = Value(M.regs, S.vts.reg, 2)
      OBVIOUS
    <2>4. v \in Int
      <3>1. IInv /\ pc \in Editing
        BY DEF CInv, Editing
      <3> QED
        BY <2>3, <3>1, FrameIsInt
    <2> QED
      BY <1>1, <2>1, <2>2, <2>3, <2>4
  <1> QED
    BY <1>2, <1>3

\* ExposureFitsFrame, of any command line whose assignments of -regs leave the frame time: an
\* exposure that fits the register of the frame time fits the frame (raspiraw.c:2438-2456).
THEOREM ExposuresFit == Spec => [](FrameIsSpared => ExposureFitsFrame)
  <1>1. CInv => (FrameIsSpared => ExposureFitsFrame)
    BY StartFits DEF ExposureFitsFrame, Done
  <1> QED
    BY TablesAreComposed, <1>1, PTL

-----------------------------------------------------------------------------
(* The size of the image *)

\* A size of twelve bits, set in two registers
LEMMA PutSent ==
    ASSUME NEW t, NEW u \in Seq(Entry), HasRegs(t, u), NEW r, Once(u, r),
           NEW reg \in Int, NEW value
    PROVE  Sent(Put(t, reg, value), r) =
               IF value > 0
               THEN IF reg = r THEN Masked(Sent(t, r), 16, value \div 256)
                    ELSE IF reg + 1 = r THEN Masked(Sent(t, r), 256, value) ELSE Sent(t, r)
               ELSE Sent(t, r)
  <1>1. PICK e, m : e = 3 /\ m = 16 /\ m = 2^(e + 1)
    BY 16 = 2^(3 + 1)
  <1>2. Sent(Pair(t, reg, e, value), r) =
            IF reg = r THEN Masked(Sent(t, r), m, value \div 256)
            ELSE IF reg + 1 = r THEN Masked(Sent(t, r), 256, value) ELSE Sent(t, r)
    <2>1. m = 2^(e + 1)
      BY <1>1
    <2> QED
      BY <2>1, PairSent
  <1> QED
    BY <1>1, <1>2 DEF Put

\* What is in the two registers of a size, in the end
LEMMA SizeArrives ==
    ASSUME NEW u \in Seq(Entry), NEW t, HasRegs(t, u), NEW reg \in Nat,
           Once(u, reg), Once(u, reg + 1), BytesIn(t, {reg, reg + 1}),
           NEW asked \in Int, asked < 4096,
           NEW z, SameIn(Put(t, reg, asked), z, {reg, reg + 1})
    PROVE  /\ asked > 0 => Value(z, reg, 2) % 4096 = asked
           /\ asked <= 0 => Value(z, reg, 2) = Value(t, reg, 2)
           /\ Sent(z, reg) \div 16 = Sent(t, reg) \div 16
  <1> DEFINE w == Put(t, reg, asked)
  <1>1. PICK x : x = reg + 1
    OBVIOUS
  <1>2. PICK n, k : n = Sent(t, reg) /\ k = Sent(t, x)
    OBVIOUS
  <1>3. n \in 0 .. 255 /\ k \in 0 .. 255 /\ reg # x
    BY <1>1, <1>2 DEF BytesIn
  <1>4. Sent(z, reg) = Sent(w, reg) /\ Sent(z, x) = Sent(w, x)
    BY <1>1 DEF SameIn
  <1>5. Sent(w, reg) = IF asked > 0 THEN Masked(n, 16, asked \div 256) ELSE n
    <2>1. Once(u, reg) /\ reg \in Int
      OBVIOUS
    <2> QED
      BY <1>2, <2>1, PutSent
  <1>6. Sent(w, x) = IF asked > 0 THEN Masked(k, 256, asked) ELSE k
    <2>1. /\ Once(u, x) /\ reg \in Int /\ reg # x /\ reg + 1 = x
          /\ HasRegs(t, u) /\ u \in Seq(Entry) /\ k = Sent(t, x)
      BY <1>1, <1>2, <1>3
    <2> QED
      BY ONLY <2>1, PutSent DEF w
  <1>10. n \in Nat /\ k \in Nat
    BY <1>3
  <1>7. Value(t, reg, 2) = 256 * n + k
    BY <1>1, <1>2, <1>10, ValueOfBytes
  <1> HIDE DEF w
  <1>8. CASE asked > 0
    <2>1. PICK high : high = Masked(n, 16, asked \div 256)
      OBVIOUS
    <2>3. PICK low \in 0 .. 255 : low = asked % 256
      OBVIOUS
    <2>2. Masked(k, 256, asked) = low
      BY <1>3, <2>3 DEF Masked
    <2>4. asked \in Nat
      BY <1>8
    <2>5. /\ high \in 0 .. 255 /\ high \div 16 = n \div 16
          /\ (256 * high + low) % 4096 = asked
      <3>1. PICK h \in 0 .. 15 : h = asked \div 256
        BY <2>4
      <3>2. PICK up \in 0 .. 15 : up = n \div 16
        BY <1>3
      <3>3. n - (n % 16) = 16 * up /\ h % 16 = h /\ asked = 256 * h + low
        BY <1>3, <2>3, <2>4, <3>1, <3>2
      <3>4. high = 16 * up + h
        BY <2>1, <3>1, <3>3 DEF Masked
      <3>5. /\ 16 * up + h \in 0 .. 255 /\ (16 * up + h) \div 16 = up
            /\ (256 * (16 * up + h) + low) % 4096 = 256 * h + low
        <4>1. 256 * (16 * up + h) + low = 4096 * up + (256 * h + low)
          OBVIOUS
        <4>2. PICK v \in 0 .. 4095 : v = 256 * h + low
          OBVIOUS
        <4>3. (4096 * up + v) % 4096 = v
          OBVIOUS
        <4> QED
          BY <4>1, <4>2, <4>3
      <3> QED
        BY <3>2, <3>3, <3>4, <3>5
    <2>6. Sent(z, reg) = high /\ Sent(z, x) = low
      BY <1>4, <1>5, <1>6, <1>8, <2>1, <2>2, <2>3
    <2>7. high \in Nat /\ low \in Nat
      BY <2>5, <2>3
    <2>8. Value(z, reg, 2) = 256 * high + low
      BY <1>1, <2>6, <2>7, ValueOfBytes
    <2>9. Value(z, reg, 2) % 4096 = asked
      <3>1. PICK v \in Int : v = 256 * high + low
        BY <2>5
      <3>2. v % 4096 = asked
        BY <2>5, <3>1
      <3>3. Value(z, reg, 2) = v
        BY <2>8, <3>1
      <3> QED
        BY <3>2, <3>3
    <2>10. Sent(z, reg) \div 16 = Sent(t, reg) \div 16
      BY <1>2, <2>5, <2>6
    <2> QED
      BY <1>8, <2>9, <2>10
  <1>9. CASE ~ asked > 0
    <2>1. Sent(z, reg) = n /\ Sent(z, x) = k
      BY <1>4, <1>5, <1>6, <1>9
    <2>2. n \in Nat /\ k \in Nat
      BY <1>3
    <2>3. Value(z, reg, 2) = 256 * n + k
      BY <1>1, <2>1, <2>2, ValueOfBytes
    <2> QED
      BY <1>2, <1>7, <1>9, <2>1, <2>3
  <1> QED
    BY <1>8, <1>9

\* Two registers that two tables hold alike
LEMMA PairSame ==
    ASSUME NEW t, NEW w, NEW reg \in Nat,
           \A r \in {reg, reg + 1} : Sent(t, r) \in 0 .. 255 /\ Sent(w, r) = Sent(t, r)
    PROVE  Value(w, reg, 2) = Value(t, reg, 2)
  <1>1. PICK a, b : a = Sent(t, reg) /\ b = Sent(t, reg + 1)
    OBVIOUS
  <1>2. a \in Nat /\ b \in Nat
    BY <1>1
  <1>3. Sent(w, reg) = a /\ Sent(w, reg + 1) = b
    BY <1>1
  <1>4. Value(t, reg, 2) = 256 * a + b
    BY <1>1, <1>2, ValueOfBytes
  <1>5. Value(w, reg, 2) = 256 * a + b
    BY <1>2, <1>3, ValueOfBytes
  <1> QED
    BY <1>4, <1>5

\* The registers of the size of the image, on the sensors that SizesHold is about
SizeCells == IF S.name \in DOMAIN SizeOf
             THEN UNION {{SizeOf[S.name][i], SizeOf[S.name][i] + 1} : i \in 1 .. 2} ELSE {}
SizesAreSpared == Spared(opt.edits, SizeCells)

\* What TablesAssumption says of the size that a mode tells the sensor.
LEMMA OfSizes ==
    ASSUME NEW s, NEW k, ProperMode(s, k), s.name \in DOMAIN SizeOf
    PROVE  \A j \in 1 .. 2 :
               LET reg == SizeOf[s.name][j]
                   said == <<s.modes[k].width, s.modes[k].height>>[j]
               IN  /\ \A r \in {reg, reg + 1} :
                         /\ HoldsByte(s.modes[k].regs, r)
                         /\ \A p \in 1 .. 4 : r \notin Ports(s)[p]
                   /\ s.name = "ov5647" /\ ~ (k = 5 /\ j = 2) =>
                         Value(s.modes[k].regs, reg, 2) % 4096 = said
                   /\ s.name = "imx219" => Value(s.modes[k].regs, reg, 2) = said
  BY Zenon DEF ProperMode

\* Only main's step of the sizes edits them.
LEMMA SizesSpared ==
    ASSUME CInv, pc = "start", SizesAreSpared, S.name \in DOMAIN SizeOf,
           NEW i \in 1 .. 2, NEW r \in {SizeOf[S.name][i], SizeOf[S.name][i] + 1}
    PROVE  /\ Once(M.regs, r) /\ Sent(M.regs, r) \in 0 .. 255
           /\ Sent(AfterFps, r) = Sent(M.regs, r) /\ Sent(regs, r) = Sent(AfterSize, r)
  <1>1. IInv /\ pc \in Editing /\ regs = AfterGain
    BY DEF CInv, Composed, Editing
  <1>2. ProperPorts(S) /\ ProperMode(S, opt.mode + 1)
    BY <1>1, WhatIsKnown
  <1>3. HoldsByte(M.regs, r) /\ \A p \in 1 .. 4 : r \notin Ports(S)[p]
    BY <1>2, OfSizes DEF M
  <1>4. /\ r \notin FlipRegs(S) /\ r \notin Regs(S.exposure) /\ r \notin Regs(S.gain)
        /\ r \notin FpsRegs(S)
    BY <1>3 DEF Ports
  <1>5. r \notin Regs(S.vts)
    BY <1>2, <1>4, TwoBytes DEF Regs
  <1>6. Spared(opt.edits, {r})
    <2>1. r \in SizeCells
      BY DEF SizeCells
    <2> QED
      BY <2>1 DEF Spared, SizesAreSpared
  <1>7. Once(M.regs, r) /\ Sent(M.regs, r) \in 0 .. 255
    BY <1>3 DEF HoldsByte
  <1> QED
    BY <1>1, <1>4, <1>5, <1>6, <1>7, StepsSpare

\* The four sizes are of registers of their own.
LEMMA SizeSteps ==
    ASSUME IInv, pc \in Editing, NEW r, Once(M.regs, r)
    PROVE  /\ r \in {14344, 14345} => Sent(AfterSize, r) = Sent(Put(AfterFps, 14344, opt.width), r)
           /\ r \in {14346, 14347} =>
                  /\ Sent(Put(AfterFps, 14344, opt.width), r) = Sent(AfterFps, r)
                  /\ Sent(AfterSize, r) =
                         Sent(Put(Put(AfterFps, 14344, opt.width), 14346, opt.height), r)
           /\ r \notin SizeRegs => Sent(AfterSize, r) = Sent(AfterFps, r)
  <1>1. PICK u : u = M.regs
    OBVIOUS
  <1>2. Once(u, r) /\ u \in Seq(Entry) /\ HasRegs(AfterFps, u)
    BY <1>1, AllHaveRegs
  <1>3. PICK a, b, c : /\ a = Put(AfterFps, 14344, opt.width)
                       /\ b = Put(a, 14346, opt.height)
                       /\ c = Put(b, 14336, opt.left * Unit)
    OBVIOUS
  <1>4. HasRegs(a, u) /\ HasRegs(b, u) /\ HasRegs(c, u)
    BY <1>2, <1>3, PutKeeps
  <1>5. AfterSize = Put(c, 14338, opt.top * Unit)
    BY <1>3 DEF AfterSize
  <1>6. ASSUME r # 14346, r # 14347
        PROVE  Sent(b, r) = Sent(a, r)
    BY <1>2, <1>3, <1>4, <1>6, PutSpares
  <1>7. ASSUME r # 14336, r # 14337
        PROVE  Sent(c, r) = Sent(b, r)
    BY <1>2, <1>3, <1>4, <1>7, PutSpares
  <1>8. ASSUME r # 14338, r # 14339
        PROVE  Sent(AfterSize, r) = Sent(c, r)
    BY <1>2, <1>4, <1>5, <1>8, PutSpares
  <1>9. ASSUME r # 14344, r # 14345
        PROVE  Sent(a, r) = Sent(AfterFps, r)
    BY <1>2, <1>3, <1>9, PutSpares
  <1>10. ASSUME r \in {14344, 14345}
         PROVE  Sent(AfterSize, r) = Sent(a, r)
    BY <1>6, <1>7, <1>8, <1>10
  <1>11. ASSUME r \in {14346, 14347}
         PROVE  Sent(a, r) = Sent(AfterFps, r) /\ Sent(AfterSize, r) = Sent(b, r)
    BY <1>7, <1>8, <1>9, <1>11
  <1>12. r \notin SizeRegs => Sent(AfterSize, r) = Sent(AfterFps, r)
    BY StepsSpare
  <1> QED
    BY <1>3, <1>10, <1>11, <1>12

\* SizesHold holds when the edits are done.
LEMMA StartSizes ==
    ASSUME CInv, pc = "start", SizesAreSpared, S.name \in DOMAIN SizeOf, NEW i \in 1 .. 2
    PROVE  LET reg == SizeOf[S.name][i]
               asked == <<opt.width, opt.height>>[i]
           IN  /\ S.name = "ov5647" /\ asked < 4096 /\ ~ (opt.mode = 4 /\ i = 2 /\ asked <= 0) =>
                      /\ Value(regs, reg, 2) % 4096 = size[i]
                      /\ Sent(regs, reg) \div 16 = Sent(M.regs, reg) \div 16
               /\ S.name = "imx219" /\ asked <= 0 => Value(regs, reg, 2) = size[i]
  <1> DEFINE reg == SizeOf[S.name][i]
             asked == <<opt.width, opt.height>>[i]
             said == <<M.width, M.height>>[i]
             cells == {reg, reg + 1}
             u == M.regs
             t == IF i = 1 THEN AfterFps ELSE Put(AfterFps, 14344, opt.width)
  <1>1. IInv /\ pc \in Editing /\ size = AskedSize
    BY DEF CInv, Described, Editing
  <1>2. ProperMode(S, opt.mode + 1) /\ opt.width \in Int /\ opt.height \in Int /\ opt.mode \in Int
        /\ u \in Seq(Entry)
    <2>1. opt.mode \in 0 .. Len(S.modes) - 1
      BY <1>1, WhatIsKnown DEF IInv, Tables
    <2>2. opt.mode \in Int
      BY <2>1
    <2> QED
      BY <1>1, <2>2, WhatIsKnown DEF ProperOptions
  <1>3. asked \in Int /\ size[i] = IF asked > 0 THEN asked ELSE said
    <2>1. i = 1 \/ i = 2
      OBVIOUS
    <2> QED
      BY <1>1, <1>2, <2>1 DEF AskedSize
  <1>4. \A r \in cells : /\ Once(u, r) /\ Sent(u, r) \in 0 .. 255
                         /\ Sent(AfterFps, r) = Sent(u, r) /\ Sent(regs, r) = Sent(AfterSize, r)
    BY SizesSpared
  <1>5. /\ S.name = "ov5647" /\ ~ (opt.mode = 4 /\ i = 2) => Value(u, reg, 2) % 4096 = said
        /\ S.name = "imx219" => Value(u, reg, 2) = said
    <2>1. opt.mode + 1 = 5 => opt.mode = 4
      BY <1>2
    <2> QED
      BY <1>2, <2>1, OfSizes DEF M
  <1>6. /\ S.name = "ov5647" => reg = IF i = 1 THEN 14344 ELSE 14346
        /\ S.name = "imx219" => reg = IF i = 1 THEN 364 ELSE 366
    BY DEF SizeOf
  <1>7. reg \in Nat
    BY <1>6 DEF SizeOf
  <1>8. Once(u, reg) /\ Once(u, reg + 1)
    BY <1>4
  <1>9. HasRegs(t, u)
    BY <1>1, <1>2, AllHaveRegs, PutKeeps
  <1>10. ASSUME S.name = "ov5647", asked < 4096, ~ (opt.mode = 4 /\ i = 2 /\ asked <= 0)
         PROVE  /\ Value(regs, reg, 2) % 4096 = size[i]
                /\ Sent(regs, reg) \div 16 = Sent(u, reg) \div 16
    <2>1. \A r \in cells : r \in IF i = 1 THEN {14344, 14345} ELSE {14346, 14347}
      BY <1>6, <1>10
    <2>2. \A r \in cells : Sent(t, r) = Sent(AfterFps, r)
      BY <1>1, <1>4, <2>1, SizeSteps
    <2>3. \A r \in cells : Sent(AfterSize, r) = Sent(Put(t, reg, asked), r)
      <3>1. CASE i = 1
        BY <1>1, <1>4, <1>6, <1>10, <2>1, <3>1, SizeSteps
      <3>2. CASE i = 2
        BY <1>1, <1>4, <1>6, <1>10, <2>1, <3>2, SizeSteps
      <3> QED
        BY <3>1, <3>2
    <2>4. BytesIn(t, cells) /\ SameIn(Put(t, reg, asked), regs, cells) /\ SameIn(u, t, cells)
      <3> HIDE DEF t, u, cells, asked, reg
      <3> QED
        BY <1>4, <2>2, <2>3 DEF BytesIn, SameIn
    <2>5. Sent(t, reg) = Sent(u, reg)
      BY <1>4, <2>2
    <2> HIDE DEF t, u, reg, asked, said
    <2>6. /\ asked > 0 => Value(regs, reg, 2) % 4096 = asked
          /\ asked <= 0 => Value(regs, reg, 2) = Value(t, reg, 2)
          /\ Sent(regs, reg) \div 16 = Sent(t, reg) \div 16
      BY <1>2, <1>3, <1>7, <1>8, <1>9, <1>10, <2>4, SizeArrives
    <2>7. Value(t, reg, 2) = Value(u, reg, 2)
      BY <1>4, <1>7, <2>2, PairSame
    <2> QED
      BY <1>3, <1>5, <1>10, <2>5, <2>6, <2>7
  <1>11. ASSUME S.name = "imx219", asked <= 0
         PROVE  Value(regs, reg, 2) = size[i]
    <2>1. \A r \in cells : r \notin SizeRegs
      BY <1>6, <1>11 DEF SizeRegs
    <2>2. \A r \in cells : Sent(regs, r) = Sent(u, r)
      BY <1>1, <1>4, <2>1, SizeSteps
    <2> HIDE DEF u, reg, asked, said
    <2>3. Value(regs, reg, 2) = Value(u, reg, 2)
      BY <1>4, <1>7, <2>2, PairSame
    <2> QED
      BY <1>3, <1>5, <1>11, <2>3
  <1> QED
    BY <1>10, <1>11

\* SizesHold, of any command line whose assignments of -regs leave the sizes' registers: the
\* receiver is told the size of the image that the sensor sends (raspiraw.c:1598-1629).
THEOREM SizesArrive == Spec => [](SizesAreSpared => SizesHold)
  <1>1. CInv => (SizesAreSpared => SizesHold)
    BY StartSizes DEF SizesHold, Done
  <1> QED
    BY TablesAreComposed, <1>1, PTL

-----------------------------------------------------------------------------
(* Which entries of a table an edit leaves *)

\* Whether modRegBit's search for the register ends at entry i of the mode's table
Finds(u, reg, i) == Where(u, reg) # {} /\ First(u, reg) = i
NoneFinds(u, R, i) == \A r \in R : ~ Finds(u, r, i)

\* The entries but the replaced one stay.
LEMMA OthersStay ==
    ASSUME NEW t, NEW u, HasRegs(t, u), NEW i \in 1 .. Len(u), NEW j, i # j, NEW v
    PROVE  Replaced(t, j, v)[i] = t[i]
  <1>1. i \in DOMAIN t
    BY DEF HasRegs
  <1> QED
    BY <1>1 DEF Replaced

\* modReg leaves the entries at which its search does not end (raspiraw.c:2365-2371).
LEMMA modRegLeaves ==
    ASSUME NEW t, NEW u \in Seq(Entry), HasRegs(t, u), NEW i \in 1 .. Len(u),
           NEW reg, ~ Finds(u, reg, i), NEW endBit, NEW value
    PROVE  modReg(t, reg, endBit, value)[i] = t[i]
  <1> DEFINE k == First(t, reg)
             m == 2^(endBit + 1)
             v == t[k].data - (t[k].data % m) + (value % m)
  <1>1. modReg(t, reg, endBit, value) = IF Where(t, reg) = {} THEN t ELSE Replaced(t, k, v)
    BY Zenon DEF modReg, Replaced
  <1>2. Where(t, reg) = Where(u, reg) /\ First(t, reg) = First(u, reg)
    BY WhereSame DEF First
  <1>3. Where(t, reg) # {} => k # i
    BY <1>2 DEF Finds
  <1> HIDE DEF k, v
  <1>4. k # i => Replaced(t, k, v)[i] = t[i]
    BY OthersStay
  <1> QED
    BY <1>1, <1>3, <1>4

\* So does a flip (raspiraw.c:2401-2416),
LEMMA XorBitLeaves ==
    ASSUME NEW t, NEW u \in Seq(Entry), HasRegs(t, u), NEW i \in 1 .. Len(u),
           NEW reg, ~ Finds(u, reg, i), NEW bit, NEW value
    PROVE  XorBit(t, reg, bit, value)[i] = t[i]
  <1> DEFINE k == First(t, reg)
             v == Toggle(t[k].data, bit)
  <1>1. XorBit(t, reg, bit, value) = IF value /\ Where(t, reg) # {} THEN Replaced(t, k, v) ELSE t
    BY Zenon DEF XorBit, Replaced
  <1>2. Where(t, reg) = Where(u, reg) /\ First(t, reg) = First(u, reg)
    BY WhereSame DEF First
  <1>3. Where(t, reg) # {} => k # i
    BY <1>2 DEF Finds
  <1> HIDE DEF k, v
  <1>4. k # i => Replaced(t, k, v)[i] = t[i]
    BY OthersStay
  <1> QED
    BY <1>1, <1>3, <1>4, Zenon

\* -fps (raspiraw.c:1595-1596),
LEMMA PairLeaves ==
    ASSUME NEW t, NEW u \in Seq(Entry), HasRegs(t, u), NEW i \in 1 .. Len(u),
           NEW reg \in Int, NoneFinds(u, {reg, reg + 1}, i), NEW endBit, NEW value
    PROVE  Pair(t, reg, endBit, value)[i] = t[i]
  <1>1. PICK w, next : w = modReg(t, reg, endBit, value \div 256) /\ next = reg + 1
    OBVIOUS
  <1>4. ~ Finds(u, reg, i) /\ ~ Finds(u, next, i)
    BY <1>1 DEF NoneFinds
  <1>2. HasRegs(w, u) /\ w[i] = t[i]
    BY <1>1, <1>4, modRegKeeps, modRegLeaves
  <1>3. modReg(w, next, 7, value)[i] = w[i]
    BY <1>2, <1>4, modRegLeaves
  <1> QED
    BY <1>1, <1>2, <1>3 DEF Pair

\* a size or position option (raspiraw.c:1603-1629),
LEMMA PutLeaves ==
    ASSUME NEW t, NEW u \in Seq(Entry), HasRegs(t, u), NEW i \in 1 .. Len(u),
           NEW reg \in Int, NoneFinds(u, {reg, reg + 1}, i), NEW value
    PROVE  Put(t, reg, value)[i] = t[i]
  BY PairLeaves DEF Put

\* a list of assignments (raspiraw.c:1555-1578),
LEMMA modRegsLeaves ==
    ASSUME NEW t, NEW u \in Seq(Entry), HasRegs(t, u), NEW i \in 1 .. Len(u),
           NEW list, Len(list) \in Nat, \A j \in 1 .. Len(list) : ~ Finds(u, list[j].reg, i)
    PROVE  modRegs(t, list)[i] = t[i]
  <1> DEFINE n == Len(list)
             f == CHOOSE g : IsLoop(t, list, n, g)
             good(j) == HasRegs(f[j], u) /\ f[j][i] = t[i]
             bad == {j \in 0 .. n : ~ good(j)}
  <1>1. IsLoop(t, list, n, f)
    BY LoopExists, Zenon
  <1>2. modRegs(t, list) = f[n]
    BY DEF modRegs, IsLoop, Edited
  <1> HIDE DEF f
  <1>3. \A j \in 0 .. n : f[j] = Edited(t, list, f, j)
    BY <1>1 DEF IsLoop
  <1> HIDE DEF n
  <1>n. n \in Nat /\ 0 \in 0 .. n
    BY DEF n
  <1>4. 0 \notin bad
    BY <1>3, <1>n DEF Edited
  <1>5. ASSUME NEW j \in 0 .. n, j # 0, good(j - 1)
        PROVE  good(j)
    <2>1. PICK prev, reg, data : prev = f[j - 1] /\ reg = list[j].reg /\ data = list[j].data
      OBVIOUS
    <2>2. f[j] = modReg(prev, reg, 7, data)
      BY <1>3, <1>5, <2>1 DEF Edited
    <2>3. HasRegs(prev, u) /\ prev[i] = t[i]
      BY <1>5, <2>1
    <2>4. ~ Finds(u, reg, i)
      BY <1>5, <1>n, <2>1 DEF n
    <2>5. HasRegs(f[j], u)
      BY <2>2, <2>3, modRegKeeps
    <2>6. f[j][i] = t[i]
      BY <2>2, <2>3, <2>4, modRegLeaves
    <2> QED
      BY <2>5, <2>6
  <1> HIDE DEF good
  <1>6. bad = {}
    <2>1. bad \in SUBSET Nat
      BY <1>n
    <2>2. ASSUME NEW j \in bad PROVE j # 0 /\ j - 1 \in bad
      <3>1. j \in 0 .. n /\ ~ good(j) /\ j # 0
        BY <1>4
      <3>2. j - 1 \in 0 .. n
        BY <3>1, <1>n
      <3>3. ~ good(j - 1)
        BY <1>5, <3>1
      <3> QED
        BY <3>1, <3>2, <3>3
    <2> HIDE DEF bad
    <2> QED
      BY <2>1, <2>2, NoFirst
  <1>7. good(n)
    <2>1. n \in 0 .. n
      BY <1>n
    <2> QED
      BY <1>6, <2>1
  <1> QED
    BY <1>2, <1>7 DEF good

\* and a field of update_regs (raspiraw.c:2425-2434).
LEMMA FieldLeaves ==
    ASSUME NEW t, NEW u \in Seq(Entry), HasRegs(t, u), NEW i \in 1 .. Len(u),
           NEW f, f.reg \in Nat, f.reg # 0, f.bits \in Nat,
           NoneFinds(u, Regs(f), i), NEW value
    PROVE  Field(t, f.reg, f.bits, value)[i] = t[i]
  <1> DEFINE reg == f.reg
             n == Count(f.bits)
             list == [j \in 1 .. n |-> [reg |-> reg + j - 1, data |-> value \div 2^(8 * (n - j))]]
  <1>1. n \in Nat
    BY DEF Count
  <1>2. Field(t, f.reg, f.bits, value) = modRegs(t, list)
    BY DEF Field
  <1>3. \A r \in reg .. reg + n - 1 : ~ Finds(u, r, i)
    BY DEF Regs, NoneFinds
  <1>4. reg \in Nat
    OBVIOUS
  <1> HIDE DEF n, reg
  <1>5. Len(list) = n
    BY <1>1
  <1>6. \A j \in 1 .. n : list[j].reg = reg + j - 1 /\ reg + j - 1 \in reg .. reg + n - 1
    BY <1>1, <1>4
  <1> HIDE DEF list
  <1>7. \A j \in 1 .. Len(list) : ~ Finds(u, list[j].reg, i)
    <2>1. ASSUME NEW j \in 1 .. n
          PROVE  ~ Finds(u, list[j].reg, i)
      <3>1. PICK r \in reg .. reg + n - 1 : r = list[j].reg
        BY <1>6
      <3>2. ~ Finds(u, r, i)
        BY <1>3
      <3> QED
        BY <3>1, <3>2
    <2> QED
      BY <1>5, <2>1
  <1> QED
    BY <1>1, <1>2, <1>5, <1>7, modRegsLeaves

\* An entry that none of main's edits finds reaches the sensor as the mode's table has it.
LEMMA TableLeaves ==
    ASSUME IInv, pc \in Editing, NEW i \in 1 .. Len(M.regs),
           \A j \in 1 .. Len(opt.edits) : ~ Finds(M.regs, opt.edits[j].reg, i),
           \A p \in 1 .. 5 : NoneFinds(M.regs, Ports(S)[p], i)
    PROVE  AfterGain[i] = M.regs[i]
  <1>1. PICK u : u = M.regs
    OBVIOUS
  <1>2. /\ u \in Seq(Entry) /\ HasRegs(u, u) /\ HasRegs(AfterRegs, u) /\ HasRegs(AfterFps, u)
        /\ HasRegs(AfterSize, u) /\ HasRegs(AfterVFlip, u) /\ HasRegs(AfterHFlip, u)
        /\ HasRegs(AfterExposure, u) /\ HasRegs(AfterVts, u)
    BY <1>1, AllHaveRegs
  <1>3. ProperSensor(S) /\ ProperPorts(S) /\ ProperOptions(opt)
    BY WhatIsKnown
  <1>4. \A f \in {S.exposure, S.vts, S.gain} : f.reg \in Nat /\ f.bits \in Nat
    BY <1>3, OfASensor, OfPorts
  <1>5. i \in 1 .. Len(u)
    BY <1>1
  <1>6. /\ NoneFinds(u, FlipRegs(S), i) /\ NoneFinds(u, Regs(S.exposure), i)
        /\ NoneFinds(u, Regs(S.gain), i) /\ NoneFinds(u, FpsRegs(S), i)
        /\ NoneFinds(u, SizeRegs, i)
    <2> DEFINE p == Ports(S)
    <2>1. /\ p[1] = FlipRegs(S) /\ p[2] = Regs(S.exposure) /\ p[3] = Regs(S.gain)
          /\ p[4] = FpsRegs(S) /\ p[5] = SizeRegs
      BY DEF Ports
    <2>2. \A k \in 1 .. 5 : NoneFinds(u, p[k], i)
      BY <1>1
    <2> HIDE DEF p
    <2>3. /\ NoneFinds(u, p[1], i) /\ NoneFinds(u, p[2], i) /\ NoneFinds(u, p[3], i)
          /\ NoneFinds(u, p[4], i) /\ NoneFinds(u, p[5], i)
      BY <2>2
    <2> QED
      BY <2>1, <2>3
  <1>7. AfterRegs[i] = u[i]
    <2>1. Len(opt.edits) \in Nat
      BY <1>3 DEF ProperOptions
    <2> QED
      BY <1>1, <1>2, <1>5, <2>1, modRegsLeaves DEF AfterRegs
  <1>8. AfterFps[i] = AfterRegs[i]
    <2>1. NoneFinds(u, {S.vts.reg, S.vts.reg + 1}, i) /\ S.vts.reg \in Int
      BY <1>4, <1>6 DEF FpsRegs
    <2>2. Pair(AfterRegs, S.vts.reg, 7, FrameTime)[i] = AfterRegs[i]
      BY <1>2, <1>5, <2>1, PairLeaves
    <2> QED
      BY <2>2 DEF AfterFps
  <1>9. AfterSize[i] = AfterFps[i]
    <2>1. PICK a, b, c : /\ a = Put(AfterFps, 14344, opt.width)
                         /\ b = Put(a, 14346, opt.height)
                         /\ c = Put(b, 14336, opt.left * Unit)
      OBVIOUS
    <2>2. HasRegs(a, u) /\ HasRegs(b, u) /\ HasRegs(c, u)
      BY <1>2, <2>1, PutKeeps
    <2>3. /\ NoneFinds(u, {14336, 14336 + 1}, i) /\ NoneFinds(u, {14338, 14338 + 1}, i)
          /\ NoneFinds(u, {14344, 14344 + 1}, i) /\ NoneFinds(u, {14346, 14346 + 1}, i)
      BY <1>6 DEF SizeRegs, NoneFinds
    <2>4. a[i] = AfterFps[i]
      BY <1>2, <1>5, <2>1, <2>3, PutLeaves
    <2>5. b[i] = a[i]
      BY <1>2, <1>5, <2>1, <2>2, <2>3, PutLeaves
    <2>6. c[i] = b[i]
      BY <1>2, <1>5, <2>1, <2>2, <2>3, PutLeaves
    <2>7. Put(c, 14338, opt.top * Unit)[i] = c[i]
      BY <1>2, <1>5, <2>2, <2>3, PutLeaves
    <2> QED
      BY <2>1, <2>4, <2>5, <2>6, <2>7 DEF AfterSize
  <1>10. AfterVFlip[i] = AfterSize[i]
    <2>1. S.vflip.reg # 0 => ~ Finds(u, S.vflip.reg, i)
      BY <1>6 DEF FlipRegs, NoneFinds
    <2> QED
      BY <1>2, <1>5, <2>1, XorBitLeaves DEF AfterVFlip
  <1>11. AfterHFlip[i] = AfterVFlip[i]
    <2>1. S.hflip.reg # 0 => ~ Finds(u, S.hflip.reg, i)
      BY <1>6 DEF FlipRegs, NoneFinds
    <2> QED
      BY <1>2, <1>5, <2>1, XorBitLeaves DEF AfterHFlip
  <1>12. AfterExposure[i] = AfterHFlip[i]
    <2>1. ASSUME S.exposure.reg # 0
          PROVE  Field(AfterHFlip, S.exposure.reg, S.exposure.bits, exposure)[i] = AfterHFlip[i]
      <3>1. PICK f, t, e : f = S.exposure /\ t = AfterHFlip /\ e = exposure
        OBVIOUS
      <3>4. HasRegs(t, u) /\ u \in Seq(Entry)
        BY <1>2, <3>1
      <3>2. f.reg \in Nat /\ f.reg # 0 /\ f.bits \in Nat /\ NoneFinds(u, Regs(f), i)
        BY <1>4, <1>6, <2>1, <3>1
      <3>3. Field(t, f.reg, f.bits, e)[i] = t[i]
        BY ONLY <1>5, <3>2, <3>4, FieldLeaves
      <3> QED
        BY <3>1, <3>3
    <2> QED
      BY <2>1 DEF AfterExposure
  <1>13. AfterVts[i] = AfterExposure[i]
    <2>1. S.vts.reg # 0 => NoneFinds(u, Regs(S.vts), i)
      BY <1>3, <1>6, TwoBytes
    <2>2. ASSUME S.vts.reg # 0
          PROVE  Field(AfterExposure, S.vts.reg, S.vts.bits, exposure)[i] = AfterExposure[i]
      <3>1. PICK f, t, e : f = S.vts /\ t = AfterExposure /\ e = exposure
        OBVIOUS
      <3>4. HasRegs(t, u) /\ u \in Seq(Entry)
        BY <1>2, <3>1
      <3>2. f.reg \in Nat /\ f.reg # 0 /\ f.bits \in Nat /\ NoneFinds(u, Regs(f), i)
        BY <1>4, <2>1, <2>2, <3>1
      <3>3. Field(t, f.reg, f.bits, e)[i] = t[i]
        BY ONLY <1>5, <3>2, <3>4, FieldLeaves
      <3> QED
        BY <3>1, <3>3
    <2> QED
      BY <2>2 DEF AfterVts, FrameFollows
  <1>14. AfterGain[i] = AfterVts[i]
    <2>1. ASSUME S.gain.reg # 0
          PROVE  Field(AfterVts, S.gain.reg, S.gain.bits, opt.gain)[i] = AfterVts[i]
      <3>1. PICK f : f = S.gain
        OBVIOUS
      <3>2. f.reg \in Nat /\ f.reg # 0 /\ f.bits \in Nat /\ NoneFinds(u, Regs(f), i)
        BY <1>4, <1>6, <2>1, <3>1
      <3>3. Field(AfterVts, f.reg, f.bits, opt.gain)[i] = AfterVts[i]
        BY <1>2, <1>5, <3>2, FieldLeaves, SMTT(30)
      <3> QED
        BY <3>1, <3>3
    <2> QED
      BY <2>1 DEF AfterGain
  <1> QED
    BY <1>1, <1>7, <1>8, <1>9, <1>10, <1>11, <1>12, <1>13, <1>14

-----------------------------------------------------------------------------
(* What the sensor holds after a whole table was sent (send_regs, 401-443) *)

\* A set of places in a table has its greatest element.
LEMMA GreatestIsIn ==
    ASSUME NEW n \in Nat, NEW W \in SUBSET (1 .. n), W # {}
    PROVE  (CHOOSE i \in W : \A j \in W : j <= i) \in W
  <1> DEFINE V == {n - i : i \in W}
  <1>1. V \in SUBSET Nat /\ V # {}
    <2>1. \A i \in W : i \in 1 .. n /\ n - i \in Nat
      OBVIOUS
    <2>2. PICK i \in W : TRUE
      OBVIOUS
    <2>3. n - i \in V
      OBVIOUS
    <2> QED
      BY <2>1, <2>3
  <1>2. PICK x \in V : \A y \in V : ~ (<<y, x>> \in OpToRel(<, Nat))
    BY <1>1, NatLessThanWellFounded, WFMin
  <1>3. PICK k \in W : x = n - k
    OBVIOUS
  <1>4. ASSUME NEW j \in W PROVE j <= k
    <2>1. n - j \in V /\ n - j \in Nat /\ x \in Nat
      BY <1>1
    <2>2. ~ (n - j < x)
      BY <1>2, <2>1 DEF OpToRel
    <2> QED
      BY <1>3, <2>2
  <1> QED
    BY <1>4

\* Two tables with the same registers, and the same data in the entries that matter to the
\* stream, leave the same in the cells that tell whether it streams.
SameEntries(t, u, I) == \A i \in I : t[i] = u[i]

\* Tables with the same changes of address address the same slave (raspiraw.c:394-400),
LEMMA SameSlave ==
    ASSUME NEW t, NEW u \in Seq(Entry), HasRegs(t, u), NEW addr, NEW i \in 1 .. Len(u),
           SameEntries(t, u, {j \in 1 .. Len(u) : u[j].reg = SetSlave})
    PROVE  Slave(t, addr, i, {}) = Slave(u, addr, i, {})
  <1> DEFINE Set(w) == {j \in 1 .. i - 1 : w[j].reg = SetSlave /\ j \notin {}}
             k == CHOOSE j \in Set(u) : \A l \in Set(u) : l <= j
  <1>1. Len(u) \in Nat /\ i - 1 \in Nat /\ 1 .. i - 1 \subseteq 1 .. Len(u)
    OBVIOUS
  <1>2. Set(t) = Set(u)
    BY <1>1 DEF HasRegs
  <1>3. Set(u) # {} => k \in Set(u)
    <2>1. Set(u) \in SUBSET (1 .. i - 1)
      OBVIOUS
    <2> HIDE DEF Set
    <2> QED
      BY <1>1, <2>1, GreatestIsIn
  <1>4. Set(u) # {} => t[k] = u[k]
    <2> HIDE DEF k
    <2> QED
      BY <1>1, <1>3 DEF SameEntries
  <1>5. \A w : Slave(w, addr, i, {}) = IF Set(w) = {} THEN addr
                 ELSE w[CHOOSE j \in Set(w) : \A l \in Set(w) : l <= j].data
    BY DEF Slave
  <1> HIDE DEF Set
  <1> QED
    BY <1>2, <1>4, <1>5

\* write to a cell at the same places,
LEMMA SameHits ==
    ASSUME NEW s, NEW t, NEW u \in Seq(Entry), HasRegs(t, u), NEW c,
           SameEntries(t, u, {j \in 1 .. Len(u) : u[j].reg = SetSlave})
    PROVE  Hits(s, t, Len(u), {}, c) = Hits(s, u, Len(u), {}, c)
  <1>1. ASSUME NEW i \in 1 .. Len(u)
        PROVE  /\ IsWrite(t[i]) <=> IsWrite(u[i])
               /\ CellReg(s, t[i].reg) = CellReg(s, u[i].reg)
               /\ Slave(t, s.addr, i, {}) = Slave(u, s.addr, i, {})
    <2>1. t[i].reg = u[i].reg
      BY DEF HasRegs
    <2>2. Slave(t, s.addr, i, {}) = Slave(u, s.addr, i, {})
      BY SameSlave
    <2> QED
      BY <2>1, <2>2 DEF IsWrite
  <1> QED
    BY <1>1, Zenon DEF Hits

\* and, if the entries that start the stream are the same, leave the same in its cells.
LEMMA SameCell ==
    ASSUME NEW s, NEW t, NEW u \in Seq(Entry), HasRegs(t, u), NEW c \in DOMAIN StreamCells(s),
           SameEntries(t, u, StreamEntries(s, u)), Decides(s, u), NEW old
    PROVE  CellAfter(s, t, Len(u), {}, c, old) = Written(s, u)[c]
  <1> DEFINE h == Hits(s, u, Len(u), {}, c)
             k == CHOOSE i \in h : \A j \in h : j <= i
  <1>1. h # {}
    BY DEF Decides
  <1>2. h \in SUBSET (1 .. Len(u)) /\ Len(u) \in Nat
    BY DEF Hits
  <1>3. h \subseteq StreamEntries(s, u)
    BY DEF StreamEntries
  <1>4. Hits(s, t, Len(u), {}, c) = h
    <2>1. SameEntries(t, u, {j \in 1 .. Len(u) : u[j].reg = SetSlave})
      BY DEF SameEntries, StreamEntries
    <2> QED
      BY <2>1, SameHits
  <1>5. k \in h
    <2> HIDE DEF h
    <2> QED
      BY <1>1, <1>2, GreatestIsIn
  <1>6. t[k] = u[k]
    <2> HIDE DEF h, k
    <2> QED
      BY <1>3, <1>5 DEF SameEntries
  <1>7. CellAfter(s, t, Len(u), {}, c, old) = CellData(s, t[k].data)
    <2> HIDE DEF h
    <2> QED
      BY <1>1, <1>4, Zenon DEF CellAfter
  <1>8. CellAfter(s, u, Len(u), {}, c, 0) = CellData(s, u[k].data)
    <2>1. CellAfter(s, u, Len(u), {}, c, 0) = IF h = {} THEN 0 ELSE CellData(s, u[k].data)
      BY Zenon DEF CellAfter
    <2> HIDE DEF h
    <2> QED
      BY <1>1, <2>1
  <1>9. Written(s, u)[c] = CellAfter(s, u, Len(u), {}, c, 0)
    BY DEF Written
  <1> HIDE DEF k
  <1> QED
    BY <1>6, <1>7, <1>8, <1>9

\* Whether a sensor streams is told by its cells.
LEMMA SameStream ==
    ASSUME NEW s, s.name \in {"ov5647", "imx219", "ar0144", "adv7282"}, NEW m, NEW w,
           \A c \in DOMAIN StreamCells(s) : m[c] = w[c]
    PROVE  Streaming(s, m) <=> Streaming(s, w)
  <1>1. CASE s.name \in {"ov5647", "imx219"}
    <2>1. DOMAIN StreamCells(s) = {<<s.addr, 256>>}
      BY <1>1 DEF StreamCells
    <2>2. m[<<s.addr, 256>>] = w[<<s.addr, 256>>]
      BY <2>1
    <2> QED
      BY <1>1, <2>2 DEF Streaming
  <1>2. CASE s.name = "ar0144"
    <2>1. DOMAIN StreamCells(s) = {<<s.addr, 12314>>}
      BY <1>2 DEF StreamCells
    <2>2. m[<<s.addr, 12314>>] = w[<<s.addr, 12314>>]
      BY <2>1
    <2> QED
      BY <1>2, <2>2 DEF Streaming
  <1>3. CASE s.name = "adv7282"
    <2>1. DOMAIN StreamCells(s) = {<<s.addr, 15>>, <<68, 0>>}
      BY <1>3 DEF StreamCells
    <2>2. m[<<s.addr, 15>>] = w[<<s.addr, 15>>] /\ m[<<68, 0>>] = w[<<68, 0>>]
      BY <2>1
    <2> QED
      BY <1>3, <2>2 DEF Streaming
  <1> QED
    BY <1>1, <1>2, <1>3

-----------------------------------------------------------------------------
(* Start and stop *)

\* The assignments of -regs leave the entries that start the stream.
StreamIsSpared == \A j \in 1 .. Len(opt.edits) : ~ EditsStream(S, M.regs, opt.edits[j].reg)

\* The sensor's tables start and stop its stream.
LEMMA OfStreams ==
    ASSUME IInv, attached # 0
    PROVE  /\ A.name \in {"ov5647", "imx219", "ar0144", "adv7282"}
           /\ Decides(A, A.stop) /\ ~ Streaming(A, Written(A, A.stop))
           /\ \A k \in 1 .. Len(A.modes) :
                 A.modes[k].regs # <<>> =>
                     /\ Decides(A, A.modes[k].regs)
                     /\ Streaming(A, Written(A, A.modes[k].regs))
                     /\ \A p \in 1 .. 5 : \A r \in Ports(A)[p] :
                           ~ EditsStream(A, A.modes[k].regs, r)
  <1>1. ProperStream(A)
    BY Attached, StreamsAssumption DEF IInv, A
  <1> QED
    BY <1>1, Zenon DEF ProperStream

\* The entries that start the stream are as the mode's table has them.
LEMMA StreamStays ==
    ASSUME CInv, pc \in {"start", "restart"}, M.regs # <<>>, StreamIsSpared
    PROVE  /\ SameEntries(regs, M.regs, StreamEntries(S, M.regs))
           /\ Decides(S, M.regs) /\ Streaming(S, Written(S, M.regs))
  <1>1. IInv /\ pc \in Editing /\ regs = AfterGain
    BY DEF CInv, Composed, Editing
  <1>2. sensor = attached /\ attached # 0 /\ S = A
    BY <1>1 DEF IInv, Chosen, Editing, S, A
  <1>3. PICK u, k : u = M.regs /\ k = opt.mode + 1
    OBVIOUS
  <1>4. k \in 1 .. Len(A.modes) /\ u = A.modes[k].regs
    <2>1. opt.mode \in 0 .. Len(A.modes) - 1
      BY <1>1, <1>2 DEF IInv, Tables
    <2>2. Len(A.modes) \in Nat
      BY <1>1, <1>2, WhatIsKnown, OfASensor, Zenon
    <2>3. k \in 1 .. Len(A.modes)
      <3> DEFINE n == Len(A.modes)
      <3> HIDE DEF n
      <3>1. opt.mode \in 0 .. n - 1 /\ n \in Nat
        BY <2>1, <2>2 DEF n
      <3>2. k \in 1 .. n
        BY <1>3, <3>1
      <3> QED
        BY <3>2 DEF n
    <2> QED
      BY <1>2, <1>3, <2>3 DEF M
  <1>5. /\ Decides(A, u) /\ Streaming(A, Written(A, u))
        /\ \A p \in 1 .. 5 : \A r \in Ports(A)[p] : ~ EditsStream(A, u, r)
    BY <1>1, <1>2, <1>3, <1>4, OfStreams
  <1>6. ASSUME NEW i \in StreamEntries(A, u)
        PROVE  regs[i] = u[i]
    <2>1. i \in 1 .. Len(M.regs)
      BY <1>3 DEF StreamEntries, Hits
    <2>2. \A r : ~ EditsStream(A, u, r) => ~ Finds(u, r, i)
      BY DEF EditsStream, Finds
    <2>3. \A j \in 1 .. Len(opt.edits) : ~ Finds(u, opt.edits[j].reg, i)
      BY <1>2, <1>3, <2>2 DEF StreamIsSpared
    <2>4. \A p \in 1 .. 5 : NoneFinds(u, Ports(S)[p], i)
      BY <1>2, <1>5, <2>2 DEF NoneFinds
    <2>5. AfterGain[i] = M.regs[i]
      BY <1>1, <1>3, <2>1, <2>3, <2>4, TableLeaves
    <2> QED
      BY <1>1, <1>3, <2>5
  <1> QED
    BY <1>2, <1>3, <1>5, <1>6 DEF SameEntries

\* A table that was sent without a failure decides the cells.
LEMMA SentCells ==
    ASSUME IInv, attached # 0, NEW t, NEW u \in Seq(Entry), HasRegs(t, u),
           SameEntries(t, u, StreamEntries(A, u)), Decides(A, u),
           NEW m, m = [c \in DOMAIN mem |-> CellAfter(A, t, Len(u), {}, c, mem[c])]
    PROVE  Streaming(A, m) <=> Streaming(A, Written(A, u))
  <1>1. DOMAIN StreamCells(A) \subseteq DOMAIN mem
    BY DEF IInv, Identified
  <1>2. ASSUME NEW c \in DOMAIN StreamCells(A)
        PROVE  m[c] = Written(A, u)[c]
    <2>1. m[c] = CellAfter(A, t, Len(u), {}, c, mem[c])
      BY <1>1
    <2> QED
      BY <2>1, SameCell
  <1>3. A.name \in {"ov5647", "imx219", "ar0144", "adv7282"}
    BY OfStreams
  <1>4. PICK s, w : s = A /\ w = Written(A, u)
    OBVIOUS
  <1>5. /\ s.name \in {"ov5647", "imx219", "ar0144", "adv7282"}
        /\ \A c \in DOMAIN StreamCells(s) : m[c] = w[c]
    BY <1>2, <1>3, <1>4
  <1>6. Streaming(s, m) <=> Streaming(s, w)
    BY ONLY <1>5, SameStream
  <1> QED
    BY <1>4, <1>6

\* A start whose transfers arrive starts the stream (raspiraw.c:445-462), the second as the
\* first (2257, 2266).
LEMMA StartStreams ==
    ASSUME CInv, Start, clean', regs # <<>>, StreamIsSpared
    PROVE  Streaming(A, mem')
  <1>1. pc \in {"start", "restart"} /\ IInv /\ pc \in Editing
    BY DEF Start, CInv, Editing
  <1>2. attached # 0 /\ S = A
    BY <1>1 DEF IInv, Chosen, S, A
  <1>3. PICK u : u = M.regs
    OBVIOUS
  <1>4. u \in Seq(Entry) /\ HasRegs(regs, u)
    BY <1>1, <1>3, WhatIsKnown
  <1>5. Len(regs) = Len(u)
    BY <1>4, WhereSame
  <1>6. mem' = AfterSending(S, regs, Len(regs), {})
    <2>1. PICK bad \in Failures(S, regs) :
              \/ /\ mem' = AfterSending(S, regs, Len(regs), bad)
                 /\ clean' = (bad = {}) /\ orderly' = FALSE /\ pc' = Started[pc]
              \/ \E n \in {0} \cup Matters(S, regs) :
                    /\ mem' = AfterSending(S, regs, n, bad)
                    /\ clean' = FALSE /\ orderly' = FALSE /\ pc' = "off"
      BY Zenon DEF Start
    <2> QED
      BY <2>1
  <1>7. M.regs # <<>>
    <2>1. u = <<>> => regs = <<>>
      BY <1>4 DEF HasRegs
    <2> QED
      BY <1>3, <2>1
  <1>8. SameEntries(regs, u, StreamEntries(A, u)) /\ Decides(A, u) /\ Streaming(A, Written(A, u))
    BY <1>1, <1>2, <1>3, <1>7, StreamStays
  <1>9. PICK m : m = [c \in DOMAIN mem |-> CellAfter(A, regs, Len(u), {}, c, mem[c])]
    OBVIOUS
  <1>10. mem' = m
    BY <1>2, <1>5, <1>6, <1>9 DEF AfterSending
  <1>11. Streaming(A, m) <=> Streaming(A, Written(A, u))
    BY <1>1, <1>2, <1>4, <1>8, <1>9, SentCells
  <1> QED
    BY <1>8, <1>10, <1>11

\* A stop whose transfers arrive ends it (raspiraw.c:464-480).
LEMMA StopStops ==
    ASSUME IInv, Stop, clean'
    PROVE  ~ Streaming(A, mem')
  <1>1. sensor = attached /\ attached # 0 /\ S = A /\ ProperSensor(A)
    BY Attached DEF Stop, IInv, Chosen, S, A
  <1>2. mem' = AfterSending(S, S.stop, Len(S.stop), {})
    <2>1. PICK bad, n : /\ mem' = AfterSending(S, S.stop, n, bad)
                        /\ clean' => bad = {} /\ n = Len(S.stop)
      BY Zenon DEF Stop
    <2> QED
      BY <2>1
  <1>3. PICK u : u = A.stop
    OBVIOUS
  <1>4. u \in Seq(Entry) /\ HasRegs(u, u)
    BY <1>1, <1>3, StopTable, HasOwnRegs
  <1>5. Decides(A, u) /\ ~ Streaming(A, Written(A, u))
    BY <1>1, <1>3, OfStreams
  <1>6. SameEntries(u, u, StreamEntries(A, u))
    BY DEF SameEntries
  <1>7. PICK m : m = [c \in DOMAIN mem |-> CellAfter(A, u, Len(u), {}, c, mem[c])]
    OBVIOUS
  <1>8. mem' = m
    BY <1>1, <1>2, <1>3, <1>7 DEF AfterSending
  <1>9. Streaming(A, m) <=> Streaming(A, Written(A, u))
    BY <1>1, <1>4, <1>5, <1>6, <1>7, SentCells
  <1> QED
    BY <1>5, <1>8, <1>9

\* The stream after a start or a stop without a failed transfer
Flows ==
    clean => /\ pc \in {"streaming", "restreaming"} /\ regs # <<>> /\ StreamIsSpared =>
                    Streaming(A, mem)
             /\ pc \in {"restart", "stopped"} => ~ Streaming(A, mem)

\* In between no action but these writes to the sensor.
LEMMA FlowsKeeps == CInv /\ Flows /\ [Next]_vars => Flows'
  <1> SUFFICES ASSUME CInv, Flows, [Next]_vars PROVE Flows'
    OBVIOUS
  <1>1. CASE Probe
    <2>1. pc' \in {"ended", "mode"}
      BY <1>1 DEF Probe
    <2> QED
      BY <2>1 DEF Flows
  <1>2. CASE EditStep /\ UNCHANGED bus
    <2>1. pc' \notin {"streaming", "restreaming", "restart", "stopped"}
      <3>1. EditRegs \/ SetFps \/ SetSize \/ SetVFlip \/ SetHFlip \/ SetExposure \/ SetVts
              \/ SetGain =>
                pc' \in {"fps", "size", "depth", "hflip", "exposure", "vts", "gain", "encoding"}
        BY DEF EditRegs, SetFps, SetSize, SetVFlip, SetHFlip, SetExposure, SetVts, SetGain, Step
      <3>2. ChooseMode => pc' \in {"regs", "ended"}
        BY DEF ChooseMode
      <3>3. SetDepth => pc' \in {"ended", "expus"}
        BY DEF SetDepth
      <3>4. SetExposureUs => pc' \in {"vflip", "ended"}
        BY DEF SetExposureUs
      <3>5. SetEncoding => pc' \in {"start", "ended"}
        BY DEF SetEncoding
      <3> QED
        BY <1>2, <3>1, <3>2, <3>3, <3>4, <3>5 DEF EditStep
    <2> QED
      BY <2>1 DEF Flows
  <1>3. CASE Start
    <2>1. UNCHANGED <<sensor, opt, regs, attached>> /\ pc' \in {"streaming", "restreaming", "off"}
      BY <1>3 DEF Start, Started, edited
    <2>2. A' = A /\ (StreamIsSpared' <=> StreamIsSpared)
      BY <2>1 DEF A, StreamIsSpared, S, M
    <2>3. clean' /\ regs # <<>> /\ StreamIsSpared => Streaming(A, mem')
      BY <1>3, StartStreams
    <2>4. Streaming(A, mem)' <=> Streaming(A, mem')
      BY <2>2 DEF Streaming
    <2> QED
      BY <2>1, <2>2, <2>3, <2>4 DEF Flows
  <1>4. CASE Stop
    <2>1. UNCHANGED attached /\ pc' \in {"restart", "stopped", "off"}
      BY <1>4 DEF Stop, Stopped
    <2>2. clean' => ~ Streaming(A, mem')
      BY <1>4, StopStops DEF CInv
    <2>3. Streaming(A, mem)' <=> Streaming(A, mem')
      BY <2>1 DEF Streaming, A
    <2> QED
      BY <2>1, <2>2, <2>3 DEF Flows
  <1>5. CASE Kill
    BY <1>5 DEF Kill, Flows
  <1>6. CASE Again
    BY <1>6 DEF Again, Flows
  <1>7. CASE UNCHANGED vars
    <2>1. UNCHANGED <<sensor, opt, regs, pc, attached, mem, clean>>
      BY <1>7 DEF vars, bus, edited
    <2> QED
      BY <2>1 DEF Flows, A, StreamIsSpared, S, M, Streaming
  <1> QED
    BY <1>1, <1>2, <1>3, <1>4, <1>5, <1>6, <1>7 DEF Next

\* StreamsAsTold, of any command line whose assignments of -regs leave the entries that start
\* the stream: a start whose transfers all arrived makes the sensor stream, whatever the other
\* options did to the table and an earlier invocation left in the sensor, and a stop whose
\* transfers arrived ends that, even if the start was cut off (raspiraw.c:401-480).  So do the
\* second start and the second stop of an invocation, whether or not those before them arrived
\* (2257-2271).
THEOREM TheSensorStreamsAsTold == Spec => [](StreamIsSpared => StreamsAsTold)
  <1>1. Init => Flows
    BY DEF Init, Flows
  <1>2. CInv /\ Flows /\ [Next]_vars => Flows'
    BY FlowsKeeps
  <1>3. Flows => (StreamIsSpared => StreamsAsTold)
    BY DEF Flows, StreamsAsTold, A
  <1> QED
    BY TablesAreComposed, <1>1, <1>2, <1>3, PTL DEF Spec
=============================================================================
