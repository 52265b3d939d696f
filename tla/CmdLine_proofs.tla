---------------------------- MODULE CmdLine_proofs ----------------------------
(***************************************************************************)
(* Proofs about the command line, for lines of any length: what is accepted *)
(* has no stray word, and a proper line is honoured in full.               *)
(***************************************************************************)
EXTENDS CmdLine, TLAPS

-----------------------------------------------------------------------------
(* The inductive invariant *)

TypeOK == /\ argv \in Lines
          /\ i \in 1 .. Len(argv) + 2
          /\ valid \in BOOLEAN
          /\ cfg \in [Options -> AllWords \cup {"unset", "set", "255"}]
          /\ full \in {0, 1}
          /\ result \in {"running", "ok", "invalid", "help", "undefined"}

\* The word at k is where it may be (as in NothingStray).
Belongs(k) ==
    argv[k] \in Values \cup {"-bogus"} =>
        k > 1 /\ argv[k - 1] \in Texts \cup {"-p", "-fs"}
                       \cup (IF argv[k] \in Numbers THEN HasValue ELSE {})

\* As long as the line is valid each word that was stepped over belongs where it is.
NoneStray == valid => \A k \in 1 .. Len(argv) : k < i => Belongs(k)

Ended == result = "ok" => valid /\ i > Len(argv)

\* k is the last place before n where o is given.
LastBefore(o, n, k) == /\ k < n
                       /\ argv[k] = o
                       /\ \A j \in 1 .. Len(argv) : k < j /\ j < n => argv[j] # o

\* What the option o at the place k asks for.
Meant(o, k) == IF o \in HasValue THEN argv[k + 1] ELSE "set"

\* cfg says what the words before n do.
Honoured(n) ==
    /\ \A o \in Options :
          \/ cfg[o] = "unset" /\ \A k \in 1 .. Len(argv) : k < n => argv[k] # o
          \/ \E k \in 1 .. Len(argv) : LastBefore(o, n, k) /\ cfg[o] = Meant(o, k)
    /\ full = 0 <=> \E k \in 1 .. Len(argv) : k < n /\ argv[k] = "-p"

Usual == Proper /\ ~ IsGiven("-fs")

\* In a usual line the loop always stops at an option, with all before it honoured.
InStep == Usual => /\ valid
                   /\ i <= Len(argv) + 1
                   /\ i <= Len(argv) => argv[i] \in Options
                   /\ Honoured(i)
                   /\ result \in {"running", "ok"}

IInv == TypeOK /\ NoneStray /\ Ended /\ InStep

-----------------------------------------------------------------------------
(* Words *)

\* The words of a line, which are few kinds apart from each other.
LEMMA WordsOfLine ==
    ASSUME argv \in Lines
    PROVE  /\ Len(argv) \in Nat /\ Len(argv) > 0
           /\ \A k \in 1 .. Len(argv) : argv[k] \in Options \cup Values \cup {"-bogus"}
  <1>1. PICK n \in 1 .. MaxArgs : argv \in [1 .. n -> Words]
    BY DEF Lines
  <1>2. n \in Nat /\ n > 0
    BY <1>1, MaxArgsAssumption
  <1>3. Len(argv) = n
    BY <1>1, <1>2
  <1> QED
    BY <1>1, <1>2, <1>3, WordsAssumption DEF AllWords

\* No value is an option.
LEMMA KindsDiffer ==
    /\ Options \cap (Values \cup {"-bogus"}) = {}
    /\ "-fs" \in Options /\ "-fs" \notin HasValue
    /\ HasValue \subseteq Options /\ TakesParameter \subseteq HasValue
    /\ Numbers \subseteq Values /\ Tuples \subseteq Numbers
    /\ Flags \cap HasValue = {}
    /\ Options = Flags \cup HasValue \cup {"-fs", "-?"}
    /\ Names \cap Values \subseteq Values
  BY DEF Options, Values, Flags, Numeric, Texts, HasValue, TakesParameter, Numbers, Tuples

\* What fits an option is a value, of the kind that its case reads.
LEMMA FitsOption ==
    ASSUME NEW o, NEW v, Fits(o, v), o \in HasValue
    PROVE  /\ v \in Values
           /\ o \in Numeric \cup {"-op"} => v \in Numbers
           /\ o \in {"-awbg", "-p"} => v \in Tuples
           /\ o = "-c" => v # "7"
           /\ o = "-o" => v # "" /\ v \in Names
  BY DEF Fits, Values, Numeric, Texts, HasValue, Numbers, Tuples, Names, Options, Flags

\* Where the loop stands in a usual line: at an option, with a fitting value after it if it
\* has one, and at an option again after that.
LEMMA UsualWords ==
    ASSUME argv \in Lines, Usual, NEW k \in 1 .. Len(argv), argv[k] \in Options
    PROVE  /\ argv[k] \notin {"-fs", "-?"}
           /\ argv[k] \in HasValue =>
                 /\ k + 1 \in 1 .. Len(argv)
                 /\ Fits(argv[k], argv[k + 1])
                 /\ k + 2 \in 1 .. Len(argv) => argv[k + 2] \in Options
           /\ argv[k] \notin HasValue => (k + 1 \in 1 .. Len(argv) => argv[k + 1] \in Options)
  <1>1. Len(argv) \in Nat
    BY WordsOfLine
  <1>2. \A j \in 1 .. Len(argv) :
           /\ argv[j] \notin {"-?", "-fs", "-bogus"}
           /\ argv[j] \in HasValue => j < Len(argv) /\ Fits(argv[j], argv[j + 1])
           /\ argv[j] \in Values => j > 1 /\ argv[j - 1] \in HasValue
    BY DEF Usual, Proper, IsGiven
  <1>3. \A j \in 1 .. Len(argv) : argv[j] \notin Values => argv[j] \in Options
    BY <1>2, WordsOfLine
  <1>4. ASSUME argv[k] \in HasValue
        PROVE  /\ k + 1 \in 1 .. Len(argv)
               /\ Fits(argv[k], argv[k + 1])
               /\ k + 2 \in 1 .. Len(argv) => argv[k + 2] \in Options
    <2>1. k + 1 \in 1 .. Len(argv) /\ Fits(argv[k], argv[k + 1])
      BY <1>1, <1>2, <1>4
    <2>2. argv[k + 1] \in Values
      BY <1>4, <2>1, FitsOption
    <2>3. argv[k + 1] \notin HasValue
      BY <2>2, KindsDiffer
    <2>4. ASSUME k + 2 \in 1 .. Len(argv)
          PROVE  argv[k + 2] \in Options
      <3>1. (k + 2) - 1 = k + 1
        BY <1>1
      <3> QED
        BY <1>2, <1>3, <2>3, <2>4, <3>1
    <2> QED
      BY <2>1, <2>4
  <1>5. ASSUME argv[k] \notin HasValue, k + 1 \in 1 .. Len(argv)
        PROVE  argv[k + 1] \in Options
    <2>1. (k + 1) - 1 = k
      BY <1>1
    <2> QED
      BY <1>2, <1>3, <1>5, <2>1
  <1> QED
    BY <1>2, <1>4, <1>5

-----------------------------------------------------------------------------
(* The proof of the invariant *)

\* Storing what the option at n asks for honours the words up to the next option, at m.
LEMMA HonoursOne ==
    ASSUME argv \in Lines, cfg \in [Options -> AllWords \cup {"unset", "set", "255"}],
           NEW n \in 1 .. Len(argv), argv[n] \in Options, Honoured(n), argv' = argv,
           NEW m \in {n + 1, n + 2},
           m = n + 2 => n + 1 \in 1 .. Len(argv) /\ argv[n + 1] \notin Options,
           cfg' = [cfg EXCEPT ![argv[n]] = Meant(argv[n], n)],
           full' = IF argv[n] = "-p" THEN 0 ELSE full
    PROVE  Honoured(m)'
  <1>1. Len(argv) \in Nat
    BY WordsOfLine
  <1>2. \A k \in 1 .. Len(argv) : k < m /\ argv[k] \in Options => k < n \/ k = n
    BY <1>1
  <1>3. n < m /\ \A k \in 1 .. Len(argv) : k < n => k < m /\ k # n
    BY <1>1
  <1>4. \A j \in 1 .. Len(argv) : ~ (n < j /\ j < m /\ argv[j] \in Options)
    BY <1>1
  <1>5. ASSUME NEW o \in Options
        PROVE  \/ cfg'[o] = "unset" /\ \A k \in 1 .. Len(argv) : k < m => argv[k] # o
               \/ \E k \in 1 .. Len(argv) : LastBefore(o, m, k) /\ cfg'[o] = Meant(o, k)
    <2>1. CASE o = argv[n]
      <3>1. LastBefore(o, m, n)
        BY <1>3, <1>4, <2>1 DEF LastBefore
      <3>2. cfg'[o] = Meant(o, n)
        BY <2>1
      <3> QED
        BY <3>1, <3>2
    <2>2. CASE o # argv[n]
      <3>1. cfg'[o] = cfg[o]
        BY <2>2
      <3>2. CASE cfg[o] = "unset" /\ \A k \in 1 .. Len(argv) : k < n => argv[k] # o
        BY <1>2, <2>2, <3>1, <3>2
      <3>3. CASE \E k \in 1 .. Len(argv) : LastBefore(o, n, k) /\ cfg[o] = Meant(o, k)
        <4>1. PICK k \in 1 .. Len(argv) : LastBefore(o, n, k) /\ cfg[o] = Meant(o, k)
          BY <3>3
        <4>2. LastBefore(o, m, k)
          BY <1>2, <1>3, <2>2, <4>1 DEF LastBefore
        <4> QED
          BY <3>1, <4>1, <4>2
      <3> QED
        BY <3>2, <3>3 DEF Honoured
    <2> QED
      BY <2>1, <2>2
  <1>6. full' = 0 <=> \E k \in 1 .. Len(argv) : k < m /\ argv[k] = "-p"
    <2>1. full = 0 <=> \E k \in 1 .. Len(argv) : k < n /\ argv[k] = "-p"
      BY DEF Honoured
    <2>2. "-p" \in Options
      BY DEF Options
    <2>3. CASE argv[n] = "-p"
      BY <1>3, <2>3
    <2>4. CASE argv[n] # "-p"
      <3>1. \A k \in 1 .. Len(argv) : k < m /\ argv[k] = "-p" <=> k < n /\ argv[k] = "-p"
        BY <1>2, <1>3, <2>2, <2>4
      <3>2. full' = full
        BY <2>4
      <3> QED
        BY <2>1, <3>1, <3>2
    <2> QED
      BY <2>3, <2>4
  <1> QED
    BY <1>5, <1>6 DEF Honoured, LastBefore, Meant

\* Any case of the switch: what it must do for the invariant to hold.
LEMMA OptionKeeps ==
    ASSUME IInv, valid, result = "running", i \in 1 .. Len(argv), argv[i] \in Options,
           UNCHANGED <<argv, result>>,
           i' \in {i + 1, i + 2}, valid' \in BOOLEAN, full' \in {0, 1},
           cfg' \in [Options -> AllWords \cup {"unset", "set", "255"}],
           i' = i + 2 /\ valid' /\ i + 1 \in 1 .. Len(argv) => Belongs(i + 1),
           Usual => /\ valid'
                    /\ i' = i + 2 <=> argv[i] \in HasValue
                    /\ cfg' = [cfg EXCEPT ![argv[i]] = Meant(argv[i], i)]
                    /\ full' = IF argv[i] = "-p" THEN 0 ELSE full
    PROVE  IInv'
  <1>1. PICK n : n = i
    OBVIOUS
  <1>2. PICK m : m = i'
    OBVIOUS
  <1>3. Len(argv) \in Nat /\ argv \in Lines /\ TypeOK /\ n \in 1 .. Len(argv)
        /\ m \in {n + 1, n + 2}
    BY <1>1, <1>2, WordsOfLine DEF IInv, TypeOK
  <1>4. TypeOK'
    <2>1. m \in 1 .. Len(argv) + 2
      BY <1>3
    <2> QED
      BY <1>2, <1>3, <2>1 DEF TypeOK
  <1>5. NoneStray'
    <2>1. SUFFICES ASSUME valid', NEW k \in 1 .. Len(argv), k < m
                   PROVE  Belongs(k)
      BY <1>2 DEF NoneStray, Belongs
    <2>2. k < n => Belongs(k)
      BY <1>1 DEF IInv, NoneStray
    <2>3. Belongs(n)
      BY <1>1, KindsDiffer DEF Belongs
    <2>4. m = n + 2 /\ n + 1 \in 1 .. Len(argv) => Belongs(n + 1)
      BY <1>1, <1>2, <2>1
    <2>5. k < n \/ k = n \/ (m = n + 2 /\ k = n + 1)
      BY <1>3, <2>1
    <2> QED
      BY <2>2, <2>3, <2>4, <2>5
  <1>6. Ended'
    BY DEF Ended
  <1>7. InStep'
    <2>1. SUFFICES ASSUME Usual
                   PROVE  /\ valid'
                          /\ m <= Len(argv) + 1
                          /\ m <= Len(argv) => argv[m] \in Options
                          /\ Honoured(m)'
                          /\ result' \in {"running", "ok"}
      BY <1>2 DEF InStep, Usual, Proper, IsGiven
    <2>2. /\ argv[n] \in HasValue =>
               /\ n + 1 \in 1 .. Len(argv)
               /\ Fits(argv[n], argv[n + 1])
               /\ n + 2 \in 1 .. Len(argv) => argv[n + 2] \in Options
          /\ argv[n] \notin HasValue => (n + 1 \in 1 .. Len(argv) => argv[n + 1] \in Options)
      BY <1>1, <1>3, <2>1, UsualWords
    <2>3. m = n + 2 <=> argv[n] \in HasValue
      BY <1>1, <1>2, <2>1
    <2>4. m <= Len(argv) + 1 /\ (m <= Len(argv) => argv[m] \in Options)
      <3>1. CASE argv[n] \in HasValue
        BY <1>3, <2>2, <2>3, <3>1
      <3>2. CASE argv[n] \notin HasValue
        <4>1. m = n + 1
          BY <1>3, <2>3, <3>2
        <4> QED
          BY <1>3, <2>2, <3>2, <4>1
      <3> QED
        BY <3>1, <3>2
    <2>5. m = n + 2 => argv[n + 1] \notin Options
      BY <2>2, <2>3, FitsOption, KindsDiffer
    <2>6. Honoured(n)
      BY <1>1, <2>1 DEF IInv, InStep
    <2>7. Honoured(m)'
      BY <1>1, <1>3, <2>1, <2>2, <2>3, <2>5, <2>6, HonoursOne DEF TypeOK
    <2> QED
      BY <2>1, <2>4, <2>7
  <1> QED
    BY <1>4, <1>5, <1>6, <1>7 DEF IInv

\* At first nothing is stepped over, and a usual line begins with an option.
LEMMA InitHolds == Init => IInv
  <1> SUFFICES ASSUME Init
               PROVE  IInv
    OBVIOUS
  <1>1. argv \in Lines /\ Len(argv) \in Nat /\ Len(argv) > 0
    BY WordsOfLine DEF Init
  <1>2. TypeOK /\ NoneStray /\ Ended
    BY <1>1 DEF Init, TypeOK, NoneStray, Ended
  <1>3. Honoured(1)
    BY <1>1 DEF Init, Honoured
  <1>4. InStep
    BY <1>1, <1>3 DEF Init, InStep, Usual, Proper
  <1> QED
    BY <1>2, <1>4 DEF IInv

\* An option that the loop has found.
LEMMA Looked ==
    ASSUME IInv, NEW kind \in SUBSET Options, Looking(kind)
    PROVE  /\ valid /\ result = "running" /\ i \in 1 .. Len(argv) /\ Len(argv) \in Nat
           /\ argv[i] \in kind
           /\ UNCHANGED <<argv, result>>
           /\ argv[i] \in TakesParameter => i + 1 \in 1 .. Len(argv)
           /\ i + 1 \in 1 .. Len(argv) => Value \in AllWords /\ (i + 1) - 1 = i /\ i + 1 > 1
           /\ TypeOK
  <1>1. argv \in Lines /\ i \in 1 .. Len(argv) + 2 /\ TypeOK
    BY DEF IInv, TypeOK
  <1>2. Len(argv) \in Nat
    BY <1>1, WordsOfLine
  <1>3. i \in 1 .. Len(argv)
    BY <1>1, <1>2 DEF Looking
  <1>4. argv[i] \in TakesParameter => i + 1 \in 1 .. Len(argv)
    BY <1>2, <1>3 DEF Looking
  <1>5. (i + 1) - 1 = i /\ i + 1 > 1
    BY <1>2, <1>3
  <1> QED
    BY <1>1, <1>2, <1>3, <1>4, <1>5, WordsOfLine DEF Looking, Value, AllWords

\* What a usual line holds at the option that the loop has found.
LEMMA UsualOption ==
    ASSUME IInv, NEW kind \in SUBSET Options, Looking(kind), Usual
    PROVE  /\ argv[i] \notin {"-fs", "-?"}
           /\ argv[i] \in HasValue =>
                 /\ i + 1 \in 1 .. Len(argv)
                 /\ Value \in Values
                 /\ argv[i] \in Numeric \cup {"-op"} => Value \in Numbers
                 /\ argv[i] \in {"-awbg", "-p"} => Value \in Tuples
                 /\ argv[i] = "-c" => Value # "7"
                 /\ argv[i] = "-o" => Value # "" /\ Value \in Names
  BY Looked, UsualWords, FitsOption DEF Value, TypeOK

\* Flags.
LEMMA FlagKeeps == IInv /\ Flag => IInv'
  <1> SUFFICES ASSUME IInv, Flag
               PROVE  IInv'
    OBVIOUS
  <1>1. Looking(Flags) /\ Flags \in SUBSET Options
    BY KindsDiffer DEF Flag
  <1>2. /\ i' = i + 1 /\ valid' = valid /\ full' = full
        /\ cfg' = [cfg EXCEPT ![argv[i]] = "set"]
    BY DEF Flag, Next1, Set
  <1>3. argv[i] \notin HasValue /\ argv[i] # "-p" /\ argv[i] \in Options
    BY <1>1, Looked, KindsDiffer DEF Flags
  <1>4. i + 1 # i + 2
    BY <1>1, Looked
  <1>5. valid' \in BOOLEAN /\ full' \in {0, 1}
        /\ cfg' \in [Options -> AllWords \cup {"unset", "set", "255"}]
    BY <1>1, <1>2, Looked DEF TypeOK
  <1> QED
    BY <1>1, <1>2, <1>3, <1>4, <1>5, Looked, OptionKeeps DEF Meant

\* An option that is refused, or has no parameter where it needs one: then the line is not
\* a usual one.
LEMMA RefusedKeeps ==
    ASSUME IInv, NEW kind \in SUBSET Options, Looking(kind), Refuse, ~ Usual
    PROVE  IInv'
  <1>1. i' = i + 1 /\ valid' = FALSE /\ cfg' = cfg /\ full' = full
    BY DEF Refuse, Next1
  <1>2. cfg \in [Options -> AllWords \cup {"unset", "set", "255"}] /\ full \in {0, 1}
    BY Looked DEF TypeOK
  <1>3. argv[i] \in Options
    BY Looked
  <1> QED
    BY <1>1, <1>2, <1>3, Looked, OptionKeeps

\* An option whose value is stored and stepped over.
LEMMA ValueKeeps ==
    ASSUME IInv, NEW kind \in SUBSET HasValue, Looking(kind), Given, Set(Value), Next2,
           valid' \in BOOLEAN,
           valid' => \/ Value \in Options
                     \/ argv[i] \in Texts \cup {"-p"}
                     \/ Value \in Numbers,
           Usual => valid',
           full' \in {0, 1}, Usual => full' = IF argv[i] = "-p" THEN 0 ELSE full
    PROVE  IInv'
  <1>1. kind \in SUBSET Options
    BY KindsDiffer
  <1>2. argv[i] \in HasValue /\ argv[i] \in Options
    BY <1>1, Looked
  <1>3. i' = i + 2 /\ cfg' = [cfg EXCEPT ![argv[i]] = Value]
    BY DEF Next2, Set
  <1>4. i + 1 \in 1 .. Len(argv)
    BY <1>1, Looked DEF Given
  <1>5. cfg' \in [Options -> AllWords \cup {"unset", "set", "255"}]
    BY <1>1, <1>3, <1>4, Looked DEF TypeOK
  <1>6. valid' => Belongs(i + 1)
    <2>1. (i + 1) - 1 = i /\ i + 1 > 1
      BY <1>1, <1>4, Looked
    <2>2. Value \in Options => Value \notin Values \cup {"-bogus"}
      BY KindsDiffer
    <2> QED
      BY <1>2, <2>1, <2>2 DEF Belongs, Value
  <1>7. Meant(argv[i], i) = Value
    BY <1>2 DEF Meant, Value
  <1> QED
    BY <1>1, <1>2, <1>3, <1>5, <1>6, <1>7, Looked, OptionKeeps

\* Numbers.
LEMMA NumberKeeps == IInv /\ Number => IInv'
  <1> SUFFICES ASSUME IInv, Number
               PROVE  IInv'
    OBVIOUS
  <1>1. Looking(Numeric) /\ Given
        /\ Numeric \in SUBSET HasValue /\ Numeric \in SUBSET Options
    BY KindsDiffer DEF Number, HasValue
  <1>2. argv[i] \in Numeric /\ argv[i] \in HasValue /\ argv[i] # "-p" /\ TypeOK
    BY <1>1, Looked DEF Numeric
  <1>3. CASE Value \notin Numbers
    BY <1>1, <1>2, <1>3, UsualOption, RefusedKeeps DEF Number
  <1>4. CASE Value \in Numbers
    <2>1. /\ Set(Value) /\ Next2 /\ full' = full
          /\ valid' = (argv[i] = "-c" => Value # "7")
      BY <1>4 DEF Number
    <2> QED
      BY <1>1, <1>2, <1>4, <2>1, UsualOption, ValueKeeps DEF TypeOK
  <1> QED
    BY <1>3, <1>4

\* Texts.
LEMMA TextKeeps == IInv /\ Text => IInv'
  <1> SUFFICES ASSUME IInv, Text
               PROVE  IInv'
    OBVIOUS
  <1>1. Looking(Texts) /\ Given /\ Texts \in SUBSET HasValue /\ Texts \in SUBSET Options
    BY KindsDiffer DEF Text, HasValue
  <1>2. argv[i] \in Texts /\ argv[i] \in HasValue /\ argv[i] # "-p" /\ TypeOK
    BY <1>1, Looked DEF Texts
  <1>3. CASE argv[i] = "-o" /\ Value = "" /\ Refuse
    BY <1>1, <1>2, <1>3, UsualOption, RefusedKeeps
  <1>4. CASE /\ Set(Value) /\ Next2 /\ full' = full
             /\ valid' = (argv[i] = "-o" => Value \in Names)
    BY <1>1, <1>2, <1>4, UsualOption, ValueKeeps DEF TypeOK
  <1> QED
    BY <1>3, <1>4 DEF Text

\* Gains and the window.
LEMMA TupleKeeps == IInv /\ (Gains \/ Window) => IInv'
  <1> SUFFICES ASSUME IInv, Gains \/ Window
               PROVE  IInv'
    OBVIOUS
  <1>1. PICK kind \in {{"-awbg"}, {"-p"}} : Looking(kind) /\ (kind = {"-awbg"} => Gains)
                                            /\ (kind = {"-p"} => Window)
    <2>1. Gains => Looking({"-awbg"})
      BY DEF Gains
    <2>2. Window => Looking({"-p"})
      BY DEF Window
    <2>3. {"-awbg"} # {"-p"}
      OBVIOUS
    <2> QED
      BY <2>1, <2>2, <2>3
  <1>2. kind \in SUBSET HasValue /\ kind \in SUBSET Options /\ kind \in SUBSET TakesParameter
    BY DEF HasValue, Options, TakesParameter
  <1>3. TypeOK /\ argv[i] \in kind /\ argv[i] \in HasValue /\ Given
        /\ argv[i] \in {"-awbg", "-p"} /\ valid
    <2>1. /\ TypeOK /\ argv[i] \in kind /\ valid /\ Len(argv) \in Nat
          /\ argv[i] \in TakesParameter => i + 1 \in 1 .. Len(argv)
          /\ i \in 1 .. Len(argv)
      BY <1>1, <1>2, Looked
    <2>2. i < Len(argv)
      BY <1>2, <2>1
    <2> QED
      BY <1>2, <2>1, <2>2 DEF Given
  <1>4. Usual => Value \in Tuples
    BY <1>1, <1>2, <1>3, UsualOption
  <1>5. CASE kind = {"-awbg"}
    <2>1. Set(Value) /\ Next2 /\ valid' = (Value \in Tuples) /\ full' = full
      BY <1>1, <1>5 DEF Gains
    <2>2. argv[i] # "-p" /\ (Value \in Tuples => Value \in Numbers)
      BY <1>3, <1>5, KindsDiffer
    <2>3. valid' \in BOOLEAN /\ (valid' <=> Value \in Tuples)
      <3>1. valid' = (Value \in Tuples)
        BY <2>1
      <3>2. (Value \in Tuples) \in BOOLEAN
        OBVIOUS
      <3>3. valid' \in BOOLEAN
        BY <3>1, <3>2, Zenon
      <3>4. valid' <=> Value \in Tuples
        BY <3>1
      <3> QED
        BY <3>3, <3>4
    <2>4. Set(Value) /\ Next2 /\ full' = full /\ full \in {0, 1}
      BY <1>3, <2>1 DEF TypeOK
    <2> QED
      BY <1>1, <1>2, <1>3, <1>4, <2>2, <2>3, <2>4, ValueKeeps
  <1>6. CASE kind = {"-p"}
    <2>1. /\ Set(Value) /\ Next2 /\ valid' = valid
          /\ full' = IF Value \in Tuples THEN 0 ELSE 1
      BY <1>1, <1>6 DEF Window
    <2>2. argv[i] = "-p"
      BY <1>3, <1>6
    <2> QED
      BY <1>1, <1>2, <1>3, <1>4, <2>1, <2>2, ValueKeeps DEF TypeOK
  <1> QED
    BY <1>5, <1>6

\* Full screen, which swallows the next word: it is not in a usual line.
LEMMA FullScreenKeeps == IInv /\ FullScreen => IInv'
  <1> SUFFICES ASSUME IInv, FullScreen
               PROVE  IInv'
    OBVIOUS
  <1>1. Looking({"-fs"}) /\ {"-fs"} \in SUBSET Options
    BY KindsDiffer DEF FullScreen
  <1>2. /\ i' = i + 2 /\ valid' = valid /\ full' = 1
        /\ cfg' = [cfg EXCEPT ![argv[i]] = "set"]
    BY DEF FullScreen, Next2, Set
  <1>3. argv[i] = "-fs" /\ argv[i] \in Options /\ TypeOK
    BY <1>1, Looked
  <1>4. ~ Usual
    BY <1>1, <1>3, UsualOption
  <1>5. i + 1 \in 1 .. Len(argv) => Belongs(i + 1)
    BY <1>1, <1>3, Looked DEF Belongs
  <1>6. /\ valid' \in BOOLEAN /\ full' \in {0, 1}
        /\ cfg' \in [Options -> AllWords \cup {"unset", "set", "255"}]
    BY <1>2, <1>3 DEF TypeOK
  <1> QED
    BY <1>1, <1>2, <1>3, <1>4, <1>5, <1>6, Looked, OptionKeeps

\* The opacity, which may be left out.
LEMMA OpacityKeeps == IInv /\ Opacity => IInv'
  <1> SUFFICES ASSUME IInv, Opacity
               PROVE  IInv'
    OBVIOUS
  <1>1. Looking({"-op"}) /\ {"-op"} \in SUBSET Options /\ {"-op"} \in SUBSET HasValue
        /\ valid' = valid /\ full' = full
    BY DEF Opacity, Options, HasValue
  <1>2. argv[i] = "-op" /\ argv[i] \in Options /\ argv[i] \in HasValue /\ TypeOK /\ Given
    <2>1. /\ argv[i] = "-op" /\ TypeOK /\ Len(argv) \in Nat /\ i \in 1 .. Len(argv)
          /\ argv[i] \in TakesParameter => i + 1 \in 1 .. Len(argv)
      BY <1>1, Looked
    <2>2. i < Len(argv)
      BY <2>1 DEF TakesParameter
    <2> QED
      BY <1>1, <2>1, <2>2 DEF Given
  <1>3. CASE Value \in Numbers /\ Set(Value) /\ Next2
    BY <1>1, <1>2, <1>3, Looked, ValueKeeps DEF TypeOK
  <1>4. CASE Value \notin Numbers /\ Set("255") /\ Next1
    <2>1. ~ Usual
      BY <1>1, <1>2, <1>4, UsualOption
    <2>2. i' = i + 1 /\ cfg' = [cfg EXCEPT ![argv[i]] = "255"]
      BY <1>4 DEF Next1, Set
    <2>3. i + 1 # i + 2
      BY <1>1, Looked
    <2>4. /\ valid' \in BOOLEAN /\ full' \in {0, 1}
          /\ cfg' \in [Options -> AllWords \cup {"unset", "set", "255"}]
      BY <1>1, <1>2, <2>2 DEF TypeOK
    <2> QED
      BY <1>1, <1>2, <2>1, <2>2, <2>3, <2>4, Looked, OptionKeeps
  <1> QED
    BY <1>3, <1>4 DEF Opacity

\* A word that is no option, or an option that lacks its parameter: neither is in a usual
\* line.
LEMMA StrayKeeps == IInv /\ (NotAnOption \/ MissingParameter \/ ReadPastEnd) => IInv'
  <1> SUFFICES ASSUME IInv, NotAnOption \/ MissingParameter \/ ReadPastEnd
               PROVE  IInv'
    OBVIOUS
  <1>1. TypeOK /\ argv \in Lines /\ Len(argv) \in Nat
    BY WordsOfLine DEF IInv, TypeOK
  <1>2. /\ result = "running" /\ valid /\ i \in 1 .. Len(argv) /\ argv' = argv /\ full' = full
        /\ cfg' = cfg
    BY <1>1 DEF TypeOK, NotAnOption, Looking, Refuse, MissingParameter, ReadPastEnd
  <1>3. ~ Usual
    <2>1. SUFFICES ASSUME Usual
                   PROVE  FALSE
      OBVIOUS
    <2>2. argv[i] \in Options
      BY <1>2, <2>1 DEF IInv, InStep
    <2>3. argv[i] \in HasValue => i + 1 \in 1 .. Len(argv)
      BY <1>1, <1>2, <2>1, <2>2, UsualWords
    <2>4. (Numeric \cup Texts) \ TakesParameter \subseteq HasValue
          /\ TakesParameter \subseteq HasValue
      BY KindsDiffer DEF HasValue
    <2>5. i = Len(argv) => argv[i] \notin HasValue
      BY <1>1, <1>2, <2>3
    <2> QED
      BY <2>2, <2>4, <2>5, KindsDiffer DEF NotAnOption, Looking, MissingParameter, ReadPastEnd
  <1>4. ~ Usual'
    BY <1>2, <1>3 DEF Usual, Proper, IsGiven
  <1>5. CASE NotAnOption
    <2>1. i' = i + 1 /\ valid' = FALSE /\ result' = result
      BY <1>5 DEF NotAnOption, Refuse, Next1, Looking
    <2>2. i + 1 \in 1 .. Len(argv) + 2
      BY <1>1, <1>2
    <2> QED
      BY <1>1, <1>2, <1>4, <2>1, <2>2 DEF IInv, TypeOK, NoneStray, Ended, InStep
  <1>6. CASE MissingParameter
    <2>1. i' = i + 1 /\ valid' = valid /\ result' = result /\ argv[i] \in Options
      BY <1>6, KindsDiffer DEF MissingParameter, Next1
    <2>2. i + 1 # i + 2
      BY <1>1, <1>2
    <2> QED
      BY <1>1, <1>2, <1>3, <2>1, <2>2, OptionKeeps DEF TypeOK
  <1>7. CASE ReadPastEnd
    <2>1. i' = i /\ valid' = valid /\ result' = "undefined"
      BY <1>7 DEF ReadPastEnd
    <2> QED
      BY <1>1, <1>2, <1>4, <2>1 DEF IInv, TypeOK, NoneStray, Ended, InStep, Belongs
  <1> QED
    BY <1>5, <1>6, <1>7

\* The end of the loop, and the help, which is not in a usual line.
LEMMA EndKeeps == IInv /\ (Help \/ Finish) => IInv'
  <1> SUFFICES ASSUME IInv, Help \/ Finish
               PROVE  IInv'
    OBVIOUS
  <1>1. /\ UNCHANGED <<argv, i, valid, cfg, full>>
        /\ \/ result' = "help" /\ argv[i] = "-?" /\ i <= Len(argv)
           \/ result' = "invalid" /\ ~ valid
           \/ result' = "ok" /\ valid /\ i > Len(argv)
    BY DEF Help, Finish
  <1>2. /\ Usual' <=> Usual
        /\ \A n : Honoured(n)' <=> Honoured(n)
        /\ \A k : Belongs(k)' <=> Belongs(k)
    BY <1>1 DEF Usual, Proper, IsGiven, Honoured, LastBefore, Meant, Belongs
  <1>3. Usual => result' = "ok"
    <2>1. TypeOK /\ Len(argv) \in Nat
      BY WordsOfLine DEF IInv, TypeOK
    <2>2. Usual /\ i <= Len(argv) => argv[i] # "-?"
      BY <2>1 DEF Usual, Proper, TypeOK
    <2> QED
      BY <1>1, <2>2 DEF IInv, InStep
  <1>4. TypeOK'
    BY <1>1 DEF IInv, TypeOK
  <1>5. NoneStray' /\ Ended'
    BY <1>1, <1>2 DEF IInv, NoneStray, Ended
  <1>6. InStep'
    BY <1>1, <1>2, <1>3 DEF IInv, InStep
  <1> QED
    BY <1>4, <1>5, <1>6 DEF IInv

\* Each step keeps the invariant.
LEMMA NextKeeps == IInv /\ [Next]_vars => IInv'
  <1> SUFFICES ASSUME IInv, [Next]_vars
               PROVE  IInv'
    OBVIOUS
  <1>1. CASE Next
    BY <1>1, StrayKeeps, FlagKeeps, NumberKeeps, TextKeeps, TupleKeeps, FullScreenKeeps,
       OpacityKeeps, EndKeeps DEF Next
  <1>2. CASE UNCHANGED vars
    BY <1>2 DEF vars, IInv, TypeOK, NoneStray, Belongs, Ended, InStep, Usual, Proper, IsGiven,
                Honoured, LastBefore, Meant
  <1> QED
    BY <1>1, <1>2

\* The loop is always where the invariant says, for command lines of any length.
THEOREM Invariant == Spec => []IInv
  <1> QED
    BY InitHolds, NextKeeps, PTL DEF Spec

-----------------------------------------------------------------------------
(* What it implies *)

\* An accepted line has no stray word (raspiraw.c:848-852, 1204-1206).
THEOREM AcceptedIsClean == Spec => []NothingStray
  <1>1. IInv => NothingStray
    <2> SUFFICES ASSUME IInv, result = "ok", NEW k \in 1 .. Len(argv)
                 PROVE  Belongs(k)
      BY DEF NothingStray, Belongs
    <2>1. valid /\ i > Len(argv) /\ i \in 1 .. Len(argv) + 2 /\ Len(argv) \in Nat
      BY WordsOfLine DEF IInv, Ended, TypeOK
    <2>2. k < i
      BY <2>1
    <2> QED
      BY <2>1, <2>2 DEF IInv, NoneStray
  <1> QED
    BY <1>1, Invariant, PTL

\* A proper line is accepted, and each option of it ends up with its own last value
\* (raspiraw.c:841-1208).
THEOREM ProperLinesAreHonoured == Spec => []ProperIsHonoured
  <1>1. IInv => ProperIsHonoured
    <2> SUFFICES ASSUME IInv, ~ IsGiven("-fs"), Proper, result # "running"
                 PROVE  HonoursAll
      BY DEF ProperIsHonoured
    <2>1. PICK n : n = i
      OBVIOUS
    <2>2. /\ result = "ok" /\ Honoured(n) /\ n > Len(argv) /\ n \in 1 .. Len(argv) + 2
          /\ Len(argv) \in Nat
      BY <2>1, WordsOfLine DEF IInv, InStep, Usual, Ended, TypeOK
    <2>3. \A k \in 1 .. Len(argv) : k < n
      BY <2>2
    <2>4. ASSUME NEW o \in Options
          PROVE  cfg[o] = IF ~ IsGiven(o) THEN "unset"
                          ELSE IF o \in HasValue THEN argv[LastOf(o) + 1] ELSE "set"
      <3>1. CASE cfg[o] = "unset" /\ \A k \in 1 .. Len(argv) : k < n => argv[k] # o
        BY <2>3, <3>1 DEF IsGiven
      <3>2. CASE \E k \in 1 .. Len(argv) : LastBefore(o, n, k) /\ cfg[o] = Meant(o, k)
        <4>1. PICK k \in 1 .. Len(argv) : LastBefore(o, n, k) /\ cfg[o] = Meant(o, k)
          BY <3>2
        <4>2. argv[k] = o /\ \A j \in k + 1 .. Len(argv) : argv[j] # o
          BY <2>2, <2>3, <4>1 DEF LastBefore
        <4>3. LastOf(o) \in 1 .. Len(argv) /\ argv[LastOf(o)] = o
              /\ \A j \in LastOf(o) + 1 .. Len(argv) : argv[j] # o
          BY <4>2 DEF LastOf
        <4>4. ~ (k < LastOf(o)) /\ ~ (LastOf(o) < k)
          BY <2>2, <4>2, <4>3
        <4>5. LastOf(o) = k
          BY <2>2, <4>3, <4>4
        <4>6. IsGiven(o)
          BY <4>2 DEF IsGiven
        <4> QED
          BY <4>1, <4>5, <4>6 DEF Meant
      <3> QED
        BY <2>2, <3>1, <3>2 DEF Honoured
    <2>5. full = 0 <=> IsGiven("-p")
      BY <2>2, <2>3 DEF Honoured, IsGiven
    <2> QED
      BY <2>2, <2>4, <2>5 DEF HonoursAll
  <1> QED
    BY <1>1, Invariant, PTL
=============================================================================
