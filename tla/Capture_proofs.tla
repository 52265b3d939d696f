--------------------------- MODULE Capture_proofs ---------------------------
(***************************************************************************)
(* Proofs about Capture, for any number of frames, any rate and any        *)
(* failures: the list of presentation times, which callback and main share *)
(* without a lock, is whole when it is used, lists what was saved and is   *)
(* freed; and a conversion releases what it should on each way out.        *)
(***************************************************************************)
EXTENDS Capture, SequenceTheorems, WellFoundedInduction, TLAPS

USE DEF listVars, stampVars, metaVars, savedVars, cbVars, mainVars, converter

-----------------------------------------------------------------------------
(* Types, and the phases of the two threads *)

\* The types of the converter's variables.
ConvertSteps == {"out", "names", "input", "read", "picture", "open", "structs", "info", "row",
                 "rows", "finalise", "free", "return", "crashed"}

ConverterType == /\ row \in BOOLEAN /\ step \in ConvertSteps
                 /\ half \in Pictures /\ res \in {0, 1} /\ blocks \in SUBSET Blocks

\* Every step of a conversion keeps the types of its variables.
LEMMA ConvertStepType == ConverterType /\ ConvertStep => ConverterType' /\ step' # "out"
<1> USE DEF ConverterType, ConvertSteps, Pictures, Blocks, Goto, Works, Fails, Crashes
<1> SUFFICES ASSUME ConverterType, ConvertStep PROVE ConverterType' /\ step' # "out"
  OBVIOUS
<1>1. CASE AllocateNames
  BY <1>1 DEF AllocateNames
<1>2. CASE AllocateInput
  BY <1>2 DEF AllocateInput
<1>3. CASE ReadFile
  BY <1>3 DEF ReadFile
<1>4. CASE AllocatePicture
  BY <1>4 DEF AllocatePicture
<1>5. CASE OpenPng
  BY <1>5 DEF OpenPng
<1>6. CASE CreateStructs
  BY <1>6 DEF CreateStructs, Info
<1>7. CASE WriteInfo
  BY <1>7 DEF WriteInfo
<1>8. CASE AllocateRow
  BY <1>8 DEF AllocateRow
<1>9. CASE WriteRows
  BY <1>9 DEF WriteRows
<1>10. CASE Finalise
  BY <1>10 DEF Finalise, Finalised
<1>11. CASE FreeInput
  BY <1>11 DEF FreeInput
<1> QED
  BY <1>1, <1>2, <1>3, <1>4, <1>5, <1>6, <1>7, <1>8, <1>9, <1>10, <1>11 DEF ConvertStep

\* The invariant holds when the port has been enabled.
LEMMA InitInv == Init => IInv
<1> USE DEF Null, Nodes, Unset, AppStart
<1> SUFFICES ASSUME Init PROVE IInv
  OBVIOUS
<1> USE CaptureAssumption DEF Init
<1>1. TypeOK
  <2>1. Garbage \in [idx : Nat, pts : Nat, nxt : Nodes \cup {Null}]
    BY DEF Garbage
  <2>2. node \in [Nodes -> [idx : Nat, pts : Nat, nxt : Nodes \cup {Null}]]
    BY <2>1
  <2>3. files \in Seq(Entries) /\ tsFile \in Seq(Entries)
    OBVIOUS
  <2>4. heap \in SUBSET Nodes /\ ptsa \in Nodes \cup {Null} /\ ptso \in Nodes \cup {Null}
    OBVIOUS
  <2> QED  BY <2>2, <2>3, <2>4 DEF TypeOK, Idle, Pictures, Blocks
<1>2. PhaseInv /\ ConverterInv /\ StampInv
  BY DEF PhaseInv, ConverterInv, StampInv, DelaysArePositive, Idle
<1>3. FilesInv /\ SavesEveryNth
  BY DEF FilesInv, SavesEveryNth
<1>4. ListInv /\ OrderInv
  BY DEF ListInv, OrderInv, Filled
<1>5. WriteInv /\ Written /\ TimesAreComplete /\ NoLeakedNode
  BY DEF WriteInv, Written, TimesAreComplete, NoLeakedNode
<1> QED  BY <1>1, <1>2, <1>3, <1>4, <1>5 DEF IInv

-----------------------------------------------------------------------------
(* The kinds of steps *)

Streaming == {"start", "first", "pause", "started", "second", "disable"}

\* A step that concerns neither the list nor main: a frame may be counted.
Quiet == /\ UNCHANGED <<heap, node, ptsa, ptso, failed, files, main, enabled, cursor, tsFile>>
         /\ count' \in {count, count + 1}
         /\ cb' = "save" => cb = "save" \/ count' = count + 1

\* main goes on while the sensor streams.
Streams == /\ UNCHANGED <<heap, node, ptsa, ptso, failed, files, count, cb, enabled, cursor, tsFile>>
           /\ main \in Streaming /\ main' \in Streaming

\* Every step is quiet, one of main's while the sensor streams, or concerns the list.
LEMMA StepKinds ==
    [Next]_vars => \/ Quiet \/ Streams \/ SaveFrame \/ DisablePort
                   \/ WriteStamp \/ WriteDone \/ FreeNode \/ FreeLast
<1> SUFFICES ASSUME [Next]_vars
             PROVE  \/ Quiet \/ Streams \/ SaveFrame \/ DisablePort
                    \/ WriteStamp \/ WriteDone \/ FreeNode \/ FreeLast
  OBVIOUS
<1>1. CASE Frame \/ SideInfoArrives \/ SideInfoDone
  BY <1>1 DEF Frame, SideInfoArrives, SideInfoDone, Quiet
<1>2. CASE StampFrame \/ CountFrame
  BY <1>2 DEF StampFrame, CountFrame, Quiet
<1>3. CASE ConvertFrame \/ Tick
  BY <1>3 DEF ConvertFrame, Tick, Quiet
<1>4. CASE UNCHANGED vars
  BY <1>4 DEF vars, Quiet
<1>5. CASE Stream \/ StampRestart \/ StopStream
  BY <1>5 DEF Stream, StampRestart, StopStream, MainGoto, Streams, Streaming
<1> QED
  BY <1>1, <1>2, <1>3, <1>4, <1>5 DEF Next, CallbackStep, MainStep

-----------------------------------------------------------------------------
(* Types and phases *)

\* What SaveFrame appends, and what a put into a sequence leaves of it.
LEMMA Appended ==
    ASSUME NEW S, NEW s \in Seq(S), NEW e \in S
    PROVE  /\ Append(s, e) \in Seq(S) /\ Append(s, e) # <<>>
           /\ Len(s) \in Nat /\ Len(Append(s, e)) = Len(s) + 1
           /\ \A i \in 1 .. Len(s) : Append(s, e)[i] = s[i]
           /\ Append(s, e)[Len(s) + 1] = e
BY AppendProperties, LenProperties

\* While the list is in use its two ends are nodes, or NULL after a failed malloc; the node that
\* waits to be filled is none of those that main takes.
LEMMA NodesOfList ==
    ASSUME TypeOK, ListInv, WriteInv, PhaseInv
    PROVE  /\ main = "write" /\ cursor # ptso => cursor \in Filled /\ cursor \in Nodes
           /\ main = "free" /\ ptsa # ptso => ptsa \in Filled /\ ptsa \in Nodes
           /\ cb = "save" => ptso \in heap \cup {Null}
BY DEF TypeOK, ListInv, WriteInv, PhaseInv, Filled, Nodes, Null

\* The types of the list and of the files.
ListType == /\ heap \in SUBSET Nodes
            /\ node \in [Nodes -> [idx : Nat, pts : Nat, nxt : Nodes \cup {Null}]]
            /\ ptsa \in Nodes \cup {Null} /\ ptso \in Nodes \cup {Null}
            /\ cursor \in Nodes \cup {Null} /\ failed \in BOOLEAN
            /\ files \in Seq(Entries) /\ tsFile \in Seq(Entries)

\* Every step keeps the types of the list and of the files.
LEMMA ListTypeStep == IInv /\ [Next]_vars => ListType'
<1> SUFFICES ASSUME IInv, [Next]_vars PROVE ListType'
  OBVIOUS
<1>t. TypeOK /\ ListInv /\ WriteInv /\ PhaseInv /\ ListType
  BY DEF IInv, TypeOK, ListType
<1>1. CASE Quiet \/ Streams
  BY <1>1, <1>t DEF Quiet, Streams, ListType
<1>2. CASE SaveFrame
  <2>1. files' = Append(files, [idx |-> count, pts |-> frames]) /\ UNCHANGED <<tsFile, cursor>>
    BY <1>2 DEF SaveFrame, Saved
  <2>2. [idx |-> count, pts |-> frames] \in Entries
    BY <1>t DEF TypeOK, Entries
  <2>3. files' \in Seq(Entries)
    BY <2>1, <2>2, <1>t, Appended DEF ListType
  <2>4. CASE ptso = Null
    BY <2>4, <2>1, <2>3, <1>2, <1>t DEF SaveFrame, ListType
  <2>5. CASE ptso # Null
    <3>1. PICK new \in (Nodes \ heap) \cup {Null} :
             /\ node' = [node EXCEPT ![ptso] = [idx |-> count, pts |-> frames, nxt |-> new]]
             /\ ptso' = new /\ heap' = heap \cup ({new} \ {Null}) /\ failed' = (new = Null)
             /\ ptsa' = ptsa
      BY <1>2, <2>5 DEF SaveFrame
    <3>2. [idx |-> count, pts |-> frames, nxt |-> new] \in [idx : Nat, pts : Nat, nxt : Nodes \cup {Null}]
      BY <3>1, <1>t DEF TypeOK
    <3>3. node' \in [Nodes -> [idx : Nat, pts : Nat, nxt : Nodes \cup {Null}]]
      BY <3>1, <3>2, <1>t DEF ListType
    <3>4. failed' \in BOOLEAN
      BY <3>1
    <3>5. heap' \in SUBSET Nodes /\ ptso' \in Nodes \cup {Null} /\ ptsa' \in Nodes \cup {Null}
      BY <3>1, <1>t DEF ListType
    <3> QED  BY <3>3, <3>4, <3>5, <2>1, <2>3, <1>t DEF ListType
  <2> QED  BY <2>4, <2>5
<1>3. CASE DisablePort
  BY <1>3, <1>t DEF DisablePort, ListType
<1>4. CASE WriteStamp
  <2>1. cursor \in Nodes
    BY <1>4, <1>t, NodesOfList DEF WriteStamp
  <2>2. [idx |-> node[cursor].idx, pts |-> node[cursor].pts] \in Entries
    BY <2>1, <1>t DEF ListType, Entries
  <2>3. tsFile' \in Seq(Entries)
    BY <2>2, <1>4, <1>t, Appended DEF WriteStamp, ListType
  <2> QED  BY <2>1, <2>3, <1>4, <1>t DEF WriteStamp, ListType
<1>5. CASE FreeNode
  <2>1. ptsa \in Nodes
    BY <1>5, <1>t, NodesOfList DEF FreeNode
  <2> QED  BY <2>1, <1>5, <1>t DEF FreeNode, ListType
<1>6. CASE WriteDone \/ FreeLast
  BY <1>6, <1>t DEF WriteDone, FreeLast, ListType
<1> QED  BY <1>1, <1>2, <1>3, <1>4, <1>5, <1>6, StepKinds

\* The conversion keeps its types, whichever step is taken.
LEMMA ConverterTypeStep == TypeOK /\ PhaseInv /\ [Next]_vars => ConverterType'
<1> SUFFICES ASSUME TypeOK, PhaseInv, [Next]_vars PROVE ConverterType'
  OBVIOUS
<1>t. ConverterType
  BY DEF TypeOK, ConverterType, ConvertSteps
<1>1. CASE ConvertFrame
  <2>1. CASE ConvertStep
    BY <2>1, <1>t, ConvertStepType
  <2>2. CASE Return
    BY <2>2 DEF Return, ConverterType, ConvertSteps, Pictures
  <2> QED  BY <1>1, <2>1, <2>2 DEF ConvertFrame
<1>2. CASE SaveFrame
  BY <1>2, <1>t DEF SaveFrame, Saved, ConverterType, ConvertSteps
<1>3. CASE UNCHANGED converter
  BY <1>3, <1>t DEF ConverterType
<1>4. ConvertFrame \/ SaveFrame \/ UNCHANGED converter
  BY DEF Next, CallbackStep, MainStep, vars, Frame, SideInfoArrives, SideInfoDone, StampFrame,
         CountFrame, Tick, Stream, StampRestart, StopStream, DisablePort, WriteStamp,
         WriteDone, FreeNode, FreeLast
<1> QED  BY <1>1, <1>2, <1>3, <1>4

CallbackPlaces == {"idle", "decoded", "stamp", "count", "save", "convert"}
MainPlaces == {"start", "first", "pause", "started", "second", "disable", "write", "free", "done"}

\* The types of the time stamps, the counts and the places of the threads.
RestType == /\ clock \in Nat /\ frames \in Nat /\ count \in Nat
            /\ first \in Nat /\ restart \in Nat /\ restartFirst \in Nat
            /\ enabled \in BOOLEAN /\ cb \in CallbackPlaces /\ main \in MainPlaces

\* Every step keeps the types of the rest.
LEMMA RestTypeStep == TypeOK /\ [Next]_vars => RestType'
<1> SUFFICES ASSUME TypeOK, [Next]_vars PROVE RestType'
  OBVIOUS
<1>t. RestType
  BY DEF TypeOK, RestType, CallbackPlaces, MainPlaces
<1> USE DEF RestType, CallbackPlaces, MainPlaces
<1>1. CASE Frame \/ SideInfoArrives \/ SideInfoDone
  BY <1>1, <1>t DEF Frame, SideInfoArrives, SideInfoDone
<1>2. CASE StampFrame
  BY <1>2, <1>t DEF StampFrame
<1>3. CASE CountFrame
  BY <1>3, <1>t DEF CountFrame
<1>4. CASE SaveFrame
  BY <1>4, <1>t DEF SaveFrame, Saved
<1>5. CASE ConvertFrame
  BY <1>5, <1>t DEF ConvertFrame
<1>6. CASE Stream \/ StampRestart \/ StopStream \/ DisablePort
  BY <1>6, <1>t DEF Stream, StampRestart, StopStream, DisablePort, MainGoto
<1>7. CASE WriteStamp \/ WriteDone \/ FreeNode \/ FreeLast
  BY <1>7, <1>t DEF WriteStamp, WriteDone, FreeNode, FreeLast, MainGoto
<1>8. CASE Tick
  BY <1>8, <1>t DEF Tick
<1>9. CASE UNCHANGED vars
  BY <1>9, <1>t DEF vars
<1> QED  BY <1>1, <1>2, <1>3, <1>4, <1>5, <1>6, <1>7, <1>8, <1>9 DEF Next, CallbackStep, MainStep

\* Every step keeps all types.
LEMMA TypeStep == IInv /\ [Next]_vars => TypeOK'
<1> SUFFICES ASSUME IInv, [Next]_vars PROVE TypeOK'
  OBVIOUS
<1>1. ListType' /\ ConverterType' /\ RestType'
  BY ListTypeStep, ConverterTypeStep, RestTypeStep DEF IInv
<1> QED
  BY <1>1 DEF TypeOK, ListType, ConverterType, RestType, ConvertSteps, CallbackPlaces, MainPlaces

\* The port is only closed when callback is idle, and nothing arrives then any more.
LEMMA PhaseStep == TypeOK /\ PhaseInv /\ [Next]_vars => PhaseInv'
<1> SUFFICES ASSUME TypeOK, PhaseInv, [Next]_vars PROVE PhaseInv'
  OBVIOUS
<1> USE DEF PhaseInv
<1>1. CASE Frame \/ SideInfoArrives
  BY <1>1 DEF Frame, SideInfoArrives, Arrives
<1>2. CASE SideInfoDone \/ StampFrame \/ CountFrame
  BY <1>2 DEF SideInfoDone, StampFrame, CountFrame
<1>3. CASE SaveFrame
  BY <1>3 DEF SaveFrame, Saved
<1>4. CASE ConvertFrame
  <2>1. CASE ConvertStep /\ UNCHANGED cb
    <3>1. step # "out"
      BY <2>1 DEF ConvertStep, AllocateNames, AllocateInput, ReadFile, AllocatePicture, OpenPng,
                  CreateStructs, WriteInfo, AllocateRow, WriteRows, Finalise, FreeInput, Goto,
                  Works, Fails, Crashes
    <3> QED  BY <3>1, <2>1, <1>4 DEF ConvertFrame
  <2>2. CASE Return /\ cb' = "idle"
    BY <2>2, <1>4 DEF ConvertFrame, Return
  <2> QED  BY <1>4, <2>1, <2>2 DEF ConvertFrame
<1>5. CASE Stream \/ StampRestart \/ StopStream
  BY <1>5 DEF Stream, StampRestart, StopStream, MainGoto
<1>6. CASE DisablePort
  BY <1>6 DEF DisablePort, MainGoto, TypeOK
<1>7. CASE WriteStamp \/ WriteDone \/ FreeNode \/ FreeLast
  BY <1>7 DEF WriteStamp, WriteDone, FreeNode, FreeLast, MainGoto
<1>8. CASE Tick \/ UNCHANGED vars
  BY <1>8 DEF Tick, vars
<1> QED  BY <1>1, <1>2, <1>3, <1>4, <1>5, <1>6, <1>7, <1>8 DEF Next, CallbackStep, MainStep

-----------------------------------------------------------------------------
(* The converter, the time stamps and the files *)

\* What a conversion has at each of its steps, and what it goes on to.
LEMMA ConversionStep == ConverterType /\ ConverterInv /\ ConvertStep => ConverterInv'
<1> USE DEF ConverterType, ConverterInv, Goto, Works, Fails, Crashes
<1> SUFFICES ASSUME ConverterType, ConverterInv, ConvertStep PROVE ConverterInv'
  OBVIOUS
<1>1. CASE AllocateNames
  BY <1>1 DEF AllocateNames
<1>2. CASE AllocateInput
  BY <1>2 DEF AllocateInput
<1>3. CASE ReadFile
  BY <1>3 DEF ReadFile
<1>4. CASE AllocatePicture
  BY <1>4 DEF AllocatePicture, Pictures
<1>5. CASE OpenPng
  BY <1>5 DEF OpenPng
<1>6. CASE CreateStructs
  BY <1>6 DEF CreateStructs, Info
<1>7. CASE WriteInfo
  BY <1>7 DEF WriteInfo
<1>8. CASE AllocateRow
  BY <1>8 DEF AllocateRow
<1>9. CASE WriteRows
  BY <1>9 DEF WriteRows
<1>10. CASE Finalise
  BY <1>10 DEF Finalise, Finalised
<1>11. CASE FreeInput
  BY <1>11 DEF FreeInput
<1> QED
  BY <1>1, <1>2, <1>3, <1>4, <1>5, <1>6, <1>7, <1>8, <1>9, <1>10, <1>11 DEF ConvertStep

\* Whichever step is taken, a conversion has what it should.
LEMMA ConverterStep == TypeOK /\ PhaseInv /\ ConverterInv /\ [Next]_vars => ConverterInv'
<1> SUFFICES ASSUME TypeOK, PhaseInv, ConverterInv, [Next]_vars PROVE ConverterInv'
  OBVIOUS
<1>t. ConverterType
  BY DEF TypeOK, ConverterType, ConvertSteps
<1>1. CASE ConvertFrame
  <2>1. CASE ConvertStep
    BY <2>1, <1>t, ConversionStep
  <2>2. CASE Return
    BY <2>2 DEF Return, ConverterInv, Idle
  <2> QED  BY <1>1, <2>1, <2>2 DEF ConvertFrame
<1>2. CASE SaveFrame
  <2>1. Idle
    BY <1>2 DEF SaveFrame, Saved, PhaseInv, ConverterInv
  <2> QED  BY <2>1, <1>2 DEF SaveFrame, Saved, ConverterInv, Idle
<1>3. CASE UNCHANGED converter
  BY <1>3 DEF ConverterInv, Idle
<1>4. ConvertFrame \/ SaveFrame \/ UNCHANGED converter
  BY DEF Next, CallbackStep, MainStep, vars, Frame, SideInfoArrives, SideInfoDone, StampFrame,
         CountFrame, Tick, Stream, StampRestart, StopStream, DisablePort, WriteStamp,
         WriteDone, FreeNode, FreeLast
<1> QED  BY <1>1, <1>2, <1>3, <1>4

\* The four times are taken in the order of the clock, the second pair after a restart.
LEMMA StampStep == TypeOK /\ StampInv /\ [Next]_vars => StampInv'
<1> SUFFICES ASSUME TypeOK, StampInv, [Next]_vars PROVE StampInv'
  OBVIOUS
<1> USE DEF StampInv, DelaysArePositive, Unset, AppStart
<1>1. CASE Frame \/ SideInfoArrives \/ SideInfoDone \/ CountFrame
  BY <1>1 DEF Frame, SideInfoArrives, SideInfoDone, CountFrame
<1>2. CASE StampFrame
  BY <1>2 DEF StampFrame, TypeOK
<1>3. CASE SaveFrame \/ ConvertFrame
  BY <1>3 DEF SaveFrame, Saved, ConvertFrame
<1>4. CASE Stream \/ StopStream \/ DisablePort
  BY <1>4 DEF Stream, StopStream, DisablePort, MainGoto
<1>5. CASE StampRestart
  BY <1>5 DEF StampRestart, MainGoto, TypeOK
<1>6. CASE WriteStamp \/ WriteDone \/ FreeNode \/ FreeLast
  BY <1>6 DEF WriteStamp, WriteDone, FreeNode, FreeLast, MainGoto
<1>7. CASE Tick
  BY <1>7 DEF Tick, TypeOK
<1>8. CASE UNCHANGED vars
  BY <1>8 DEF vars
<1> QED  BY <1>1, <1>2, <1>3, <1>4, <1>5, <1>6, <1>7, <1>8 DEF Next, CallbackStep, MainStep

\* A multiple of the rate is followed by one that leaves what 1 leaves.
LEMMA NextToMultiple ==
    ASSUME NEW r \in Nat \ {0}, NEW n \in Nat, n % r = 0
    PROVE  (n + 1) % r = 1 % r
<1> DEFINE q == n \div r
           p == (n + 1) \div r
           m == (n + 1) % r
<1>1. CASE r = 1
  BY <1>1
<1>2. CASE r > 1
  <2>1. q \in Int /\ p \in Int /\ m \in 0 .. r - 1 /\ n = r * q /\ n + 1 = r * p + m
    OBVIOUS
  <2> HIDE DEF q, p, m
  <2>2. r * (p - q) = 1 - m
    BY <2>1
  <2>3. \A a \in Int : (a >= 1 => r * a >= r) /\ (a <= -1 => r * a <= -r)
    BY <1>2
  <2>4. p - q = 0
    BY <1>2, <2>1, <2>2, <2>3
  <2>5. m = 1
    BY <2>1, <2>2, <2>4
  <2>6. 1 % r = 1
    BY <1>2
  <2> QED  BY <2>5, <2>6 DEF m
<1> QED  BY <1>1, <1>2

FilesStepInv == FilesInv /\ SavesEveryNth

\* Files are numbered upwards, with the numbers of every SaveRate-th frame.
LEMMA FilesStep == TypeOK /\ PhaseInv /\ FilesStepInv /\ [Next]_vars => FilesStepInv'
<1> SUFFICES ASSUME TypeOK, PhaseInv, FilesStepInv, [Next]_vars PROVE FilesStepInv'
  OBVIOUS
<1> USE DEF FilesStepInv, FilesInv, SavesEveryNth
<1>n. \A i \in 1 .. Len(files) : files[i].idx \in Nat
  <2>1. \A i \in 1 .. Len(files) : files[i] \in Entries
    BY DEF TypeOK
  <2> QED  BY <2>1 DEF Entries
<1>1. CASE Frame
  <2>1. frames = count + 0 /\ frames' = frames + 1 /\ UNCHANGED <<count, files>> /\ cb' = "stamp"
    BY <1>1 DEF Frame, Arrives
  <2> QED  BY <2>1 DEF TypeOK
<1>2. CASE SideInfoArrives
  <2>1. frames = count + 0 /\ UNCHANGED <<frames, count, files>> /\ cb' = "decoded"
    BY <1>2 DEF SideInfoArrives, Arrives
  <2> QED  BY <2>1
<1>3. CASE SideInfoDone \/ StampFrame \/ Tick
  BY <1>3 DEF SideInfoDone, StampFrame, Tick
<1>4. CASE ConvertFrame
  BY <1>4 DEF ConvertFrame, Return, PhaseInv
<1>5. CASE CountFrame
  <2>1. cb' = "save" => count' % SaveRate = 1 % SaveRate
    BY <1>5, NextToMultiple, CaptureAssumption DEF CountFrame, TypeOK
  <2> QED  BY <2>1, <1>n, <1>5 DEF CountFrame, TypeOK
<1>6. CASE SaveFrame
  <2> DEFINE e == [idx |-> count, pts |-> frames]
  <2>1. files' = Append(files, e) /\ cb = "save" /\ cb' = "convert" /\ UNCHANGED <<frames, count>>
    BY <1>6 DEF SaveFrame, Saved
  <2>2. e \in Entries /\ e.idx = count /\ e.pts = count
    BY <2>1 DEF TypeOK, Entries
  <2>3. /\ Len(files) \in Nat /\ Len(files') = Len(files) + 1
        /\ \A i \in 1 .. Len(files) : files'[i] = files[i]
        /\ files'[Len(files) + 1] = e
    BY <2>1, <2>2, Appended DEF TypeOK
  <2> HIDE DEF e
  <2>4. \A i \in 1 .. Len(files') : i \in 1 .. Len(files) \/ i = Len(files) + 1
    BY <2>3
  <2>5. SavesEveryNth'
    BY <2>1, <2>2, <2>3, <2>4
  <2>6. \A i \in 1 .. Len(files') : files'[i].idx <= count
    BY <2>1, <2>2, <2>3, <2>4 DEF TypeOK
  <2>7. \A i, j \in 1 .. Len(files') : i < j => files'[i].idx < files'[j].idx
    BY <2>1, <2>2, <2>3, <2>4
  <2> QED  BY <2>1, <2>5, <2>6, <2>7
<1>7. CASE Stream \/ StampRestart \/ StopStream \/ DisablePort
  BY <1>7 DEF Stream, StampRestart, StopStream, DisablePort
<1>8. CASE WriteStamp \/ WriteDone \/ FreeNode \/ FreeLast
  BY <1>8 DEF WriteStamp, WriteDone, FreeNode, FreeLast
<1>9. CASE UNCHANGED vars
  BY <1>9 DEF vars
<1> QED
  BY <1>1, <1>2, <1>3, <1>4, <1>5, <1>6, <1>7, <1>8, <1>9 DEF Next, CallbackStep, MainStep

-----------------------------------------------------------------------------
(* The list *)

\* What a saved frame does to the list that has a node to be filled: the node is filled and
\* leads to a new one, or to NULL.
Fills(new, e) ==
    /\ cb = "save" /\ enabled /\ ptso \in heap
    /\ new \notin heap /\ new \in Nodes \cup {Null}
    /\ e = [idx |-> count, pts |-> frames, nxt |-> new]
    /\ node' = [node EXCEPT ![ptso] = e]
    /\ ptso' = new /\ ptsa' = ptsa /\ heap' = heap \cup ({new} \ {Null}) /\ failed' = (new = Null)
    /\ files' = Append(files, [idx |-> count, pts |-> frames])
    /\ cb' = "convert"
    /\ UNCHANGED <<count, main, enabled, cursor, tsFile>>

\* What it does when a malloc has failed.
Keeps == /\ cb = "save" /\ enabled /\ ptso = Null
         /\ UNCHANGED <<heap, node, ptsa, ptso, failed>>
         /\ files' = Append(files, [idx |-> count, pts |-> frames])
         /\ cb' = "convert"
         /\ UNCHANGED <<count, main, enabled, cursor, tsFile>>

\* A saved frame fills a node, or nothing once a malloc has failed.
LEMMA SaveFrameKinds ==
    ASSUME TypeOK, PhaseInv, ListInv, SaveFrame
    PROVE  Keeps \/ \E new, e : Fills(new, e)
<1>1. /\ cb = "save" /\ cb' = "convert"
      /\ files' = Append(files, [idx |-> count, pts |-> frames])
      /\ UNCHANGED <<count, main, enabled, cursor, tsFile>>
  BY DEF SaveFrame, Saved
<1>2. enabled
  BY <1>1 DEF PhaseInv
<1>3. CASE ptso = Null
  BY <1>1, <1>2, <1>3 DEF SaveFrame, Keeps
<1>4. CASE ptso # Null
  <2>1. ptso \in heap
    BY <1>2, <1>4 DEF ListInv
  <2>2. PICK new \in (Nodes \ heap) \cup {Null} :
           /\ node' = [node EXCEPT ![ptso] = [idx |-> count, pts |-> frames, nxt |-> new]]
           /\ ptso' = new /\ heap' = heap \cup ({new} \ {Null}) /\ failed' = (new = Null)
           /\ ptsa' = ptsa
    BY <1>4 DEF SaveFrame
  <2>3. new \notin heap /\ new \in Nodes \cup {Null}
    BY <2>2 DEF TypeOK, Nodes, Null
  <2> QED  BY <1>1, <1>2, <2>1, <2>2, <2>3 DEF Fills
<1> QED  BY <1>3, <1>4

\* The nodes of a list that has been filled further.
LEMMA FillsFacts ==
    ASSUME TypeOK, NEW new, NEW e, Fills(new, e)
    PROVE  /\ ptso \in Nodes /\ ptso # Null
           /\ Filled' = heap /\ heap = Filled \cup {ptso} /\ heap' \subseteq heap \cup {new}
           /\ heap \subseteq heap' /\ new \in heap' \cup {Null}
           /\ node'[ptso] = e /\ e.nxt = new /\ e.idx = count /\ e.pts = frames
           /\ \A n \in Filled : node'[n] = node[n] /\ n \in Nodes
           /\ \A n \in heap : node[n].idx \in Nat /\ node'[n].idx \in Nat
<1>1. ptso \in Nodes /\ ptso # Null /\ heap \subseteq Nodes
  BY DEF Fills, TypeOK, Nodes, Null
<1>2. Filled' = heap /\ heap = Filled \cup {ptso}
  BY <1>1 DEF Fills, Filled, Nodes, Null
<1>3. heap' \subseteq heap \cup {new} /\ heap \subseteq heap' /\ new \in heap' \cup {Null}
  BY DEF Fills
<1>4. node'[ptso] = e /\ e.nxt = new /\ e.idx = count /\ e.pts = frames
  BY <1>1 DEF Fills, TypeOK
<1>5. \A n \in Filled : node'[n] = node[n] /\ n \in Nodes
  BY <1>1 DEF Fills, TypeOK, Filled
<1>6. \A n \in heap : node[n].idx \in Nat
  BY <1>1 DEF TypeOK
<1>7. \A n \in heap : node'[n].idx \in Nat
  BY <1>2, <1>4, <1>5, <1>6 DEF TypeOK
<1> QED  BY <1>1, <1>2, <1>3, <1>4, <1>5, <1>6, <1>7

\* A step keeps the list whole: saving appends to it, freeing takes its first node.
LEMMA ListStep == TypeOK /\ PhaseInv /\ ListInv /\ [Next]_vars => ListInv'
<1> SUFFICES ASSUME TypeOK, PhaseInv, ListInv, [Next]_vars PROVE ListInv'
  OBVIOUS
<1>n. count \in Nat /\ \A n \in Filled : node[n].idx \in Nat
  BY DEF TypeOK, Filled
<1>1. CASE Quiet
  BY <1>1, <1>n DEF Quiet, ListInv, Filled
<1>2. CASE Streams
  BY <1>2 DEF Streams, Streaming, ListInv, Filled
<1>3. CASE SaveFrame
  <2>1. CASE Keeps
    BY <2>1 DEF Keeps, ListInv, Filled
  <2>2. ASSUME NEW new, NEW e, Fills(new, e) PROVE ListInv'
    <3>1. /\ enabled /\ cb = "save" /\ cb' = "convert" /\ ptso' = new /\ ptsa' = ptsa
          /\ new \notin heap /\ count' = count
      BY <2>2 DEF Fills
    <3>2. /\ ptso # Null /\ Filled' = heap /\ heap = Filled \cup {ptso}
          /\ heap' \subseteq heap \cup {new} /\ heap \subseteq heap' /\ new \in heap' \cup {Null}
          /\ node'[ptso].nxt = new /\ node'[ptso].idx = count /\ Null \notin heap
          /\ \A n \in Filled : node'[n] = node[n]
      BY <2>2, FillsFacts DEF TypeOK, Nodes, Null
    <3>3. /\ {ptsa, ptso} \subseteq heap \cup {Null}
          /\ ptsa # Null
          /\ \A n \in Filled :
                /\ node[n].nxt \in (heap \cup {Null}) \ {ptsa}
                /\ node[n].nxt # Null
                /\ node[n].nxt \in Filled => node[n].idx < node[node[n].nxt].idx
                /\ node[n].idx <= count /\ node[n].idx < count
          /\ \A n, m \in Filled : node[n].nxt = node[m].nxt => n = m
          /\ \A n \in heap \ {ptsa} : \E m \in Filled : node[m].nxt = n
      BY <3>1, <3>2 DEF ListInv
    <3>4. ptsa' \in heap' /\ ptso' \in heap' \cup {Null} /\ ptsa' # Null
      BY <3>1, <3>2, <3>3
    <3>5. ASSUME NEW n \in heap
          PROVE  /\ node'[n].nxt \in (heap' \cup {Null}) \ {ptsa}
                 /\ node'[n].nxt = Null => new = Null
                 /\ node'[n].nxt \in heap => node'[n].idx < node'[node'[n].nxt].idx
                 /\ node'[n].idx <= count
      BY <3>1, <3>2, <3>3, <1>n
    <3>6. \A n, m \in heap : node'[n].nxt = node'[m].nxt => n = m
      BY <3>1, <3>2, <3>3
    <3>7. \A n \in heap' \ {ptsa} : \E m \in heap : node'[m].nxt = n
      BY <3>1, <3>2, <3>3
    <3> QED  BY <3>1, <3>2, <3>4, <3>5, <3>6, <3>7 DEF ListInv
  <2> QED  BY <2>1, <2>2, <1>3, SaveFrameKinds
<1>4. CASE DisablePort \/ WriteStamp \/ WriteDone
  BY <1>4 DEF DisablePort, WriteStamp, WriteDone, MainGoto, ListInv, Filled
<1>5. CASE FreeNode
  <2>1. /\ main = "free" /\ main' = "free" /\ ptsa # ptso /\ ptsa' = node[ptsa].nxt
        /\ heap' = heap \ {ptsa} /\ UNCHANGED <<node, ptso, count, cb>>
    BY <1>5 DEF FreeNode
  <2>2. ptsa \in Filled /\ Filled' = Filled \ {ptsa}
    BY <2>1 DEF ListInv, Filled
  <2> QED  BY <2>1, <2>2 DEF ListInv, Filled
<1>6. CASE FreeLast
  BY <1>6 DEF FreeLast, MainGoto, PhaseInv, ListInv
<1> QED  BY <1>1, <1>2, <1>3, <1>4, <1>5, <1>6, StepKinds

\* Nodes are filled with growing numbers, so the list has no cycle: where it ends is its start only
\* when no filled node is left.
LEMMA EmptyList ==
    ASSUME TypeOK, ListInv, main # "done" \/ enabled, ptsa = ptso
    PROVE  Filled = {}
<1> DEFINE T == {node[n].idx : n \in Filled}
<1> SUFFICES ASSUME Filled # {} PROVE FALSE
  OBVIOUS
<1>1. T \subseteq Nat /\ T # {}
  BY DEF TypeOK, Filled
<1>2. PICK least \in T : \A t \in T : ~ (<<t, least>> \in OpToRel(<, Nat))
  <2> HIDE DEF T
  <2> QED  BY <1>1, WFMin, NatLessThanWellFounded
<1>3. \A t \in T : ~ (t < least)
  BY <1>1, <1>2 DEF OpToRel
<1>4. PICK n \in Filled : node[n].idx = least
  OBVIOUS
<1>5. n \in heap \ {ptsa}
  BY DEF Filled
<1>6. PICK m \in Filled : node[m].nxt = n
  BY <1>5 DEF ListInv
<1>7. node[m].idx < node[n].idx
  BY <1>6 DEF ListInv
<1>8. node[m].idx \in T
  OBVIOUS
<1> QED  BY <1>3, <1>4, <1>7, <1>8

\* The list is empty when main frees what it takes for its last node.
LEMMA LeakStep == TypeOK /\ PhaseInv /\ ListInv /\ NoLeakedNode /\ [Next]_vars => NoLeakedNode'
<1> SUFFICES ASSUME TypeOK, PhaseInv, ListInv, NoLeakedNode, [Next]_vars PROVE NoLeakedNode'
  OBVIOUS
<1>1. CASE Quiet \/ Streams
  BY <1>1 DEF Quiet, Streams, Streaming, NoLeakedNode
<1>2. CASE SaveFrame
  BY <1>2 DEF SaveFrame, Saved, PhaseInv, NoLeakedNode
<1>3. CASE DisablePort \/ WriteStamp \/ WriteDone \/ FreeNode
  BY <1>3 DEF DisablePort, WriteStamp, WriteDone, FreeNode, MainGoto, PhaseInv, NoLeakedNode
<1>4. CASE FreeLast
  <2>1. main = "free" /\ ptsa = ptso /\ heap' = heap \ {ptso}
    BY <1>4 DEF FreeLast, MainGoto
  <2>2. Filled = {}
    BY <2>1, EmptyList
  <2> QED  BY <2>1, <2>2 DEF Filled, NoLeakedNode
<1> QED  BY <1>1, <1>2, <1>3, <1>4, StepKinds

-----------------------------------------------------------------------------
(* The list and the files *)

\* The list has a node for each of the first files, in their order; while there is a node to be
\* filled it has one for all of them.
LEMMA OrderStep == TypeOK /\ PhaseInv /\ ListInv /\ OrderInv /\ [Next]_vars => OrderInv'
<1> SUFFICES ASSUME TypeOK, PhaseInv, ListInv, OrderInv, [Next]_vars PROVE OrderInv'
  OBVIOUS
<1>1. CASE Quiet
  BY <1>1 DEF Quiet, OrderInv, Filled, Entry
<1>2. CASE Streams
  BY <1>2 DEF Streams, Streaming, OrderInv, Filled, Entry
<1>3. CASE SaveFrame
  <2> DEFINE f == [idx |-> count, pts |-> frames]
  <2>1. files' = Append(files, f) /\ cb = "save"
    BY <1>3 DEF SaveFrame, Saved
  <2>2. f \in Entries
    BY DEF TypeOK, Entries
  <2>3. /\ Len(files) \in Nat /\ Len(files') = Len(files) + 1 /\ files' # <<>>
        /\ \A i \in 1 .. Len(files) : files'[i] = files[i]
        /\ files'[Len(files) + 1] = f
        /\ files # <<>> => Len(files) >= 1
    BY <2>1, <2>2, Appended, EmptySeq DEF TypeOK
  <2>4. CASE main \in {"free", "done"}
    BY <2>4, <1>3 DEF SaveFrame, Saved, OrderInv
  <2>5. CASE main \notin {"free", "done"}
    <3>1. CASE Keeps
      <4>1. UNCHANGED <<heap, node, ptsa, ptso, failed, main>> /\ ptso = Null
        BY <3>1 DEF Keeps
      <4>2. /\ failed
            /\ ptsa # ptso => files # <<>> /\ Entry(ptsa) = files[1]
            /\ \A n \in Filled : node[n].nxt # ptso =>
                   \E k \in 1 .. Len(files) - 1 :
                       files[k] = Entry(n) /\ files[k + 1] = Entry(node[n].nxt)
        BY <2>5, <4>1 DEF OrderInv
      <4>3. ptsa # ptso => Entry(ptsa) = files'[1]
        BY <4>2, <2>3
      <4>4. ASSUME NEW n \in Filled, node[n].nxt # ptso
            PROVE  \E k \in 1 .. Len(files') - 1 :
                       files'[k] = Entry(n) /\ files'[k + 1] = Entry(node[n].nxt)
        <5>1. PICK k \in 1 .. Len(files) - 1 :
                 files[k] = Entry(n) /\ files[k + 1] = Entry(node[n].nxt)
          BY <4>2, <4>4
        <5> QED  BY <5>1, <2>3
      <4> QED  BY <4>1, <4>2, <4>3, <4>4, <2>3 DEF OrderInv, Filled, Entry
    <3>2. ASSUME NEW new, NEW e, Fills(new, e) PROVE OrderInv'
      <4> DEFINE Now(n) == [idx |-> node'[n].idx, pts |-> node'[n].pts]
      <4>1. /\ ptso' = new /\ ptsa' = ptsa /\ failed' = (new = Null) /\ new \notin heap
            /\ enabled
        BY <3>2 DEF Fills
      <4>2. /\ ptso # Null /\ Filled' = heap /\ heap = Filled \cup {ptso}
            /\ node'[ptso].nxt = new /\ Now(ptso) = f
            /\ \A n \in Filled : node'[n] = node[n] /\ Now(n) = Entry(n)
        BY <3>2, FillsFacts DEF Entry
      <4>3. /\ ptsa \in heap
            /\ \A n \in Filled : node[n].nxt \in heap
        BY <4>1, <4>2 DEF ListInv
      <4>4. /\ ptsa # ptso => files # <<>> /\ Entry(ptsa) = files[1]
            /\ ptsa = ptso => files = <<>>
            /\ \A n \in Filled :
                  IF node[n].nxt = ptso
                  THEN files # <<>> /\ Entry(n) = files[Len(files)]
                  ELSE \E k \in 1 .. Len(files) - 1 :
                           files[k] = Entry(n) /\ files[k + 1] = Entry(node[n].nxt)
        BY <2>5, <4>2 DEF OrderInv
      <4>5. Now(ptsa) = files'[1]
        <5>1. CASE ptsa = ptso
          BY <5>1, <4>1, <4>2, <4>4, <2>3
        <5>2. CASE ptsa # ptso
          <6>1. ptsa \in Filled /\ files'[1] = files[1]
            BY <5>2, <4>2, <4>3, <4>4, <2>3
          <6> QED  BY <6>1, <5>2, <4>1, <4>2, <4>4
        <5> QED  BY <5>1, <5>2
      <4>6. ptsa # new
        BY <4>1, <4>3
      <4>7. ASSUME NEW n \in heap
            PROVE  IF node'[n].nxt = new
                   THEN Now(n) = files'[Len(files')]
                   ELSE \E k \in 1 .. Len(files') - 1 :
                            files'[k] = Now(n) /\ files'[k + 1] = Now(node'[n].nxt)
        <5>1. CASE n = ptso
          BY <5>1, <4>2, <2>3
        <5>2. CASE n \in Filled /\ node[n].nxt = ptso
          <6>1. Now(n) = files'[Len(files)] /\ Len(files) >= 1
            BY <5>2, <4>2, <4>4, <2>3
          <6>2. Now(node[n].nxt) = files'[Len(files) + 1] /\ node'[n].nxt # new
            BY <5>2, <4>1, <4>2, <4>3, <2>3
          <6> QED  BY <5>2, <6>1, <6>2, <4>2, <2>3
        <5>3. CASE n \in Filled /\ node[n].nxt # ptso
          <6>1. PICK k \in 1 .. Len(files) - 1 :
                   files[k] = Entry(n) /\ files[k + 1] = Entry(node[n].nxt)
            BY <5>3, <4>4
          <6>2. node[n].nxt \in Filled
            BY <5>3, <4>2, <4>3
          <6>3. files'[k] = Now(n) /\ files'[k + 1] = Now(node[n].nxt)
            BY <6>1, <6>2, <5>3, <4>2, <2>3
          <6> QED  BY <6>1, <6>2, <6>3, <5>3, <4>1, <4>2, <2>3
        <5> QED  BY <5>1, <5>2, <5>3, <4>2
      <4>8. \A n : Now(n) = Entry(n)'
        BY DEF Entry
      <4>9. /\ failed' <=> ptso' = Null
            /\ ptsa' # ptso' /\ files' # <<>> /\ Entry(ptsa)' = files'[1]
        BY <4>1, <4>5, <4>6, <4>8, <2>3 DEF Entry
      <4> HIDE DEF Now
      <4>10. ASSUME NEW n \in heap
             PROVE  IF node'[n].nxt = ptso'
                    THEN Entry(n)' = files'[Len(files')]
                    ELSE \E k \in 1 .. Len(files') - 1 :
                             files'[k] = Entry(n)' /\ files'[k + 1] = Entry(node[n].nxt)'
        BY <4>1, <4>7, <4>8 DEF Entry
      <4> QED  BY <4>2, <4>9, <4>10 DEF OrderInv
    <3> QED  BY <3>1, <3>2, <1>3, SaveFrameKinds
  <2> QED  BY <2>4, <2>5
<1>4. CASE DisablePort \/ WriteStamp
  BY <1>4 DEF DisablePort, WriteStamp, MainGoto, OrderInv, Filled, Entry
<1>5. CASE WriteDone \/ FreeNode \/ FreeLast
  BY <1>5 DEF WriteDone, FreeNode, FreeLast, MainGoto, OrderInv
<1> QED  BY <1>1, <1>2, <1>3, <1>4, <1>5, StepKinds

\* The line that main writes is that of the next file, and its next node is that of the file after.
LEMMA WriteStampFacts ==
    ASSUME IInv, WriteStamp
    PROVE  /\ main = "write" /\ cursor \in Filled /\ cursor' = node[cursor].nxt
           /\ tsFile' = Append(tsFile, Entry(cursor)) /\ Entry(cursor) \in Entries
           /\ tsFile \in Seq(Entries)
           /\ Len(tsFile) < Len(files) /\ Entry(cursor) = files[Len(tsFile) + 1]
<1>1. TypeOK /\ PhaseInv /\ ListInv /\ WriteInv
  BY DEF IInv
<1>2. main = "write" /\ cursor # ptso /\ cursor' = node[cursor].nxt
  BY DEF WriteStamp
<1>3. cursor \in Filled /\ cursor \in Nodes
  BY <1>1, <1>2, NodesOfList
<1>4. Entry(cursor) \in Entries /\ tsFile \in Seq(Entries)
  BY <1>1, <1>3 DEF TypeOK, Entry, Entries
<1>5. tsFile' = Append(tsFile, Entry(cursor))
  BY DEF WriteStamp, Entry
<1>6. Len(tsFile) < Len(files) /\ Entry(cursor) = files[Len(tsFile) + 1]
  BY <1>1, <1>2 DEF WriteInv
<1> QED  BY <1>2, <1>3, <1>4, <1>5, <1>6

\* main's place in the list is that of the next file, and the end of both is the same.
LEMMA WriteStep == IInv /\ [Next]_vars => WriteInv'
<1> SUFFICES ASSUME IInv, [Next]_vars PROVE WriteInv'
  OBVIOUS
<1>i. TypeOK /\ PhaseInv /\ FilesInv /\ ListInv /\ OrderInv /\ WriteInv
  BY DEF IInv
<1>1. CASE Quiet
  BY <1>1, <1>i DEF Quiet, WriteInv, Entry
<1>2. CASE Streams
  BY <1>2, <1>i DEF Streams, Streaming, WriteInv
<1>3. CASE SaveFrame
  <2>1. enabled /\ UNCHANGED <<main, enabled, tsFile>>
    BY <1>3, <1>i DEF SaveFrame, Saved, PhaseInv
  <2> QED  BY <2>1, <1>i DEF WriteInv, PhaseInv
<1>4. CASE DisablePort
  <2>1. /\ main = "disable" /\ main' \in {"write", "done"} /\ cursor' = ptsa
        /\ UNCHANGED <<heap, node, ptsa, ptso, failed, files, tsFile>>
    BY <1>4 DEF DisablePort, MainGoto
  <2>2. tsFile = <<>> /\ Len(tsFile) = 0 /\ Len(files) \in Nat
    BY <2>1, <1>i DEF WriteInv, TypeOK
  <2>3. /\ ptsa \in heap \cup {Null}
        /\ ptsa = Null => ptso = Null
    BY <2>1, <1>i DEF ListInv
  <2>4. /\ ptsa # ptso => Len(files) > 0 /\ files[1] = Entry(ptsa)
        /\ ptsa = ptso /\ ~ failed => Len(files) = 0
    BY <2>1, <2>2, <1>i, EmptySeq DEF OrderInv, TypeOK
  <2> QED  BY <2>1, <2>2, <2>3, <2>4 DEF WriteInv, Entry
<1>5. CASE WriteStamp
  <2> DEFINE l == Len(tsFile) + 1
  <2>i. \A i, j \in 1 .. Len(files) : files[i] = files[j] => i = j
    <3>1. \A i \in 1 .. Len(files) : files[i] \in Entries
      BY <1>i DEF TypeOK
    <3>2. \A i \in 1 .. Len(files) : files[i].idx \in Nat
      BY <3>1 DEF Entries
    <3>3. \A i, j \in 1 .. Len(files) : i < j => files[i].idx < files[j].idx
      BY <1>i DEF FilesInv
    <3>4. \A i, j \in 1 .. Len(files) : i < j => files[i] # files[j]
      BY <3>2, <3>3
    <3>5. Len(files) \in Nat
      BY <1>i DEF TypeOK
    <3> QED  BY <3>4, <3>5
  <2>1. /\ main = "write" /\ main' = "write" /\ cursor \in Filled /\ cursor' = node[cursor].nxt
        /\ Entry(cursor) = files[l] /\ l <= Len(files)
        /\ UNCHANGED <<heap, node, ptsa, ptso, failed, files>>
    BY <1>5, <1>i, WriteStampFacts, LenProperties DEF WriteStamp, TypeOK
  <2>2. Len(tsFile') = l /\ tsFile' # <<>> /\ l \in Nat \ {0} /\ Len(files) \in Nat
    BY <1>5, WriteStampFacts, Appended, <1>i DEF TypeOK
  <2> HIDE DEF l
  <2>3. /\ cursor' \in (heap \cup {Null}) \ {ptsa}
        /\ cursor' = Null => ptso = Null
    BY <2>1, <1>i DEF ListInv
  <2>4. ASSUME cursor' # ptso PROVE l < Len(files) /\ files[l + 1] = Entry(cursor)'
    <3>1. PICK k \in 1 .. Len(files) - 1 :
             files[k] = Entry(cursor) /\ files[k + 1] = Entry(node[cursor].nxt)
      BY <2>1, <2>4, <1>i DEF OrderInv
    <3>2. k = l
      <4>1. files[k] = files[l] /\ k \in 1 .. Len(files) /\ l \in 1 .. Len(files)
        BY <3>1, <2>1, <2>2
      <4> QED  BY <4>1, <2>i
    <3> QED  BY <3>1, <3>2, <2>1, <2>2 DEF Entry
  <2>5. ASSUME cursor' = ptso, ~ failed PROVE l = Len(files)
    <3>1. ptso # Null
      BY <2>5, <2>1, <1>i DEF OrderInv
    <3>2. files # <<>> /\ Entry(cursor) = files[Len(files)]
      BY <3>1, <2>5, <2>1, <1>i DEF OrderInv
    <3>3. l \in 1 .. Len(files) /\ Len(files) \in 1 .. Len(files)
      BY <2>1, <2>2
    <3> QED  BY <3>2, <3>3, <2>1, <2>i
  <2> QED  BY <2>1, <2>2, <2>3, <2>4, <2>5 DEF WriteInv
<1>6. CASE WriteDone \/ FreeNode \/ FreeLast
  BY <1>6, <1>i DEF WriteDone, FreeNode, FreeLast, MainGoto, WriteInv, PhaseInv
<1> QED  BY <1>1, <1>2, <1>3, <1>4, <1>5, <1>6, StepKinds

\* What main has written are the first files.
LEMMA WrittenStep == IInv /\ [Next]_vars => Written'
<1> SUFFICES ASSUME IInv, [Next]_vars PROVE Written'
  OBVIOUS
<1>i. TypeOK /\ Written
  BY DEF IInv
<1>1. CASE Quiet \/ Streams
  BY <1>1, <1>i DEF Quiet, Streams, Written
<1>2. CASE SaveFrame
  <2>1. files' = Append(files, [idx |-> count, pts |-> frames]) /\ UNCHANGED tsFile
    BY <1>2 DEF SaveFrame, Saved
  <2>2. [idx |-> count, pts |-> frames] \in Entries
    BY <1>i DEF TypeOK, Entries
  <2>3. /\ Len(files) \in Nat /\ Len(files') = Len(files) + 1
        /\ \A i \in 1 .. Len(files) : files'[i] = files[i]
    BY <2>1, <2>2, <1>i, Appended DEF TypeOK
  <2>4. Len(tsFile) \in Nat
    BY <1>i DEF TypeOK
  <2> QED  BY <2>1, <2>3, <2>4, <1>i DEF Written
<1>3. CASE WriteStamp
  <2>1. /\ Len(tsFile) \in Nat /\ Len(tsFile') = Len(tsFile) + 1
        /\ \A i \in 1 .. Len(tsFile) : tsFile'[i] = tsFile[i]
        /\ tsFile'[Len(tsFile) + 1] = Entry(cursor)
    BY <1>3, WriteStampFacts, Appended
  <2>2. Len(tsFile) < Len(files) /\ Entry(cursor) = files[Len(tsFile) + 1] /\ files' = files
    BY <1>3, WriteStampFacts DEF WriteStamp
  <2>3. Len(files) \in Nat
    BY <1>i DEF TypeOK
  <2> QED  BY <2>1, <2>2, <2>3, <1>i DEF Written
<1>4. CASE DisablePort \/ WriteDone \/ FreeNode \/ FreeLast
  BY <1>4, <1>i DEF DisablePort, WriteDone, FreeNode, FreeLast, Written
<1> QED  BY <1>1, <1>2, <1>3, <1>4, StepKinds

\* When the end of the list is reached all files have been written.
LEMMA CompleteStep == IInv /\ [Next]_vars => TimesAreComplete'
<1> SUFFICES ASSUME IInv, [Next]_vars PROVE TimesAreComplete'
  OBVIOUS
<1>i. TypeOK /\ PhaseInv /\ WriteInv /\ Written /\ TimesAreComplete
  BY DEF IInv
<1>1. CASE Quiet \/ Streams
  BY <1>1, <1>i DEF Quiet, Streams, Streaming, TimesAreComplete
<1>2. CASE SaveFrame
  <2>1. enabled /\ UNCHANGED <<main, enabled, tsFile>>
    BY <1>2, <1>i DEF SaveFrame, Saved, PhaseInv
  <2> QED  BY <2>1, <1>i DEF PhaseInv, WriteInv, TimesAreComplete
<1>3. CASE DisablePort \/ WriteStamp
  BY <1>3, <1>i DEF DisablePort, WriteStamp, MainGoto, WriteInv, TimesAreComplete
<1>4. CASE WriteDone
  <2>1. main = "write" /\ UNCHANGED <<failed, files, tsFile>>
    BY <1>4 DEF WriteDone, MainGoto
  <2>2. CASE cursor = ptso
    <3>1. ASSUME ~ failed PROVE tsFile = files
      <4>1. Len(tsFile) = Len(files)
        BY <2>1, <2>2, <3>1, <1>i DEF WriteInv
      <4>2. tsFile \in Seq(Entries) /\ files \in Seq(Entries)
        BY <1>i DEF TypeOK
      <4>3. \A i \in 1 .. Len(tsFile) : tsFile[i] = files[i]
        BY <1>i DEF Written
      <4> QED  BY <4>1, <4>2, <4>3, SeqEqual
    <3> QED  BY <2>1, <3>1 DEF TimesAreComplete
  <2>3. CASE cursor = ptsa
    BY <2>1, <2>3, <1>i DEF WriteInv, TimesAreComplete
  <2> QED  BY <2>2, <2>3, <1>4 DEF WriteDone
<1>5. CASE FreeNode \/ FreeLast
  BY <1>5, <1>i DEF FreeNode, FreeLast, MainGoto, TimesAreComplete
<1> QED  BY <1>1, <1>2, <1>3, <1>4, <1>5, StepKinds

-----------------------------------------------------------------------------
(* The theorems *)

\* Every step preserves the inductive invariant, whichever thread takes it.
LEMMA InvStep == IInv /\ [Next]_vars => IInv'
<1> SUFFICES ASSUME IInv, [Next]_vars PROVE IInv'
  OBVIOUS
<1>1. TypeOK' /\ PhaseInv' /\ ConverterInv' /\ StampInv'
  BY TypeStep, PhaseStep, ConverterStep, StampStep DEF IInv
<1>2. FilesInv' /\ SavesEveryNth'
  BY FilesStep DEF IInv, FilesStepInv
<1>3. ListInv' /\ NoLeakedNode' /\ OrderInv'
  BY ListStep, LeakStep, OrderStep DEF IInv
<1>4. WriteInv' /\ Written' /\ TimesAreComplete'
  BY WriteStep, WrittenStep, CompleteStep
<1> QED  BY <1>1, <1>2, <1>3, <1>4 DEF IInv

\* The invariant IInv is inductive: whatever callback and main do, in whatever order, the list
\* between them stays whole and in the order of the files (raspiraw.c:578-649, 2257-2358).
THEOREM InductiveInvariant == Spec => []IInv
<1>1. Init => IInv
  BY InitInv
<1>2. IInv /\ [Next]_vars => IInv'
  BY InvStep
<1> QED  BY <1>1, <1>2, PTL DEF Spec

\* Neither thread ever follows a pointer to a node that main has freed, for any number of frames
\* and any failures of malloc (raspiraw.c:610, 2336, 2353).
THEOREM NodesDoNotDangle == Spec => []NoDanglingNode
<1>1. IInv => NoDanglingNode
  BY NodesOfList DEF IInv, NoDanglingNode, ListInv, Filled
<1> QED  BY <1>1, InductiveInvariant, PTL

\* main frees all of the list, unless the port could not be disabled (raspiraw.c:2351-2357).
THEOREM NodesDoNotLeak == Spec => []NoLeakedNode
<1>1. IInv => NoLeakedNode
  BY DEF IInv
<1> QED  BY <1>1, InductiveInvariant, PTL

\* Every line of the time stamp file is of a saved frame, in order and without a gap
\* (raspiraw.c:608-614, 2336).
THEOREM TimesAreTrue == Spec => []TimesAreOfSavedFrames
<1>1. IInv => TimesAreOfSavedFrames
  <2> SUFFICES ASSUME IInv PROVE TimesAreOfSavedFrames
    OBVIOUS
  <2>1. /\ tsFile \in Seq(Entries) /\ files \in Seq(Entries)
        /\ Len(tsFile) <= Len(files)
        /\ \A i \in 1 .. Len(tsFile) : tsFile[i] = files[i]
    BY DEF IInv, TypeOK, Written
  <2> DEFINE s == SubSeq(tsFile, 1, Len(tsFile))
             t == SubSeq(files, 1, Len(tsFile))
  <2>2. /\ s \in Seq(Entries) /\ t \in Seq(Entries)
        /\ Len(s) = Len(tsFile) /\ Len(t) = Len(tsFile)
        /\ \A i \in 1 .. Len(tsFile) : s[i] = tsFile[i] /\ t[i] = files[i]
    BY <2>1
  <2>3. s = t
    <3> HIDE DEF s, t
    <3> QED  BY <2>1, <2>2, SeqEqual
  <2> QED  BY <2>1, <2>3 DEF TimesAreOfSavedFrames, IsPrefix
<1> QED  BY <1>1, InductiveInvariant, PTL

\* If memory lasted and the time stamp file could be opened, it lists all saved frames
\* (raspiraw.c:2334-2341).
THEOREM TimesAreAll == Spec => []TimesAreComplete
<1>1. IInv => TimesAreComplete
  BY DEF IInv
<1> QED  BY <1>1, InductiveInvariant, PTL

\* For any rate, the frames that are saved are every rate-th one from the first on
\* (raspiraw.c:597-605).
THEOREM EveryNthIsSaved == Spec => []SavesEveryNth
<1>1. IInv => SavesEveryNth
  BY DEF IInv
<1> QED  BY <1>1, InductiveInvariant, PTL

\* The delays that main reports are not negative (raspiraw.c:2273-2274).
THEOREM DelaysAreInOrder == Spec => []DelaysArePositive
<1>1. IInv => DelaysArePositive
  BY DEF IInv, StampInv
<1> QED  BY <1>1, InductiveInvariant, PTL

\* Whichever of its calls fails, a conversion leaves open and allocated only what the code never
\* releases (converter.c:89-106, 137, 150).
THEOREM ConversionReleases == Spec => []ConverterReleases
<1>1. IInv => ConverterReleases
  BY DEF IInv, TypeOK, ConverterInv, ConverterReleases, Blocks
<1> QED  BY <1>1, InductiveInvariant, PTL
=============================================================================
