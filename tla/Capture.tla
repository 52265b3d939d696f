------------------------------ MODULE Capture ------------------------------
(***************************************************************************)
(* Saving frames: the first half of callback (raspiraw.c:578-649), which   *)
(* runs on MMAL's thread, and what main does around it: the two streaming  *)
(* periods, their time stamps, the disabling of the port, and the writing  *)
(* and freeing of the list of presentation times (2257-2358).  Each file   *)
(* is converted to two pictures before callback goes on (Converter), and   *)
(* buffers of side information are decoded (Metadata).                     *)
(*                                                                         *)
(* The two threads share the list (cfg.ptsa, cfg.ptso) and the four time   *)
(* stamps without a lock.  A frame is its number; its pts grows with it.   *)
(* File names and headers are left out.                                    *)
(***************************************************************************)
EXTENDS Naturals, Sequences, FiniteSets, SequencesExt, Converter, Metadata

CONSTANTS
    MaxFrames,      \* bound: frames delivered in a run
    MaxClock,       \* bound: ticks of the clock
    SaveRate,       \* cfg.saverate
    SideInfo        \* what the sensor may send as side information: records of depth, writes
                    \* (a sequence of registers and their values) and filler

ASSUME CaptureAssumption == /\ MaxFrames \in Nat
                            /\ MaxClock \in Nat
                            /\ SaveRate \in Nat \ {0}
                            /\ {MallocMayFail, FilesMayFail} \subseteq BOOLEAN
                            /\ \A i \in SideInfo : i.depth \in {8, 10, 12}

Null == 0
Nodes == 1 .. MaxFrames + 1   \* the heap can hold a node per frame and the sentinel
Unset == 0                    \* a time stamp's tv_sec == 0

VARIABLES
    clock,             \* the time gettimeofday returns
    frames,            \* frames delivered, which is also the last one's pts
    count,             \* callback's static count
    files,             \* the frames whose file has been written: [idx, pts]
    heap,              \* allocated nodes
    node,              \* node[n]: its idx, pts and nxt; garbage after malloc
    ptsa, ptso,        \* first node, and the node to be filled next
    failed,            \* has a malloc failed?
    first, restart, restartFirst,   \* first_frame, streaming_restart, restart_first_frame
    cb,                \* where callback is
    info,              \* the side information in the buffer, if cb is "decoded"
    listed,            \* and the registers that decodemetadataline finds in it
    main,              \* where main is
    enabled,           \* is the output port enabled?
    cursor,            \* main's aux
    tsFile             \* the lines of the time stamp file

listVars == <<heap, node, ptsa, ptso, failed>>
stampVars == <<first, restart, restartFirst>>
metaVars == <<info, listed>>
savedVars == <<frames, count, files>>
cbVars == <<savedVars, cb, metaVars, converter>>
mainVars == <<main, enabled, cursor, tsFile>>
vars == <<clock, listVars, stampVars, cbVars, mainVars>>

Garbage == [idx |-> 0, pts |-> 0, nxt |-> Null]
AppStart == 1
\* The side information i as the sensor sends it.
Line(i) == MetadataLine(i.writes, i.depth, i.filler)
NoInfo == [depth |-> 8, writes |-> <<>>, filler |-> Skip]

\* The command line has allocated the sentinel; the port is enabled.
Init == /\ clock = AppStart
        /\ frames = 0
        /\ count = 0
        /\ files = <<>>
        /\ node = [n \in Nodes |-> Garbage]
        /\ \/ heap = {1} /\ ptsa = 1 /\ ptso = 1 /\ failed = FALSE
           \/ MallocMayFail /\ heap = {} /\ ptsa = Null /\ ptso = Null /\ failed = TRUE
        /\ first = Unset
        /\ restart = Unset
        /\ restartFirst = Unset
        /\ cb = "idle" /\ info = NoInfo /\ listed = <<>>
        /\ Idle
        /\ main = "start"
        /\ enabled = TRUE
        /\ cursor = Null
        /\ tsFile = <<>>

-----------------------------------------------------------------------------
(* callback *)

\* A buffer may arrive while the sensor streams, or late, until the port is disabled.
Arrives == /\ cb = "idle"
           /\ enabled
           /\ main \notin {"start", "write", "free", "done"}

Frame == /\ Arrives
         /\ frames < MaxFrames
         /\ frames' = frames + 1
         /\ cb' = "stamp"
         /\ UNCHANGED <<clock, count, files, listVars, stampVars, metaVars, converter, mainVars>>

\* Mutant: side information is counted like a frame.
SideInfoCounted ==
    /\ Arrives
    /\ \E i \in SideInfo : info' = i
    /\ listed' = decodemetadataline(Line(info'), encoding_to_bpp(info'.depth))
    /\ cb' = "decoded" /\ count' = count + 1
    /\ UNCHANGED <<clock, frames, files, listVars, stampVars, converter, mainVars>>

\* A buffer of side information is neither stamped, counted nor saved.  It has two lines of
\* metadata, which are decoded alike.
SideInfoArrives ==
    /\ Arrives
    /\ \E i \in SideInfo : info' = i
    /\ listed' = decodemetadataline(Line(info'), encoding_to_bpp(info'.depth))
    /\ cb' = "decoded"
    /\ UNCHANGED <<clock, frames, count, files, listVars, stampVars, converter, mainVars>>

SideInfoDone ==
    /\ cb = "decoded" /\ cb' = "idle"
    /\ info' = NoInfo /\ listed' = <<>>
    /\ UNCHANGED <<clock, frames, count, files, listVars, stampVars, converter, mainVars>>

\* Mutant: the test of streaming_restart is missing.
StampFrameEarly == /\ cb = "stamp" /\ cb' = "count"
                   /\ IF first = Unset
                      THEN first' = clock /\ UNCHANGED restartFirst
                      ELSE /\ restartFirst' = IF restartFirst = Unset THEN clock ELSE restartFirst
                           /\ UNCHANGED first
                   /\ UNCHANGED <<clock, savedVars, listVars, restart, metaVars, converter, mainVars>>

StampFrame == /\ cb = "stamp" /\ cb' = "count"
              /\ IF first = Unset
                 THEN first' = clock /\ UNCHANGED restartFirst
                 ELSE /\ restartFirst' = IF restart # Unset /\ restartFirst = Unset
                                         THEN clock ELSE restartFirst
                      /\ UNCHANGED first
              /\ UNCHANGED <<clock, savedVars, listVars, restart, metaVars, converter, mainVars>>

\* Every SaveRate-th frame is saved, if its file can be opened.
CountFrame == /\ cb = "count"
              /\ count' = count + 1
              /\ \/ count % SaveRate = 0 /\ cb' = "save"
                 \/ count % SaveRate = 0 /\ FilesMayFail /\ cb' = "idle"
                 \/ count % SaveRate # 0 /\ cb' = "idle"
              /\ UNCHANGED <<clock, frames, files, listVars, stampVars, metaVars, converter,
                             mainVars>>

\* Then the file is converted.
Saved == /\ cb = "save" /\ cb' = "convert"
         /\ files' = Append(files, [idx |-> count, pts |-> frames])
         /\ step' = "names"
         /\ UNCHANGED <<half, res, blocks, row, clock, frames, count, stampVars, metaVars, mainVars>>

\* Mutant: the new node is filled, not the waiting one.
SaveFrameIntoNext ==
    /\ Saved
    /\ \/ ptso = Null /\ UNCHANGED listVars
       \/ /\ ptso # Null
          /\ \E new \in Nodes \ heap :
                /\ node' = [node EXCEPT ![ptso].nxt = new,
                                        ![new] = [idx |-> count, pts |-> frames, nxt |-> Null]]
                /\ ptso' = new
                /\ heap' = heap \cup {new}
          /\ UNCHANGED <<ptsa, failed>>

\* The frame goes to its file, and its time into the list: the node at ptso is filled
\* and a new one is allocated.  When that fails ptso stays NULL from then on.
SaveFrame ==
    /\ Saved
    /\ \/ ptso = Null /\ UNCHANGED listVars
       \/ /\ ptso # Null
          /\ \E new \in (Nodes \ heap) \cup (IF MallocMayFail THEN {Null} ELSE {}) :
                /\ node' = [node EXCEPT ![ptso] = [idx |-> count, pts |-> frames, nxt |-> new]]
                /\ ptso' = new
                /\ heap' = heap \cup ({new} \ {Null})
                /\ failed' = (new = Null)
          /\ UNCHANGED ptsa

ConvertFrame == /\ \/ ConvertStep /\ UNCHANGED cb
                   \/ Return /\ cb' = "idle"
                /\ UNCHANGED <<clock, savedVars, listVars, stampVars, metaVars, mainVars>>

-----------------------------------------------------------------------------
(* main *)

MainGoto(from, to) == main = from /\ main' = to

\* start_camera_streaming, vcos_sleep, stop_camera_streaming, start_camera_streaming:
\* the restart is stamped only after the sensor has been started again.
Stream == /\ \/ MainGoto("start", "first")
             \/ MainGoto("first", "pause")
             \/ MainGoto("pause", "started")
          /\ UNCHANGED <<clock, cbVars, listVars, stampVars, enabled, cursor, tsFile>>

StampRestart == /\ MainGoto("started", "second")
                /\ restart' = clock
                /\ UNCHANGED <<clock, cbVars, listVars, first, restartFirst, enabled, cursor, tsFile>>

StopStream == /\ MainGoto("second", "disable")
              /\ UNCHANGED <<clock, cbVars, listVars, stampVars, enabled, cursor, tsFile>>

\* Mutant: main goes on without disabling the port.
DisablePortNot == /\ MainGoto("disable", "write")
                  /\ cursor' = ptsa
                  /\ UNCHANGED <<clock, cbVars, listVars, stampVars, enabled, tsFile>>

\* mmal_port_disable returns when no callback is running; if it fails, so does main.
DisablePort == /\ \/ MainGoto("disable", "write") /\ cb = "idle" /\ enabled' = FALSE
                  \/ MainGoto("disable", "done") /\ UNCHANGED enabled
               /\ cursor' = ptsa
               /\ UNCHANGED <<clock, cbVars, listVars, stampVars, tsFile>>

\* for (aux = cfg.ptsa; aux != cfg.ptso; aux = aux->nxt)
WriteStamp == /\ main = "write"
              /\ cursor # ptso
              /\ tsFile' = Append(tsFile, [idx |-> node[cursor].idx, pts |-> node[cursor].pts])
              /\ cursor' = node[cursor].nxt
              /\ UNCHANGED <<clock, cbVars, listVars, stampVars, main, enabled>>

\* Mutant: the loop ends one node too early.
WriteDoneEarly == /\ MainGoto("write", "free")
                  /\ \/ cursor = ptso
                     \/ cursor # Null /\ node[cursor].nxt = ptso
                  /\ UNCHANGED <<clock, cbVars, listVars, stampVars, enabled, cursor, tsFile>>

\* The file may not open; then nothing is written.
WriteDone == /\ MainGoto("write", "free")
             /\ cursor = ptso \/ (FilesMayFail /\ cursor = ptsa)
             /\ UNCHANGED <<clock, cbVars, listVars, stampVars, enabled, cursor, tsFile>>

\* while (cfg.ptsa != cfg.ptso) ...
FreeNode == /\ main = "free"
            /\ ptsa # ptso
            /\ ptsa' = node[ptsa].nxt
            /\ heap' = heap \ {ptsa}
            /\ UNCHANGED <<clock, cbVars, node, ptso, failed, stampVars, mainVars>>

\* Mutant: the node that waits to be filled is forgotten.
FreeLastNot == /\ MainGoto("free", "done")
               /\ ptsa = ptso
               /\ UNCHANGED <<clock, cbVars, listVars, stampVars, enabled, cursor, tsFile>>

FreeLast == /\ MainGoto("free", "done")
            /\ ptsa = ptso
            /\ heap' = heap \ {ptso}
            /\ UNCHANGED <<clock, cbVars, node, ptsa, ptso, failed, stampVars, enabled, cursor, tsFile>>

-----------------------------------------------------------------------------
Tick == /\ clock < MaxClock
        /\ clock' = clock + 1
        /\ UNCHANGED <<cbVars, listVars, stampVars, mainVars>>

CallbackStep == SideInfoDone \/ StampFrame \/ CountFrame \/ SaveFrame \/ ConvertFrame

MainStep == \/ Stream \/ StampRestart \/ StopStream \/ DisablePort
            \/ WriteStamp \/ WriteDone \/ FreeNode \/ FreeLast

Next == Frame \/ SideInfoArrives \/ CallbackStep \/ (step # "crashed" /\ MainStep) \/ Tick

Spec == Init /\ [][Next]_vars
-----------------------------------------------------------------------------
(* Correctness *)

\* A saved file carries the number of its frame, and every SaveRate-th frame from the
\* first on may be saved, none else, whatever side information arrives between them
\* (raspiraw.c:597-605, "Save every Nth frame").
SavesEveryNth == \A i \in 1 .. Len(files) : /\ files[i].idx = files[i].pts
                                            /\ files[i].idx % SaveRate = 1 % SaveRate

\* The time stamp file lists saved frames, in the order they were saved, without a gap
\* and with their own times, even when some malloc failed (raspiraw.c:608-614, 2336).
TimesAreOfSavedFrames == IsPrefix(tsFile, files)

\* If memory lasted and the file could be opened, it lists all of them.
TimesAreComplete == main \in {"free", "done"} /\ ~ failed /\ tsFile # <<>> => tsFile = files

\* Neither thread follows a pointer to a node that main has freed (raspiraw.c:610, 2336
\* and 2353): the callback is over before main touches the list.
NoDanglingNode == /\ cb = "save" => ptso \in heap \cup {Null}
                  /\ main = "write" /\ cursor # ptso => cursor \in heap
                  /\ main = "free" => ptsa \in heap \cup {Null}

\* Unless the port could not be disabled, main frees every node (raspiraw.c:2351-2357).
NoLeakedNode == main = "done" /\ ~ enabled => heap = {}

\* What the sensor tells in its metadata is what decodemetadataline lists, for every
\* alignment of the pairs to the packing and whatever is in the fillers (raspiraw.c:505-538).
MetadataIsDecoded == cb = "decoded" => listed = info.writes

\* The two delays that main reports (raspiraw.c:2273-2274) are differences of times in
\* the right order whenever there was a frame to measure.
DelaysArePositive == /\ first # Unset => AppStart <= first
                     /\ restartFirst # Unset => /\ restart # Unset
                                                /\ first # Unset
                                                /\ restart <= restartFirst
                                                /\ first <= restartFirst

-----------------------------------------------------------------------------
(* The inductive invariant *)

Entries == [idx : Nat, pts : Nat]
Entry(n) == [idx |-> node[n].idx, pts |-> node[n].pts]

Blocks == Pictures \cup {"names", "info_lo", "info_hi", "input", "file", "png", "row"}

TypeOK ==
    /\ clock \in Nat /\ frames \in Nat /\ count \in Nat
    /\ first \in Nat /\ restart \in Nat /\ restartFirst \in Nat
    /\ files \in Seq(Entries) /\ tsFile \in Seq(Entries)
    /\ heap \in SUBSET Nodes
    /\ node \in [Nodes -> [idx : Nat, pts : Nat, nxt : Nodes \cup {Null}]]
    /\ ptsa \in Nodes \cup {Null} /\ ptso \in Nodes \cup {Null} /\ cursor \in Nodes \cup {Null}
    /\ failed \in BOOLEAN /\ enabled \in BOOLEAN /\ row \in BOOLEAN
    /\ cb \in {"idle", "decoded", "stamp", "count", "save", "convert"}
    /\ main \in {"start", "first", "pause", "started", "second", "disable", "write", "free", "done"}
    /\ step \in {"out", "names", "input", "read", "picture", "open", "structs", "info", "row",
                 "rows", "finalise", "free", "return", "crashed"}
    /\ half \in Pictures /\ res \in {0, 1} /\ blocks \in SUBSET Blocks

\* The callback does not run once the port is disabled, and main does not touch the list before.
PhaseInv == /\ main \in {"write", "free"} => ~ enabled
            /\ ~ enabled => main \in {"write", "free", "done"} /\ cb = "idle"
            /\ step # "out" => cb = "convert"

\* What a conversion has, by the step it is at.
ConverterInv ==
    /\ step = "out" => Idle
    /\ "input" \in blocks => step \notin {"names", "input", "return"}
    /\ "file" \in blocks => step \in {"structs", "info", "row", "rows", "finalise", "crashed"}
    /\ "png" \in blocks => step \in {"info", "row", "rows", "finalise", "crashed"}
    /\ "row" \in blocks => \/ step = "rows" /\ row
                           \/ step = "finalise" /\ (row \/ res = 1)
                           \/ step \in {"free", "return"} /\ res = 1

StampInv == /\ clock >= AppStart
            /\ first <= clock /\ restart <= clock /\ restartFirst <= clock
            /\ restart # Unset => main \notin {"start", "first", "pause", "started"}
            /\ DelaysArePositive

\* Files are numbered with their frames, upwards.
FilesInv ==
    /\ frames = count + (IF cb \in {"stamp", "count"} THEN 1 ELSE 0)
    /\ cb = "save" => count % SaveRate = 1 % SaveRate
    /\ \A i \in 1 .. Len(files) : files[i].idx <= count /\ (cb = "save" => files[i].idx < count)
    /\ \A i, j \in 1 .. Len(files) : i < j => files[i].idx < files[j].idx

\* The nodes that have been filled.
Filled == heap \ {ptso}

\* Until it has been freed the list leads from ptsa through all of the filled nodes to ptso, and
\* numbers grow along it.
ListInv ==
    main # "done" \/ enabled =>
        /\ {ptsa, ptso} \subseteq heap \cup {Null}
        /\ ptsa = Null => ptso = Null
        /\ \A n \in Filled :
              /\ node[n].nxt \in (heap \cup {Null}) \ {ptsa}
              /\ node[n].nxt = Null => ptso = Null
              /\ node[n].nxt \in Filled => node[n].idx < node[node[n].nxt].idx
              /\ node[n].idx <= count /\ (cb = "save" => node[n].idx < count)
        /\ \A n, m \in Filled : node[n].nxt = node[m].nxt => n = m
        /\ \A n \in heap \ {ptsa} : \E m \in Filled : node[m].nxt = n

\* Until it is freed it lists the first files, all of them unless a malloc has failed.
OrderInv ==
    main \notin {"free", "done"} =>
        /\ failed <=> ptso = Null
        /\ ptsa # ptso => files # <<>> /\ Entry(ptsa) = files[1]
        /\ ptsa = ptso /\ ptso # Null => files = <<>>
        /\ \A n \in Filled :
              IF node[n].nxt = ptso
              THEN ptso # Null => files # <<>> /\ Entry(n) = files[Len(files)]
              ELSE \E k \in 1 .. Len(files) - 1 :
                       files[k] = Entry(n) /\ files[k + 1] = Entry(node[n].nxt)

\* main is at the node of the next file.
WriteInv ==
    /\ main \in {"start", "first", "pause", "started", "second", "disable"} => tsFile = <<>>
    /\ main = "done" /\ enabled => tsFile = <<>>
    /\ main = "write" =>
          /\ cursor \in heap \cup {Null}
          /\ cursor = Null => ptso = Null
          /\ tsFile = <<>> <=> cursor = ptsa
          /\ cursor # ptso => /\ Len(tsFile) < Len(files)
                              /\ files[Len(tsFile) + 1] = Entry(cursor)
          /\ cursor = ptso /\ ~ failed => Len(tsFile) = Len(files)

\* The lines that main has written are those of the first files.
Written == /\ Len(tsFile) <= Len(files)
           /\ \A i \in 1 .. Len(tsFile) : tsFile[i] = files[i]

\* The inductive invariant: what the properties above need to be preserved by every step.
IInv == /\ TypeOK /\ PhaseInv /\ ConverterInv /\ StampInv /\ FilesInv
        /\ ListInv /\ OrderInv /\ WriteInv /\ Written
        /\ SavesEveryNth /\ TimesAreComplete /\ NoLeakedNode
=============================================================================
