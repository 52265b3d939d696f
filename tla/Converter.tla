----------------------------- MODULE Converter ------------------------------
(***************************************************************************)
(* The conversion of a saved raw file to two pictures, as callback calls   *)
(* it for every file (converter.c, raspiraw.c:623-635): which of its calls *)
(* can fail, where it goes on then, and what it has released when it       *)
(* returns.  write_png is called twice, for the low and for the high bits  *)
(* of the pixels.  What is in the pictures is Raw12's.                     *)
(***************************************************************************)
CONSTANTS
    MallocMayFail,   \* may malloc return NULL?
    FilesMayFail     \* may files fail to be opened, read or written?

VARIABLES
    step,     \* where the conversion is, "out" if there is none, "crashed" if it was fatal
    half,     \* the picture that is written, "lo" or "hi"
    res,      \* res of convert_raw12_to_png and of write_png: 0 or 1
    blocks,   \* what this conversion has allocated, opened or created, and not released
    row       \* whether write_png's variable row points to the row

converter == <<step, half, res, blocks, row>>

Pictures == {"lo", "hi"}
Idle == step = "out" /\ half = "lo" /\ res = 0 /\ blocks = {} /\ row = FALSE

-----------------------------------------------------------------------------
Goto(from, to) == step = from /\ step' = to

\* Nothing failed, or something did and this is what follows.
Works(from, to) == Goto(from, to) /\ res' = 0
Fails(allowed, from, to) == allowed /\ Goto(from, to) /\ res' = 1
Crashes(from) == MallocMayFail /\ Goto(from, "crashed")

\* callback allocates the pictures' names and uses them without a look at the pointers.
AllocateNames == /\ \/ Goto("names", "input") /\ blocks' = {"names"}
                    \/ Crashes("names") /\ UNCHANGED blocks
                 /\ UNCHANGED <<half, res, row>>

AllocateInput == /\ \/ Works("input", "read") /\ blocks' = blocks \cup {"input"}
                    \/ Fails(MallocMayFail, "input", "return") /\ UNCHANGED blocks
                 /\ UNCHANGED <<half, row>>

\* Mutant: an early return.
ReadFileReturns == /\ \/ Works("read", "picture")
                      \/ Fails(FilesMayFail, "read", "return")
                   /\ UNCHANGED <<half, blocks, row>>

\* read_file: the raw file cannot be opened, or is shorter than a picture of twelve bits, as
\* that of another depth is, or that of a full disk.
ReadFile == /\ \/ Works("read", "picture")
               \/ Fails(FilesMayFail, "read", "free")
            /\ UNCHANGED <<half, blocks, row>>

AllocatePicture == /\ \/ Works("picture", "open") /\ blocks' = blocks \cup {half}
                      \/ Fails(MallocMayFail, "picture", "free") /\ UNCHANGED blocks
                   /\ UNCHANGED <<half, row>>

-----------------------------------------------------------------------------
(* write_png *)

OpenPng == /\ \/ Works("open", "structs") /\ blocks' = blocks \cup {"file"}
              \/ Fails(FilesMayFail, "open", "finalise") /\ UNCHANGED blocks
           /\ UNCHANGED <<half, row>>

\* An information struct is one of this picture's: png_destroy_write_struct is not given it.
Info == IF half = "lo" THEN "info_lo" ELSE "info_hi"

CreateStructs ==
    /\ \/ Works("structs", "info") /\ blocks' = blocks \cup {"png", Info}
       \/ /\ Fails(MallocMayFail, "structs", "finalise")
          /\ \E created \in {{}, {"png"}} : blocks' = blocks \cup created
    /\ UNCHANGED <<half, row>>

\* Up to png_write_info, during which libpng may jump back.
WriteInfo == /\ \/ Works("info", "row")
                \/ Fails(FilesMayFail, "info", "finalise")
             /\ UNCHANGED <<half, blocks, row>>

\* The row is used without a look at its pointer.
AllocateRow == /\ \/ Goto("row", "rows") /\ blocks' = blocks \cup {"row"} /\ row' = TRUE
                  \/ Crashes("row") /\ UNCHANGED <<blocks, row>>
               /\ UNCHANGED <<half, res>>

\* libpng may jump back from any row, and from the end: row, which has been assigned since
\* setjmp, has then an indeterminate value, its last one or the one it had at setjmp.
WriteRows == /\ \/ Works("rows", "finalise") /\ UNCHANGED row
                \/ Fails(FilesMayFail, "rows", "finalise") /\ row' \in BOOLEAN
             /\ UNCHANGED <<half, blocks>>

Finalised == {"file", "png"} \cup (IF row THEN {"row"} ELSE {})

Finalise == /\ blocks' = blocks \ Finalised
            /\ row' = FALSE
            /\ \/ Goto("finalise", "free") /\ (res = 1 \/ half = "hi") /\ UNCHANGED half
               \/ Goto("finalise", "picture") /\ res = 0 /\ half = "lo" /\ half' = "hi"
            /\ UNCHANGED res

-----------------------------------------------------------------------------
FreeInput == /\ Goto("free", "return")
             /\ blocks' = blocks \ {"input"}
             /\ UNCHANGED <<half, res, row>>

\* Back in callback, which frees the names and is not interested in the result.
Return == /\ step = "return" /\ step' = "out"
          /\ half' = "lo" /\ res' = 0 /\ blocks' = {} /\ row' = FALSE

ConvertStep == \/ AllocateNames \/ AllocateInput \/ ReadFile \/ AllocatePicture
               \/ OpenPng \/ CreateStructs \/ WriteInfo \/ AllocateRow \/ WriteRows \/ Finalise
               \/ FreeInput

-----------------------------------------------------------------------------
\* ConverterReleases.  Whichever of the calls fails, the conversion has closed its file and
\* freed its input and what libpng allocated, except for the pictures (converter.c:137, 150),
\* libpng's information structs (105) and, after a jump back, the row (89, 106).
ConverterReleases ==
    step = "return" => blocks \subseteq Pictures \cup {"names", "info_lo", "info_hi"} \cup
                                     (IF res = 1 THEN {"row"} ELSE {})
=============================================================================
