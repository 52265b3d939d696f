------------------------------ MODULE Metadata ------------------------------
(***************************************************************************)
(* The lines of metadata that a sensor sends before an image, and          *)
(* decodemetadataline, which lists the registers in them.  A line is bytes *)
(* in the packing of the image: in 10 bits every fifth byte is a filler,   *)
(* in 12 bits every third.  The first byte is 0x0A, then follow pairs of a *)
(* tag and its data: 0xAA and 0xA5 set the two bytes of the register       *)
(* number, 0x5A is the value of the register and 0x55 skips it; both go on *)
(* to the next register.  0x07 ends the line.                              *)
(***************************************************************************)
EXTENDS Integers, Sequences, SequencesExt

RegisterSet == 10   \* 0x0A
High == 170         \* 0xAA
Low == 165          \* 0xA5
Value == 90         \* 0x5A
Skip == 85          \* 0x55
End == 7            \* 0x07

encoding_to_bpp(depth) == IF depth \in {10, 12} THEN depth ELSE 8

\* Mutant: the bytes are counted from 1.
GapOffByOne(c, bpp) == \/ bpp = 10 /\ c % 5 = 0
                       \/ bpp = 12 /\ c % 3 = 0

\* Whether decodemetadataline, having read a tag, steps over byte c (from 0).
Gap(c, bpp) == \/ bpp = 10 /\ c % 5 = 4
               \/ bpp = 12 /\ c % 3 = 2

\* The pairs of tag and data that the loop reads, <<End, End>> if it runs past the line.
Pairs(line, bpp) ==
    LET data == [c \in 0 .. Len(line) - 1 |-> line[c + 1]]
        Past == << <<End, End>> >>
        from[c \in 0 .. Len(line) + 2] ==
            LET d == IF Gap(c + 1, bpp) THEN c + 2 ELSE c + 1
            IN  IF c \notin DOMAIN data THEN Past
                ELSE IF data[c] = End THEN <<>>
                ELSE IF d \notin DOMAIN data THEN Past
                ELSE <<<<data[c], data[d]>>>> \o from[d + 1]
    IN  from[1]

\* What a pair does: to the register number, of sixteen bits, and to the list of registers,
\* where a pair of another tag is -1.
Applied(state, pair) ==
    LET reg == state.reg
        next == (reg + 1) % 65536
    IN  CASE pair[1] = High -> [state EXCEPT !.reg = (reg % 256) + 256 * pair[2]]
          [] pair[1] = Low -> [state EXCEPT !.reg = reg - (reg % 256) + pair[2]]
          [] pair[1] = Value -> [reg |-> next, log |-> Append(state.log, <<reg, pair[2]>>)]
          [] pair[1] = Skip -> [state EXCEPT !.reg = next]
          [] OTHER -> [state EXCEPT !.log = Append(@, <<-1, pair[2]>>)]

decodemetadataline(line, bpp) ==
    IF line[1] # RegisterSet THEN <<>>
    ELSE FoldLeft(Applied, [reg |-> 65535, log |-> <<>>], Pairs(line, bpp)).log

-----------------------------------------------------------------------------
(* The sensor *)

\* The tags for a sequence of registers and values: the number is given where it is not the
\* next one.
Tags(writes) ==
    LET first(i) == i = 1 \/ writes[i - 1][1] + 1 # writes[i][1]
        number(r) == <<High, r \div 256, Low, r % 256>>
        upTo[i \in 0 .. Len(writes)] ==
            IF i = 0 THEN <<RegisterSet>>
            ELSE upTo[i - 1] \o (IF first(i) THEN number(writes[i][1]) ELSE <<>>)
                 \o <<Value, writes[i][2]>>
    IN  upTo[Len(writes)] \o <<End>>

\* The bytes of one group of pixels' high bits.
Group(depth) == CASE depth = 8 -> 1 [] depth = 10 -> 4 [] depth = 12 -> 2

\* The line as it is packed, a filler after each group; the rest of it is filled as well.
MetadataLine(writes, depth, filler) ==
    LET tags == Tags(writes)
        n == Group(depth)
        at(i) == IF i <= Len(tags) THEN tags[i] ELSE filler
    IN  IF depth = 8 THEN tags
        ELSE [k \in 1 .. (n + 1) * ((Len(tags) + n - 1) \div n) |->
                 IF k % (n + 1) = 0 THEN filler
                 ELSE at(n * ((k - 1) \div (n + 1)) + ((k - 1) % (n + 1)) + 1)]
=============================================================================
