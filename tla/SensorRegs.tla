----------------------------- MODULE SensorRegs -----------------------------
(***************************************************************************)
(* How raspiraw edits the register table of the chosen sensor mode before  *)
(* it starts the sensor: main's -regs, -hinc, -vinc, -fps, -width,         *)
(* -height, -left and -top, and update_regs with the flips, the exposure   *)
(* and the gain, all of them through modReg and modRegBit; and what it     *)
(* tells the receiver of the images to come.  The table is a sequence, and *)
(* modRegBit changes the first entry of a register; the sensor is later    *)
(* sent the whole table in order, so that what counts in it is the last.   *)
(*                                                                         *)
(* The actions are steps of main between the choice of the sensor and the  *)
(* start of the stream: SensorBus has both.                                *)
(***************************************************************************)
EXTENDS Integers, Sequences, FiniteSets

CONSTANTS
    Sensors,     \* the sensors, in the order of sensors[]
    Options      \* command lines: records of mode, edits (-regs, -hinc and -vinc, a sequence of
                 \* [reg, data]), fps2 (twice the frame rate), width, height, left, top (0 if not
                 \* given), bit_depth, exposure_us, exposure, gain (-1 if not given), hflip,
                 \* vflip and headerg

Orders == 0 .. 3     \* enum bayer_order: BGGR, GBRG, GRBG, RGGB

VARIABLES
    sensor,    \* the index in Sensors of the sensor that was found, 0 if none
    opt,       \* a member of Options
    regs,      \* sensor_mode->regs, a sequence of [reg, data]
    size,      \* sensor_mode->width and height
    order,     \* sensor_mode->order
    exposure,  \* cfg.exposure
    depth,     \* cfg.bit_depth
    encoding,  \* the encoding main found: of the mode, or of an order and a depth
    pc         \* what main does next

edited == <<regs, size, order, exposure, depth, encoding>>

S == Sensors[sensor]
M == S.modes[opt.mode + 1]        \* the mode as the tables of SensorModes have it

-----------------------------------------------------------------------------
(* modRegBit and modReg, on a table t.  A register that is not in the table *)
(* is only logged.                                                          *)

Where(t, reg) == {i \in 1 .. Len(t) : t[i].reg = reg}
First(t, reg) == CHOOSE i \in Where(t, reg) : \A j \in Where(t, reg) : i <= j

Toggle(n, bit) == IF (n \div 2^bit) % 2 = 1 THEN n - 2^bit ELSE n + 2^bit

\* modRegBit(mode, reg, bit, value, XOR)
XorBit(t, reg, bit, value) ==
    IF value /\ Where(t, reg) # {} THEN [t EXCEPT ![First(t, reg)].data = Toggle(@, bit)] ELSE t

\* Mutant: the last entry of a register is changed, the one that the sensor gets last.
modRegOfLast(t, reg, endBit, value) ==
    LET n == 2^(endBit + 1)
        last == CHOOSE i \in Where(t, reg) : \A j \in Where(t, reg) : j <= i
    IN  IF Where(t, reg) = {} THEN t
        ELSE [t EXCEPT ![last].data = @ - (@ % n) + (value % n)]

\* modReg(mode, reg, 0, endBit, value, EQUAL): a register's low bits become the value's.
modReg(t, reg, endBit, value) ==
    LET n == 2^(endBit + 1)
    IN  IF Where(t, reg) = {} THEN t
        ELSE [t EXCEPT ![First(t, reg)].data = @ - (@ % n) + (value % n)]

\* A value of two registers, high byte first.
Pair(t, reg, endBit, value) == modReg(modReg(t, reg, endBit, value \div 256), reg + 1, 7, value)

\* One register after the other: list is a sequence of [reg, data].
modRegs(t, list) ==
    LET f[i \in 0 .. Len(list)] ==
            IF i = 0 THEN t ELSE modReg(f[i - 1], list[i].reg, 7, list[i].data)
    IN  f[Len(list)]

Count(bits) == (bits + 7) \div 8          \* registers of a field

\* Mutant: low byte first.
FieldLittleEndian(t, reg, bits, value) ==
    modRegs(t, [i \in 1 .. Count(bits) |->
                   [reg |-> reg + i - 1, data |-> value \div 2^(8 * (i - 1))]])

\* A field of Count(bits) registers, high byte first.
Field(t, reg, bits, value) ==
    modRegs(t, [i \in 1 .. Count(bits) |->
                   [reg |-> reg + i - 1, data |-> value \div 2^(8 * (Count(bits) - i))]])

-----------------------------------------------------------------------------
(* main *)

\* The mode exists, or main returns -2.
ChooseMode ==
    /\ pc = "mode"
    /\ IF opt.mode \in 0 .. Len(S.modes) - 1
       THEN /\ regs' = M.regs /\ order' = M.order /\ size' = <<M.width, M.height>>
            /\ exposure' = opt.exposure
            /\ depth' = opt.bit_depth
            /\ pc' = "regs"
       ELSE /\ pc' = "ended" /\ UNCHANGED <<regs, size, order, exposure, depth>>
    /\ UNCHANGED <<sensor, opt, encoding>>

Step(from, to) == pc = from /\ pc' = to /\ UNCHANGED <<sensor, opt>>
EditsTable == UNCHANGED <<size, order, exposure, depth, encoding>>

\* strtok's loop over the assignments of -regs, then -hinc and -vinc, each an edit of one
\* register.
EditRegs ==
    /\ Step("regs", "fps")
    /\ regs' = modRegs(regs, opt.edits)
    /\ EditsTable

FrameTime == IF M.line_time_ns = 0 THEN 2147483647   \* infinity as an int
             ELSE 2000000000 \div (M.line_time_ns * opt.fps2)

\* Also on a sensor whose frame time register is 0, where this edits registers 0 and 1.
SetFps == /\ Step("fps", "size")
          /\ regs' = IF opt.fps2 > 0 THEN Pair(regs, S.vts.reg, 7, FrameTime) ELSE regs
          /\ EditsTable

\* -left and -top are in pixels of the full image, in modes that skip some.
Unit == IF opt.mode < 2 THEN 1 ELSE 2^(opt.mode \div 2 - 1)

\* Mutant: only three bits of the high byte are edited.
PutShort(t, reg, value) == IF value > 0 THEN Pair(t, reg, 2, value) ELSE t

Put(t, reg, value) == IF value > 0 THEN Pair(t, reg, 3, value) ELSE t

\* The registers are the ov5647's, whatever the sensor: 0x3808, 0x380A, 0x3800 and 0x3802.
SetSize ==
    /\ Step("size", "depth")
    /\ size' = <<IF opt.width > 0 THEN opt.width ELSE size[1],
                 IF opt.height > 0 THEN opt.height ELSE size[2]>>
    /\ regs' = Put(Put(Put(Put(regs, 14344, opt.width), 14346, opt.height),
                       14336, opt.left * Unit), 14338, opt.top * Unit)
    /\ UNCHANGED <<order, exposure, depth, encoding>>

\* --headerG with another depth than the sensor's: main exits.
SetDepth ==
    /\ pc = "depth"
    /\ depth' = IF depth = -1 THEN M.native_bit_depth ELSE depth
    /\ pc' = IF opt.headerg /\ depth' # M.native_bit_depth THEN "ended" ELSE "expus"
    /\ UNCHANGED <<sensor, opt, regs, size, order, exposure, encoding>>

\* The quotient is cut to an int.  Division by zero ends the program, or yields 0.
SetExposureUs ==
    /\ pc = "expus"
    /\ \/ /\ opt.exposure_us = -1 /\ pc' = "vflip" /\ UNCHANGED exposure
       \/ /\ opt.exposure_us # -1 /\ M.line_time_ns # 0 /\ pc' = "vflip"
          /\ exposure' = (opt.exposure_us * 1000) \div M.line_time_ns
       \/ /\ opt.exposure_us # -1 /\ M.line_time_ns = 0
          /\ \/ pc' = "ended" /\ UNCHANGED exposure
             \/ pc' = "vflip" /\ exposure' = 0
    /\ UNCHANGED <<sensor, opt, regs, size, order, depth, encoding>>

-----------------------------------------------------------------------------
(* update_regs *)

EditsFlip == UNCHANGED <<size, exposure, depth, encoding>>

\* Mutant: the two flips are taken for each other.
SetVFlipOfColumns ==
    /\ Step("vflip", "hflip")
    /\ regs' = XorBit(regs, S.vflip.reg, S.vflip.bit, opt.vflip)
    /\ order' = IF S.vflip.reg # 0 /\ opt.vflip THEN Toggle(order, 0) ELSE order
    /\ EditsFlip

SetVFlip ==
    /\ Step("vflip", "hflip")
    /\ IF S.vflip.reg # 0
       THEN /\ regs' = XorBit(regs, S.vflip.reg, S.vflip.bit, opt.vflip)
            /\ order' = IF opt.vflip /\ ~ S.keepsOrder THEN Toggle(order, 1) ELSE order
       ELSE UNCHANGED <<regs, order>>
    /\ EditsFlip

SetHFlip ==
    /\ Step("hflip", "exposure")
    /\ IF S.hflip.reg # 0
       THEN /\ regs' = XorBit(regs, S.hflip.reg, S.hflip.bit, opt.hflip)
            /\ order' = IF opt.hflip /\ ~ S.keepsOrder THEN Toggle(order, 0) ELSE order
       ELSE UNCHANGED <<regs, order>>
    /\ EditsFlip

Valid(value, bits) == value \in 0 .. 2^bits - 1

\* A value out of range is only logged.
SetExposure == /\ Step("exposure", "vts")
               /\ regs' = IF S.exposure.reg # 0 /\ Valid(exposure, S.exposure.bits)
                          THEN Field(regs, S.exposure.reg, S.exposure.bits, exposure)
                          ELSE regs
               /\ EditsTable

\* Mutant: the frame is only made longer than its minimum from the next line on, and then
\* a line too short.
SetVtsShort == /\ Step("vts", "gain")
               /\ regs' = IF S.vts.reg # 0 /\ exposure > M.min_vts /\ Valid(exposure, S.vts.bits)
                          THEN Field(regs, S.vts.reg, S.vts.bits, exposure - 1)
                          ELSE regs
               /\ EditsTable

\* A frame at least as long as the exposure.
SetVts == /\ Step("vts", "gain")
          /\ regs' = IF /\ S.vts.reg # 0
                        /\ exposure # -1 /\ exposure >= M.min_vts
                        /\ Valid(exposure, S.vts.bits)
                     THEN Field(regs, S.vts.reg, S.vts.bits, exposure)
                     ELSE regs
          /\ EditsTable

SetGain == /\ Step("gain", "encoding")
           /\ regs' = IF S.gain.reg # 0 /\ Valid(opt.gain, S.gain.bits)
                      THEN Field(regs, S.gain.reg, S.gain.bits, opt.gain)
                      ELSE regs
           /\ EditsTable

-----------------------------------------------------------------------------
(* What the receiver is told *)

\* order_and_bit_depth_to_encoding; an encoding of the mode is taken as it is.
SetEncoding ==
    /\ pc = "encoding"
    /\ LET known == order \in Orders /\ depth \in {8, 10, 12, 16}
       IN  IF M.encoding # "none"
           THEN pc' = "start" /\ encoding' = M.encoding
           ELSE IF known THEN pc' = "start" /\ encoding' = <<order, depth>>
           ELSE pc' = "ended" /\ encoding' = "none"
    /\ UNCHANGED <<sensor, opt, regs, size, order, exposure, depth>>

\* rx_cfg.unpack and rx_cfg.pack, as the number of bits that are read and written, 0 for none.
Unpack == IF M.encoding # "none" \/ depth = M.native_bit_depth THEN 0
          ELSE IF M.native_bit_depth = 14 THEN 16 ELSE M.native_bit_depth
Pack == IF M.encoding # "none" \/ depth = M.native_bit_depth THEN 0 ELSE depth

EditStep == \/ ChooseMode \/ EditRegs \/ SetFps \/ SetSize \/ SetDepth \/ SetExposureUs
            \/ SetVFlip \/ SetHFlip \/ SetExposure \/ SetVts \/ SetGain \/ SetEncoding
-----------------------------------------------------------------------------
(* Correctness: of a table that is ready to be sent *)

Done == pc = "start"

\* What the sensor has in a register after it was sent the table t: the last entry's data.
Sent(t, reg) == t[CHOOSE i \in Where(t, reg) : \A j \in Where(t, reg) : j <= i].data
Has(reg) == Where(M.regs, reg) # {}

\* The value of n registers from reg on, high byte first.
Value(t, reg, n) ==
    LET f[i \in 0 .. n] == IF i = 0 THEN 0 ELSE 256 * f[i - 1] + Sent(t, reg + i - 1)
    IN  f[n]

BitOf(t, flip) == (Sent(t, flip.reg) \div 2^flip.bit) % 2

\* The quad of a Bayer order, row by row, and what mirroring makes of it.
Quad == [o \in Orders |-> << <<"B", "G", "G", "R">>, <<"G", "B", "R", "G">>,
                             <<"G", "R", "B", "G">>, <<"R", "G", "G", "B">> >>[o + 1]]
MirrorColumns(q) == <<q[2], q[1], q[4], q[3]>>
MirrorRows(q) == <<q[3], q[4], q[1], q[2]>>

\* EncodingIsTrue.  The encoding of the receiver's output is that of its data: its depth is
\* that of the samples that the receiver writes, which are those of the sensor unless it
\* repacks them, and its Bayer order that of the image as the sensor's flip bits, which the
\* options toggle, mirror it (raspiraw.c:71, "Carefully ordered so that an hflip is ^1, and
\* a vflip is ^2").
EncodingIsTrue ==
    Done /\ M.encoding = "none" =>
        LET flipped(f) == f.reg # 0 /\ Has(f.reg) /\ BitOf(regs, f) # BitOf(M.regs, f)
            rows == IF flipped(S.vflip) THEN MirrorRows(Quad[M.order]) ELSE Quad[M.order]
        IN  /\ Quad[encoding[1]] = IF flipped(S.hflip) THEN MirrorColumns(rows) ELSE rows
            /\ encoding[2] = IF Pack = 0 THEN M.native_bit_depth ELSE Pack
            /\ Pack # 0 => Unpack >= M.native_bit_depth

\* FieldsHold.  Exposure, in lines or microseconds, and gain arrive at the sensor as they
\* were asked for, over all the bytes of their fields, and those out of range change nothing
\* (raspiraw.c:2417-2436, 2457-2478).  So does the frame time of -fps, unless the exposure
\* asks for another, or it does not fit the register.
FieldsHold ==
    Done => /\ \A f \in {<<S.exposure, exposure>>, <<S.gain, opt.gain>>} :
                  LET reg == f[1].reg
                      n == Count(f[1].bits)
                  IN  reg # 0 => Value(regs, reg, n) = IF Valid(f[2], f[1].bits) THEN f[2]
                                                       ELSE Value(M.regs, reg, n)
            /\ S.vts.reg # 0 /\ opt.fps2 > 0 /\ FrameTime < 65536 /\ exposure < M.min_vts =>
                  Value(regs, S.vts.reg, 2) = FrameTime

\* The registers of the size of the image that the sensor sends: 0x3808 and 0x380A, and 0x16C
\* and 0x16E.
SizeOf == [ov5647 |-> <<14344, 14346>>, imx219 |-> <<364, 366>>]

\* SizesHold.  The receiver is told the size of the image that the sensor sends, and the
\* upper half of the registers' high bytes stays as it was (raspiraw.c:1598-1629): on the
\* ov5647, if the sizes fit twelve bits, and on the imx219, if none is given ("TODO: handle
\* modes different to ov5647 as well").  The height of the ov5647's mode 4 is not that of
\* its table (976 and 972).
SizesHold ==
    Done /\ S.name \in DOMAIN SizeOf =>
        \A i \in 1 .. 2 :
            LET reg == SizeOf[S.name][i]
                asked == <<opt.width, opt.height>>[i]
            IN  /\ S.name = "ov5647" /\ asked < 4096
                       /\ ~ (opt.mode = 4 /\ i = 2 /\ asked <= 0) =>
                       /\ Value(regs, reg, 2) % 4096 = size[i]
                       /\ Sent(regs, reg) \div 16 = Sent(M.regs, reg) \div 16
                /\ S.name = "imx219" /\ asked <= 0 => Value(regs, reg, 2) = size[i]

\* ExposureFitsFrame.  Unless -fps asks for a shorter frame, an exposure that fits the frame
\* time's register fits the frame: the sensor is never told to expose a line for longer than
\* the frame lasts (raspiraw.c:2438-2456).  It takes a table whose frame is at least the
\* mode's min_vts: that of the imx219's mode 6 is not (569 and 724).
ExposureFitsFrame ==
    Done /\ opt.fps2 = 0 /\ S.vts.reg # 0 /\ Value(M.regs, S.vts.reg, 2) >= M.min_vts
         /\ Valid(exposure, S.exposure.bits) /\ Valid(exposure, S.vts.bits)
        => exposure <= Value(regs, S.vts.reg, 2)

\* EditsArrive.  README.md:94, "Allows to change sensor regs in selected sensor mode": an
\* assignment to a register of the mode reaches the sensor (no other option edits it here).
EditsArrive ==
    Done => \A i \in 1 .. Len(opt.edits) :
                Has(opt.edits[i].reg) => Sent(regs, opt.edits[i].reg) = opt.edits[i].data

-----------------------------------------------------------------------------
(* What the code relies on of the sensors' tables and of the command line  *)

\* The registers that each option of update_regs and main edits, -regs apart.  The frame
\* time is edited by -fps even if its register is 0.
Regs(f) == IF f.reg = 0 THEN {} ELSE f.reg .. f.reg + Count(f.bits) - 1
FlipRegs(s) == {s.vflip.reg, s.hflip.reg} \ {0}
FpsRegs(s) == {s.vts.reg, s.vts.reg + 1}
SizeRegs == (14336 .. 14339) \cup (14344 .. 14347)
Ports(s) == <<FlipRegs(s), Regs(s.exposure), Regs(s.gain), FpsRegs(s), SizeRegs>>

ProperPorts(s) ==
    /\ s.vflip.reg \in Nat /\ s.hflip.reg \in Nat /\ ~ s.keepsOrder
    /\ s.vflip.bit \in 0 .. 7 /\ s.hflip.bit \in 0 .. 7
    /\ s.vflip.reg = s.hflip.reg /\ s.vflip.reg # 0 => s.vflip.bit # s.hflip.bit
    /\ \A f \in {s.exposure, s.vts, s.gain} : f.reg \in Nat /\ (f.reg # 0 => f.bits \in 1 .. 24)
    /\ s.vts.reg # 0 => s.vts.bits \in 9 .. 16
    /\ \A i, j \in 1 .. 5 : i # j => Ports(s)[i] \cap Ports(s)[j] = {}

Once(t, reg) == \E k \in 1 .. Len(t) : Where(t, reg) = {k}
HoldsByte(t, reg) == Once(t, reg) /\ Sent(t, reg) \in 0 .. 255

\* The table of a mode has each register that the options edit once, and tells the sensor
\* the size that the mode says.
ProperMode(s, k) ==
    LET m == s.modes[k]
        t == m.regs
    IN  /\ m.order \in Orders
        /\ m.native_bit_depth \in Nat /\ m.line_time_ns \in Nat /\ m.min_vts \in Nat
        /\ \A r \in FlipRegs(s) \cup Regs(s.exposure) \cup Regs(s.gain) \cup Regs(s.vts) :
              HoldsByte(t, r)
        /\ s.name \in DOMAIN SizeOf =>
              \A i \in 1 .. 2 :
                  LET reg == SizeOf[s.name][i]
                      said == <<m.width, m.height>>[i]
                  IN  /\ \A r \in {reg, reg + 1} :
                            /\ HoldsByte(t, r)
                            /\ \A p \in 1 .. 4 : r \notin Ports(s)[p]
                      /\ s.name = "ov5647" /\ ~ (k = 5 /\ i = 2) =>
                            Value(t, reg, 2) % 4096 = said
                      /\ s.name = "imx219" => Value(t, reg, 2) = said

ASSUME TablesAssumption ==
    /\ Len(Sensors) \in Nat
    /\ \A i \in 1 .. Len(Sensors) :
          /\ ProperPorts(Sensors[i])
          /\ Len(Sensors[i].modes) \in Nat
          /\ \A k \in 1 .. Len(Sensors[i].modes) : ProperMode(Sensors[i], k)

ProperOptions(o) ==
    /\ Len(o.edits) \in Nat /\ \A i \in 1 .. Len(o.edits) : o.edits[i].data \in Int
    /\ o.fps2 \in Nat /\ o.hflip \in BOOLEAN /\ o.vflip \in BOOLEAN
    /\ o.width \in Int /\ o.height \in Int /\ o.left \in Int /\ o.top \in Int
    /\ o.exposure \in Int /\ o.exposure_us \in Int /\ o.gain \in Int

ASSUME OptionsAssumption == \A o \in Options : ProperOptions(o)
=============================================================================
