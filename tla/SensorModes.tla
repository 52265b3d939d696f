---------------------------- MODULE SensorModes -----------------------------
(***************************************************************************)
(* The sensors that raspiraw knows: for each one how it is found and which *)
(* of its registers flip the image and hold the exposure, the frame time   *)
(* and the gain; its modes, each with the table of registers that is sent  *)
(* to start it; and the table that stops it.                               *)
(***************************************************************************)
EXTENDS Integers, Sequences, SequencesExt

\* A table of bursts, each a register and the data of this one and those that follow it, as
\* struct sensor_regs[]: a sequence of [reg, data].
Table(bursts) ==
    LET Burst(b) == [i \in 1 .. Len(b) - 1 |-> [reg |-> b[1] + i - 1, data |-> b[i + 1]]]
    IN  FlattenSeq([i \in 1 .. Len(bursts) |-> Burst(bursts[i])])

NoEncoding == "none"            \* the mode's encoding is 0: it follows from order and depth
UYVY == "UYVY"

\* struct mode_def; the receiver's timing and the black level are left out.  The order is
\* enum bayer_order: 0 BGGR, 1 GBRG, 2 GRBG, 3 RGGB.
Mode(regs, width, height, encoding, order, native_bit_depth, min_vts, line_time_ns, image_id) ==
    [regs |-> regs, width |-> width, height |-> height, encoding |-> encoding, order |-> order,
     native_bit_depth |-> native_bit_depth, min_vts |-> min_vts, line_time_ns |-> line_time_ns,
     image_id |-> image_id]

\* A bit of a register, and a field of so many bits from a register on; register 0 is none.
Bit(reg, bit) == [reg |-> reg, bit |-> bit]
Bits(reg, bits) == [reg |-> reg, bits |-> bits]

-----------------------------------------------------------------------------
(* OmniVision OV5647 *)

ov5647_5MPix == Table(<<
    <<\H100, 0>>, <<\H103, 1>>, <<\H3034, \H1A, \H21, \H69>>, <<\H303C, \H11>>,
    <<\H3106, \HF5>>, <<\H3827, \HEC>>, <<\H370C, 3>>, <<\H3612, \H5B>>, <<\H3618, 4>>,
    <<\H5000, 6>>, <<\H5002, \H40, 8>>, <<\H5A00, 8>>, <<\H3000, 0, 0, 0>>,
    <<\H3016, 8, \HE0, \H44>>, <<\H301C, \HF8, \HF0>>, <<\H3A18, 0, \HF8>>, <<\H3C01, \H80>>,
    <<\H3B07, \HC>>, <<\H380C, \HB, \H1C, 7, \HB0>>, <<\H3814, \H11, \H11>>,
    <<\H3708, \H64, \H12>>, <<\H3808, \HA, \H20, 7, \H98>>,
    <<\H3800, 0, 0, 0, 0, \HA, \H3F, 7, \HA3>>, <<\H3811, \H10>>, <<\H3813, 6>>,
    <<\H3630, \H2E>>, <<\H3632, \HE2, \H23, \H44>>, <<\H3636, 6>>, <<\H3620, \H64, \HE0>>,
    <<\H3600, \H37>>, <<\H3704, \HA0>>, <<\H3703, \H5A>>, <<\H3715, \H78>>, <<\H3717, 1>>,
    <<\H3731, 2>>, <<\H370B, \H60>>, <<\H3705, \H1A>>, <<\H3F05, 2, \H10>>, <<\H3F01, \HA>>,
    <<\H3A08, 1, \H28, 0, \HF6>>, <<\H3A0D, 8, 6, \H58, \H50>>, <<\H3A1B, \H58>>,
    <<\H3A1E, \H50>>, <<\H3A11, \H60>>, <<\H3A1F, \H28>>, <<\H4001, 2>>, <<\H4004, 4>>,
    <<\H4000, 9>>, <<\H4837, \H16>>, <<\H4800, \H24>>, <<\H3503, 3>>, <<\H3820, \H41, 3>>,
    <<\H350A, 0, \H23>>, <<\H3212, 0>>, <<\H3500, 0, 4, \H60>>, <<\H3212, \H10>>,
    <<\H3212, \HA0>>, <<\H100, 1>> >>)

ov5647_mode1 == Table(<<
    <<\H100, 0>>, <<\H103, 1>>, <<\H3034, \H1A, \H21, \H62>>, <<\H303C, \H11>>,
    <<\H3106, \HF5>>, <<\H3827, \HEC>>, <<\H370C, 3>>, <<\H3612, \H5B>>, <<\H3618, 4>>,
    <<\H5000, 6>>, <<\H5002, \H40, 8>>, <<\H5A00, 8>>, <<\H3000, 0, 0, 0>>,
    <<\H3016, 8, \HE0, \H44>>, <<\H301C, \HF8, \HF0>>, <<\H3A18, 0, \HF8>>, <<\H3C01, \H80>>,
    <<\H3B07, \HC>>, <<\H380C, 9, \H70>>, <<\H3814, \H11, \H11>>, <<\H3708, \H64, \H12>>,
    <<\H3808, 7, \H80, 4, \H38>>, <<\H3800, 1, \H5C, 1, \HB2, 8, \HE3, 5, \HF1>>, <<\H3811, 4>>,
    <<\H3813, 2>>, <<\H3630, \H2E>>, <<\H3632, \HE2, \H23, \H44>>, <<\H3636, 6>>,
    <<\H3620, \H64, \HE0>>, <<\H3600, \H37>>, <<\H3704, \HA0>>, <<\H3703, \H5A>>,
    <<\H3715, \H78>>, <<\H3717, 1>>, <<\H3731, 2>>, <<\H370B, \H60>>, <<\H3705, \H1A>>,
    <<\H3F05, 2, \H10>>, <<\H3F01, \HA>>, <<\H3A08, 1, \H4B, 1, \H13>>,
    <<\H3A0D, 4, 3, \H58, \H50>>, <<\H3A1B, \H58>>, <<\H3A1E, \H50>>, <<\H3A11, \H60>>,
    <<\H3A1F, \H28>>, <<\H4001, 2>>, <<\H4004, 4>>, <<\H4000, 9>>, <<\H4837, \H19>>,
    <<\H4800, \H34>>, <<\H3503, 3>>, <<\H3820, 0, 2>>, <<\H380E, 4, \H66>>, <<\H350A, 0, \H10>>,
    <<\H3500, 0, \H15, \H20>>, <<\H3212, \HA0>>, <<\H100, 1>> >>)

ov5647_mode2 == Table(<<
    <<\H100, 0>>, <<\H103, 1>>, <<\H3034, \H1A, \H21, \H69>>, <<\H303C, \H11>>,
    <<\H3106, \HF5>>, <<\H3827, \HEC>>, <<\H370C, 3>>, <<\H3612, \H5B>>, <<\H3618, 4>>,
    <<\H5000, 6>>, <<\H5002, \H40, 8>>, <<\H5A00, 8>>, <<\H3000, 0, 0, 0>>,
    <<\H3016, 8, \HE0, \H44>>, <<\H301C, \HF8, \HF0>>, <<\H3A18, 0, \HF8>>, <<\H3C01, \H80>>,
    <<\H3B07, \HC>>, <<\H380C, \HB, \H1C>>, <<\H3814, \H11, \H11>>, <<\H3708, \H64, \H12>>,
    <<\H3808, \HA, \H20, 7, \H98>>, <<\H3800, 0, 0, 0, 0, \HA, \H3F, 7, \HA3>>,
    <<\H3811, \H10>>, <<\H3813, 6>>, <<\H3630, \H2E>>, <<\H3632, \HE2, \H23, \H44>>,
    <<\H3636, 6>>, <<\H3620, \H64, \HE0>>, <<\H3600, \H37>>, <<\H3704, \HA0>>, <<\H3703, \H5A>>,
    <<\H3715, \H78>>, <<\H3717, 1>>, <<\H3731, 2>>, <<\H370B, \H60>>, <<\H3705, \H1A>>,
    <<\H3F05, 2, \H10>>, <<\H3F01, \HA>>, <<\H3A08, 1, \H28, 0, \HF6>>,
    <<\H3A0D, 8, 6, \H58, \H50>>, <<\H3A1B, \H58>>, <<\H3A1E, \H50>>, <<\H3A11, \H60>>,
    <<\H3A1F, \H28>>, <<\H4001, 2>>, <<\H4004, 4>>, <<\H4000, 9>>, <<\H4837, \H16>>,
    <<\H4800, \H24>>, <<\H3503, 3>>, <<\H3820, 0, 2>>, <<\H380E, 8, 3>>, <<\H350A, 0, \H10>>,
    <<\H3500, 0, \H13, \H40>>, <<\H3212, \HA0>>, <<\H100, 1>> >>)

ov5647_mode3 == Table(<<
    <<\H100, 0>>, <<\H103, 1>>, <<\H3034, \H1A, \H21, \H34>>, <<\H303C, \H11>>,
    <<\H3106, \HF5>>, <<\H3827, \HEC>>, <<\H370C, 3>>, <<\H3612, \H5B>>, <<\H3618, 4>>,
    <<\H5000, 6>>, <<\H5002, \H40, 8>>, <<\H5A00, 8>>, <<\H3000, 0, 0, 0>>,
    <<\H3016, 8, \HE0, \H44>>, <<\H301C, \HF8, \HF0>>, <<\H3A18, 0, \HF8>>, <<\H3C01, \H80>>,
    <<\H3B07, \HC>>, <<\H380C, \H1F, \H1B>>, <<\H3814, \H11, \H11>>, <<\H3708, \H64, \H12>>,
    <<\H3808, \HA, \H20, 7, \H98>>, <<\H3800, 0, 0, 0, 0, \HA, \H3F, 7, \HA3>>,
    <<\H3811, \H10>>, <<\H3813, 6>>, <<\H3630, \H2E>>, <<\H3632, \HE2, \H23, \H44>>,
    <<\H3636, 6>>, <<\H3620, \H64, \HE0>>, <<\H3600, \H37>>, <<\H3704, \HA0>>, <<\H3703, \H5A>>,
    <<\H3715, \H78>>, <<\H3717, 1>>, <<\H3731, 2>>, <<\H370B, \H60>>, <<\H3705, \H1A>>,
    <<\H3F05, 2, \H10>>, <<\H3F01, \HA>>, <<\H3A08, 1, \H28, 0, \HF6>>,
    <<\H3A0D, 8, 6, \H58, \H50>>, <<\H3A1B, \H58>>, <<\H3A1E, \H50>>, <<\H3A11, \H60>>,
    <<\H3A1F, \H28>>, <<\H4001, 2>>, <<\H4004, 4>>, <<\H4000, 9>>, <<\H4837, \H16>>,
    <<\H4800, \H24>>, <<\H3503, 3>>, <<\H3820, 0, 2>>, <<\H380E, \H15, \H56>>,
    <<\H350A, 0, \H10>>, <<\H3500, 0, 3, \H60>>, <<\H3212, \HA0>>, <<\H100, 1>> >>)

ov5647_mode4 == Table(<<
    <<\H100, 0>>, <<\H103, 1>>, <<\H3034, \H1A, \H21, \H62>>, <<\H303C, \H11>>,
    <<\H3106, \HF5>>, <<\H3827, \HEC>>, <<\H370C, 3>>, <<\H3612, \H59>>, <<\H3618, 0>>,
    <<\H5000, 6>>, <<\H5002, \H40, 8>>, <<\H5A00, 8>>, <<\H3000, 0, 0, 0>>,
    <<\H3016, 8, \HE0, \H44>>, <<\H301C, \HF8, \HF0>>, <<\H3A18, 0, \HF8>>, <<\H3C01, \H80>>,
    <<\H3B07, \HC>>, <<\H3800, 0, 0, 0, 0, \HA, \H3F, 7, \HA3, 5, \H10, 3, \HCC, 7, \H68>>,
    <<\H3811, \H10>>, <<\H3813, 6, \H31, \H31>>, <<\H3630, \H2E>>, <<\H3632, \HE2, \H23, \H44>>,
    <<\H3636, 6>>, <<\H3620, \H64, \HE0>>, <<\H3600, \H37>>, <<\H3704, \HA0>>, <<\H3703, \H5A>>,
    <<\H3715, \H78>>, <<\H3717, 1>>, <<\H3731, 2>>, <<\H370B, \H60>>, <<\H3705, \H1A>>,
    <<\H3F05, 2, \H10>>, <<\H3F01, \HA>>, <<\H3A08, 1, \H28, 0, \HF6>>,
    <<\H3A0D, 8, 6, \H58, \H50>>, <<\H3A1B, \H58>>, <<\H3A1E, \H50>>, <<\H3A11, \H60>>,
    <<\H3A1F, \H28>>, <<\H4001, 2>>, <<\H4004, 4>>, <<\H4000, 9>>, <<\H4837, \H16>>,
    <<\H4800, \H24>>, <<\H3503, 3>>, <<\H3820, \H41, 3>>, <<\H380E, 5, \H9B>>,
    <<\H350A, 0, \H10>>, <<\H3500, 0, \H1A, \HF0>>, <<\H3212, \HA0>>, <<\H100, 1>> >>)

ov5647_mode5 == Table(<<
    <<\H100, 0>>, <<\H103, 1>>, <<\H3034, \H1A, \H21, \H62>>, <<\H303C, \H11>>,
    <<\H3106, \HF5>>, <<\H3827, \HEC>>, <<\H370C, 3>>, <<\H3612, \H59>>, <<\H3618, 0>>,
    <<\H5000, 6>>, <<\H5002, \H40, 8>>, <<\H5A00, 8>>, <<\H3000, 0, 0, 0>>,
    <<\H3016, 8, \HE0, \H44>>, <<\H301C, \HF8, \HF0>>, <<\H3A18, 0, \HF8>>, <<\H3C01, \H80>>,
    <<\H3B07, \HC>>, <<\H3800, 0, 0, 0, 0, \HA, \H3F, 5, \HBF, 5, \H10, 2, \HDA, 7, \H68>>,
    <<\H3811, \H10>>, <<\H3813, 6, \H31, \H31>>, <<\H3630, \H2E>>, <<\H3632, \HE2, \H23, \H44>>,
    <<\H3636, 6>>, <<\H3620, \H64, \HE0>>, <<\H3600, \H37>>, <<\H3704, \HA0>>, <<\H3703, \H5A>>,
    <<\H3715, \H78>>, <<\H3717, 1>>, <<\H3731, 2>>, <<\H370B, \H60>>, <<\H3705, \H1A>>,
    <<\H3F05, 2, \H10>>, <<\H3F01, \HA>>, <<\H3A08, 1, \H28, 0, \HF6>>,
    <<\H3A0D, 8, 6, \H58, \H50>>, <<\H3A1B, \H58>>, <<\H3A1E, \H50>>, <<\H3A11, \H60>>,
    <<\H3A1F, \H28>>, <<\H4001, 2>>, <<\H4004, 4>>, <<\H4000, 9>>, <<\H4837, \H16>>,
    <<\H4800, \H24>>, <<\H3503, 3>>, <<\H3820, \H41, 3>>, <<\H380E, 5, \H9B>>,
    <<\H350A, 0, \H10>>, <<\H3500, 0, \H1A, \HF0>>, <<\H3212, \HA0>>, <<\H100, 1>> >>)

ov5647_mode6 == Table(<<
    <<\H100, 0>>, <<\H103, 1>>, <<\H3036, \H46>>, <<\H303C, \H11>>, <<\H370C, 3>>,
    <<\H3612, \H59>>, <<\H3618, 0>>, <<\H5000, 6>>, <<\H5003, 8>>, <<\H5A00, 8>>,
    <<\H301D, \HF0>>, <<\H3A18, 0, \HF8>>, <<\H3C01, \H80>>, <<\H3B07, \HC>>,
    <<\H380C, 7, \H3C>>, <<\H3814, \H71, \H71>>, <<\H3708, \H64, \H52>>,
    <<\H3808, 2, \H80, 1, \HE0>>, <<\H3800, 0, \H10, 0, 0, \HA, \H2F, 7, \H9F>>,
    <<\H3630, \H2E>>, <<\H3632, \HE2, \H23, \H44>>, <<\H3620, \H64, \HE0>>, <<\H3600, \H37>>,
    <<\H3704, \HA0>>, <<\H3703, \H5A>>, <<\H3715, \H78>>, <<\H3717, 1>>, <<\H3731, 2>>,
    <<\H370B, \H60>>, <<\H3705, \H1A>>, <<\H3F05, 2, \H10>>, <<\H3F01, \HA>>,
    <<\H3A08, 1, \H2E, 0, \HFB>>, <<\H3A0D, 2, 1, \H58, \H50>>, <<\H3A1B, \H58>>,
    <<\H3A1E, \H50>>, <<\H3A11, \H60>>, <<\H3A1F, \H28>>, <<\H4001, 2>>, <<\H4004, 2>>,
    <<\H4000, 9>>, <<\H3000, 0, 0, 0>>, <<\H3017, \HE0>>, <<\H3636, 6>>, <<\H3016, 8>>,
    <<\H3827, \HEC>>, <<\H3018, \H44>>, <<\H3035, \H21>>, <<\H3106, \HF5>>, <<\H3034, \H1A>>,
    <<\H301C, \HF8>>, <<\H4800, \H34>>, <<\H3503, 3>>, <<\H3820, \H41, 3>>, <<\H380E, 2, \HEC>>,
    <<\H350A, 0, \H10>>, <<\H3500, 0, \H13, \HB0>>, <<\H3212, \HA0>>, <<\H100, 1>> >>)

ov5647_mode7 == Table(<<
    <<\H100, 0>>, <<\H103, 1>>, <<\H3034, \H1A, \H21, \H69>>, <<\H303C, \H11>>,
    <<\H3106, \HF5>>, <<\H3827, \HEC>>, <<\H370C, \HF>>, <<\H3612, \H59>>, <<\H3618, 0>>,
    <<\H5000, 6>>, <<\H5002, \H40, 8>>, <<\H5A00, 8>>, <<\H3000, 0, 0, 0>>,
    <<\H3016, 8, \HE0, \H44>>, <<\H301C, \HF8, \HF0>>, <<\H3A18, 0, \HF8>>, <<\H3C01, \H80>>,
    <<\H3B07, \HC>>, <<\H380C, 7, \H3C>>, <<\H3814, \H71, \H35>>, <<\H3708, \H64, \H52>>,
    <<\H3808, 2, \H80, 1, \HE0>>, <<\H3800, 0, \H10, 0, 0, \HA, \H2F, 7, \H9F>>,
    <<\H3630, \H2E>>, <<\H3632, \HE2, \H23, \H44>>, <<\H3636, 6>>, <<\H3620, \H64, \HE0>>,
    <<\H3600, \H37>>, <<\H3704, \HA0>>, <<\H3703, \H5A>>, <<\H3715, \H78>>, <<\H3717, 1>>,
    <<\H3731, 2>>, <<\H370B, \H60>>, <<\H3705, \H1A>>, <<\H3F05, 2, \H10>>, <<\H3F01, \HA>>,
    <<\H3A08, 1, \H2E, 0, \HFB>>, <<\H3A0D, 2, 1, \H58, \H50>>, <<\H3A1B, \H58>>,
    <<\H3A1E, \H50>>, <<\H3A11, \H60>>, <<\H3A1F, \H28>>, <<\H4001, 2>>, <<\H4004, 2>>,
    <<\H4000, 9>>, <<\H4837, \H17>>, <<\H4800, \H34>>, <<\H3503, 3>>, <<\H3820, \H41, 3>>,
    <<\H380E, 3, \H12>>, <<\H350A, 0, \H10>>, <<\H3500, 0, \H1D, \H80>>, <<\H3212, \HA0>>,
    <<\H100, 1>> >>)

ov5647_modes == <<
    Mode(ov5647_5MPix, 2592, 1944, NoEncoding, 1, 10, 1968, 32503, \H2B),
    Mode(ov5647_mode1, 1920, 1080, NoEncoding, 1, 10, 1104, 29584, \H2B),
    Mode(ov5647_mode2, 2592, 1944, NoEncoding, 1, 10, 1968, 32503, \H2B),
    Mode(ov5647_mode3, 2592, 1944, NoEncoding, 1, 10, 1968, 183789, \H2B),
    Mode(ov5647_mode4, 1296, 976, NoEncoding, 1, 10, 996, 23216, \H2B),
    Mode(ov5647_mode5, 1296, 730, NoEncoding, 1, 10, 754, 23216, \H2B),
    Mode(ov5647_mode6, 640, 480, NoEncoding, 1, 10, 484, 31749, \H2B),
    Mode(ov5647_mode7, 640, 480, NoEncoding, 1, 10, 484, 21165, \H2B) >>

ov5647_stop == Table(<<
    <<\H100, 0>> >>)

ov5647 ==
    [name |-> "ov5647", modes |-> ov5647_modes, stop |-> ov5647_stop,
     addr |-> \H36, addressing |-> 2, data_size |-> 1,
     ident |-> [reg |-> \H300A, length |-> 2, value |-> \H4756],
     vflip |-> Bit(\H3820, 0), hflip |-> Bit(\H3821, 0), keepsOrder |-> FALSE,
     exposure |-> Bits(\H3500, 20), vts |-> Bits(\H380E, 16), gain |-> Bits(\H350A, 10)]

-----------------------------------------------------------------------------
(* Sony IMX219 *)

imx219_8MPix == Table(<<
    <<\H100, 0>>, <<\H30EB, 5>>, <<\H30EB, \HC>>, <<\H300A, \HFF, \HFF>>, <<\H30EB, 5>>,
    <<\H30EB, 9>>, <<\H114, 1>>, <<\H128, 0>>, <<\H12A, \H18, 0>>, <<\H157, 0, 1, 0, 1, 0>>,
    <<\H160, 9, \HC8, \HD, \H78, 0, 0, \HC, \HCF, 0, 0, 9, \H9F, \HC, \HD0, 9, \HA0, 1, 1, 3>>,
    <<\H174, 0, 0>>, <<\H18C, \HA, \HA>>, <<\H301, 5>>, <<\H303, 1, 3, 3, 0, \H2B>>,
    <<\H309, \HA>>, <<\H30B, 1, 0, \H55>>, <<\H455E, 0>>, <<\H471E, \H4B>>, <<\H4767, \HF>>,
    <<\H4750, \H14>>, <<\H4540, 0>>, <<\H47B4, \H14>>, <<\H4713, \H30>>, <<\H478B, \H10>>,
    <<\H478F, \H10>>, <<\H4797, \HE>>, <<\H479B, \HE>>, <<\H100, 1>> >>)

imx219_mode1 == Table(<<
    <<\H100, 0>>, <<\H30EB, 5>>, <<\H30EB, \HC>>, <<\H300A, \HFF, \HFF>>, <<\H30EB, 5>>,
    <<\H30EB, 9>>, <<\H114, 1>>, <<\H128, 0>>, <<\H12A, \H18, 0>>,
    <<\H162, \HD, \H78, 2, \HA8, \HA, \H27, 2, \HB4, 6, \HEB, 7, \H80, 4, \H38, 1, 1>>,
    <<\H174, 0, 0>>, <<\H18C, \HA, \HA>>, <<\H301, 5>>, <<\H303, 1, 3, 3, 0, \H39>>,
    <<\H309, \HA>>, <<\H30B, 1, 0, \H72>>, <<\H455E, 0>>, <<\H471E, \H4B>>, <<\H4767, \HF>>,
    <<\H4750, \H14>>, <<\H4540, 0>>, <<\H47B4, \H14>>, <<\H4713, \H30>>, <<\H478B, \H10>>,
    <<\H478F, \H10>>, <<\H4793, \H10>>, <<\H4797, \HE>>, <<\H479B, \HE>>, <<\H172, 3>>,
    <<\H157, 0>>, <<\H160, 6, \HE3, \HD, \H78>>, <<\H15A, 0, \H31>>, <<\H100, 1>> >>)

imx219_mode2 == Table(<<
    <<\H100, 0>>, <<\H30EB, \HC>>, <<\H30EB, 5>>, <<\H300A, \HFF, \HFF>>, <<\H30EB, 5>>,
    <<\H30EB, 9>>, <<\H114, 1>>, <<\H128, 0>>, <<\H12A, \H18, 0>>,
    <<\H164, 0, 0, \HC, \HCF, 0, 0, 9, \H9F, \HC, \HD0, 9, \HA0, 1, 1>>, <<\H174, 0, 0>>,
    <<\H18C, \HA, \HA>>, <<\H301, 5>>, <<\H303, 1, 3, 3, 0, \H39>>, <<\H309, \HA>>,
    <<\H30B, 1, 0, \H72>>, <<\H624, \HC, \HD0, 9, \HA0>>, <<\H455E, 0>>, <<\H471E, \H4B>>,
    <<\H4767, \HF>>, <<\H4750, \H14>>, <<\H4540, 0>>, <<\H47B4, \H14>>, <<\H4713, \H30>>,
    <<\H478B, \H10>>, <<\H478F, \H10>>, <<\H4793, \H10>>, <<\H4797, \HE>>, <<\H479B, \HE>>,
    <<\H172, 3>>, <<\H157, 0>>, <<\H160, \HD, \HC6, \HD, \H78>>, <<\H15A, 0, \H31>>,
    <<\H100, 1>> >>)

imx219_mode3 == Table(<<
    <<\H100, 0>>, <<\H30EB, \HC>>, <<\H30EB, 5>>, <<\H300A, \HFF, \HFF>>, <<\H30EB, 5>>,
    <<\H30EB, 9>>, <<\H114, 1>>, <<\H128, 0>>, <<\H12A, \H18, 0>>,
    <<\H164, 0, 0, \HC, \HCF, 0, 0, 9, \H9F, \HC, \HD0, 9, \HA0, 1, 1>>, <<\H174, 0, 0>>,
    <<\H18C, \HA, \HA>>, <<\H301, 5>>, <<\H303, 1, 3, 3, 0, \H39>>, <<\H309, \HA>>,
    <<\H30B, 1, 0, \H72>>, <<\H624, \HC, \HD0, 9, \HA0>>, <<\H455E, 0>>, <<\H471E, \H4B>>,
    <<\H4767, \HF>>, <<\H4750, \H14>>, <<\H4540, 0>>, <<\H47B4, \H14>>, <<\H4713, \H30>>,
    <<\H478B, \H10>>, <<\H478F, \H10>>, <<\H4793, \H10>>, <<\H4797, \HE>>, <<\H479B, \HE>>,
    <<\H172, 3>>, <<\H157, 0>>, <<\H160, \HD, \HC6, \HD, \H78>>, <<\H15A, 0, \H31>>,
    <<\H100, 1>> >>)

imx219_mode4 == Table(<<
    <<\H100, 0>>, <<\H30EB, \HC>>, <<\H30EB, 5>>, <<\H300A, \HFF, \HFF>>, <<\H30EB, 5>>,
    <<\H30EB, 9>>, <<\H114, 1>>, <<\H128, 0>>, <<\H12A, \H18, 0>>,
    <<\H164, 0, 0, \HC, \HCF, 0, 0, 9, \H9F, 6, \H68, 4, \HD0, 1, 1>>, <<\H174, 1, 1>>,
    <<\H18C, \HA, \HA>>, <<\H301, 5>>, <<\H303, 1, 3, 3, 0, \H39>>, <<\H309, \HA>>,
    <<\H30B, 1, 0, \H72>>, <<\H455E, 0>>, <<\H471E, \H4B>>, <<\H4767, \HF>>, <<\H4750, \H14>>,
    <<\H4540, 0>>, <<\H47B4, \H14>>, <<\H4713, \H30>>, <<\H478B, \H10>>, <<\H478F, \H10>>,
    <<\H4793, \H10>>, <<\H4797, \HE>>, <<\H479B, \HE>>, <<\H172, 3>>, <<\H157, 0>>,
    <<\H160, 5, \H2A, \HD, \H78>>, <<\H15A, 0, \H31>>, <<\H100, 1>> >>)

imx219_mode5 == Table(<<
    <<\H100, 0>>, <<\H30EB, \HC>>, <<\H30EB, 5>>, <<\H300A, \HFF, \HFF>>, <<\H30EB, 5>>,
    <<\H30EB, 9>>, <<\H114, 1>>, <<\H128, 0>>, <<\H12A, \H18, 0>>,
    <<\H164, 0, 0, \HC, \HCF, 1, \H36, 8, \H69, 6, \H68, 3, \H9A, 1, 1>>, <<\H174, 1, 1>>,
    <<\H18C, \HA, \HA>>, <<\H301, 5>>, <<\H303, 1, 3, 3, 0, \H39>>, <<\H309, \HA>>,
    <<\H30B, 1, 0, \H72>>, <<\H455E, 0>>, <<\H471E, \H4B>>, <<\H4767, \HF>>, <<\H4750, \H14>>,
    <<\H4540, 0>>, <<\H47B4, \H14>>, <<\H4713, \H30>>, <<\H478B, \H10>>, <<\H478F, \H10>>,
    <<\H4793, \H10>>, <<\H4797, \HE>>, <<\H479B, \HE>>, <<\H172, 3>>, <<\H157, 0>>,
    <<\H160, 5, \H2A, \HD, \H78>>, <<\H15A, 0, \H31>>, <<\H100, 1>> >>)

imx219_mode6 == Table(<<
    <<\H100, 0>>, <<\H30EB, 5>>, <<\H30EB, \HC>>, <<\H300A, \HFF, \HFF>>, <<\H30EB, 5>>,
    <<\H30EB, 9>>, <<\H114, 1>>, <<\H128, 0>>, <<\H12A, \H18, 0>>,
    <<\H164, 1, \H68, \HB, \H67, 2, 0, 7, \H9F, 5, 0, 2, \HD0, 1, 1>>, <<\H174, 3, 3>>,
    <<\H18C, \HA, \HA>>, <<\H301, 5>>, <<\H303, 1, 3, 3, 0, \H39>>, <<\H309, \HA>>,
    <<\H30B, 1, 0, \H72>>, <<\H455E, 0>>, <<\H471E, \H4B>>, <<\H4767, \HF>>, <<\H4750, \H14>>,
    <<\H4540, 0>>, <<\H47B4, \H14>>, <<\H4713, \H30>>, <<\H478B, \H10>>, <<\H478F, \H10>>,
    <<\H4793, \H10>>, <<\H4797, \HE>>, <<\H479B, \HE>>, <<\H172, 3>>, <<\H157, 0>>,
    <<\H160, 2, \H39, \HD, \HE7>>, <<\H15A, 0, \H2F>>, <<\H100, 1>> >>)

imx219_mode7 == Table(<<
    <<\H100, 0>>, <<\H30EB, 5>>, <<\H30EB, \HC>>, <<\H300A, \HFF, \HFF>>, <<\H30EB, 5>>,
    <<\H30EB, 9>>, <<\H114, 1>>, <<\H128, 0>>, <<\H12A, \H18, 0>>,
    <<\H164, 3, \HE8, 8, \HE7, 2, \HF0, 6, \HAF, 2, \H80, 1, \HE0, 1, 1>>, <<\H174, 3, 3>>,
    <<\H18C, \HA, \HA>>, <<\H301, 5>>, <<\H303, 1, 3, 3, 0, \H39>>, <<\H309, \HA>>,
    <<\H30B, 1, 0, \H72>>, <<\H455E, 0>>, <<\H471E, \H4B>>, <<\H4767, \HF>>, <<\H4750, \H14>>,
    <<\H4540, 0>>, <<\H47B4, \H14>>, <<\H4713, \H30>>, <<\H478B, \H10>>, <<\H478F, \H10>>,
    <<\H4793, \H10>>, <<\H4797, \HE>>, <<\H479B, \HE>>, <<\H172, 3>>, <<\H157, 0>>,
    <<\H160, 2, \H39, \HD, \HE7>>, <<\H15A, 0, \H2F>>, <<\H100, 1>> >>)

imx219_modes == <<
    Mode(imx219_8MPix, 3280, 2464, NoEncoding, 0, 10, 2504, 18904, \H2B),
    Mode(imx219_mode1, 1920, 1080, NoEncoding, 0, 10, 1084, 18904, \H2B),
    Mode(imx219_mode2, 3280, 2464, NoEncoding, 0, 10, 2468, 18904, \H2B),
    Mode(imx219_mode3, 3280, 2464, NoEncoding, 0, 10, 2468, 18904, \H2B),
    Mode(imx219_mode4, 1640, 1232, NoEncoding, 0, 10, 1236, 18904, \H2B),
    Mode(imx219_mode5, 1640, 922, NoEncoding, 0, 10, 926, 18904, \H2B),
    Mode(imx219_mode6, 1280, 720, NoEncoding, 0, 10, 724, 19517, \H2B),
    Mode(imx219_mode7, 640, 480, NoEncoding, 0, 10, 484, 19517, \H2B) >>

imx219_stop == Table(<<
    <<\H100, 0>> >>)

imx219 ==
    [name |-> "imx219", modes |-> imx219_modes, stop |-> imx219_stop,
     addr |-> \H10, addressing |-> 2, data_size |-> 1,
     ident |-> [reg |-> 0, length |-> 2, value |-> \H1902],
     vflip |-> Bit(\H172, 1), hflip |-> Bit(\H172, 0), keepsOrder |-> FALSE,
     exposure |-> Bits(\H15A, 16), vts |-> Bits(\H160, 16), gain |-> Bits(\H157, 8)]

-----------------------------------------------------------------------------
(* Analog Devices ADV7282-M.  In its tables 0xFFFF selects the address that is the entry's
   data, and 0xFFFE waits. *)

adv7282_pal == Table(<<
    <<\HF, \H80>>, <<\HFFFE, \H64>>, <<\HFE, \H88>>, <<\HFD, \H84>>, <<\H80, \H51, \H51, \H68>>,
    <<3, \H4E, \H57>>, <<\H1D, \HC0>>, <<\H13, 0>>, <<2, \H80>>, <<\HFFFF, \H44>>,
    <<1, \H20, \H28, \H38, \H30, \H30, \H80, \H70, \H50>>, <<\HFFFF, \H42>>, <<\HA3, 0>>,
    <<\H5B, 0>>, <<\H55, \H80>>, <<\HFFFF, \H21>>, <<0, 0>>, <<\H809C, 0>>, <<\H809C, \HFF>>,
    <<\H17, \H41>>, <<\H52, \HCD, \H4E, \H80>>, <<\H5F, \HF0>>, <<\H5A, \HD0>>, <<\H60, \H10>>,
    <<\H80B6, \H9C>>, <<\H80C0, 0>>, <<\HF, 4>>, <<\HFFFF, \H44>>, <<\HDE, 2>>, <<\HD2, \HF7>>,
    <<\HD8, \H65>>, <<\HE0, 9>>, <<\H2C, 0>>, <<\H1D, \H80>>, <<0, 0>>, <<\HFFFF, \H21>> >>)

adv7282_ntsc == <<>>

adv7282_modes == <<
    Mode(adv7282_pal, 720, 576, UYVY, 0, 0, 0, 0, \H1E),
    Mode(adv7282_ntsc, 720, 480, UYVY, 0, 0, 0, 0, \H1E) >>

adv7282_stop == Table(<<
    <<\HFFFF, \H21>>, <<\HF, \H24>>, <<\HFFFF, \H44>>, <<0, \H80>> >>)

adv7282 ==
    [name |-> "adv7282", modes |-> adv7282_modes, stop |-> adv7282_stop,
     addr |-> \H21, addressing |-> 1, data_size |-> 1,
     ident |-> [reg |-> \H1100, length |-> 1, value |-> \H42],
     vflip |-> Bit(0, 0), hflip |-> Bit(0, 0), keepsOrder |-> FALSE,
     exposure |-> Bits(0, 0), vts |-> Bits(0, 0), gain |-> Bits(0, 0)]

-----------------------------------------------------------------------------
(* ON Semiconductor AR0144 *)

ar0144_regs == Table(<<
    <<\H301A, \H205C>> >>)

ar0144_modes == <<
    Mode(ar0144_regs, 1280, 800, NoEncoding, 1, 12, 832, 23077, \H2C) >>

ar0144_stop == Table(<<
    <<\H301A, \H2058>> >>)

ar0144 ==
    [name |-> "ar0144", modes |-> ar0144_modes, stop |-> ar0144_stop,
     addr |-> \H10, addressing |-> 2, data_size |-> 2,
     ident |-> [reg |-> \H301A, length |-> 2, value |-> \H5820],
     vflip |-> Bit(0, 0), hflip |-> Bit(0, 0), keepsOrder |-> FALSE,
     exposure |-> Bits(0, 20), vts |-> Bits(0, 16), gain |-> Bits(0, 10)]
-----------------------------------------------------------------------------
\* In the order in which probe_sensor tries them.
sensors == <<ov5647, ar0144, imx219, adv7282>>
=============================================================================
