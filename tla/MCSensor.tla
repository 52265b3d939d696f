------------------------------ MODULE MCSensor ------------------------------
(***************************************************************************)
(* All modes of all sensors, with command lines that combine the options   *)
(* that meet in the same registers: the flips; the exposure, the frame     *)
(* rate and the gain; the size and the position; the depth.                *)
(***************************************************************************)
EXTENDS SensorBus, SensorModes

Plain == [mode |-> 0, edits |-> <<>>, fps2 |-> 0, width |-> 0, height |-> 0, left |-> 0, top |-> 0,
          bit_depth |-> -1, exposure_us |-> -1, exposure |-> -1, gain |-> -1,
          hflip |-> FALSE, vflip |-> FALSE, headerg |-> FALSE]

Modes == 0 .. 8
EveryMode(options) == {[o EXCEPT !.mode = m] : o \in options, m \in Modes}

Flips == {[Plain EXCEPT !.hflip = h, !.vflip = v, !.bit_depth = d, !.headerg = g] :
             h \in BOOLEAN, v \in BOOLEAN, d \in {-1, 8, 10, 12, 14, 16}, g \in BOOLEAN}
Exposures == {[Plain EXCEPT !.exposure = e, !.fps2 = f, !.exposure_us = u] :
                 e \in {-2, 0, 255, 996, 1105, 65535, 65536, 2^20 - 1, 2^20}, f \in {0, 1, 60},
                 u \in {-1, 100000}}
GainOptions == {[Plain EXCEPT !.gain = g] : g \in {-2, 255, 256, 1023, 1024}}
Windows == {[Plain EXCEPT !.width = w, !.height = h, !.left = l, !.top = l] :
               w \in {0, 1000, 2592}, h \in {0, 600}, l \in {0, 17}}
LineLength == {[Plain EXCEPT !.edits = <<[reg |-> \H162, data |-> 14], [reg |-> \H163, data |-> 1]>>,
                             !.exposure = 255]}

MCOptions == EveryMode(Flips \cup Exposures \cup GainOptions \cup Windows \cup LineLength)

\* -regs on the imx219: the line length of 3585 pixels
Imx219 == <<imx219>>
MCEdits == {[o EXCEPT !.mode = m] : o \in LineLength \cup {Plain}, m \in Modes}
=============================================================================
