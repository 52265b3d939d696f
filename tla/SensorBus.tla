----------------------------- MODULE SensorBus ------------------------------
(***************************************************************************)
(* raspiraw and the sensor at the other end of the I2C bus, over several   *)
(* invocations of the program: probe_sensor finds the sensor, main edits   *)
(* its table (SensorRegs), start_camera_streaming sends it, the program    *)
(* streams, and stop_camera_streaming sends the sensor's stop table; then  *)
(* main does both a second time, without another probe.  The program can   *)
(* be killed, the sensor keeps what it was sent.  A transfer can fail:     *)
(* send_regs logs that and goes on.                                        *)
(*                                                                         *)
(* Of the sensor's registers only those are kept that tell who it is and   *)
(* whether it streams.                                                     *)
(***************************************************************************)
EXTENDS SensorRegs

CONSTANT MaxRuns     \* bound: invocations

VARIABLES
    attached,  \* the index in Sensors of the sensor on the bus, 0 if there is none
    mem,       \* its registers: a function from pairs of an address and a register
    heard,     \* whether every transfer of the last probe succeeded
    clean,     \* whether every transfer of the last table did
    orderly,   \* whether the sensor was last stopped, by a table that arrived
    runs       \* invocations so far

bus == <<attached, mem, heard, clean, orderly, runs>>
vars == <<sensor, opt, edited, pc, bus>>

SetSlave == 65535        \* the codes of send_regs, 0xFFFF and 0xFFFE
Sleep == 65534

-----------------------------------------------------------------------------
(* The sensors *)

\* The cells that say whether a sensor streams, with their values when it does not: the
\* register 0x100, 0x301A with 0x2058, or 0x0F with 0x24 and that of 0x44 with 0x80.
StreamCells(s) ==
    CASE s.name \in {"ov5647", "imx219"} -> [c \in {<<s.addr, 256>>} |-> 0]
      [] s.name = "ar0144" -> [c \in {<<s.addr, 12314>>} |-> 8280]
      [] s.name = "adv7282" ->
            [c \in {<<s.addr, 15>>, <<68, 0>>} |-> IF c = <<68, 0>> THEN 128 ELSE 36]

Streaming(s, m) ==
    \/ s.name \in {"ov5647", "imx219"} /\ m[<<s.addr, 256>>] = 1
    \/ s.name = "ar0144" /\ (m[<<s.addr, 12314>>] \div 4) % 2 = 1
    \/ s.name = "adv7282" /\ m[<<s.addr, 15>>] = 4 /\ m[<<68, 0>>] = 0

\* A register of 16 bits arrives high byte first, and is read into a little-endian integer.
Swap(n) == 256 * (n % 256) + n \div 256

IdentCell(s) == <<s.addr, IF s.addressing = 1 THEN s.ident.reg \div 256 ELSE s.ident.reg>>
Identity(s) == IF s.ident.length = 1 THEN s.ident.value ELSE Swap(s.ident.value)

\* Whether a table of s can change what identifies it, as that of the ar0144 does, whose
\* identification is the value that its register has while it does not stream.
IdentChanges(s) == IdentCell(s) \in DOMAIN StreamCells(s)

PowerOn(s) == [c \in {IdentCell(s)} \cup DOMAIN StreamCells(s) |->
                  IF c = IdentCell(s) THEN Identity(s) ELSE StreamCells(s)[c]]

-----------------------------------------------------------------------------
Init == /\ attached \in 0 .. Len(Sensors)
        /\ mem = IF attached = 0 THEN <<>> ELSE PowerOn(Sensors[attached])
        /\ opt \in Options
        /\ sensor = 0 /\ pc = "probe"
        /\ regs = <<>> /\ size = <<0, 0>> /\ order = 0 /\ exposure = -1 /\ depth = -1
        /\ encoding = "none"
        /\ heard = TRUE /\ clean = TRUE /\ orderly = TRUE
        /\ runs = 1

\* i2c_rd of the identification register: an address or a register that nothing is known of
\* answers something else.
Answers(s) == /\ attached # 0
              /\ IdentCell(s) \in DOMAIN mem
              /\ s.ident.value = IF s.ident.length = 1 THEN mem[IdentCell(s)]
                                 ELSE Swap(mem[IdentCell(s)])

\* probe_sensor: the first sensor whose identification can be read and is right.  If the bus
\* cannot be opened, or there is none, main returns -1.
Probe == /\ pc = "probe"
         /\ \E readable \in SUBSET (1 .. Len(Sensors)) :
               LET found == {i \in readable : Answers(Sensors[i])}
               IN  /\ sensor' = IF found = {} THEN 0
                                ELSE CHOOSE i \in found : \A j \in found : i <= j
                   /\ heard' = (readable = 1 .. Len(Sensors))
         /\ pc' = IF sensor' = 0 THEN "ended" ELSE "mode"
         /\ UNCHANGED <<opt, edited, attached, mem, clean, orderly, runs>>

-----------------------------------------------------------------------------
(* send_regs *)

IsWrite(entry) == entry.reg \notin {SetSlave, Sleep}

\* The address that entry i of the table t is sent to.
Slave(t, addr, i, bad) ==
    LET set == {j \in 1 .. i - 1 : t[j].reg = SetSlave /\ j \notin bad}
    IN  IF set = {} THEN addr ELSE t[CHOOSE j \in set : \A k \in set : k <= j].data

CellReg(s, reg) == IF s.addressing = 1 THEN reg % 256 ELSE reg
CellData(s, data) == IF s.data_size = 2 THEN data ELSE data % 256

\* Which of the first n entries of t write to the cell c, if t is sent to the sensor s and the
\* transfers of bad fail.
Hits(s, t, n, bad, c) == {i \in 1 .. n : /\ i \notin bad /\ IsWrite(t[i])
                                         /\ CellReg(s, t[i].reg) = c[2]
                                         /\ Slave(t, s.addr, i, bad) = c[1]}

\* What the cell, which held old, then holds: the data of the last of them.
CellAfter(s, t, n, bad, c, old) ==
    LET hits == Hits(s, t, n, bad, c)
    IN  IF hits = {} THEN old
        ELSE CellData(s, t[CHOOSE i \in hits : \A j \in hits : j <= i].data)

AfterSending(s, t, n, bad) ==
    [c \in DOMAIN mem |-> CellAfter(s, t, n, bad, c, mem[c])]

\* What the probe relies on of the tables: that what a sensor answers when it is asked for its
\* identification is never written, or is restored by the stop table, whatever was written
\* before; and that no sensor has a register where another one is asked.
Entry == [reg : Nat, data : Nat]
TablesOf(s) == {s.stop} \cup {s.modes[k].regs : k \in 1 .. Len(s.modes)}

Spares(s, t) == \A i \in 1 .. Len(t) : IsWrite(t[i]) => CellReg(s, t[i].reg) # IdentCell(s)[2]
Restores(s, t) ==
    CellAfter(s, t, Len(t), {}, IdentCell(s), Identity(s) + 1) = Identity(s)

Value16 == 0 .. 65535

ProperSensor(s) ==
    /\ s.ident.value \in Value16
    /\ s.exposure.bits \in Nat /\ s.vts.bits \in Nat /\ s.gain.bits \in Nat
    /\ Len(s.modes) \in Nat /\ TablesOf(s) \subseteq Seq(Entry)
    /\ IdentChanges(s) => Restores(s, s.stop)
    /\ ~ IdentChanges(s) => \A t \in TablesOf(s) : Spares(s, t)

ASSUME SensorsAssumption ==
    /\ Len(Sensors) \in Nat
    /\ \A i \in 1 .. Len(Sensors) : ProperSensor(Sensors[i])
    /\ \A i, j \in 1 .. Len(Sensors) :
          i # j => IdentCell(Sensors[j]) \notin
                       {IdentCell(Sensors[i])} \cup DOMAIN StreamCells(Sensors[i])

\* What the start and the stop of the stream rely on: that a table, sent as it is, starts it or
\* stops it, whatever the sensor held before, and that no option of update_regs or main edits
\* an entry that has a part in that: one that writes to such a cell or changes the address.
StreamEntries(s, t) == {i \in 1 .. Len(t) : t[i].reg = SetSlave} \cup
                       UNION {Hits(s, t, Len(t), {}, c) : c \in DOMAIN StreamCells(s)}
EditsStream(s, t, reg) == Where(t, reg) # {} /\ First(t, reg) \in StreamEntries(s, t)

Written(s, t) == [c \in DOMAIN StreamCells(s) |-> CellAfter(s, t, Len(t), {}, c, 0)]
Decides(s, t) == \A c \in DOMAIN StreamCells(s) : Hits(s, t, Len(t), {}, c) # {}

ProperStream(s) ==
    /\ s.name \in {"ov5647", "imx219", "ar0144", "adv7282"}
    /\ Decides(s, s.stop) /\ ~ Streaming(s, Written(s, s.stop))
    /\ \A k \in 1 .. Len(s.modes) :
          LET t == s.modes[k].regs
          IN  t # <<>> => /\ Decides(s, t) /\ Streaming(s, Written(s, t))
                          /\ \A p \in 1 .. 5 : \A r \in Ports(s)[p] : ~ EditsStream(s, t, r)

ASSUME StreamsAssumption == \A i \in 1 .. Len(Sensors) : ProperStream(Sensors[i])

\* The entries that matter to the registers that are kept.
Matters(s, t) == {i \in 1 .. Len(t) : \/ t[i].reg = SetSlave
                                      \/ /\ IsWrite(t[i])
                                         /\ \E c \in DOMAIN mem : CellReg(s, t[i].reg) = c[2]}

\* No transfer fails, one does, or the bus is gone.
Failures(s, t) == {{}, 1 .. Len(t)} \cup {{i} : i \in Matters(s, t)}

-----------------------------------------------------------------------------
\* main sends the same table twice (raspiraw.c:2257, 2266) and stops the sensor after each
\* sleep (2262, 2271), whatever became of the transfers of the call before.

Started == [start |-> "streaming", restart |-> "restreaming"]
Stopped == [streaming |-> "restart", restreaming |-> "stopped"]

\* start_camera_streaming, or the program is killed in it.
Start == /\ pc \in {"start", "restart"}
         /\ \E bad \in Failures(S, regs) :
               \/ /\ mem' = AfterSending(S, regs, Len(regs), bad)
                  /\ clean' = (bad = {}) /\ orderly' = FALSE /\ pc' = Started[pc]
               \/ \E n \in {0} \cup Matters(S, regs) :
                     /\ mem' = AfterSending(S, regs, n, bad)
                     /\ clean' = FALSE /\ orderly' = FALSE /\ pc' = "off"
         /\ UNCHANGED <<sensor, opt, edited, attached, heard, runs>>

\* Mutant: the table of the stop is not sent.
StopNothing == /\ pc \in {"streaming", "restreaming"} /\ pc' = Stopped[pc]
               /\ clean' = TRUE /\ orderly' = TRUE
               /\ UNCHANGED <<sensor, opt, edited, attached, mem, heard, runs>>

\* stop_camera_streaming, or the program is killed in it.
Stop == /\ pc \in {"streaming", "restreaming"}
        /\ \E bad \in Failures(S, S.stop) :
              \/ /\ mem' = AfterSending(S, S.stop, Len(S.stop), bad)
                 /\ clean' = (bad = {}) /\ orderly' = (bad = {}) /\ pc' = Stopped[pc]
              \/ \E n \in {0} \cup Matters(S, S.stop) :
                    /\ mem' = AfterSending(S, S.stop, n, bad)
                    /\ clean' = FALSE /\ orderly' = FALSE /\ pc' = "off"
        /\ UNCHANGED <<sensor, opt, edited, attached, heard, runs>>

Kill == /\ pc \in {"streaming", "restart", "restreaming"} /\ pc' = "off"
        /\ UNCHANGED <<sensor, opt, edited, bus>>

\* The same command again.  The tables are those of the program.
Again == /\ pc \in {"ended", "stopped", "off"} /\ runs < MaxRuns
         /\ runs' = runs + 1
         /\ pc' = "probe" /\ sensor' = 0
         /\ regs' = <<>> /\ size' = <<0, 0>> /\ order' = 0 /\ exposure' = -1 /\ depth' = -1
         /\ encoding' = "none"
         /\ UNCHANGED <<opt, attached, mem, heard, clean, orderly>>

Next == \/ Probe
        \/ EditStep /\ UNCHANGED bus
        \/ Start \/ Stop \/ Kill
        \/ Again

Spec == Init /\ [][Next]_vars
-----------------------------------------------------------------------------
(* Correctness *)

\* FoundAgain.  No sensor is taken for another one (the ar0144 and the imx219 have the same
\* address), and the sensor is found whatever was sent to it by earlier invocations, killed
\* or not, as long as the bus works; but the ar0144 only once it was stopped in order: a
\* program that was killed while it streamed, or whose stop did not arrive, leaves a sensor
\* that is found no more (raspiraw.c:356-390, ar0144_modes.h:88).
FoundAgain ==
    pc # "probe" =>
        /\ sensor \in {0, attached}
        /\ attached # 0 /\ heard /\ (orderly \/ ~ IdentChanges(Sensors[attached])) =>
              sensor = attached

\* StreamsAsTold.  If every transfer of start_camera_streaming succeeded the sensor streams,
\* whatever the options did to its table (raspiraw.c:445-462), the second time as the first,
\* even if the stop in between did not arrive (2257-2266); the table of the adv7282's second
\* mode is empty.  After a stop whose transfers succeeded it does not, even if those of the
\* start failed (464-480).  A sensor of several addresses got each write at its own.
StreamsAsTold ==
    clean => /\ pc \in {"streaming", "restreaming"} /\ regs # <<>> =>
                    Streaming(Sensors[attached], mem)
             /\ pc \in {"restart", "stopped"} => ~ Streaming(Sensors[attached], mem)
=============================================================================
