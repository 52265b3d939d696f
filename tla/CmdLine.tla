------------------------------ MODULE CmdLine ------------------------------
(***************************************************************************)
(* parse_cmdline and raspicli_get_command_id: the loop over argv, which    *)
(* looks an option up, finds how many parameters the table says it has,    *)
(* and lets the option's case read its value and step over it.             *)
(*                                                                         *)
(* Options that are read alike are one kind, named by one of their         *)
(* abbreviations.  argv is a sequence of options and values; the values    *)
(* stand for those that the parser's conversions tell apart.               *)
(***************************************************************************)
EXTENDS Naturals, Sequences

CONSTANTS MaxArgs,     \* bound on the length of the command line
          Words        \* the options and values it is made of, a subset of AllWords

Flags == {"-hf", "-awb"}              \* no value: -vf, -hd, -emp, -m, -n, -P, -PY as well
Numeric == {"-sr", "-e", "-c"}        \* one number: -md, -t, -b, -g, -eus, -y, -f, -w, -h ...
Texts == {"-o", "-ts"}                \* a text: -oY; -r, -hd0, -hdg
Options == Flags \cup Numeric \cup Texts \cup {"-awbg", "-p", "-fs", "-op", "-?"}

Values == {"1", "7", "1,2,3,4", "name", "name%s", ""}
Numbers == {"1", "7", "1,2,3,4"}      \* sscanf's %d finds one
Tuples == {"1,2,3,4"}                 \* so do %d,%d,%d,%d and %lf,%lf
Names == {"1", "7", "1,2,3,4", "name", "-bogus"} \cup Options   \* not empty, only %d and %%

AllWords == Options \cup Values \cup {"-bogus"}

ASSUME MaxArgsAssumption == MaxArgs \in Nat \ {0}
ASSUME WordsAssumption == Words \subseteq AllWords

\* cmdline_commands: the options that the table gives a parameter.
TakesParameter == {"-sr", "-c", "-awbg", "-p", "-op"}

VARIABLES
    argv,      \* the command line, without the program's name
    i,         \* the word that is looked at
    valid,     \* as in the code
    cfg,       \* cfg[o]: the value of the option o, "set" for a flag, "unset"
    full,      \* cfg->fullscreen
    result     \* "running", "ok", "invalid", "help", or "undefined": a value was read
               \* where there is none, argv[argc]

vars == <<argv, i, valid, cfg, full, result>>

Lines == UNION {[1 .. n -> Words] : n \in 1 .. MaxArgs}

Init == /\ argv \in Lines
        /\ i = 1
        /\ valid = TRUE
        /\ cfg = [o \in Options |-> "unset"]
        /\ full = 1
        /\ result = "running"

-----------------------------------------------------------------------------
\* raspicli_get_command_id, and what precedes the switch
Looking(kind) == /\ result = "running" /\ valid /\ i <= Len(argv)
                 /\ argv[i] \in kind
                 /\ argv[i] \in TakesParameter => i < Len(argv)
                 /\ UNCHANGED <<argv, result>>

Next1 == i' = i + 1
Next2 == i' = i + 2
Set(value) == cfg' = [cfg EXCEPT ![argv[i]] = value]
Value == argv[i + 1]
Given == i < Len(argv)

\* Invalid: the loop goes on to i + 1, and stops there.
Refuse == valid' = FALSE /\ Next1 /\ UNCHANGED <<cfg, full>>

\* Mutant: a word that is no option is stepped over.
NotAnOptionSkipped == /\ Looking(Values \cup {"-bogus"})
                      /\ Next1
                      /\ UNCHANGED <<valid, cfg, full>>

\* No dash, or not in the table.
NotAnOption == Looking(Values \cup {"-bogus"}) /\ Refuse

\* "If we found a command but are missing a parameter, continue": the loop ends, and
\* the command line is valid.
MissingParameter == /\ result = "running" /\ valid /\ i = Len(argv)
                    /\ argv[i] \in TakesParameter
                    /\ Next1
                    /\ UNCHANGED <<argv, valid, cfg, full, result>>

\* An option whose table entry declares no parameter, and whose case reads one.
ReadPastEnd == /\ result = "running" /\ valid /\ i = Len(argv)
               /\ argv[i] \in (Numeric \cup Texts) \ TakesParameter
               /\ result' = "undefined"
               /\ UNCHANGED <<argv, i, valid, cfg, full>>

Flag == Looking(Flags) /\ Set("set") /\ Next1 /\ UNCHANGED <<valid, full>>

\* Mutant: the value is not stepped over.
NumberStays == /\ Looking(Numeric) /\ Given
               /\ \/ Value \notin Numbers /\ Refuse
                  \/ Value \in Numbers /\ Set(Value) /\ Next1 /\ UNCHANGED <<valid, full>>

\* The number of the camera must be 0 or 1, but is stored and stepped over first.
Number == /\ Looking(Numeric) /\ Given
          /\ \/ Value \notin Numbers /\ Refuse
             \/ /\ Value \in Numbers
                /\ Set(Value)
                /\ Next2
                /\ valid' = (argv[i] = "-c" => Value # "7")
                /\ UNCHANGED full

\* The file names of -o must not be empty, and may hold %d and %% only; a bad pattern is
\* stored and stepped over all the same.
Text == /\ Looking(Texts) /\ Given
        /\ \/ argv[i] = "-o" /\ Value = "" /\ Refuse
           \/ /\ argv[i] = "-o" => Value # ""
              /\ Set(Value)
              /\ Next2
              /\ valid' = (argv[i] = "-o" => Value \in Names)
              /\ UNCHANGED full

\* The gains are stored and stepped over even if they are no gains.
Gains == /\ Looking({"-awbg"})
         /\ Set(Value) /\ Next2
         /\ valid' = (Value \in Tuples)
         /\ UNCHANGED full

\* Without four numbers, full screen.
Window == /\ Looking({"-p"})
          /\ Set(Value) /\ Next2
          /\ full' = IF Value \in Tuples THEN 0 ELSE 1
          /\ UNCHANGED valid

\* -fs, too, steps over the next word.
FullScreen == /\ Looking({"-fs"})
              /\ Set("set") /\ Next2
              /\ full' = 1
              /\ UNCHANGED valid

\* Without a number the default is taken, and the word is an option again.
Opacity == /\ Looking({"-op"})
           /\ \/ Value \in Numbers /\ Set(Value) /\ Next2
              \/ Value \notin Numbers /\ Set("255") /\ Next1
           /\ UNCHANGED <<valid, full>>

Help == /\ result = "running" /\ valid /\ i <= Len(argv)
        /\ argv[i] = "-?"
        /\ result' = "help"
        /\ UNCHANGED <<argv, i, valid, cfg, full>>

Finish == /\ result = "running" /\ (~ valid \/ i > Len(argv))
          /\ result' = IF valid THEN "ok" ELSE "invalid"
          /\ UNCHANGED <<argv, i, valid, cfg, full>>

Next == \/ NotAnOption \/ MissingParameter \/ ReadPastEnd
        \/ Flag \/ Number \/ Text \/ Gains \/ Window \/ FullScreen \/ Opacity \/ Help
        \/ Finish

Spec == Init /\ [][Next]_vars /\ WF_vars(Next)
-----------------------------------------------------------------------------
(* Correctness.  What a command line means, read off the usage and not off  *)
(* the loop: the words that are options, each with the word after it if the *)
(* option has a value.                                                      *)

HasValue == Numeric \cup Texts \cup {"-awbg", "-p", "-op"}

Fits(o, v) == CASE o = "-c" -> v \in Numbers \ {"7"}
                [] o \in (Numeric \ {"-c"}) \cup {"-op"} -> v \in Numbers
                [] o = "-o" -> v \in Names \cap Values
                [] o = "-ts" -> v \in Values
                [] o \in {"-awbg", "-p"} -> v \in Tuples
                [] OTHER -> FALSE

\* A proper command line: options in any order, each followed by a fitting value if it has
\* one and by none otherwise.
Proper == /\ argv[1] \in Options
          /\ \A k \in 1 .. Len(argv) :
                /\ argv[k] # "-?"
                /\ argv[k] \in HasValue => k < Len(argv) /\ Fits(argv[k], argv[k + 1])
                /\ argv[k] \in Values => k > 1 /\ argv[k - 1] \in HasValue
                /\ argv[k] # "-bogus"

\* The last place where the option o is given.
LastOf(o) == CHOOSE k \in 1 .. Len(argv) :
                 argv[k] = o /\ \A j \in k + 1 .. Len(argv) : argv[j] # o

IsGiven(o) == \E k \in 1 .. Len(argv) : argv[k] = o

HonoursAll == /\ result = "ok"
              /\ \A o \in Options :
                    cfg[o] = IF ~ IsGiven(o) THEN "unset"
                             ELSE IF o \in HasValue THEN argv[LastOf(o) + 1] ELSE "set"
              /\ full = 0 <=> IsGiven("-p") /\ (IsGiven("-fs") => LastOf("-fs") < LastOf("-p"))

\* A proper command line is accepted and every option of it, repeated or not, ends up in
\* cfg with its own last value, unless -fs swallowed some of it (raspiraw.c:841-1208).
ProperIsHonoured == ~ IsGiven("-fs") /\ Proper /\ result # "running" => HonoursAll

\* What is accepted has no stray word: each value follows an option that has one, or was
\* swallowed by -fs, and each unknown option was taken for the value of a text or of
\* -p (raspiraw.c:848-852, 1204-1206).
NothingStray ==
    result = "ok" =>
        \A k \in 1 .. Len(argv) :
            argv[k] \in Values \cup {"-bogus"} =>
                k > 1 /\ argv[k - 1] \in Texts \cup {"-p", "-fs"}
                               \cup (IF argv[k] \in Numbers THEN HasValue ELSE {})

=============================================================================
