----------------------------- MODULE Lifecycle -----------------------------
(***************************************************************************)
(* raspiraw's main from its first thread to its return: the long ladder of *)
(* set-up calls, each of which may fail and jumps, or returns, somewhere;  *)
(* streaming; and the labels port_disable, pool_destroy, component_disable *)
(* and component_destroy, after which the worker threads are joined.       *)
(*                                                                         *)
(* The ladder is data, Program: one step per resource main obtains (a      *)
(* thread, a queue, a component, a pool, an open port), in the order of    *)
(* the code, with the place main goes to when the call fails.  Calls that  *)
(* can fail but obtain nothing are "check" steps; several in a row with    *)
(* the same destination are one.  A call whose failure is at most logged,  *)
(* and whose result main does not look at again, is an "attempt".  The     *)
(* worker threads and the callbacks that feed their queues run             *)
(* concurrently with main.                                                 *)
(***************************************************************************)
EXTENDS Naturals, Sequences

CONSTANTS
    Options,      \* the options that may be given: a subset of AllOptions
    MaxQueued     \* bound on the length of a worker's queue

AllOptions == {"capture", "header", "awb", "processing", "processing_yuv", "preview"}

ASSUME OptionsAssumption == Options \subseteq AllOptions
ASSUME MaxQueuedAssumption == MaxQueued \in Nat \ {0}

Components == {"rawcam", "isp", "render"}
Workers == {"awb", "processing", "processing_yuv"}
Joined == <<"awb", "processing">>       \* the threads that main joins, in order
Pools == {"pool", "isp_ip_pool", "yuv_pool", "vr_ip_pool"}
Owner == [rawcam_output |-> "rawcam", isp_input |-> "isp", isp_output |-> "isp",
          render_input |-> "render"]
Ports == DOMAIN Owner

-----------------------------------------------------------------------------
(* The set-up ladder *)

\* When "given" is not "always", only with that option.  bad is where a failure leads:
\* a label of the clean-up, or "return"; after one that is "ignored" main goes on without the
\* resource.
S(op, obj, given, bad) == [op |-> op, obj |-> obj, given |-> given, bad |-> bad]

Thread(w) == << S("thread", w, w, "return"), S("queue", w, w, "return") >>

Create == << S("create", "rawcam", "always", "return"),
             S("check", "rawcam", "always", "component_disable"),     \* zero copy
             S("create", "isp", "always", "component_destroy"),
             S("check", "isp", "always", "component_disable"),        \* zero copy
             S("create", "render", "always", "component_destroy"),
             S("check", "render", "always", "component_disable") >>   \* zero copy

Enable == << S("check", "rawcam", "always", "component_destroy"),     \* receiver, timing
             S("enable", "rawcam", "always", "component_destroy"),
             S("enable", "isp", "always", "component_destroy"),
             S("enable", "render", "always", "component_destroy"),
             S("check", "rawcam", "always", "component_disable"),     \* format
             S("malloc", "brcm_header", "header", "ignored"),
             S("attempt", "header0", "header", "ignored"),            \* its file
             S("attempt", "headerg", "capture", "ignored") >>         \* the pgm header's file

\* Whether the mode has a black level, or the command line gains, makes no difference to main.
Isp == << S("check", "isp", "always", "pool_destroy"),                \* formats
          S("attempt", "black_level", "always", "ignored"),
          S("attempt", "awb_gains", "always", "ignored"),
          S("pool", "pool", "always", "component_disable"),
          S("attempt", "pool_memory", "always", "ignored"),           \* of the pool's buffers
          S("pool", "isp_ip_pool", "always", "component_disable"),
          S("open", "isp_input", "always", "pool_destroy"),
          S("pool", "yuv_pool", "always", "component_disable"),
          S("attempt", "yuv_memory", "always", "ignored"),
          S("open", "isp_output", "always", "pool_destroy") >>

Preview == << S("attempt", "display_region", "preview", "ignored"),
              S("check", "render", "preview", "pool_destroy"),        \* format
              S("pool", "vr_ip_pool", "preview", "component_disable"),
              S("open", "render_input", "preview", "pool_destroy") >>

Program == Thread("awb") \o Thread("processing") \o Create \o Enable \o Isp \o Preview
               \o Thread("processing_yuv")
               \o << S("open", "rawcam_output", "always", "pool_destroy") >>

VARIABLES
    cfg,       \* the options given; "capture" \notin cfg: frames are only previewed
    pc,        \* where main is: a step of Program, or a label
    comp,      \* comp[c]: "none", "created", "enabled", "disabled" or "destroyed"
    live,      \* the pools that exist
    open,      \* the ports that are enabled
    header,    \* brcm_header: "none", "allocated" or "freed"
    queues,    \* the workers whose queue exists
    thread,    \* thread[w]: "none", "loop", "wait", "work" or "gone"
    quit,      \* the workers that have been told to quit
    queued,    \* queued[w]: how many buffers wait for w
    result     \* "running", "ok" (return 0) or "error"

resources == <<comp, live, open, header>>
threads == <<queues, thread, quit, queued>>
vars == <<cfg, pc, resources, threads, result>>

Init == /\ cfg \in SUBSET Options
        /\ pc = <<"setup", 1>>
        /\ comp = [c \in Components |-> "none"]
        /\ live = {}
        /\ open = {}
        /\ header = "none"
        /\ queues = {}
        /\ thread = [w \in Workers |-> "none"]
        /\ quit = {}
        /\ queued = [w \in Workers |-> 0]
        /\ result = "running"

-----------------------------------------------------------------------------
(* main, setting up *)

At(label) == pc[1] = label
Go(label) == pc' = <<label, 1>>

Step == Program[pc[2]]
Wanted == /\ Step.given \in cfg \cup {"always"}
          /\ Step.obj \in {"brcm_header", "header0", "headerg"} => "capture" \in cfg
          /\ Step.obj = "header0" => header = "allocated"
          /\ Step.obj = "headerg" => "header" \notin cfg

Advance == IF pc[2] = Len(Program) THEN Go("stream") ELSE pc' = <<"setup", pc[2] + 1>>

Add(op, set) == IF Step.op = op THEN set \cup {Step.obj} ELSE set
Mark(op, f, value) == IF Step.op = op THEN [f EXCEPT ![Step.obj] = value] ELSE f

\* The call succeeds.
Obtain == /\ At("setup")
          /\ Wanted
          /\ comp' = Mark("enable", Mark("create", comp, "created"), "enabled")
          /\ thread' = Mark("thread", thread, "loop")
          /\ queues' = Add("queue", queues)
          /\ live' = Add("pool", live)
          /\ open' = Add("open", open)
          /\ header' = IF Step.op = "malloc" THEN "allocated" ELSE header
          /\ Advance
          /\ UNCHANGED <<cfg, quit, queued, result>>

\* Mutant: a component that cannot be enabled is only logged.
FailLogged == /\ At("setup")
              /\ Wanted
              /\ IF Step.bad = "ignored" \/ Step.op = "enable" THEN Advance
                 ELSE Go(IF Step.bad = "return" THEN "returned" ELSE Step.bad)
              /\ result' = IF Step.bad = "return" THEN "error" ELSE result
              /\ UNCHANGED <<cfg, resources, threads>>

\* Mutant: every failure goes to the last label.
FailToDestroy == /\ At("setup")
                 /\ Wanted
                 /\ IF Step.bad = "ignored" THEN Advance
                    ELSE Go(IF Step.bad = "return" THEN "returned" ELSE "component_destroy")
                 /\ result' = IF Step.bad = "return" THEN "error" ELSE result
                 /\ UNCHANGED <<cfg, resources, threads>>

\* The call fails: main goes on without, returns at once, or jumps into the clean-up.
Fail == /\ At("setup")
        /\ Wanted
        /\ IF Step.bad = "ignored" THEN Advance
           ELSE Go(IF Step.bad = "return" THEN "returned" ELSE Step.bad)
        /\ result' = IF Step.bad = "return" THEN "error" ELSE result
        /\ UNCHANGED <<cfg, resources, threads>>

Skip == /\ At("setup")
        /\ ~ Wanted
        /\ Advance
        /\ UNCHANGED <<cfg, resources, threads, result>>

\* The ports are primed, the sensor is started, stopped, started and stopped again.
Stream == /\ At("stream")
          /\ Go("port_disable")
          /\ UNCHANGED <<cfg, resources, threads, result>>

-----------------------------------------------------------------------------
(* main, cleaning up *)

\* Mutant: a port that cannot be disabled is only logged.
DisablePortLogged == /\ At("port_disable")
                     /\ open' = open \ {"rawcam_output"} \/ UNCHANGED open
                     /\ Go("pool_destroy")
                     /\ UNCHANGED <<cfg, comp, live, header, threads, result>>

\* Only when capturing; if it fails, main returns.
DisablePort == /\ At("port_disable")
               /\ \/ /\ "capture" \notin cfg
                     /\ Go("pool_destroy")
                     /\ UNCHANGED <<open, result>>
                  \/ /\ "capture" \in cfg
                     /\ open' = open \ {"rawcam_output"}
                     /\ Go("pool_destroy")
                     /\ UNCHANGED result
                  \/ /\ "capture" \in cfg
                     /\ Go("returned")
                     /\ result' = "error"
                     /\ UNCHANGED open
               /\ UNCHANGED <<cfg, comp, live, header, threads>>

\* Of the four pools main destroys one.
DestroyPool == /\ At("pool_destroy")
               /\ live' = live \ {"pool"}
               /\ Go("component_disable")
               /\ UNCHANGED <<cfg, comp, open, header, threads, result>>

\* First the header is freed.  A component that cannot be disabled (NULL is one) is only logged.
DisableComponent ==
    /\ At("component_disable")
    /\ header' = IF header = "allocated" THEN "freed" ELSE header
    /\ LET c == <<"render", "isp", "rawcam">>[pc[2]]
       IN  \/ comp[c] = "enabled" /\ comp' = [comp EXCEPT ![c] = "disabled"]
           \/ UNCHANGED comp
    /\ IF pc[2] = 3 THEN Go("component_destroy") ELSE pc' = [pc EXCEPT ![2] = @ + 1]
    /\ UNCHANGED <<cfg, live, open, threads, result>>

DestroyComponent ==
    /\ At("component_destroy")
    /\ LET c == <<"rawcam", "isp", "render">>[pc[2]]
       IN  /\ comp' = IF comp[c] = "none" THEN comp ELSE [comp EXCEPT ![c] = "destroyed"]
           /\ open' = {p \in open : Owner[p] # c}
    /\ IF pc[2] = 3 THEN Go("quit") ELSE pc' = [pc EXCEPT ![2] = @ + 1]
    /\ UNCHANGED <<cfg, live, header, threads, result>>

\* Mutant: main joins without having told the thread to quit.
TellQuitForgotten == /\ At("quit")
                     /\ pc' = <<"join", pc[2]>>
                     /\ UNCHANGED <<cfg, resources, threads, result>>

\* awb_thread_quit = 1, processing_thread_quit = 1
TellQuit == /\ At("quit")
            /\ quit' = quit \cup ({Joined[pc[2]]} \cap cfg)
            /\ pc' = <<"join", pc[2]>>
            /\ UNCHANGED <<cfg, resources, queues, thread, queued, result>>

\* vcos_thread_join; after the last, main writes the time stamps and returns 0.
Join == /\ At("join")
        /\ Joined[pc[2]] \in cfg => thread[Joined[pc[2]]] = "gone"
        /\ IF pc[2] = Len(Joined) THEN Go("returned") /\ result' = "ok"
           ELSE pc' = <<"quit", pc[2] + 1>> /\ UNCHANGED result
        /\ UNCHANGED <<cfg, resources, threads>>

-----------------------------------------------------------------------------
(* The callbacks, as far as the workers see them *)

Source(w) == IF w = "processing_yuv" THEN "isp_output" ELSE "rawcam_output"

\* Buffers flow once main has primed the ports, until the port or its component is
\* disabled.
Put(w) == /\ ~ At("setup")
          /\ result = "running"
          /\ Source(w) \in open
          /\ comp[Owner[Source(w)]] = "enabled"
          /\ w \in queues
          /\ queued[w] < MaxQueued
          /\ queued' = [queued EXCEPT ![w] = @ + 1]
          /\ UNCHANGED <<cfg, pc, resources, queues, thread, quit, result>>

-----------------------------------------------------------------------------
(* The worker threads.  They die with the process when main returns. *)

ThreadGoes(w, from, to) == /\ result = "running"
                           /\ thread[w] = from
                           /\ thread' = [thread EXCEPT ![w] = to]
                           /\ UNCHANGED <<cfg, pc, resources, queues, quit, result>>

\* while (!quit)
Loop(w) == /\ ThreadGoes(w, "loop", IF w \in quit THEN "gone" ELSE "wait")
           /\ UNCHANGED queued

\* The timed wait returns a buffer, or nothing; the queue may not exist yet.
Get(w) == /\ queued[w] > 0
          /\ ThreadGoes(w, "wait", "work")
          /\ queued' = [queued EXCEPT ![w] = @ - 1]

TimeOut(w) == /\ queued[w] = 0
              /\ ThreadGoes(w, "wait", "loop")
              /\ UNCHANGED queued

\* The buffer has been processed, and is released.
GiveBack(w) == ThreadGoes(w, "work", "loop") /\ UNCHANGED queued

WorkerStep(w) == Loop(w) \/ Get(w) \/ TimeOut(w) \/ GiveBack(w)

-----------------------------------------------------------------------------
MainStep == \/ Obtain \/ Fail \/ Skip \/ Stream
            \/ DisablePort \/ DestroyPool \/ DisableComponent \/ DestroyComponent
            \/ TellQuit \/ Join

Next == \/ MainStep
        \/ \E w \in Workers : Put(w) \/ WorkerStep(w)

\* Threads are scheduled: main's calls and sleeps end, and so do the timed waits.
Spec == Init /\ [][Next]_vars /\ WF_vars(MainStep) /\ \A w \in Workers : WF_vars(WorkerStep(w))
-----------------------------------------------------------------------------
(* Correctness *)

\* Whichever set-up calls failed on the way, main starts the stream with every component
\* enabled and with exactly the pools, open ports, queues and threads that the options ask for
\* (raspiraw.c:1663-2257).  What it may do without, since a failure is ignored or only logged,
\* is brcm_header (1918), the files of -header0 and -headerg (1966, 1979), the black level
\* (2033), the gains (2047), the memory of some buffers of pool and yuv_pool (2077, 2134) and
\* the display region (2186); brcm_header is never there unasked.
StreamsComplete ==
    At("stream") =>
        /\ \A c \in Components : comp[c] = "enabled"
        /\ open = Ports \ (IF "preview" \in cfg THEN {} ELSE {"render_input"})
        /\ live = Pools \ (IF "preview" \in cfg THEN {} ELSE {"vr_ip_pool"})
        /\ queues = Workers \cap cfg
        /\ \A w \in Workers : thread[w] # "none" <=> w \in cfg
        /\ header # "none" => header = "allocated" /\ {"capture", "header"} \subseteq cfg

\* Wherever a failure jumped into the clean-up, when main returns 0 each component it
\* created is destroyed and the header freed; and the rawcam pool is destroyed unless it
\* was another pool that could not be created (raspiraw.c:2287-2314).  Of the other pools and
\* the queues it says nothing: main destroys none of them.
NothingLeft ==
    result = "ok" =>
        /\ \A c \in Components : comp[c] \in {"none", "destroyed"}
        /\ header # "allocated"
        /\ "pool" \in live => \/ ~ {"isp_ip_pool", "yuv_pool"} \subseteq live
                              \/ "preview" \in cfg /\ "vr_ip_pool" \notin live

\* As long as the callback may run because the port that captures is open, its pool is not
\* destroyed, and the header that it writes into each file (617-618) is not freed
\* (raspiraw.c:2277-2292).
PortClosedBeforePool ==
    "rawcam_output" \in open /\ "capture" \in cfg /\ comp["rawcam"] # "destroyed"
        => "pool" \in live /\ header # "freed"

\* main always returns, from whichever label, even if a thread sleeps on an empty or a
\* missing queue when it is joined (raspiraw.c:1374-1379, 2315-2325).
MainReturns == <>(result # "running")
=============================================================================
