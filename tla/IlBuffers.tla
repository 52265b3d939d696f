----------------------------- MODULE IlBuffers ------------------------------
(***************************************************************************)
(* The buffers that a client of ilclient supplies to the ports of one      *)
(* component: ilclient_enable_port_buffers allocates them,                 *)
(* ilclient_get_output_buffer and ilclient_get_input_buffer take what the  *)
(* component gave back, ilclient_disable_port_buffers frees them.  The     *)
(* component's two lists of returned buffers are linked through            *)
(* pAppPrivate, and every walk over them is one critical section of        *)
(* comp->sema; the event flags are read outside of it.                     *)
(*                                                                         *)
(* The component is external.  Of the event list, whose links and records  *)
(* IlClient has in detail, only the answers to this module's commands are  *)
(* kept; the waits for them scan it and sleep on the flags as the code's   *)
(* do.                                                                     *)
(***************************************************************************)
EXTENDS Integers, Sequences, FiniteSets, SequencesExt

CONSTANTS
    Ports,     \* the ports with buffers
    Dir,       \* their directions: a function to {"in", "out"}
    Count,     \* nBufferCountActual, for each port
    Threads,   \* the client's threads
    Uses,      \* the ports that each of them uses
    Careful,   \* what clients take care of when a port is disabled, a subset of Cares
    Nil,       \* the null pointer
    MaxAllocs  \* bound: how many times ports are enabled

Buffers == UNION {{p} \X (1 .. Count[p]) : p \in Ports}
Port(b) == b[1]
BuffersOf(p) == {b \in Buffers : Port(b) = p}
Dirs == {"in", "out"}

\* That they hold all of the port's buffers or none that it has given back is listed, and that
\* no buffer of another port of its direction is listed or may come to be.
Cares == {"whole", "alone"}
ASSUME IlBuffersAssumption == Careful \subseteq Cares
ASSUME PortsAssumption == /\ IsFiniteSet(Ports)
                          /\ Dir \in [Ports -> Dirs]
                          /\ Count \in [Ports -> Nat]
                          /\ Nil \notin Buffers
ASSUME ThreadsAssumption == Uses \in [Threads -> (SUBSET Ports) \ {{}}]
ASSUME MaxAllocsAssumption == MaxAllocs \in Nat

\* The event of a command that failed: it does not say of which port.
Error == <<"Error", Nil>>

DoneFlag == [in |-> "EMPTY_BUFFER_DONE", out |-> "FILL_BUFFER_DONE"]

VARIABLES
    head,    \* comp->in_list and comp->out_list
    next,    \* pAppPrivate of each buffer
    live,    \* the buffers that are allocated
    held,    \* those that the client has
    sent,    \* those that the component has
    order,   \* for each port the buffers given back, in the order of their return
    flags,   \* comp->event
    events,  \* the answers in the component's event list
    on,      \* portdef.bEnabled
    cmd,     \* the command that the port has not answered
    raising, \* the directions whose flag a callback has yet to set
    pc, arg, \* what each thread does, and for which port
    prev,    \* prev in ilclient_get_output_buffer and ilclient_get_input_buffer
    block,   \* their argument
    batch,   \* list in ilclient_disable_port_buffers
    num,     \* and num
    undo,    \* whether it is called by ilclient_enable_port_buffers, which failed
    allocs   \* what is left of MaxAllocs

lists == <<head, next, order>>
places == <<live, held, sent>>
comp == <<flags, events, on, cmd, raising>>
threads == <<pc, arg, prev, block, batch, num, undo>>
vars == <<lists, places, comp, threads, allocs>>

Init == /\ head = [d \in Dirs |-> Nil]
        /\ next = [b \in Buffers |-> Nil]
        /\ live = {} /\ held = {} /\ sent = {}
        /\ order = [p \in Ports |-> <<>>]
        /\ flags = {} /\ events = {} /\ raising = {}
        /\ on = [p \in Ports |-> FALSE]
        /\ cmd = [p \in Ports |-> "none"]
        /\ pc = [t \in Threads |-> "idle"]
        /\ arg = [t \in Threads |-> CHOOSE p \in Uses[t] : TRUE]
        /\ prev = [t \in Threads |-> Nil]
        /\ block = [t \in Threads |-> FALSE]
        /\ batch = [t \in Threads |-> {}]
        /\ num = [t \in Threads |-> 0]
        /\ undo = [t \in Threads |-> FALSE]
        /\ allocs = MaxAllocs

\* The list that starts at pointer x and goes on as links says: at most as long as there are
\* buffers.
Chain(links, x) ==
    LET at[n \in Nat] == IF n = 0 THEN x ELSE IF at[n - 1] = Nil THEN Nil ELSE links[at[n - 1]]
        length == Cardinality({n \in 0 .. Cardinality(Buffers) : at[n] # Nil})
    IN  [i \in 1 .. length |-> at[i - 1]]

Listed(d) == Chain(next, head[d])

Goto(t, label) == pc' = [pc EXCEPT ![t] = label]

Whole(p) == held \cap BuffersOf(p) = {} \/ order[p] = <<>>
Alone(p) == \A b \in live : Dir[Port(b)] = Dir[p] /\ Port(b) # p => b \in held

-----------------------------------------------------------------------------
(* ilclient_get_output_buffer and ilclient_get_input_buffer *)

GetBegins(t, p) ==
    /\ pc[t] = "idle" /\ p \in Uses[t] /\ on[p] /\ cmd[p] = "none"
    /\ Goto(t, "get") /\ arg' = [arg EXCEPT ![t] = p]
    /\ prev' = [prev EXCEPT ![t] = Nil]
    /\ \E b \in BOOLEAN : block' = [block EXCEPT ![t] = b]
    /\ UNCHANGED <<lists, places, comp, batch, num, undo, allocs>>

\* Mutant: the buffer is taken for the first of the list.
UnlinkHead(d, b, before) == head' = [head EXCEPT ![d] = next[b]] /\ next' = [next EXCEPT ![b] = Nil]

\* b, which follows before in the list of d, leaves it.
Unlink(d, b, before) ==
    IF before = Nil
    THEN head' = [head EXCEPT ![d] = next[b]] /\ next' = [next EXCEPT ![b] = Nil]
    ELSE next' = [next EXCEPT ![before] = next[b], ![b] = Nil] /\ UNCHANGED head

\* The list is searched for the port's first buffer.  prev is what an earlier search of the same
\* call left, as long as this one has not passed a buffer; block and prev end with the call.
GetSearches(t, d) ==
    /\ pc[t] = "get" /\ Dir[arg[t]] = d
    /\ LET list == Listed(d)
           i == SelectInSeq(list, LAMBDA b : Port(b) = arg[t])
           passed == IF i = 0 THEN Len(list) ELSE i - 1
           before == IF passed = 0 THEN prev[t] ELSE list[passed]
           waits == i = 0 /\ block[t]
       IN  /\ prev' = [prev EXCEPT ![t] = IF waits THEN before ELSE Nil]
           /\ block' = [block EXCEPT ![t] = waits]
           /\ IF i = 0
              THEN /\ Goto(t, IF waits THEN "waiting" ELSE "idle")
                   /\ UNCHANGED <<lists, held>>
              ELSE /\ Unlink(d, list[i], before)
                   /\ held' = held \cup {list[i]}
                   /\ order' = [order EXCEPT ![arg[t]] = RemoveFirst(@, list[i])]
                   /\ Goto(t, "idle")
    /\ UNCHANGED <<live, sent, comp, arg, batch, num, undo, allocs>>

GetWakes(t, d) ==
    /\ pc[t] = "waiting" /\ Dir[arg[t]] = d
    /\ DoneFlag[d] \in flags /\ flags' = flags \ {DoneFlag[d]}
    /\ Goto(t, "get")
    /\ UNCHANGED <<lists, places, events, on, cmd, raising, arg, prev, block, batch, num, undo,
                   allocs>>

GetOutputBuffer(t) == GetSearches(t, "out") \/ GetWakes(t, "out")
GetInputBuffer(t) == GetSearches(t, "in") \/ GetWakes(t, "in")

\* OMX_FillThisBuffer or OMX_EmptyThisBuffer
Submit(t, b) ==
    /\ pc[t] = "idle" /\ b \in held /\ Port(b) \in Uses[t]
    /\ on[Port(b)] /\ cmd[Port(b)] = "none"
    /\ held' = held \ {b} /\ sent' = sent \cup {b}
    /\ UNCHANGED <<lists, live, comp, threads, allocs>>

-----------------------------------------------------------------------------
(* ilclient_fill_buffer_done and ilclient_empty_buffer_done *)

\* Mutant: the buffer goes to the front.
LinkFirst(d, b) == head' = [head EXCEPT ![d] = b] /\ next' = [next EXCEPT ![b] = head[d]]

\* b goes to the end of the list, "so we process buffers in the correct order".
LinkLast(d, b) ==
    LET list == Listed(d)
    IN  IF list = <<>>
        THEN head' = [head EXCEPT ![d] = b] /\ next' = [next EXCEPT ![b] = Nil]
        ELSE next' = [next EXCEPT ![Last(list)] = b, ![b] = Nil] /\ UNCHANGED head

BufferDone(b, d) ==
    /\ b \in sent /\ Dir[Port(b)] = d /\ raising = {}
    /\ LinkLast(d, b)
    /\ sent' = sent \ {b}
    /\ order' = [order EXCEPT ![Port(b)] = Append(@, b)]
    /\ raising' = {d}
    /\ UNCHANGED <<live, held, flags, events, on, cmd, threads, allocs>>

FillBufferDone(b) == BufferDone(b, "out")
EmptyBufferDone(b) == BufferDone(b, "in")

\* Mutant: the flag is not set.
RaiseNothing == raising # {} /\ raising' = {} /\ UNCHANGED <<lists, places, flags, events, on,
                                                            cmd, threads, allocs>>

\* The callback's flag, after comp->sema was released.
RaiseDone == /\ raising # {} /\ raising' = {}
             /\ flags' = flags \cup {DoneFlag[d] : d \in raising}
             /\ UNCHANGED <<lists, places, events, on, cmd, threads, allocs>>

-----------------------------------------------------------------------------
(* ilclient_enable_port_buffers *)

\* One thread at a time enables or disables ports.
Exclusive(t) == \A u \in Threads \ {t} : pc[u] \in {"idle", "get", "waiting"}

EnableBegins(t, p) ==
    /\ pc[t] = "idle" /\ p \in Uses[t] /\ Exclusive(t)
    /\ ~ on[p] /\ cmd[p] = "none" /\ BuffersOf(p) \cap live = {}
    /\ allocs > 0 /\ allocs' = allocs - 1
    /\ on' = [on EXCEPT ![p] = TRUE] /\ cmd' = [cmd EXCEPT ![p] = "enable"]
    /\ Goto(t, "allocate") /\ arg' = [arg EXCEPT ![t] = p]
    /\ UNCHANGED <<lists, places, flags, events, raising, prev, block, batch, num, undo>>

\* The new buffers go before the list of d.
Queue(d, new) ==
    /\ head' = [head EXCEPT ![d] = IF new = <<>> THEN @ ELSE new[1]]
    /\ next' = [b \in Buffers |-> LET i == SelectInSeq(new, LAMBDA c : c = b)
                                  IN  IF i = 0 THEN next[b]
                                      ELSE IF i = Len(new) THEN head[d] ELSE new[i + 1]]

\* Buffers are allocated and passed to the port until one allocation fails.
Allocates(t) ==
    /\ pc[t] = "allocate"
    /\ LET p == arg[t]
       IN  \E k \in 0 .. Count[p] :
              /\ k < Count[p] /\ "alone" \in Careful => Alone(p)
              /\ Queue(Dir[p], [i \in 1 .. k |-> <<p, i>>])
              /\ live' = live \cup {<<p, i>> : i \in 1 .. k}
              /\ order' = [order EXCEPT ![p] = [i \in 1 .. k |-> <<p, i>>] \o @]
              /\ undo' = [undo EXCEPT ![t] = k # Count[p]]
              /\ Goto(t, IF k = Count[p] THEN "enabling" ELSE "disable")
    /\ UNCHANGED <<held, sent, comp, arg, prev, block, batch, num, allocs>>

\* What ends a wait of ilclient_wait_for_command_complete for the command on the port p, and the
\* flags it sleeps on and consumes.
Answers(command, p) == {Error, <<command, p>>} \cap events
CommandMask == [enableSleep |-> {"EVENT_ERROR", "PORT_ENABLED"},
                disableSleep |-> {"EVENT_ERROR", "PORT_DISABLED"}]

\* The list is scanned.  An answer leaves it, an error with its flag; if there is none the thread
\* goes to sleep on the flags, with the list unlocked.
Scan(t, command, asleep) ==
    /\ Answers(command, arg[t]) = {}
    /\ Goto(t, asleep) /\ UNCHANGED <<events, flags, undo>>

Answered(e) ==
    /\ events' = events \ {e}
    /\ flags' = IF e = Error THEN flags \ {"EVENT_ERROR"} ELSE flags

EnableEnds(t) ==
    /\ pc[t] = "enabling"
    /\ \/ Scan(t, "PortEnable", "enableSleep")
       \/ \E e \in Answers("PortEnable", arg[t]) :
             /\ Answered(e)
             /\ undo' = [undo EXCEPT ![t] = e = Error]
             /\ Goto(t, IF e = Error THEN "disable" ELSE "idle")
    /\ UNCHANGED <<lists, places, on, cmd, raising, arg, prev, block, batch, num, allocs>>

\* The wait ends with any flag of its mask, and all of them are consumed.
CommandWakes(t) ==
    /\ pc[t] \in DOMAIN CommandMask
    /\ flags \cap CommandMask[pc[t]] # {} /\ flags' = flags \ CommandMask[pc[t]]
    /\ Goto(t, IF pc[t] = "enableSleep" THEN "enabling" ELSE "disabling")
    /\ UNCHANGED <<lists, places, events, on, cmd, raising, arg, prev, block, batch, num, undo,
                   allocs>>

\* Once it is disabled, an error is forgotten.
EnableFails(t) ==
    /\ pc[t] = "undone"
    /\ events' = events \ {Error}
    /\ flags' = IF Error \in events THEN flags \ {"EVENT_ERROR"} ELSE flags
    /\ undo' = [undo EXCEPT ![t] = FALSE]
    /\ Goto(t, "idle")
    /\ UNCHANGED <<lists, places, on, cmd, raising, arg, prev, block, batch, num, allocs>>

-----------------------------------------------------------------------------
(* ilclient_disable_port_buffers *)

\* A client disables a port with the buffers it holds as bufferList.
DisableCalled(t, p) ==
    /\ pc[t] = "idle" /\ p \in Uses[t] /\ Exclusive(t)
    /\ \A u \in Threads \ {t} : pc[u] = "idle" \/ arg[u] # p
    /\ on[p] /\ cmd[p] = "none"
    /\ "whole" \in Careful => Whole(p)
    /\ "alone" \in Careful => Alone(p)
    /\ Goto(t, "disable") /\ arg' = [arg EXCEPT ![t] = p]
    /\ UNCHANGED <<lists, places, comp, prev, block, batch, num, undo, allocs>>

Returns(t) == Goto(t, IF undo[t] THEN "undone" ELSE "idle")

\* A port that is not enabled is left alone, even if it has buffers.  The component may report
\* that it gives up enabling the port.
DisableBegins(t) ==
    /\ pc[t] = "disable"
    /\ LET p == arg[t]
           mine == IF undo[t] THEN {} ELSE held \cap BuffersOf(p)
       IN  IF ~ on[p] THEN Returns(t) /\ UNCHANGED <<held, batch, num, cmd, events, flags>>
           ELSE /\ cmd' = [cmd EXCEPT ![p] = "disable"]
                /\ num' = [num EXCEPT ![t] = Count[p]]
                /\ batch' = [batch EXCEPT ![t] = mine]
                /\ held' = held \ mine
                /\ Goto(t, IF mine = {} THEN "take" ELSE "free")
                /\ \/ UNCHANGED <<events, flags>>
                   \/ /\ cmd[p] = "enable"
                      /\ events' = events \cup {Error}
                      /\ flags' = flags \cup {"EVENT_ERROR"}
    /\ UNCHANGED <<lists, live, sent, on, raising, arg, prev, block, undo, allocs>>

\* The port's buffers leave the list.  At a buffer of another port the walk goes on at the
\* address of its pAppPrivate, as if that were a buffer, from there at another address past
\* it, and so on: nothing is known of the thread from then on.
DisableTakes(t) ==
    /\ pc[t] = "take"
    /\ LET p == arg[t]
           list == Listed(Dir[p])
       IN  IF \A b \in ToSet(list) : Port(b) = p
           THEN /\ head' = [head EXCEPT ![Dir[p]] = Nil]
                /\ batch' = [batch EXCEPT ![t] = ToSet(list)]
                /\ order' = [order EXCEPT ![p] = <<>>]
                /\ Goto(t, "free")
           ELSE Goto(t, "undefined") /\ UNCHANGED <<head, batch, order>>
    /\ UNCHANGED <<next, places, comp, arg, prev, block, num, undo, allocs>>

DisableFrees(t) ==
    /\ pc[t] = "free"
    /\ live' = live \ batch[t]
    /\ num' = [num EXCEPT ![t] = @ - Cardinality(batch[t])]
    /\ batch' = [batch EXCEPT ![t] = {}]
    /\ Goto(t, IF num[t] = Cardinality(batch[t]) THEN "disabling" ELSE "flags")
    /\ UNCHANGED <<lists, held, sent, comp, arg, prev, block, undo, allocs>>

\* Mutant: a returned buffer does not end the wait.
DisableMaskShort(p) == {"PORT_DISABLED", "EVENT_ERROR"}

DisableMask(p) == {"PORT_DISABLED", "EVENT_ERROR", DoneFlag[Dir[p]]}

\* Another buffer came back, or the command ended without all of them.
DisableWakes(t) ==
    /\ pc[t] = "flags"
    /\ LET p == arg[t]
           set == flags \cap DisableMask(p)
           failed == "EVENT_ERROR" \in set /\ Error \in events
           disabled == "PORT_DISABLED" \in set /\ <<"PortDisable", p>> \in events
       IN  /\ set # {} /\ flags' = flags \ DisableMask(p)
           /\ IF failed THEN events' = events \ {Error} /\ Returns(t)
              ELSE IF disabled THEN events' = events \ {<<"PortDisable", p>>} /\ Returns(t)
              ELSE Goto(t, "take") /\ UNCHANGED events
    /\ UNCHANGED <<lists, places, on, cmd, raising, arg, prev, block, batch, num, undo, allocs>>

\* The wait for the command's end; an error there fails vc_assert(0).
DisableEnds(t) ==
    /\ pc[t] = "disabling"
    /\ \/ Scan(t, "PortDisable", "disableSleep")
       \/ \E e \in Answers("PortDisable", arg[t]) :
             /\ Answered(e) /\ UNCHANGED undo
             /\ IF e = Error THEN Goto(t, "asserted") ELSE Returns(t)
    /\ UNCHANGED <<lists, places, on, cmd, raising, arg, prev, block, batch, num, allocs>>

-----------------------------------------------------------------------------
(* The component *)

\* A port is enabled once it has all its buffers.
PortEnabled(p) ==
    /\ cmd[p] = "enable" /\ BuffersOf(p) \subseteq live /\ raising = {}
    /\ cmd' = [cmd EXCEPT ![p] = "none"]
    /\ events' = events \cup {<<"PortEnable", p>>} /\ flags' = flags \cup {"PORT_ENABLED"}
    /\ UNCHANGED <<lists, places, on, raising, threads, allocs>>

\* And disabled once they are freed.
PortDisabled(p) ==
    /\ cmd[p] = "disable" /\ BuffersOf(p) \cap live = {} /\ raising = {}
    /\ cmd' = [cmd EXCEPT ![p] = "none"] /\ on' = [on EXCEPT ![p] = FALSE]
    /\ events' = events \cup {<<"PortDisable", p>>} /\ flags' = flags \cup {"PORT_DISABLED"}
    /\ UNCHANGED <<lists, places, raising, threads, allocs>>

\* Or not enabled at all.
PortRefused(p) ==
    /\ cmd[p] = "enable" /\ raising = {}
    /\ cmd' = [cmd EXCEPT ![p] = "none"] /\ on' = [on EXCEPT ![p] = FALSE]
    /\ events' = events \cup {Error} /\ flags' = flags \cup {"EVENT_ERROR"}
    /\ UNCHANGED <<lists, places, raising, threads, allocs>>

-----------------------------------------------------------------------------
GetStep(t) == GetOutputBuffer(t) \/ GetInputBuffer(t)
PortStep(t) == \/ Allocates(t) \/ EnableEnds(t) \/ CommandWakes(t) \/ EnableFails(t)
               \/ DisableBegins(t) \/ DisableTakes(t) \/ DisableFrees(t) \/ DisableWakes(t)
               \/ DisableEnds(t)
PortAnswers(p) == PortEnabled(p) \/ PortDisabled(p)
PortReturns(p) == \E b \in BuffersOf(p) : FillBufferDone(b) \/ EmptyBufferDone(b)
CompStep == RaiseDone \/ \E p \in Ports : PortReturns(p) \/ PortAnswers(p) \/ PortRefused(p)

Next == \/ \E t \in Threads :
              \/ GetStep(t) \/ PortStep(t)
              \/ \E p \in Ports : GetBegins(t, p) \/ EnableBegins(t, p) \/ DisableCalled(t, p)
              \/ \E b \in Buffers : Submit(t, b)
        \/ CompStep

Spec == Init /\ [][Next]_vars
\* A thread that enables or disables a port runs on, and so does each port of the component,
\* though other ports may keep the thread of its callbacks busy at times.
FairSpec == /\ Spec /\ WF_vars(RaiseDone)
            /\ \A p \in Ports : SF_vars(PortAnswers(p)) /\ SF_vars(PortReturns(p))
            /\ \A t \in Threads : WF_vars(PortStep(t))
-----------------------------------------------------------------------------
(* Correctness *)

\* BuffersConserved.  Each allocated buffer is in one place: in a list, once, with the client,
\* with the component, or with the thread that frees it; a freed one is in none, so that it is
\* neither used after ilclient_disable_port_buffers freed it, nor freed twice.
BuffersConserved ==
    LET Found(b) == (IF b \in held THEN 1 ELSE 0) + (IF b \in sent THEN 1 ELSE 0)
                    + Cardinality({t \in Threads : b \in batch[t]})
                    + Cardinality({d \in Dirs : b \in ToSet(Listed(d))})
    IN  /\ \A d \in Dirs : IsInjective(Listed(d)) /\ Len(Listed(d)) <= Cardinality(Buffers)
        /\ \A b \in Buffers : Found(b) = IF b \in live THEN 1 ELSE 0

\* InOrder.  "so we process buffers in the correct order" (ilclient_fill_buffer_done): the
\* buffers of a port that are listed are those which the component returned and nobody took,
\* in the order of their return.
InOrder ==
    \A p \in Ports :
        LET list == Listed(Dir[p])
        IN  /\ {b \in ToSet(list) : Port(b) = p} = ToSet(order[p])
            /\ \A i, j \in 1 .. Len(order[p]), m, n \in 1 .. Len(list) :
                  i < j /\ list[m] = order[p][i] /\ list[n] = order[p][j] => m < n

\* NoLostWakeup.  A thread that waits in ilclient_get_output_buffer or
\* ilclient_get_input_buffer while a buffer of its port is listed has its flag set, or the
\* callback is about to set it.  And a thread that sleeps for the end of a command
\* (ilclient.c:1252) while the answer is in the event list has a flag of its mask set, though
\* the waits before it consumed flags whose events they did not look for.
WokenByBuffer(t) ==
    pc[t] = "waiting" /\ order[arg[t]] # <<>> =>
        DoneFlag[Dir[arg[t]]] \in flags \/ Dir[arg[t]] \in raising
WokenByAnswer(t) ==
    /\ pc[t] = "enableSleep" /\ Answers("PortEnable", arg[t]) # {} =>
          flags \cap CommandMask.enableSleep # {}
    /\ pc[t] = "disableSleep" /\ Answers("PortDisable", arg[t]) # {} =>
          flags \cap CommandMask.disableSleep # {}
NoLostWakeup == \A t \in Threads : WokenByBuffer(t) /\ WokenByAnswer(t)

\* PortsEnd.  ilclient_disable_port_buffers, also as ilclient_enable_port_buffers calls it for
\* want of memory, returns: "If buffers on this port are held by IL client or the component
\* then these are automatically freed" (ilclient.h:586).  It holds if clients are Careful.
\* After the buffers it was passed the function waits for a flag before it looks at the list,
\* and the flags of the buffers that are listed may have been consumed long ago, or never set;
\* and its walk over the list does not get past a buffer of another port.  Nor does the
\* assertion at its end fail (ilclient.c:991-992).
PortsEnd == \A t \in Threads :
    pc[t] \in {"disable", "take", "free", "flags", "disabling", "disableSleep"} ~> pc[t] = "idle"
=============================================================================
