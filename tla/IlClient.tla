------------------------------ MODULE IlClient ------------------------------
(***************************************************************************)
(* ilclient, the OpenMAX IL client library of libs/ilclient: the list of   *)
(* free event records that all components share, the event list and the    *)
(* event flags of each component, which the callback fills on the          *)
(* component's thread and the library's waits empty on the client's, and   *)
(* the operations on ports, states and one tunnel that are built of sends  *)
(* and waits.                                                              *)
(*                                                                         *)
(* A function of the library is a program: a sequence of steps, each one   *)
(* critical section or one call into a component.  The client runs one     *)
(* program at a time.  The components are external: they answer commands   *)
(* in the order in which they got them, by a completion or by an error,    *)
(* and may report other events at any time.                                *)
(***************************************************************************)
EXTENDS Integers, Sequences, FiniteSets, SequencesExt

CONSTANTS
    Source, Sink,  \* the components at the two ends of the tunnel
    NoComp,        \* no component
    NumEvents,     \* NUM_EVENTS, the records in the free list at first
    MaxOps,        \* bound: operations of the client
    MaxFails,      \* bound: commands that a component fails
    MaxAsync,      \* bound: events that answer no command
    SourceFails,   \* whether the source's port may fail while the sink waits for its buffers
    Retry          \* whether the client goes on after an operation failed

ASSUME CompsAssumption == Source # Sink /\ NoComp \notin {Source, Sink}
ASSUME NumEventsAssumption == NumEvents \in Nat \ {0, 1}

Comps == {Source, Sink}
Peer(c) == IF c = Source THEN Sink ELSE Source

VARIABLES
    list,      \* comp->list: the component's events, the newest first
    spare,     \* how many records client->event_list has
    flags,     \* comp->event
    mask,      \* whether comp->error_mask has ILCLIENT_ERROR_UNPOPULATED
    related,   \* comp->related
    todo,      \* the client: the steps it has still to run
    at,        \* and where it is in the first of them, if that is a wait
    ret,       \* and what the last wait or operation returned
    last,      \* the operation that the client runs or ran last
    asserted,  \* the assertions that failed
    state,     \* the component's OMX state
    enabled,   \* whether the component's port is enabled
    tunnel,    \* whether OMX_SetupTunnel connected the ports
    pending,   \* the commands that the component has not answered
    freed,     \* the components whose peer freed the tunnel's buffers first
    bound      \* what is left of MaxOps, MaxFails and MaxAsync

lib == <<list, spare, flags, mask, related>>
client == <<todo, at, ret, last, asserted>>
comps == <<state, enabled, tunnel, pending, freed>>
vars == <<lib, client, comps, bound>>

Op(name, c, s) == [name |-> name, c |-> c, s |-> s]
Event(e, d1, d2) == [e |-> e, d1 |-> d1, d2 |-> d2]
Complete(cmd, arg) == Event("CmdComplete", cmd, arg)
\* An error that terminates a command has nData2 = 1.
IsFailure(ev) == ev.e = "Error" /\ ev.d2 = "1"
Failing(c) == IF c = NoComp THEN FALSE ELSE \E ev \in ToSet(list[c]) : IsFailure(ev)

\* The flag of ILEVENT_MASK_T that announces the completion of a command.
FlagOf == [StateSet |-> "STATE_CHANGED", PortDisable |-> "PORT_DISABLED",
           PortEnable |-> "PORT_ENABLED", Flush |-> "PORT_FLUSH"]

Settings == Event("PortSettingsChanged", "port", "")

\* Before the tunnel is set up, when the source may have reported twice already what its
\* port will send, or with the tunnel running.
Init == /\ \/ /\ tunnel = FALSE
              /\ state \in {[c \in Comps |-> "Loaded"], [c \in Comps |-> "Idle"]}
              /\ \E on \in BOOLEAN : enabled = [c \in Comps |-> on]
              /\ \/ list = [c \in Comps |-> <<>>]
                 \/ /\ state[Source] = "Idle"
                    /\ list = [c \in Comps |-> IF c = Sink THEN <<>> ELSE <<Settings, Settings>>]
           \/ /\ tunnel = TRUE
              /\ state = [c \in Comps |-> "Idle"]
              /\ enabled = [c \in Comps |-> TRUE]
              /\ list = [c \in Comps |-> <<>>]
        /\ spare = NumEvents - Len(list[Source])
        /\ flags = [c \in Comps |-> {}]
        /\ mask = [c \in Comps |-> FALSE]
        /\ related = [c \in Comps |-> NoComp]
        /\ todo = <<>> /\ at = "start" /\ ret = 0 /\ last = Op("none", NoComp, "")
        /\ asserted = {}
        /\ pending = [c \in Comps |-> <<>>]
        /\ freed = {}
        /\ bound = [ops |-> MaxOps, fails |-> MaxFails, async |-> MaxAsync]

-----------------------------------------------------------------------------
(* ilclient_event_handler *)

\* Mutant: an event that is there twice stays so.
DedupeNothing(s) == s

\* Where the list has an event for the first time.
Firsts(s) == {i \in 1 .. Len(s) : \A j \in 1 .. i - 1 : s[j] # s[i]}

\* Each event of the list once, at its first place.
Dedupe(s) ==
    LET nth(k) == CHOOSE i \in Firsts(s) : Cardinality(Firsts(s) \cap 1 .. i) = k
    IN  [k \in 1 .. Cardinality(Firsts(s)) |-> s[nth(k)]]

\* error_mask hides the event; DiskFull and MaxFileSize would set no flag.
Masked(c, ev) == ev.e = "Error" /\ ev.d1 = "PortUnpopulated" /\ mask[c]

FlagFor(ev) == CASE ev.e = "CmdComplete" -> FlagOf[ev.d1]
                 [] ev.e = "Error" -> "EVENT_ERROR"
                 [] ev.e = "PortSettingsChanged" -> "PARAMETER_CHANGED"
                 [] ev.e = "ParamOrConfigChanged" -> "CONFIG_CHANGED"

\* Mutant: only the component's own flag is set.
RaisedAlone(c, d, ev) == IF d = c /\ ~ Masked(c, ev) THEN {FlagFor(ev)} ELSE {}

\* The flags that event ev of c sets at d: c's own, and the error flag of a component that
\* waits for c as well.
Raised(c, d, ev) == (IF d = c /\ ~ Masked(c, ev) THEN {FlagFor(ev)} ELSE {})
                    \cup (IF d = related[c] /\ IsFailure(ev) THEN {"EVENT_ERROR"} ELSE {})

\* The callback of component c, all of it under the lock of the events.
Callback(c, ev) ==
    LET kept == Dedupe(list[c])
        free == spare + Len(list[c]) - Len(kept)
        new == IF Masked(c, ev) \/ free = 0 THEN <<>> ELSE <<ev>>
    IN  /\ list' = [list EXCEPT ![c] = new \o kept]
        /\ spare' = free - Len(new)
        /\ flags' = [d \in Comps |-> flags[d] \cup Raised(c, d, ev)]
        /\ asserted' = IF free = 0 THEN asserted \cup {"event_list"} ELSE asserted
        /\ UNCHANGED <<mask, related>>

-----------------------------------------------------------------------------
(* The steps of programs *)

Send(c, cmd, arg) == [do |-> "send", c |-> c, cmd |-> cmd, arg |-> arg]
WaitDual(c, cmd, arg, other) ==
    [do |-> "wait", c |-> c, cmd |-> cmd, arg |-> arg, other |-> other]
Wait(c, cmd, arg) == WaitDual(c, cmd, arg, NoComp)
WaitEvent(c, e, d1, awaited, timed) ==
    [do |-> "waitevent", c |-> c, e |-> e, d1 |-> d1, awaited |-> awaited, timed |-> timed]
ReturnEvents(c) == [do |-> "returnevents", c |-> c]
RemoveError(c) == [do |-> "remove", c |-> c]
ClearError(c) == [do |-> "clear", c |-> c]
Mask(c, on) == [do |-> "mask", c |-> c, on |-> on]
Connect == [do |-> "connect"]
Disconnect(c) == [do |-> "disconnect", c |-> c]
Result(value) == [do |-> "result", value |-> value]
VcAssert(what) == [do |-> "assert", what |-> what]
If(values, then, else) == [do |-> "if", values |-> values, then |-> then, else |-> else]
IfLoaded(c, then, else) == [do |-> "ifloaded", c |-> c, then |-> then, else |-> else]
Choose(programs) == [do |-> "choose", programs |-> programs]

Check(what) == If({0}, <<>>, <<VcAssert(what)>>)

-----------------------------------------------------------------------------
(* The functions of the library *)

ChangeState(c, s) == <<Send(c, "StateSet", s), Wait(c, "StateSet", s),
                       If({0}, <<>>, <<RemoveError(c), Result(-1)>>)>>

DisablePort(c) == <<Send(c, "PortDisable", "port"), Wait(c, "PortDisable", "port"),
                    Check("disable")>>
EnablePort(c) == <<Send(c, "PortEnable", "port"), Wait(c, "PortEnable", "port"), Check("enable")>>

\* Mutant: the sink is told, but not awaited.
DisableTunnelHalf ==
    <<Mask(Source, TRUE), Mask(Sink, TRUE),
      Send(Source, "PortDisable", "port"), Send(Sink, "PortDisable", "port"),
      Wait(Source, "PortDisable", "port"), Check("disable"),
      Mask(Source, FALSE), Mask(Sink, FALSE)>>

\* PortUnpopulated is not an error meanwhile: the first port to be disabled may free the
\* buffers of the other one.
DisableTunnel ==
    <<Mask(Source, TRUE), Mask(Sink, TRUE),
      Send(Source, "PortDisable", "port"), Send(Sink, "PortDisable", "port"),
      Wait(Source, "PortDisable", "port"), Check("disable"),
      Wait(Sink, "PortDisable", "port"), Check("disable"),
      Mask(Source, FALSE), Mask(Sink, FALSE)>>

\* The tunnel's ports are enabled; a sink in Loaded goes to Idle on the way.
EnableTunnel ==
    LET fail == DisablePort(Source) \o <<Result(-1)>>
        finish == <<Wait(Source, "PortEnable", "port"),
                    If({0}, <<Result(0)>>, DisablePort(Sink) \o <<Result(-1)>>)>>
        forget == <<Wait(Source, "PortEnable", "port")>> \o DisablePort(Sink)
        toIdle == <<Send(Sink, "StateSet", "Idle"), WaitDual(Sink, "StateSet", "Idle", Source),
                    If({0}, finish,
                       <<If({-2}, forget, <<>>)>> \o fail)>>
        cleanUp == <<WaitEvent(Source, "CmdComplete", "PortEnable",
                               {"PORT_ENABLED", "EVENT_ERROR"}, FALSE), Result(-1)>>
    IN  <<Send(Source, "PortEnable", "port"), Send(Sink, "PortEnable", "port"),
          IfLoaded(Sink,
                   <<Wait(Sink, "PortEnable", "port"), If({0}, toIdle, fail)>>,
                   <<Wait(Sink, "PortEnable", "port"),
                     If({0}, finish, DisablePort(Source) \o cleanUp)>>)>>

FlushTunnels ==
    <<Send(Source, "Flush", "port"), Send(Sink, "Flush", "port"),
      WaitEvent(Source, "CmdComplete", "Flush", {"PORT_FLUSH"}, FALSE),
      WaitEvent(Sink, "CmdComplete", "Flush", {"PORT_FLUSH"}, FALSE)>>

TeardownTunnels == <<Disconnect(Source), Disconnect(Sink)>>

\* The number of streams of the source port may not do: nothing is connected then.
SetupTunnel(timed) ==
    LET failed == <<Disconnect(Source), Disconnect(Sink)>>
        forget == <<RemoveError(Sink), RemoveError(Source)>>
        connect == <<Connect, If({0}, EnableTunnel \o
                                      <<If({0}, <<Result(0)>>,
                                           failed \o forget \o <<Result(-5)>>)>>,
                                 failed \o <<Result(-5)>>)>>
        streams == Choose({connect, <<Result(-3)>>, <<Result(-4)>>})
        settings == IF timed
                    THEN <<WaitEvent(Source, "PortSettingsChanged", "port",
                                     {"PARAMETER_CHANGED", "EVENT_ERROR"}, TRUE),
                           If({0}, DisableTunnel \o <<streams>>, <<>>)>>
                    ELSE DisableTunnel \o <<streams>>
    IN  <<IfLoaded(Source, ChangeState(Source, "Idle") \o <<If({0}, settings, <<Result(-2)>>)>>,
                   settings)>>

\* ilclient_state_transition of the two components: told in one order, in which the flag of
\* old errors is cleared, awaited in the order of the list.
StateTransition(s) ==
    LET masks(on) == IF s = "Loaded" THEN <<Mask(Source, on), Mask(Sink, on)>> ELSE <<>>
        tell(c) == <<ClearError(c), Send(c, "StateSet", s)>>
    IN  masks(TRUE)
        \o <<Choose({tell(Source) \o tell(Sink), tell(Sink) \o tell(Source)})>>
        \o <<Wait(Source, "StateSet", s), Check("state"),
             Wait(Sink, "StateSet", s), Check("state")>>
        \o masks(FALSE)

-----------------------------------------------------------------------------
(* The client's thread *)

\* The first step is done: the program goes on with next, and then with its other steps.
Proceed(next) == todo' = next \o Tail(todo) /\ at' = "start" /\ UNCHANGED last
Stay(where) == at' = where /\ UNCHANGED <<todo, last>>
Finish(r) == ret' = r /\ Proceed(<<>>)

Step == Head(todo)
Running(do, where) == todo # <<>> /\ Step.do = do /\ at = where

\* The first event of a list that passes the test, 0 if there is none.
Find(s, Test(_)) == SelectInSeq(s, Test)

\* Mutant: the record is not added back into the spare list.
TakeLeaky(c, i) == list' = [list EXCEPT ![c] = RemoveAt(@, i)] /\ spare' = spare

\* Event i of c's list goes back into the free list.
Take(c, i) == list' = [list EXCEPT ![c] = RemoveAt(@, i)] /\ spare' = spare + 1

Consume(c, set) == flags' = [flags EXCEPT ![c] = @ \ set]

\* ilclient_wait_for_command_complete_dual: other->related is set, without the lock, while
\* there is another component to be watched.
WaitBegins == /\ Running("wait", "start") /\ Step.other # NoComp
              /\ related' = [related EXCEPT ![Step.other] = Step.c]
              /\ Stay("scan")
              /\ UNCHANGED <<list, spare, flags, mask, ret, asserted, comps, bound>>

\* Mutant: only the completion is looked for, not the error.
AwaitedNoError(ev) == ev = Complete(Step.cmd, Step.arg)

\* The completion of the step's command, or an error that terminates a command.
Awaited(ev) == ev = Complete(Step.cmd, Step.arg) \/ IsFailure(ev)

WaitReturns == IF Step.other = NoComp THEN Proceed(<<>>) ELSE Stay("end")

\* One pass over the lists, under the lock.
WaitScans ==
    /\ \/ Running("wait", "scan")
       \/ Running("wait", "start") /\ Step.other = NoComp
    /\ LET c == Step.c
           i == Find(list[c], Awaited)
           ev == list[c][i]
       IN  \/ /\ i # 0
              /\ Take(c, i)
              /\ IF ev.e = "Error" THEN Consume(c, {"EVENT_ERROR"}) ELSE UNCHANGED flags
              /\ ret' = IF ev.e = "CmdComplete" \/ ev.d1 = "SameState" THEN 0 ELSE -1
              /\ WaitReturns
           \/ /\ i = 0 /\ Failing(Step.other)
              /\ ret' = -2
              /\ WaitReturns
              /\ UNCHANGED <<list, spare, flags>>
           \/ /\ i = 0 /\ ~ Failing(Step.other)
              /\ Stay("blocked")
              /\ UNCHANGED <<list, spare, flags, ret>>
    /\ UNCHANGED <<mask, related, asserted, comps, bound>>

WaitMask == {"EVENT_ERROR", FlagOf[Step.cmd]}

WaitWakes == /\ Running("wait", "blocked")
             /\ flags[Step.c] \cap WaitMask # {}
             /\ Consume(Step.c, WaitMask)
             /\ Stay(IF Step.other = NoComp THEN "start" ELSE "scan")
             /\ UNCHANGED <<list, spare, mask, related, ret, asserted, comps, bound>>

WaitEnds == /\ Running("wait", "end")
            /\ related' = [related EXCEPT ![Step.other] = NoComp]
            /\ Proceed(<<>>)
            /\ UNCHANGED <<list, spare, flags, mask, ret, asserted, comps, bound>>

Wanted(ev) == ev.e = Step.e /\ ev.d1 = Step.d1

\* ilclient_wait_for_event: the event is removed if it is there.
EventLooked ==
    /\ Running("waitevent", "start")
    /\ LET i == Find(list[Step.c], Wanted)
       IN  IF i # 0 THEN Take(Step.c, i) /\ Finish(0)
           ELSE /\ Stay(IF "EVENT_ERROR" \in Step.awaited THEN "errors" ELSE "blocked")
                /\ UNCHANGED <<list, spare, ret>>
    /\ UNCHANGED <<flags, mask, related, asserted, comps, bound>>

\* An error that is there already ends the wait: its flag may have been cleared before.
EventErrors ==
    /\ Running("waitevent", "errors")
    /\ IF \E ev \in ToSet(list[Step.c]) : ev.e = "Error"
       THEN Consume(Step.c, {"EVENT_ERROR"}) /\ Finish(-2)
       ELSE /\ Stay(IF "CONFIG_CHANGED" \in Step.awaited THEN "configs" ELSE "blocked")
            /\ UNCHANGED <<flags, ret>>
    /\ UNCHANGED <<list, spare, mask, related, asserted, comps, bound>>

EventConfigs ==
    /\ Running("waitevent", "configs")
    /\ Stay(IF \E ev \in ToSet(list[Step.c]) : ev.e = "ParamOrConfigChanged" THEN "last"
            ELSE "blocked")
    /\ UNCHANGED <<lib, ret, asserted, comps, bound>>

\* A configuration changed: the event is looked for once more.
EventLast ==
    /\ Running("waitevent", "last")
    /\ LET i == Find(list[Step.c], Wanted)
       IN  IF i # 0 THEN Take(Step.c, i) /\ Finish(0)
           ELSE Finish(-3) /\ UNCHANGED <<list, spare>>
    /\ UNCHANGED <<flags, mask, related, asserted, comps, bound>>

EventWakes ==
    /\ Running("waitevent", "blocked")
    /\ flags[Step.c] \cap Step.awaited # {}
    /\ Consume(Step.c, Step.awaited)
    /\ \/ "EVENT_ERROR" \in flags[Step.c] \cap Step.awaited /\ Finish(-2)
       \/ /\ "EVENT_ERROR" \notin flags[Step.c] \cap Step.awaited
          /\ Stay(IF "CONFIG_CHANGED" \in flags[Step.c] \cap Step.awaited THEN "last" ELSE "start")
          /\ UNCHANGED ret
    /\ UNCHANGED <<list, spare, mask, related, asserted, comps, bound>>

EventTimesOut ==
    /\ Running("waitevent", "blocked") /\ Step.timed
    /\ flags[Step.c] \cap Step.awaited = {}
    /\ Finish(-1)
    /\ UNCHANGED <<lib, asserted, comps, bound>>

\* ilclient_remove_event of any error, which also clears the flag.
RemoveErrors ==
    /\ Running("remove", "start")
    /\ LET i == Find(list[Step.c], LAMBDA ev : ev.e = "Error")
       IN  IF i # 0 THEN Take(Step.c, i) /\ Consume(Step.c, {"EVENT_ERROR"})
           ELSE UNCHANGED <<list, spare, flags>>
    /\ Proceed(<<>>)
    /\ UNCHANGED <<mask, related, ret, asserted, comps, bound>>

\* ilclient_return_events
ReturnAll == /\ Running("returnevents", "start")
             /\ list' = [list EXCEPT ![Step.c] = <<>>]
             /\ spare' = spare + Len(list[Step.c])
             /\ Proceed(<<>>)
             /\ UNCHANGED <<flags, mask, related, ret, asserted, comps, bound>>

SendCommand == /\ Running("send", "start")
               /\ pending' = [pending EXCEPT ![Step.c] = Append(@, <<Step.cmd, Step.arg>>)]
               /\ Proceed(<<>>)
               /\ UNCHANGED <<lib, ret, asserted, state, enabled, tunnel, freed, bound>>

ClearErrorFlag == /\ Running("clear", "start")
                  /\ Consume(Step.c, {"EVENT_ERROR"})
                  /\ Proceed(<<>>)
                  /\ UNCHANGED <<list, spare, mask, related, ret, asserted, comps, bound>>

SetMask == /\ Running("mask", "start")
           /\ mask' = [mask EXCEPT ![Step.c] = Step.on]
           /\ Proceed(<<>>)
           /\ UNCHANGED <<list, spare, flags, related, ret, asserted, comps, bound>>

\* OMX_SetupTunnel, which fails when the formats do not fit.
ConnectPorts == /\ Running("connect", "start")
                /\ \/ tunnel' = TRUE /\ Finish(0)
                   \/ tunnel' = FALSE /\ Finish(-1)
                /\ UNCHANGED <<lib, asserted, state, enabled, pending, freed, bound>>

DisconnectPort == /\ Running("disconnect", "start")
                  /\ tunnel' = FALSE
                  /\ Proceed(<<>>)
                  /\ UNCHANGED <<lib, ret, asserted, state, enabled, pending, freed, bound>>

\* What needs no lock and no component: the branches and results of the functions.
Control ==
    /\ todo # <<>> /\ UNCHANGED <<lib, comps, bound>>
    /\ \/ /\ Step.do = "result" /\ Finish(Step.value)
          /\ UNCHANGED asserted
       \/ /\ Step.do = "if" /\ Proceed(IF ret \in Step.values THEN Step.then ELSE Step.else)
          /\ UNCHANGED <<ret, asserted>>
       \/ /\ Step.do = "ifloaded"
          /\ Proceed(IF state[Step.c] = "Loaded" THEN Step.then ELSE Step.else)
          /\ UNCHANGED <<ret, asserted>>
       \/ /\ Step.do = "choose" /\ \E p \in Step.programs : Proceed(p)
          /\ UNCHANGED <<ret, asserted>>
       \/ /\ Step.do = "assert" /\ Proceed(<<>>)
          /\ asserted' = asserted \cup {Step.what}
          /\ UNCHANGED ret

-----------------------------------------------------------------------------
(* The operations that a client calls, as their documentation allows it *)

Start(op, program) ==
    /\ todo = <<>> /\ asserted = {}
    /\ bound.ops > 0 /\ bound' = [bound EXCEPT !.ops = @ - 1]
    /\ (Retry \/ ret = 0)
    /\ todo' = program /\ at' = "start" /\ ret' = 0 /\ last' = op
    /\ UNCHANGED <<lib, asserted, comps>>

Next2 == [Loaded |-> {"Loaded", "Idle"}, Idle |-> {"Loaded", "Idle", "Executing"},
          Executing |-> {"Idle", "Executing"}]
States == DOMAIN Next2
AllEnabled == \A c \in Comps : enabled[c]
NoneEnabled == \A c \in Comps : ~ enabled[c]

Operation ==
    \/ ~ tunnel /\ \E timed \in BOOLEAN :
                       Start(Op("setup_tunnel", NoComp, ""), SetupTunnel(timed))
    \/ tunnel /\ NoneEnabled /\ Start(Op("enable_tunnel", NoComp, ""), EnableTunnel)
    \/ tunnel /\ Start(Op("disable_tunnel", NoComp, ""), DisableTunnel)
    \/ tunnel /\ NoneEnabled /\ Start(Op("teardown_tunnels", NoComp, ""), TeardownTunnels)
    \/ tunnel /\ AllEnabled /\ Start(Op("flush_tunnels", NoComp, ""), FlushTunnels)
    \/ \E s \in States : /\ \A c \in Comps : s \in Next2[state[c]]
                         /\ Start(Op("state_transition", NoComp, s), StateTransition(s))
    \/ \E c \in Comps :
          \/ ~ tunnel /\ \E s \in Next2[state[c]] :
                            Start(Op("change_component_state", c, s), ChangeState(c, s))
          \/ ~ tunnel /\ Start(Op("disable_port", c, ""), DisablePort(c))
          \/ state[c] = "Loaded" /\ Start(Op("enable_port", c, ""), EnablePort(c))
          \/ Start(Op("return_events", c, ""), <<ReturnEvents(c)>>)
    \/ Start(Op("wait_for_event", NoComp, ""),
             <<WaitEvent(Source, "PortSettingsChanged", "port",
                         {"PARAMETER_CHANGED", "CONFIG_CHANGED", "EVENT_ERROR"}, TRUE)>>)

-----------------------------------------------------------------------------
(* The components *)

Asked(c, cmd) == pending[c] # <<>> /\ Head(pending[c])[1] = cmd
Ready(c) == enabled[c] \/ Asked(c, "PortEnable")
\* The port is to be disabled after what it waits for: it waits no longer.
Released(c) == \E i \in 2 .. Len(pending[c]) : pending[c][i][1] = "PortDisable"

\* Whether the component has what the command needs.  The source supplies the buffers of
\* the tunnel, and cannot before the sink is out of Loaded.
CanDo(c, cmd, arg) ==
    CASE cmd = "PortEnable" -> \/ state[c] = "Loaded" \/ Released(c)
                               \/ Ready(Peer(c)) /\ state[Sink] # "Loaded"
      [] cmd = "StateSet" -> \/ arg # "Idle" \/ c # Sink \/ ~ tunnel \/ ~ enabled[c]
                             \/ Ready(Source) \/ Released(c)
      [] OTHER -> TRUE

AlreadyDone(c, cmd, arg) ==
    CASE cmd = "PortEnable" -> enabled[c]
      [] cmd = "PortDisable" -> ~ enabled[c]
      [] cmd = "StateSet" -> state[c] = arg
      [] OTHER -> FALSE

Answered(c) == pending' = [pending EXCEPT ![c] = Tail(@)]

\* A port that leaves the tunnel frees the buffers, and the other end may notice.
Frees(c) == /\ tunnel /\ AllEnabled /\ \A d \in Comps : state[d] # "Loaded"
            /\ Head(pending[c]) \in {<<"PortDisable", "port">>, <<"StateSet", "Loaded">>}

\* The command is done, or there was nothing to do.
Answer(c) ==
    /\ pending[c] # <<>>
    /\ LET cmd == Head(pending[c])[1]
           arg == Head(pending[c])[2]
       IN  IF AlreadyDone(c, cmd, arg)
           THEN Callback(c, Event("Error", "SameState", "1")) /\ UNCHANGED <<state, enabled>>
           ELSE /\ CanDo(c, cmd, arg)
                /\ Callback(c, Complete(cmd, arg))
                /\ state' = IF cmd = "StateSet" THEN [state EXCEPT ![c] = arg] ELSE state
                /\ enabled' = [enabled EXCEPT ![c] = CASE cmd = "PortEnable" -> TRUE
                                                       [] cmd = "PortDisable" -> FALSE
                                                       [] OTHER -> @]
    /\ freed' = IF Frees(c) THEN {Peer(c)} ELSE freed \ {c}
    /\ Answered(c)
    /\ UNCHANGED <<tunnel, todo, at, ret, last, bound>>

\* The command fails.
Fail(c) ==
    /\ \/ Asked(c, "StateSet")
       \/ Asked(c, "PortEnable") /\ (SourceFails \/ c = Sink \/ state[Sink] = "Loaded")
    /\ bound.fails > 0 /\ bound' = [bound EXCEPT !.fails = @ - 1]
    /\ Callback(c, Event("Error", "InsufficientResources", "1"))
    /\ Answered(c)
    /\ UNCHANGED <<state, enabled, tunnel, freed, todo, at, ret, last>>

\* The other end freed the buffers before this one got as far.
Unpopulated(c) ==
    /\ c \in freed /\ freed' = freed \ {c}
    /\ \E d2 \in {"0", "1"} : Callback(c, Event("Error", "PortUnpopulated", d2))
    /\ UNCHANGED <<state, enabled, tunnel, pending, todo, at, ret, last, bound>>

\* What a component may report without having been asked.
Report(c) ==
    /\ bound.async > 0 /\ bound' = [bound EXCEPT !.async = @ - 1]
    /\ \E ev \in {Settings, Event("ParamOrConfigChanged", "port", ""),
                  Event("Error", "StreamCorrupt", "0")} :
          Callback(c, ev)
    /\ UNCHANGED <<comps, todo, at, ret, last>>

-----------------------------------------------------------------------------
ClientStep == \/ WaitBegins \/ WaitScans \/ WaitWakes \/ WaitEnds
              \/ EventLooked \/ EventErrors \/ EventConfigs \/ EventLast \/ EventWakes
              \/ EventTimesOut
              \/ RemoveErrors \/ ReturnAll \/ SendCommand \/ ClearErrorFlag \/ SetMask
              \/ ConnectPorts \/ DisconnectPort \/ Control

Next == \/ ClientStep \/ Operation
        \/ \E c \in Comps : Answer(c) \/ Fail(c) \/ Unpopulated(c) \/ Report(c)

Spec == Init /\ [][Next]_vars
FairSpec == Spec /\ WF_vars(ClientStep) /\ \A c \in Comps : WF_vars(Answer(c))

-----------------------------------------------------------------------------
(* Correctness *)

\* No record of an event is lost or listed twice, whichever way it leaves a component's
\* list (ilclient.c:376-383, 688-693, 1220-1234, 1439-1444, 1582-1596).
EventsConserved == spare + Len(list[Source]) + Len(list[Sink]) = NumEvents

\* The assertions hold that depend on the library alone: a callback finds a free record,
\* since duplicates are dropped ("it's better than asserting when we run out",
\* ilclient.c:1425), and a port that is to be disabled is never taken for one that failed
\* because the other end's buffers went first (ilclient.c:547-563, 769).
AssertsHold == asserted \cap {"event_list", "disable"} = {}

\* A thread that waits has nothing to wait for: if what it waits for is in the list, a flag
\* that wakes it is up, although flags and lists are read at different moments and each
\* wait takes the flags of the others (ilclient.c:1111-1162, 1179-1257, 1412-1598).
NoLostWakeup ==
    /\ Running("wait", "blocked") =>
          \/ Find(list[Step.c], Awaited) = 0 /\ ~ Failing(Step.other)
          \/ flags[Step.c] \cap WaitMask # {}
    /\ Running("waitevent", "blocked") =>
          Find(list[Step.c], Wanted) = 0 \/ flags[Step.c] \cap Step.awaited # {}

Idle == todo = <<>> /\ asserted = {}

\* An operation that returns success has had its effect on both components: the completion
\* it took was that of its own command (ilclient.h:472-476, 651-653, 669-686).
SuccessIsTrue ==
    Idle /\ ret = 0 =>
        /\ last.name \in {"setup_tunnel", "enable_tunnel"} => tunnel /\ AllEnabled
        /\ last.name = "disable_tunnel" => NoneEnabled
        /\ last.name = "state_transition" => \A c \in Comps : state[c] = last.s
        /\ last.name = "change_component_state" => state[last.c] = last.s

\* Every operation ends, if the components answer: also the wait for one component while
\* it is the other one that fails (ilclient.h:890-899).  With SourceFails = FALSE, that is,
\* while the source's port does not fail to be enabled: the wait for it does not see its
\* errors (ilclient.c:617), and would not end.
OperationsEnd == todo # <<>> ~> todo = <<>>
=============================================================================
