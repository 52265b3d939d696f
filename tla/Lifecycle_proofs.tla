--------------------------- MODULE Lifecycle_proofs ---------------------------
(***************************************************************************)
(* Proofs about main: whichever options may be given, however long the     *)
(* queues, and whichever calls fail, streaming starts with the components, *)
(* pools, ports, queues and threads that the options ask for, a return of  *)
(* 0 leaves no component behind, and no open port that captures outlives   *)
(* its pool or the header.                                                 *)
(*                                                                         *)
(* The invariant says of each rung of the ladder that main owns what the   *)
(* rungs below it obtain, and of each label what is already undone there.  *)
(***************************************************************************)
EXTENDS Lifecycle, TLAPS

-----------------------------------------------------------------------------
(* The inductive invariant *)

Steps == 1 .. Len(Program)

Places == ({"setup"} \X Steps)
              \cup ({"stream", "port_disable", "pool_destroy", "returned"} \X {1})
              \cup ({"component_disable", "component_destroy"} \X {1, 2, 3})
              \cup ({"quit", "join"} \X {1, 2})

TypeOK == /\ cfg \in SUBSET Options
          /\ pc \in Places
          /\ comp \in [Components -> {"none", "created", "enabled", "disabled", "destroyed"}]
          /\ live \in SUBSET Pools
          /\ open \in SUBSET Ports
          /\ header \in {"none", "allocated", "freed"}
          /\ queues \in SUBSET Workers
          /\ thread \in [Workers -> {"none", "loop", "wait", "work", "gone"}]
          /\ quit \in SUBSET Workers
          /\ queued \in [Workers -> 0 .. MaxQueued]
          /\ result \in {"running", "ok", "error"}

WantedAt(i) == /\ Program[i].given \in cfg \cup {"always"}
               /\ Program[i].obj = "brcm_header" => "capture" \in cfg

\* What the steps before the k-th obtain with calls of one kind.
Obtained(op, k) ==
    {Program[i].obj : i \in {j \in Steps : j < k /\ Program[j].op = op /\ WantedAt(j)}}

\* Main owns what the steps before the k-th obtain, and nothing else.
Climbed(k) ==
    /\ \A c \in Components :
          comp[c] = IF c \in Obtained("enable", k) THEN "enabled"
                    ELSE IF c \in Obtained("create", k) THEN "created" ELSE "none"
    /\ live = Obtained("pool", k)
    /\ open = Obtained("open", k)
    /\ queues = Obtained("queue", k)
    /\ \A w \in Workers : thread[w] # "none" <=> w \in Obtained("thread", k)
    /\ \/ header = "none"
       \/ header = "allocated" /\ "brcm_header" \in Obtained("malloc", k)

Ladder == /\ At("setup") => Climbed(pc[2])
          /\ At("stream") \/ At("port_disable") => Climbed(Len(Program) + 1)

Gone(c) == comp[c] \in {"none", "destroyed"}

\* The rawcam pool is left only by a main that could not create another one.
PoolGone == "pool" \in live => \/ ~ {"isp_ip_pool", "yuv_pool"} \subseteq live
                               \/ "preview" \in cfg /\ "vr_ip_pool" \notin live

\* What is undone at each label of the clean-up.
CleanUp ==
    /\ At("returned") <=> result # "running"
    /\ pc[1] \in {"pool_destroy", "component_disable", "component_destroy", "quit", "join"}
           => ("rawcam_output" \in open => "capture" \notin cfg)
    /\ pc[1] \in {"component_disable", "component_destroy", "quit", "join"} => PoolGone
    /\ pc[1] \in {"component_destroy", "quit", "join"} => header # "allocated"
    /\ At("component_disable") /\ pc[2] # 1 => header # "allocated"
    /\ At("component_destroy") /\ pc[2] # 1 => Gone("rawcam")
    /\ At("component_destroy") /\ pc[2] = 3 => Gone("isp")
    /\ At("quit") \/ At("join") => \A c \in Components : Gone(c)

IInv == TypeOK /\ Ladder /\ CleanUp /\ NothingLeft /\ PortClosedBeforePool

-----------------------------------------------------------------------------
(* The ladder *)

\* The ladder, rung by rung.
LEMMA ProgramSteps ==
        /\ Len(Program) = 35
        /\ Program[1] = S("thread", "awb", "awb", "return")
        /\ Program[2] = S("queue", "awb", "awb", "return")
        /\ Program[3] = S("thread", "processing", "processing", "return")
        /\ Program[4] = S("queue", "processing", "processing", "return")
        /\ Program[5] = S("create", "rawcam", "always", "return")
        /\ Program[6] = S("check", "rawcam", "always", "component_disable")
        /\ Program[7] = S("create", "isp", "always", "component_destroy")
        /\ Program[8] = S("check", "isp", "always", "component_disable")
        /\ Program[9] = S("create", "render", "always", "component_destroy")
        /\ Program[10] = S("check", "render", "always", "component_disable")
        /\ Program[11] = S("check", "rawcam", "always", "component_destroy")
        /\ Program[12] = S("enable", "rawcam", "always", "component_destroy")
        /\ Program[13] = S("enable", "isp", "always", "component_destroy")
        /\ Program[14] = S("enable", "render", "always", "component_destroy")
        /\ Program[15] = S("check", "rawcam", "always", "component_disable")
        /\ Program[16] = S("malloc", "brcm_header", "header", "ignored")
        /\ Program[17] = S("attempt", "header0", "header", "ignored")
        /\ Program[18] = S("attempt", "headerg", "capture", "ignored")
        /\ Program[19] = S("check", "isp", "always", "pool_destroy")
        /\ Program[20] = S("attempt", "black_level", "always", "ignored")
        /\ Program[21] = S("attempt", "awb_gains", "always", "ignored")
        /\ Program[22] = S("pool", "pool", "always", "component_disable")
        /\ Program[23] = S("attempt", "pool_memory", "always", "ignored")
        /\ Program[24] = S("pool", "isp_ip_pool", "always", "component_disable")
        /\ Program[25] = S("open", "isp_input", "always", "pool_destroy")
        /\ Program[26] = S("pool", "yuv_pool", "always", "component_disable")
        /\ Program[27] = S("attempt", "yuv_memory", "always", "ignored")
        /\ Program[28] = S("open", "isp_output", "always", "pool_destroy")
        /\ Program[29] = S("attempt", "display_region", "preview", "ignored")
        /\ Program[30] = S("check", "render", "preview", "pool_destroy")
        /\ Program[31] = S("pool", "vr_ip_pool", "preview", "component_disable")
        /\ Program[32] = S("open", "render_input", "preview", "pool_destroy")
        /\ Program[33] = S("thread", "processing_yuv", "processing_yuv", "return")
        /\ Program[34] = S("queue", "processing_yuv", "processing_yuv", "return")
        /\ Program[35] = S("open", "rawcam_output", "always", "pool_destroy")
  BY DEF Program, Thread, Create, Enable, Isp, Preview

\* What the calls of each kind are made for, and where their failures lead.
LEMMA StepFields ==
    ASSUME NEW i \in Steps
    PROVE  /\ Program[i].op \in {"thread", "queue", "create", "check", "enable", "malloc",
                                 "attempt", "pool", "open"}
           /\ Program[i].op \in {"create", "enable"} => Program[i].obj \in Components
           /\ Program[i].op \in {"thread", "queue"} => Program[i].obj \in Workers
           /\ Program[i].op = "pool" => Program[i].obj \in Pools
           /\ Program[i].op = "open" => Program[i].obj \in Ports
           /\ Program[i].op = "malloc" <=> Program[i].obj = "brcm_header"
           /\ Program[i].obj \in {"header0", "headerg"} => Program[i].op = "attempt"
           /\ Program[i].op \in {"malloc", "attempt"} <=> Program[i].bad = "ignored"
           /\ Program[i].bad \in {"ignored", "return", "component_disable",
                                  "component_destroy", "pool_destroy"}
  <1>1. /\ Components = {"rawcam", "isp", "render"}
        /\ Workers = {"awb", "processing", "processing_yuv"}
        /\ Pools = {"pool", "isp_ip_pool", "yuv_pool", "vr_ip_pool"}
        /\ Ports = {"rawcam_output", "isp_input", "isp_output", "render_input"}
    BY DEF Components, Workers, Pools, Ports, Owner
  <1>2. i \in 1 .. 35
    BY ProgramSteps DEF Steps
  <1> QED
    BY <1>1, <1>2, ProgramSteps DEF S

\* The order of the rungs.
LEMMA StepOrder ==
    ASSUME NEW i \in Steps
    PROVE  /\ i \in Nat
           /\ Program[i].op = "create" => i < 10
           /\ Program[i].op = "enable" => i > 10
           /\ Program[i].op = "malloc" => i = 16 /\ Program[i].given = "header"
           /\ Program[i].op = "pool" => i > 21
           /\ Program[i].op = "pool" /\ Program[i].obj = "pool" => i = 22
           /\ Program[i].op = "open" /\ Program[i].obj = "rawcam_output" => i = 35
           /\ Program[i].bad = "component_destroy" => i < 15
           /\ Program[i].bad = "component_disable" /\ i > 22 =>
                 Program[i].op = "pool" /\ Program[i].obj # "pool"
           /\ Program[i].op = "pool" /\ Program[i].obj = "vr_ip_pool"
                 => Program[i].given = "preview"
           /\ Program[i].op = "pool" => Program[i].bad = "component_disable"
  <1>1. i \in 1 .. 35
    BY ProgramSteps DEF Steps
  <1> QED
    BY <1>1, ProgramSteps DEF S

\* No resource is obtained twice.
LEMMA StepsDiffer ==
    ASSUME NEW i \in Steps, NEW j \in Steps,
           Program[i].op = Program[j].op, Program[i].obj = Program[j].obj,
           Program[i].op # "check"
    PROVE  i = j
  <1>1. i \in 1 .. 35 /\ j \in 1 .. 35
    BY ProgramSteps DEF Steps
  <1> QED
    BY <1>1, ProgramSteps DEF S

\* One rung adds what it obtains.
LEMMA ObtainedMore ==
    ASSUME NEW k \in Steps, NEW op
    PROVE  Obtained(op, k + 1) = IF Program[k].op = op /\ WantedAt(k)
                                 THEN Obtained(op, k) \cup {Program[k].obj}
                                 ELSE Obtained(op, k)
  <1> DEFINE J(m) == {j \in Steps : j < m /\ Program[j].op = op /\ WantedAt(j)}
  <1>1. J(k + 1) = IF Program[k].op = op /\ WantedAt(k) THEN J(k) \cup {k} ELSE J(k)
    BY DEF Steps
  <1>2. Obtained(op, k) = {Program[i].obj : i \in J(k)}
        /\ Obtained(op, k + 1) = {Program[i].obj : i \in J(k + 1)}
    BY DEF Obtained
  <1> HIDE DEF J
  <1> QED
    BY <1>1, <1>2

\* Before the first rung nothing is obtained.
LEMMA NothingObtained == \A op : Obtained(op, 1) = {}
  BY DEF Obtained, Steps

\* The whole ladder obtains what the options ask for.
LEMMA AllObtained ==
    ASSUME TypeOK
    PROVE  LET k == Len(Program) + 1
           IN  /\ Components \subseteq Obtained("enable", k)
               /\ Obtained("open", k)
                     = Ports \ (IF "preview" \in cfg THEN {} ELSE {"render_input"})
               /\ Obtained("pool", k)
                     = Pools \ (IF "preview" \in cfg THEN {} ELSE {"vr_ip_pool"})
               /\ Obtained("queue", k) = Workers \cap cfg
               /\ Obtained("thread", k) = Workers \cap cfg
  <1> DEFINE k == Len(Program) + 1
  <1>1. Steps = 1 .. 35 /\ k = 36
    BY ProgramSteps DEF Steps
  <1>2. "always" \notin cfg
    BY OptionsAssumption DEF TypeOK, AllOptions
  <1>3. \A i \in 1 .. 35 : i \in Steps /\ i < k
    BY <1>1
  <1>4. /\ Components = {"rawcam", "isp", "render"}
        /\ Workers = {"awb", "processing", "processing_yuv"}
        /\ Pools = {"pool", "isp_ip_pool", "yuv_pool", "vr_ip_pool"}
        /\ Ports = {"rawcam_output", "isp_input", "isp_output", "render_input"}
    BY DEF Components, Workers, Pools, Ports, Owner
  <1>5. \A op, x : x \in Obtained(op, k)
                      <=> \E i \in 1 .. 35 : /\ Program[i].op = op /\ Program[i].obj = x
                                             /\ WantedAt(i)
    <2>1. ASSUME NEW op
          PROVE  {j \in Steps : j < k /\ Program[j].op = op /\ WantedAt(j)}
                    = {j \in 1 .. 35 : Program[j].op = op /\ WantedAt(j)}
      BY <1>1, <1>3
    <2> HIDE DEF k
    <2>2. ASSUME NEW op
          PROVE  Obtained(op, k)
                    = {Program[i].obj : i \in {j \in 1 .. 35 : Program[j].op = op
                                                             /\ WantedAt(j)}}
      BY <2>1 DEF Obtained
    <2> QED
      BY <2>2
  <1> HIDE DEF k
  <1>6. \A i \in 1 .. 35 : Program[i].op # "malloc" =>
           (WantedAt(i) <=> Program[i].given \in cfg \cup {"always"})
    BY <1>1, StepFields DEF WantedAt
  <1>7. Components \subseteq Obtained("enable", k)
    BY <1>4, <1>5, <1>6, ProgramSteps DEF S
  <1>8. ASSUME NEW x
        PROVE  x \in Obtained("open", k)
                  <=> x \in Ports \ (IF "preview" \in cfg THEN {} ELSE {"render_input"})
    BY <1>2, <1>4, <1>5, <1>6, ProgramSteps DEF S
  <1>9. ASSUME NEW x
        PROVE  x \in Obtained("pool", k)
                  <=> x \in Pools \ (IF "preview" \in cfg THEN {} ELSE {"vr_ip_pool"})
    BY <1>2, <1>4, <1>5, <1>6, ProgramSteps DEF S
  <1>10. ASSUME NEW x
         PROVE  /\ x \in Obtained("queue", k) <=> x \in Workers \cap cfg
                /\ x \in Obtained("thread", k) <=> x \in Workers \cap cfg
    BY <1>2, <1>4, <1>5, <1>6, ProgramSteps DEF S
  <1> QED
    BY <1>7, <1>8, <1>9, <1>10 DEF k

-----------------------------------------------------------------------------
(* The proof of the invariant *)

\* main starts at the foot of the ladder, owning nothing.
LEMMA InitHolds == Init => IInv
  <1> SUFFICES ASSUME Init
               PROVE  IInv
    OBVIOUS
  <1>1. pc = <<"setup", 1>> /\ 1 \in Steps
    BY ProgramSteps DEF Init, Steps
  <1>2. TypeOK
    <2>1. pc \in Places
      BY <1>1 DEF Places
    <2>2. 0 \in 0 .. MaxQueued
      BY MaxQueuedAssumption
    <2> QED
      BY <2>1, <2>2 DEF Init, TypeOK
  <1>3. Ladder
    BY <1>1, NothingObtained DEF Init, Ladder, Climbed, At
  <1>4. CleanUp /\ NothingLeft /\ PortClosedBeforePool
    BY <1>1 DEF Init, CleanUp, NothingLeft, PortClosedBeforePool, At
  <1> QED
    BY <1>2, <1>3, <1>4 DEF IInv

\* Where main is in the ladder.
LEMMA Climbing ==
    ASSUME IInv, At("setup")
    PROVE  /\ pc[2] \in Steps /\ pc = <<"setup", pc[2]>>
           /\ Climbed(pc[2])
           /\ result = "running"
           /\ "rawcam_output" \notin open
  <1>1. pc \in {"setup"} \X Steps
    BY DEF IInv, TypeOK, Places, At
  <1>2. Climbed(pc[2])
    BY DEF IInv, Ladder
  <1>3. ASSUME NEW j \in Steps, j < pc[2]
        PROVE  ~ (Program[j].op = "open" /\ Program[j].obj = "rawcam_output")
    BY <1>1, <1>3, StepOrder, ProgramSteps DEF Steps
  <1>4. "rawcam_output" \notin Obtained("open", pc[2])
    BY <1>3 DEF Obtained
  <1> QED
    BY <1>1, <1>2, <1>4 DEF Climbed, IInv, CleanUp, At

\* Where the next rung is.
LEMMA Advances ==
    ASSUME IInv, At("setup"), Advance
    PROVE  /\ pc' \in Places
           /\ \/ pc[2] = 35 /\ pc' = <<"stream", 1>>
              \/ pc[2] + 1 \in Steps /\ pc' = <<"setup", pc[2] + 1>>
  <1>1. pc[2] \in 1 .. 35 /\ Steps = 1 .. 35 /\ Len(Program) = 35
    BY Climbing, ProgramSteps DEF Steps
  <1>2. \/ pc[2] = 35 /\ pc' = <<"stream", 1>>
        \/ pc[2] # 35 /\ pc' = <<"setup", pc[2] + 1>>
    BY <1>1 DEF Advance, Go
  <1> QED
    BY <1>1, <1>2 DEF Places

\* main is one rung higher, and owns what it should.
LEMMA Climbs ==
    ASSUME IInv, At("setup"), Advance, cfg' = cfg, result' = result, TypeOK',
           NEW k, k = pc[2], Climbed(k + 1)'
    PROVE  IInv'
  <1>1. k \in 1 .. 35 /\ Steps = 1 .. 35 /\ Len(Program) = 35 /\ result' = "running"
    BY Climbing, ProgramSteps DEF Steps
  <1>2. \/ k = 35 /\ pc' = <<"stream", 1>>
        \/ k + 1 \in Steps /\ pc' = <<"setup", k + 1>>
    BY Advances
  <1>3. Ladder'
    BY <1>1, <1>2 DEF Ladder, At
  <1>4. CleanUp' /\ NothingLeft'
    BY <1>1, <1>2 DEF CleanUp, NothingLeft, At
  <1>5. PortClosedBeforePool'
    <2> SUFFICES ASSUME "rawcam_output" \in open'
                 PROVE  "pool" \in live' /\ header' # "freed"
      BY DEF PortClosedBeforePool
    <2>1. PICK i \in Steps : i < k + 1 /\ Program[i].op = "open"
                             /\ Program[i].obj = "rawcam_output"
      BY DEF Climbed, Obtained
    <2>2. k = 35
      BY <1>1, <2>1, StepOrder
    <2>3. 22 \in Steps /\ 22 < k + 1 /\ Program[22].op = "pool" /\ Program[22].obj = "pool"
          /\ WantedAt(22)'
      BY <1>1, <2>2, ProgramSteps DEF S, WantedAt
    <2> QED
      BY <2>3 DEF Climbed, Obtained
  <1> QED
    BY <1>3, <1>4, <1>5 DEF IInv

\* The options do not change, so the ladder obtains at each step what it did.
LEMMA SameLadder ==
    ASSUME cfg' = cfg
    PROVE  \A op, k : Obtained(op, k)' = Obtained(op, k)
  BY DEF Obtained, WantedAt

\* A call that succeeds adds its resource to those of the rungs below.
LEMMA ObtainKeeps == IInv /\ Obtain => IInv'
  <1> SUFFICES ASSUME IInv, Obtain
               PROVE  IInv'
    OBVIOUS
  <1>11. PICK k : k = pc[2]
    OBVIOUS
  <1>1. /\ At("setup") /\ Advance /\ UNCHANGED <<cfg, quit, queued, result>>
        /\ comp' = Mark("enable", Mark("create", comp, "created"), "enabled")
        /\ thread' = Mark("thread", thread, "loop")
        /\ queues' = Add("queue", queues)
        /\ live' = Add("pool", live)
        /\ open' = Add("open", open)
        /\ header' = IF Step.op = "malloc" THEN "allocated" ELSE header
    BY DEF Obtain
  <1>2. k \in Steps /\ Climbed(k) /\ TypeOK
    BY <1>1, <1>11, Climbing DEF IInv
  <1>3. WantedAt(k) /\ Step = Program[k]
    BY <1>11 DEF Obtain, Wanted, WantedAt, Step
  <1>4. ASSUME NEW op
        PROVE  Obtained(op, k + 1)' = IF Step.op = op THEN Obtained(op, k) \cup {Step.obj}
                                      ELSE Obtained(op, k)
    <2>1. Obtained(op, k + 1)' = Obtained(op, k + 1)
      BY <1>1, SameLadder
    <2> QED
      BY <1>2, <1>3, <2>1, ObtainedMore
  <1>5. \A c \in Components :
           comp'[c] = IF c \in Obtained("enable", k + 1)' THEN "enabled"
                      ELSE IF c \in Obtained("create", k + 1)' THEN "created" ELSE "none"
    <2>1. \A c \in Components :
             comp[c] = IF c \in Obtained("enable", k) THEN "enabled"
                       ELSE IF c \in Obtained("create", k) THEN "created" ELSE "none"
      BY <1>2 DEF Climbed
    <2>2. CASE Step.op = "create"
      <3>1. comp' = [comp EXCEPT ![Step.obj] = "created"]
        BY <1>1, <2>2 DEF Mark
      <3>2. ASSUME NEW c \in Obtained("enable", k)
            PROVE  FALSE
        <4>1. PICK i \in Steps : i < k /\ Program[i].op = "enable"
          BY DEF Obtained
        <4> QED
          BY <1>2, <1>3, <2>2, <4>1, StepOrder
      <3>3. Obtained("enable", k + 1)' = Obtained("enable", k)
            /\ Obtained("create", k + 1)' = Obtained("create", k) \cup {Step.obj}
        BY <1>4, <2>2
      <3> QED
        BY <1>2, <2>1, <3>1, <3>2, <3>3 DEF TypeOK
    <2>3. CASE Step.op = "enable"
      <3>1. comp' = [comp EXCEPT ![Step.obj] = "enabled"]
        BY <1>1, <2>3 DEF Mark
      <3>2. Obtained("enable", k + 1)' = Obtained("enable", k) \cup {Step.obj}
            /\ Obtained("create", k + 1)' = Obtained("create", k)
        BY <1>4, <2>3
      <3> QED
        BY <1>2, <2>1, <3>1, <3>2 DEF TypeOK
    <2>4. CASE Step.op \notin {"create", "enable"}
      <3>1. comp' = comp
        BY <1>1, <2>4 DEF Mark
      <3> QED
        BY <1>4, <2>1, <2>4, <3>1
    <2> QED
      BY <2>2, <2>3, <2>4
  <1>6. live' = Obtained("pool", k + 1)' /\ open' = Obtained("open", k + 1)'
        /\ queues' = Obtained("queue", k + 1)'
    BY <1>1, <1>2, <1>4 DEF Climbed, Add
  <1>7. \A w \in Workers : thread'[w] # "none" <=> w \in Obtained("thread", k + 1)'
    <2>1. CASE Step.op = "thread"
      <3>1. thread' = [thread EXCEPT ![Step.obj] = "loop"] /\ Step.obj \in Workers
        BY <1>1, <1>2, <1>3, <2>1, StepFields DEF Mark
      <3>2. Obtained("thread", k + 1)' = Obtained("thread", k) \cup {Step.obj}
        BY <1>4, <2>1
      <3>3. \A w \in Workers : thread[w] # "none" <=> w \in Obtained("thread", k)
        BY <1>2 DEF Climbed
      <3> QED
        BY <1>2, <3>1, <3>2, <3>3 DEF TypeOK
    <2>2. CASE Step.op # "thread"
      BY <1>1, <1>2, <1>4, <2>2 DEF Mark, Climbed
    <2> QED
      BY <2>1, <2>2
  <1>8. \/ header' = "none"
        \/ header' = "allocated" /\ "brcm_header" \in Obtained("malloc", k + 1)'
    BY <1>1, <1>2, <1>3, <1>4, StepFields DEF Climbed
  <1>9. Climbed(k + 1)'
    BY <1>5, <1>6, <1>7, <1>8 DEF Climbed
  <1>10. TypeOK'
    <2>1. pc' \in Places
      BY <1>1, Advances
    <2>2. comp' \in [Components -> {"none", "created", "enabled", "disabled", "destroyed"}]
      BY <1>1, <1>2 DEF TypeOK, Mark
    <2>3. thread' \in [Workers -> {"none", "loop", "wait", "work", "gone"}]
      BY <1>1, <1>2 DEF TypeOK, Mark
    <2>4. live' \in SUBSET Pools /\ open' \in SUBSET Ports /\ queues' \in SUBSET Workers
      BY <1>1, <1>2, <1>3, StepFields DEF TypeOK, Add
    <2>5. header' \in {"none", "allocated", "freed"}
      BY <1>1, <1>2 DEF TypeOK
    <2> QED
      BY <1>1, <1>2, <2>1, <2>2, <2>3, <2>4, <2>5 DEF TypeOK
  <1> QED
    BY <1>1, <1>9, <1>10, <1>11, Climbs

\* A step that is not wanted, or whose failure is ignored, obtains nothing: that fails only
\* for the header's buffer and for the attempts, which main does without.
LEMMA PassKeeps ==
    ASSUME IInv, At("setup"), Advance, UNCHANGED <<cfg, resources, threads, result>>,
           ~ WantedAt(pc[2]) \/ Program[pc[2]].op \in {"malloc", "attempt"}
    PROVE  IInv'
  <1>1. PICK k : k = pc[2]
    OBVIOUS
  <1>2. k \in Steps /\ Climbed(k) /\ TypeOK
    BY <1>1, Climbing DEF IInv
  <1>3. ASSUME NEW op
        PROVE  /\ op \notin {"malloc", "attempt"} => Obtained(op, k + 1)' = Obtained(op, k)
               /\ Obtained(op, k) \subseteq Obtained(op, k + 1)'
    <2>1. Obtained(op, k + 1)' = Obtained(op, k + 1)
      BY SameLadder
    <2>2. Obtained(op, k + 1) = IF Program[k].op = op /\ WantedAt(k)
                                THEN Obtained(op, k) \cup {Program[k].obj}
                                ELSE Obtained(op, k)
      BY <1>2, ObtainedMore
    <2>3. op \notin {"malloc", "attempt"} => ~ (Program[k].op = op /\ WantedAt(k))
      BY <1>1
    <2> QED
      BY <2>1, <2>2, <2>3
  <1>4. Climbed(k + 1)'
    <2>1. UNCHANGED <<comp, live, open, header, queues, thread>>
      BY DEF resources, threads
    <2> QED
      BY <1>2, <1>3, <2>1 DEF Climbed
  <1>5. TypeOK'
    <2>1. pc' \in Places
      BY Advances
    <2> QED
      BY <1>2, <2>1 DEF TypeOK, resources, threads
  <1> QED
    BY <1>1, <1>4, <1>5, Climbs

\* A step that is not wanted.
LEMMA SkipKeeps == IInv /\ Skip => IInv'
  <1> SUFFICES ASSUME IInv, Skip
               PROVE  IInv'
    OBVIOUS
  <1>1. At("setup") /\ Advance /\ UNCHANGED <<cfg, resources, threads, result>>
    BY DEF Skip, resources, threads
  <1>2. ~ WantedAt(pc[2]) \/ Program[pc[2]].op = "attempt"
    <2>1. pc[2] \in Steps
      BY <1>1, Climbing
    <2> QED
      BY <2>1, StepFields DEF Skip, Wanted, WantedAt, Step
  <1> QED
    BY <1>1, <1>2, PassKeeps

\* Where a failed call leads, all that the label takes for undone was never done.
LEMMA FailKeeps == IInv /\ Fail => IInv'
  <1> SUFFICES ASSUME IInv, Fail
               PROVE  IInv'
    OBVIOUS
  <1>1. PICK k : k = pc[2]
    OBVIOUS
  <1>2. /\ At("setup") /\ UNCHANGED <<cfg, resources, threads>>
        /\ Step = Program[k] /\ WantedAt(k)
    BY <1>1 DEF Fail, Step, Wanted, WantedAt
  <1>3. k \in Steps /\ k \in Nat /\ Climbed(k) /\ TypeOK /\ result = "running"
        /\ "rawcam_output" \notin open
    BY <1>1, <1>2, Climbing, StepOrder DEF IInv
  <1>4. CASE Step.bad = "ignored"
    <2>1. Advance /\ result' = result
      BY <1>4 DEF Fail
    <2>2. Program[k].op \in {"malloc", "attempt"}
      BY <1>2, <1>3, <1>4, StepFields
    <2> QED
      BY <1>1, <1>2, <2>1, <2>2, PassKeeps
  <1>5. CASE Step.bad # "ignored"
    <2> DEFINE label == IF Step.bad = "return" THEN "returned" ELSE Step.bad
    <2>1. pc' = <<label, 1>> /\ result' = IF label = "returned" THEN "error" ELSE "running"
      BY <1>2, <1>3, <1>5, StepFields DEF Fail, Go
    <2>2. label \in {"returned", "component_disable", "component_destroy", "pool_destroy"}
      BY <1>2, <1>3, <1>5, StepFields
    <2>3. label = "component_destroy" <=> Step.bad = "component_destroy"
      BY <1>2, <1>3, StepFields
    <2>4. label = "component_disable" <=> Step.bad = "component_disable"
      BY <1>2, <1>3, StepFields
    <2> HIDE DEF label
    <2>5. ASSUME label = "component_destroy"
          PROVE  header # "allocated" /\ "pool" \notin live
      <3>1. k < 15
        BY <1>2, <1>3, <2>3, <2>5, StepOrder
      <3>2. \A j \in Steps : j < k => Program[j].op \notin {"malloc", "pool"}
        BY <1>3, <3>1, StepOrder
      <3> QED
        BY <1>3, <3>2 DEF Climbed, Obtained
    <2>6. ASSUME label = "component_disable", "pool" \in live
          PROVE  /\ Program[k].op = "pool"
                 /\ Program[k].obj \in Pools \ {"pool"}
                 /\ Program[k].obj \notin live
                 /\ Program[k].obj = "vr_ip_pool" => "preview" \in cfg
      <3>1. PICK j \in Steps : j < k /\ Program[j].op = "pool" /\ Program[j].obj = "pool"
        BY <1>3, <2>6 DEF Climbed, Obtained
      <3>2. k > 22
        BY <1>3, <3>1, StepOrder
      <3>3. Program[k].op = "pool" /\ Program[k].obj # "pool"
        BY <1>2, <1>3, <2>4, <2>6, <3>2, StepOrder
      <3>4. Program[k].obj \notin Obtained("pool", k)
        BY <1>3, <3>3, StepsDiffer, StepOrder DEF Obtained
      <3>5. Program[k].obj = "vr_ip_pool" => Program[k].given = "preview"
        BY <1>3, <3>3, StepOrder
      <3> QED
        BY <1>2, <1>3, <3>3, <3>4, <3>5, StepFields DEF Climbed, WantedAt
    <2>7. label = "component_disable" => PoolGone
      BY <2>6 DEF PoolGone, Pools
    <2>8. pc'[1] = label /\ pc'[2] = 1 /\ pc' \in Places
      BY <2>1, <2>2 DEF Places
    <2>9. UNCHANGED <<cfg, comp, live, open, header, queues, thread, quit, queued>>
      BY <1>2 DEF resources, threads
    <2>10. TypeOK'
      BY <1>3, <2>1, <2>8, <2>9 DEF TypeOK
    <2>11. Ladder' /\ NothingLeft' /\ PortClosedBeforePool'
      BY <1>3, <2>1, <2>2, <2>8, <2>9 DEF Ladder, NothingLeft, PortClosedBeforePool, At
    <2>12. CleanUp'
      <3>1. PoolGone' <=> PoolGone
        BY <2>9 DEF PoolGone
      <3>2. label = "component_destroy" => PoolGone
        BY <2>5 DEF PoolGone
      <3> QED
        BY <1>3, <2>1, <2>2, <2>5, <2>7, <2>8, <2>9, <3>1, <3>2 DEF CleanUp, At
    <2> QED
      BY <2>10, <2>11, <2>12 DEF IInv
  <1> QED
    BY <1>4, <1>5

\* With everything obtained main streams, and goes on to clean up.
LEMMA StreamKeeps == IInv /\ Stream => IInv'
  <1> SUFFICES ASSUME IInv, Stream
               PROVE  IInv'
    OBVIOUS
  <1>1. /\ pc[1] = "stream" /\ pc' = <<"port_disable", 1>>
        /\ UNCHANGED <<cfg, comp, live, open, header, queues, thread, quit, queued, result>>
    BY DEF Stream, At, Go, resources, threads
  <1>2. pc' \in Places /\ pc'[1] = "port_disable"
    BY <1>1 DEF Places
  <1>3. Climbed(Len(Program) + 1) /\ result = "running"
    BY <1>1 DEF IInv, Ladder, CleanUp, At
  <1>4. Climbed(Len(Program) + 1)'
    BY <1>1, <1>3, SameLadder DEF Climbed
  <1>5. TypeOK'
    BY <1>1, <1>2 DEF IInv, TypeOK
  <1>6. Ladder' /\ CleanUp' /\ NothingLeft' /\ PortClosedBeforePool'
    BY <1>1, <1>2, <1>3, <1>4 DEF IInv, Ladder, CleanUp, NothingLeft, PortClosedBeforePool, At
  <1> QED
    BY <1>5, <1>6 DEF IInv

\* The label port_disable: only a main that does not capture goes on with the port open.
LEMMA DisablePortKeeps == IInv /\ DisablePort => IInv'
  <1> SUFFICES ASSUME IInv, DisablePort
               PROVE  IInv'
    OBVIOUS
  <1>1. /\ pc[1] = "port_disable"
        /\ UNCHANGED <<cfg, comp, live, header, queues, thread, quit, queued>>
        /\ open' \in {open, open \ {"rawcam_output"}}
        /\ \/ pc' = <<"pool_destroy", 1>> /\ result' = result
              /\ ("rawcam_output" \in open' => "capture" \notin cfg)
           \/ pc' = <<"returned", 1>> /\ result' = "error" /\ open' = open
    BY DEF DisablePort, At, Go, threads
  <1>2. pc' \in Places /\ pc'[1] \in {"pool_destroy", "returned"}
        /\ (pc'[1] = "pool_destroy" => pc' = <<"pool_destroy", 1>>)
    BY <1>1 DEF Places
  <1>3. result = "running"
    BY <1>1 DEF IInv, CleanUp, At
  <1>4. TypeOK'
    BY <1>1, <1>2 DEF IInv, TypeOK
  <1>5. Ladder' /\ CleanUp' /\ NothingLeft' /\ PortClosedBeforePool'
    BY <1>1, <1>2, <1>3 DEF IInv, Ladder, CleanUp, NothingLeft, PortClosedBeforePool, At
  <1> QED
    BY <1>4, <1>5 DEF IInv

\* The label pool_destroy.
LEMMA DestroyPoolKeeps == IInv /\ DestroyPool => IInv'
  <1> SUFFICES ASSUME IInv, DestroyPool
               PROVE  IInv'
    OBVIOUS
  <1>1. /\ pc[1] = "pool_destroy" /\ pc' = <<"component_disable", 1>>
        /\ live' = live \ {"pool"}
        /\ UNCHANGED <<cfg, comp, open, header, queues, thread, quit, queued, result>>
    BY DEF DestroyPool, At, Go, threads
  <1>2. pc' \in Places /\ pc'[1] = "component_disable" /\ pc'[2] = 1
    BY <1>1 DEF Places
  <1>3. /\ result = "running"
        /\ "rawcam_output" \in open => "capture" \notin cfg
    BY <1>1 DEF IInv, CleanUp, At
  <1>4. PoolGone'
    BY <1>1 DEF PoolGone
  <1>5. TypeOK'
    BY <1>1, <1>2 DEF IInv, TypeOK
  <1>6. Ladder' /\ CleanUp' /\ NothingLeft' /\ PortClosedBeforePool'
    BY <1>1, <1>2, <1>3, <1>4 DEF Ladder, CleanUp, NothingLeft, PortClosedBeforePool, At
  <1> QED
    BY <1>5, <1>6 DEF IInv

\* The label component_disable.
LEMMA DisableComponentKeeps == IInv /\ DisableComponent => IInv'
  <1> SUFFICES ASSUME IInv, DisableComponent
               PROVE  IInv'
    OBVIOUS
  <1>1. /\ pc[1] = "component_disable" /\ header' = IF header = "allocated" THEN "freed" ELSE header
        /\ UNCHANGED <<cfg, live, open, queues, thread, quit, queued, result>>
        /\ \/ comp' = [comp EXCEPT ![<<"render", "isp", "rawcam">>[pc[2]]] = "disabled"]
           \/ comp' = comp
        /\ IF pc[2] = 3 THEN pc' = <<"component_destroy", 1>>
           ELSE pc' = [pc EXCEPT ![2] = @ + 1]
    BY DEF DisableComponent, At, Go, threads
  <1>2. pc \in {"component_disable"} \X {1, 2, 3}
    BY <1>1 DEF IInv, TypeOK, Places
  <1>3. pc' \in {<<"component_destroy", 1>>, <<"component_disable", 2>>,
                 <<"component_disable", 3>>}
    BY <1>1, <1>2
  <1>4. /\ pc' \in Places
        /\ pc'[1] \in {"component_destroy", "component_disable"}
        /\ pc'[1] = "component_destroy" => pc'[2] = 1
    BY <1>3 DEF Places
  <1>5. /\ result = "running" /\ PoolGone
        /\ "rawcam_output" \in open => "capture" \notin cfg
    BY <1>1 DEF IInv, CleanUp, At
  <1>6. comp' \in [Components -> {"none", "created", "enabled", "disabled", "destroyed"}]
    BY <1>1, <1>2 DEF IInv, TypeOK
  <1>7. TypeOK'
    BY <1>1, <1>4, <1>6 DEF IInv, TypeOK
  <1>8. PoolGone'
    BY <1>1, <1>5 DEF PoolGone
  <1>9. Ladder' /\ CleanUp' /\ NothingLeft' /\ PortClosedBeforePool'
    BY <1>1, <1>4, <1>5, <1>8 DEF Ladder, CleanUp, NothingLeft, PortClosedBeforePool, At
  <1> QED
    BY <1>7, <1>9 DEF IInv

\* The label component_destroy.
LEMMA DestroyComponentKeeps == IInv /\ DestroyComponent => IInv'
  <1> SUFFICES ASSUME IInv, DestroyComponent
               PROVE  IInv'
    OBVIOUS
  <1> DEFINE c == <<"rawcam", "isp", "render">>[pc[2]]
  <1>1. /\ pc[1] = "component_destroy"
        /\ UNCHANGED <<cfg, live, header, queues, thread, quit, queued, result>>
        /\ comp' = IF comp[c] = "none" THEN comp ELSE [comp EXCEPT ![c] = "destroyed"]
        /\ open' = {p \in open : Owner[p] # c}
        /\ IF pc[2] = 3 THEN pc' = <<"quit", 1>> ELSE pc' = [pc EXCEPT ![2] = @ + 1]
    BY DEF DestroyComponent, At, Go, threads
  <1>2. pc \in {"component_destroy"} \X {1, 2, 3}
    BY <1>1 DEF IInv, TypeOK, Places
  <1>3. \/ pc[2] = 1 /\ c = "rawcam" /\ pc' = <<"component_destroy", 2>>
        \/ pc[2] = 2 /\ c = "isp" /\ pc' = <<"component_destroy", 3>>
        \/ pc[2] = 3 /\ c = "render" /\ pc' = <<"quit", 1>>
    BY <1>1, <1>2
  <1>4. /\ pc' \in Places
        /\ pc'[1] \in {"component_destroy", "quit"}
        /\ pc'[1] = "quit" <=> pc[2] = 3
        /\ pc[2] # 3 => pc'[2] = pc[2] + 1
    BY <1>3 DEF Places
  <1>5. /\ result = "running" /\ PoolGone /\ header # "allocated"
        /\ "rawcam_output" \in open => "capture" \notin cfg
        /\ pc[2] # 1 => Gone("rawcam")
        /\ pc[2] = 3 => Gone("isp")
    BY <1>1 DEF IInv, CleanUp, At
  <1>6. /\ comp \in [Components -> {"none", "created", "enabled", "disabled", "destroyed"}]
        /\ Components = {"rawcam", "isp", "render"}
    BY DEF IInv, TypeOK, Components
  <1>7. \A d \in Components : Gone(d)' <=> d = c \/ Gone(d)
    BY <1>1, <1>3, <1>6 DEF Gone
  <1>8. comp' \in [Components -> {"none", "created", "enabled", "disabled", "destroyed"}]
    BY <1>1, <1>3, <1>6
  <1>9. TypeOK'
    BY <1>1, <1>4, <1>8 DEF IInv, TypeOK
  <1>10. PoolGone'
    BY <1>1, <1>5 DEF PoolGone
  <1>11. /\ pc'[1] = "component_destroy" /\ pc'[2] # 1 => Gone("rawcam")'
         /\ pc'[1] = "component_destroy" /\ pc'[2] = 3 => Gone("isp")'
         /\ pc'[1] = "quit" => \A d \in Components : Gone(d)'
    BY <1>2, <1>3, <1>4, <1>5, <1>6, <1>7
  <1> HIDE DEF c
  <1>12. CleanUp'
    BY <1>1, <1>4, <1>5, <1>10, <1>11 DEF CleanUp, At
  <1>13. Ladder' /\ NothingLeft' /\ PortClosedBeforePool'
    BY <1>1, <1>4, <1>5 DEF Ladder, NothingLeft, PortClosedBeforePool, At
  <1> QED
    BY <1>9, <1>12, <1>13 DEF IInv

\* Telling the threads to quit, and joining them.
LEMMA JoinKeeps == IInv /\ (TellQuit \/ Join) => IInv'
  <1> SUFFICES ASSUME IInv, TellQuit \/ Join
               PROVE  IInv'
    OBVIOUS
  <1>1. /\ pc[1] \in {"quit", "join"}
        /\ UNCHANGED <<cfg, comp, live, open, header, queues, thread, queued>>
        /\ quit' = quit \/ quit' = quit \cup ({Joined[pc[2]]} \cap cfg)
        /\ \/ pc' = <<"join", pc[2]>> /\ result' = result
           \/ pc' = <<"returned", 1>> /\ result' = "ok"
           \/ pc[2] # Len(Joined) /\ pc' = <<"quit", pc[2] + 1>> /\ result' = result
    BY DEF TellQuit, Join, At, Go, resources, threads
  <1>2. pc[2] \in {1, 2} /\ Len(Joined) = 2 /\ Joined[1] \in Workers /\ Joined[2] \in Workers
    BY <1>1 DEF IInv, TypeOK, Places, Joined, Workers
  <1>3. /\ result = "running" /\ PoolGone /\ header # "allocated"
        /\ "rawcam_output" \in open => "capture" \notin cfg
        /\ \A c \in Components : Gone(c)
    BY <1>1 DEF IInv, CleanUp, At
  <1>4. /\ pc' \in Places
        /\ pc'[1] \in {"join", "quit", "returned"}
        /\ IF pc'[1] = "returned" THEN result' = "ok" ELSE result' = "running"
    BY <1>1, <1>2, <1>3 DEF Places
  <1>5. quit' \in SUBSET Workers
    BY <1>1, <1>2 DEF IInv, TypeOK
  <1>6. TypeOK'
    BY <1>1, <1>4, <1>5 DEF IInv, TypeOK
  <1>7. PoolGone' /\ \A c \in Components : Gone(c)'
    BY <1>1, <1>3 DEF PoolGone, Gone
  <1>8. Ladder' /\ CleanUp' /\ PortClosedBeforePool'
    BY <1>1, <1>3, <1>4, <1>7 DEF Ladder, CleanUp, PortClosedBeforePool, At
  <1>9. NothingLeft'
    BY <1>1, <1>3, <1>7 DEF NothingLeft, PoolGone, Gone
  <1> QED
    BY <1>6, <1>8, <1>9 DEF IInv

\* The callbacks and the threads take nothing from main.
LEMMA WorkersKeep ==
    ASSUME IInv, NEW w \in Workers, Put(w) \/ WorkerStep(w)
    PROVE  IInv'
  <1>1. TypeOK
    BY DEF IInv
  <1>2. UNCHANGED <<cfg, pc, comp, live, open, header, queues, quit, result>>
    BY DEF Put, WorkerStep, Loop, Get, TimeOut, GiveBack, ThreadGoes, resources
  <1>3. \/ thread' = thread
        \/ \E v \in {"loop", "wait", "work", "gone"} :
              thread[w] # "none" /\ thread' = [thread EXCEPT ![w] = v]
    BY DEF Put, WorkerStep, Loop, Get, TimeOut, GiveBack, ThreadGoes
  <1>4. queued' \in [Workers -> 0 .. MaxQueued]
    <2>1. \/ queued' = queued
          \/ queued[w] < MaxQueued /\ queued' = [queued EXCEPT ![w] = @ + 1]
          \/ queued[w] > 0 /\ queued' = [queued EXCEPT ![w] = @ - 1]
      BY DEF Put, WorkerStep, Loop, Get, TimeOut, GiveBack
    <2>2. queued \in [Workers -> 0 .. MaxQueued] /\ MaxQueued \in Nat
      BY <1>1, MaxQueuedAssumption DEF TypeOK
    <2>3. queued[w] < MaxQueued => queued[w] + 1 \in 0 .. MaxQueued
      BY <2>2
    <2>4. queued[w] > 0 => queued[w] - 1 \in 0 .. MaxQueued
      BY <2>2
    <2> QED
      BY <2>1, <2>2, <2>3, <2>4
  <1>5. /\ thread' \in [Workers -> {"none", "loop", "wait", "work", "gone"}]
        /\ \A v \in Workers : thread'[v] # "none" <=> thread[v] # "none"
    BY <1>1, <1>3 DEF TypeOK
  <1>6. TypeOK'
    BY <1>1, <1>2, <1>4, <1>5 DEF TypeOK
  <1>7. \A k : Climbed(k) => Climbed(k)'
    <2>1. \A op, k : Obtained(op, k)' = Obtained(op, k)
      BY <1>2, SameLadder
    <2> QED
      BY <1>2, <1>5, <2>1 DEF Climbed
  <1>8. Ladder'
    BY <1>2, <1>7 DEF IInv, Ladder, At
  <1>9. CleanUp' /\ NothingLeft' /\ PortClosedBeforePool'
    BY <1>2 DEF IInv, CleanUp, NothingLeft, PortClosedBeforePool, At, PoolGone, Gone
  <1> QED
    BY <1>6, <1>8, <1>9 DEF IInv

\* Each step keeps the invariant.
LEMMA NextKeeps == IInv /\ [Next]_vars => IInv'
  <1> SUFFICES ASSUME IInv, [Next]_vars
               PROVE  IInv'
    OBVIOUS
  <1>1. CASE MainStep
    BY <1>1, ObtainKeeps, FailKeeps, SkipKeeps, StreamKeeps, DisablePortKeeps,
       DestroyPoolKeeps, DisableComponentKeeps, DestroyComponentKeeps, JoinKeeps
       DEF MainStep
  <1>2. CASE \E w \in Workers : Put(w) \/ WorkerStep(w)
    BY <1>2, WorkersKeep
  <1>3. CASE UNCHANGED vars
    <2>1. UNCHANGED <<cfg, pc, comp, live, open, header, queues, thread, quit, queued, result>>
      BY <1>3 DEF vars, resources, threads
    <2>2. \A op, k : Obtained(op, k)' = Obtained(op, k)
      BY <2>1, SameLadder
    <2> QED
      BY <2>1, <2>2 DEF IInv, TypeOK, Ladder, Climbed, CleanUp, NothingLeft,
                        PortClosedBeforePool, At, PoolGone, Gone
  <1> QED
    BY <1>1, <1>2, <1>3 DEF Next

\* main is always where the invariant says, whichever calls fail and however the threads
\* are scheduled.
THEOREM Invariant == Spec => []IInv
  <1> QED
    BY InitHolds, NextKeeps, PTL DEF Spec

-----------------------------------------------------------------------------
(* What it implies *)

\* Whichever calls failed on the way, streaming starts with every component enabled and with
\* exactly the pools, open ports, queues and threads that the options ask for, and with no
\* header unasked (raspiraw.c:1663-2257).  The header itself, its files, the black level, the
\* gains, the memory of some buffers and the display region may be missing: of those, failures
\* are ignored or only logged.
THEOREM StreamingIsComplete == Spec => []StreamsComplete
  <1>1. IInv => StreamsComplete
    <2> SUFFICES ASSUME IInv, At("stream")
                 PROVE  StreamsComplete
      BY DEF StreamsComplete
    <2>1. Climbed(Len(Program) + 1) /\ TypeOK
      BY DEF IInv, Ladder
    <2>2. ASSUME header # "none"
          PROVE  header = "allocated" /\ {"capture", "header"} \subseteq cfg
      <3>1. header = "allocated" /\ "brcm_header" \in Obtained("malloc", Len(Program) + 1)
        BY <2>1, <2>2 DEF Climbed
      <3>2. PICK i \in Steps : /\ Program[i].op = "malloc" /\ Program[i].obj = "brcm_header"
                               /\ WantedAt(i)
        BY <3>1 DEF Obtained
      <3>3. Program[i].given = "header"
        BY <3>2, StepOrder
      <3> QED
        BY <3>1, <3>2, <3>3 DEF WantedAt
    <2> QED
      BY <2>1, <2>2, AllObtained DEF Climbed, StreamsComplete
  <1> QED
    BY <1>1, Invariant, PTL

\* When main returns 0 each component it created is destroyed, the header is freed, and the
\* rawcam pool is left only if another pool could not be created, wherever a failure jumped
\* into the clean-up (raspiraw.c:2287-2314).
THEOREM ComponentsAreDestroyed == Spec => []NothingLeft
  BY Invariant, PTL DEF IInv

\* An open port that captures has its pool, and the header its callback writes is not freed
\* (raspiraw.c:2277-2292).
THEOREM PoolOutlivesPort == Spec => []PortClosedBeforePool
  BY Invariant, PTL DEF IInv
=============================================================================
