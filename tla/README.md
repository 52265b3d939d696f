# A TLA+ development for raspiraw

raspiraw receives frames directly from a camera sensor on the Raspberry Pi's
CSI port, without the camera firmware's processing. It programs the sensor over
I2C, lets the MMAL component *rawcam* receive the frames, saves some of them,
passes them to the *isp* for a preview, and offers them to worker threads (white
balance, places for own processing). The repository also carries *ilclient*, a
client library for OpenMAX IL. This directory holds TLA+ modules that model
both, TLC configurations that check them on small instances, and proofs, checked
by TLAPS, for every size. Line numbers without a file are those of `raspiraw.c`.

- [Inventory](#inventory): the program's parts
- [Modules](#modules): which module models what, and how
- [Runs](#runs): what is checked, on which bounds, with which result
- [Fairness](#fairness)
- [Proofs](#proofs)
- [Disagreements found](#disagreements-found)
- [Not modelled](#not-modelled) and [Plan](#plan)

To repeat a check: `tlc -config FanoutRaw.cfg MCFanoutRaw.tla`; to repeat the
proofs about a module M: `tlapm M_proofs.tla`.

## Inventory

| Part | State | Operations | Talks to | What must hold |
|---|---|---|---|---|
| **Buffer fan-out** (`callback`, `yuv_callback`, `buffers_to_rawcam`, `buffers_to_isp_op`, `isp_ip_cb`, `vr_ip_cb`, the thread tasks; 565-770, 1369-1469) | the pools' queues of free headers, reference counters, the workers' queues, replicas in flight | a port returns a buffer; replicate it for the sink; queue it for workers; release; refill the port | MMAL, on five or more threads | a buffer is never given to the hardware while it is read, never lost, and the port never runs dry for good |
| **Capture** (578-650, 2257-2274, 2327-2357) | `count`, the list `ptsa`..`ptso`, four time stamps | save every n-th frame; stamp; write and free the list | callback's thread and main share list and stamps without a lock | numbers, times and files agree; no use after free; nothing leaked |
| **Converter** (`converter.c`) | what one conversion has allocated and opened | read raw12, split, write two png files | called by callback for each saved frame | each way out releases what it must; no bit of a pixel is lost |
| **Metadata** (505-563) | - | list the registers in a line | called by callback for buffers of side information | what the sensor sent is what is listed, in each packing |
| **main: set-up and clean-up** (1663-2325) | components, pools, ports, threads, the header | about thirty calls that obtain or check something; four labels | all of the others | streaming starts complete or not at all; clean-up undoes what was done; main returns |
| **White balance** (1234-1367) | sums and gains | sample a frame, set the gains | reads a shared buffer; sets a parameter of the isp's port | the average comes out grey |
| **Register tables** (1548-1629, 2361-2478), **mode tables** (`*_modes.h`), **encodings** (772-820, 1772-1823) | the mode's table of registers, its Bayer order, the receiver's configuration | edit registers and fields, flip, exposure, gain; choose encoding, unpacking, packing | the table is sent to the sensor, the encoding to rawcam | what was asked for is what the sensor gets; order and depth follow |
| **Sensor bus** (`probe_sensor`, `i2c_rd`, `send_regs`, `start_`/`stop_camera_streaming`; 321-480) | the sensor's registers, over several invocations | probe, write tables | the sensor | the right sensor is found and streams exactly when it should |
| **Command line** (`parse_cmdline`, `RaspiCLI.c`) | `cfg`, the position in argv | look up, read, step over | fills `cfg` for all of the others | each option gets its own value, nothing is skipped or read twice |
| **ilclient: events and operations** (`libs/ilclient/ilclient.c`) | the free list of event records, each component's event list, its event flags | the callback that files events; waits; state changes, ports, a tunnel | OpenMAX IL components, on their own threads | no event lost, no sleep with work to do, results are true, operations end |
| **ilclient: buffers** | each component's lists of returned buffers | allocate and enable, take, return, disable and free | the same | each buffer is in one place, in order, and a port can be given up |
| `libs/vgfont`, `camcon.c`, `csi_read_test.c`, `tools/`, `ilcore.c` | | | | see [Not modelled](#not-modelled) |

### What is hard here

- *Five threads, one header.* A frame's buffer is read at the same time by the
  port's callback, the isp (through a replica) and two workers. Nobody owns it:
  a reference counter decides when the memory goes back to the hardware.
- *Nobody pumps.* There is no loop that feeds the port. Whoever releases a
  buffer calls `buffers_to_...` afterwards, and the next callback depends on it.
- *Two threads, no lock.* The list of time stamps and the stamps themselves are
  written on MMAL's thread and read by main.
- *A ladder of failures.* Any of some thirty calls may fail, with `goto`s into
  a clean-up written for the full set of resources; the converter has a smaller
  one with a `setjmp` in it.
- *Everything said twice.* An option's arity is in a table and in its case; a
  register may be in a mode's table twice; an order's colours are in an enum, in
  `get_channel` and in the sensor's flips; packed pixels are taken apart in two
  places.
- *The sensor remembers.* It keeps what a killed program sent it.
- *Flags and lists.* ilclient's waits scan a list under a lock and sleep on flags
  outside of it; flags are shared, consumed by whoever wakes, and set later than
  the list is changed.

`PROJECT.json` lists the hazards with their lines, and for each the properties
that would notice.

## Modules

### BufferLedger, Fanout, MCFanoutRaw, MCFanoutYuv

`BufferLedger` is the promise: for every buffer, who may touch its memory now.
Its steps are `Take`, `Submit`, `Deliver`, `Share`, `Drop`; a free buffer may be
taken, and only the callback may let others in.

`Fanout` is the code. The program has the same fan-out twice, for rawcam
(`callback`; sink: the isp; workers: awb and processing) and for the isp's output
(`yuv_callback`; sink: the renderer; worker: processing_yuv); one module models
both, its constants `Workers`, `PutOrder` and `Replicas` tell them apart.
`Replicas = {}` is `isp_ip == NULL` (or `vr_ip`: no preview).

| State | Code |
|---|---|
| `pool`, `ref` | `rawcam_pool->queue` / `isp_op_pool->queue`, the headers' reference counters |
| `port` | the buffers that the enabled output port has |
| `queue[w]` | `awb_queue`, `processing_queue`, `processing_yuv_queue` |
| `freeReps`, `src`, `sinkQ` | the sink's pool, what each replica replicates, what the sink has got |
| `pc[a]`, `hold[a]` | where a thread is, and its local variable `buffer` |
| `out`, `fwd`, `nextPut` | callback's `out`, its test of length and flags, the queue that is served next |

Agents interleave at MMAL calls, which lock internally: each call is a step, so
that between `mmal_buffer_header_acquire` and `mmal_queue_put`, or between a
release and the refill, all of the others may run. An actual send to the sink may
be refused (`SinkMayFail`); the code then logs and goes on with the replica
unreleased, and so does the model (the replica keeps its reference). The loops
`while ((buffer = mmal_queue_get(...)))` are `DrainGet`, `DrainSend`, `DrainDone`.

`HoldersOf(b)` is the set of those who may touch `b`; it is derived from the
state, and is what the ledger's variable is refined by.

### Capture, Converter, Metadata, MCCapture

`Capture` composes what happens on MMAL's thread between a buffer's arrival and the
fan-out with what main does meanwhile. `heap` and `node` are the list's nodes, with
garbage in a node that malloc has just returned; `Null` is 0. A frame is its number,
which is its presentation time too.

`Converter` has the steps of one conversion as actions, each with the failure it may
have and the label that leads to: `names` is callback, `input` to `picture`
`convert_raw12_to_png`, `open` to `finalise` `write_png`, run twice. `blocks` is what
is allocated or open. libpng's jumps back are failures of `WriteInfo` and `WriteRows`;
`row`, which is assigned after `setjmp` and not volatile, then has either value. A use
of an unchecked NULL is `crashed`, after which nothing moves. `Capture` starts a
conversion with each saved frame.

`Metadata` translates `decodemetadataline` as a walk over bytes, and, external, the line
a sensor sends for given registers and packing. `MCCapture` gives registers in and out of
sequence, values that look like tags, and fillers that look like the end.
`Capture_proofs` has the proofs.

### Lifecycle

`Program` is main's ladder as data: one entry for each call that obtains something
(or a group of calls that only check), with the place its failure leads to. `Obtain`,
`Fail` and `Skip` interpret it; the labels of the clean-up are actions; the worker
threads and the queueing callbacks run alongside. `bad = "return"` is a `return -1`
or `-4`. `"ignored"` is a failure that is at most logged: of brcm_header's malloc (1918), whose
outcome `header` keeps because the header file and the clean-up depend on it, and of the
"attempt" steps, which leave nothing that main looks at again: the files of the headers (1966,
1979), the black level (2033), the gains (2047), the memory of a pool's buffers (2077, 2134) and
the display region (2186).

### Awb, Raw12, MCAwb

`Sample` is the body of the two loops of `run_awb_calcs`, `SetGains` what follows
them. Frames are packed into bytes as the sensor packs them (`Byte`, external), and
`get_pixel` reads those bytes at the code's offsets, which are off by the pixel's
place in its group: the property `PixelsAreClose` says by how much that matters.
`Raw12` is how the converter splits the same bytes.

### SensorModes, SensorRegs, SensorBus, MCSensor

`SensorModes` is the data of the four `*_modes.h`: each sensor's definition and each
of its modes with its whole table. Runs of consecutive registers are written as
bursts, which `Table` takes apart again in the order of the source.

`SensorRegs` is what main and `update_regs` do to a table, one action per option in
the order of the code, and the encoding, unpacking and packing that the receiver is
told. `modRegs` is both loops over several registers, that of `-regs` and that of a field.
`modRegBit`'s loop over a field's bits is the replacement of the field. Edits
change the first entry of a register, whereas the last one counts (`Sent`).

`SensorBus` composes it with probing before and starting, streaming and stopping
after, on a sensor that outlives the program. Of the sensor's registers those are kept
that identify it and that say whether it streams (`StreamCells`). An invocation probes once, then
starts and stops the sensor twice with the same table (2257-2271), whatever became of the
transfers of the call before. A transfer may fail (`Failures`: none, one that matters, or
all), the program may be killed between two or while it sleeps, and is started again
(`Again`). `Slave` follows changes of the bus address within
a table, which the adv7282m's use.

### CmdLine

One action per way of reading a value. Options that are read alike are one kind,
and values stand for what the conversions tell apart (a number, a tuple, a good
and a bad pattern, the empty word). The correctness side (`Proper`, `HonoursAll`)
is written from the usage, not from the loop.

### IlClient

A function of the library is a sequence of steps, each a critical section, a flag
operation or a call into a component: `SetupTunnel`, `EnableTunnel`,
`StateTransition` and their like are such programs, composed as the functions call
each other, with the code's branches on results (`If`). `ClientStep` runs the first
step; `at` is where a wait is between its scan of the list and its sleep on the flags.

| State | Code |
|---|---|
| `list`, `spare` | `comp->list`; the length of `client->event_list` |
| `flags`, `mask`, `related` | `comp->event`; `comp->error_mask`; `comp->related` |
| `todo`, `at`, `ret` | what the client's thread has still to do, and the last return value |
| `asserted` | the `vc_assert`s that failed |
| `state`, `enabled`, `tunnel`, `pending` | the components (external): OMX state, port, connection, unanswered commands |

`Callback` is `ilclient_event_handler`, with the removal of duplicates and the flag
that goes to `related` too. The components answer in order, with completion or error,
free a tunnel's buffers when they leave it (`Unpopulated` at the other end), and
report events of their own. `Operation` lists the calls a client may make, in the
states their documentation allows.

### IlBuffers, MCIlBuffers

The linked lists of one component, as the code links them: `head`, `next` through
`pAppPrivate`. Every walk is a critical section and one step; the flag that follows it
is another. `order` is a history: the buffers in the order of their return. Enabling and
disabling also wait for the end of their command (1179-1258): such a wait looks for the
answer in the component's events, and if it is not there sleeps on the flags of the answers
and of errors (`CommandMask`), which it consumes when it wakes. All threads share these
flags, and what `disable` waits for while buffers come back (976) includes them. A wait that
ends a disabling by an error fails the assertion at 991 (`asserted`).
`Careful` says what the client takes care of when it disables a port: `whole`, that it
holds all that came back or none, and `alone`, that no other port's buffers are in the
list. Without either the function does not return, see below. The client's threads each
use ports of their own and take turns at enabling and disabling.

## Runs

All passing runs are exhaustive. Deadlock checking is off where the program may
come to its end or the port may fall silent, which is in all of them.

| Run | Instance | Shows |
|---|---|---|
| `fanout_raw` | 3 buffers, 3 replicas, 2 workers, refused sends; symmetry in buffers and replicas | `RefCountsHolders`, `PortIsAlone`, `PoolIsFree`, `PoolIsServed`, `SinkMissesNothing`, `LedgerSpec` |
| `fanout_yuv_live` | 3 buffers, 2 replicas, 1 worker, fair | `NeverStarved`, `Quiesces` |
| `capture` | 4 frames, every 2nd saved, 3 ticks, 24 lines of side information, all failures | `SavesEveryNth`, `TimesAreOfSavedFrames`, `TimesAreComplete`, `NoDanglingNode`, `NoLeakedNode`, `ConverterReleases`, `DelaysArePositive`, `MetadataIsDecoded` |
| `lifecycle` | all 64 sets of options, every failure, queues up to 2 | `StreamsComplete`, `NothingLeft`, `PortClosedBeforePool`, `MainReturns` |
| `awb` | 4 depths, 4 orders, up to 2 samples of 27 colours | `PixelsAreClose`, `PicturesHoldPixels`, `GreyWorldInThreeOrders` |
| `sensor` | 4 sensors or none, all modes, 2 invocations, five families of options | `EncodingIsTrue`, `FieldsHold`, `SizesHold`, `ExposureFitsFrame`, `FoundAgain`, `StreamsAsTold` |
| `cmd_line` | all command lines up to 4 of 18 words | `ProperIsHonoured`, `NothingStray` |
| `il_client` | 2 components, 2 operations, 5 event records, 1 failed command, 1 event of the components' own | `EventsConserved`, `AssertsHold`, `NoLostWakeup`, `SuccessIsTrue`, `OperationsEnd` |
| `il_buffers` | 2 output ports with 2 and 1 buffers, an input port with 1, a thread for each direction, 2 times enabled | `BuffersConserved`, `InOrder`, `NoLostWakeup`, `PortsEnd` |
| `awb_grey_world`, `sensor_edits`, `il_buffers_careless` | as above | one counterexample each, see below |

**Why these bounds are enough.** Three buffers are one at the port, one in the
callback and one that is stale in a queue or in the sink: with three, a worker can
see a newer buffer behind its own, a replica can outlive the worker and the other
way round, and the port can be dry. The liveness run has a replica less, so that frames
miss the sink and their releases refill the port alone. There is no counter in `Fanout` that grows, so
its runs are unbounded in time. In `capture` four frames are two saved ones and two
that are not, over two periods: a first and a last node, and the sentinel. Two samples
per frame suffice for `awb`, since sums are linear, and the chosen shades are black,
white and one whose low bits differ from pixel to pixel. Queues of two in `lifecycle`
let a worker leave with something still queued. Four words on a command line are two
options with values, or one that steals from the next. The option families of `sensor`
combine what meets in the same registers, with values on both sides of every
boundary (255, 996 and 1105 against min_vts, 2^16, 2^20); two invocations are one that
leaves something behind and one that finds it. In `il_client` two operations are one
that leaves events and flags and one that must not be misled by them; five records are
fewer than the events two operations may cause, so that the removal of duplicates
matters. In `il_buffers` a second port of the same direction shares list and flag, and
being enabled twice lets a port meet what an earlier use of it left; the two threads, one
for each direction, share the event flags.

Bounds that are in guards: `MaxFrames`, `MaxClock` (Capture), `MaxQueued`
(Lifecycle), `MaxSites` (Awb), `MaxArgs` (CmdLine), `MaxRuns` (SensorBus), `MaxOps`,
`MaxFails`, `MaxAsync` (IlClient), `MaxAllocs` (IlBuffers).

Each property has a mutant, a definition next to the original that a plausible slip
would have produced ("Mutant:" in the modules), under which TLC finds it violated.

## Fairness

`Fanout!FairSpec`: each thread that can go on does (weak fairness of the callback's,
each worker's, the sink's callback's and main's steps): they are kernel threads that
never wait for each other, and MMAL's locks are held for a moment only. `SinkReturn`
is fair: isp and renderer finish with a picture and return its header. Nothing is
assumed of the port, which delivers when it likes or never. `NeverStarved` is
checked without refused sends: with them the code leaks replicas, and each pins its
buffer for ever.

`Lifecycle`: main and the workers go on; the calls return (`vcos_sleep`, the timed
wait of 1000 ms). That the wait is timed is `TimeOut`, without which `MainReturns`
would be false. `CmdLine`: the loop goes on.

`IlClient`: the client's thread goes on whenever it can, and each component answers
the command that is first in its queue when it can (weak fairness). That is what
OpenMAX IL asks of a component; nothing makes one fail or report anything of its own.

`IlBuffers`: a thread that enables or disables a port goes on and the callback sets its flag
(weak fairness); one that takes or submits a buffer need not. A port
answers and returns its buffers even if other ports of the component keep the one
callback thread busy in between, which makes these steps possible again and again
rather than always: strong fairness.

## Proofs

### Fanout_proofs

It proves, for any finite pool, any finite sink's pool and any finite set
of workers served in any order:

| Theorem | Statement |
|---|---|
| `Invariance` | `Spec => []IInv` |
| `TypeCorrect` | `Spec => []TypeOK` |
| `RefCountsCorrect` | `Spec => []RefCountsHolders`: a counter is the number of users |
| `PortAlone` | `Spec => []PortIsAlone`: the hardware never writes a buffer that is read |
| `PoolFree` | `Spec => []PoolIsFree`: the pool is what nobody uses, each once |
| `PoolServed` | `Spec => []PoolIsServed`: a pooled buffer has somebody about to fetch it |
| `SinkServed` | `Spec => []SinkMissesNothing`: with as many replicas as buffers one is always free |
| `Refinement` | `Spec => LedgerSpec`: the pipeline implements the ledger |

*Assumptions.* `BuffersAssumption` (finite pools, `NoBuffer` and `NoReplica` are not
in them), `WorkersAssumption` (finitely many workers; no queue is served twice for
one buffer, which the code's two consecutive ifs guarantee), `PartiesAssumption`
(the agents are different). TLC evaluates them in every run.

*The argument.* None of the safety properties is inductive. That a counter
equals the number of holders survives a release only if the releasing thread really
is a holder, which `LocalsInv` says by program counter (`hold[a]` is a buffer exactly
where the code has one in hand). It survives `Replicate` only if a free replica
replicates nothing and a used one is in one place (`SinkInv`), and it survives
`PutAcquire` only if the worker does not have the buffer yet (`QueueInv`); and
`DrainSend` may make the port the sole holder only because a thread between get and
send holds its buffer alone (`SendInv`). `IInv` is the conjunction of these.
`SinkMissesNothing` follows from it: `ReplicaInv` says that busy replicas replicate
different buffers and none the callback's, so that if all were busy they would map
one to one into a set smaller than the pool.

The proof then speaks of holders only: each action is shown once to make one party
join, leave or pass on one buffer, or to change no holders (lemmas `...Holders`), and
one lemma per kind of change (`JoinsKeeps`, `LeavesKeeps`, `SameKeeps`,
`PassesCounts`) preserves counters, pool and port. The refinement follows from the
same lemmas: joining is `Take` or `Share`, passing on is `Submit` or `Deliver`,
leaving is `Drop`. Sequences enter through `AppendFacts`, `TailFacts` and `EmptyFacts`.

### Capture_proofs

It proves, for any number of frames, any rate and clock, whatever mallocs, files and
conversions fail, and whatever side information arrives:

| Theorem | Statement |
|---|---|
| `InductiveInvariant` | `Spec => []IInv` |
| `NodesDoNotDangle` | `Spec => []NoDanglingNode`: no thread follows a pointer to a freed node |
| `NodesDoNotLeak` | `Spec => []NoLeakedNode`: main frees the whole list |
| `TimesAreTrue` | `Spec => []TimesAreOfSavedFrames`: the lines of the time stamp file are a prefix of what was saved |
| `TimesAreAll` | `Spec => []TimesAreComplete`: all of it, if memory lasted |
| `EveryNthIsSaved` | `Spec => []SavesEveryNth` |
| `DelaysAreInOrder` | `Spec => []DelaysArePositive` |
| `ConversionReleases` | `Spec => []ConverterReleases` |

*Assumptions.* `CaptureAssumption`: the rate is positive (the code divides by it), the
bounds are natural numbers, the two switches Booleans. TLC evaluates it in `capture`.

*The argument.* That no lock is needed is `PhaseInv`: main touches the list only when the
port is disabled, which waits for callback, and callback runs only while it is enabled.
`ListInv` is the shape of the list, by its links alone: a filled node leads to an
allocated one other than the first, no two lead to the same, every node but the first has
a filled predecessor, numbers grow from node to node, and NULL is led to only when `ptso`
is NULL. Saving keeps that because the new node is none of the list's, freeing because
only the first node led to the second. Since numbers grow the list has no cycle: when
`ptsa` meets `ptso` no filled node is left (`EmptyList`, by the well-foundedness of <),
so that freeing the last node frees everything.

`OrderInv` relates it to the files: the first node is the first file's, and from a node
to the next it is one file on. When main is at the node of file k (`WriteInv`), the next
is therefore that of file k + 1, numbers being different (`FilesInv`); hence `Written`.
`SavesEveryNth` needs one fact of arithmetic, `NextToMultiple`. `ConverterInv` says what
a conversion has at each of its steps. TLC checked each conjunct of `IInv` as an
invariant of `capture`'s instance before it was proved.

### Lifecycle_proofs

It proves, for any set of options that may be given, any length of the workers' queues,
and whichever calls fail:

| Theorem | Statement |
|---|---|
| `Invariant` | `Spec => []IInv` |
| `StreamingIsComplete` | `Spec => []StreamsComplete`: components, pools, ports, queues and threads are complete when the stream starts; what an ignored failure leaves out is none of these |
| `ComponentsAreDestroyed` | `Spec => []NothingLeft`: when main returns 0 each component it created is destroyed, the header is freed, and the rawcam pool is left only if a later pool could not be created |
| `PoolOutlivesPort` | `Spec => []PortClosedBeforePool`: nor is the header freed before the port is closed |

*Assumptions.* `OptionsAssumption` (the options are among the program's) and
`MaxQueuedAssumption`. TLC evaluates both in `lifecycle`.

*The argument.* That streaming starts complete says nothing about the rungs before; the
invariant therefore does. `Climbed(k)` says that main, on rung k of its ladder, owns
exactly what the rungs below k obtain under the options given. Each rung keeps it
because a step of the ladder adds what `Obtained` adds from k to k + 1 (`ObtainedMore`),
and at the top it is `StreamsComplete` (`AllObtained`). A failure leads from a rung to a
label: `CleanUp` says of each label what is already undone there and what can still be
there, which holds at the jump because of what the rungs below the failing one can have
obtained. The program's rungs being data, tlapm looks at each of them.

### Awb_proofs

It proves, for any shade a pixel of its depth can have, a frame of any length, all
four orders and all columns:

| Theorem | Statement |
|---|---|
| `TypeCorrect` | `Spec => []TypeOK`: no average of no samples, no negative gain |
| `PixelsAreReadClosely` | `Spec => []PixelsAreClose`: `get_pixel` is off by less than the low bits |
| `PicturesAreWhole` | `Spec => []PicturesHoldPixels`: the converter's two pictures have every bit |

*Assumptions.* `DepthsAssumption`, `ShadesAssumption`, `MaxSitesAssumption`; in `awb`,
Shades holds a few values per depth, the theorem is about any.

*The argument.* A pixel's high bits are a byte of their own, and the low bits of a group
share one. `HighByte` and `LowByte` say which byte of the packed group is which, by
depth and place; `Packing` that high and low bits make up the pixel. What
`get_pixel` then reads differs from the pixel in the low bits only (`GetPixelIsClose`),
in every column, not only the first eight.

### CmdLine_proofs

It proves, for command lines of any length:

| Theorem | Statement |
|---|---|
| `Invariant` | `Spec => []IInv` |
| `AcceptedIsClean` | `Spec => []NothingStray`: no stray word is accepted |
| `ProperLinesAreHonoured` | `Spec => []ProperIsHonoured`: each option gets its own last value |

*Assumptions.* `MaxArgsAssumption`, a positive bound on a line, and `WordsAssumption`, that the
words are the model's. TLC evaluates them in `cmd_line`.

*The argument.* What the loop has read so far says nothing of where it stands: if a case
stepped over one word too many, the next option would be lost and nothing noticed. The
invariant's `InStep` says that in a proper line without `-fs` the loop always stops at an
option (or the end), that every option before that place has the value of its last
occurrence (`Honoured`), and that the line is still valid. Each case preserves it: the
word after an option that has a value is one, by `Proper`, so the step over both leads
to the next option. `NoneStray` says the same of arbitrary lines that are still valid.

### IlClient_proofs

It proves, for any number of records, any bounds and any failures of the components, and but
for the last one whether the client goes on after a failed operation or not (`Retry`):

| Theorem | Statement |
|---|---|
| `Invariant` | `Spec => []IInv` |
| `RecordsAreConserved` | `Spec => []EventsConserved`: no record is lost or listed twice |
| `NoWakeupIsLost` | `Spec => []NoLostWakeup`: who sleeps has nothing to wait for, or a flag that wakes it |
| `FreeListSuffices` | with `NumEvents > 27`, `Spec => []("event_list" \notin asserted)`: the callback always finds a free record |
| `SuccessIsNoAccident` | with `Retry = FALSE`, `Spec => []SuccessIsTrue`: an operation that returns success has had its effect |

*Assumptions.* `CompsAssumption` (two different components), `NumEventsAssumption`. TLC
evaluates them in `il_client`. The code has 100 records (`NUM_EVENTS`, ilclient.c:77),
so the hypothesis of the last theorem holds of it; the run has fewer, and there the
property is checked as a part of `AssertsHold`. `Retry = FALSE`, in the last theorem as in
the run, is a client that ends with the first operation that fails. One that goes on may find
the late answer to a command that was given up in the list of events, and the next
wait for such a command would take it for its own.

*The argument.* `EventsConserved` needs to know that removing duplicates, and taking an
event out of the middle of a list, give back as many records as they take out
(`DedupeProperties`, `RemoveAtProperties`). The programs of the client
nest without bound, so their steps cannot be enumerated: `IsProgram` says that a
program is made of a closed set of steps, and each operation's program is shown to be
one by how it is composed (`IfIsStep`, `ConcatIsProgram`).

A wait scans the lists under the lock and sleeps on the flags without. `Heeded` is what
holds in between: that from its look at the lists on, either they still have nothing for
it or a flag that it waits for is up, and (`WatchSet`) that the other component it
watches knows whom to wake. A callback keeps it since it sets the flag whenever it adds an event;
and a flag is consumed only before the lists are looked at again.

For `FreeListSuffices` the invariant gains `ListsShort`: after the removal of duplicates
the events of a list are different (`DedupeIsShort`), and there are 13 that the components report, so that
the two lists have at most 26.

`SuccessIsTrue` speaks of the end of an operation, and what makes it true is how each wait
belongs to one command. The invariant is `SInv`. Its part `OnWay` says that, while no
assertion has failed, one of these holds:

- the operation is on its way (`OnTrack`): the client is at a point of the operation's
  program, listed for each operation by `AtSetupTunnel`, `AtEnableTunnel`,
  `AtDisableTunnel`, `AtTransition`, `AtChange`, `AtPort` and so on, and the components are as they
  should be there (`Here`): each owes the answer to at most one command, its list has at most one
  answer, which is that command's, and if the answer is a success the command has had
  its effect. `Here` also has the effects known so far, and whether `PortUnpopulated` is
  masked, which else is an error that a wait would take for a failure of its command;
- an assertion is about to fail (`Accused`);
- whatever runs now, the operation ends with a result other than 0 (`Doomed`).

Steps of the components carry `Here` from one point to the same point (`HereCarried`,
`ComponentsLeaveOnWay`); steps of the client go to the next point, or to failure, by one lemma per
operation (`SetupStep`, `EnableTunnelStep`, `DisableTunnelStep`, `TransitionStep`, `ChangeStep`,
`PortStep`, `FlushStep`, `TeardownStep`, `LookStep`); and an operation starts only
where the last one left nothing to be answered (`OperationsBegin`). The paths that clean up
after a failure are not followed point by point: that they are programs which end in a
result other than 0 is enough. Since programs are lists, different points must be told apart and
put together (`ThenDiffers`, `ListsConcat`, `TenSteps`). An idle client is then at rest
(`IdleIsAtRest`), where the last operation's effects are known (`RestIsTrue`).

### IlBuffers_proofs

It proves, for any ports and buffer counts, any number of threads, and whatever clients
take care of (`Careful`), under the hypothesis `Apart`:

| Theorem | Statement |
|---|---|
| `Invariant` | `Apart` implies `Spec => []IInv` |
| `BuffersAreConserved` | `Spec => []BuffersConserved`: a live buffer is in one place, a freed one in none |
| `ListsAreInOrder` | `Spec => []InOrder`: a port's buffers are found in the order of their return |
| `NoWakeupIsLost` | `Spec => []NoLostWakeup`: who waits while a buffer of its port, or the answer to its command, is listed will be woken |

*Assumptions.* `PortsAssumption` (finitely many ports, each with a direction and a number of
buffers), `ThreadsAssumption` (each thread uses some ports), `MaxAllocsAssumption`. TLC evaluates
them in `il_buffers`.

*The hypothesis.* `Apart`: different threads use ports of different directions. The instance
satisfies it. It is needed: with one thread at each of two output ports TLC finds
`NoLostWakeup` violated, since the two share a flag that one of them consumes, and
`BuffersConserved`, since `prev` is set outside of the loop (ilclient.c:1285) and may, at the
second attempt, point to a buffer that the other thread has taken in the meantime.

*The argument.* Pointers come first. `IsList` says that a sequence of different buffers is what the links
spell out from a pointer on, and `ChainIsList` that `Chain` finds it. Each change of the
links is then a change of the sequence: taking one out of the middle (`Unlinked`), linking one
to the end (`Linked`), putting new ones before it (`Queued`), while the other direction's
list stays (`SameLinks`, `OtherLists`).

On top of it `IInv` says where buffers are (`PlaceInv`), in which order a port's are listed (`OrderInv`,
with a lemma for each of the three changes), and that one thread at a time is at
enabling or disabling (`OneBusy`), so that what it allocates is new (`FreshInv`). The
part that is easily overlooked is `PrevInv`: as long as a thread waits, `prev` is null or
in the list, and neither it nor a buffer before it is one of the thread's port. Only so is the link that
`prev` gets the right one, and only so is `prev` null when the first buffer is taken. It
survives, since between two attempts the list of a thread that is alone with its direction only
grows at the end.

For `NoLostWakeup` two more parts say why no flag is consumed that another thread needs.
`BufferWakes`: a sleeper for a buffer is alone with its direction, so nobody else consumes that
flag. `AnswerInv`: commands are given, and their flags consumed, by the one busy thread only,
and the component files an answer and sets its flag together, so from its scan on that thread
has either no answer listed or a flag up.

Steps that move no buffer share one proof (`QuietStep`), and so do steps of a thread that move
buffers of its port's direction (`MovingStep`).

### SensorBus_proofs

It proves, for any sensors and tables as the assumptions have them, any options and any number of
invocations, killed anywhere and with any transfers failing:

| Theorem | Statement |
|---|---|
| `Invariant` | `Spec => []IInv` |
| `TheSensorIsFoundAgain` | `Spec => []FoundAgain`: no sensor is taken for another one, and the one that is there is found |
| `OnlyDataIsEdited` | a table that is ready to be sent has the registers of its mode, entry by entry |
| `TablesAreComposed` | `Spec => []CInv`: at each step of main the table is the mode's after exactly the edits so far |
| `TheEncodingIsTrue` | `Spec => [](FlipsAreSpared => EncodingIsTrue)`: the receiver is told the Bayer order and the depth of what the sensor sends |
| `FieldsArrive` | `Spec => [](FieldsAreSpared => FieldsHold)`: exposure, gain and frame time arrive as asked for |
| `ExposuresFit` | `Spec => [](FrameIsSpared => ExposureFitsFrame)`: an exposure fits the frame |
| `SizesArrive` | `Spec => [](SizesAreSpared => SizesHold)`: sensor and receiver are told one size |
| `TheSensorStreamsAsTold` | `Spec => [](StreamIsSpared => StreamsAsTold)`: a start or a stop that arrives, the first or the second of an invocation, starts or stops the stream |

*Assumptions*, each of which is what the code relies on without saying so, and each of which TLC
evaluates in `sensor` on all the tables of the source:

- `SensorsAssumption`, for the probe: no sensor has a register (that the model keeps) where
  another one is asked for its identification, and what a sensor answers there is never written by
  one of its tables (`Spares`) or, as with the ar0144, is restored by its stop table whatever it
  was before (`Restores`).
- `TablesAssumption`, for the edits: the registers of the flips, the exposure, the gain, the frame
  time and the size are apart, but for flips that share a register as different bits
  (`ProperPorts`); a mode's table has each of these registers once, with a byte of data, and tells
  the sensor the size that the mode's `width` and `height` say (`ProperMode`). Where the tables
  of the source do not, `SizesHold` excepts them.
- `StreamsAssumption`, for the start and the stop: a table, sent as it is, writes every cell
  that decides on streaming and leaves it as it should, and no option but `-regs` edits an entry
  that has a part in that (`ProperStream`).
- `OptionsAssumption`: the assignments of a command line are finitely many, its numbers are
  integers.

*The condition.* The five theorems about what the options ask for hold if `-regs` spares the
registers concerned: `-regs` may write anything anywhere. `FlipsAreSpared` and the like say this of the
command line at hand and of the registers of that property alone, so that a line with `-regs` of
other registers is covered. For the stream the condition is about entries, not registers:
`modRegBit` edits the first entry of a register, and a table may write it again. The condition
is needed: with `-regs` of 0x301A the ar0144's start does not start it, and
`-regs` of a flip's register mirrors the image behind `order`'s back.

*The argument for the probe.* `FoundAgain` alone is not inductive: it says nothing of the
registers. `Identified` does: which registers are there, and that the one that identifies the
sensor holds its identification, unless the sensor streams or was not stopped in order. That a
start keeps it takes the edited table, not the mode's: `Tables` says that it has the same
registers in the same places. The lemmas behind it follow every option down to the one entry that
`modReg` changes (`DataIsReplaced`), through the loops of `-regs` and of the fields (`modRegsKeeps`,
by the least number at which the loop goes wrong, after `LoopExists` has shown that the recursive
definition defines a function). Then no entry of the table hits the identification,
whichever transfers fail and wherever the program is killed (`IdentIsSpared`). For the ar0144 it
is the stop that matters: all of its transfers arrived if `orderly` is true afterwards, and then
the cell holds what the table writes last (`IdentIsRestored`).

*The argument for the edits.* Each property relates the table that is sent to what an option
asked for several steps of main earlier, with other edits in between. So the invariant (`CInv`)
says what the table is at every step: `AfterRegs`, `AfterFps`, ... `AfterGain` are the mode's table
after one edit more each, `Composed` says at which step it is which, `Described` the same of the size,
the order and the exposure. What is left is about operators. One lemma per edit says what
register r of the table is afterwards: changed if the edit is about r (`modRegSent`, `ByteSent`),
the same if not (`modRegsSpare`, `PutSpares`); it takes that the table has r once, or the sensor
might be sent another entry than the one that was edited. Since the options' registers are
apart (`PortsApart`), what an option wrote is still there at the end (`StepsSpare`). Then
arithmetic: a field split into up to three bytes is put together again (`ThreeBytes`,
`WidthFits`), a flip toggles one bit and not the other (`OtherBitStays`), and the order of a mirrored
image is that of its mirrored quad (`OrderOfMirrored`), which is why it is enough that the code
toggles a bit of `order`.

*The argument for the stream.* `StreamsAsTold` needs `Flows`, on top of `CInv`: after a start
without a failed transfer the cells stream, and after such a stop they do not, though
`pc` has moved on. The edited table has the entries that matter as they were (`modRegLeaves` and its
kin, for each option), so that it changes the address at the same places (`SameSlave`), writes each
cell at the same entries (`SameHits`) and leaves in it what the mode's table would (`SameCell`).
What the cells held before is of no account, since each is written.

### Only model-checked

- Liveness (`NeverStarved`, `Quiesces`, `MainReturns`, `OperationsEnd`, `PortsEnd`) is
  out of the prover's reach.
- So is what recursive functions compute over all inputs: `MetadataIsDecoded`, the sums
  of `GreyWorldInThreeOrders`. The loops of `-regs` and of the fields are recursive as well, but
  there a property of one register or one entry at a time survives each round, for which the
  least-number principle is enough.
- That the tables of the source are as the assumptions of `SensorBus_proofs` say is TLC's to
  check, in `sensor`: it has no parameter.
- Of `AssertsHold` the assert of `ilclient_disable_port` (769). `ilclient_enable_tunnel` disables
  ports on its failure paths, which `OnWay` does not follow, and it does not hold for every
  `MaxFails`: if both ends fail to enable their ports, the wait for the source to be disabled finds
  the failure of its enabling and takes it for its own. TLC shows it with `MaxFails = 2`;
  the run has one failure, and what it checks is that one alone does not lead there.
- `SuccessIsTrue` is not claimed of a client that goes on after a failure (`Retry`).

## Disagreements found

Each of the first three is a run that TLC must find violated.

- **GBRG is not balanced** (`awb_grey_world`). `-awb` is "a simple grey-world AWB
  algorithm" (226). `get_channel`'s table for GBRG (1292) is {1, 3, 0, 2}, where the
  places of red, the two greens and blue in that quad are {2, 0, 3, 1}. The other three
  tables are right, which `GreyWorldInThreeOrders` checks.
- **Edits of duplicate registers do not arrive** (`sensor_edits`). `README.md:94`
  says that `-r` changes registers of the selected mode. imx219's mode 1 has 0x0162 and
  0x0163 twice (`imx219_modes.h:121-122`, `168-169`); `modRegBit` (2366) changes the
  first, and the sensor is sent the second afterwards.
- **A port may never be disabled** (`il_buffers_careless`). `ilclient.h:584-586` says of
  `ilclient_disable_port_buffers` that buffers held by IL client or the component "are
  automatically freed". If the client passes one buffer and another one has come back
  already, the function frees the first and then waits (`ilclient.c:976-981`) for an
  event that the second can no longer cause, before it looks at the list.

Others contradict a text but have no run of their own:

- `-fs` is "Fullscreen preview mode" with no parameter (230), but its case (1148) steps
  over a word. `ProperIsHonoured` excepts it.
- `README.md:109` says that `-f` works for all sensors but the adv7282m. The ar0144's
  definition has no `vts_reg` either: main edits registers 0 and 1 (1594).
- `ilclient.h:678-680` says that a sink is put back to Loaded when its tunnel cannot be
  enabled; `ilclient.c:592-613` does not. Nor is the sink's port disabled on all paths.
- ov5647's mode 4 has a height of 976, its table one of 972; imx219's mode 6 a min_vts of
  724, its table a frame of 569 lines. `SizesHold` and `ExposureFitsFrame` except them.

Seen while modelling, stated in no text of the repository:

- *Fan-out, main.* The rawcam pool is destroyed before the workers are told to quit; a
  buffer that is queued when its thread quits is never released, although the comments
  at 672, 682 and 759 rely on the thread for it; the yuv thread is never told to quit;
  the port stays enabled without `-o`; frames that arrive between the second start of the
  sensor and the stamp after it (2266, 2267) do not count as first; a refused send to the
  sink leaks the replica; a pool other than the first is never destroyed; some failures of the
  set-up are ignored, and the stream starts without what they were to set (see `StreamsComplete`).
- *Converter.* Both pictures and libpng's info structs are leaked per frame; after a jump
  back the row may be; mallocs of the row and of the names are not checked. Files of other
  depths, or with a header, are converted as if they were 12 bits without one.
- *Sensor.* The ar0144 is identified by a register that changes when it streams: killed
  while streaming it is not found again (`FoundAgain` excepts it). An `open` that fails returns -1, which `!fd` does not notice. The
  adv7282m's second mode has an empty table; its `line_time_ns` is 0, so that `-eus` divides
  by zero. A frame time over 65535 lines is cut. `-width`, `-height`, `-left` and `-top`
  edit the ov5647's registers on every sensor. `encoding_to_bpp` returns 8 for 16 bits.
- *ilclient.* A sink's port that fails together with the source's makes
  `ilclient_enable_tunnel` wait for ever (`SourceFails`); if both fail while the sink is
  Loaded, the clean-up fails an assertion (`MaxFails`); after a failed operation a late
  answer may be taken for that of a later command (`Retry`); an error callback may hang a
  waiter if its event is removed by another; `DiskFull` and `MaxFileSize` set no flag; two
  threads that wait for one direction share a flag, and one may sleep on; `prev` in
  `ilclient_get_output_buffer` keeps its value from one scan to the next; the walk at
  951 does not get past another port's buffer; enabling that fails by an error leaves
  buffers allocated. The instances exclude these by the constants named.

## Not modelled

- MMAL, VCOS, OpenMAX IL components and the hardware are external: queues are FIFO, calls
  are atomic, a header returns to its pool with its last reference, a replica keeps its
  original; a component answers in the order it was asked.
- A refusal of `mmal_port_send_buffer` by the output port (573, 699), whose status the
  code ignores. Buffers whose shared memory could not be allocated (2077): `Lifecycle` has the
failure, the fan-out is modelled with all of the pool's buffers.
- `yuv_callback`'s saving of frames: it has a count of its own and neither list nor
  converter. The two pipelines' composition through the isp.
- What is written to files, formatting, logging; the preview's geometry; the CSI timing.
- Values that crash or are undefined: `-sr 0` (a division by zero at 597), a packed picture
  of an encoding that `get_pixel` does not know (UYVY with `-awb`: an uninitialised value
  is summed at 1278). Where a model does reach such a point it stops there: `CmdLine` in
  "undefined" when argv is read past its end, `Converter` in "crashed", `IlBuffers` in
  "undefined".
- ilclient's creating, destroying and cleaning up of components, and its look-ups of ports and
  buffer sizes: straight lines of IL calls. `ilcore.c` passes calls through to the VideoCore
  and counts its users; it tests that count outside of its lock in `OMX_Deinit` (107).
- `libs/vgfont`, `camcon.c`, `csi_read_test.c`, `raw_header.h`, `tools/`, `res/`: drawing,
  stand-alone programs, data, scripts and pictures.

## Plan

Done: `BufferLedger` and `Fanout` with their proofs; `Capture` with `Converter` and
`Metadata`, and proofs about the former two; `Lifecycle`, `Awb` with `Raw12` and `CmdLine`,
with proofs; `SensorModes`, `SensorRegs` and `SensorBus`; `IlClient`, with proofs about its
events and its operations' results, and `IlBuffers`, with proofs; proofs about `SensorBus` and `SensorRegs`, from the probe over
the edits of the tables to the stream.

Next:

1. The two pipelines composed through the isp, with refused sends at the output ports.
2. An abstract specification of an ilclient wait, which `IlClient` implements.
