# TLA+ models of linux_library_libomxil

This directory is a verification project for the Nexell OpenMAX IL library in
`../src`: TLA+ modules translated from the C code, TLC configurations that check
them on small instances, and theorems about them checked by TLAPS. Line numbers
are those of the files in `../src`. In comments, "not the code" marks an operator
that changes a definition the way a mistake in the C code would; it is used only
to see that the properties notice.

## 1. The system

An OpenMAX IL *client* (a media framework, GStreamer, the test programs) asks the
*core* for a *component*, a video decoder or encoder. It sends the component
commands (state transitions, flush, port disable and enable), brings buffers to
its two *ports*, and exchanges the buffers: `EmptyThisBuffer` hands over
bitstream, `FillThisBuffer` an empty picture buffer; `EmptyBufferDone` and
`FillBufferDone` hand them back. The component works on them with the *VPU
library*, a wrapper around the V4L2 driver.

    client --- OMX_GetHandle/FreeHandle ---> core (table, one mutex)
      |                                        | dlopen, OMX_ComponentInit, DeInit
      | SendCommand: eNewState, cmdQueue, hSemCmd
      +------------------------> component
      | Use/Allocate/FreeBuffer: hBufAllocSem      command thread
      | Empty/FillThisBuffer: queues, hBufChangeSem   | hBufCtrlSem, hBufChangeSem,
      |                                               | eCmdBufThread, pthread_join
      +<- EmptyBufferDone, FillBufferDone, events -- buffer thread --> VPU library

### Inventory

| Component | State | Operations | Correct when | Module |
|---|---|---|---|---|
| Semaphore, `common/NX_OMXSemaphore.c` | `nValue`, `nMaxValue`, mutex, condition | create, pend, post, destroy | it counts, saturates, loses no wakeup, and gives no token that is not there | `NX_Semaphore` |
| Queue, `common/NX_OMXQueue.c` | `head`, `tail`, `curElements`, `pElements`, `bEnabled`, mutex | init, push, pop, look at the next, count (unlocked), deinit | it is a bounded first-in first-out queue; the unlocked count can be relied on by its only consumer | `NX_Queue` |
| Base component, `components/base/NX_OMXBaseComponent.c` | `cmdQueue`, `hSemCmd`, `hSemCmdWait`, `eCmdThreadCmd`, `eNewState` | `SendCommand`, the command thread, `EmptyThisBuffer`, getters | each command is executed once, in order; the thread ends after the last one; `eNewState` is the state asked for last | `NX_BaseComponent` |
| Decoder, `components/video/coda960_video_decoder/NX_OMXVideoDecoder.c` | `eCurState`, port flags, buffer tables and counters, two buffer queues, flags of output buffers, semaphores of the buffer thread, VPU handle, time stamps | state transitions, flush, port disable and enable, Use/Allocate/FreeBuffer, FillThisBuffer, the buffer thread, open and close of the codec, end of stream, Get/SetParameter | each buffer has one owner; records of what is held agree; every command ends; images go back to the VPU; no call dereferences what is not there; pictures fit their buffers, have the announced size and the time stamp of their frame | `NX_VidDec`; parameters, sizes and counts in `NX_DecSession`, time stamps in `NX_VidFrames` |
| AVC decoder, `NX_AVCDecoder.c`, and `NX_AVCUtil.c` | sequence found, VPU initialised | search for an SPS, reconfigure the port, decode one buffer | the VPU is initialised with a known sequence, the one of this stream | `NX_VidDec`, `NX_VidFrames` |
| MPEG-2, MPEG-4, H.263, DivX 3, VC-1, RV, VP8 decoders | configuration data, VPU initialised, a picture to hide before the first key frame | collect a configuration, initialise the VPU, put headers before frames, decode one buffer | as AVC; pictures that depend on a lost key frame are hidden | `NX_VidFrames` |
| Encoder, `components/video/coda960_video_encoder` | `eCurState`, buffer tables, two buffer queues, semaphores of the buffer thread, VPU handle, sequence header | state transitions, flush, port commands, UseBuffer and the entry points of the base component, the buffer thread, open and close of the codec, encode one picture, Get/SetParameter | each buffer has one owner; every pair of buffers is encoded; every command ends; the VPU handle exists while it is used; the VPU encodes with what the client set | `NX_VidEnc`; parameters in `NX_EncSession` |
| OpenMAX core, `core/NX_OMXCore.c` | component table, reference count, one mutex; in each component library a count of instances | init, deinit, enumerate, get and free a handle, roles | no name is read after it was freed; instances are counted whatever fails; a failed call leaves nothing; each call returns | `NX_Core` |
| VPU library, `codec/libnx_video_api` | handle, bitstream buffer, frame buffers | open, parse, init, decode, give an image back, flush, close; the same for encoding | errors are told; images handed out and given back match; memory is given back whatever fails | as far as the components notice, in `NX_VidDec` and `NX_VidEnc`; its memory in `NX_DecSession` and `NX_EncSession` |
| Memory allocator, `nx_video_api/nx_video_alloc` | kernel objects, descriptors, mappings | allocate, map, free | a failure half way gives back what was taken | `NX_VpuMemory` |
| Base port, headers, OpenMAX headers | structures | initialise | - | not modelled, no behaviour |

### What is hard about it

- Three threads meet in a component. Only part of its state is under `hBufMutex`;
  states, orders to threads and the queue counters are read without a lock.
- A semaphore token may be posted for one purpose and taken for another
  (`hBufAllocSem` counts both ports, allocation and freeing).
- The records of which output buffers the component holds are three: a queue, a
  flag per buffer, a counter. Different commands update different ones of them.
- A transition blocks the command thread until the client has done something.
- Errors of the VPU driver, and of transitions, are dropped.
- A component may be stopped and started; some state survives and should not.
- A picture and its time stamp take different ways, the one through the VPU, the
  other through a table; only sorting brings them together again.
- The core waits for a thread of the component while it holds its only mutex.
- Opening the VPU is a row of calls that take kernel memory; each may fail.

`PROJECT.json` lists each hazard with its line and the properties aimed at it.

## 2. Modules

| Module | What it is |
|---|---|
| `CountingSemaphore` | abstract: a saturating counter; whoever asks while there are tokens is granted one |
| `NX_Semaphore` | `NX_PendSem` and `NX_PostSem` step by step; implements `CountingSemaphore` |
| `NX_Semaphore_proofs` | its theorems |
| `BoundedFifo` | abstract: a bounded queue with atomic operations |
| `NX_Queue` | the ring buffer; implements `BoundedFifo` |
| `NX_Queue_proofs` | its theorems |
| `NX_BaseComponent` | commands on their way to the command thread, and the life of that thread |
| `NX_BaseComponent_proofs` | its theorems |
| `OMXComponent` | abstract: what a client of a component is promised about states and buffers |
| `NX_VidDec` | the decoder component with its three threads; refines `OMXComponent` |
| `NX_VidDec_proofs` | its theorems |
| `MC_VidDec` | scenarios for TLC |
| `NX_VidEnc` | the encoder component with its threads; refines `OMXComponent` |
| `NX_VidEnc_proofs` | its theorems |
| `MC_VidEnc` | scenarios for TLC |
| `NX_VidFrames` | the seven decode functions, configurations, the time stamp table, key frames, flush and end of stream |
| `NX_VidFrames_proofs` | its theorems |
| `MC_VidFrames` | streams for TLC |
| `NX_VpuMemory` | the allocator: what a call that fails half way leaves in the kernel |
| `NX_DecSession` | parameters of the decoder, sizes, buffer and frame counts, memory of a session |
| `NX_EncSession` | parameters of the encoder, what the VPU is told, memory of a session |
| `MC_Sessions` | the sessions of both components, for TLC |
| `NX_Sessions_proofs` | theorems about them |
| `NX_Core` | the core with several client threads |
| `NX_Core_proofs` | its theorems |
| `MC_Core` | names for TLC, and the assumption that the table keeps every registration |

They build on one another by their abstract specifications: `NX_BaseComponent`
and `NX_VidDec` use semaphores as `CountingSemaphore` and queues as `BoundedFifo`
describe them, which is what `NX_Semaphore` and `NX_Queue` are shown to implement
under the conditions met there (one thread pends on each semaphore, one thread
pops from each queue). In the same way `NX_VidDec` has commands executed one
after the other and in order, which is what `NX_BaseComponent` shows. `NX_VidEnc`
does the same but for `hBufCtrlSem`: two of its threads pend on that semaphore, so
the abstract specification does not apply and `NX_VidEnc` contains an instance of
`NX_Semaphore`, with its steps.

`NX_VidFrames`, `NX_DecSession` and `NX_EncSession` look at the same code as
`NX_VidDec` and `NX_VidEnc` for other data: a round of the buffer thread is one
step, because `NX_VidDec` has shown who may run when (`ThreadFollowsState`,
theorem `SemaphoresLiveWithThread`). `NX_DecSession` and `NX_EncSession` extend `NX_VpuMemory`;
`MC_Sessions` extends the one and instantiates the other. `NX_Core` has of a
component what the core waits for: a command thread that is created, told to exit
and joined, whose inside is `NX_BaseComponent`.

### Correspondence

Variables and actions carry the names of the C code. `PROJECT.json` maps every
definition to its lines. The steps of a function that others can see in between
are actions of their own, in sequence by a place (`pc`, `thread`, `cmdPc`,
`bufPc`); a stretch under a mutex is one action.

**NX_Semaphore.** `pc[t]` is the place of a thread in `NX_PendSem`: `entry`
(wants the mutex), `waiting` (in `pthread_cond_wait`), `woken` (signalled, wants
the mutex again). The test is an `if`, so `PendResume` decrements without another
look. `nValue` is unsigned: it wraps modulo `Modulus`. The code's modulus is
2^32; only `MaxValue < Modulus` matters. `NextSpurious` adds wakeups POSIX allows
without a signal.

**NX_Queue.** Each locked operation is cut in two after its access to
`pElements`, because `NX_GetQueueCnt` reads the count without the mutex.
`NX_DeinitQueue` is allowed only when no other thread is in an operation, as in
`ComponentDeInit`, which has joined the thread.

**NX_BaseComponent.** `client[c]` is the place of a client thread in
`NX_BaseSendCommand` (before the push, before the post), `thread` that of the
command thread, `life` that of `OMX_ComponentInit` or `ComponentDeInit`. `sent`,
`accepted` and `done` record what happened, `lastAsked` the last state the command
thread was asked for. A command is executed in one step here, with the outcomes of
`NX_VidDecStateTransition`: the component is in the state asked for, or the
transition was refused or failed and the state is as before (`Outcomes`), which the
code reports as complete all the same.

**NX_VidDec.** The client calls `SendCommand`, `UseBuffer`, `AllocateBuffer`,
`FreeBuffer`, `EmptyThisBuffer` (a test of the state, and the push, without a
lock in between) and `FillThisBuffer`. The command thread is at `cmdPc`: a
transition is as many actions as it has steps the buffer thread or the client can
see, a flush or a port command is one. The buffer thread is at `bufPc`: it pends
on `hBufCtrlSem`, then on `hBufChangeSem`, looks at its orders and at the ports, each
in a step of its own, takes `hBufMutex`, decodes at most one
input (`work`) and looks after the end of the stream (`eos`). Some abstractions:

- A buffer is its slot. `UseBuffer` takes any free slot where the code takes the
  first: more behaviours, none fewer.
- A payload is one of: configuration, frame, last frame, end without data. What
  `avc_get_video_size` finds is a choice among what the scenario allows.
- The VPU is a handle (`NULL`, `open`, `ready`) and the images it handed out and
  did not get back (`displayed`). A decoded frame may or may not yield an image.
  With `vpuFails` the driver may fail; the code then leaves the result structure
  of its caller unwritten, so any earlier image may be in it.
- `lent[b]` counts hand-overs minus hand-backs of a buffer. It is not a variable
  of the code; it is what the client sees.
- `fault` records what would end the program: a post of a semaphore that does not
  exist (an `assert`), a missing bitstream or frame buffer (a null pointer), an
  index of -1. Afterwards nothing happens.
- `OMX_EventCmdComplete` is delivered in the step that ends the command.
- `FlushSpins` takes the failure of the VPU to persist, as the loop of
  `processEOSforFlush` has no other exit then.
- Built without `ANDROID`, so `bInterlaced` is 0 and deinterlacing does nothing.

**NX_VidEnc.** The same threads and the same way of reading them: `cmdPc` for the
command thread, `bufPc` for the buffer thread, `call[p]` for the client's thread
of a port, which tests the state, pushes and posts in three steps (the base
component's `EmptyThisBuffer` and `FillThisBuffer` take no lock). `pending` is
where the two penders of `hBufCtrlSem` are in `NX_PendSem`. `hBufMutex` is held by
the buffer thread at `work`. `EncodeFrame` is one action under the mutex, with
`EncodeEos`, `EncodeFails` and `EncodeUnmapped` for its other ways out. Some
abstractions:

- Ports are never disabled, because the code cannot: `PortDisable` of a port is
  refused and of all ports does nothing (`BadPort`, `PortCommand`).
- Only whether there is a sequence header is kept of it.
- `lent` and `fault` are as in `NX_VidDec`; `lost` are the buffers a failed encode
  keeps (lines 1613-1618), which no state of the code remembers.
- `hCSCMem`, the image pictures are copied into, is there or not. With `imageFails`
  its allocation or its mapping may fail with the first picture, and the function
  goes on (lines 1549-1585). Not mapped, the copy ends the program. Not allocated,
  `encIn.pImage` is what is on the stack: the picture may be encoded, may fail, or
  may end the program. The fault `image` stands for these two ends, and `NoFault`
  excepts it, in scenarios with `imageFails` only.
- Condition variables do not wake spuriously here; `NX_Semaphore` has these.

**NX_VidFrames.** One step is a round of the buffer thread (`DecodeNext` and its
neighbours by what the round does), a flush, or a change of session. `DecodeFrame`
selects one of seven functions, each an operator of its own; `...Shows` is the
second half of each, from the picture the VPU hands out. A buffer is a time stamp
and what the code distinguishes: configuration, key frame, header, data, end of
stream. A header put before a frame is the sequence of buffers its bytes come
from. `driverKeeps`, `bits` and `pictures` are the VPU: it decodes in order, hands
out by display order and holds back `Depth` pictures at most; whether it decodes
the picture in the data it was initialised with is a choice of the driver.
`seen`, `lost` and `session` are history. The client flushes and ends the stream
only once the VPU is initialised (`NX_VidDec` has the other case).

**NX_DecSession** and **NX_EncSession.** A session is `phase`: the client sets
parameters in Loaded, allocates what the ports ask for, and the codec is opened,
prepared, used and closed. Preparing is one action with the call that fails as a
parameter (`Outcomes`, `OpenOutcomes`). `kernel` counts objects, descriptors and
mappings, `hVpuCodec` and `hCSCMem` what handle and image would give back, and in
the encoder `lost` what earlier handles would have. The image's allocation and
mapping may fail at any of their calls; after that the session may go on or the
program be `gone` (`Survives`). `asked` is what the client set, the other side of
`VpuAsAsked`; `asked.overlaid` notes an intra refresh after the frame rate. The driver is assumed to refuse a new format
on a queue that is streaming. `NoSize` and `Unset` stand for fields nobody set.

**NX_Core.** A call is one action under `gstOMXCoreMutex`; `OMX_GetHandle` and
`OMX_FreeHandle` are two, with the mutex kept in between, because they wait for
the command thread; `OMX_ComponentNameEnum` tests before it locks. `heap` holds
what was allocated for a handle. A library that does not open and a `malloc` that
fails are choices. `strings` are the duplicated names: the code frees them in the
last `OMX_Deinit` and keeps the pointers. Names and roles are tuples without
their common prefixes. `OMX_GetHandle` takes the first entry whose name begins the
name asked for, as `strncmp` with the length of the entry's name does (`EntryOf`).

## 3. Runs

Bounds are constants of the modules, given in the cfg files. A scenario
(`ScenarioType` in `NX_VidDec`) says what the client does, what is in the stream
and whether the VPU fails; a run explores a set of them.

| Run | Result | Shows |
|---|---|---|
| `semaphore` | holds | one pender: the code implements a counting semaphore, with its liveness; no token is taken that is not there, no post is missed |
| `queue` | holds | three threads, of which one pops: first-in first-out, ring and indices consistent at every point, a pop after a positive count succeeds |
| `commands` | holds | two client threads: commands in order and once, though transitions are refused and fail; the thread leaves last, `ComponentDeInit` returns, and once all is executed `eNewState` is the last state the command thread was asked for |
| `tidy` | holds | the client has its output buffers back before it leaves Executing; flushes, both ports disabled and enabled, also after a new picture size: all records of the buffers agree, every buffer has one owner, every image can come back |
| `untidy` | holds | end of stream, pause, unsupported transitions, thumbnail mode, two sessions, fill calls racing a transition, a failing VPU with a careless client: no fault of a patient client, the threads follow the state, Idle holds nothing, transitions wait for all buffers, one is reported only if it was made or refused, and the component refines `OMXComponent` |
| `live` | holds | every command ends, also when the VPU fails; an eager client is told the end of its stream |
| `encoder` | holds | the encoder with flushes, port commands, pause and restart, a second session with a sequence header, a VPU that fails to open or to encode, an image whose memory cannot be had, the end of the stream: no pair of buffers is forgotten, every buffer has one owner, no fault but that of a missing image, the component refines `OMXComponent`, and an eager client gets every input buffer back while the VPU works |
| `core` | holds | two threads initialise the core, enumerate, get and free handles of decoders and encoders, by registered names, one that only begins like one and one that is unknown, with libraries that do not open and mallocs that fail: no freed name is read, instances are counted, failures leave nothing, every call returns |
| `frames` | holds | seven decode functions, streams with reordered pictures, with and without configuration, headers and key frames, a flush, two sessions that may change the codec: stamps leave in order and with their picture, pictures before a key frame are hidden, the VPU starts with the configuration of its stream, the end of the stream comes last |
| `sessions` | holds | any order of parameters and any number of sessions, any call failing: pictures fit and have the announced size, the VPU has the frames it needs and no more than fit in its handle, the encoder encodes with what was set last, memory is accounted for, also when the encoder's image cannot be had |
| `returned_twice` | violated | disable and enable the output port: a returned buffer is filled and returned again |
| `encoder_start` | violated | Loaded to Idle waits for ever for a token the buffer thread took itself |

The violations are the findings of `PROJECT.json`, each against a comment or a
header of the repository. Each module states a type invariant `TypeOK`; it is proved
for all but `NX_DecSession` and `NX_EncSession`, where it is a part of the
invariants `DecTypes` and `EncInv`.

### Why the bounds are enough

- `semaphore`: one pender is how the decoder uses each of its semaphores. Posts
  are not counted, so posters need no identity. Values 0 to 128 are all reached.
- `queue`: capacity 2 wraps the ring and has an empty, a full and a partial
  state; two pushers and a popper give each pair of operations. Theorems cover
  the rest.
- `commands`: `QueueMax = 3` with at most 2 unfinished commands is the largest
  number for which the properties hold: with 3, the token of `ComponentDeInit`
  finds no room and the thread that is joined never wakes. Four commands
  let the queue fill, drain and fill again. Theorems cover the rest.
- `NX_VidDec`: two output buffers are enough to have one held and one shown, with
  `MinFrames = 1` both sides of `curOutBuffers > minRequiredFrameBuffer` are
  reached. Two images let the VPU hand one out while another is shown. One input
  buffer suffices where inputs are only counted. `MaxChange` is below what the code has (2048), so the
  saturation of `hBufChangeSem` is reached, which the code can hardly do.
  `MaxUsable` stops a client that adds buffers for ever.
- `NX_VidEnc`: two buffers on each port, so that a flush or a header can take one
  and leave one, and queues can have lengths 0, 1 and 2 against each other.
  `MaxChange = 5` is just above `QueueMax = 4`, the least the assumption allows,
  and is reached: saturation loses no pair of buffers. In the code it is 2048 against 128.
  Commands that are refused or wait are given in Executing.
- `core`: two threads give each pair of calls; four handles reach the limit of
  three decoders and of two encoders, with one more that is refused; the table is
  the real one. `Reinit = FALSE`: a client that calls `OMX_Init` after its last
  `OMX_Deinit` meets the divergence of section 5. The theorems cover the rest.
- `frames`: streams of six frames with `Depth = 2` are longer than what the VPU
  holds back, twice; a table of 5 entries is filled by neither (the code's 128 are
  more than frames in flight), but for an AVC stream without a header, whose
  frames are dropped with their stamps left behind, as in the code.
  Two sessions and one flush in each suffice for state that survives.
- `sessions`: sizes below and above 720p, one odd and of the most macroblocks the
  decoder takes, and one beyond it, which is refused. `MinFrames = 8` is the most
  that fits: 24 output buffers and 8 make the 32 places of the handle.
  `Redefines = TRUE` and `AllPorts = FALSE`: see section 5. `MaxLost` and the
  bound on `encKernel` end behaviours that lose a buffer in each session.
- Buffers and images are symmetric; runs with liveness properties use no symmetry.

Deadlock is not checked where the client may stop: it has sent its script, and
nobody is obliged to go on. Nor is it in `sessions`, where the program may be gone,
nor in the other models after a fault. That nothing waits for ever is
`CommandsComplete` and `DeInitReturns`.

### Fairness

Each thread takes its next step if it stays possible (weak fairness): POSIX
schedules it. A call the client has begun ends. A client that asked for a
transition out of Loaded or into it brings or frees its buffers, as OpenMAX
obliges it to; otherwise nobody has to send a command or hand over a buffer.
`EosReported` and `InputReturned` are about an *eager* client, which fills any
buffer it gets back (weak fairness of `FillThisBuffer`), and a VPU which has
finitely many delayed pictures (strong fairness of `EosMark`, the step in which
the VPU says it has no more: the choice between a picture and none is the VPU's).
`NX_Core`: a command thread goes on, and so does a caller nothing holds back; no
fairness for a client that might call.
`NX_VidEnc` has the same fairness as `NX_VidDec`: its threads, the calls begun, the buffers
brought or freed in a transition, and for `InputReturned` an eager client.

## 4. Proofs

Theorems hold for every value of the constants that satisfies the named
assumption of the module, and the condition in their statement.

**NX_Semaphore_proofs** (assumption `SemaphoreAssumption`: initial value within
the maximum, maximum below the modulus). The condition is `SinglePender`, at most
one thread pends. `IInv` joins `TypeOK`, `WokenHasToken` (a signalled thread has
a token: with a single pender nobody can take it first) and `NoMissedPost`. From
it: `TypeCorrect`, `NeverWraps`, `OnlyRealTokens`, and `ImplementsSemaphore`
(every step maps to a step of `CountingSemaphore` or a stutter; safety part).
`NoPostIsMissed` holds even with spurious wakeups, after which the others fail:
the counter wraps to its largest value.

**NX_Queue_proofs** (`QueueAssumption`). The inductive invariant adds to `TypeOK`
and `RingConsistent` that the mutex has at most one holder, which is the thread
inside an operation, that `tail` is `head + curElements` modulo the capacity but
for the operation under way, and what each place of an operation has read. From
it `TypeCorrect`, `RingStaysConsistent`, `ImplementsFifo` (the refinement mapping
`Contents` reads the ring from head to tail; the two halves of an operation map
to a stutter and a step) and, if one thread pops, `CountIsReliable`.

**NX_BaseComponent_proofs** (`CommandAssumption`: finitely many client threads,
and they keep fewer commands unfinished than the queue takes). The argument
counts. `Tokens`: tokens of `hSemCmd`, plus the one the thread has taken, plus
the posts still to come, are the commands in the queue plus one once
`ComponentDeInit` has posted. `Accounted`: every command sent is executed, in
execution, queued, or about to be pushed. So the queue has room for each push and
the semaphore for each post, a pop never finds the queue empty, and the test of
the exit order succeeds only with the token of `ComponentDeInit`. From it
`TypeCorrect`, `ExecutesInOrder`, `ThreadLeavesLast`. `NewStateFollowsCommands` adds
that the last state command under way (about to be pushed, queued or in the
thread) is the one `eNewState` names: the client sets it before the push. It is
about what was asked, whatever came of it: a refused transition leaves `eNewState`
ahead of `eCurState`, as section 5 says.

**NX_Core_proofs** (`CoreAssumption`: finitely many threads; `TableAssumption`: what
`BuildTable` computes is a table of entries, which has no parameter and so is
evaluated by TLC in the run `core`). `IInv` adds to `TypeOK` and `InstancesCounted`:
a handle that is made has an entry (`Entered`), there is no table before it is
built (`Built`), a thread between the halves of a call has the mutex (`Owner`), the
handle being made is the only one and was let in below the limit (`OneAtATime`: this
is why the count may be raised in the second half without a new test), and a
handle that was not made has no memory (`Clean`). From it `CoreTypeCorrect`,
`InstancesAreCounted` and `FailuresLeaveNothing`. `NamesAreSafe` needs a second
invariant, `Users`: the reference count is the number of `OMX_Init` calls to be
undone, the names are freed only when there is none, and a thread inside
`OMX_ComponentNameEnum` has one. It holds for clients with `Reinit = FALSE`.

**NX_Sessions_proofs** (`SessionAssumption`, `EncAssumption`: sizes are positive,
rates and counts are numbers). The state is that of a session of either component,
and the invariants follow the memory. `DecInv`: what `kernel` counts is what the
handle would give back plus what the code is known to lose (`Memory`), with flags
that say in which phase fields are set (`Flags`). `EncInv` is the same for the
encoder, and that what was set last is in the fields `EncoderOpen` reads
(`Settings`). From these `MemoryIsAccounted` and `VpuIsAsAsked`, for any client;
memory is accounted for at every point, the failed image of the encoder and the
handles overwritten after a failed `EncoderOpen` (`lost`) included, and the frame
rate is as asked if no intra refresh was set after it (section 5 has the other case).
`EveryPictureFits` and `PictureIsAsAnnounced` need `Agree`: the size the VPU was
initialised with is the port's. It is kept by clients that define their ports anew
in each session (`Redefines`); section 5 has the others. `FramesAreCounted` needs
`~ AllPorts` and a minimum such that 24 more fit into the handle; with either
missing the code asks for too many (section 5).

**NX_VidEnc_proofs** (`VidEncAssumption`). What a client must observe is stated as a
state predicate `P`, and the theorem is `Spec /\ []P => []Property`. All scenarios of
the run `encoder` satisfy `Careful` and `AheadOfHeader`, and all but the one whose VPU
cannot be opened `NotTwiceLoaded`; TLC has checked that, and each invariant below,
before the proof.

- `Careful`: no Executing, Pause or port command in Loaded, and no transition from
  Pause to Idle. From `Phases`, which says what exists at each place of a transition
  (semaphores from the creation of the thread to its end, the VPU handle longer;
  no call is under way during a transition; no buffers in Idle and Loaded):
  `CarefulClientSeesNoFault`: the only fault is that of an image, where its memory may
  fail. Section 5 has what happens after Pause to Idle.
- `CarefulClientIsNotForgotten`: `Rounds` is an inequality kept while `hBufChangeSem`
  exists. Pairs of queued buffers, plus one if the buffer thread will drop its next
  event, are at most the rounds to come plus the dummy event the command thread
  owes. It holds at saturation because a queue is shorter than `MaxChange`.
- `AheadOfHeader`: a second output buffer is queued when the sequence header is due.
  From `Apart`: no buffer is twice in a queue, a lost one in none, one that is about
  to be pushed in neither. The proof counts occurrences in the sequence handed back;
  for a sequence without duplicates there is one (`Occurrences`).
- `KeepsItsPromiseAlways`: every step is a step of `OMXComponent` or a stutter. What
  this needs is that a transition out of Loaded has all buffers and one into it
  none, though all that is waited for is two tokens of one semaphore, which say
  neither which port posted them nor why. `TokensCount`: tokens, with those taken
  by the transition, are in Loaded at most the ports that are full, elsewhere at
  most those that are empty. The clients are `Careful`, `AheadOfHeader` and
  `NotTwiceLoaded` (section 5: after an `EncoderOpen` that failed).
- These conditions speak of behaviours. The theorems `Scripted...` replace them by
  conditions on the scripts, constants that can be read off `Scenarios`. `AllCareful`:
  for each place in a script there is a set of states the encoder may be in, and each
  command offered there is accepted in all of them. `Due` is the set of states the
  encoder may come to rest in: both ends of a way to Idle if the VPU may refuse to
  open. No step but `SendCommand` adds to it, so `Following` is an invariant and
  `Careful` holds (`ScriptsAreCareful`). `AllCarefulOnce` bars Loaded as well
  (`ScriptsAskOnce`). `AllAhead`: the client of a stream with a header keeps two output
  buffers ahead of its input, flushes no output and does not end the stream; by `Led`
  there is a second one when the header is due (`HeaderHasRoom`). All scenarios of
  the run `encoder` satisfy `AllCareful` and `AllAhead`, and all but the one with
  `openFails` `AllCarefulOnce`.

**NX_VidFrames_proofs** (`VidFramesAssumption`). `Types` extends `TypeOK` to the
history and the VPU, `Empties` says when the VPU holds nothing (before it is
initialised, after a flush, once the end was signalled). With `Accounted`, every
frame taken is in the VPU, was shown or was given up: `EosComesLastAlways`. With
`KeyNoted`, `isOutIdr` stands for an I picture decoded since the flush:
`NoPictureBeforeKeyAlways`. Both hold for any stream. `StampOfPictureAlways` needs
streams whose frames have different stamps (`DistinctStamps`): `Apart`, no frame to come
has a stamp of one in the VPU, and `Paired`, the table has the stamps of the
pictures in the VPU, each once, as long as none was lost.

`InitHasConfigAlways` needs streams with one configuration at most (`SingleConfig`).
`ConfigKept`: before the initialisation the data kept holds the configuration of the
session and no second one follows; after it the data handed to the VPU holds just that. The
operator `Configs` collects by recursion over the stream; the lemmas about it are
proved by hand, from the least number at which one would fail (`SmallestOf`).

`StampsInOrderAlways` needs streams in which the configuration comes first and
stamps are apart (`OrderlyStreams`), and `[]TableHasRoom`: a frame that goes to the VPU
finds a free entry. With a table of two entries TLC finds `StampsInOrder` violated,
so the condition is needed; in the run `frames` only a DivX 3 stream whose
initialisation fails again and again fills the table. A picture leaves with
the smallest stamp of the table, whichever frame it came from. So the proof needs
that a picture the VPU will still show has an entry not later than itself, and
different pictures different ones (`Leads`, an injection of the pictures into the
table), and that no stamp still in the table or to come is before the last one
shown (`InOrder`).

**NX_VidDec_proofs** (`VidDecAssumption`).

- `TypeCorrect` and `SemaphoresLiveWithThread` hold for any client. `Phases` says
  from which state each place of a transition is reached, and that thread and
  semaphores exist outside Loaded but for the end of the way into it.
- `ReportsAreReachedOrRefused`, for any client, also one that does not wait for a
  report: `Reported` is `ReachedOrRefused` at all places outside a transition, each of
  which ends with a report (`Phases` tells in which state it began).
- `OrderFollowsState` for a component that does not change between Idle and Pause
  (`NeverIdleAndPause`; section 5: those changes leave the thread as it was).
- `TidyRecordsAgree` and `TidyBuffersOnOneSide` for clients with `TidyUse`: they take
  their output buffers back before they leave Executing, send one command at a time,
  do not end the stream, and do not disable the output port alone; in thumbnail mode
  they are free. Each condition keeps out a divergence of section 5 or the run
  `returned_twice`. `TidyState` says no output buffer is held once Executing is to be
  left, which is why the command that forgets to empty the queue finds it empty;
  `OutRecords`: the queue, the flags and the counter describe the same set.
- `NothingHeldAtRest` adds `AsksInOrder`, transitions the component supports without
  those between Idle and Pause. `Sync`: the state asked for is the present one or on
  its way. `Emptied`: the queues are empty out of Executing and Pause, and no input is
  between its test and its push.
- `EveryImageReturns` for tidy clients, a VPU that works, and no output buffer
  that shows an image of an earlier session when the codec is opened (`FreshOpen`;
  section 5: `outBufferValidFlag` survives). `ImagesShown`: the flags name the images on
  display, each once.
- `PatientClientSeesNoFault` for tidy clients that ask in order, enable ports outside
  Loaded (`EnablesOutOfLoaded`), and open a VPU handle with `bInitialized` and the
  flags clear (`OpensFresh`; section 5 has what each of the three keeps out; the VPU
  may fail). `Armed`: a handle that is open but not initialised has no image flagged
  and `bInitialized` clear, so no path that needs its bit stream buffer is taken; a
  queued output buffer is registered, so `FindBufferIdx` finds it; and a flush of a
  patient client is queued only once the stream is initialised.
- `BuffersAreAwaited` for clients that disable no port, by themselves or through a new
  picture size (`AllEnabled`), and for any VPU. `Awaiting` and `TokensCount` are the
  counting argument of the encoder, with `hBufAllocSem` shared by two ports and by the
  buffers that come and those that go. A client that frees and brings buffers in
  Executing leaves tokens over, and TLC finds `BuffersAwaited` violated (section 5).
- `KeepsItsPromiseAlways` for tidy clients that ask in order and disable no port: every
  step is a step of `OMXComponent` or a stutter. It rests on the theorems above: the
  transitions on `BuffersAreAwaited`, Idle without buffers on `NothingHeldAtRest`, and
  the reading of `lent` as the union of the queues on `TidyBuffersOnOneSide`.

- `AsksInOrder`, `EnablesOutOfLoaded`, `OpensFresh` and `FreshOpen` speak of behaviours.
  Under `AllOrderly` the first two follow from the scripts alone (`ScriptsAreFollowed`):
  for each place in a script there is a set of states the decoder may be in, and every
  command offered there may be asked for in all of them. A tidy client sends one
  command at a time, so by `Sync` the state asked for is the present one: `InPlace`.
  The scripts of `AllOpenOnce` also open the decoder once at most. Until then
  `bInitialized`, the flags and the images are as `OMX_ComponentInit` left them
  (`Untouched`), so the one handle is opened afresh (`OpensAfresh`). The theorems
  `OrderlyClient...` and `EveryImageOfOneSessionReturns` are those above for such
  scripts, with no condition on behaviours left. `SessionsAreOrderly` shows
  scripts that satisfy them, of any length: up to Executing, there any flushes and
  port commands, and down to Loaded again; those of `TidyScenarios` are of this kind.

`TidyScenarios`, the scenarios of the run `tidy`, satisfy `AllKeptAndSound`, and their
behaviours `AsksInOrder`, `EnablesOutOfLoaded`, `FreshOpen` and `OpensFresh`; the first of
them and all `UntidyScenarios` satisfy `AllEnabled`. TLC has checked the invariants on
them before the proof. The run `untidy` checks `NoFault` and `KeepsItsPromise` for
clients these two theorems do not speak of.

Every safety property of a passing run is the subject of a theorem, for the clients
named there. Only model-checked: all liveness, since temporal proof under fairness
and `ENABLED` are beyond the prover.

## 5. Divergences

Met while modelling, and kept out of the runs by the scenarios and constants,
because a run would stop at them. In the semaphore:

- Two penders: `NX_PendSem` tests with `if`, so a pender overtaken between its
  signal and its wakeup takes a token that is not there, and the unsigned value
  wraps (line 67). `NX_VidEnc` reaches this on its way to Idle; the theorems
  assume one pender.

In the decoder:

- Executing, Idle, Executing opens a second VPU handle while `bInitialized` stays
  TRUE (line 1891): with
  `RestartScenarios` of `MC_VidDec`, `NoFault` is violated.
- Each round of the buffer thread costs a token of `hBufChangeSem`, also one without
  an output buffer (line 1704): with too few output buffers for a while, the thread
  later sleeps while inputs and outputs are queued.
- Executing to Idle returns the flagged output buffers and leaves them in
  `pOutputPortQueue` (line 1333); `tidy` clients flush before they stop.
- A flush or an end of stream before the first frame was decoded dereferences the
  missing bitstream buffer (`nx_video_api.c:878`); `patient` clients wait.
- `outBufferValidFlag` survives `closeVideoCodec`: the second session gives images
  of the first one's handle back (line 1098).
- `PortEnable` in Loaded posts `hBufCtrlSem` before it exists (line 1629).
- Executing to Pause leaves the buffer thread running, where the comment at lines
  1681-1682 has it paused.
- A refused transition is reported as complete (line 1498), although the comment at
  line 1485 promises the event to a component that "successfully transitions": with
  `UntidyScenarios` of `MC_VidDec`, `CompletedIsReached` is violated. A client told of
  Executing may have a component in Loaded. `ReachedOrRefused`, in the run
  `untidy`, says that there is no other case.
- `PortDisable(OMX_ALL)` leaves `outUsableBuffers` as it is (line 1593): with
  `AllPorts = TRUE` the VPU is asked for more frames than `MAX_DEC_FRAME_BUFFERS`,
  which nobody checks (`FramesCounted` is violated). The same without it for a
  minimum above 8.
- A VPU failure during a flush keeps the command thread in `processEOSforFlush`
  for ever, with `hBufMutex` held.
- In thumbnail mode a flush leaves the drained images with the component.
- An input buffer whose state test passed before a transition to Idle began is
  pushed after all were returned (`NX_OMXBaseComponent.c:450`); scenarios without
  `overlap` of the input port do not send the command meanwhile.
- Ports repopulated in Executing leave tokens in `hBufAllocSem` (lines 893, 1027),
  and the transition to Loaded takes them and does not wait (line 1237): with
  `Reconfigured` of `MC_VidDec`, `BuffersAwaited` is violated.
- Pause to Idle returns no buffer, and Idle, Pause, Executing never starts the
  buffer thread, where the comment at line 1679 has it started.

In the decoder's parameters and sessions:

- A size beyond 1920x1088 is answered with an error after everything was changed.
- `SetParameter` does not look at the state, nor at `nBufferCountMin`; the semi-planar
  format is accepted and planar pictures are delivered.
- A codec tag of an earlier role survives and overrides `videoCodecId` for good
  (`CodecTagToMp4Class`); `bXMSWMVType` is never reset.
- Profile and level queries divide by the number of profiles for the level (lines
  388-437); the MPEG-2 and H.263 parameters are refused whatever they say, by `!=`
  joined with `||` (lines 618-665).
- The second AVC session takes its size from the input port, not from the stream
  (line 1851, with a FIXME): with `Redefines = FALSE`, `PictureAsAnnounced` fails.
- `nBufferCountActual` stays when a new picture size changes the other fields.
- `NX_V4l2DecClose` never frees the bit stream buffer, so the Loaded state holds
  memory (`nx_video_api.c:571-613`, against `OMX_Core.h:69-71`).

In the decode functions:

- An AVC stream whose first 128 frames have no header fills the time stamp table;
  further stamps are dropped (line 2098).
- Configuration buffers that follow the initialisation push a time stamp in MPEG-2,
  MPEG-4, VC-1, RV and VP8, with no picture to take it.
- The end of stream flag is a part of a time stamp, so a picture may follow the
  flagged one (line 2226, against `OMX_Core.h:292-294`); the empty buffer after it
  does come last.
- `processEOS` does not look at `isOutIdr`; a flush of the input port alone empties
  the table while the VPU keeps its pictures.
- The extra data of a VC-1 session is never cleared; a second configuration
  overwrites the first in MPEG-2, MPEG-4 and VC-1.
- A failed initialisation does not end the buffer thread for DivX 3 as for the others.
- `CopyImageToBufferYV12` copies the first chroma row again and again when the
  stride is not the width.

In the core:

- `gstNXOMXInit` is never reset, so `OMX_Init` after the last `OMX_Deinit` leaves a
  table of freed names (line 110): with `Reinit = TRUE`, `NoFault` is violated.
- `OMX_FreeHandle` joins the command thread with the core's mutex held: a client
  that calls the core from a callback of that thread blocks both.
- The result of `pthread_create` is not looked at; without a thread `OMX_GetHandle`
  waits for ever with the mutex held.
- `SetCallbacks` overwrites the pointer to the block `NX_BaseComponentInit`
  allocated; libraries are never closed; a name that only begins like a registered
  one gets a handle (line 267, `EntryOf`);
  `OMX_GetComponentsOfRole` does not look at the size of the caller's array.

In the encoder:

- Pause, Idle, Loaded closes the codec under a buffer thread that was never told to
  stop (lines 1011-1033, comment at 1026-1027): with `PausedScenarios` of
  `MC_VidEnc`, `NoFault` is violated.
- `OMX_IndexParamVideoIntraRefresh` falls through into the frame rate and puts it
  back to the default (lines 694-731): `FrameRateAsAsked` of `MC_Sessions` is
  violated with the constants of the run `sessions`. The header says of that index
  (`core/inc/OMX_Index.h:160`) "reference: OMX_VIDEO_PARAM_INTRAREFRESHTYPE", which
  has no frame rate.
- The configuration of the frame rate is documented in Q16 format
  (`core/inc/OMX_Video.h:940-952`) and is passed on as whole frames per second (line 728).
- That the memory of the image cannot be allocated or mapped is noticed and ignored
  (lines 1549-1585): the program ends, or a picture is encoded from what is on the
  stack.
- The parameters of MPEG-4, AVC and H.263 are stored, AVC over those of MPEG-4
  (lines 653-663), and never reach the VPU.
- A failed `EncoderOpen` leaves the handle and its bit stream buffer in Loaded, and
  the next one overwrites the pointer.
- The sequence header, with one output buffer queued: the second pop fails and the
  buffer is handed back twice (lines 1601-1603); `ahead` clients bring two first.
- A failed encode hands back neither buffer (lines 1613-1618): `lost`.
- After an `EncoderOpen` that failed, a client that asks for Loaded, where it still
  is, may free its buffers; the tokens of `hBufAllocSem` this posts let its next
  transition to Idle pass without any (`NX_OMXBaseComponent.c`, `NX_BaseFreeBuffer`;
  `NotTwiceLoaded`).
- A failed `EncoderOpen` is reported as complete, and the component stays in
  Loaded without semaphores; a client that believes it and hands over a buffer
  runs into the assert of `NX_PostSem`.
- `bSendCodecSpecificInfo` is never reset: the second session sends no header.
- `PortDisable(OMX_ALL)`, `PortEnable` and `MarkBuffer` wait for `hBufCtrlSem`,
  which nobody posts in Executing: they never end. In Loaded they stop at the
  assert of `NX_PendSem`.
- Idle, Pause, Executing never starts the buffer thread; the comment at lines
  1216-1217 has it started.
- Callbacks of `EncodeFrame` are passed `pEncComp` where the others pass `hComp`
  (line 1498).

## 6. Not modelled

- The bytes of headers and pictures: which buffers a header comes from is modelled,
  not its layout; `avc_get_video_size` is a choice among its results.
- `GetParameter` and `GetConfig` beyond what a client needs for its buffers; profile
  and level, port formats and the codec parameters, which are stored or compared
  with tables and used by nothing else.
- Thumbnail mode in `NX_VidFrames` and interlaced pictures: the code for them needs
  `ANDROID` or extra data nobody sends without it.
- The Linux driver: what it does behind `ioctl` is external.
- Calls of the client from inside a callback: callbacks run with `hBufMutex` held,
  so `FillThisBuffer` from `FillBufferDone` blocks for ever; the clients modelled
  wait for the callback to return.
- Memory of the process that is not available, but for the core's `malloc` calls.
- `OMX_SetupTunnel` and `OMX_GetContentPipe`, which are not implemented.

## 7. Plan

Done: 1 common (semaphore, queue) with proofs; 2 base component with proofs;
3 the decoder component with its abstract specification; 4 the encoder component;
5 the core with proofs; 6 the decode functions and time stamps; 7 parameters,
sessions and memory.

8. proofs about the decoder, the encoder, the decode functions and the sessions,
the refinement of `OMXComponent` by both components among them.

What is left is liveness, which stays with TLC, and the parts of section 6.
