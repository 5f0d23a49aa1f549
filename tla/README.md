# A formal model of the mido camera stack

This directory holds TLA+ specifications of `camera/QCamera2`, the camera HAL of
the Xiaomi mido device tree, with the TLC configurations that check them and
TLAPS proofs about them. Paths below are
relative to `src/camera/QCamera2/` unless they begin with `src/`.

- [The system](#the-system)
- [What is modelled](#what-is-modelled)
- [The modules](#the-modules)
- [Checks](#checks): runs, bounds, fairness
- [Where code and documentation disagree](#where-code-and-documentation-disagree)
- [Proofs](#proofs)
- [Not modelled](#not-modelled)
- [Plan](#plan)

To check a module: `tlc -config X.cfg M.tla`; to check the proofs: `tlapm M_proofs.tla`.

## The system

The tree is a device configuration (build files, overlays, permissions) around
a few native programs. The camera HAL is the only one with substantial logic of
its own, about nine tenths of the C and C++. From the kernel upwards:

| Component | State it keeps | Operations | Talks to |
|---|---|---|---|
| **Poll thread** `stack/mm-camera-interface/src/mm_camera_thread.c` | `poll_entries`, `poll_fds`, a pipe, `status`, `state` | launch, release, add and delete a descriptor (synchronously or not), commit | kernel descriptors; callbacks into streams and the camera object |
| **Command thread** same file, with `stack/common/cam_queue.h`, `cam_semaphore.h` | `cmd_queue`, `cmd_sem`, `is_active`, `running` | launch, stop, destroy, release; enqueue and post by its users | one callback per command, into stream, channel or camera |
| **Stream** `mm_camera_stream.c` | state of a seven-state machine, `buf_status` (references, `in_kernel`), `queued_buffer_count`, callbacks | one handler per state; data notification, buffer return, mapping | kernel (ioctl), poll thread, command thread, the bundle's channel, a linked channel |
| **Channel** `mm_camera_channel.c` | state, bundle and its super buffer queue, `pending_cnt`, expected and good frame ids, frame sync with the other camera | add/delete stream, start, stop, request, cancel, flush, buffer return | its streams under `ch_lock`, two command threads, the HAL's callback |
| **Camera object** `mm_camera.c`, `mm_camera_interface.c`, `mm_camera_sock.c` | reference count, session, event callbacks, `evt_rcvd` | open, close, parameters, events; handle lookup | `g_intf_lock` to `cam_lock` to `ch_lock`, each taken before the previous is dropped |
| **JPEG interface** `stack/mm-jpeg-interface` | job queues, sessions, abort state | create, start job, abort, destroy | OMX component, job manager thread |
| **2D library** `stack/mm-lib2d-interface` | a handle | init, run, deinit | vendor library |
| **HAL1** `HAL/` | the API state machine with its two queues, result lists, post processing queues, the muxer of two cameras, stream threads, parameters | the camera device API | framework callbacks, channels, JPEG |
| **HAL3** `HAL3/` | pending requests, pending buffers, flush state, channels | configure, request, flush | framework results, channels |
| **HAL utilities** `util/`, `QCamera2Factory.cpp` | queue, command thread, flash and torch ownership, performance locks | | both HALs |
| **OMX core** `src/camera/mm-image-codec` | table of components and instances | get/free handle | vendor components |
| **USB camera** `src/camera/usbcamcore` | one preview thread and its messages | a second, small camera HAL | V4L2 |
| **Others** `src/biometrics`, `src/consumerir`, `src/lineagehw`, audio, GPS, init files | almost none | forwarding | device nodes, vendor modules |

A frame travels like this. The **poll thread** finds a stream's descriptor
readable and calls `mm_stream_data_notify()`, which dequeues a buffer, counts
the references about to be handed out, and hands the buffer to the bundle's
channel, to a linked channel and to the stream's own **command thread**. The
channel's command thread matches frames of several streams into **super
buffers** and passes them up. Whoever is done with a buffer calls
`mm_stream_fsm_fn(QBUF)`, from any thread and without the channel's lock; the
last one queues it in the kernel and, if the kernel had none, registers the
stream with the poll thread again. Starting and stopping run on a control thread under
`ch_lock`, against all of the above.

What is hard in it:

- threads are stopped by a command in their own queue and joined, some of them
  while the stopper holds locks;
- synchronous and asynchronous callers share one pipe, one `status` and one
  condition variable of the poll thread, and `poll_entries` has no lock;
- references are counted in one critical section and handed out, checked and
  given back in others, against STOP, failed ioctls and buffers that never come back;
- frames arrive with gaps, at different paces and in different orders per
  stream; metadata moves the expected frame back and forth while super buffers
  are half full;
- a channel's start can fail after any of its steps, with threads and streams
  already running, and its stop joins threads that still give buffers back;
- a call to the camera object holds one lock while it waits for the next, and
  some wait for the daemon's answer inside;
- HAL1 has one state machine thread, but every state treats every call its own
  way, calls wait for answers that only a later event gives, and a
  live snapshot runs in a thread of its own;
- HAL3 answers a request in up to four parts (shutter, metadata, buffers,
  errors) from different threads, while flush and a restart of the sensor answer
  all of them at once;
- a picture's frames pass four queues and three threads before they are a JPEG,
  and a stop may come at any point;
- the layout of a frame is computed by the stack, twice for some streams, and
  used by consumers that make their own assumptions.

`PROJECT.json` lists the hazards at their lines, with the properties that would
catch them going wrong. What makes each part correct:

| Component | Correct means |
|---|---|
| Command thread | every accepted command is dispatched once, in order, before a release returns; nobody touches it before launch or after release |
| Poll thread | a synchronous delete is a barrier; a synchronous command has been consumed on return; no caller hangs; release leaves no thread |
| Stream | `buf_refcnt` is the number of references out; a buffer in the kernel is nobody else's; buffers come back; stop leaves nothing behind |
| Super buffer queue | each frame is in one place; matched before unmatched; bundles agree and go up in order; bounded depth |
| Channel | a failed start undoes what it did; a stop leaves no thread, no frame and no buffer behind |
| Camera object | lock hand-over without deadlock or use after free; an event answers the call that waits for it |
| HAL1 state machine | one answer per call; the channels that exist and run are those of the state; no caller waits for ever |
| HAL1 post processor | queued work is done, or dropped with its frames returned; a picture ends when all its JPEGs have |
| HAL3 | each part of each request is answered once, live parts in order; the throttle counts what is in flight; flush and close terminate |
| JPEG interface | a job is encoded and answered once; an abort is followed by silence; no wake-up is lost |
| Frame layouts | planes hold the pixels and fit the frame; consumers find the planes where they look; buffers allocated early fit the stream configured later |

## What is modelled

| Module | Models | Code it stands for |
|---|---|---|
| `AsyncDispatch` | what a command thread promises (abstract) | |
| `CmdThread` | command thread, semaphore, queue and their use by a stream | `mm_camera_thread.c:579-698`, `cam_queue.h`, `cam_semaphore.h`, `mm_camera_stream.c:223-244, 893-908` |
| `CmdThread_proofs` | proofs about `CmdThread` | |
| `PollThread` | poll thread | `mm_camera_thread.c:83-577`, `mm_camera_stream.c:1247-1265` |
| `PollThread_proofs` | proofs about `PollThread` | |
| `MmStream` | buffers of one stream over its states | `mm_camera_stream.c:152-497, 651-908, 1156-1292, 1506-1578, 1737-1822, 2251-2323, 4682-4720` |
| `MmStream_proofs` | proofs about `MmStream` | |
| `StreamLayout` | where the planes of a frame lie, and who relies on it | `mm_camera_stream.c:2455-4560`, `HAL/QCameraStream.cpp:674-844, 1517-1600`, callbacks of HAL1 and HAL3 |
| `StreamLayout_proofs` | proofs about `StreamLayout` | |
| `SuperbufQueue` | super buffer queue and metadata of a channel | `mm_camera_channel.c:222-560, 2373-2599, 2682-2952, 2984-3229` |
| `SuperbufQueue_proofs` | proofs about `SuperbufQueue` | |
| `MmChannel` | start, stop, requests and flush of a channel | `mm_camera_channel.c`, the state machine and its threads |
| `MmChannel_proofs` | proofs about `MmChannel` | |
| `MmCamera` | camera object, its locks, events and handles | `mm_camera.c`, `mm_camera_interface.c` |
| `MmCamera_proofs` | proofs about `MmCamera` | |
| `JpegJobs`, `JpegJobs_proofs` | encoding sessions and jobs | `mm_jpeg.c`, `mm_jpeg_interface.c` |
| `HalDevice` | what HAL1's handlers do: channels, parameters, post processor | services of `HAL/QCamera2HWI.cpp`, decisions of `HAL/QCameraParameters.cpp` |
| `HalStateMachine` | HAL1's state machine | `HAL/QCameraStateMachine.cpp` |
| `HalApi` | calls, their answers, live snapshots, notifications | `HAL/QCamera2HWI.cpp`: `processAPI`, `waitAPIResult` and their users |
| `CbNotifier` | the notifier and the HALs' command thread | `HAL/QCamera2HWICallbacks.cpp:3168-3538`, `util/QCameraCmdThread.cpp` |
| `PostProc` | HAL1's post processor | `HAL/QCameraPostProc.cpp`, `util/QCameraQueue.cpp`, capture callbacks |
| `ParamValues` | one value of a parameter taken over: field, key, entry for the daemon | `HAL/QCameraParameters.cpp`: the setters of a value |
| `ParamSetters` | one parameter looked up in what an application sent | the same file: the setters of a `QCameraParameters` |
| `Parameters` | a call of `setParameters` in its steps, and who else changes parameters | `updateParameters()`, commit, defaults; `set_parameters()` and the HAL's own changes in `HAL/QCamera2HWI.cpp` |
| `RequestPipeline` | HAL3's requests, results, errors, flush and restart | `HAL3/QCamera3HWI.cpp` |
| `MCStream`, `MCSuperbuf`, `MCHal`, `MCRequests`, `MCChannel`, `MCPostProc`, `MCParameters` | instances for TLC | |

The modules compose by promise: none contains the threads of another a second
time, each uses what was shown of the other.

- `MmStream` over `CmdThread` and `PollThread`: "a release returns when the queue is
  drained" (`ReleaseDrains`, proved) is the guard of `CmdRelease`; "a synchronous
  delete that found its entry is a barrier" (`SyncDelIsBarrier`, proved) is the
  guard of `DelPollFdReturn`, and "one that did not find it is none"
  (`StreamOffIsBarrier`, violated) is the other branch of `DelPollFd`.
- `SuperbufQueue` is one step per command because the channel's command thread
  serves one command at a time.
- `MmChannel` over `MmStream` and `SuperbufQueue`: a stream is its state and the
  place of its buffers; the queue is a bag of frames of which any may leave.
- `MmCamera` over `MmChannel`: a channel is an object that is stopped by joining its
  callback thread.
- `HalApi` extends `HalStateMachine`, which extends `HalDevice`: one model in three
  files, the services, the handlers and the threads around them.
- `Parameters` details what `HalDevice` has as one step each: which change is taken over when, and which
  asks for a restart; `HalStateMachine` has the calls around it that `Parameters` has not.
- `PostProc` extends `CbNotifier` and stands between the channels of `MmChannel` and the
  sessions of `JpegJobs`, both of which appear as their callbacks.

`PROJECT.json` maps every definition to its lines.

## The modules

### AsyncDispatch and CmdThread

`AsyncDispatch` accepts commands 1, 2, 3, ..., dispatches them one at a time in
that order, and closes only when all have been dispatched. `CmdThread`
implements it (`ImplementsAsyncDispatch`) under the mapping *open = is_active,
accepted = sent, dispatched = done*.

`CmdThread` has three kinds of threads. Posters run the end of
`mm_stream_handle_rcvd_buf()`: `RcvdBufLock` (take `cmd_lock`, look at
`is_active`), `RcvdBufEnq` or `RcvdBufNoMem`, `RcvdBufPost`, `RcvdBufUnlock`. The
worker is `WorkerWait` (semaphore), `WorkerDeq` and `WorkerCmd` in a loop that
drains the whole queue after each wake-up; EXIT only clears `running`. The
control thread is `Launch`, `StopLock`, `StopEnqExit`, `StopPostExit`,
`StopJoin`, `Destroy`, `StopUnlock`. The semaphore is counting, so more posts than
wake-ups leave harmless empty wake-ups, which the model has. A command is its
number in the session; that is all the properties need to tell commands apart.

Left out: `sync_sem` (initialised and destroyed, never used for a stream's
thread), and a stop whose EXIT node cannot be allocated (`mm_camera_thread.c:661-665`): it
returns an error without a join, and the thread, its queue and its semaphore stay as they were.

### PollThread

The variables are those of `mm_camera_poll_thread_t`: `poll_entries` is `entry`,
`poll_fds` is `polled`, the pipe a sequence of commands, plus `signalled`, the
signal that a thread waiting on `cond_v` has received. `poll_cb->mutex` covers
"reset `status`, write the pipe, start waiting" and "set `status`, signal", so each
is one step; writing the entry comes before and is a step of its own. The poll
thread reads one command per iteration, commands before descriptors, and scans
the ready descriptors one by one, each callback having a beginning and an end.

`off` is a history variable: for every descriptor, whether the control thread
has turned it off since it was last added, and if so whether the delete
*waited* for the poll thread or was *skipped* because the entry was gone.

`SpuriousWakeUps` says whether `pthread_cond_wait()` may return without a signal, as
POSIX allows. The waits in `mm_camera_poll_sig()` and
`mm_camera_poll_thread_launch()` are not in a loop, so this matters; the runs
and the proofs assume FALSE.

One model serves the data threads, whose descriptors are added and deleted
asynchronously and turned off synchronously, and the event thread, which only
has synchronous callers (`AddPollFdSync`, `StreamOff`). `notify_entries_updated` sends the
command of a synchronous add or delete without changing an entry and is not
modelled a second time.

### MmStream

One stream with its buffers. One step is one critical section of `buf_lock` or
`cmd_lock`, one ioctl or one access outside both. `held` is the set of
references out, by purpose (`bundle`, `link`, `app`); `kernel` is the set of buffers the
driver has. `mm_stream_buf_done()` is split where the code lets go of the lock:
`CheckRef`, `DecRef`, `QbufCount`, `QbufIoctl`, `MarkInKernel`, with the failure of
each. The reader is `DataNotify`, `Dqbuf`, `ReadCount`, `Account`, `NotifyChannel`,
`NotifyLinked`, `PostFrame`. Control is `GetBuf`, `RegBuf`, `Start`, `StreamOn`, `Stop`,
`DelPollFd`, `StreamOff`, `CmdLock`, `CmdRelease`, `UnregBuf`, `PutBuf`, and `Unlink`.
`buf_refcnt` is a `uint8_t` and wraps at 256 in the model.

`leaked` counts references that were handed to nobody (no memory for the frame's
node, or an inactive command thread): the code counts them and nobody gives them
back, so `RefcntExact` includes them by name.

Assumptions, each from the code around it:

- `PutBuf` waits until callers are out of `mm_stream_buf_done()`:
  `mm_channel_stop()` joins the channel's threads first, and
  `mm_camera.c:552-554` says of the upper layer "it's guaranteed by its caller
  that qbuf will be done before the channel/stream is fully stopped". That comment covers `fully stopped`, not
  each step of STOP, so returns do race with `Stop` ... `UnregBuf` in the model.
- A session begins only after the reader of the last one is back (`Undisturbed`).
  A skipped barrier can leave the reader behind; `StoppedNotPolled` and
  `StreamOffIsBarrier` show that separately, and without this bound
  every other property would only repeat it.
- Callbacks are ASYNC and registered for good; buffer mapping is done;
  `streaming_mode` is not BATCH.

### StreamLayout

A stream's `info` is what `mm_stream_calc_offset()` dispatches on: type, format,
size, padding, rotation and the like. `CalcOffset` chooses the layout (`Preview`,
`PostView`, `Snapshot`, `Video`, `Analysis`, `Raw`, `Metadata`, `PostProcLayout` for
reprocessing) with width and height exchanged for a rotated stream
(`Rotated`), and `HalCalcOffset` is what HAL1 computes ahead. Each layout is a record of planes with their stride,
scanline, length and offsets, as the C code fills it, and a frame length.

A stream goes through `InitStream` (`NeedDeferred` decides whether its buffers are
allocated in the background), `AllocateBuffers` (`calcOffset` on HAL's side) and `SyncInfo` (the
stack's own computation when the stream is configured), in either order when
deferred. `frames` is what the buffers were allocated for, `configured` what the driver was told.

The sizes that the kernel's Venus macros return are external: strides of 128,
scanlines of 32 and 16, sizes padded to 4 KB. Excluded by name: YV12 and
`NV21_VENUS` for a post view (`KnownShort`, see below), packed deep luma formats
(their packing is not in this code), UBWC (fails on this board).

### SuperbufQueue

The channel object is one record, and every command is a function from record to
record: `StreamBuf` (a frame with its overflow and dispatch),
`DivertMeta`, `GoodFrameMeta`, `FutureFrameMeta` (metadata with news), `RequestSuperBuf`,
`FlushSuperBufQueue`. `CompAndEnqueue` follows
`mm_channel_superbuf_comp_and_enqueue()`: reject what is older than expected
(`Validated` makes the exception), look for a node the frame fits (`Fits`, which in low
priority matches metadata loosely, with `AdoptIndex`), fill it and give up what
is older when it becomes matched (`Fill`, `ReleaseOlder`), or make room and
insert (`MakeRoom`, `Insert`). `up` and `back` are histories: the super buffers
handed to the HAL and the frames given back. `spinning` is set where the loop
`while (match_cnt > limit)` would not end.

Off in the model: bracketing, 1x zoom, batch capture, retroactive requests, frame
sync of two cameras, flash bursts, instant capture, the ZSL triggers, and
`configure_notify_mode`, which has no caller.

### MmChannel

A channel with its own streams and one linked stream, and one caller at a time,
as `ch_lock` gives it. `mm_channel_start()` is a walk, one step per call it makes that can
fail, and its error path walks back; `mm_channel_stop()` is the other walk. Around
it run the command thread (`CmdThread`, frames and requests into the queue), the callback
thread (`CbThread`, super buffers to the HAL) and the HAL, which gives buffers back
(`GiveBack`). Each frame is in one place: a stream's kernel queue, a thread's queue, the
super buffer queue, the HAL, or freed.

The super buffer queue keeps a frame or returns it as it likes, within what
`SuperbufQueue` shows. A stream's reader is removed by STOP as a barrier, which the disagreements
`StreamOffIsBarrier` and `StoppedNotPolled` show not to be so in every case.

Left out: frame sync of two cameras, adding and deleting streams, calls that
are passed on to a stream.

### MmCamera

Callers of the interface open, close, start, stop and delete a channel, map a
buffer and queue a buffer; each call is a walk through `g_intf_lock`, `cam_lock`,
`ch_lock`, `msg_lock` and `evt_lock`, each taken before the one above it is let go. The
object's memory is reused, its handle is not. The event poll thread
(`EventNotify`) and the event command thread (`DispatchBegin`, `DispatchEnd`) deliver what
the daemon sends; `WaitEvent` and `WaitTimeout` are the wait for the answer to a mapping.

Two assumptions are constants: `OpensOverlap` (FALSE: two first opens do not run at once;
the interface drops its lock between looking for the object and storing it,
`mm_camera_interface.c:2104-2119`) and `ChannelCallsOverlap` (FALSE: `mm_camera.c:552-554` guarantees
it for QBUF).

### JpegJobs

Sessions created once and jobs started by a client; the job manager thread, which moves
jobs from the todo to the ongoing queue; the component, whose
state changes and callbacks come from its own thread; abort by job and by
session; destroy. `ses` are the sessions, `omx` their
components, `move` the state change that the holder of `job_lock` waits for. One
session at a time encodes (`MM_JPEG_CONCURRENT_SESSIONS_COUNT` is 1 on this board,
`Android.mk:41-45`).

`Estranged` names the jobs whose end is not promised: those of a session that failed
and kept its configuration. `Healthy` sessions are in use and their component has not failed at anything.
`Without` is the loop that takes jobs off a queue. Left out: decoding, burst sessions, MPO, EXIF, close.

### HalDevice, HalStateMachine, HalApi

`HalDevice` is what the handlers call: one operator per service, from a device
record to its outcomes: adding, starting, stopping and deleting channels
(`preparePreview`, `startPreview`, `stopPreview`, `takePicture`, `cancelPicture`,
`startRecording`, ...), with a
fault where the code has an error path, and setting parameters, which decides
whether the preview must be restarted.

`HalStateMachine` is the handlers of the eight states: for every state, the calls it
serves (and how), those it refuses, and the events it handles. A handler's outcome is the
new device, the new state and the answers given.

`HalApi` adds the threads: callers that queue a call and wait (`waitAPIResult`), the state
machine thread that takes calls before events, the live snapshot thread, the
encoder, the notifier and the death of the daemon. Answers go by call number, or to whoever
waits for an event of that kind.

Left out: the thread of internal pictures, the restarts that the muxer asks for, message
masks, RAW, TNR, low power, and advanced captures (UbiFocus, refocus, chroma flash), whose start may
fail when the capture channel runs already (`HAL/QCamera2HWI.cpp:4744-4756`).

### CbNotifier and PostProc

`CbNotifier` is the notifier of HAL1: its queue, the command thread that serves it
and the flag by which snapshots are switched on and off. `PostProc` has the threads around
the post processor: the callback of the source channel, the callback of the
reprocess channel, the data thread, the state machine's thread (take, cancel, stop and the
JPEG events) and, outside, the daemon that reprocesses and the JPEG interface. Its
queues are the code's: frames waiting for reprocessing, frames being
reprocessed, frames waiting for the encoder, jobs being encoded. A frame is `<<p, c>>`,
picture and pass.

The constant `Modes` gives the number of passes, buffers and frames of a picture. Two
passes only for single pictures: with several reprocess channels and several pictures
at once `ongoingPPQ.dequeue()` may pair a result with another picture's job, and nothing
is claimed of it.

Each submission to the reprocess channel may be refused (`ReprocFails`). `doReprocess()` then releases
and frees a job whose entry is still in `m_ongoingPPQ`. `releaseOngoingPPData()` has cleared the job's
pointers, so the dead entry holds no frame, and a flush that meets it releases nothing twice; but
the next result takes it, finds an "Invalid reprocess job", and leaves its own frame with nobody
(`FramesExact`, below). The memory may also have become that of a later job (`Read`), in which case the entry is
that job, a second time. From the first such failure to the next stop nothing is claimed
of the frames (`hist.freed`), but calls still return.

Left out: the raw queue, the save thread, offline copies of a regular capture,
extra jobs of HDR, long shots, exit and deinit, a reprocess channel that cannot be created or is gone when
a job is submitted, and what else the memory of a freed job may read as, or a second `free()` of it may do.

### ParamValues, ParamSetters, Parameters

The parameter object has four stores: the string map that `get()` reads (`map`), the pending values of
a call (`tmp`, the code's `m_tempMap`), the batch for the daemon (`batch`), and a field per mode.
The setters write to any of them, each in its own way, and the properties relate them. A setter of
a value (`ParamValues`) checks it against its table (`Known`) and writes;
a setter of a record (`ParamSetters`, its name ending in `P` because C++ overloads it) compares what was
sent with the map, decides whether the preview must be restarted, and calls the first. Most have one
of four shapes (`OnChange`, `OnChangeRestarting`, `OnChangeInRange`, `FromAppOrProperty`); those that
do not are written out. `updateParameters` runs all of them in the order of the code, through tables of
stages (`SizesAndFormats`, `Modes`, `Image`, `Scene`, `Rest`, `Ending`), because each reads what earlier ones
have written.

A call is `SetParams`, then `SetParamsStop` if it asks for a restart, `SetParamsCommit` or
`SetParamsCommitFail`, then `SetParamsRestart`; between any two of them `ThermalNotify`,
`InstantAecSettled` and `RetroAecLock` change parameters with the same map and batch (`Own`). Around it are
the calls that build the preview for another mode: `PreparePreview`, `StartPreview`, `PreStartRecording`,
`PreTakePicture` and the rest. `built` is the layout the running channels were made for, `daemon` what the
daemon was last told per entry. `torn` remembers that a call failed, or lost its batch to an event,
after fields had changed: `PreviewAsAsked` and `Settles` are claimed where that has not happened.

An application sends a whole record: what it read last, or what it read when the camera was opened,
with keys of its interest changed. Values are a few per key: two or three that are supported, one
that is not where the setters refuse it. System properties have their defaults. Left out: a second camera (its
sizes and no-display default), mobicat, custom parameters, low light capture, TS makeup, the number of
snapshots, picture sizes the reprocessing scales to (`HAL/QCameraParameters.cpp:1585-1602`), frame skipping as
the answer to heat, the getters.

`PreviewAsAsked` makes one exception: with the recording hint on, `setLiveSnapshotSize()` chooses the size
of the snapshot stream out of the table for video HDR if `video-hdr` is on (1821), and
`setVideoHDR()` asks for no restart (3010). The stream of a running preview keeps the size of the other
table until something else restarts it (`LiveSnapshotFits`, below).

### RequestPipeline

`processCaptureRequest()` as a walk through its early returns, under `mMutex`, with the
wait for the number in flight (`waitTimeout`, which the daemon's death does not wake); the
metadata, buffer and input callbacks; `flush()` and `notifyErrorForPendingRequests()`.

`dynamicUpdateMetaStreamInfo()`, the restart of the sensor, runs without `mMutex` (unlocked at 4098, taken again at
4105). It stops the channels (`restartStop`), walks the same two lists as the flush, entry by
entry (`walkBegin`, `walkTell`, `walkReturn`, `walkErase`, `walkEnd`), and starts the channels (`restartRegister`), or
does not (`restartFails`: the request is refused unregistered, and `mNeedSensorRestart` makes the next one try again).
The flush's own walk holds `mMutex` and is one step. When the two meet (`Crosses`), an entry
that one has told the framework about is told by the other as well (`EachAnsweredOnce`, below), and the iterators of the
first point to what the second has erased.
 State is `mPendingRequestsList`,
`mPendingBuffersMap`, `mPendingLiveRequest`, `mState`, `mFlush`, and what the framework got
(`final`, `returned`, `announced`). Widths are kept: the throttle's counter is unsigned and wraps
round, at 2^16 for 2^32.

A walk over a list whose entry has gone (`astray`), or in whose midst another walk took place (`crossed`), ends what the
model claims (`Lost`): the code then reads freed memory. A flush that comes before the restart's walk or after
it, at any step, is within the claim.

Left out: a restart that cannot stop the channels, configuration of streams, batch mode, urgent partial results, the list of
pending reprocess results, two cameras, the channels themselves.

## Checks

| Run | Question | Distinct states |
|---|---|---|
| `cmd_thread` | Is a command lost, reordered, left at release, never dispatched? Does STOP return though it joins under `cmd_lock`? Is the abstract dispatcher implemented? | 819 |
| `poll_thread` | What does a synchronous command guarantee on return, with asynchronous callers around it; does its caller return; is an added descriptor polled? | 59,177 |
| `stream` | Are references, ownership and counts exact, with every failure, across STOP and restart? | 2.5 million |
| `stream_live` | Do buffers come back and does STOP return? And, for every kind of stream: do its frames hold their planes where their readers look? | 81,552 |
| `superbuf` | High priority in bursts with failing allocations, and low priority continuous with three streams: every frame in one place, right bundles, in order, bounded | 820,130 |
| `channel` | Start with a failure anywhere, stop, requests: does a stop lose nothing, and leave nothing? | 468,449 |
| `camera` | Locks handed over while objects are closed: no use after free, no deadlock, the right answer | 490,505 |
| `hal` | HAL1 in eight uses, with calls at any time: does each get its answer; do channels fit the state? | 1,216,047 |
| `postproc` | Pictures through the post processor, with encodes and submissions that fail, stopped at any time | 455,990 |
| `jpeg` | Jobs, aborts and failures of two sessions | 489,179 |
| `parameters` | Parameters set in any state, from a record read now or at the start, with changes by the HAL between the steps: is what is read what the daemon has; is the preview the one asked for; does sending it back settle? | 494,650 |
| `requests` | HAL3 requests in three scenarios: reprocessing, capture with dropped frames, restarts with faults; with a flush at any time | 398,712 |

**Properties.** Some properties of a run are conjunctions of named parts; the parts are what to read.

- `CmdThread`: `NoLostCommand`, a sleeping worker with work has a wake-up
  coming. `ReleaseDrains`, a join that returned leaves an empty queue.
  `NoUseAfterDestroy` as named. `ImplementsAsyncDispatch`, the refinement.
- `PollThread`: `SyncDelIsBarrier`, after a synchronous delete that found its entry,
  the descriptor is neither polled nor in a callback. `SyncCommandConsumed`, nobody
  returns with their command still in the pipe.
- `MmStream`: `RefcntExact`, the counter equals the references that exist.
  `KernelOwnsAlone`, a buffer in the kernel is in nobody's hands. `BookkeepingFits` is
  `QueuedCountExact` and `PolledWhileQueued` (the count, and the registration derived
  from it, survive a failed ioctl) and `NothingLeftToDispatch` (a released command
  thread has no frame left).
- `StreamLayout`: `LayoutsFit` is: the record has as many planes as the format;
  `PlanesHoldPixels` (planes are long enough for their pixels, do not overlap, and end in
  the frame); `CallbackFindsChroma` (HAL1's preview callback and HAL3 find the second
  plane where it is); `EncoderHasBlocks` (a JPEG source has whole MCU blocks);
  `LegacyRawInPlace` (conversion in place never overtakes its source); and a stream's early
  buffers are the size the driver is told later.
- `SuperbufQueue`: `FrameInOnePlace`; `QueueBounded` is `MatchedFirst` (which is
  what makes the code's loops end), `UnmatchedBounded` (which is what keeps the
  give-up loop from reading a freed node) and `WithinWaterMark`; `RightBundles`
  is `BundleAgrees` and `DeliveredInOrder`.
- `MmChannel`: `StartStopClean` is `FrameInOnePlace`, `MetaWheneverStreaming`
  (an image stream never runs without its metadata), `StoppedIsQuiet`, `NothingForDeadThread` and
  `FreedAtRest` (buffers are freed only when all are home). `StopLosesNothing`: a stop that
  returned has given every buffer back.
- `MmCamera`: `ObjectsLive` is `NoUseAfterFree`, `HandlesResolve` (a handle finds
  its own object or none) and `NothingForDeadThread`. `StatusIsOurs`: the status a mapping
  returns is that of its own message, if no other overlapped. `CallsReturn`: no call waits for ever, in a circle of locks or else.
- HAL1: `CallsAccounted` is `OneAnswerPerCall` and `PutOffIsRemembered` (an answer put
  off is owed to a call that waits). `ChannelsFitState` is `VideoWhileRecording`,
  `SnapshotChannelOwned`, `CaptureOnlyInPicTaking`, `OnePreview` and
  `PreviewFitsParameters` (a running preview was built from the parameters in force).
- `PostProc`: `PipelineExact` is `FramesExact` (each frame is in one queue or hand),
  `StoppedIsEmpty`, `DeliveredOnce` and `NothingReadAfterReturn` (no frame is given back
  while the daemon or the encoder reads it, but by a stop), where no job was freed in the queue. `LastMeansAll`:
  when the picture is said to be done, every JPEG of it was delivered.
- `JpegJobs`: `EncoderExact` is `AnsweredOnce` (one callback per job), `NoStrayEncode`, `HandleInOnePlace`,
  `OneConfigured` and `NoLostWakeup`. `SilentOnceOver`: none after an abort has returned. `AnsweredOnce` and
  `HandleInOnePlace` are about `Healthy` sessions: the code goes on with a component that failed, and from the second
  failure on a job of it can be answered twice, or be encoded while its session is available (below).
- `Parameters`: `DaemonAgrees`, for two dozen keys the map has what the daemon was told, at every moment: in
  the middle of calls, after refused ones and after a batch the daemon refused. `PreviewAsAsked` is
  `PreviewFits` (a preview runs on streams of the sizes and modes its parameters ask for, but for the live snapshot
  after a change of video HDR) and
  `ModesAgree` (ZSL, recording hint, high frame rate, faces and frame rate are those of the
  daemon, heat and recording considered). `Settles`: whoever sends back what was read has, after one call, parameters of which
  the next such call changes nothing, refuses nothing and restarts nothing.
- `RequestPipeline`: `AnswersExact` is `AnsweredOnce` (each part of a request once),
  `Accounted` (what was not answered is in a list), `LiveInOrder` and `DroppedComesBackInError`, the first two where
  no walk went astray or met another.
  `ThrottleExact` is `LiveCountExact` and `BlockedOnlyWhenFull`. `FlushSettles`: after a flush
  nothing older is pending.
- `Progress` collects a module's liveness: commands are dispatched and stops return (`CmdThread`);
  callers return and added descriptors are polled (`PollThread`); buffers come back and
  STOP returns (`MmStream`); `CallsReturn`, `FramesComeBack`, `NotifierGoesOn` (`PostProc`); `EveryJobEnds`,
  `CallsReturn` (`JpegJobs`); `CallsReturn`, `EveryRequestEnds` (`RequestPipeline`). `CallsReturn` of `MmChannel` and
  `MmCamera` and `EveryCallReturns` of HAL1 are theirs.

Every property has a mutant of the code (a definition named `X_Suffix`, next to the
definition `X` it changes) under which it fails.

**Bounds.**

- `CmdThread`: `MaxCmds` 3 commands a session, so that one can be in the
  worker's hand while two are queued, plus EXIT; `MaxLaunches` 2, so that a second
  session meets what the first left. The proofs remove both bounds.
- `PollThread`: `MaxPipe` 3: a synchronous command and one asynchronous one
  of each of two descriptors; a real pipe holds thousands, and a longer pipe only
  delays. `MaxLaunches` 2. `Launch` requires that no old thread is alive: after
  a release that did not join (`ReleaseJoins`) two threads would share the object,
  and nothing further is claimed. The proofs remove the bounds.
- `MmStream`: two buffers, so that one can be in the kernel while the other is
  out, and `queued_buffer_count` passes 0, 1 and 2; one user and the worker (two users and one
  buffer in the live run): two returns can race on one buffer; two sessions.
- `StreamLayout`: every type and format, widths 2, 26 and 1440 and heights 2, 18 and 1080 (below
  one alignment unit, odd multiples, and a real size), four paddings, rotated or not;
  raw conversion for frames under 256 pixels.
- `SuperbufQueue`: frames 1 to 3 of two or three streams (each stream may skip
  frames), requests of up to 2, a water mark and a limit of unmatched super buffers of 1 or 2,
  so that every limit is hit and passed. A flush names frame 0 or frame 2, so that the frames expected after it are
  all, or only the last. The two image streams are interchangeable, which TLC uses as a symmetry; the
  proofs remove these bounds. `FutureFrameMeta` stops once
  `expected_frame_id` is beyond the frames of the model. Index roll-over is out of
  range.
- `MmChannel`: two own streams and a linked one (two buffers of the preview, one of the
  others), so that an error path has something to undo before and after each step; two sessions, one waiting request. The
  inductive invariant was checked here and with two linked streams (0.8 million states); the proofs remove the bounds.
- `MmCamera`: two callers and one object whose memory is reused, the least in which a
  close meets another call; two messages and one event at a time.
- HAL1: one fault, two pictures, and eight uses (which parameters change, ZSL or not, long
  shot): a use fixes what the app asks for, the order of its calls is open.
- `PostProc`: two pictures, together or one after the other, one or two passes and buffers, so that
  queues hold jobs of different pictures and ages.
- `JpegJobs`: two sessions, two jobs, one fault. The inductive invariant was checked with three jobs and two faults
  (12.2 million states); the proofs remove the bounds.
- `Parameters`: two calls, the first of which may change any two keys of the application's interest and the
  second one: the second meets what the first left. Sixteen interests (`Groups`), each two or three keys that
  setters or the choice of streams read together; keys no setter combines with others behave alike in every one. Of the eight keys on which the
  live snapshot and the streams depend (`recording-hint`, `picture-size`, `video-hdr`, `hfr`, `hsr`, `video-size`,
  `preview-size`, `zsl`) the run has five triples; all 56 were checked once, in place of `Groups`, with no error. Keys that interact
  only four at a time would go unseen. One event (a change by the HAL, a
  command for faces or a refused batch), at any point. Both HDR features.
- `RequestPipeline`: three requests for two streams, in flight between 2 and 3, so that the throttle
  blocks with one to spare; one flush.

`CHECK_DEADLOCK FALSE` where the bounds end behaviour: sessions, launches,
jobs, pictures used up. `CmdThread` is checked for deadlock, since a poster can always find the stream
inactive and return, and so is `SuperbufQueue`, which can always be flushed. `MmCamera` and
`MmChannel` have `CallsReturn`, under which a caller stuck in a call is an error.

**Fairness.** Weak fairness of the steps of threads that the code starts, never of what
an app, a sensor or a fault does. Beyond that:

- `CmdThread`: the worker, the poster that holds
  the lock, and the stop sequence. None of starts, stops, frames or of
  getting `cmd_lock`.
- `PollThread`: each thread's own steps and the answer to
  a waiting caller. None of descriptors being ready: `poll()` must return for the
  pipe only.
- `MmStream`: strong fairness of `DelPollFdReturn`, because the poll
  loop reads its pipe before it looks at descriptors: the caller gets
  its answer between two callbacks however many frames arrive. Strong fairness of
  `GiveBack`: whoever holds a reference returns it; which of several users does so is open.
  This is an assumption on the HAL, and so is `GiveBack` of `MmChannel` (weak). The live run has no
  failures: a failed QBUF leaks its buffer, in the code as in the model.
- `MmCamera`: strong fairness of each caller's step and of QBUF, since locks are
  contended; the daemon need not answer, the wait times out.
- HAL1: the state machine thread, `waitAPIResult`, the live snapshot thread, the notifier, and, of the
  outside, the encoder and `PrepSnapshotDone`.
- `PostProc`: all four threads, the daemon's results and the encoder's.
- `JpegJobs`: the manager, the component's state changes and its reports (done or error).
- `RequestPipeline`: the HAL's steps, the wait's time-out, and that the daemon goes on
  delivering metadata or input for requests it has accepted.

## Where code and documentation disagree

TLC's trace is the scenario. These are configurations of their own, beside the runs of `PROJECT.json`, to be run by hand (`tlc -config X.cfg M`, where `M` is the name before the underscore). Where a row says "in place of" or "alone", edit a copy of the named configuration so before the run.

| Configuration | Property | What happens |
|---|---|---|
| `PollThread_streamoff` | `StreamOffIsBarrier` | An asynchronous delete (count fell to 0) empties the entry; a `streamoff` right after finds nothing to delete, gets 0, not an error, and skips the wait that the comment at `mm_camera_stream.c:1258` wants. The callback may still run. |
| `PollThread_release` | `ReleaseJoins` | `launch` returns once the new thread has signalled (`mm_camera_thread.c:353`), before it has set its state; a release in between sees STOPPED, and returns at 553 without the join of 558, "wait until poll thread exits". |
| `MmStream_entry`, in place of its invariant | `InKernelFlagTrue` | `in_kernel = 1` is written after the buffer was queued and the lock dropped (4711); the next dequeue may come first, and the flag of a buffer the client holds stays 1, where `mm_camera.h:233` says "indicate if buf is in kernel(1) or client(0)". |
| `MmStream_entry` | `StoppedNotPolled` | A return past the state check registers the stream for polling (1784) behind STOP's delete, "step1: remove fd from data poll thread" (1254). |
| `MmStream_unreg` | `FreedNotInKernel` | Registration fails half way; the error path of start sends UNREG_BUF in a state that ignores it (756) and frees buffers the kernel still has (`mm_camera_channel.c:1629, 1635`). |
| `MCStream_raw16` | `MipiRawInPlace` | The conversion of packed raw to 16 bits in place (`QCamera3Channel.cpp:2205`) overwrites the byte with the low bits of the first pixels when it writes the third; it also shifts the low bits by x % 4 where 2173 gives each pixel two of them. |
| `MCSuperbuf_flush` | `FlushKeepsLaterFrames` | FLUSH_QUEUE empties the queue, where `mm_camera_channel.c:1864` says "frame idx until which to flush all superbufs". |
| `MCChannel_lost` | `FailedStartLosesNothing` | The error path of start (1611) flushes by the type of an own stream when it means the linked one, whose buffers are then freed while they are still out. |
| `MmCamera_overlap` | `NoDeadlock` | With two calls on a channel at a time: one waits for `ch_lock` with `cam_lock` held, STOP holds `ch_lock` and joins the callback thread, whose QBUF needs `cam_lock`. `mm_camera.c:552-554` rules QBUF out, not this. |
| `MmCamera_late` | `OneOperation` | Answers name no message: one that comes after the time-out (1787) ends the next wait (1820). |
| `MCHal_done` | `SnapshotDoneEndsItsPicture` | The done event of a cancelled picture ends the next one, whose channel is stopped and whose JPEG is dropped (`QCameraStateMachine.cpp:2308`). |
| `MCPostProc_overtaken` | `SnapshotsStayOn` | The notifier's START is sent with priority and overtakes an unread STOP; snapshots stay off (`QCamera2HWICallbacks.cpp:3521`). |
| `MCPostProc`, alone, under `Spec` | `FramesExact` | A refused submission frees a job whose entry stays in `m_ongoingPPQ` (`QCameraPostProc.cpp:3242-3249`). The next result takes that entry; 1289 finds it invalid and returns, and the frame is held by nobody. |
| `MCParameters`, in place of `PreviewAsAsked` | `LiveSnapshotFits` | `setVideoHDR()` (3010) asks for no restart; with the recording hint, a preview that runs keeps the size of the snapshot stream that `setLiveSnapshotSize()` (1821) no longer chooses. |
| `JpegJobs`, alone | `FailsOnItsOwn` | `error_flag` is set by every failure (3619) and cleared only when a session is created: the other session's pictures fail too (330, against 1895). |
| `MCRequests_errors` | `ErrorsGoToPendingRequests` | `notifyErrorForPendingRequests()` (10820) pairs each request of the buffers map with the first pending one and erases that: the wrong request gets the error, and an empty list is dereferenced at the end. |
| `MCRequests_restart` | `WaitsForPendingRequests` | `dynamicUpdateMetaStreamInfo()` (10597) ends all pending requests without uncounting them; the next capture waits five seconds for requests that have ended. |
| `MCRequests_restart`, in place of its property | `EachAnsweredOnce` | A restart walks the lists of requests without `mMutex` (`QCamera3HWI.cpp:4098-4105`); a flush walks them, too (4490-4496), and a request gets its error, or its buffers, from both. |

Seen on the way, without a configuration:

- the waits for the poll thread are an `if` around `pthread_cond_wait()`, so a
  spurious wake-up returns before the command was read, where `mm_camera_thread.c:154`
  says "wait till worker task gives positive signal" (in `PollThread.cfg`, set
  `SpuriousWakeUps = TRUE`: `SyncCommandConsumed` fails);
- the queue holds `max_unmatched_frames` + 1 unmatched super buffers, because room
  is made before one more is inserted (`mm_camera_channel.c:2872`;
  `mm_camera_interface.h:370` says "max number of unmatched frames in queue"). `UnmatchedBounded` states
  the bound that holds;
- `post_frame_skip` of n skips n - 1 frames (`mm_camera_channel.c:2819`;
  `mm_camera_interface.h:367`);
- a bundled and linked stream without a callback could return a buffer to the kernel before the link's reference is counted
  (`mm_camera_stream.c:205-220`; in `MmStream.cfg`, set `HasCb = FALSE` and `LinkedAtStart = TRUE`: `RefcntExact`
  fails). The HAL has no such stream;
- layouts: a YV12 post view takes its chroma rows from the halved stride
  (`mm_camera_stream.c:2927`), an offline `NV21_VENUS` one its size from the unpadded
  dimensions (3037); HAL1's preview callback looks for chroma at stride times scanline,
  where the first plane of NV21_ADRENO is padded to 4 KB (`QCamera2HWICallbacks.cpp:1057`); these three
  are excluded by name from `LayoutsFit`;
- the camera object: callbacks of a client that has closed stay registered
  (`mm_camera.c:464-498`); `del_channel` clears a slot that `add_channel` may have given
  away (905-913); an answer that is there when the wait times out is lost (1780-1790);
- JPEG (`mm_jpeg.c`): a component that fails on its way to Executing leaves its session configured
  with `error_flag` set, so whoever unloads it sends the command and does not wait for its report (330); a second failure is reported when a later job
  of that session is in hand, which `EmptyThisBuffer` refuses: the manager answers that job with an error, and the event
  handler does so again (two jobs, two faults, 36 steps);
  a failed session leaves `encoding` TRUE (1604-1650); any event acknowledges an abort (3611); running out of
  output buffers leaks the job (2054-2057); `change_state` waits once, with an `if` (344-350);
- post processor: a JPEG event handled before its job id is stored leaves the job
  in the queue until a stop (`QCameraPostProc.cpp:2583`); a picture whose encoding fails is never counted,
  so its state lasts until the app cancels; a stop returns frames that the daemon
  may still read, since the reprocess channel is stopped later; a callback while the notifier is inactive is neither delivered nor released;
- HAL1: a failed start in READY is answered OK (`QCameraStateMachine.cpp:924-958`); a
  failed restart leaves PREVIEWING without channels (1260); a rejected change during
  RECORDING leaks its parameters (2433); a live snapshot can give up without a word
  (`QCamera2HWI.cpp:5496`); ZSL switched during a picture makes the handlers look for the other channel;
- parameters (`QCameraParameters.cpp` unless named): a call that is refused leaves fields and directly written keys
  changed (5303); a change by the HAL between SET_PARAMS and COMMIT drops what the call had accepted (12262);
  a failing COMMIT or a failing `preparePreview()` leaves the state PREVIEWING without channels
  (`QCameraStateMachine.cpp:1260`); the modes rdi and secure fall back to the system property when the
  application repeats its value (4849, 4880), and ask for no restart, nor does the preview format (1962); nor does no-display
  while the key is absent, when the value is that of a property (4423; a changed key asks for one, 4420); `setVtEnable` turns the AV timer on for "disable" (7118); `setManualWhiteBalance` writes before it
  looks (2875); with one HDR feature only the sensor's name is accepted (3897); "30-30" is stored as "15-30" outside
  high frame rates (6582), and a preview started for recording is lowered to it; the fixed frame rate flag stays set when rate and range change in one
  call (2255); the recording hint of the key and of the object differ after `preStartRecording()`; temporal denoise overrides CDS,
  whose off value stays at the other mode's key (4687, 8046); a change of the burst exposures alone is not parsed (3701);
  `setDualCameraMode` does not store its keys (14830); `updateOisValue` writes its key into a map it then clears (8429);
  metering areas are scaled again after a restart, focus areas are not;
- HAL3: a failed flush leaves `mFlush` TRUE (`QCamera3HWI.cpp:4470-4486`); a request refused by the channel
  after it was registered stays pending (4230-4290); `mState = STARTED` (4323) overwrites ERROR after a
  restart; the daemon's death does not wake the waiter (653).

## Proofs

**CmdThread_proofs**, for any set of posters and any bounds. The properties
are not inductive. `ReleaseDrains`, for one, needs to know what is in the queue in every phase
of a session. The invariant `IInv` is

- `LockInv`: who holds `cmd_lock` in which phase, so that nobody enqueues behind EXIT;
- `LifeInv`: worker and posters work only between launch and destroy;
- `QueueInv`: before EXIT the queue is exactly the commands `done+1 .. sent` not
  in the worker's hand (`Backlog`); then the same followed by EXIT
  (`BacklogThenExit`); then it is empty (`Drained`);
- `NoLostCommand` itself.

From it follow `TypeCorrect`, `NoCommandLost`, `ReleaseIsClean`,
`NoUseAfterDestroyed`, `DispatchedInOrder` (`InOrder`, which the refinement implies and no run repeats) and `Refinement`: each step of the
thread is a step of `AsyncDispatch` or a stutter.

**PollThread_proofs**, for any set of descriptors and any pipe bound, under the
hypothesis `~SpuriousWakeUps`. The key fact stands in neither theorem: at most
one synchronous command is under way. It is in the pipe only while its sender waits
unsignalled, and not once the sender is signalled (`PipeInv`, `WaitInv`). `status`
plays no part, which is why asynchronous callers may reset it. `BarrierInv`
follows a descriptor from "out of `poll_entries`" to "dropped by the rebuild".
Theorems: `TypeCorrect`, `SyncDelete`, `SyncCommand`.

**MmStream_proofs**, for any set of buffers and of users and any number of sessions, under
the hypothesis `HasCb`: the stream has a callback of its own. The code needs it. The link's reference is
counted only after the bundle's has been handed out (`mm_camera_stream.c:205-220`), and until then
only the callback's reference, posted last, keeps the buffer from the kernel. The HAL links
metadata and preview streams, which have callbacks (`QCamera2HWI.cpp:3708, 3742, 5557, 5563, 10477`). Three
invariants hold each other up:

- the reader finds no reference to the buffer it dequeues, because a buffer without references is in one
  place only: the kernel, the reader's hand, or one returner's (`PlaceInv`);
- a buffer goes back to the kernel only when nobody has it, because the counter is exact (`ExactInv`), for which
  nothing may be handed out twice for one purpose (`PurposeInv`);
- the counter stays within eight bits, because the references still to be taken are bounded (`BudgetInv`); the count
  of queued buffers is the kernel's plus those on their way in either direction (`CountInv`).

Theorems: `ReferencesCounted`, `KernelAlone`, `Bookkeeping`.

**SuperbufQueue_proofs**, for any bundle attributes, any streams and any number of frames, without hypotheses. The handlers
are functions on the channel object, so each helper of the code (`DropAbove`, `Flush`, `Dispatch`, `Fill`,
`ReleaseOlder`, `MakeRoom`, `Insert`) has its lemma, stated of an object and the set of frames that
have arrived. The code looks at the first node only. That nothing is overlooked needs the
history of the frames: an unmatched node that a newer frame of a stream it waits for has passed can never be
completed (`Stale`), and every other unmatched node is newer than all before it (`Ahead`). So a node that
is completed has only older ones before it, those that are unmatched are given up, and the matched ones
are again the prefix that `match_cnt` counts (`Counted`). In low priority, where metadata may be of a later frame, the
order of metadata is a clause of its own. Theorems: `OneFrameOnePlace`, `Bounds`, `Bundles`. On the way `Enqueued` shows that the
branch for a slot already taken (`mm_camera_channel.c:2790-2796`) is never entered.

**MmChannel_proofs**, for any streams, own and linked, with any finite number of buffers, any number of sessions and of
starts that fail, without hypotheses beyond the shape of the constants (`ChannelConstants`: streams are in `streams[]` once, and
metadata is one of the channel's own). What the HAL does is the model's assumption stated above: it gives back what it has before
it stops the channel, and at once while the channel stops. The argument follows the caller of `mm_channel_start()` and `mm_channel_stop()`:

- its place in `s_objs` says which own streams have been started, taken back or stopped (`OrderInv`, `StreamInv`); metadata is the
  first to be started and the last to be stopped, so it runs while another does;
- its place in the function says which threads run (`ThreadInv`) and from where on no stream is linked (`CallerInv`). From there
  nothing comes in: the flush of STOP is the last command but EXIT, no other flush is queued or acknowledged at that time, and
  what it leaves behind are two empty queues (`CmdInv`). EXIT is behind the last super buffer (`CbInv`);
- frames change places but are not copied (`OnceInv`: `ServedOnce` for the command thread, `HandedOnce` for the callback thread and
  the HAL, `NotifiedOnce` for the readers);
- until STOP is through, every frame with the threads or the HAL is of a stream that is still in `streams[]` (`WhoseInv`), so
  it can go back.

Theorems: `Inductive`, `StartAndStopClean`, `StopGivesBack`. The order of `s_objs` is the one algorithm in it: `InSlotsOrder` and `Orders`
show that START and STOP take every stream of `streams[]` once, wherever metadata stands.

**StreamLayout_proofs**, for every frame whose sides are positive and even (`Dims`) and every
padding out of `cam_pad_format_t` with any margin and least size (`Pads`); the run takes nine sizes
and four paddings. Both are assumptions on the constants: `PAD_TO_SIZE` is right for powers of two only, and the
4:2:0 formats halve both sides. The argument has three parts:

- a plane whose stride and scanline are no less than the bytes and the rows of an image has room for it (`PlaneRoom`,
  `InsetRoom` with a margin, `VenusRoom` where the second plane takes the rest of the frame), and planes with room laid one
  after the other fit in the frame; then each function of the stack gives such planes (`PreviewFits` to
  `AnalysisFits`), which is a matter of what `PAD_TO_SIZE` does (`PadUp`, `PadMultiple`, `PadExact`). A margin is
  a multiple of the plane's padding, so the offset of the image is not rounded into it;
- whoever finds bytes with arithmetic of his own finds them: `ChromaFound`, `EncoderBlocks`
  (`LcmOfFour` is the one call of `mm_stream_calc_lcm()`), `LegacyBehind` (a packed pixel ends no later
  in its row than its own 16 bits will, so what is written for later pixels lies behind it);
- the invariant `LayoutInv`: everyone who keeps a layout of a stream keeps the same one. It rests on
  `SameForHal`: callback streams, for which HAL1 computes another layout than the stack, are not allocated early.

Theorems: `LayoutInvariance`, `Layouts`. `Layouts` is about `LayoutSpec`, the part of `MCStream` that lays streams out.

**MmCamera_proofs**, for any set of callers and any number of objects, messages and
events, under `~OpensOverlap` and `~ChannelCallsOverlap`, as in the run, for the reasons given above. Without
the first, and two objects, `ObjectsLive` fails after a few steps; the second is used for the channel's owner. A close frees the
object without asking who is inside:

- the reference count is the number of handles (`RefInv`), so the last closer has the only one;
- a channel is called by its owner only, who has a handle (`OwnerInv`), and the data thread runs only while the
  channel is ACTIVE or its join is awaited;
- the event thread is stopped after the poll thread that feeds it (`EventInv`);
- a message is on the wire, in the kernel or in `evt_rcvd`, in one of them (`OnePlaceInv`), and it is the
  waiter's unless a wait was given up (`WaitInv`).

Theorems: `Live`, `OwnAnswers`.

**JpegJobs_proofs**, for any set of sessions and any number of jobs, lives and failures, without hypotheses. Three parties
work on a session: the job manager, the component's own thread and the HAL's thread, under `g_intf_lock`, `job_lock` and the
lock of the session, which no one holds from end to end. The invariant `IInv` has a part for all sessions and one for
those whose component is well:

- `LocksInv`, `MoveInv`, `ConfigInv`: the locks are with whom the program counters say, so that there is one state change
  under way at most, and of a session its holder works on; hence nobody loads a component while another has the configuration;
- `JobsInv`: each job is once in `job_queue`, or in `ongoing_job_q`, or in neither; while it waits no session has its
  id, and while it is ongoing exactly one has. That makes `jpeg_cb(ses[s].job)` a callback for the right job;
- `LifeInv`: how far a create, an abort or a destroy is, and that the jobs of a destroyed session are in no queue;
- `HealthyInv`: a component has at most one command pending, and that is the one the holder of `job_lock` (`MoveAsked`) or an abort
  (`AbortAsked`) waits for, so that an event is taken for what it is; a component that encodes has a job that is ongoing, not
  answered and not over; the handle of the session is in `session_handle_q`, with the manager, with the component or in a callback
  that gives it back (`EncodingInv`, `ReturnInv`, `HandleInv`, `ServedInv`);
- `WakeInv`: a session in use is available, or its job is ongoing, or it is being given back, which ends in a post to `job_sem`.

None of `EncoderExact` is inductive without these: `AnsweredOnce` needs that the component has reported what it was told before, `NoLostWakeup`
that the token a full `ongoing_job_q` spends is posted again. Each group of steps has a lemma that asks only of the session that takes the step
(`LocalStep`, `MoveStep`, `ServeStep`, `HalStep`, `HeldStep`, `CallsOff`); `LifeUntouched` and `HealthyUntouched` do the others.
Theorems: `Inductive`, `EncoderStaysExact`, `SilentWhenOver`. The attempt found that two clauses of `EncoderExact` were false for components that
fail twice, which one fault had not shown.

The assumptions are those on the constants in each module (`...Assumption`), plus
the hypotheses above. Only model-checked:

- liveness (`Progress`, `CallsReturn`, `EveryCallReturns`): fairness and ENABLED are beyond the prover;
- `RequestPipeline`, `PostProc`: their queues are filtered (`SelectSeq`) and summed
  (folds), and what these return for every input needs induction over data (`JpegJobs` has `Without` and `MmChannel` has `InSlots` in the
  place of `SelectSeq`: the increasing enumeration of the places that are kept, which can be reasoned about, as `Enumerated` and
  `WithoutKeeps` do);
- `HalApi`, `Parameters`: tables of cases, which TLC enumerates.

## Not modelled

- Of the modelled parts: the items named "left out", "off" and "assumptions" above;
  callbacks registered while ACTIVE; SYNC callbacks; buffer mapping and
  its timed wait at STREAMON; BATCH user buffers; shim commands; a failing
  REQBUFS.
- HAL1's muxer of two cameras, HAL3's stream configuration and channels, the flash and
  the factory, the OMX core: planned. Hazards known there are listed in `PROJECT.json`
  with a note.
- Of the parameters: what "left out" names above, the tables of supported values, and HAL3's translation.
- Vendor tags, EXIF, memory allocation: large tables and
  I/O without interleaving. Display, USB camera, 2D library, fingerprint, infrared,
  audio: forwarding to vendor code.

## Plan

Done: the path of a frame from the poll thread to the HAL (`PollThread`, `CmdThread`,
`MmStream`, `SuperbufQueue`, `MmChannel`), the camera object, HAL1's state machine, post
processor and JPEG, HAL1's parameters, HAL3's requests, the layout of frames. Next, most important first:

1. Proofs: `PipelineExact` of `PostProc`, `AnswersExact` of `RequestPipeline`, with their queues
   as enumerations.
2. HAL3's configuration of streams and its channels.
3. `Flash` with the factory, `Muxer`, `OmxCore`, `PerfLock`, frame sync; crop mapping as a pure algorithm.
