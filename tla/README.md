# IRIS V2 in TLA+

IRIS V2 (`src/`) is a multi-camera vision runtime in C++20 and CUDA.  Frames
come from live cameras or from video files, are grouped across cameras, pass
through pose estimation and end in a recording, a preview and a pose export.
The arithmetic is on the GPU; what is hard about the host program is its
threads.  A run has up to a dozen of them: two per camera, one per stage, one
for the disk, those of the preview, the one that runs the pipeline, the one that
serves commands, and the callers of the API.  They meet in bounded channels,
promises, mutexes, joins and callbacks of Media Foundation.  This directory
models that host program and the matching and tracking algorithms behind it, checks the
models with TLC and proves what is safety in them with TLAPS, all but how near the
estimates of the capture clock are.

## 1. The system

| Part | Source | State it keeps | Operations | Talks to | Module |
|---|---|---|---|---|---|
| Channel | `include/iris/pipeline/Channel.hpp` | deque, capacity, policy, `closed_`, statistics, two condition variables | `send`, `receive`, `try_receive`, `close` | every thread below | `Channel` |
| Stage | `src/pipeline/Stage.cpp` | worker, `failure_` | `start`, `run`, `stop` | its input and output channel | `Pipeline` |
| Pipeline | `src/runtime/Pipeline.cpp` | stages, channels, `production_stop_requested_` | `start`, `wait`, `stop_producing`, `stop`, `healthy` | all stages; the runtime | `Pipeline` |
| Runtime | `src/runtime/Runtime.cpp` | `state_`, configurations, `recording_`, request channel, pipeline thread | `execute`, `stop`, one handler per command | API, CLI, Pipeline | `RuntimeControl` |
| CaptureStage, MediaFoundationSource | `src/stages/capture/` | `source_`, `reader_`, `closing_`, `callbacks_inflight_`, sample queue, `healthy` | `open`, `read`, `close`, callback, `start`, `stop_producing`, `wait` | Media Foundation, the camera's channel | `LiveCapture` |
| Capture clock | `src/stages/capture/timing/CaptureClock.cpp` | window of points, slope, last estimate | `observe`, `reset` | reader and decode thread | `CaptureClock` |
| FrameSynchronizerStage | `src/stages/capture/FrameSynchronizerStage.cpp` | a buffer of frames per camera | `run`, `match`, `emit_expired_partial` | camera channels, first pipeline channel | `FrameSynchronizer` |
| SynchronizedVideoStage, VideoFileReader | `src/stages/capture/` | readers, frame pools, `finished_`, `healthy_` | `run`, `stop_producing`, `wait`; `read` | first pipeline channel | `SynchronizedVideo`, `VideoFileReader` |
| Frame pool | `src/infrastructure/gpu/FramePool.cpp` | slots and their leases | `acquire`, release by the last owner | whoever holds a frame | `SynchronizedVideo` |
| Pose engine: association and tracker | `src/stages/pose/MultiviewCudaPostprocess.cu` | slots with identity, life cycle, joints | the kernels of one inference | pose stage | `Association`, `EpipolarAssignment`, `Hungarian`, `Tracker` |
| OutputStage | `src/stages/output/OutputStage.cpp` | `accepting_disk_`, `recording_failed_`, disk queue, writers | coordinator, disk worker, `start_recording`, `stop_recording`, `configure_disk`, `stop` | pose channel, preview, MP4 writers | `DiskRecording` |
| GpuMp4Writer | `src/stages/output/disk/GpuMp4Writer.cpp` | surfaces, encoder, partial file | `write`, `finalize` | disk worker | `Mp4Writer` |
| Preview | `src/stages/output/PreviewSink.cpp`, `H264Transport.cpp`, `PreviewHttpServer.cpp` | queues, encoder, sessions, shared memory | `publish`, `configure`, `start`, `stop`, sessions | coordinator, browsers | `PreviewSink`, `PreviewServer` |
| Rig calibration | `src/tools/RigCalibrationTool.cpp` | latest packet, status, worker; the store | `observe`, `start`, `cancel`, `run` | frame tap, Runtime, pose stage | `RigCalibration` |
| REST API, snapshots | `src/api/RestApiServer.cpp`, `SnapshotBatchSource.cpp` | sessions; latest batch and its generation | one handler per endpoint; `publish`, `wait_for_cameras` | Runtime, output stage | `RestApi` |

Where it is hard:

* **Who joins whom.** Stopping a run is a sequence of closes and joins, done by
  the pipeline thread, sometimes helped by the control thread.  Each join waits
  for a thread that may itself be blocked in a channel, a callback or a promise.
* **One notification per item.** The channel uses `notify_one` with several
  senders and receivers.
* **Commands against the data path.** A recording is started and stopped by the
  control thread while packets flow, writes fail and the run ends.
* **Failure in the middle.** A start that fails half way, a stage that throws, a
  camera that disappears, a reconfiguration whose new pipeline does not start.
* **Time.** Frames are matched by estimated capture times that arrive late, out
  of step, or not at all.
* **Leases.** A frame lives in a slot of a bounded pool as long as anybody,
  in any thread, refers to it.
* **Identity.** A person keeps a number over lost detections, and slots are used
  again for others.

The hazards of the code, each at its line and with the properties that watch
it, are the list `hazards` of `PROJECT.json`.

## 2. The modules

`LossyQueue` is the abstract specification of a channel and `Channel` implements
it.  The other modules use channels at that level of abstraction: a send that
would wait is not enabled.  `RuntimeControl` sits above `Pipeline` and reduces it
to a thread that starts or fails, runs, and ends by itself or when told.  The
modules below `Pipeline` open up one of its stages each.

    RestApi             sessions, snapshots
    RuntimeControl      commands, state_, pipeline thread
        Pipeline        source -> tap -> pose -> output, starts, joins, failures
            LiveCapture         one camera: callback, reader, decoder, reconnection
                CaptureClock        the clock it dates frames with
            FrameSynchronizer   frames of the cameras -> batches
            SynchronizedVideo   files -> batches, frame pools, leases
                VideoFileReader     one file
            RigCalibration      the tool on the tap, the store, the pose stage's refresh
            Tracker             tracks and their identities
                Association, EpipolarAssignment, Hungarian    how rows and matches are computed
            DiskRecording       output coordinator, disk worker, recording commands
                Mp4Writer           one recording: a file per camera
            PreviewSink         event worker, encoder worker, shared memory
                PreviewServer       acceptor and sessions
                Channel             every queue between them
                    LossyQueue      what a channel promises

An `MC` module gives a module its bounds.  Three of them explore several
components in one run: `MCPose` the three algorithms and the tracker, `MCTools`
the calibration and the REST server, `MCLiveCapture` the threads of a camera and
its clock.  There an initial state belongs to one of them and leaves the others at
rest.

### Channel, LossyQueue, ChannelProofs (`Channel.hpp`)

`send` and `receive` of the code run under one mutex, so an action is one stay
in the critical section: `Send` and `Receive` up to the return or the wait,
`ResumeSend` and `ResumeReceive` from a wake-up on.  A wait set is the set of
threads whose `pc` is `waitWritable` or `waitReadable`; `notify_one` moves one
of them, chosen freely, to `woken`; `SpuriousWakeup` moves any.  `policy` and
`capacity` are chosen in `Init`.  `accepted` and `delivered` are histories, and
the statistics are those of `ChannelStats`.  Items are numbered by `calls`.

`LossyQueue` has four steps: `Put`, `Replace` (the oldest item makes room),
`Get` and `Close`.

### Pipeline, PipelineProofs (`Pipeline.cpp`, `Stage.cpp`, parts of `SynchronizedVideoStage.cpp` and `OutputStage.cpp`)

The runner's program counter walks through `start()`, `wait()` and, when one of
them throws, `stop()`; the source, the tap, the pose stage and the output
coordinator are small state machines that receive, hold a packet in `hand` and
send it.  Start, source, pose and pose export may fail at any point if the
constant `Failures` says so.  The control thread may start and stop a recording,
and it stops the run as `Runtime` does, in three steps other threads may come
between: it decides to (`RequestStop`), finalizes an active recording if the
output still takes commands (`FinalizeForStop`), and sets the stop of the source
(`TellToStop`).  `cause` is a history: why `wait()` left its loop.  In the live mode a full channel drops its oldest packet,
in the video mode it blocks (`CanSend`, `Send`).

### RuntimeControl, RuntimeControlProofs (`Runtime.cpp`)

Clients call `execute` (`Submit`, `SendRequest`, `Answer`), the main thread calls
`stop`, the control thread handles one command at a time with a program counter
inside the handler, and the pipeline thread is `thread`.  The configuring
commands are `camera`, `video` and `pose`, which differ in how they restore and
in what they refuse, and `configureOutput`, which never restarts but goes into the
output stage of a running pipeline, where the preview is configured.  `config` is
what a start would use, `before` what it was when the command began.  A start may
be refused by validation, fail in the constructor with an exception, be refused
when the output is configured, or fail in the pipeline thread.  A pipeline may
hang when it should end, and the preview while it is configured (`PipelineHangs`,
`ControlHangs`): `hung` says which, and `Blocked` who waits for it.

### LiveCapture, CaptureProofs (`CaptureStage.cpp`, `MediaFoundationSource.cpp`)

The steps of `close()` (set `closing_`, wait for the callbacks, release,
`Shutdown`) are taken by whichever thread is in it: the reader during a
reconnection, the runner, the control thread.  The calls of `open()` into Media
Foundation are steps of their own because `open()` does not hold the mutex.  A
callback goes through `requested`, `dispatched`, `inside` and `again`.
`crashed` records a call through a reader that is gone.

### CaptureClock, CaptureProofs (`CaptureClock.cpp`, the loops of `CaptureStage.cpp`)

The reader thread stamps samples with their arrival (`Arrive`), drops the oldest
when the channel is full, and asks for a reset when it has reconnected
(`Reconnect`).  `Observe` is one round of the decode thread with `observe()` and
`fit()`; the line is fitted exactly, over small integers.  A point remembers the
connection it came from, and `stolen` that a sample of an old connection took
the request to reset, until a reset comes with a sample of the present one.

### FrameSynchronizer, CaptureProofs (`FrameSynchronizerStage.cpp`)

A frame is its capture time.  The worker drains channel after channel (a camera
may send between two `try_receive`), matches until nothing fits, looks at the
closed flags, emits expired partial batches and goes round.  `match` is one
action per batch or per discarded frame; `Best` is the recursive search of the
code written as a choice: least skew, then the earliest combination in the order
`Before`.  `Tick` moves the clock.

### SynchronizedVideo, VideoFileReader, SynchronizedVideoProofs (`SynchronizedVideoStage.cpp`, `VideoFileReader.cpp`, `FramePool.cpp`)

A file is a sequence of packets, of its stream or another, with or without a
time stamp, and what its decoder does with them.  `VideoFileReader` is `read()`:
demux, send, receive, flush, end.  The worker takes a slot per camera, decodes
into it, may rotate into a second one, and makes a batch.  A slot is leased while
any packet that names it is in the channel, in a stage, the latest packet of the
snapshot source or in a calibration (`Leased`); `memory` is what was last written
there.

### Association, EpipolarAssignment, Hungarian, Tracker, PipelineProofs (`MultiviewCudaPostprocess.cu`)

Kernels of one CUDA stream run one after the other, so an action is a kernel or
a loop of one.  The three algorithms are step by step what the kernels do:
`Hungarian` the assignment with potentials, one column per step, its predecessor
path as the least set it leads through; `Association`
the greedy union of candidate pairs, cheapest first; `EpipolarAssignment` the
dynamic program of the three-camera case, with the sets of candidates themselves
where the code has masks of bits (`Number` is the mask), and the table, which the
code overwrites row by row, kept whole.  Their costs are exact numbers, from small
sets in the runs.

`Tracker` uses only what they promise: `Match` takes any one-to-one assignment,
`Recover` any rows that do not meet.  It has the life of a slot: matched, missed,
dormant, recovered, expired, given to a new identity.  Of a track's joints one
is kept, with the identity it was measured for (`owner`) as history.
`Recalibrate` is the engine created anew.

### DiskRecording, Mp4Writer, DiskRecordingProofs (`OutputStage.cpp`, `GpuMp4Writer.cpp`)

The coordinator takes a packet, locks `disk_submit_mutex_`, looks at
`accepting_disk_` and sends to the disk queue.  `start_recording` and
`stop_recording` take the same mutex, send a command and wait for its promise.
The disk worker goes through the cameras of a packet; opening, writing and
finishing a file may each fail, and an exception takes two steps (`fail`,
`fail2`), the two stores of its handler.  The runner calls `stop()`, and at the end of the files
`stop_recording` before it.  `stop()` first waits until the preview has stopped,
as long as that takes, while the coordinator and the worker go on.

A writer holds the frames its encoder has not given out, each with its surface.
`FinalizeAll` finishes every file of a recording, `FinalizeSome` fails at one of
them: those before it are renamed already.  `admitted` is what the coordinator
let in between a start and a stop.

### PreviewSink, PreviewServer, PreviewSinkProofs (`PreviewSink.cpp`, `H264Transport.cpp`, `PreviewHttpServer.cpp`)

The event worker and the frame worker take from their queues; the latter writes
the shared memory between two increments of its sequence lock and encodes an
image.  A session has evaluated its predicate (`deciding`), sleeps, is woken or
writes to its client, which may be `silent`.  `notify_all` in `stop()` reaches
only those that sleep already.  Starting may fail at every step: the server at its
socket or at `listen`, and a transport after the server has been started
(`StartTransports`), which then is stopped again.  Windows sockets are assumed, where closing an
acceptor ends its `accept`.

### RigCalibration, PipelineProofs (`RigCalibrationTool.cpp`, `MultiviewPoseStage.cpp`)

The tool's worker waits for a packet, computes, writes the file, renames it and
publishes; each step may throw.  The control thread starts, cancels (and joins),
clears, and starts and stops the pipeline.  `Process` is what the pose stage does
with a packet: it compares revisions and takes configuration, geometry and engine
from the store.

### RestApi, PipelineProofs (`RestApiServer.cpp`, `SnapshotBatchSource.cpp`)

A session reads, handles, writes its answer (`Respond`) and leaves.  Its client
need not send, nor read what is answered, and a command need not come back from
the runtime (`CommandReturns`).  A snapshot waits for a batch newer than its
call, looks at its skew, refuses a destination it cannot make, removes and
reserves it, writes into a
staging directory and renames it, each in a step of its own.

## 3. The runs

TLC checks each configuration to the end of its state space.

| Run | Bounds | States | What it shows |
|---|---|---|---|
| `channel` | 2 senders, 2 receivers, capacity 1 and 2, 5 sends, all policies | 7 201 | Counters, wake-ups, refinement of `LossyQueue`; `close()` releases everyone and waiting ends |
| `pipeline` | both modes, capacity 2, 4 batches, every failure | 233 630 | Nothing lost, failures reported, nothing left running, a run that is told to stop keeps its recording; a run that is over ends, except in the known deadlock |
| `pipeline_pose_failure` | video, capacity 2, 7 batches | | **violated**: a pose failure can hang `wait()` |
| `pipeline_eof` | video, capacity 2, 2 batches, no failure | | **violated**: the end of the files drops an active recording |
| `control` | 2 clients and `stop()`, 2 calls, queue of 1, 2 values of each configuration, of which the first is the initial one (they are alike) | 107 281 | `PipelineIsOwned`: one pipeline thread, settled states between commands, nobody behind a shutdown, no recording lost by a stop; a failed start restores; every call is answered unless it waits for a pipeline or a preview that hangs |
| `capture` | without reconnection a blocking channel of 1 with 2 samples and a dropping one with 1; with reconnection 2 connections; for the clock a window of 3, a channel of 2, 2 connections with 5 samples, delays up to one sample interval | 576 751 | Interfaces outlive callbacks and nothing is left; stop returns; a late failure ends the run; frame times increase and stay near the arrivals |
| `synchronizer` | 2 cameras with buffers of 2, times 0..2 and tolerance 1; 3 cameras with buffers of 1, times 0..1 and tolerance 0; both policies | 626 452 | Every frame is accounted for, batches are within the tolerance, a discarded frame had no partner; the worker ends and old frames leave |
| `files` | 2 files of up to 3 packets, 7 kinds of them, pools of 1 to 3, looped (4 batches) or not | 40 012 | A frame of every camera or an error, times increase, a frame that is held is not written over, slots come back |
| `pose` | 3 by 3 costs; 4 cameras with 5 detections; 3 cameras with 2 each (up to renaming of rows, detections and cameras, where the result does not depend on it but for ties); for the tracker 2 slots, 3 cameras, 5 detections, identities up to 3 | 588 945 | The assignment and the epipolar rows are as cheap as the cheapest by enumeration; the greedy union leaves a partition whose pairs agree, nothing out that fits, and writes its best rows; identities are not shared and not used again, a detection feeds one track, joints belong to their identity |
| `recording` | 2 cameras, queue of 1, 2 packets, 3 commands, 2 surfaces, an encoder that keeps 1 | 157 667 | A finalized recording has in every file what was admitted; finished files stay; the gauge; commands return, and `stop()` when the preview has stopped |
| `preview` | 7 scenarios of transports and clients, up to 3 packets, 2 clients | 134 362 | Nothing outlives the sink, whole packets, events go forward and arrive, `stop()` ends unless held |
| `tools` | 2 packets and 6 commands for the calibration; 2 clients, 2 batches, 1 directory for the server | 671 817 | One calibration per inference, whole snapshots, `cancel()` returns, and `stop()` unless a client or a command holds it |

Configurations that belong to one question share a run: `Init` of `Channel`
chooses the capacity and the policy, that of `Pipeline` the mode, and those of
`FrameSynchronizer`, `LiveCapture`, `PreviewSink` and `SynchronizedVideo` a
member of a constant set of setups.

**Why the bounds suffice.**  A queue of one or two places already has all its
cases (empty, one, full, full after a wake-up), and two threads on each side are
the least with which `notify_one` can wake the wrong one.  The pipeline has three channels of two and threads that
hold a packet: seven batches are one more than what fits before a producer
blocks for good (`pipeline_pose_failure`), four fill the channels in front of a
slow stage; failures, stops and commands may come between any two steps.  Two
calls of two clients and `stop()` compete for a queue of one, so that a call
waits for room while another is served and a third is behind a shutdown.  Three
commands and two packets allow a complete recording and a second start to the
same destination, with two cameras so that one can fail when the other is done,
and an encoder that keeps a frame, and its surface, when the next one comes.  With
two surfaces one is then always free and nobody waits for one.  That the encoder
keeps fewer frames than there are surfaces is an assumption of the run, not of
the proofs (the code asks for no delay and has eight, `OutputConfig.hpp:53`): one that kept them all would hold up the worker for good.  In the synchronizer, three instants and a tolerance of one give pairs that
match exactly, at the limit and not at all, with two frames buffered and several
combinations to choose from; three cameras are needed for a partial batch of
more than one frame.  A sample channel of one and two samples block the reader,
and two connections let the callback of the old one meet the new one, and a
sample of the old one the clock of the new one.  Two slots, five detections and
three identities let a track be lost, come back, and lose its slot to another.  Files of different lengths, with a
missing and a repeated time stamp, and pools from one slot on show every
way in which a batch is incomplete or a slot short.  Two sessions are the least
that can meet in a directory, and two packets of two rigs let the calibration and
the pipeline disagree.

For the safety properties section 5 lists the bounds do not matter: they are
proved for every value of the constants.  There the runs are what found the
invariants (each inductive one was checked by TLC before it was proved), and what the
mutants break.  For liveness and for what else the end of section 5 lists
they are all there is.

**Fairness.**  Weak fairness of each thread's next step stands for the
operating system's scheduler; the one exception is said below.  In `Channel` a
woken thread goes on (its resumption stays enabled until it is taken); calls,
closes and spurious wake-ups are owed by nobody.  In `Pipeline` the runner, the
stages and the output go on; the source does so in the video mode, where it reads
files, while a live source owes a batch to nobody until it is told to stop; a
stop that has begun is carried out.  In
`RuntimeControl` the callers, the main thread, the control thread and the
pipeline thread go on, except that a running pipeline need not end by itself and
that what hangs stays where it is: a pipeline that is told to stop may do so
because `wait()` joins a source that is blocked for good (`Pipeline!Stuck`), the
preview holds its `stop()` (`PreviewSink!StopEndsUnlessHeld`), or the capture has
reopened its device behind the stop (`LiveCapture!ReopenedBehindStop`).
In `DiskRecording` a command that has begun, the coordinator and the worker go
on, packets and new commands need not come, and the preview need not stop; a command waits for
`disk_submit_mutex_` under weak fairness, which suffices because the packets are
bounded: a stream that never pauses and an unfair mutex could delay it further.
In the synchronizer the worker goes on and time passes.  In `LiveCapture` threads
and running callbacks go on, the device owes nothing; `RunEnds` exempts the
states in which `open()` has cleared `closing_` behind a stop, where `close()`
has to find a moment without a callback.  In `PreviewSink` the
sessions and `stop()` go on, and a worker that keeps asking for the mutex gets it
in the end (strong fairness: the sessions take it too); a client need not read,
send or leave.  In
`SynchronizedVideo` the holders of packets go on, except that the snapshot source
keeps its latest.  In `RigCalibration` and `RestApi` the worker, the control
thread, the sessions and `stop()` go on; a client need not send or read, and a
command need not come back.

**Deadlock** is checked wherever `CHECK_DEADLOCK FALSE` is absent.  The other
systems end: their threads are joined and the bounded calls are used up.

**Mutants.**  For each checked property `PROJECT.json` names a changed
definition, a plausible slip in that code, with which the property fails.  They
stand before the definition they change, marked `Mutant`.

## 4. What the models show of the code

Two runs are expected to fail, because the code does what a comment or a document
of it denies:

* *A pose failure in the video mode can hang the pipeline thread.*
  `Pipeline::stop` closes the channels before it joins, `wait` does not and is
  called first (`pipeline_pose_failure`).
* *At the end of the files an active recording is abandoned*, since
  `natural_video_eof` is computed when `wait()` is entered (`Pipeline.cpp:220`),
  before the files have ended; `docs/video-ingestion.md:16-17` says it is drained
  and finalized (`pipeline_eof`).

The other places where code and documents differ are behaviour of the models,
and the properties are stated so that they tell exactly what does hold:

* A reconfiguration whose pipeline constructor throws is not undone
  (`Runtime.cpp:677`, against `README.md:135`): `threw` in `FailedStartRestores`.
* `start_recording` racing `stop()` leaves the gauge on (`OutputStage.cpp:391`,
  against `docs/api.md:18`): `running` in `GaugeTellsAdmission`.
* The files of a recording are renamed one by one and before the frames are
  counted (`GpuMp4Writer.cpp:229`, `OutputStage.cpp:520`, against
  `docs/output-stage.md:25-27`): after a failure of the second camera the file
  of the first is final.  A partial file that is left makes the next recording to
  that destination fail.  `bytes_written` is always 0 (`GpuMp4Writer.cpp:341`).
* The synchronizer sends the pair of least skew first, a later one before an
  earlier one (`FrameSynchronizerStage.cpp:88`, against
  `docs/output-stage.md:29`), which the MP4 writer answers with an error; and
  the last frame of a camera can stay in its channel (`:38`, against
  `FrameSynchronizerTests.cpp:58`).
* The first estimate of the clock after a reset is the time stamp of the stream
  as it is (`CaptureClock.cpp:47`), not in the time of the host as
  `docs/capture-stage.md:3` has it.  A frame may therefore go back in time over a
  reconnection.  A reset that was asked for is taken by whatever sample is
  next in the channel (`CaptureStage.cpp:102`): `stolen` in
  `EstimatesFollowTheHost`.  A reset that such an old sample brings itself does
  not help, since the next ones are fitted with it: with two samples in the channel
  the fit then mixes two connections although the clock was reset after the theft.
* A gap in the packets a preview client gets is not marked
  (`PreviewHttpServer.cpp:198`, against `docs/preview-sink.md:39`).
* `stop()` of the preview server can wait for a session that missed its
  notification or reads from a silent client (`StopEndsUnlessHeld` names both
  and shows that there is no third), and the timeouts of the REST server do not
  apply to its blocking reads and writes, so that a client that neither sends nor
  reads holds its `stop()` too.
* `execute` has no timeout: a call that stops a pipeline which hangs, or that
  configures a preview which does, is not answered, nor is any behind it, and
  `Runtime::stop()` does not return (`Blocked` in `EveryCallIsAnswered`).
* A calibration that is cleared while the worker computes the revision
  dereferences null (`RigCalibrationTool.cpp:146`, `crashed`); a revision can be
  used twice after a clear; a calibration cancelled during inference is still
  published; and the latest packet may be of an earlier pipeline (`:99`).
* A recalibration creates the engine anew and its identities begin at 1 again,
  although `docs/api.md:81` calls `track_id` stable.  A new identity that takes a
  slot in the frame in which its track became dormant inherits the detection that
  track held.  The loop that names unnamed tracks never finds one (lemma
  `NothingToName`).
* A pool of one slot starves the video source (`SlotsComeBack` is for the others).
* A REST session notifies after it has unlocked (`RestApiServer.cpp:188`), when
  `stop()` may have destroyed the server.

## 5. The proofs

Every theorem holds for all values of the constants that satisfy the assumptions named
with it; TLAPS checks the proofs to the last leaf.  Eight modules hold them, and
each invariant they strengthen a property with is a conjunction of named parts
with a comment each.  `DataTheorems` has what they share about data: least and
greatest elements of finite sets of numbers, what appending and removing do to a
sequence, sums, and that a function defined by recursion over an interval exists.  `PipelineProofs` has the proofs of the pipeline and of what
hangs on it, the pose stage's algorithms, the calibration and the REST server.  The assumptions say only of what kind a constant is (a
capacity is a positive number, a bound a natural number, the main thread is not a
client) and what the code fixes: cameras are numbered from 1, a directory to
record to exists, the mutex's value "free" is the name of no caller, the clients
of the preview are finitely many, and a request of the REST server is for one of
its handlers.  One bounds a size:
a candidate of `EpipolarAssignment` is a byte below 255, which is none.

### The channel

`ChannelProofs` proves, for every set of senders and receivers, every
`MaxCapacity` and every `MaxSends`, from `BoundsAssumption` and
`ThreadsAssumption` of `Channel` only:

| Theorem | Statement |
|---|---|
| `TypeCorrect` | `Spec => []TypeOK`: with it, the queue never exceeds the capacity |
| `FirstInFirstOut` | `Spec => []QueueIsNewest` |
| `Refinement` | `Spec => ImplementsLossyQueue` |
| `Wakeups` | `Spec => []NoLostWakeup` |
| `CountersAddUp` | `Spec => []Accounting` |

`StepEffect` is the lemma the others lean on: whatever a step is, it appends to
the queue, replaces its oldest item, takes its head, or leaves it alone, with
the history and the counters that go with it.  The order and the refinement then
need four cases and not one per action.  `Wakeups` is not inductive alone: it
counts woken threads against items, so the proof first shows how a return with
`notify_one` moves the cardinality of the woken set (`Counting`,
`ReturnSender`, `ReturnReceiver`) and then treats sends and receives apart
(`SendNoLost`, `ReceiveNoLost`).  `CountersAddUp` uses that a call ends exactly
when its sender becomes idle (`SendEnds`, `OthersEndNothing`).

### The pipeline

`PipelineProofs`, from `PipelineAssumption`:

| Theorem | Statement |
|---|---|
| `Orderly` | types; threads are joined in the order of the code, a channel that is closed has no sender left, a failure is kept (`JoinedInOrder`, `ClosedBehindSenders`, `FailuresAreKept`) |
| `RunsEndCleanly` | `Spec => []RunsEndCleanly`: what `wait()` tells is true, and the run is over when it tells |
| `StoppedRunsKeepRecordings` | `Spec => []StopKeepsRecording`: a recording is dropped only by a run that ended by itself |
| `VideoLosesNothing` | `Spec => []VideoIsLossless` |

`QueueEffect` plays the part of `StepEffect`: a step leaves the three channels
alone, appends, replaces the oldest packet of a live one, or takes a head.
`StopKeepsRecording` relates the end of a recording to an earlier moment, when
`wait()` left its loop, so it is not inductive.  `RecordingEndsWithRun` adds that
as long as `wait()` is in its loop, the source is told to stop only by the control
thread, and only when that has no recording left: what it finalizes before is
accepted, since the output takes commands until the loop has ended.  A stop that
comes between its steps after the loop has ended for another reason finds the
cause known already (`CauseIsKnown`).
For `VideoIsLossless` every packet between the source and the export is numbered
without a gap, channels and hands together (`Gapless`), a stage leaves its loop
only when its input is drained (`LeavesDrained`), and whatever ends a run goes
back to a request, a failure or the end of the files (`EndsForAReason`).

### Commands

`RuntimeControlProofs`, from `ControlAssumption`:

| Theorem | Statement |
|---|---|
| `Owned` | `Spec => []PipelineIsOwned` |
| `FailureRestores` | `Spec => []FailedStartRestores` |

One invariant serves both.  `Queueing` accounts for the callers: who sends holds
the mutex, who is queued waits and who waits is queued or served, and behind a
shutdown nobody gets in; that the shutdown is the last request is what makes the
loop end with an empty queue.  `Agreement` relates the control thread's program
counter, `state_` and the pipeline thread: outside a start and a stop they are
`Settled`, and who stops has marked it (`StoppingIsMarked`).  `Kept` follows a
recording: `recording_` knows of it, or the handler is about to note it, and a
stop finalizes before it tells the pipeline.  `Restores` says where in a handler
the old configuration is still, or again, in force.

### Recordings

`DiskRecordingProofs`, from `DiskAssumption` and `WriterAssumption`:

| Theorem | Statement |
|---|---|
| `Kept` | the inductive invariant |
| `Told` | `Spec => []RecordingIsTold` |
| `NeverDropsAFrame` | `Spec => FinalizedIsComplete`, an action property |
| `RecordingsAreKept` | `Spec => FilesAreKept`, an action property |

A finished file is complete because nothing between the admission and the muxer
loses a packet: `NothingIsLost` reads the admitted sequence backwards through
the disk queue, the packet in the worker's hand and the frames an encoder
holds.  That only works while commands and packets do not mix, which is
`Protocol`: one caller holds `disk_submit_mutex_`, its command is the last entry
of the queue, and its answer is fresh.  An applied command leaves the worker
with nothing to do (`AppliedLeavesNothing`), so what the caller does afterwards,
still under the mutex, meets nobody.  `Failures` says that a failure ends
admission and is remembered, `MetricFollows` that the gauge tells it, `WritersFit`
ties a writer to its partial file, `FinalStays` holds the file between the
worker's answer and the caller's return, and `Ending` covers `stop()`.

### Video files and leases

`SynchronizedVideoProofs`, from `ChannelAssumption`, `CamerasAssumption`,
`SetupsAssumption` and `IntervalAssumption`:

| Theorem | Statement |
|---|---|
| `Kept` | the inductive invariant |
| `FramesAreKept` | `Spec => []FramesAreSound` |
| `TimesGrow` | `Spec => []TimesIncrease` |
| `NothingIsCut` | `Spec => []EveryFrameOrAnError` |

That a slot keeps its frame while it is held needs that until a batch is built
nobody else refers to the slots it will have (`BuffersAreHeld`, `SlotsAreMine`),
and that what was decoded is in them (`ReadInOrder`, `DecodedIsThere`).  That a run ends
with every frame needs the readers in step: the same pass and the same frame,
except those read in this round (`Lockstep`), a first pass that counts with the
batches sent (`FirstPass`, `SentTogether`), readers that have given out what they
have demuxed (`ReadersFit`) and an end that has a reason (`Reasons`).
`DecodeEffect`, `BuildEffect` and `ReadEffect` say what a step of the worker
does, so that each part needs those and not every action.

### The two ends of a live capture

`CaptureProofs`.  About `FrameSynchronizer`, from `SyncAssumption`:

| Theorem | Statement |
|---|---|
| `Kept` | the inductive invariant |
| `BatchesStaySound` | `Spec => []BatchesAreSound` |
| `DiscardStaysSafe` | `Spec => []DiscardIsSafe` |

A discarded frame is hopeless for good because some camera has `Passed` it: in
its buffer, in its channel and in what it will send are only later frames, for which
the frames of a camera must stay in the order they were sent over both queues
(`InOrder`).  That the counters add up is about sums over cameras, which
`SumFunction` computes by a fold.  A fold is a recursive function on the subsets
of its domain, and where one would use induction the lemmas of `DataTheorems` take
a counterexample of least cardinality (`LeastExists`).  `BestIsAMatch` and
`OldestFrontIsOldest` show that what `match()` chooses exists.

About the threads of a camera, `LiveCapture`, from `CaptureAssumption`:

| Theorem | Statement |
|---|---|
| `InterfacesStaySafe` | `CSpec => []InterfacesAreSafe` |

Without reconnection the device is opened once (`OpensOnce`), and `MadeSoFar` has
what each call of `open()` found; from then on `closing_` is only ever set.
`ClosedForGood` is the argument of `close()`: behind `quiesce` in any of the
threads no callback is inside, and none gets in while `closing_` is set.  With
reconnection this fails (see section 4), and the property does not claim it.

About the clock, `CaptureClock`, from `ClockAssumption`:

| Theorem | Statement |
|---|---|
| `DatesGrow` | `ClockSpec => [](EstimatesGrow /\ FitIsOfOneConnection)`, two of the three parts of `EstimatesFollowTheHost` |

`observe()` takes 0 for "no estimate yet" (`CaptureClock.cpp:54`), so that
estimates grow only if the fit is never at 0: `FitIsPositive`.  The arrivals never
fall while the time stamps ascend, so that their covariance is not negative
(`GrowTogether`, Chebyshev's inequality on the sums of `fit()`), the last time
stamp is not below the mean (`DistancesCancel`), and the line ends at or above the
mean of the arrivals.  This needs the order of samples and points over the channel
and the window (`SamplesInOrder`, `PointsInOrder`, `PointsCameFirst`);
`RequestIsAnswered` says what a reset leaves behind.

### The preview

`PreviewSinkProofs`, from `PreviewLimits`, `PreviewClients`, `SinkSettings`,
`SinkLimits` and `SinkScenarios`:

| Theorem | Statement |
|---|---|
| `Kept` | the inductive invariant |
| `NothingOutlives` | `Spec => []SinkIsSound` |
| `WholePackets` | `Spec => []ReadersSeeWholePackets` |
| `EventsGoForward` | `Spec => EventsNeverGoBack`, an action property |

`WriterLocks` and `ReaderFollows` are the sequence lock: odd while a packet is
copied, and a reader that finds its number unchanged has read what is there.
`ServerEnds` and `OwnersAgree` say which threads are left at each step of
`start()` and `stop()` and which thread has the server, when `configure` and `stop()` meet.
`EventsInOrder` compares the event a client has, the one its session writes and the
newest.  What a session is offered (`Selected`) is a fold, treated like the sums
above.  `SessionMoves` and `ServerMoves` reduce the server's steps to eight shapes.

### Detections, tracks, calibrations and snapshots

These are the rest of `PipelineProofs`.  About `Association`, from
`AssociationAssumption`:

| Theorem | Statement |
|---|---|
| `AssociationHolds` | `ASpec => []AssociationIsConsistent` |

That all pairs of a row agree and that `node_track` and the tracks tell the same
is one invariant, `UnionInv`, stated over the detections that are `Together`.  The
table of tracks never runs out because every track takes two detections when it
starts, also one that is merged away later (`RoomIsLeft`).  That nothing is left
out that fits (`NothingFits`) is an argument over time: a pair the loop refuses is
`Settled`, because something together with one of its ends disagrees with something
together with the other, and groups only grow (`Grows`), so it stays settled.  That the
loop has seen every pair under the gate when it stops needs the list to be sorted:
the order of the keys is a strict total one (`CostsAreOrdered`), and a sequence that
has at each place the element with that many before it is in order
(`InOrderSorts`).  The same lemma ranks the rows, once the comparison of mean costs by
cross products is shown to be transitive (`Fractions`) and ties to be broken for
good (`LexIsOrdered`).

About `Hungarian`, from `HungarianAssumption`:

| Theorem | Statement |
|---|---|
| `AssignmentHolds` | `HSpec => []AssignmentIsOptimal` |

The argument is weak duality.  `DualFeasible` is the invariant of the potentials: no
edge is cheaper than the potentials of its ends, a matched one is exactly as
expensive, and a free column costs nothing.  It survives a turn of the loop because
the columns reached so far form a tree of tight edges with column 0 for its root and
no loop (`TreeIsTight`), and `minv` is the least distance from that tree
(`Distances`), so that the smallest is never negative.  `OneColumnEach` counts: the
rows before the one that is added have a column each, and as the path of the tree
leads back to column 0 (`PathLeadsBack`), exchanging along it gives one more row a column,
and no column two rows (`OntoIsOneToOne`).  There are as many dummy
columns as rows, hence always a free one, and it bounds every potential by the gate
(`PotentialsAreBounded`): no distance reaches infinity, which is what the code
compares with.  At the end the sum of the potentials is at most the cost of any
matching (`NoMatchingIsCheaper`) and at least that of the one selected (`SolutionIsPaid`).
Edges of cost 1e6F need no case of their own: they stand in for pairs that no matching has,
and the assumption that the gate is not above them is what excludes them.

About `EpipolarAssignment`, from `EpipolarAssumption`:

| Theorem | Statement |
|---|---|
| `EpipolarHolds` | `ESpec => []EpipolarRowsAreRight` |

The rows are carried by `EpipolarInvariant`: they are sound, hold each detection
once (`Once`) and only what a camera saw (`AllSeen`), their cameras agree, and
`InPhase` says how far they are filled before each step, which is what makes the next
step safe: it writes only where nothing has been written (`Blank`), and candidates no
row has (`Assignable`).  That nothing is lost while there is room is counting: a step
that appends fewer rows than there are detections left has filled the table.
That the dynamic program finds a cheapest assignment is shown for
any table of costs, by induction over its rows.  Downwards, no one-to-one matching of
the first `k` rows costs less than the entry of the set of candidates it takes
(`NoMatchingCostsLess`).  Upwards, the walk back through the choices takes a candidate
at most once (`SolutionIsAMatching`), and the entry it starts from is what its pairs
cost (`EntriesArePaid`); as that entry is the least of all, so is the
solution (`SolutionIsCheapest`).  The proof needs only that a cost is within the gate or
invalid, so it covers the costs of all three calls; `DynamicProgramIsOptimal` states it of
the first.  The recursive functions, the table and the walk back, exist by
`RecursionExists`, which `DataTheorems` proves for a step given as a function.

About `Tracker`, from `TrackerAssumption`:

| Theorem | Statement |
|---|---|
| `Sound` | `TSpec => []TracksAreSound`: types, and no two tracks with one identity |
| `Exclusive` | `TSpec => []OneTrackPerDetection` |
| `NewIdentities` | `TSpec => IdentitiesAreFresh`, an action property |
| `NothingLeftOver` | `TSpec => []JointsBelongToIdentity` |

`TracksAreSound` is inductive: an identity is below `nextId` and a slot has one
exactly when it is active or dormant, which makes every new one different.
`OneTrackPerDetection` is not: between the assignment and the update a row may be
extended by a seed, and what keeps it apart from the others is that every row is
`Covered` by `used` and that the seeds are disjoint (`SeedsDisjoint`);
`HoldInvariant` is the conjunction, and `TakenFacts` says what the union of a row
and a seed holds.  `NewIdentities` needs that the slot which `CHOOSE` picks for a
new track is free (`SlotIsFree`); the least element it is chosen by exists
because `<` is well-founded on the naturals (`LeastExists`).
`NothingLeftOver` carries `MemoryInvariant`: a joint that is valid was measured
for the slot's identity, and a slot that changes its identity forgets.

About `RigCalibration`, from no assumption, and `RestApi`, from
`RequestsAssumption`:

| Theorem | Statement |
|---|---|
| `OneCalibration` | `RSpec => []CalibrationIsCurrent` |
| `WholeSnapshots` | `PSpec => SnapshotsAreWhole`, an action property |

The pose stage notices a calibration by its revision only.  `RevisionsGrow` makes
the next one greater than the one in the store, also after a clear;
`PoseFollowsStore` and `PoseIsWhole` say that the pose stage, when it has the revision, has
the calibration, projections and engine included, until a clear starts the
revisions again.  `SessionIsSound` says for each place of a session what its staging
directory holds and which batch it has taken; `OwnStepIsSound` needs that a
destination that is reserved stays occupied (`OccupiedStays`).

### Only model-checked

* All liveness properties: fairness and `ENABLED` are out of the prover's reach.
* `NearTheArrivals`, the third part of `EstimatesFollowTheHost`.  Its bound is one
  for windows as small as those explored: the more points, and the less evenly they
  are spread because samples were lost, the further may a line through
  late arrivals end from the last of them.

No module declares a recursive operator of its own.

## 6. What is left out, and why

* Data: pixels, poses, paths, messages, formats.  A packet is a number, a frame
  a time, a configuration a model value.
* Metrics, except the recording gauge, which `GET /recording` reports.
* The synchronizer is modelled over one period of the capture clock: between two
  resets the times of a camera increase strictly.  `DiscardIsSafe` is not
  claimed across a reset.
* `CaptureClock` computes exactly.  What double loses (above 2^53 ns, 104 days of
  `steady_clock`) is not in the model.
* `LiveCapture` claims the quiet end without reconnection.  With it, an `open()`
  under way can undo what a concurrent `close()` has done: the device may stay
  open until the source is destroyed, or a call may go through a released reader.
* The pacing of video files (`realtime`) only delays, and ignores a stop while it
  sleeps.  `camera_decode_status()` and `camera_extents()` read `readers_` while a
  looping worker replaces it, and `preview_config_` is written without
  `state_mutex_`: data races of readers that no model has.
* `PreviewServer` has one camera, and each client connects once; the limit of 32
  REST sessions is reached nondeterministically (`Accept`).
* GpuDecoder, engines, kernels of pixel arithmetic, the geometry inside the
  tracker and the DA3 reconstruction are numeric code on one thread; their outcome
  (a result, none, an exception) is a choice of the models that call them.
  The viewer, the command line and the tools are outside the runtime.

## 7. Plan

Every component with control of its own has a module, and the safety properties
of all of them, but one bound of the clock, have proofs.  What is worth doing next, in this order:

| Module | Next |
|---|---|
| `DiskRecording` | implements a recording service: idle, recording, finalized or failed |
| `RuntimeControl` | implements an atomic controller, whose commands take effect one at a time |
