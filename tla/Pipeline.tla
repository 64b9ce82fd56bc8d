------------------------------ MODULE Pipeline ------------------------------
(***************************************************************************)
(* iris::Pipeline (src/runtime/Pipeline.cpp) and the threads it starts and *)
(* joins:                                                                  *)
(*                                                                         *)
(*     source --toTap--> tap --toPose--> pose --toOutput--> output         *)
(*                                                                         *)
(* The source is SynchronizedVideoStage, reading files to their end, or    *)
(* the live capture.  tap and pose are Stages (src/pipeline/Stage.cpp) and *)
(* output is the coordinator of OutputStage.  The runner is the thread of  *)
(* Runtime::pipeline_loop: it starts the stages, waits until the run is    *)
(* over, and stops them one after the other.  The control thread may ask   *)
(* for the end of the run and may start and stop a recording meanwhile.    *)
(*                                                                         *)
(* A channel is the atomic queue Channel.tla is shown to implement: a send *)
(* that would wait is simply not enabled.  A packet is its number.         *)
(***************************************************************************)
EXTENDS Naturals, Sequences

CONSTANTS Modes,            \* the modes explored: "video", "live"
          Failures,         \* what may fail: "start", "source", "pose", "export"
          ChannelCapacity,  \* 2 in the code
          Batches           \* bound: batches in the files, or camera batches

ASSUME PipelineAssumption ==
    /\ Modes \subseteq {"video", "live"}
    /\ Failures \subseteq {"start", "source", "pose", "export"}
    /\ ChannelCapacity \in Nat \ {0}
    /\ Batches \in Nat

Channels == {"toTap", "toPose", "toOutput"}
Stages == {"tap", "pose", "output"}
Input == [tap |-> "toTap", pose |-> "toPose", output |-> "toOutput"]
Output == [tap |-> "toPose", pose |-> "toOutput"]

VARIABLES
    mode,           \* video_stage_ set or not
    queue, closed,  \* the three channels
    stage,          \* what each stage's thread is doing
    hand,           \* the packet each stage is working on
    source,         \* what the source's thread is doing
    next,           \* batches the source has taken up so far
    finished,       \* SynchronizedVideoStage::finished_
    sourceStop,     \* stop requested of the source's thread
    sourceFailed, poseFailed, exportFailed, \* the failures recorded so far
    prodStop,       \* production_stop_requested_
    runner,         \* where the pipeline thread is
    eof,            \* natural_video_eof of wait()
    failure,        \* wait() holds an exception to rethrow
    recording,      \* "none", "active", "finalized" or "abandoned"
    cause,          \* history: why wait() left its loop: "told", "failure" or "eof"
    stopAt,         \* where the control thread's stop_pipeline is, or "no"
    exported        \* history: packets that reached the output stage

chans == <<queue, closed>>
failures == <<sourceFailed, poseFailed, exportFailed>>
sourceVars == <<source, next, finished, sourceStop>>
stageVars == <<stage, hand>>
waitVars == <<eof, failure, cause>>
runnerVars == <<runner, waitVars>>
controlVars == <<recording, stopAt>>
vars == <<mode, chans, stageVars, sourceVars, failures, prodStop, runnerVars,
          controlVars, exported>>

Init ==
    /\ mode \in Modes
    /\ queue = [c \in Channels |-> <<>>]
    /\ closed = [c \in Channels |-> FALSE]
    /\ stage = [s \in Stages |-> "off"]
    /\ hand = [s \in Stages |-> 0]
    /\ source = "off" /\ next = 0
    /\ finished = FALSE /\ sourceStop = FALSE
    /\ sourceFailed = FALSE /\ poseFailed = FALSE /\ exportFailed = FALSE
    /\ prodStop = FALSE
    /\ runner = "startOutput"
    /\ eof = FALSE /\ failure = FALSE /\ cause = "none"
    /\ recording = "none" /\ stopAt = "no"
    /\ exported = <<>>

-----------------------------------------------------------------------------
(* Channels: Block in video mode, DropOldest in live mode. *)

CanSend(c) == closed[c] \/ mode = "live" \/ Len(queue[c]) < ChannelCapacity

Send(c, p) ==
    /\ CanSend(c)
    /\ queue' = [queue EXCEPT ![c] =
                    CASE closed[c] -> @
                      [] ~closed[c] /\ Len(@) < ChannelCapacity -> Append(@, p)
                      [] ~closed[c] /\ Len(@) >= ChannelCapacity -> Append(Tail(@), p)]

-----------------------------------------------------------------------------
(* The source's thread: SynchronizedVideoStage::run, or the capture and    *)
(* synchronizer threads taken together.                                    *)

SourceSeesStop ==
    /\ source = "produce" /\ sourceStop
    /\ source' = "closing"
    /\ UNCHANGED <<next, finished, sourceStop, sourceFailed>>

SourceTakesBatch ==
    /\ source = "produce" /\ ~sourceStop /\ next < Batches
    /\ next' = next + 1
    /\ source' = "send"
    /\ UNCHANGED <<finished, sourceStop, sourceFailed>>

SourceEof ==
    /\ source = "produce" /\ ~sourceStop /\ mode = "video" /\ next = Batches
    /\ finished' = TRUE
    /\ source' = "closing"
    /\ UNCHANGED <<next, sourceStop, sourceFailed>>

SourceFails ==
    /\ source = "produce" /\ "source" \in Failures
    /\ sourceFailed' = TRUE
    /\ source' = "closing"
    /\ UNCHANGED <<next, finished, sourceStop>>

SourceSend ==
    /\ source = "send"
    /\ Send("toTap", next)
    /\ source' = IF closed["toTap"] THEN "closing" ELSE "produce"
    /\ UNCHANGED <<closed, next, finished, sourceStop, sourceFailed>>

SourceClose ==
    /\ source = "closing"
    /\ closed' = [closed EXCEPT !["toTap"] = TRUE]
    /\ finished' = (finished \/ mode = "video")
    /\ source' = "done"
    /\ UNCHANGED <<queue, next, sourceStop, sourceFailed>>

SourceStep ==
    /\ \/ (SourceSeesStop \/ SourceTakesBatch \/ SourceEof \/ SourceFails) /\ UNCHANGED chans
       \/ SourceSend
       \/ SourceClose
    /\ UNCHANGED <<mode, stageVars, poseFailed, exportFailed, prodStop, runnerVars,
                   controlVars, exported>>

-----------------------------------------------------------------------------
(* Stage::run of tap and pose *)

StageReceive(s) ==
    LET c == Input[s] IN
    /\ stage[s] = "receive" /\ queue[c] # <<>>
    /\ queue' = [queue EXCEPT ![c] = Tail(@)]
    /\ hand' = [hand EXCEPT ![s] = Head(queue[c])]
    /\ stage' = [stage EXCEPT ![s] = "send"]
    /\ UNCHANGED <<closed, poseFailed>>

\* process() throws: the packet is gone and the stage leaves its loop.
PoseFails ==
    /\ "pose" \in Failures
    /\ stage["pose"] = "receive" /\ queue["toPose"] # <<>>
    /\ queue' = [queue EXCEPT !["toPose"] = Tail(@)]
    /\ poseFailed' = TRUE
    /\ stage' = [stage EXCEPT !["pose"] = "closing"]
    /\ UNCHANGED <<closed, hand>>

StageSend(s) ==
    /\ stage[s] = "send"
    /\ Send(Output[s], hand[s])
    /\ stage' = [stage EXCEPT ![s] = IF closed[Output[s]] THEN "closing" ELSE "receive"]
    /\ hand' = [hand EXCEPT ![s] = 0]
    /\ UNCHANGED <<closed, poseFailed>>

StageInputEnds(s) ==
    /\ stage[s] = "receive" /\ queue[Input[s]] = <<>> /\ closed[Input[s]]
    /\ stage' = [stage EXCEPT ![s] = "closing"]
    /\ UNCHANGED <<chans, hand, poseFailed>>

StageClose(s) ==
    /\ stage[s] = "closing"
    /\ closed' = [closed EXCEPT ![Output[s]] = TRUE]
    /\ stage' = [stage EXCEPT ![s] = "done"]
    /\ UNCHANGED <<queue, hand, poseFailed>>

StageStep(s) ==
    /\ \/ StageReceive(s)
       \/ s = "pose" /\ PoseFails
       \/ StageSend(s)
       \/ StageInputEnds(s)
       \/ StageClose(s)
    /\ UNCHANGED <<mode, sourceVars, sourceFailed, exportFailed, prodStop, runnerVars,
                   controlVars, exported>>

(* OutputStage::run_coordinator.  A failed export is remembered and does   *)
(* not stop the coordinator.                                               *)

OutputStep ==
    /\ stage["output"] = "receive"
    /\ \/ /\ queue["toOutput"] # <<>>
          /\ exported' = Append(exported, Head(queue["toOutput"]))
          /\ queue' = [queue EXCEPT !["toOutput"] = Tail(@)]
          /\ \/ UNCHANGED exportFailed
             \/ mode = "video" /\ "export" \in Failures /\ exportFailed' = TRUE
          /\ UNCHANGED stage
       \/ /\ queue["toOutput"] = <<>> /\ closed["toOutput"]
          /\ stage' = [stage EXCEPT !["output"] = "done"]
          /\ UNCHANGED <<queue, exported, exportFailed>>
    /\ UNCHANGED <<mode, closed, hand, sourceVars, sourceFailed, poseFailed, prodStop,
                   runnerVars, controlVars>>

-----------------------------------------------------------------------------
(* Pipeline::start, run by the pipeline thread.  Every stage's start may   *)
(* throw except tap's and the video source's.                              *)

StartStage(s, from, to) ==
    /\ runner = from
    /\ \/ /\ stage' = [stage EXCEPT ![s] = "receive"]
          /\ runner' = to
       \/ /\ "start" \in Failures /\ s # "tap"
          /\ runner' = "throw"
          /\ UNCHANGED stage
    /\ UNCHANGED <<chans, hand, sourceVars, prodStop, waitVars, recording>>

StartSource ==
    /\ runner = "startSource"
    /\ \/ /\ source' = "produce"
          /\ runner' = "started"
       \/ /\ "start" \in Failures /\ mode = "live"
          /\ runner' = "throw"
          /\ UNCHANGED source
    /\ UNCHANGED <<chans, stageVars, next, finished, sourceStop, prodStop, waitVars,
                   recording>>

(* Pipeline::wait.  natural_video_eof is read once, on entry. *)

EnterWait ==
    /\ runner = "started"
    /\ eof' = (mode = "video" /\ finished /\ ~sourceFailed /\ ~prodStop)
    /\ runner' = "watch"
    /\ UNCHANGED <<chans, stageVars, sourceVars, prodStop, failure, cause, recording>>

Healthy == ~poseFailed /\ ~sourceFailed

StopProducing == prodStop' = TRUE /\ sourceStop' = TRUE

\* Mutant: the end of the video is not looked for.
WatchHealthOnly ==
    /\ runner = "watch"
    /\ prodStop \/ ~Healthy
    /\ cause' = IF prodStop THEN "told" ELSE IF ~Healthy THEN "failure" ELSE "eof"
    /\ StopProducing
    /\ runner' = "joinSource"
    /\ UNCHANGED <<chans, stageVars, source, next, finished, eof, failure, recording>>

Watch ==
    /\ runner = "watch"
    /\ prodStop \/ ~Healthy \/ (mode = "video" /\ finished)
    /\ cause' = IF prodStop THEN "told" ELSE IF ~Healthy THEN "failure" ELSE "eof"
    /\ StopProducing
    /\ runner' = "joinSource"
    /\ UNCHANGED <<chans, stageVars, source, next, finished, eof, failure, recording>>

\* Mutant: the source is not waited for before its channel is closed.
JoinSourceAtOnce ==
    /\ runner = "joinSource"
    /\ failure' = sourceFailed
    /\ runner' = "stop tap"
    /\ UNCHANGED <<chans, stageVars, sourceVars, prodStop, eof, cause, recording>>

JoinSource ==
    /\ runner = "joinSource" /\ source = "done"
    /\ failure' = sourceFailed
    /\ runner' = "stop tap"
    /\ UNCHANGED <<chans, stageVars, sourceVars, prodStop, eof, cause, recording>>

\* Stage::stop and OutputStage::stop: close the stage's own input, then join.
CloseInput(s, from, to) ==
    /\ runner = from
    /\ closed' = [closed EXCEPT ![Input[s]] = TRUE]
    /\ runner' = to
    /\ UNCHANGED <<queue, stageVars, sourceVars, prodStop, waitVars, recording>>

Join(s, from, to) ==
    /\ runner = from /\ stage[s] = "done"
    /\ runner' = to
    /\ UNCHANGED <<chans, stageVars, sourceVars, prodStop, waitVars, recording>>

FinalizeAtEof ==
    /\ runner = "finalize"
    /\ recording' = IF eof /\ recording = "active" THEN "finalized" ELSE recording
    /\ runner' = "stop output"
    /\ UNCHANGED <<chans, stageVars, sourceVars, prodStop, waitVars>>

\* The disk worker drops the writers of a recording nobody finalized.
Abandon == recording' = IF recording = "active" THEN "abandoned" ELSE recording

EndWait ==
    /\ runner = "join output" /\ stage["output"] = "done"
    /\ Abandon
    /\ runner' = IF failure \/ poseFailed \/ exportFailed THEN "throw" ELSE "stopped"
    /\ UNCHANGED <<chans, stageVars, sourceVars, prodStop, waitVars>>

(* An exception of start or wait ends in Pipeline::stop, which closes the  *)
(* channels before it joins anybody.                                       *)

Abort ==
    /\ runner = "throw"
    /\ StopProducing
    /\ closed' = [c \in Channels |-> TRUE]
    /\ runner' = "abort"
    /\ UNCHANGED <<queue, stageVars, source, next, finished, waitVars, recording>>

\* Mutant: stop() returns while a stage may still be running.
AbortedAtOnce ==
    /\ runner = "abort"
    /\ source \in {"off", "done"}
    /\ Abandon
    /\ runner' = "failed"
    /\ UNCHANGED <<chans, stageVars, sourceVars, prodStop, waitVars>>

Aborted ==
    /\ runner = "abort"
    /\ source \in {"off", "done"}
    /\ \A s \in Stages : stage[s] \in {"off", "done"}
    /\ Abandon
    /\ runner' = "failed"
    /\ UNCHANGED <<chans, stageVars, sourceVars, prodStop, waitVars>>

RunnerStep ==
    /\ \/ StartStage("output", "startOutput", "startPose")
       \/ StartStage("pose", "startPose", "startTap")
       \/ StartStage("tap", "startTap", "startSource")
       \/ StartSource
       \/ EnterWait \/ Watch \/ JoinSource
       \/ CloseInput("tap", "stop tap", "join tap")
       \/ Join("tap", "join tap", "stop pose")
       \/ CloseInput("pose", "stop pose", "join pose")
       \/ Join("pose", "join pose", "finalize")
       \/ FinalizeAtEof
       \/ CloseInput("output", "stop output", "join output")
       \/ EndWait
       \/ Abort \/ Aborted
    /\ UNCHANGED <<mode, failures, stopAt, exported>>

-----------------------------------------------------------------------------
(* The control thread, while the runtime is in state Running.  Its         *)
(* stop_pipeline looks whether there is a recording, finalizes it, tells   *)
(* the pipeline to stop, and joins the pipeline thread: three steps        *)
(* between which the run may end by itself, and no further command.        *)

\* The output stage takes commands until its own stop().
Accepting == runner \in {"started", "watch", "joinSource", "stop tap", "join tap",
                         "stop pose", "join pose", "finalize", "stop output"}

StartRecording ==
    /\ Accepting /\ stopAt = "no" /\ recording # "active"
    /\ recording' = "active"
    /\ UNCHANGED <<prodStop, sourceStop, stopAt>>

StopRecording ==
    /\ Accepting /\ stopAt = "no" /\ recording = "active"
    /\ recording' = "finalized"
    /\ UNCHANGED <<prodStop, sourceStop, stopAt>>

\* state_ is Running from the end of start() to the end of the thread.
Running == Accepting \/ runner = "join output" \/ (runner \in {"throw", "abort"} /\ cause # "none")

\* Mutant: the pipeline is told before its recording is finalized.
RequestStopAtOnce ==
    /\ Running /\ stopAt = "no"
    /\ stopAt' = IF recording = "active" THEN "finalize" ELSE "tell"
    /\ StopProducing
    /\ UNCHANGED recording

\* stop_pipeline reads recording_.
RequestStop ==
    /\ Running /\ stopAt = "no"
    /\ stopAt' = IF recording = "active" THEN "finalize" ELSE "tell"
    /\ UNCHANGED <<prodStop, sourceStop, recording>>

\* pipeline_->stop_recording(), which an output stage that ends refuses.
FinalizeForStop ==
    /\ stopAt = "finalize"
    /\ stopAt' = "tell"
    /\ recording' = IF Accepting THEN "finalized" ELSE recording
    /\ UNCHANGED <<prodStop, sourceStop>>

\* pipeline_->stop_producing().
TellToStop ==
    /\ stopAt = "tell"
    /\ stopAt' = "told"
    /\ StopProducing
    /\ UNCHANGED recording

Uncontrolled == <<mode, chans, stageVars, source, next, finished, failures, runnerVars, exported>>

StopGoesOn == (FinalizeForStop \/ TellToStop) /\ UNCHANGED Uncontrolled

ControlStep ==
    \/ (StartRecording \/ StopRecording \/ RequestStop) /\ UNCHANGED Uncontrolled
    \/ StopGoesOn

Ended == runner \in {"stopped", "failed"}
Done == Ended /\ UNCHANGED vars

Next ==
    \/ SourceStep
    \/ \E s \in {"tap", "pose"} : StageStep(s)
    \/ OutputStep
    \/ RunnerStep
    \/ ControlStep
    \/ Done

Spec == Init /\ [][Next]_vars

\* Every thread is scheduled, files are read on, and a stop that has begun goes
\* on (stop_recording() returns: DiskRecording!EveryCallReturns).  Nothing is
\* assumed of a live camera's next frame, of failures, or of commands.
Fairness ==
    /\ WF_vars(SourceStep /\ (mode = "video" \/ sourceStop \/ source # "produce"))
    /\ \A s \in {"tap", "pose"} : WF_vars(StageStep(s))
    /\ WF_vars(OutputStep)
    /\ WF_vars(RunnerStep)
    /\ WF_vars(StopGoesOn)

FairSpec == Spec /\ Fairness

-----------------------------------------------------------------------------
(* Properties *)

Packets == 1 .. Batches
RunnerPCs ==
    {"startOutput", "startPose", "startTap", "startSource", "started", "watch",
     "joinSource", "stop tap", "join tap", "stop pose", "join pose", "finalize",
     "stop output", "join output", "throw", "abort", "stopped", "failed"}

\* Every variable has its type, and no channel exceeds its capacity.
TypeOK ==
    /\ mode \in Modes
    /\ queue \in [Channels -> Seq(Packets)]
    /\ \A c \in Channels : Len(queue[c]) <= ChannelCapacity
    /\ closed \in [Channels -> BOOLEAN]
    /\ stage \in [Stages -> {"off", "receive", "send", "closing", "done"}]
    /\ hand \in [Stages -> 0 .. Batches]
    /\ \A s \in Stages : stage[s] = "send" => hand[s] \in Packets
    /\ source \in {"off", "produce", "send", "closing", "done"}
    /\ next \in 0 .. Batches
    /\ source = "send" => next \in Packets
    /\ {finished, sourceStop, sourceFailed, poseFailed, exportFailed, prodStop, eof,
        failure} \subseteq BOOLEAN
    /\ cause \in {"none", "told", "failure", "eof"}
    /\ stopAt \in {"no", "finalize", "tell", "told"}
    /\ runner \in RunnerPCs
    /\ recording \in {"none", "active", "finalized", "abandoned"}
    /\ exported \in Seq(Packets)

\* In video mode the output stage sees the batches of the files one by one,
\* without a gap, and a run that ends well has passed on every batch its
\* source took up: all of them, unless it was stopped before the end.
VideoIsLossless ==
    mode = "video" =>
        /\ \A i \in 1 .. Len(exported) : exported[i] = i
        /\ runner = "stopped" =>
              /\ Len(exported) = next
              /\ cause = "told" \/ next = Batches

\* A run during which the source, the pose stage or the pose export failed
\* never ends as "stopped": Pipeline::wait reports the failure.
FailureIsReported == runner = "stopped" => ~(sourceFailed \/ poseFailed \/ exportFailed)

\* When the pipeline thread is done every thread the pipeline started has
\* been joined.
NothingLeftRunning ==
    Ended => /\ source \in {"off", "done"}
             /\ \A s \in Stages : stage[s] \in {"off", "done"}

\* What Pipeline::wait tells of a run is true, and the run is over when it tells.
RunEndsCleanly == TypeOK /\ FailureIsReported /\ NothingLeftRunning

\* A run that ends because it was told to stop drops no recording: "Stopping
\* the pipeline finalizes an active recording" (README.md), whatever fails or
\* reaches its end while the control thread is between its steps.  Only a run
\* that ended by itself, before it was told, may drop one.
StopKeepsRecording == recording = "abandoned" => cause \in {"eof", "failure"}

\* docs/video-ingestion.md: "At normal EOF, an active IRIS recording is
\* drained and finalized automatically."  So the recording that is active when
\* the files have ended and wait() is about to see it is finalized, unless a
\* stop comes meanwhile.
EofKeepsRecording ==
    runner = "watch" /\ finished /\ recording = "active"
        ~> recording = "finalized" \/ stopAt # "no"

Over == stopAt # "no" \/ prodStop \/ (mode = "video" /\ finished) \/ ~Healthy \/ runner = "throw"

\* Once there is a reason to end, the pipeline thread ends and with it every
\* stage, except when the pose stage of a video run is gone and the channel
\* to it is full: then the run may hang (see StageFailureEndsRun).
Stuck == mode = "video" /\ poseFailed /\ Len(queue["toPose"]) = ChannelCapacity
EndsUnlessStuck == Over ~> (Ended \/ Stuck)

\* Pipeline::stop: "Video output is lossless and may be blocked on a full
\* channel. Closing downstream channels first releases producers if a stage
\* has failed."  So a stage's failure should end the run.
StageFailureEndsRun == poseFailed ~> Ended

=============================================================================
