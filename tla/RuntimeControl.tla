--------------------------- MODULE RuntimeControl ---------------------------
(***************************************************************************)
(* The control plane of iris::Runtime (src/runtime/Runtime.cpp).           *)
(*                                                                         *)
(* Client threads (REST handlers, the CLI, Runtime::run) call execute():   *)
(* under the submission mutex the request goes into a bounded blocking     *)
(* channel, then the caller waits for the answer.  The control thread      *)
(* takes the requests one by one and holds the execution mutex while it    *)
(* handles one.  It creates and joins the pipeline thread, which reports   *)
(* its own progress through state_.  The main thread calls stop() once.    *)
(*                                                                         *)
(* The pipeline itself is Pipeline.tla; here its thread starts or fails to *)
(* start, runs until it is told to stop or ends by itself, and reports.    *)
(***************************************************************************)
EXTENDS Naturals, Sequences, FiniteSets

CONSTANTS Clients,        \* threads that call execute
          Main,           \* the thread that calls stop
          Values,         \* camera, video and pose configurations
          QueueCapacity,  \* 32 in the code
          MaxCalls        \* bound: calls of execute besides stop()'s own

ASSUME ControlAssumption ==
    /\ Main \notin Clients
    /\ "free" \notin Clients \cup {Main}
    /\ IsFiniteSet(Clients)
    /\ "live" \notin Values /\ Values # {}
    /\ QueueCapacity \in Nat \ {0}
    /\ MaxCalls \in Nat

Callers == Clients \cup {Main}
Reconfigurations == {"camera", "video", "pose"}
Commands == {"start", "stop", "startRecording", "stopRecording", "query",
             "configureOutput", "shutdown"}
                \cup Reconfigurations
Responses == {"none", "Applied", "Rejected", "Failed"}
Configs == [camera : Values, video : Values \cup {"live"}, pose : Values]

VARIABLES
    started, accepting,     \* control_started_, control_accepting_
    mutex,                  \* holder of command_submission_mutex_, or "free"
    requests, queueClosed,  \* commands_
    caller,                 \* where each caller is: idle, submit, send, wait
    command,                \* the command each caller asks for
    response,               \* the last answer each caller got
    calls,                  \* calls made so far
    main,                   \* where stop() is
    pc,                     \* where the control thread is
    serving,                \* whose request it handles
    wasRunning, attempt,    \* locals of a reconfiguration: restart needed, 1st or 2nd start
    requested, before,      \* the configuration it installs, the one it replaced
    shouldStop,             \* local of stop_pipeline
    result,                 \* the response being built
    threw,                  \* history: the last start ended in an exception
    state, recording,       \* state_, recording_
    config,                 \* capture_config_, video_config_, pose_config_
    thread,                 \* the pipeline thread
    startOk,                \* pipeline_start_succeeded_
    willFail,               \* how the ending run ends
    prodStop,               \* the pipeline was told to stop producing
    outputOpen,             \* the output stage of the pipeline is running
    active,                 \* it has a recording
    lostByStop,             \* history: a run told to stop dropped a recording
    hung                    \* the threads, "pipeline" or "control", that never go on

submission == <<started, accepting, mutex, requests, queueClosed>>
callers == <<caller, command, response, calls>>
local == <<serving, wasRunning, attempt, requested, before, shouldStop, result, threw>>
pipeline == <<thread, startOk, willFail, prodStop, outputOpen, active, lostByStop>>
shared == <<state, recording, config>>
unhung == <<submission, callers, main, pc, local, shared, pipeline>>
vars == <<unhung, hung>>

Init ==
    /\ started = TRUE /\ accepting = TRUE
    /\ mutex = "free" /\ requests = <<>> /\ queueClosed = FALSE
    /\ caller = [c \in Callers |-> "idle"]
    /\ command = [c \in Callers |-> "query"]
    /\ response = [c \in Callers |-> "none"]
    /\ calls = 0
    /\ main = "run"
    /\ pc = "idle" /\ serving = Main
    /\ wasRunning = FALSE /\ attempt = 1 /\ shouldStop = FALSE
    /\ config \in Configs /\ config.video = "live"
    /\ requested = config /\ before = config
    /\ result = "none" /\ threw = FALSE
    /\ state = "Stopped" /\ recording = FALSE
    /\ thread = "none" /\ startOk = FALSE /\ willFail = FALSE /\ prodStop = FALSE
    /\ outputOpen = FALSE /\ active = FALSE /\ lostByStop = FALSE
    /\ hung = {}

-----------------------------------------------------------------------------
(* execute(), in the calling thread *)

Call(c, cmd) ==
    /\ caller[c] = "idle" /\ calls < MaxCalls
    /\ calls' = calls + 1
    /\ command' = [command EXCEPT ![c] = cmd]
    /\ caller' = [caller EXCEPT ![c] = "submit"]
    /\ UNCHANGED <<submission, response, main, pc, local, shared, pipeline, hung>>

Answer(c, r) ==
    /\ caller' = [caller EXCEPT ![c] = "idle"]
    /\ response' = [response EXCEPT ![c] = r]
    /\ UNCHANGED <<command, calls>>

\* Mutant: a shutdown request does not bar the ones that come behind it.
SubmitWithoutBarrier(c) ==
    /\ caller[c] = "submit" /\ mutex = "free"
    /\ \/ /\ started /\ accepting
          /\ mutex' = c
          /\ caller' = [caller EXCEPT ![c] = "send"]
          /\ UNCHANGED <<accepting, command, response, calls>>
       \/ /\ ~started \/ ~accepting
          /\ Answer(c, "Rejected")
          /\ UNCHANGED <<accepting, mutex>>
    /\ UNCHANGED <<started, requests, queueClosed, main, pc, local, shared, pipeline, hung>>

\* Locks the submission mutex and looks whether the control plane accepts.
Submit(c) ==
    /\ caller[c] = "submit" /\ mutex = "free"
    /\ \/ /\ started /\ accepting
          /\ accepting' = (command[c] # "shutdown")
          /\ mutex' = c
          /\ caller' = [caller EXCEPT ![c] = "send"]
          /\ UNCHANGED <<command, response, calls>>
       \/ /\ ~started \/ ~accepting
          /\ Answer(c, "Rejected")
          /\ UNCHANGED <<accepting, mutex>>
    /\ UNCHANGED <<started, requests, queueClosed, main, pc, local, shared, pipeline, hung>>

\* commands_.send, which blocks while the queue is full, mutex in hand.
SendRequest(c) ==
    /\ caller[c] = "send"
    /\ \/ /\ queueClosed
          /\ Answer(c, "Rejected")
          /\ UNCHANGED requests
       \/ /\ ~queueClosed /\ Len(requests) < QueueCapacity
          /\ requests' = Append(requests, c)
          /\ caller' = [caller EXCEPT ![c] = "wait"]
          /\ UNCHANGED <<command, response, calls>>
    /\ mutex' = "free"
    /\ UNCHANGED <<started, accepting, queueClosed, main, pc, local, shared, pipeline, hung>>

CallerStep(c) == Submit(c) \/ SendRequest(c)

-----------------------------------------------------------------------------
(* stop(), in the main thread *)

MainBegins ==
    /\ main = "run"
    /\ \/ /\ accepting
          /\ caller' = [caller EXCEPT ![Main] = "submit"]
          /\ command' = [command EXCEPT ![Main] = "shutdown"]
          /\ main' = "shutdown"
       \/ /\ ~accepting
          /\ main' = "close"
          /\ UNCHANGED <<caller, command>>
    /\ UNCHANGED <<submission, response, calls, pc, local, shared, pipeline, hung>>

MainAnswered ==
    /\ main = "shutdown" /\ caller[Main] = "idle"
    /\ main' = "close"
    /\ UNCHANGED <<submission, callers, pc, local, shared, pipeline, hung>>

MainCloses ==
    /\ main = "close"
    /\ started' = FALSE /\ queueClosed' = TRUE
    /\ main' = "joinControl"
    /\ UNCHANGED <<accepting, mutex, requests, callers, pc, local, shared, pipeline, hung>>

(* stop_pipeline(), in four steps: the control thread runs it for a        *)
(* command, and stop() once more when the control thread is gone.          *)

DecideToStop ==
    LET stoppable == state \in {"Running", "Starting", "Failed"} IN
    /\ shouldStop' = stoppable
    /\ state' = IF stoppable THEN "Stopping" ELSE state
    /\ UNCHANGED <<recording, config, pipeline>>

FinalizeRecording ==
    /\ active' = (active /\ ~recording)
    /\ UNCHANGED <<shouldStop, shared, thread, startOk, willFail, prodStop, outputOpen, lostByStop>>

TellToStop ==
    /\ prodStop' = TRUE
    /\ UNCHANGED <<shouldStop, shared, thread, startOk, willFail, outputOpen, active, lostByStop>>

JoinPipeline ==
    /\ thread \in {"none", "exited"}
    /\ thread' = "none"
    /\ state' = IF shouldStop THEN "Stopped" ELSE state
    /\ recording' = (recording /\ ~shouldStop)
    /\ UNCHANGED <<shouldStop, config, startOk, willFail, prodStop, outputOpen, active, lostByStop>>

\* Where the thread running stop_pipeline goes after its first step.
NextStopStep(here) == IF shouldStop' THEN "finalize" ELSE IF thread # "none" THEN "join" ELSE here

MainJoinsControl ==
    /\ main = "joinControl" /\ pc = "done"
    /\ DecideToStop
    /\ main' = NextStopStep("done")

MainStopsPipeline ==
    \/ main = "finalize" /\ FinalizeRecording /\ main' = "tell"
    \/ main = "tell" /\ TellToStop /\ main' = "join"
    \/ main = "join" /\ JoinPipeline /\ main' = "done"

MainStep ==
    \/ MainAnswered
    \/ MainCloses
    \/ /\ MainJoinsControl \/ MainStopsPipeline
       /\ UNCHANGED <<submission, callers, pc, serving, wasRunning, attempt, requested,
                      before, result, threw, hung>>

-----------------------------------------------------------------------------
(* control_loop *)

Goto(l) == pc' = l

Reply(r) ==
    /\ Goto("reply")
    /\ result' = r

Take ==
    /\ pc = "idle" /\ requests # <<>>
    /\ serving' = Head(requests)
    /\ requests' = Tail(requests)
    /\ before' = config /\ requested' = config
    /\ attempt' = 1 /\ threw' = FALSE
    /\ Goto("begin")
    /\ UNCHANGED <<started, accepting, mutex, queueClosed, callers, main, wasRunning,
                   shouldStop, result, shared, pipeline, hung>>

LeaveLoop ==
    /\ pc = "idle" /\ requests = <<>> /\ queueClosed
    /\ accepting' = FALSE
    /\ Goto("done")
    /\ UNCHANGED <<started, mutex, requests, queueClosed, callers, main, local, shared,
                   pipeline, hung>>

\* completion.set_value, after the execution mutex is released; a shutdown
\* ends the loop.
SendReply ==
    /\ pc = "reply"
    /\ Answer(serving, result)
    /\ IF command[serving] = "shutdown"
       THEN Goto("done") /\ accepting' = FALSE
       ELSE Goto("idle") /\ UNCHANGED accepting
    /\ UNCHANGED <<started, mutex, requests, queueClosed, main, local, shared, pipeline, hung>>

(* handle(): the first step of each command *)

Serves(cmds) == pc = "begin" /\ command[serving] \in cmds

BeginQuery ==
    /\ Serves({"query"})
    /\ Reply("Applied")
    /\ UNCHANGED <<serving, wasRunning, attempt, requested, before, shouldStop, threw,
                   shared, pipeline>>

\* The shared memory or the preview is configured: noted, or refused as it
\* is, or handed to the output stage of a running pipeline.
BeginOutputCommand ==
    /\ Serves({"configureOutput"})
    /\ \/ Reply("Rejected")
       \/ state # "Running" /\ Reply("Applied")
       \/ state = "Running" /\ Goto("configure") /\ UNCHANGED result
    /\ UNCHANGED <<serving, wasRunning, attempt, requested, before, shouldStop, threw,
                   shared, pipeline>>

\* The output stage has stopped the old preview and started the new one, or
\* it failed and the old configuration stays.
ConfigureOutput ==
    /\ pc = "configure" /\ "control" \notin hung
    /\ \E r \in {"Applied", "Failed"} : Reply(r)
    /\ UNCHANGED <<serving, wasRunning, attempt, requested, before, shouldStop, threw,
                   shared, pipeline>>

BeginStartOrStop ==
    /\ Serves({"start", "stop", "shutdown"})
    /\ Goto(IF command[serving] = "start" THEN "start" ELSE "stop")
    /\ UNCHANGED <<local, shared, pipeline>>

\* The request is refused as it is, or because a video source is selected.
RefuseReconfiguration ==
    /\ Serves(Reconfigurations)
    /\ Reply("Rejected")
    /\ UNCHANGED <<serving, wasRunning, attempt, requested, before, shouldStop, threw,
                   shared, pipeline>>

BeginReconfiguration ==
    /\ Serves(Reconfigurations)
    /\ LET cmd == command[serving] IN
         /\ cmd = "camera" => config.video = "live"
         /\ \E v \in Values \cup (IF cmd = "video" THEN {"live"} ELSE {}) :
               requested' = [config EXCEPT ![cmd] = v]
    /\ wasRunning' = (state = "Running")
    /\ Goto(IF state = "Running" THEN "stop" ELSE "install")
    /\ UNCHANGED <<serving, attempt, before, shouldStop, result, threw, shared, pipeline>>

BeginRecordingCommand ==
    /\ Serves({"startRecording", "stopRecording"})
    /\ IF state = "Running"
       THEN Goto(command[serving]) /\ UNCHANGED result
       ELSE Reply("Rejected")
    /\ UNCHANGED <<serving, wasRunning, attempt, requested, before, shouldStop, threw,
                   shared, pipeline>>

(* handle(StartRecordingCommand) and handle(StopRecordingCommand) *)

OutputStartsRecording ==
    /\ pc = "startRecording"
    /\ IF outputOpen /\ ~active
       THEN active' = TRUE /\ Goto("noteRecording") /\ UNCHANGED result
       ELSE Reply("Rejected") /\ UNCHANGED active
    /\ UNCHANGED <<serving, wasRunning, attempt, requested, before, shouldStop, threw,
                   shared, thread, startOk, willFail, prodStop, outputOpen, lostByStop>>

NoteRecording ==
    /\ pc = "noteRecording"
    /\ recording' = TRUE
    /\ Reply("Applied")
    /\ UNCHANGED <<serving, wasRunning, attempt, requested, before, shouldStop, threw,
                   state, config, pipeline>>

OutputStopsRecording ==
    /\ pc = "stopRecording"
    /\ active' = FALSE
    /\ recording' = FALSE
    /\ Reply(IF outputOpen /\ active THEN "Applied" ELSE "Rejected")
    /\ UNCHANGED <<serving, wasRunning, attempt, requested, before, shouldStop, threw, state,
                   config, thread, startOk, willFail, prodStop, outputOpen, lostByStop>>

(* The commands that call stop_pipeline(), and what each does once it has  *)
(* returned whether it stopped anything.                                   *)

AfterStop(stopped) ==
    CASE command[serving] = "stop" ->
           Reply(IF stopped THEN "Applied" ELSE "Rejected")
      [] command[serving] = "shutdown" -> Goto("shutdown") /\ UNCHANGED result
      [] command[serving] = "pose" /\ ~stopped -> Reply("Failed")
      [] OTHER -> Goto("install") /\ UNCHANGED result

StopPipeline ==
    /\ \/ /\ pc = "stop" /\ DecideToStop
          /\ IF NextStopStep("return") = "return"
             THEN AfterStop(FALSE)
             ELSE Goto(NextStopStep("return")) /\ UNCHANGED result
       \/ pc = "finalize" /\ FinalizeRecording /\ Goto("tell") /\ UNCHANGED result
       \/ pc = "tell" /\ TellToStop /\ Goto("join") /\ UNCHANGED result
       \/ pc = "join" /\ JoinPipeline /\ AfterStop(shouldStop)
    /\ UNCHANGED <<serving, wasRunning, attempt, requested, before, threw>>

\* handle(ShutdownCommand), after its stop_pipeline.
BecomeShutdown ==
    /\ pc = "shutdown"
    /\ state' = "Shutdown" /\ recording' = FALSE
    /\ Reply("Applied")
    /\ UNCHANGED <<serving, wasRunning, attempt, requested, before, shouldStop, threw,
                   config, pipeline>>

(* handle(StartPipelineCommand) *)

\* Mutant: the previous configuration is not put back.
AfterStartKeeps(r) ==
    IF command[serving] = "start" \/ (attempt = 1 /\ r = "Applied")
    THEN Reply(r) /\ UNCHANGED <<attempt, config>>
    ELSE IF attempt = 1
         THEN Goto("start") /\ attempt' = 2 /\ UNCHANGED <<config, result>>
         ELSE Reply("Failed") /\ UNCHANGED <<attempt, config>>

\* What the command does once its start has returned r: a reconfiguration
\* that could not be started puts the previous configuration back.
AfterStart(r) ==
    IF command[serving] = "start" \/ (attempt = 1 /\ r = "Applied")
    THEN Reply(r) /\ UNCHANGED <<attempt, config>>
    ELSE IF attempt = 1
         THEN Goto("start") /\ attempt' = 2 /\ config' = before /\ UNCHANGED result
         ELSE Reply("Failed") /\ UNCHANGED <<attempt, config>>

Install ==
    /\ pc = "install"
    /\ config' = requested
    /\ IF wasRunning THEN Goto("start") /\ UNCHANGED result ELSE Reply("Applied")
    /\ UNCHANGED <<serving, wasRunning, attempt, requested, before, shouldStop, threw, state,
                   recording, pipeline>>

CheckStart ==
    /\ pc = "start"
    /\ IF state \in {"Running", "Starting", "Shutdown"}
       THEN AfterStart("Rejected")
       ELSE Goto("joinOld") /\ UNCHANGED <<attempt, config, result>>
    /\ UNCHANGED <<serving, wasRunning, requested, before, shouldStop, threw, state,
                   recording, pipeline>>

\* Mutant: the thread of the previous run is not joined.
LeaveOldThread ==
    /\ pc = "joinOld"
    /\ Goto("construct")
    /\ UNCHANGED <<local, shared, pipeline>>

JoinOldThread ==
    /\ pc = "joinOld" /\ thread \in {"none", "exited"}
    /\ thread' = "none"
    /\ Goto("construct")
    /\ UNCHANGED <<local, shared, startOk, willFail, prodStop, outputOpen, active, lostByStop>>

\* The constructor of Pipeline checks the configuration and opens the files:
\* it may throw, and then the command ends in control_loop's catch.  The new
\* pipeline may also refuse one of the output configurations it is given.
Construct ==
    /\ pc = "construct"
    /\ \/ Goto("spawn") /\ UNCHANGED <<attempt, config, result, threw>>
       \/ Reply("Failed") /\ threw' = TRUE /\ UNCHANGED <<attempt, config>>
       \/ /\ \E r \in {"Rejected", "Failed"} : AfterStart(r)
          /\ UNCHANGED threw
    /\ UNCHANGED <<serving, wasRunning, requested, before, shouldStop, state, recording,
                   pipeline>>

Spawn ==
    /\ pc = "spawn"
    /\ state' = "Starting" /\ recording' = FALSE
    /\ thread' = "starting" /\ startOk' = FALSE
    /\ prodStop' = FALSE /\ outputOpen' = FALSE /\ active' = FALSE
    /\ Goto("await")
    /\ UNCHANGED <<local, config, willFail, lostByStop>>

AwaitStart ==
    /\ pc = "await" /\ thread # "starting"
    /\ AfterStart(IF startOk THEN "Applied" ELSE "Failed")
    /\ UNCHANGED <<serving, wasRunning, requested, before, shouldStop, threw, state,
                   recording, pipeline>>

Handle ==
    /\ \/ BeginQuery \/ BeginOutputCommand \/ ConfigureOutput \/ BeginStartOrStop
       \/ RefuseReconfiguration \/ BeginReconfiguration
       \/ BeginRecordingCommand
       \/ OutputStartsRecording \/ NoteRecording \/ OutputStopsRecording
       \/ StopPipeline \/ BecomeShutdown
       \/ Install \/ CheckStart \/ JoinOldThread \/ Construct \/ Spawn \/ AwaitStart
    /\ UNCHANGED <<submission, callers, main, hung>>

ControlStep == Take \/ LeaveLoop \/ SendReply \/ Handle

\* PreviewSink stops its old server, which joins the session of a client that
\* is silent or that lost its notification: configure_preview never returns
\* (PreviewSink!StopEndsUnlessHeld).
ControlHangs ==
    /\ pc = "configure"
    /\ hung' = hung \cup {"control"}
    /\ UNCHANGED unhung

-----------------------------------------------------------------------------
(* pipeline_loop, in the pipeline thread *)

PipelineStarts ==
    /\ thread = "starting"
    /\ thread' = "running" /\ startOk' = TRUE /\ outputOpen' = TRUE
    /\ state' = "Running"
    /\ UNCHANGED <<recording, config, willFail, prodStop, active, lostByStop>>

PipelineStartFails ==
    /\ thread = "starting"
    /\ thread' = "exited" /\ startOk' = FALSE
    /\ state' = "Failed" /\ recording' = FALSE
    /\ UNCHANGED <<config, willFail, prodStop, outputOpen, active, lostByStop>>

\* wait() returns or throws: told to stop, at the end of the files, or after
\* a failure.  The output stage is stopped by then.
PipelineEnds ==
    /\ thread = "running"
    /\ thread' = "ending"
    /\ willFail' \in BOOLEAN
    /\ outputOpen' = FALSE /\ active' = FALSE
    /\ lostByStop' = (lostByStop \/ (prodStop /\ active))
    /\ UNCHANGED <<shared, startOk, prodStop>>

PipelineReports ==
    /\ thread = "ending"
    /\ thread' = "exited"
    /\ state' = IF willFail \/ state = "Failed" THEN "Failed" ELSE "Stopped"
    /\ recording' = FALSE
    /\ UNCHANGED <<config, startOk, willFail, prodStop, outputOpen, active, lostByStop>>

PipelineStep ==
    /\ "pipeline" \notin hung
    /\ PipelineStarts \/ PipelineStartFails \/ PipelineEnds \/ PipelineReports
    /\ UNCHANGED <<submission, callers, main, pc, local, hung>>

\* Pipeline::start, wait or stop never returns.  After a failure of the pose
\* stage wait joins a source that is blocked on a full channel
\* (Pipeline!Stuck); the preview joins the session of a client that is silent
\* or lost its notification (PreviewSink!StopEndsUnlessHeld); and a capture
\* that reopened its device behind the stop is not told to close it
\* (LiveCapture!ReopenedBehindStop).
PipelineHangs ==
    /\ thread \in {"starting", "running", "ending"}
    /\ hung' = hung \cup {"pipeline"}
    /\ UNCHANGED unhung

-----------------------------------------------------------------------------

Next ==
    \/ \E c \in Clients, cmd \in Commands : Call(c, cmd)
    \/ \E c \in Callers : CallerStep(c)
    \/ MainBegins \/ MainStep
    \/ ControlStep \/ ControlHangs
    \/ PipelineStep \/ PipelineHangs

Spec == Init /\ [][Next]_vars

\* Threads are scheduled.  The start of a pipeline completes, and one that
\* was told to stop ends, unless the pipeline hangs; a preview is configured
\* unless that hangs.  Nobody has to issue commands, nothing has to hang, and
\* a run need not end by itself.
Fairness ==
    /\ \A c \in Callers : WF_vars(CallerStep(c))
    /\ WF_vars(MainStep)
    /\ WF_vars(ControlStep)
    /\ WF_vars(PipelineStep /\ (thread # "running" \/ prodStop))

FairSpec == Spec /\ Fairness

-----------------------------------------------------------------------------
(* Properties *)

\* Every variable has its type.
TypeOK ==
    /\ {started, accepting, queueClosed, wasRunning, shouldStop, threw, recording, startOk,
        willFail, prodStop, outputOpen, active, lostByStop} \subseteq BOOLEAN
    /\ mutex \in Callers \cup {"free"}
    /\ requests \in Seq(Callers) /\ Len(requests) <= QueueCapacity
    /\ caller \in [Callers -> {"idle", "submit", "send", "wait"}]
    /\ command \in [Callers -> Commands]
    /\ response \in [Callers -> Responses]
    /\ calls \in 0 .. MaxCalls
    /\ main \in {"run", "shutdown", "close", "joinControl", "finalize", "tell", "join", "done"}
    /\ pc \in {"idle", "begin", "configure", "startRecording", "noteRecording",
               "stopRecording", "stop", "finalize", "tell", "join", "shutdown", "install", "start",
               "joinOld", "construct", "spawn", "await", "reply", "done"}
    /\ serving \in Callers
    /\ attempt \in 1 .. 2
    /\ {requested, before, config} \subseteq Configs
    /\ result \in Responses
    /\ state \in {"Stopped", "Starting", "Running", "Stopping", "Failed", "Shutdown"}
    /\ thread \in {"none", "starting", "running", "ending", "exited"}
    /\ hung \subseteq {"control", "pipeline"}

\* The shutdown request is the last one: when the control thread has left its
\* loop no request is left behind whose caller would wait for ever.
NobodyBehindShutdown ==
    pc = "done" =>
        /\ requests = <<>>
        /\ \A c \in Callers : caller[c] # "wait"

\* The execution mutex is held while a command is handled and while stop()
\* stops the pipeline, so a snapshot never
\* shows a pipeline that is being started, stopped or replaced.
SettledBetweenCommands ==
    pc \in {"idle", "reply", "done"} /\ main \notin {"finalize", "tell", "join"} =>
        /\ state \in {"Stopped", "Running", "Failed", "Shutdown"}
        /\ state = "Running" => thread \in {"running", "ending"}
        /\ state # "Running" => thread \in {"none", "exited"}

\* std::thread is assigned, and the Pipeline object replaced, only when no
\* earlier pipeline thread exists (the assignment would terminate the process,
\* the thread would run on in a destroyed object).
OnePipelineThread == pc \in {"construct", "spawn"} => thread = "none"

\* A run that is told to stop has no recording left in its output stage:
\* stop_pipeline knows of every active recording and finalizes it first.
StopLosesNoRecording == ~lostByStop

\* After a reconfiguration whose start failed, the configuration is what it
\* was before, unless the start ended in an exception.
FailedStartRestores ==
    pc = "reply" /\ command[serving] \in Reconfigurations /\ result = "Failed" /\ ~threw =>
        config = before

\* When stop() returns no pipeline thread is left, even when a client's own
\* shutdown request was still on its way into the queue that stop() closed.
StopLeavesNothing == main = "done" => thread = "none" /\ state \in {"Shutdown", "Stopped"}

\* The pipeline thread, the published state and the recording are always the
\* ones the last command left: what the control thread, the main thread and
\* the pipeline thread write without a common lock agrees between commands.
PipelineIsOwned ==
    /\ TypeOK
    /\ NobodyBehindShutdown
    /\ SettledBetweenCommands
    /\ OnePipelineThread
    /\ StopLosesNoRecording
    /\ StopLeavesNothing

\* The control thread is in a preview that never comes back, or it, or stop(),
\* waits for a pipeline thread that never starts or never ends.
Blocked ==
    \/ "control" \in hung
    \/ /\ "pipeline" \in hung
       /\ \/ pc \in {"join", "joinOld"} \/ main = "join"
          \/ pc = "await" /\ thread = "starting"

\* Every call of execute() is answered and stop() returns, whatever else is
\* stopped or shut down meanwhile, unless a preview or a pipeline that hangs
\* is being waited for: the protocol of the queue, its mutex, the shutdown
\* barrier and the joins adds no wait of its own that does not end.
EveryCallIsAnswered ==
    /\ \A c \in Callers : (caller[c] # "idle") ~> (caller[c] = "idle" \/ Blocked)
    /\ (main # "run") ~> (main = "done" \/ Blocked)

=============================================================================
