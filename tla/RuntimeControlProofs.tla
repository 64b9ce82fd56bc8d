------------------------ MODULE RuntimeControlProofs ------------------------
(* Proofs about RuntimeControl, for every set of clients, every set of      *)
(* configurations, every queue capacity and any number of calls.            *)
EXTENDS RuntimeControl, DataTheorems

LEMMA Taken ==
    ASSUME NEW S, NEW q \in Seq(S), q # <<>>
    PROVE  /\ Len(q) \in Nat \ {0}
           /\ Head(q) = q[1] /\ Head(q) \in S
           /\ Tail(q) \in Seq(S)
           /\ Len(Tail(q)) = Len(q) - 1
           /\ \A i \in 1 .. Len(Tail(q)) : Tail(q)[i] = q[i + 1]
BY HeadTailProperties, EmptySeq, LenProperties

-----------------------------------------------------------------------------
(* Types.  The parts follow the tuples the variables are grouped in. *)

MainPCs == {"run", "shutdown", "close", "joinControl", "finalize", "tell", "join", "done"}
PCs == {"idle", "begin", "configure", "startRecording", "noteRecording", "stopRecording",
        "stop", "finalize", "tell", "join", "shutdown", "install", "start", "joinOld", "construct",
        "spawn", "await", "reply", "done"}

SubmissionTypeOK ==
    /\ started \in BOOLEAN /\ accepting \in BOOLEAN /\ queueClosed \in BOOLEAN
    /\ mutex \in Callers \cup {"free"}
    /\ requests \in Seq(Callers) /\ Len(requests) <= QueueCapacity
    /\ main \in MainPCs
CallersTypeOK ==
    /\ caller \in [Callers -> {"idle", "submit", "send", "wait"}]
    /\ command \in [Callers -> Commands]
    /\ response \in [Callers -> Responses]
    /\ calls \in 0 .. MaxCalls
LocalTypeOK ==
    /\ pc \in PCs /\ serving \in Callers /\ attempt \in 1 .. 2
    /\ wasRunning \in BOOLEAN /\ shouldStop \in BOOLEAN /\ threw \in BOOLEAN
    /\ requested \in Configs /\ before \in Configs
    /\ result \in Responses
SharedTypeOK ==
    /\ state \in {"Stopped", "Starting", "Running", "Stopping", "Failed", "Shutdown"}
    /\ recording \in BOOLEAN
    /\ config \in Configs
PipelineTypeOK ==
    /\ thread \in {"none", "starting", "running", "ending", "exited"}
    /\ startOk \in BOOLEAN /\ willFail \in BOOLEAN /\ prodStop \in BOOLEAN
    /\ outputOpen \in BOOLEAN /\ active \in BOOLEAN /\ lostByStop \in BOOLEAN
HungTypeOK == hung \subseteq {"control", "pipeline"}

TypeParts ==
    /\ SubmissionTypeOK /\ CallersTypeOK /\ LocalTypeOK /\ SharedTypeOK /\ PipelineTypeOK
    /\ HungTypeOK

LEMMA PartsAreTheType == TypeOK <=> TypeParts
<1>1. {started, accepting, queueClosed, wasRunning, shouldStop, threw, recording, startOk,
       willFail, prodStop, outputOpen, active, lostByStop} \subseteq BOOLEAN
      <=> /\ started \in BOOLEAN /\ accepting \in BOOLEAN /\ queueClosed \in BOOLEAN
          /\ wasRunning \in BOOLEAN /\ shouldStop \in BOOLEAN /\ threw \in BOOLEAN
          /\ recording \in BOOLEAN /\ startOk \in BOOLEAN /\ willFail \in BOOLEAN
          /\ prodStop \in BOOLEAN /\ outputOpen \in BOOLEAN /\ active \in BOOLEAN
          /\ lostByStop \in BOOLEAN
  OBVIOUS
<1>2. {requested, before, config} \subseteq Configs
      <=> requested \in Configs /\ before \in Configs /\ config \in Configs
  OBVIOUS
<1> QED
  BY <1>1, <1>2
     DEF TypeOK, TypeParts, SubmissionTypeOK, CallersTypeOK, LocalTypeOK, SharedTypeOK,
         PipelineTypeOK, HungTypeOK, MainPCs, PCs

\* A hang shows in the history of the hung threads only.
HangStep == ControlHangs \/ PipelineHangs

LEMMA HangEffect ==
    ASSUME HangStep \/ UNCHANGED vars
    PROVE  UNCHANGED unhung
BY DEF HangStep, ControlHangs, PipelineHangs, vars

\* A handler changes nothing on the callers' side, and keeps the request it serves.
LEMMA HandleEffect ==
    ASSUME Handle
    PROVE  /\ UNCHANGED <<submission, callers, main, serving>>
           /\ pc \notin {"idle", "done"} /\ pc' \notin {"idle", "done"}
<1> USE DEF Goto, Reply, Serves, local
<1>1. UNCHANGED <<submission, callers, main>>
  BY DEF Handle
<1>2. CASE BeginQuery \/ BeginOutputCommand \/ ConfigureOutput \/ BeginStartOrStop
           \/ RefuseReconfiguration \/ BeginReconfiguration \/ BeginRecordingCommand
  BY <1>1, <1>2
     DEF BeginQuery, BeginOutputCommand, ConfigureOutput, BeginStartOrStop,
         RefuseReconfiguration, BeginReconfiguration, BeginRecordingCommand
<1>3. CASE OutputStartsRecording \/ NoteRecording \/ OutputStopsRecording \/ BecomeShutdown
           \/ Install \/ JoinOldThread \/ Spawn
  BY <1>1, <1>3
     DEF OutputStartsRecording, NoteRecording, OutputStopsRecording, BecomeShutdown, Install,
         JoinOldThread, Spawn
<1>4. CASE StopPipeline
  BY <1>1, <1>4 DEF StopPipeline, NextStopStep, AfterStop
<1>5. CASE CheckStart \/ Construct \/ AwaitStart
  BY <1>1, <1>5 DEF CheckStart, Construct, AwaitStart, AfterStart
<1> QED
  BY <1>2, <1>3, <1>4, <1>5 DEF Handle

LEMMA SubmissionTypeStep ==
    ASSUME TypeParts, [Next]_vars
    PROVE  SubmissionTypeOK'
<1> USE DEF TypeParts, SubmissionTypeOK, submission, MainPCs
<1>1. ASSUME NEW c \in Callers, CallerStep(c)
      PROVE  SubmissionTypeOK'
  <2>1. CASE Submit(c)
    BY <1>1, <2>1 DEF Submit
  <2>2. CASE SendRequest(c)
    <3>1. Append(requests, c) \in Seq(Callers)
          /\ (Len(requests) < QueueCapacity => Len(Append(requests, c)) <= QueueCapacity)
      BY Appended, ControlAssumption
    <3> QED
      BY <1>1, <2>2, <3>1 DEF SendRequest
  <2> QED
    BY <1>1, <2>1, <2>2 DEF CallerStep
<1>2. CASE \/ \E c \in Clients, cmd \in Commands : Call(c, cmd)
           \/ MainBegins \/ PipelineStep \/ HangStep \/ UNCHANGED vars
  BY HangEffect, <1>2 DEF Call, MainBegins, PipelineStep, unhung
<1>3. CASE MainStep
  BY <1>3 DEF MainStep, MainAnswered, MainCloses, MainJoinsControl, MainStopsPipeline, NextStopStep
<1>4. CASE Handle
  BY <1>4, HandleEffect
<1>5. CASE Take \/ LeaveLoop \/ SendReply
  <2>1. requests # <<>> => Tail(requests) \in Seq(Callers) /\ Len(Tail(requests)) <= QueueCapacity
    BY Taken, ControlAssumption
  <2> QED
    BY <1>5, <2>1 DEF Take, LeaveLoop, SendReply
<1> QED
  BY <1>1, <1>2, <1>3, <1>4, <1>5 DEF Next, ControlStep, HangStep

LEMMA CallersTypeStep ==
    ASSUME TypeParts, [Next]_vars
    PROVE  CallersTypeOK'
<1> USE DEF TypeParts, CallersTypeOK, callers, Callers
<1>1. ASSUME NEW c \in Clients, NEW cmd \in Commands, Call(c, cmd)
      PROVE  CallersTypeOK'
  <2>1. calls' \in 0 .. MaxCalls
    BY <1>1, ControlAssumption DEF Call
  <2> QED
    BY <1>1, <2>1 DEF Call
<1>2. ASSUME NEW c \in Callers, CallerStep(c)
      PROVE  CallersTypeOK'
  BY <1>2 DEF CallerStep, Submit, SendRequest, Answer, Responses
<1>3. CASE MainBegins
  BY <1>3 DEF MainBegins, Commands
<1>4. CASE MainStep \/ PipelineStep \/ HangStep \/ UNCHANGED vars
  BY HangEffect, <1>4 DEF MainStep, MainAnswered, MainCloses, PipelineStep, unhung
<1>5. CASE Handle
  BY <1>5, HandleEffect
<1>6. CASE Take \/ LeaveLoop
  BY <1>6 DEF Take, LeaveLoop
<1>7. CASE SendReply
  BY <1>7 DEF SendReply, Answer, LocalTypeOK
<1> QED
  BY <1>1, <1>2, <1>3, <1>4, <1>5, <1>6, <1>7 DEF Next, ControlStep, HangStep

LEMMA ReconfiguredIsConfig ==
    ASSUME NEW old \in Configs, NEW cmd \in Reconfigurations,
           NEW v \in Values \cup (IF cmd = "video" THEN {"live"} ELSE {})
    PROVE  [old EXCEPT ![cmd] = v] \in Configs
BY DEF Configs, Reconfigurations

LEMMA StopTypes ==
    ASSUME TypeParts, DecideToStop \/ FinalizeRecording \/ TellToStop \/ JoinPipeline
    PROVE  shouldStop' \in BOOLEAN /\ SharedTypeOK' /\ PipelineTypeOK'
<1> USE DEF TypeParts, SharedTypeOK, PipelineTypeOK, shared, pipeline
<1>1. CASE DecideToStop
  <2> DEFINE stoppable == state \in {"Running", "Starting", "Failed"}
  <2>1. stoppable \in BOOLEAN /\ shouldStop' = stoppable
    BY <1>1 DEF DecideToStop
  <2>2. shouldStop' \in BOOLEAN
    <3> HIDE DEF stoppable
    <3> QED
      BY <2>1
  <2> QED
    BY <1>1, <2>2 DEF DecideToStop
<1>2. CASE FinalizeRecording
  <2>1. active' \in BOOLEAN
    BY <1>2 DEF FinalizeRecording
  <2> QED
    BY <1>2, <2>1 DEF FinalizeRecording, LocalTypeOK
<1>3. CASE TellToStop
  BY <1>3 DEF TellToStop, LocalTypeOK
<1>4. CASE JoinPipeline
  <2>1. recording' \in BOOLEAN
    BY <1>4 DEF JoinPipeline
  <2> QED
    BY <1>4, <2>1 DEF JoinPipeline, LocalTypeOK
<1> QED
  BY <1>1, <1>2, <1>3, <1>4

LEMMA LocalTypeStep ==
    ASSUME TypeParts, [Next]_vars
    PROVE  LocalTypeOK'
<1> USE DEF TypeParts, LocalTypeOK, local, PCs, Responses, Goto, Reply, Serves
<1>1. CASE \/ \E c \in Clients, cmd \in Commands : Call(c, cmd)
           \/ \E c \in Callers : CallerStep(c)
           \/ MainBegins \/ PipelineStep \/ HangStep \/ UNCHANGED vars
  BY HangEffect, <1>1 DEF Call, CallerStep, Submit, SendRequest, MainBegins, PipelineStep, unhung
<1>2. CASE MainStep
  <2>1. CASE MainAnswered \/ MainCloses
    BY <2>1 DEF MainAnswered, MainCloses
  <2>2. CASE /\ DecideToStop \/ FinalizeRecording \/ TellToStop \/ JoinPipeline
             /\ UNCHANGED <<pc, serving, wasRunning, attempt, requested, before, result, threw>>
    <3>1. shouldStop' \in BOOLEAN
      BY <2>2, StopTypes
    <3> QED
      BY <2>2, <3>1
  <2> QED
    BY <1>2, <2>1, <2>2 DEF MainStep, MainJoinsControl, MainStopsPipeline
<1>3. CASE Take \/ LeaveLoop \/ SendReply
  <2>1. requests # <<>> => Head(requests) \in Callers
    BY Taken DEF SubmissionTypeOK
  <2>2. CASE Take
    <3>1. pc' = "begin" /\ serving' \in Callers /\ attempt' \in 1 .. 2 /\ threw' = FALSE
      BY <2>1, <2>2 DEF Take
    <3>2. before' \in Configs /\ requested' \in Configs
      BY <2>2 DEF Take, SharedTypeOK
    <3>3. UNCHANGED <<wasRunning, shouldStop, result>>
      BY <2>2 DEF Take
    <3> QED
      BY <3>1, <3>2, <3>3
  <2>3. CASE LeaveLoop \/ SendReply
    BY <2>3 DEF LeaveLoop, SendReply
  <2> QED
    BY <1>3, <2>2, <2>3
<1>4. CASE Handle
  <2>1. CASE \/ BeginQuery \/ BeginOutputCommand \/ ConfigureOutput \/ BeginStartOrStop
             \/ RefuseReconfiguration \/ BeginRecordingCommand
    <3>1. command[serving] \in Commands
      BY DEF CallersTypeOK
    <3> QED
      BY <2>1, <3>1
         DEF BeginQuery, BeginOutputCommand, ConfigureOutput, BeginStartOrStop,
             RefuseReconfiguration, BeginRecordingCommand
  <2>2. CASE BeginReconfiguration
    <3> DEFINE cmd == command[serving]
    <3>1. PICK v \in Values \cup (IF cmd = "video" THEN {"live"} ELSE {}) :
                  requested' = [config EXCEPT ![cmd] = v]
      BY <2>2 DEF BeginReconfiguration
    <3>2. cmd \in Reconfigurations /\ config \in Configs
      BY <2>2 DEF BeginReconfiguration, SharedTypeOK
    <3>3. requested' \in Configs
      BY <3>1, <3>2, ReconfiguredIsConfig
    <3>4. wasRunning' \in BOOLEAN
      BY <2>2, Zenon DEF BeginReconfiguration
    <3> QED
      BY <2>2, <3>3, <3>4 DEF BeginReconfiguration
  <2>3. CASE OutputStartsRecording \/ NoteRecording \/ OutputStopsRecording \/ BecomeShutdown
             \/ Install \/ JoinOldThread \/ Spawn
    BY <2>3
       DEF OutputStartsRecording, NoteRecording, OutputStopsRecording, BecomeShutdown, Install,
           JoinOldThread, Spawn
  <2>4. CASE StopPipeline
    <3>1. shouldStop' \in BOOLEAN
      BY <2>4, StopTypes DEF StopPipeline
    <3>2. \A b \in BOOLEAN : AfterStop(b) => pc' \in PCs /\ result' \in Responses
      BY DEF AfterStop
    <3>3. NextStopStep("return") \in {"finalize", "join", "return"}
      BY DEF NextStopStep
    <3>4. pc' \in PCs /\ result' \in Responses
      BY <2>4, <3>2, <3>3 DEF StopPipeline
    <3> QED
      BY <2>4, <3>1, <3>4 DEF StopPipeline
  <2>5. ASSUME NEW r \in Responses, AfterStart(r)
        PROVE  pc' \in PCs /\ result' \in Responses /\ attempt' \in 1 .. 2
    BY <2>5 DEF AfterStart
  <2>6. CASE CheckStart
    BY <2>5, <2>6 DEF CheckStart
  <2>7. CASE Construct
    BY <2>5, <2>7 DEF Construct
  <2>8. CASE AwaitStart
    BY <2>5, <2>8 DEF AwaitStart
  <2> QED
    BY <1>4, <2>1, <2>2, <2>3, <2>4, <2>6, <2>7, <2>8 DEF Handle
<1> QED
  BY <1>1, <1>2, <1>3, <1>4 DEF Next, ControlStep, HangStep

LEMMA SharedTypeStep ==
    ASSUME TypeParts, [Next]_vars
    PROVE  SharedTypeOK' /\ PipelineTypeOK'
<1> DEFINE Goal == SharedTypeOK' /\ PipelineTypeOK'
<1> USE DEF TypeParts, SharedTypeOK, PipelineTypeOK, shared, pipeline
<1>1. CASE \/ \E c \in Clients, cmd \in Commands : Call(c, cmd)
           \/ \E c \in Callers : CallerStep(c)
           \/ MainBegins \/ HangStep \/ UNCHANGED vars
           \/ Take \/ LeaveLoop \/ SendReply
  BY HangEffect, <1>1
     DEF Call, CallerStep, Submit, SendRequest, MainBegins, Take, LeaveLoop, SendReply, unhung
<1>2. ASSUME DecideToStop \/ FinalizeRecording \/ TellToStop \/ JoinPipeline
      PROVE  Goal
  BY <1>2, StopTypes
<1>3. CASE MainStep
  BY <1>2, <1>3 DEF MainStep, MainAnswered, MainCloses, MainJoinsControl, MainStopsPipeline
<1>4. CASE Handle
  <2>1. CASE \/ BeginQuery \/ BeginOutputCommand \/ ConfigureOutput \/ BeginStartOrStop
             \/ RefuseReconfiguration \/ BeginReconfiguration \/ BeginRecordingCommand
    BY <2>1
       DEF BeginQuery, BeginOutputCommand, ConfigureOutput, BeginStartOrStop,
           RefuseReconfiguration, BeginReconfiguration, BeginRecordingCommand
  <2>2. CASE OutputStartsRecording \/ NoteRecording \/ OutputStopsRecording \/ BecomeShutdown
    BY <2>2
       DEF OutputStartsRecording, NoteRecording, OutputStopsRecording, BecomeShutdown
  <2>3. CASE Install
    BY <2>3 DEF Install, LocalTypeOK
  <2>4. CASE JoinOldThread
    BY <2>4 DEF JoinOldThread
  <2>5. CASE Spawn
    BY <2>5 DEF Spawn
  <2>6. CASE StopPipeline
    BY <1>2, <2>6 DEF StopPipeline
  <2>7. CASE CheckStart \/ Construct \/ AwaitStart
    BY <2>7 DEF CheckStart, Construct, AwaitStart, AfterStart, LocalTypeOK
  <2> QED
    BY <1>4, <2>1, <2>2, <2>3, <2>6, <2>7, <2>4, <2>5 DEF Handle
<1>5. CASE PipelineStep
  BY <1>5
     DEF PipelineStep, PipelineStarts, PipelineStartFails, PipelineEnds, PipelineReports
<1> QED
  BY <1>1, <1>3, <1>4, <1>5 DEF Next, ControlStep, HangStep

LEMMA HungTypeStep ==
    ASSUME HungTypeOK, [Next]_vars
    PROVE  HungTypeOK'
<1> USE DEF HungTypeOK
<1>1. CASE HangStep
  BY <1>1 DEF HangStep, ControlHangs, PipelineHangs
<1>2. CASE ControlStep
  BY <1>2 DEF ControlStep, Take, LeaveLoop, SendReply, Handle
<1>3. CASE MainStep \/ PipelineStep
  BY <1>3 DEF MainStep, MainAnswered, MainCloses, PipelineStep
<1>4. CASE \/ \E c \in Clients, cmd \in Commands : Call(c, cmd)
           \/ \E c \in Callers : CallerStep(c)
           \/ MainBegins \/ UNCHANGED vars
  BY <1>4 DEF Call, CallerStep, Submit, SendRequest, MainBegins, vars
<1> QED
  BY <1>1, <1>2, <1>3, <1>4 DEF Next, HangStep

LEMMA TypeStep ==
    ASSUME TypeParts, [Next]_vars
    PROVE  TypeParts'
BY SubmissionTypeStep, CallersTypeStep, LocalTypeStep, SharedTypeStep, HungTypeStep
   DEF TypeParts

LEMMA TypeStart == Init => TypeParts
<1> SUFFICES ASSUME Init
             PROVE  TypeParts
  OBVIOUS
<1>1. /\ started = TRUE /\ accepting = TRUE /\ queueClosed = FALSE /\ mutex = "free"
      /\ requests = <<>> /\ main = "run" /\ calls = 0 /\ serving = Main
      /\ config \in Configs /\ requested = config /\ before = config
  BY DEF Init
<1>2. SubmissionTypeOK
  <2>1. <<>> \in Seq(Callers) /\ Len(<<>>) = 0
    BY EmptySeq
  <2>2. 0 <= QueueCapacity
    BY ControlAssumption
  <2> QED
    BY <1>1, <2>1, <2>2 DEF SubmissionTypeOK, MainPCs
<1>3. CallersTypeOK
  <2>1. 0 \in 0 .. MaxCalls
    BY ControlAssumption
  <2>2. /\ caller = [c \in Callers |-> "idle"] /\ command = [c \in Callers |-> "query"]
        /\ response = [c \in Callers |-> "none"]
    BY DEF Init
  <2> QED
    BY <1>1, <2>1, <2>2 DEF CallersTypeOK, Commands, Responses
<1>4. LocalTypeOK
  <2>1. /\ pc = "idle" /\ attempt = 1 /\ result = "none"
        /\ wasRunning = FALSE /\ shouldStop = FALSE /\ threw = FALSE
    BY DEF Init
  <2>2. 1 \in 1 .. 2 /\ Main \in Callers
    BY DEF Callers
  <2> QED
    BY <1>1, <2>1, <2>2 DEF LocalTypeOK, PCs, Responses
<1>5. SharedTypeOK
  BY DEF Init, SharedTypeOK
<1>6. PipelineTypeOK
  BY DEF Init, PipelineTypeOK
<1>7. HungTypeOK
  BY DEF Init, HungTypeOK
<1> QED
  BY <1>2, <1>3, <1>4, <1>5, <1>6, <1>7 DEF TypeParts

-----------------------------------------------------------------------------
(* The queue of requests.  A caller that sends holds the submission mutex;  *)
(* the callers that wait are those in the queue and the one being served;   *)
(* and a shutdown request on its way is the last one that can get through.  *)

Busy == pc \notin {"idle", "done"}
Places == 1 .. Len(requests)
ShutsDown(c) == command[c] = "shutdown" /\ caller[c] \in {"send", "wait"}

SendersHoldTheMutex == \A c \in Callers : caller[c] = "send" <=> mutex = c

QueuedCallersWait ==
    /\ \A i \in Places : caller[requests[i]] = "wait"
    /\ \A i, j \in Places : requests[i] = requests[j] => i = j
    /\ Busy => caller[serving] = "wait" /\ \A i \in Places : requests[i] # serving

WaitersAreQueued ==
    \A c \in Callers : caller[c] = "wait" =>
        (Busy /\ serving = c) \/ \E i \in Places : requests[i] = c

ShutdownBars ==
    /\ \A c \in Callers : ShutsDown(c) => ~accepting
    /\ \A c, d \in Callers : ShutsDown(c) /\ ShutsDown(d) => c = d
    /\ \A c \in Callers : caller[c] = "send" /\ ~accepting
                              => command[c] = "shutdown" \/ queueClosed

ShutdownIsLast ==
    /\ \A i \in Places : command[requests[i]] = "shutdown" => i = Len(requests)
    /\ Busy /\ command[serving] = "shutdown" => requests = <<>>

LeftForGood ==
    pc = "done" => /\ requests = <<>> /\ ~accepting
                   /\ \A c \in Callers : caller[c] = "send" => queueClosed

Queueing ==
    /\ SendersHoldTheMutex /\ QueuedCallersWait /\ WaitersAreQueued
    /\ ShutdownBars /\ ShutdownIsLast /\ LeftForGood

LEMMA QueueingImplies == Queueing => NobodyBehindShutdown
<1> SUFFICES ASSUME Queueing, pc = "done"
             PROVE  requests = <<>> /\ \A c \in Callers : caller[c] # "wait"
  BY DEF NobodyBehindShutdown
<1>1. requests = <<>>
  BY DEF Queueing, LeftForGood
<1>2. Len(requests) = 0
  BY <1>1, EmptySeq
<1>3. Places = {}
  BY <1>2 DEF Places
<1> QED
  BY <1>1, <1>3 DEF Queueing, WaitersAreQueued, Busy

\* Nothing on the callers' side moves, and the request being served stays.
LEMMA QueueingUntouched ==
    ASSUME Queueing,
           UNCHANGED <<accepting, mutex, requests, caller, command, serving>>,
           queueClosed => queueClosed', queueClosed' \in BOOLEAN,
           Busy' <=> Busy, (pc = "done")' <=> pc = "done"
    PROVE  Queueing'
<1> USE DEF Queueing, Places, ShutsDown
<1>1. SendersHoldTheMutex' /\ QueuedCallersWait' /\ WaitersAreQueued' /\ ShutdownIsLast'
  BY DEF SendersHoldTheMutex, QueuedCallersWait, WaitersAreQueued, ShutdownIsLast
<1>2. ShutdownBars'
  BY DEF ShutdownBars
<1>3. LeftForGood'
  BY DEF LeftForGood
<1> QED
  BY <1>1, <1>2, <1>3

\* A caller that was idle asks for something.
LEMMA QueueingAsked ==
    ASSUME TypeParts, Queueing,
           NEW c \in Callers, NEW cmd \in Commands, caller[c] = "idle",
           caller' = [caller EXCEPT ![c] = "submit"],
           command' = [command EXCEPT ![c] = cmd],
           UNCHANGED <<submission, pc, serving>>
    PROVE  Queueing'
<1> USE DEF Queueing, Places, ShutsDown, submission
<1>1. /\ \A d \in Callers : caller'[d] = IF d = c THEN "submit" ELSE caller[d]
      /\ \A d \in Callers : command'[d] = IF d = c THEN cmd ELSE command[d]
  BY DEF TypeParts, CallersTypeOK
<1>2. \A i \in Places : requests[i] \in Callers /\ requests[i] # c
  BY DEF TypeParts, SubmissionTypeOK, QueuedCallersWait
<1>3. serving \in Callers /\ (Busy => serving # c)
  BY DEF TypeParts, LocalTypeOK, QueuedCallersWait
<1>4. SendersHoldTheMutex'
  BY <1>1 DEF SendersHoldTheMutex
<1>5. QueuedCallersWait'
  BY <1>1, <1>2, <1>3 DEF QueuedCallersWait, Busy
<1>6. WaitersAreQueued'
  BY <1>1 DEF WaitersAreQueued, Busy
<1>7. ShutdownBars'
  BY <1>1 DEF ShutdownBars
<1>8. ShutdownIsLast'
  BY <1>1, <1>2, <1>3 DEF ShutdownIsLast, Busy
<1>9. LeftForGood'
  BY <1>1 DEF LeftForGood
<1> QED
  BY <1>4, <1>5, <1>6, <1>7, <1>8, <1>9

\* The caller is let in, holding the mutex, or rejected.
LEMMA QueueingSubmitted ==
    ASSUME TypeParts, Queueing, NEW c \in Callers, Submit(c)
    PROVE  Queueing'
<1> USE DEF Queueing, Places, ShutsDown
<1>1. /\ caller[c] = "submit" /\ mutex = "free" /\ mutex' \in {"free", c}
      /\ UNCHANGED <<requests, queueClosed, command, pc, serving>>
      /\ accepting' => accepting
  <2>1. accepting \/ accepting' = accepting
    BY DEF Submit
  <2>2. accepting' => accepting
    BY <2>1
  <2> QED
    BY <2>2 DEF Submit, Answer, local
<1>2. \A i \in Places : requests[i] \in Callers
  BY DEF TypeParts, SubmissionTypeOK
<1>3. \A d \in Callers : d # c => caller'[d] = caller[d] /\ caller[d] # "send"
  BY <1>1, ControlAssumption
     DEF Submit, Answer, TypeParts, CallersTypeOK, SendersHoldTheMutex, Callers
<1>4. \/ /\ caller'[c] = "send" /\ mutex' = c
         /\ accepting /\ (~accepting' => command[c] = "shutdown")
         /\ command[c] = "shutdown" => ~accepting'
      \/ /\ caller'[c] = "idle" /\ mutex' = "free"
         /\ accepting' = accepting
  BY DEF Submit, Answer, TypeParts, CallersTypeOK
<1>5. SendersHoldTheMutex'
  BY <1>1, <1>3, <1>4, ControlAssumption DEF SendersHoldTheMutex, Callers
<1>6. QueuedCallersWait'
  <2>1. \A i \in Places : requests[i] # c
    BY <1>1 DEF QueuedCallersWait
  <2>2. Busy => serving # c
    BY <1>1 DEF QueuedCallersWait
  <2> QED
    BY <1>1, <1>2, <1>3, <2>1, <2>2 DEF QueuedCallersWait, Busy, TypeParts, LocalTypeOK
<1>7. WaitersAreQueued'
  BY <1>1, <1>3, <1>4 DEF WaitersAreQueued, Busy
<1>8. ShutdownBars'
  BY <1>1, <1>3, <1>4 DEF ShutdownBars
<1>9. ShutdownIsLast'
  BY <1>1 DEF ShutdownIsLast, Busy
<1>10. LeftForGood'
  BY <1>1, <1>3, <1>4 DEF LeftForGood
<1> QED
  BY <1>5, <1>6, <1>7, <1>8, <1>9, <1>10

\* The request goes into the queue, or the queue is closed.  A request that
\* gets in finds no shutdown request before it.
LEMMA QueueingSent ==
    ASSUME TypeParts, Queueing, NEW c \in Callers, SendRequest(c)
    PROVE  Queueing'
<1> USE DEF Queueing, ShutsDown
<1>1. /\ caller[c] = "send" /\ mutex = c /\ mutex' = "free"
      /\ UNCHANGED <<accepting, queueClosed, command, pc, serving>>
  BY DEF SendRequest, Answer, local, SendersHoldTheMutex
<1>2. \A i \in Places : requests[i] \in Callers
  BY DEF TypeParts, SubmissionTypeOK, Places
<1>3. \A d \in Callers : d # c => caller'[d] = caller[d] /\ caller[d] # "send"
  BY <1>1 DEF SendRequest, Answer, TypeParts, CallersTypeOK, SendersHoldTheMutex
<1>4. caller'[c] \in {"idle", "wait"}
  BY DEF SendRequest, Answer, TypeParts, CallersTypeOK
<1>5. SendersHoldTheMutex'
  BY <1>1, <1>3, <1>4, ControlAssumption DEF SendersHoldTheMutex, Callers
<1>6. (\A i \in Places : requests[i] # c) /\ (Busy => serving \in Callers /\ serving # c)
  BY <1>1 DEF QueuedCallersWait, TypeParts, LocalTypeOK
<1>7. ShutdownBars'
  BY <1>1, <1>3, <1>4 DEF ShutdownBars
<1>8. CASE queueClosed
  <2>1. requests' = requests /\ caller'[c] = "idle"
    BY <1>8 DEF SendRequest, Answer, TypeParts, CallersTypeOK
  <2>2. QueuedCallersWait'
    BY <1>1, <1>2, <1>3, <1>6, <2>1 DEF QueuedCallersWait, Busy, Places
  <2>3. WaitersAreQueued'
    BY <1>1, <1>3, <2>1 DEF WaitersAreQueued, Busy, Places
  <2>4. ShutdownIsLast' /\ LeftForGood'
    BY <1>1, <1>3, <1>4, <2>1 DEF ShutdownIsLast, LeftForGood, Busy, Places
  <2> QED
    BY <1>5, <1>7, <2>2, <2>3, <2>4
<1>9. CASE ~queueClosed
  <2>1. requests' = Append(requests, c) /\ caller'[c] = "wait"
    BY <1>9 DEF SendRequest, Answer, TypeParts, CallersTypeOK
  <2> DEFINE n == Len(requests)
  <2>2. /\ n \in Nat /\ Len(requests') = n + 1
        /\ requests'[n + 1] = c
        /\ \A i \in 1 .. n : requests'[i] = requests[i]
    BY <2>1, Appended DEF TypeParts, SubmissionTypeOK
  <2>3. \A i \in 1 .. n : requests[i] \in Callers /\ caller[requests[i]] = "wait" /\ requests[i] # c
    BY <1>2, <1>6 DEF QueuedCallersWait, Places
  <2>4. \A i \in 1 .. n : command[requests[i]] # "shutdown"
    <3> SUFFICES ASSUME NEW i \in 1 .. n, command[requests[i]] = "shutdown"
                 PROVE  FALSE
      OBVIOUS
    <3>1. ShutsDown(requests[i]) /\ ~accepting
      BY <2>3 DEF ShutdownBars
    <3>2. ShutsDown(c)
      BY <1>1, <1>9, <3>1 DEF ShutdownBars
    <3> QED
      BY <2>3, <3>1, <3>2 DEF ShutdownBars
  <2>5. Busy => command[serving] # "shutdown"
    <3> SUFFICES ASSUME Busy, command[serving] = "shutdown"
                 PROVE  FALSE
      OBVIOUS
    <3>1. ShutsDown(serving) /\ ~accepting
      BY <1>6 DEF ShutdownBars, QueuedCallersWait
    <3>2. ShutsDown(c)
      BY <1>1, <1>9, <3>1 DEF ShutdownBars
    <3> QED
      BY <1>6, <3>1, <3>2 DEF ShutdownBars
  <2>6. pc # "done"
    BY <1>1, <1>9 DEF LeftForGood
  <2>7. QueuedCallersWait'
    <3>1. \A i \in Places' : caller'[requests'[i]] = "wait"
      BY <1>3, <2>1, <2>2, <2>3 DEF Places
    <3>2. \A i, j \in Places' : requests'[i] = requests'[j] => i = j
      BY <2>2, <2>3 DEF Places, QueuedCallersWait
    <3>3. Busy => caller[serving] = "wait" /\ \A i \in 1 .. n : requests[i] # serving
      BY DEF QueuedCallersWait, Places
    <3>4. Busy => caller'[serving] = "wait" /\ \A i \in Places' : requests'[i] # serving
      BY <1>3, <1>6, <2>2, <3>3 DEF Places
    <3> QED
      BY <1>1, <3>1, <3>2, <3>4 DEF QueuedCallersWait, Busy
  <2>8. WaitersAreQueued'
    <3> SUFFICES ASSUME NEW d \in Callers, caller'[d] = "wait"
                 PROVE  (Busy /\ serving = d) \/ \E i \in Places' : requests'[i] = d
      BY <1>1 DEF WaitersAreQueued, Busy
    <3>1. CASE d = c
      BY <2>2, <3>1 DEF Places
    <3>2. CASE d # c
      <4>1. (Busy /\ serving = d) \/ \E i \in 1 .. n : requests[i] = d
        BY <1>3, <3>2 DEF WaitersAreQueued, Places
      <4> QED
        BY <2>2, <4>1 DEF Places
    <3> QED
      BY <3>1, <3>2
  <2>9. ShutdownIsLast'
    <3>1. \A i \in Places' : command[requests'[i]] = "shutdown" => i = n + 1
      BY <2>2, <2>4 DEF Places
    <3> QED
      BY <1>1, <2>2, <2>5, <3>1 DEF ShutdownIsLast, Busy
  <2>10. LeftForGood'
    BY <1>1, <2>6 DEF LeftForGood
  <2> QED
    BY <1>5, <1>7, <2>7, <2>8, <2>9, <2>10
<1> QED
  BY <1>8, <1>9

\* The control thread takes the first request.
LEMMA QueueingTaken ==
    ASSUME TypeParts, Queueing, Take
    PROVE  Queueing'
<1> USE DEF Queueing, ShutsDown
<1> DEFINE n == Len(requests)
<1>1. /\ pc = "idle" /\ pc' = "begin" /\ requests # <<>>
      /\ UNCHANGED <<accepting, mutex, queueClosed, caller, command>>
      /\ serving' = Head(requests) /\ requests' = Tail(requests)
  BY DEF Take, Goto, callers
<1>2. /\ n \in Nat \ {0} /\ Len(requests') = n - 1
      /\ serving' = requests[1] /\ serving' \in Callers
      /\ \A i \in 1 .. n - 1 : requests'[i] = requests[i + 1]
  BY <1>1, Taken DEF TypeParts, SubmissionTypeOK
<1>3. SendersHoldTheMutex' /\ ShutdownBars' /\ LeftForGood'
  BY <1>1 DEF SendersHoldTheMutex, ShutdownBars, LeftForGood
<1>4. \A i \in 1 .. n - 1 : i + 1 \in 1 .. n /\ i + 1 # 1
  BY <1>2
<1>5. QueuedCallersWait'
  <2>1. \A i \in Places' : caller'[requests'[i]] = "wait" /\ requests'[i] # serving'
    BY <1>1, <1>2, <1>4 DEF QueuedCallersWait, Places
  <2>2. \A i, j \in Places' : requests'[i] = requests'[j] => i = j
    <3> SUFFICES ASSUME NEW i \in 1 .. n - 1, NEW j \in 1 .. n - 1, requests'[i] = requests'[j]
                 PROVE  i = j
      BY <1>2 DEF Places
    <3>1. i + 1 = j + 1
      BY <1>2, <1>4 DEF QueuedCallersWait, Places
    <3> QED
      BY <3>1
  <2>3. caller'[serving'] = "wait"
    BY <1>1, <1>2 DEF QueuedCallersWait, Places
  <2> QED
    BY <2>1, <2>2, <2>3 DEF QueuedCallersWait
<1>6. WaitersAreQueued'
  <2> SUFFICES ASSUME NEW d \in Callers, caller[d] = "wait", serving' # d
               PROVE  \E i \in Places' : requests'[i] = d
    BY <1>1 DEF WaitersAreQueued, Busy
  <2>1. PICK j \in 1 .. n : requests[j] = d
    BY <1>1 DEF WaitersAreQueued, Busy, Places
  <2>2. j - 1 \in 1 .. n - 1 /\ (j - 1) + 1 = j
    BY <1>2, <2>1
  <2> QED
    BY <1>2, <2>1, <2>2 DEF Places
<1>7. ShutdownIsLast'
  <2>1. \A i \in 1 .. n - 1 : command[requests[i + 1]] = "shutdown" => i = n - 1
    BY <1>2, <1>4 DEF ShutdownIsLast, Places
  <2>2. command[requests[1]] = "shutdown" => n = 1
    BY <1>2 DEF ShutdownIsLast, Places
  <2>3. n = 1 => requests' = <<>>
    <3>1. requests' \in Seq(Callers)
      BY <1>1, Taken DEF TypeParts, SubmissionTypeOK
    <3> QED
      BY <1>2, <3>1, EmptySeq
  <2> QED
    BY <1>1, <1>2, <2>1, <2>2, <2>3 DEF ShutdownIsLast, Places
<1> QED
  BY <1>3, <1>5, <1>6, <1>7

\* The caller that was served gets its answer; a shutdown ends the loop.
LEMMA QueueingAnswered ==
    ASSUME TypeParts, Queueing, SendReply
    PROVE  Queueing'
<1> USE DEF Queueing, ShutsDown, Places
<1>1. /\ pc = "reply" /\ Busy /\ serving \in Callers
      /\ UNCHANGED <<mutex, requests, queueClosed, command, serving>>
      /\ pc' = IF command[serving] = "shutdown" THEN "done" ELSE "idle"
      /\ accepting' = IF command[serving] = "shutdown" THEN FALSE ELSE accepting
  BY DEF SendReply, Goto, Answer, local, Busy, TypeParts, LocalTypeOK
<1>2. \A d \in Callers : caller'[d] = IF d = serving THEN "idle" ELSE caller[d]
  BY <1>1 DEF SendReply, Answer, TypeParts, CallersTypeOK
<1>3. caller[serving] = "wait" /\ \A i \in Places : requests[i] # serving
  BY <1>1 DEF QueuedCallersWait
<1>4. \A i \in Places : requests[i] \in Callers
  BY DEF TypeParts, SubmissionTypeOK
<1>5. SendersHoldTheMutex'
  BY <1>1, <1>2, <1>3 DEF SendersHoldTheMutex
<1>6. QueuedCallersWait'
  BY <1>1, <1>2, <1>3, <1>4 DEF QueuedCallersWait, Busy
<1>7. WaitersAreQueued'
  BY <1>1, <1>2 DEF WaitersAreQueued, Busy
<1>8. command[serving] = "shutdown" => ~accepting
  BY <1>1, <1>3 DEF ShutdownBars
<1>9. ShutdownBars'
  BY <1>1, <1>2, <1>8 DEF ShutdownBars
<1>10. ShutdownIsLast'
  BY <1>1 DEF ShutdownIsLast, Busy
<1>11. LeftForGood'
  <2> SUFFICES ASSUME command[serving] = "shutdown"
               PROVE  requests = <<>> /\ \A c \in Callers : caller'[c] = "send" => queueClosed
    BY <1>1 DEF LeftForGood
  <2>1. requests = <<>>
    BY <1>1 DEF ShutdownIsLast
  <2>2. ASSUME NEW c \in Callers, caller'[c] = "send"
        PROVE  queueClosed
    <3>1. caller[c] = "send" /\ c # serving
      BY <1>2, <2>2
    <3> QED
      BY <1>1, <1>3, <1>8, <3>1 DEF ShutdownBars
  <2> QED
    BY <2>1, <2>2
<1> QED
  BY <1>5, <1>6, <1>7, <1>9, <1>10, <1>11

\* The queue is closed and empty: the control thread leaves its loop.
LEMMA QueueingLeft ==
    ASSUME TypeParts, Queueing, LeaveLoop
    PROVE  Queueing'
<1> USE DEF Queueing, ShutsDown, Places
<1>1. /\ pc = "idle" /\ pc' = "done" /\ requests = <<>> /\ queueClosed /\ accepting' = FALSE
      /\ UNCHANGED <<mutex, requests, queueClosed, caller, command, serving>>
  BY DEF LeaveLoop, Goto, callers, local
<1>2. SendersHoldTheMutex' /\ QueuedCallersWait' /\ WaitersAreQueued' /\ ShutdownIsLast'
  BY <1>1 DEF SendersHoldTheMutex, QueuedCallersWait, WaitersAreQueued, ShutdownIsLast, Busy
<1>3. ShutdownBars' /\ LeftForGood'
  BY <1>1 DEF ShutdownBars, LeftForGood
<1> QED
  BY <1>2, <1>3


\* stop() submits at most one request, and is in its own part while it waits.
MainWaitsForShutdown == main # "shutdown" => caller[Main] = "idle"

LEMMA QueueingStep ==
    ASSUME TypeParts, Queueing, MainWaitsForShutdown, [Next]_vars
    PROVE  Queueing' /\ MainWaitsForShutdown'
<1>1. Main \in Callers
  BY DEF Callers
<1>2. ASSUME NEW c \in Clients, NEW cmd \in Commands, Call(c, cmd)
      PROVE  Queueing' /\ MainWaitsForShutdown'
  <2>1. c \in Callers /\ c # Main
    BY ControlAssumption DEF Callers
  <2>2. /\ caller[c] = "idle" /\ caller' = [caller EXCEPT ![c] = "submit"]
        /\ command' = [command EXCEPT ![c] = cmd]
        /\ UNCHANGED <<submission, pc, serving, main>>
    BY <1>2 DEF Call, local
  <2>3. MainWaitsForShutdown'
    BY <1>1, <2>1, <2>2 DEF MainWaitsForShutdown, TypeParts, CallersTypeOK
  <2> QED
    BY <2>1, <2>2, <2>3, QueueingAsked
<1>3. ASSUME NEW c \in Callers, CallerStep(c)
      PROVE  Queueing' /\ MainWaitsForShutdown'
  <2>1. Queueing'
    BY <1>3, QueueingSubmitted, QueueingSent DEF CallerStep
  <2>2. main' = main /\ caller[c] \in {"submit", "send"}
    BY <1>3 DEF CallerStep, Submit, SendRequest
  <2>3. \A d \in Callers : d # c => caller'[d] = caller[d]
    BY <1>3 DEF CallerStep, Submit, SendRequest, Answer, TypeParts, CallersTypeOK
  <2>4. MainWaitsForShutdown'
    BY <1>1, <2>2, <2>3 DEF MainWaitsForShutdown
  <2> QED
    BY <2>1, <2>4
<1>4. CASE MainBegins
  <2>1. CASE accepting
    <3>1. /\ caller' = [caller EXCEPT ![Main] = "submit"]
          /\ command' = [command EXCEPT ![Main] = "shutdown"]
          /\ main' = "shutdown" /\ UNCHANGED <<submission, pc, serving>>
      BY <1>4, <2>1 DEF MainBegins, local
    <3>2. caller[Main] = "idle"
      BY <1>4 DEF MainBegins, MainWaitsForShutdown
    <3>3. "shutdown" \in Commands
      BY DEF Commands
    <3>4. Queueing'
      BY <1>1, <3>1, <3>2, <3>3, QueueingAsked
    <3> QED
      BY <3>1, <3>4 DEF MainWaitsForShutdown
  <2>2. CASE ~accepting
    <3>1. /\ UNCHANGED <<submission, caller, command, pc, serving>>
          /\ main # "shutdown"
      BY <1>4, <2>2 DEF MainBegins, local
    <3>2. Queueing'
      BY <3>1, QueueingUntouched DEF submission, Busy, TypeParts, SubmissionTypeOK
    <3> QED
      BY <3>1, <3>2 DEF MainWaitsForShutdown
  <2> QED
    BY <2>1, <2>2
<1>5. CASE MainStep
  <2>1. /\ UNCHANGED <<accepting, mutex, requests, caller, command, serving, pc>>
        /\ queueClosed' = TRUE \/ queueClosed' = queueClosed
    BY <1>5
       DEF MainStep, MainAnswered, MainCloses, MainJoinsControl, MainStopsPipeline, submission,
           callers, local
  <2>2. Queueing'
    BY <2>1, QueueingUntouched DEF Busy, TypeParts, SubmissionTypeOK
  <2>3. main # "shutdown" \/ caller[Main] = "idle"
    BY <1>5 DEF MainStep, MainAnswered, MainCloses, MainJoinsControl, MainStopsPipeline
  <2> QED
    BY <2>1, <2>2, <2>3 DEF MainWaitsForShutdown
<1>6. CASE Handle
  <2>1. /\ UNCHANGED <<submission, callers, main, serving>>
        /\ pc \notin {"idle", "done"} /\ pc' \notin {"idle", "done"}
    BY <1>6, HandleEffect
  <2>2. Queueing'
    BY <2>1, QueueingUntouched DEF submission, callers, Busy, TypeParts, SubmissionTypeOK
  <2> QED
    BY <2>1, <2>2 DEF MainWaitsForShutdown, callers
<1>7. CASE Take \/ LeaveLoop \/ SendReply
  <2>1. Queueing'
    BY <1>7, QueueingTaken, QueueingLeft, QueueingAnswered
  <2>2. main' = main /\ (caller' = caller \/ Answer(serving, result))
    BY <1>7 DEF Take, LeaveLoop, SendReply, callers
  <2>3. caller[Main] = "idle" => caller'[Main] = "idle"
    BY <1>1, <2>2 DEF Answer, TypeParts, CallersTypeOK
  <2> QED
    BY <2>1, <2>2, <2>3 DEF MainWaitsForShutdown
<1>8. CASE PipelineStep \/ HangStep \/ UNCHANGED vars
  <2>1. UNCHANGED <<submission, callers, main, pc, serving>>
    BY HangEffect, <1>8 DEF PipelineStep, unhung, local
  <2>2. Queueing'
    BY <2>1, QueueingUntouched DEF submission, callers, Busy, TypeParts, SubmissionTypeOK
  <2> QED
    BY <2>1, <2>2 DEF MainWaitsForShutdown, callers
<1> QED
  BY <1>2, <1>3, <1>4, <1>5, <1>6, <1>7, <1>8 DEF Next, ControlStep, HangStep

-----------------------------------------------------------------------------
(* The pipeline thread.  Who starts, stops and joins it agrees with what    *)
(* state_ says of it.                                                       *)

StopPCs == {"finalize", "tell", "join"}
Stopper == pc \in StopPCs \/ main \in StopPCs

Settled ==
    /\ state \in {"Stopped", "Running", "Failed", "Shutdown"}
    /\ state = "Running" => thread \in {"running", "ending"}
    /\ state # "Running" => thread \in {"none", "exited"}

StopsAfterTheLoop == main \in StopPCs \cup {"done"} => pc = "done"

SettledOutside == ~Stopper /\ pc # "await" => Settled

StoppingIsMarked ==
    Stopper =>
       \/ /\ shouldStop
          /\ \/ thread \in {"running", "ending"} /\ state = "Stopping"
             \/ thread \in {"none", "exited"} /\ state \in {"Stopping", "Stopped", "Failed"}
       \/ /\ ~shouldStop /\ (pc = "join" \/ main = "join")
          /\ thread \in {"none", "exited"} /\ state \in {"Stopped", "Shutdown"}

StartingIsAwaited ==
    /\ pc = "await" => \/ thread = "starting" /\ state = "Starting"
                       \/ thread # "none" /\ Settled
    /\ pc \in {"joinOld", "construct", "spawn"} => state \in {"Stopped", "Failed"}
    /\ pc \in {"construct", "spawn", "shutdown"} => thread = "none"

Agreement ==
    /\ StopsAfterTheLoop /\ SettledOutside /\ StoppingIsMarked /\ StartingIsAwaited
    /\ StopLeavesNothing

LEMMA AgreementImplies == Agreement => SettledBetweenCommands /\ OnePipelineThread
BY DEF Agreement, SettledOutside, StartingIsAwaited, Settled, Stopper, StopPCs,
       SettledBetweenCommands, OnePipelineThread

\* The steps of stop_pipeline, taken by the thread at pc or at main.
LEMMA AgreementStop ==
    ASSUME TypeParts, Agreement, StopPipeline, UNCHANGED main
    PROVE  Agreement'
<1> USE DEF Agreement, StopsAfterTheLoop, SettledOutside, StoppingIsMarked, StartingIsAwaited,
            StopLeavesNothing, Settled, Stopper, StopPCs, Goto, Reply
<1>1. state \in {"Stopped", "Starting", "Running", "Stopping", "Failed", "Shutdown"}
      /\ thread \in {"none", "starting", "running", "ending", "exited"}
  BY DEF TypeParts, SharedTypeOK, PipelineTypeOK
<1>2. main \notin {"finalize", "tell", "join", "done"}
  BY DEF StopPipeline
<1>3. CASE pc = "stop" /\ DecideToStop
  BY <1>1, <1>2, <1>3 DEF StopPipeline, DecideToStop, NextStopStep, AfterStop, pipeline
<1>4. CASE pc = "finalize" /\ FinalizeRecording
  BY <1>2, <1>4 DEF StopPipeline, FinalizeRecording, shared
<1>5. CASE pc = "tell" /\ TellToStop
  BY <1>2, <1>5 DEF StopPipeline, TellToStop, shared
<1>6. CASE pc = "join" /\ JoinPipeline
  BY <1>2, <1>6 DEF StopPipeline, JoinPipeline, AfterStop
<1> QED
  BY <1>3, <1>4, <1>5, <1>6 DEF StopPipeline

LEMMA AgreementStep ==
    ASSUME TypeParts, Agreement, [Next]_vars
    PROVE  Agreement'
<1> USE DEF Agreement, StopsAfterTheLoop, SettledOutside, StoppingIsMarked, StartingIsAwaited,
            StopLeavesNothing, Settled, Stopper, StopPCs, Goto, Reply, Serves
<1>1. state \in {"Stopped", "Starting", "Running", "Stopping", "Failed", "Shutdown"}
      /\ thread \in {"none", "starting", "running", "ending", "exited"}
  BY DEF TypeParts, SharedTypeOK, PipelineTypeOK
<1>2. CASE \/ \E c \in Clients, cmd \in Commands : Call(c, cmd)
           \/ \E c \in Callers : CallerStep(c)
           \/ HangStep \/ UNCHANGED vars
  <2>1. UNCHANGED <<main, pc, shouldStop, state, thread>>
    BY HangEffect, <1>2 DEF Call, CallerStep, Submit, SendRequest, local, shared, pipeline, unhung
  <2> QED
    BY <2>1
<1>3. CASE MainBegins \/ MainAnswered \/ MainCloses
  <2>1. /\ UNCHANGED <<pc, shouldStop, state, thread>>
        /\ main \notin {"finalize", "tell", "join", "done"}
        /\ main' \notin {"finalize", "tell", "join", "done"}
    BY <1>3 DEF MainBegins, MainAnswered, MainCloses, local, shared, pipeline
  <2> QED
    BY <2>1
<1>4. CASE MainJoinsControl /\ UNCHANGED pc
  BY <1>1, <1>4 DEF MainJoinsControl, DecideToStop, NextStopStep, pipeline
<1>5. CASE MainStopsPipeline /\ UNCHANGED pc
  BY <1>1, <1>5
     DEF MainStopsPipeline, FinalizeRecording, TellToStop, JoinPipeline, shared
<1>6. CASE Take \/ LeaveLoop \/ SendReply
  <2>1. /\ UNCHANGED <<main, shouldStop, state, thread>>
        /\ pc \in {"idle", "reply"} /\ pc' \in {"begin", "done", "idle"}
    BY <1>6 DEF Take, LeaveLoop, SendReply, local, shared, pipeline
  <2> QED
    BY <2>1
<1>7. CASE Handle
  <2>1. UNCHANGED main
    BY <1>7 DEF Handle
  <2>2. CASE \/ BeginQuery \/ BeginOutputCommand \/ ConfigureOutput \/ BeginStartOrStop
             \/ RefuseReconfiguration \/ BeginReconfiguration \/ BeginRecordingCommand
             \/ OutputStartsRecording \/ NoteRecording \/ OutputStopsRecording \/ Install
    <3>1. /\ UNCHANGED <<shouldStop, state, thread>>
          /\ pc \in {"begin", "configure", "startRecording", "noteRecording",
                     "stopRecording", "install"}
          /\ pc' \in {"reply", "configure", "start", "stop", "install", "startRecording",
                      "stopRecording", "noteRecording"}
      BY <2>2
         DEF BeginQuery, BeginOutputCommand, ConfigureOutput, BeginStartOrStop,
             RefuseReconfiguration, BeginReconfiguration, BeginRecordingCommand, OutputStartsRecording, NoteRecording,
             OutputStopsRecording, Install, local, shared, pipeline
    <3> QED
      BY <2>1, <3>1
  <2>3. CASE StopPipeline
    BY <2>1, <2>3, AgreementStop
  <2>4. CASE BecomeShutdown
    BY <2>1, <2>4 DEF BecomeShutdown, pipeline
  <2>5. CASE CheckStart
    BY <1>1, <2>1, <2>5 DEF CheckStart, AfterStart, pipeline
  <2>6. CASE JoinOldThread
    BY <2>1, <2>6 DEF JoinOldThread, local, shared
  <2>7. CASE Construct
    BY <2>1, <2>7 DEF Construct, AfterStart, pipeline
  <2>8. CASE Spawn
    BY <2>1, <2>8 DEF Spawn, local
  <2>9. CASE AwaitStart
    BY <2>1, <2>9 DEF AwaitStart, AfterStart, pipeline
  <2> QED
    BY <1>7, <2>2, <2>3, <2>4, <2>5, <2>6, <2>7, <2>8, <2>9 DEF Handle
<1>8. CASE PipelineStep
  BY <1>8
     DEF PipelineStep, PipelineStarts, PipelineStartFails, PipelineEnds, PipelineReports,
         local, shared
<1> QED
  BY <1>2, <1>3, <1>4, <1>5, <1>6, <1>7, <1>8 DEF Next, MainStep, ControlStep, HangStep


-----------------------------------------------------------------------------
(* Recordings.  A run that is told to stop has had its recording finalized: *)
(* recording_ knows of every active one, except while it is being noted.    *)

NewRunIsIdle == thread = "starting" => pc = "await" /\ ~prodStop /\ ~active
StopFindsNone == thread = "running" /\ prodStop => (pc = "join" \/ main = "join") /\ ~active
RecordingIsKnown == thread = "running" /\ active => recording \/ pc = "noteRecording"
FinalizedFirst == thread = "running" /\ (pc = "tell" \/ main = "tell") => ~active

Kept ==
    /\ NewRunIsIdle /\ StopFindsNone /\ RecordingIsKnown /\ FinalizedFirst
    /\ StopLosesNoRecording

recordingVars == <<thread, prodStop, active, lostByStop, recording>>

\* Steps that leave the pipeline alone and do not change the place where it
\* is being stopped or recorded.
LEMMA KeptUntouched ==
    ASSUME Kept, UNCHANGED recordingVars,
           pc \in {"await", "join", "noteRecording"} => pc' = pc,
           main = "join" => main' = "join",
           pc' = "tell" => pc = "tell", main' = "tell" => main = "tell"
    PROVE  Kept'
BY DEF Kept, NewRunIsIdle, StopFindsNone, RecordingIsKnown, FinalizedFirst,
       StopLosesNoRecording, recordingVars

\* The last three steps of stop_pipeline, whichever thread takes them.
LEMMA KeptFinalized ==
    ASSUME Kept, FinalizeRecording,
           thread # "starting", pc \notin {"noteRecording", "join"}, main # "join"
    PROVE  Kept'
<1>1. UNCHANGED <<thread, prodStop, lostByStop, recording>> /\ active' = (active /\ ~recording)
  BY DEF FinalizeRecording, shared
<1>2. (active' => active) /\ (active' => ~recording)
  BY <1>1
<1>3. thread = "running" => ~active'
  BY <1>2 DEF Kept, RecordingIsKnown
<1> QED
  BY <1>1, <1>3
     DEF Kept, NewRunIsIdle, StopFindsNone, RecordingIsKnown, FinalizedFirst,
         StopLosesNoRecording

LEMMA KeptTold ==
    ASSUME Kept, TellToStop,
           thread # "starting", pc = "tell" \/ main = "tell", pc' = "join" \/ main' = "join"
    PROVE  Kept'
<1>1. UNCHANGED <<thread, active, lostByStop>> /\ (thread = "running" => ~active)
  BY DEF TellToStop, Kept, FinalizedFirst
<1> QED
  BY <1>1
     DEF Kept, NewRunIsIdle, StopFindsNone, RecordingIsKnown, FinalizedFirst,
         StopLosesNoRecording

LEMMA KeptJoined ==
    ASSUME Kept, JoinPipeline
    PROVE  Kept'
<1>1. thread' = "none" /\ UNCHANGED lostByStop
  BY DEF JoinPipeline
<1> QED
  BY <1>1
     DEF Kept, NewRunIsIdle, StopFindsNone, RecordingIsKnown, FinalizedFirst,
         StopLosesNoRecording

LEMMA KeptPipelineStep ==
    ASSUME TypeParts, Agreement, Kept, PipelineStep
    PROVE  Kept'
<1> USE DEF Kept, NewRunIsIdle, StopFindsNone, RecordingIsKnown, FinalizedFirst,
            StopLosesNoRecording
<1>1. UNCHANGED <<main, pc>>
  BY DEF PipelineStep
<1>2. CASE PipelineStarts
  <2>1. /\ thread = "starting" /\ thread' = "running"
        /\ UNCHANGED <<recording, prodStop, active, lostByStop>>
    BY <1>2 DEF PipelineStarts
  <2>2. ~prodStop /\ ~active
    BY <2>1
  <2> QED
    BY <1>1, <2>1, <2>2
<1>3. CASE PipelineStartFails \/ PipelineReports
  <2>1. thread' = "exited" /\ UNCHANGED lostByStop
    BY <1>3 DEF PipelineStartFails, PipelineReports
  <2> QED
    BY <2>1
<1>4. CASE PipelineEnds
  <2>1. thread = "running" /\ thread' = "ending"
        /\ lostByStop' = (lostByStop \/ (prodStop /\ active))
    BY <1>4 DEF PipelineEnds
  <2>2. ~lostByStop'
    BY <2>1
  <2> QED
    BY <2>1, <2>2
<1> QED
  BY <1>2, <1>3, <1>4 DEF PipelineStep

LEMMA KeptHandle ==
    ASSUME TypeParts, Agreement, Kept, Handle
    PROVE  Kept'
<1> USE DEF Goto, Reply, Serves
<1>1. main' = main /\ (main \notin StopPCs \cup {"done"})
  <2>1. pc # "done" /\ UNCHANGED main
    BY HandleEffect, Handle
  <2> QED
    BY <2>1 DEF Agreement, StopsAfterTheLoop
<1>2. CASE \/ BeginQuery \/ BeginOutputCommand \/ ConfigureOutput \/ BeginStartOrStop
           \/ RefuseReconfiguration \/ BeginReconfiguration \/ BeginRecordingCommand \/ Install
  <2>1. /\ UNCHANGED recordingVars
        /\ pc \in {"begin", "configure", "install"} /\ pc' # "tell"
    BY <1>2
       DEF BeginQuery, BeginOutputCommand, ConfigureOutput, BeginStartOrStop,
           RefuseReconfiguration, BeginReconfiguration, BeginRecordingCommand, Install, shared, pipeline,
           recordingVars
  <2> QED
    BY <1>1, <2>1, KeptUntouched
<1>3. CASE OutputStartsRecording
  <2>1. /\ pc = "startRecording" /\ pc' \in {"noteRecording", "reply"}
        /\ UNCHANGED <<thread, prodStop, lostByStop, recording>>
        /\ pc' = "reply" => active' = active
    BY <1>3 DEF OutputStartsRecording, shared
  <2>2. thread # "starting" /\ ~(thread = "running" /\ prodStop)
    BY <1>1, <2>1 DEF Kept, NewRunIsIdle, StopFindsNone, StopPCs
  <2>3. pc' = "noteRecording" \/ (active' => active)
    BY <2>1
  <2> QED
    BY <1>1, <2>1, <2>2, <2>3
       DEF Kept, NewRunIsIdle, StopFindsNone, RecordingIsKnown, FinalizedFirst,
           StopLosesNoRecording, StopPCs
<1>4. CASE NoteRecording
  <2>1. /\ pc = "noteRecording" /\ pc' = "reply" /\ recording' = TRUE
        /\ UNCHANGED <<thread, prodStop, active, lostByStop>>
    BY <1>4 DEF NoteRecording, pipeline
  <2> QED
    BY <1>1, <2>1
       DEF Kept, NewRunIsIdle, StopFindsNone, RecordingIsKnown, FinalizedFirst,
           StopLosesNoRecording, StopPCs
<1>5. CASE OutputStopsRecording
  <2>1. /\ pc = "stopRecording" /\ pc' = "reply" /\ active' = FALSE
        /\ UNCHANGED <<thread, prodStop, lostByStop>>
    BY <1>5 DEF OutputStopsRecording
  <2> QED
    BY <1>1, <2>1
       DEF Kept, NewRunIsIdle, StopFindsNone, RecordingIsKnown, FinalizedFirst,
           StopLosesNoRecording, StopPCs
<1>6. CASE StopPipeline
  <2>1. CASE pc = "stop" /\ DecideToStop
    <3>1. UNCHANGED recordingVars /\ pc' # "tell"
      BY <1>6, <2>1
         DEF StopPipeline, DecideToStop, NextStopStep, AfterStop, pipeline, recordingVars
    <3> QED
      BY <1>1, <2>1, <3>1, KeptUntouched
  <2>2. pc \in {"finalize", "tell"} => thread # "starting"
    BY DEF Kept, NewRunIsIdle
  <2>3. CASE pc = "finalize" /\ FinalizeRecording
    BY <1>1, <2>2, <2>3, KeptFinalized DEF StopPCs
  <2>4. CASE pc = "tell" /\ TellToStop /\ pc' = "join"
    BY <2>2, <2>4, KeptTold
  <2>5. CASE JoinPipeline
    BY <2>5, KeptJoined
  <2> QED
    BY <1>6, <2>1, <2>3, <2>4, <2>5 DEF StopPipeline
<1>7. CASE BecomeShutdown
  <2>1. thread = "none" /\ UNCHANGED <<thread, lostByStop>>
    BY <1>7 DEF BecomeShutdown, Agreement, StartingIsAwaited, pipeline
  <2> QED
    BY <2>1
       DEF Kept, NewRunIsIdle, StopFindsNone, RecordingIsKnown, FinalizedFirst,
           StopLosesNoRecording
<1>8. CASE CheckStart \/ Construct
  <2>1. /\ UNCHANGED recordingVars
        /\ pc \in {"start", "construct"} /\ pc' # "tell"
    BY <1>8 DEF CheckStart, Construct, AfterStart, pipeline, recordingVars
  <2> QED
    BY <1>1, <2>1, KeptUntouched
<1>9. CASE JoinOldThread
  <2>1. thread' = "none" /\ UNCHANGED lostByStop
    BY <1>9 DEF JoinOldThread
  <2> QED
    BY <2>1
       DEF Kept, NewRunIsIdle, StopFindsNone, RecordingIsKnown, FinalizedFirst,
           StopLosesNoRecording
<1>10. CASE Spawn
  <2>1. /\ thread' = "starting" /\ pc' = "await" /\ prodStop' = FALSE /\ active' = FALSE
        /\ UNCHANGED lostByStop
    BY <1>10 DEF Spawn
  <2> QED
    BY <2>1
       DEF Kept, NewRunIsIdle, StopFindsNone, RecordingIsKnown, FinalizedFirst,
           StopLosesNoRecording
<1>11. CASE AwaitStart
  <2>1. /\ UNCHANGED <<thread, prodStop, active, lostByStop, recording>>
        /\ thread # "starting" /\ pc = "await" /\ pc' \in {"reply", "start"}
    BY <1>11 DEF AwaitStart, AfterStart, pipeline
  <2> QED
    BY <1>1, <2>1
       DEF Kept, NewRunIsIdle, StopFindsNone, RecordingIsKnown, FinalizedFirst,
           StopLosesNoRecording, StopPCs
<1> QED
  BY <1>2, <1>3, <1>4, <1>5, <1>6, <1>7, <1>8, <1>9, <1>10, <1>11 DEF Handle

LEMMA KeptStep ==
    ASSUME TypeParts, Agreement, Kept, [Next]_vars
    PROVE  Kept'
<1>1. CASE \/ \E c \in Clients, cmd \in Commands : Call(c, cmd)
           \/ \E c \in Callers : CallerStep(c)
           \/ MainBegins \/ MainAnswered \/ MainCloses
           \/ HangStep \/ UNCHANGED vars
  <2>1. UNCHANGED recordingVars /\ UNCHANGED pc
    BY HangEffect, <1>1
       DEF Call, CallerStep, Submit, SendRequest, MainBegins, MainAnswered, MainCloses,
           shared, pipeline, unhung, recordingVars
  <2>2. (main = "join" => main' = "join") /\ (main' = "tell" => main = "tell")
    BY HangEffect, <1>1
       DEF Call, CallerStep, Submit, SendRequest, MainBegins, MainAnswered, MainCloses, unhung
  <2> QED
    BY <2>1, <2>2, KeptUntouched
<1>2. CASE Take \/ LeaveLoop \/ SendReply
  <2>1. UNCHANGED recordingVars /\ UNCHANGED main
    BY <1>2 DEF Take, LeaveLoop, SendReply, shared, pipeline, recordingVars
  <2>2. pc \in {"idle", "reply"} /\ pc' # "tell"
    BY <1>2 DEF Take, LeaveLoop, SendReply, Goto
  <2> QED
    BY <2>1, <2>2, KeptUntouched
<1>3. CASE MainJoinsControl /\ UNCHANGED pc
  <2>1. UNCHANGED recordingVars /\ main = "joinControl" /\ main' # "tell"
    BY <1>3 DEF MainJoinsControl, DecideToStop, NextStopStep, pipeline, recordingVars
  <2> QED
    BY <1>3, <2>1, KeptUntouched
<1>4. CASE MainStopsPipeline
  <2>1. pc = "done" /\ thread # "starting"
    BY <1>4
       DEF MainStopsPipeline, Agreement, StopsAfterTheLoop, StopPCs, Kept, NewRunIsIdle
  <2>2. CASE main = "finalize" /\ FinalizeRecording
    BY <2>1, <2>2, KeptFinalized
  <2>3. CASE main = "tell" /\ TellToStop /\ main' = "join"
    BY <2>1, <2>3, KeptTold
  <2>4. CASE JoinPipeline
    BY <2>4, KeptJoined
  <2> QED
    BY <1>4, <2>2, <2>3, <2>4 DEF MainStopsPipeline
<1> QED
  BY <1>1, <1>2, <1>3, <1>4, KeptHandle, KeptPipelineStep DEF Next, MainStep, ControlStep, HangStep

-----------------------------------------------------------------------------
(* The configuration.  Until a reconfiguration installs its own, and again  *)
(* from its second start on, the one in force is the one it will put back.  *)

BeforeInstall == {"begin", "configure", "startRecording", "noteRecording", "stopRecording", "stop",
                  "shutdown", "install"} \cup StopPCs
Starting == {"start", "joinOld", "construct", "spawn", "await"}

NotInstalledYet == pc \in BeforeInstall => config = before /\ attempt = 1
PutBack == pc \in Starting /\ attempt = 2 => config = before

Restores == NotInstalledYet /\ PutBack /\ FailedStartRestores

\* Outside the handlers a step leaves the request's own state alone, or takes
\* the next request, or is between two requests.
LEMMA RestoresOutside ==
    ASSUME TypeParts, Queueing, MainWaitsForShutdown, Restores,
           \/ \E c \in Clients, cmd \in Commands : Call(c, cmd)
           \/ \E c \in Callers : CallerStep(c)
           \/ MainBegins \/ MainStep \/ Take \/ LeaveLoop \/ SendReply \/ PipelineStep
           \/ HangStep \/ UNCHANGED vars
    PROVE  Restores'
<1> USE DEF Restores, NotInstalledYet, PutBack, FailedStartRestores, BeforeInstall, Starting,
            StopPCs
<1>1. CASE Take
  BY <1>1 DEF Take, Goto, shared
<1>2. CASE LeaveLoop \/ SendReply
  <2>1. pc' \in {"idle", "done"}
    BY <1>2 DEF LeaveLoop, SendReply, Goto
  <2> QED
    BY <2>1
<1>3. ASSUME UNCHANGED <<pc, attempt, config, before, serving, result, threw>>,
             pc = "reply" => command'[serving] = command[serving]
      PROVE  Restores'
  BY <1>3
<1>4. ASSUME NEW c \in Clients, NEW cmd \in Commands, Call(c, cmd)
      PROVE  Restores'
  <2>1. pc = "reply" => caller[serving] = "wait"
    BY DEF Queueing, QueuedCallersWait, Busy
  <2>2. /\ caller[c] = "idle" /\ command' = [command EXCEPT ![c] = cmd]
        /\ UNCHANGED <<pc, attempt, config, before, serving, result, threw>>
    BY <1>4 DEF Call, local, shared
  <2>3. pc = "reply" => command'[serving] = command[serving]
    BY <2>1, <2>2 DEF TypeParts, CallersTypeOK, LocalTypeOK
  <2> QED
    BY <1>3, <2>2, <2>3
<1>5. CASE MainBegins
  <2>1. UNCHANGED <<pc, attempt, config, before, serving, result, threw>>
    BY <1>5 DEF MainBegins, local, shared
  <2>2. pc = "reply" => caller[serving] = "wait"
    BY DEF Queueing, QueuedCallersWait, Busy
  <2>3. caller[Main] = "idle"
    BY <1>5 DEF MainBegins, MainWaitsForShutdown
  <2>4. command' = command \/ command' = [command EXCEPT ![Main] = "shutdown"]
    BY <1>5 DEF MainBegins
  <2>5. pc = "reply" => command'[serving] = command[serving]
    BY <2>2, <2>3, <2>4 DEF TypeParts, CallersTypeOK, LocalTypeOK
  <2> QED
    BY <1>3, <2>1, <2>5
<1>6. CASE MainStep
  <2>1. UNCHANGED <<pc, attempt, config, before, serving, result, threw, command>>
    BY <1>6
       DEF MainStep, MainAnswered, MainCloses, MainJoinsControl, MainStopsPipeline,
           DecideToStop, FinalizeRecording, TellToStop, JoinPipeline, callers, local, shared
  <2> QED
    BY <1>3, <2>1
<1>7. CASE (\E c \in Callers : CallerStep(c)) \/ PipelineStep \/ HangStep \/ UNCHANGED vars
  <2>1. UNCHANGED <<pc, attempt, config, before, serving, result, threw, command>>
    BY HangEffect, <1>7
       DEF CallerStep, Submit, SendRequest, Answer, PipelineStep, PipelineStarts,
           PipelineStartFails, PipelineEnds, PipelineReports, callers, local, shared, unhung
  <2> QED
    BY <1>3, <2>1
<1> QED
  BY <1>1, <1>2, <1>4, <1>5, <1>6, <1>7

LEMMA RestoresHandle ==
    ASSUME TypeParts, Restores, Handle
    PROVE  Restores'
<1> USE DEF Restores, NotInstalledYet, PutBack, FailedStartRestores, BeforeInstall, Starting,
            StopPCs, Goto, Reply, Serves, Reconfigurations
<1>1. UNCHANGED <<command, serving>>
  BY HandleEffect, Handle DEF callers
<1>2. CASE BeginQuery \/ BeginOutputCommand \/ ConfigureOutput \/ BeginStartOrStop
  BY <1>1, <1>2 DEF BeginQuery, BeginOutputCommand, ConfigureOutput, BeginStartOrStop, local, shared
<1>3. CASE RefuseReconfiguration \/ BeginReconfiguration \/ BeginRecordingCommand
  BY <1>1, <1>3 DEF RefuseReconfiguration, BeginReconfiguration, BeginRecordingCommand, shared
<1>4. CASE OutputStartsRecording \/ NoteRecording \/ OutputStopsRecording \/ BecomeShutdown
  BY <1>1, <1>4
     DEF OutputStartsRecording, NoteRecording, OutputStopsRecording, BecomeShutdown, shared
<1>5. CASE StopPipeline
  <2>1. /\ pc \in {"stop"} \cup StopPCs
        /\ UNCHANGED <<config, before, attempt>>
    BY <1>5
       DEF StopPipeline, DecideToStop, FinalizeRecording, TellToStop, JoinPipeline, shared
  <2>2. config' = before' /\ attempt' = 1
    BY <2>1
  <2> QED
    BY <2>2
<1>6. CASE Install
  BY <1>1, <1>6 DEF Install
<1>7. ASSUME pc \in Starting, UNCHANGED <<before, threw>>, NEW r \in Responses, AfterStart(r)
      PROVE  Restores'
  BY <1>1, <1>7 DEF AfterStart, TypeParts, LocalTypeOK
<1>8. CASE CheckStart
  <2>1. CASE state \in {"Running", "Starting", "Shutdown"}
    BY <1>7, <1>8, <2>1 DEF CheckStart, Responses
  <2>2. CASE state \notin {"Running", "Starting", "Shutdown"}
    BY <1>8, <2>2 DEF CheckStart
  <2> QED
    BY <2>1, <2>2
<1>9. CASE JoinOldThread \/ Spawn
  BY <1>9 DEF JoinOldThread, Spawn, local, shared
<1>10. CASE Construct
  <2>1. CASE \E r \in {"Rejected", "Failed"} : AfterStart(r) /\ UNCHANGED threw
    BY <1>7, <1>10, <2>1 DEF Construct, Responses
  <2>2. CASE /\ pc' = "spawn" \/ (pc' = "reply" /\ threw' = TRUE)
             /\ UNCHANGED <<attempt, config>>
    BY <1>10, <2>2 DEF Construct
  <2> QED
    BY <1>10, <2>1, <2>2 DEF Construct
<1>11. CASE AwaitStart
  <2>1. pc \in Starting /\ UNCHANGED <<before, threw>>
    BY <1>11 DEF AwaitStart
  <2>2. AfterStart("Applied") \/ AfterStart("Failed")
    BY <1>11 DEF AwaitStart
  <2> QED
    BY <1>7, <2>1, <2>2 DEF Responses
<1> QED
  BY <1>2, <1>3, <1>4, <1>5, <1>6, <1>8, <1>9, <1>10, <1>11 DEF Handle

LEMMA RestoresStep ==
    ASSUME TypeParts, Queueing, MainWaitsForShutdown, Restores, [Next]_vars
    PROVE  Restores'
BY RestoresOutside, RestoresHandle DEF Next, ControlStep, HangStep

-----------------------------------------------------------------------------
(* The theorems *)

Inductive ==
    TypeParts /\ Queueing /\ MainWaitsForShutdown /\ Agreement /\ Kept /\ Restores

LEMMA InductiveStart == Init => Inductive
<1> SUFFICES ASSUME Init
             PROVE  Inductive
  OBVIOUS
<1>1. /\ accepting = TRUE /\ mutex = "free" /\ requests = <<>> /\ main = "run" /\ pc = "idle"
      /\ caller = [c \in Callers |-> "idle"] /\ state = "Stopped" /\ thread = "none"
      /\ lostByStop = FALSE
  BY DEF Init
<1>2. TypeParts
  BY TypeStart
<1>3. Queueing
  <2>1. Len(requests) = 0
    BY <1>1, EmptySeq
  <2>2. Places = {}
    BY <2>1 DEF Places
  <2>3. \A c \in Callers : caller[c] = "idle" /\ mutex # c
    BY <1>1, ControlAssumption DEF Callers
  <2> QED
    BY <1>1, <2>2, <2>3
       DEF Queueing, SendersHoldTheMutex, QueuedCallersWait, WaitersAreQueued, ShutdownBars,
           ShutdownIsLast, LeftForGood, ShutsDown, Busy
<1>4. MainWaitsForShutdown
  BY <1>1 DEF MainWaitsForShutdown, Callers
<1>5. Agreement
  BY <1>1
     DEF Agreement, StopsAfterTheLoop, SettledOutside, StoppingIsMarked, StartingIsAwaited,
         StopLeavesNothing, Settled, Stopper, StopPCs
<1>6. Kept
  BY <1>1
     DEF Kept, NewRunIsIdle, StopFindsNone, RecordingIsKnown, FinalizedFirst,
         StopLosesNoRecording
<1>7. Restores
  BY <1>1
     DEF Restores, NotInstalledYet, PutBack, FailedStartRestores, BeforeInstall, Starting,
         StopPCs
<1> QED
  BY <1>2, <1>3, <1>4, <1>5, <1>6, <1>7 DEF Inductive

LEMMA InductiveStep == Inductive /\ [Next]_vars => Inductive'
BY TypeStep, QueueingStep, AgreementStep, KeptStep, RestoresStep DEF Inductive

\* Runtime.cpp: whatever the clients ask for and however their calls, stop()
\* and the end of a run interleave, every variable keeps its type, no request
\* is left behind a shutdown, the published state agrees with the pipeline
\* thread outside the execution mutex, no second pipeline thread is made, a
\* stopped run has no recording to lose, and stop() leaves no thread behind.
THEOREM Owned == Spec => []PipelineIsOwned
<1>1. Inductive => PipelineIsOwned
  BY PartsAreTheType, QueueingImplies, AgreementImplies
     DEF Inductive, PipelineIsOwned, Agreement, Kept
<1> QED
  BY <1>1, InductiveStart, InductiveStep, PTL DEF Spec

\* Runtime::handle: a reconfiguration that answers Failed, without an
\* exception, leaves the configuration that was in force before it.
THEOREM FailureRestores == Spec => []FailedStartRestores
<1>1. Inductive => FailedStartRestores
  BY DEF Inductive, Restores
<1> QED
  BY <1>1, InductiveStart, InductiveStep, PTL DEF Spec

=============================================================================
