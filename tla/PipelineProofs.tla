--------------------------- MODULE PipelineProofs ---------------------------
(* Proofs about the pipeline and its pose stage.  The first part is about   *)
(* Pipeline, for every choice of modes, failures, capacity and number of    *)
(* batches; then come, for every number of cameras, detections and costs,   *)
(* Tracker, Association, Hungarian and EpipolarAssignment; and last two     *)
(* components beside the pipeline: RigCalibration, which gives the pose     *)
(* stage its calibration, and RestApi.                                      *)
EXTENDS Pipeline, Tracker, Association, Hungarian,
        EpipolarAssignment, RigCalibration, RestApi, DataTheorems

LEMMA PacketsAreNumbers == Packets \subseteq Nat \ {0} /\ Packets \subseteq 0 .. Batches
BY PipelineAssumption DEF Packets

\* The part of TypeOK that is about the channels.
QueueTypeOK ==
    /\ queue \in [Channels -> Seq(Packets)]
    /\ \A c \in Channels : Len(queue[c]) <= ChannelCapacity

\* A step leaves the queues alone, puts a packet in at the back of one, there
\* replacing the oldest when a live channel is full, or takes one out.
Puts(c, item) ==
    /\ ~closed[c] /\ Len(queue[c]) < ChannelCapacity
    /\ queue' = [queue EXCEPT ![c] = Append(queue[c], item)]
Replaces(c, item) ==
    /\ ~closed[c] /\ mode = "live" /\ queue[c] # <<>>
    /\ queue' = [queue EXCEPT ![c] = Append(Tail(queue[c]), item)]
Takes(c) ==
    /\ queue[c] # <<>>
    /\ queue' = [queue EXCEPT ![c] = Tail(queue[c])]

LEMMA SendEffect ==
    ASSUME QueueTypeOK, NEW c \in Channels, NEW item \in Packets, Send(c, item)
    PROVE  \/ closed[c] /\ UNCHANGED queue
           \/ Puts(c, item)
           \/ Replaces(c, item)
<1> DEFINE old == queue[c]
           new == CASE closed[c] -> old
                    [] ~closed[c] /\ Len(old) < ChannelCapacity -> Append(old, item)
                    [] ~closed[c] /\ Len(old) >= ChannelCapacity -> Append(Tail(old), item)
<1>1. old \in Seq(Packets) /\ Len(old) \in Nat /\ ChannelCapacity \in Nat \ {0}
  BY LenProperties, PipelineAssumption DEF QueueTypeOK
<1>2. queue' = [queue EXCEPT ![c] = new]
  BY DEF Send
<1> HIDE DEF new
<1>3. CASE closed[c]
  <2>1. new = old
    BY <1>3 DEF new
  <2> QED
    BY <1>2, <1>3, <2>1 DEF QueueTypeOK
<1>4. CASE ~closed[c] /\ Len(old) < ChannelCapacity
  <2>1. new = Append(old, item)
    BY <1>1, <1>4 DEF new
  <2> QED
    BY <1>2, <1>4, <2>1 DEF Puts
<1>5. CASE ~closed[c] /\ Len(old) >= ChannelCapacity
  <2>1. new = Append(Tail(old), item)
    BY <1>1, <1>5 DEF new
  <2>2. mode = "live" /\ old # <<>>
    BY <1>1, <1>5, EmptySeq DEF Send, CanSend
  <2> QED
    BY <1>2, <1>5, <2>1, <2>2 DEF Replaces
<1> QED
  BY <1>1, <1>3, <1>4, <1>5

LEMMA QueueTypeStep ==
    ASSUME QueueTypeOK, NEW c \in Channels, NEW item \in Packets,
           UNCHANGED queue \/ Puts(c, item) \/ Replaces(c, item) \/ Takes(c)
    PROVE  QueueTypeOK'
<1>1. queue[c] \in Seq(Packets) /\ Len(queue[c]) \in Nat /\ Len(queue[c]) <= ChannelCapacity
  BY LenProperties DEF QueueTypeOK
<1>2. CASE UNCHANGED queue
  BY <1>2 DEF QueueTypeOK
<1>3. CASE Puts(c, item)
  <2>1. Append(queue[c], item) \in Seq(Packets) /\ Len(Append(queue[c], item)) <= ChannelCapacity
    BY <1>1, <1>3, Appended, PipelineAssumption DEF Puts
  <2> QED
    BY <1>3, <2>1 DEF Puts, QueueTypeOK
<1>4. CASE Replaces(c, item)
  <2>1. Tail(queue[c]) \in Seq(Packets) /\ Len(Tail(queue[c])) = Len(queue[c]) - 1
    BY <1>1, <1>4, Popped DEF Replaces
  <2>2. /\ Append(Tail(queue[c]), item) \in Seq(Packets)
        /\ Len(Append(Tail(queue[c]), item)) = Len(Tail(queue[c])) + 1
    BY <2>1, Appended
  <2>3. Len(Append(Tail(queue[c]), item)) <= ChannelCapacity
    BY <1>1, <2>1, <2>2, PipelineAssumption
  <2> QED
    BY <1>4, <2>2, <2>3 DEF Replaces, QueueTypeOK
<1>5. CASE Takes(c)
  <2>1. Tail(queue[c]) \in Seq(Packets) /\ Len(Tail(queue[c])) <= ChannelCapacity
    BY <1>1, <1>5, Popped, PipelineAssumption DEF Takes
  <2> QED
    BY <1>5, <2>1 DEF Takes, QueueTypeOK
<1> QED
  BY <1>2, <1>3, <1>4, <1>5

\* Every step is one of the four, whoever takes it.
LEMMA QueueEffect ==
    ASSUME TypeOK, [Next]_vars
    PROVE  \/ UNCHANGED queue
           \/ \E c \in Channels, item \in Packets : Puts(c, item) \/ Replaces(c, item)
           \/ \E c \in Channels : Takes(c)
<1> DEFINE Effect == \/ UNCHANGED queue
                     \/ \E c \in Channels, item \in Packets : Puts(c, item) \/ Replaces(c, item)
                     \/ \E c \in Channels : Takes(c)
<1> SUFFICES Effect
  OBVIOUS
<1> USE DEF chans
<1>1. QueueTypeOK
  BY DEF QueueTypeOK, TypeOK
<1>2. ASSUME NEW c \in Channels, NEW item \in Packets, Send(c, item)
      PROVE  Effect
  BY <1>1, <1>2, SendEffect
<1>3. CASE SourceStep
  BY <1>2, <1>3
     DEF SourceStep, SourceSeesStop, SourceTakesBatch, SourceEof, SourceFails, SourceSend,
         SourceClose, Channels, TypeOK
<1>4. ASSUME NEW s \in {"tap", "pose"}, StageStep(s)
      PROVE  Effect
  <2>1. Input[s] \in Channels /\ Output[s] \in Channels /\ s \in Stages
    BY DEF Input, Output, Channels, Stages
  <2>2. CASE StageReceive(s)
    BY <2>1, <2>2 DEF StageReceive, Takes
  <2>3. CASE PoseFails
    BY <2>3 DEF PoseFails, Takes, Channels
  <2>4. CASE StageSend(s)
    BY <1>2, <2>1, <2>4 DEF StageSend, TypeOK
  <2>5. CASE StageInputEnds(s) \/ StageClose(s)
    BY <2>5 DEF StageInputEnds, StageClose
  <2> QED
    BY <1>4, <2>2, <2>3, <2>4, <2>5 DEF StageStep
<1>5. CASE OutputStep
  BY <1>5 DEF OutputStep, Takes, Channels
<1>6. CASE RunnerStep
  BY <1>6
     DEF RunnerStep, StartStage, StartSource, EnterWait, Watch, JoinSource, CloseInput, Join,
         FinalizeAtEof, EndWait, Abort, Aborted
<1>7. CASE ControlStep \/ Done \/ UNCHANGED vars
  BY <1>7 DEF ControlStep, StopGoesOn, Uncontrolled, Done, vars
<1> QED
  BY <1>3, <1>4, <1>5, <1>6, <1>7 DEF Next

LEMMA QueueStep ==
    ASSUME TypeOK, [Next]_vars
    PROVE  QueueTypeOK'
<1>1. QueueTypeOK
  BY DEF QueueTypeOK, TypeOK
<1>2. CASE UNCHANGED queue
  BY <1>1, <1>2 DEF QueueTypeOK
<1>3. ASSUME NEW c \in Channels, Takes(c)
      PROVE  QueueTypeOK'
  <2>1. Head(queue[c]) \in Packets
    BY <1>3, Popped DEF Takes, TypeOK
  <2> QED
    BY <1>1, <1>3, <2>1, QueueTypeStep
<1> QED
  BY <1>1, <1>2, <1>3, QueueEffect, QueueTypeStep

\* The rest of TypeOK, one part per thread.
StageTypeOK ==
    /\ closed \in [Channels -> BOOLEAN]
    /\ stage \in [Stages -> {"off", "receive", "send", "closing", "done"}]
    /\ hand \in [Stages -> 0 .. Batches]
    /\ \A s \in Stages : stage[s] = "send" => hand[s] \in Packets
    /\ poseFailed \in BOOLEAN
SourceTypeOK ==
    /\ source \in {"off", "produce", "send", "closing", "done"}
    /\ next \in 0 .. Batches
    /\ source = "send" => next \in Packets
    /\ finished \in BOOLEAN /\ sourceStop \in BOOLEAN /\ sourceFailed \in BOOLEAN
RunnerTypeOK ==
    /\ runner \in RunnerPCs
    /\ prodStop \in BOOLEAN /\ eof \in BOOLEAN /\ failure \in BOOLEAN
    /\ cause \in {"none", "told", "failure", "eof"}
    /\ recording \in {"none", "active", "finalized", "abandoned"}
    /\ stopAt \in {"no", "finalize", "tell", "told"}
OutputTypeOK ==
    /\ exported \in Seq(Packets)
    /\ exportFailed \in BOOLEAN

LEMMA TypeParts ==
    TypeOK <=> /\ mode \in Modes
               /\ QueueTypeOK /\ StageTypeOK /\ SourceTypeOK /\ RunnerTypeOK /\ OutputTypeOK
<1>1. {finished, sourceStop, sourceFailed, poseFailed, exportFailed, prodStop, eof,
       failure} \subseteq BOOLEAN
      <=> /\ finished \in BOOLEAN /\ sourceStop \in BOOLEAN /\ sourceFailed \in BOOLEAN
          /\ poseFailed \in BOOLEAN /\ exportFailed \in BOOLEAN /\ prodStop \in BOOLEAN
          /\ eof \in BOOLEAN /\ failure \in BOOLEAN
  OBVIOUS
<1> QED
  BY <1>1 DEF TypeOK, QueueTypeOK, StageTypeOK, SourceTypeOK, RunnerTypeOK, OutputTypeOK

LEMMA StageTypeStep ==
    ASSUME TypeOK, [Next]_vars
    PROVE  StageTypeOK'
<1> USE DEF chans, failures, stageVars, StageTypeOK
<1>1. StageTypeOK
  BY TypeParts
<1>2. CASE SourceStep
  BY <1>1, <1>2
     DEF SourceStep, SourceSeesStop, SourceTakesBatch, SourceEof, SourceFails, SourceSend,
         SourceClose, Channels
<1>3. ASSUME NEW s \in {"tap", "pose"}, StageStep(s)
      PROVE  StageTypeOK'
  <2>1. /\ s \in Stages /\ "pose" \in Stages /\ "toPose" \in Channels
        /\ Input[s] \in Channels /\ Output[s] \in Channels
    BY DEF Stages, Channels, Input, Output
  <2>2. 0 \in 0 .. Batches
    BY PipelineAssumption
  <2>3. CASE StageReceive(s)
    <3>1. Head(queue[Input[s]]) \in Packets
      BY <2>1, <2>3, Popped DEF StageReceive, TypeOK
    <3> QED
      BY <1>1, <2>1, <2>3, <3>1, PacketsAreNumbers DEF StageReceive
  <2>4. CASE PoseFails
    BY <1>1, <2>1, <2>4 DEF PoseFails
  <2>5. CASE StageSend(s)
    BY <1>1, <2>1, <2>2, <2>5 DEF StageSend
  <2>6. CASE StageInputEnds(s) \/ StageClose(s)
    BY <1>1, <2>1, <2>6 DEF StageInputEnds, StageClose
  <2> QED
    BY <1>3, <2>3, <2>4, <2>5, <2>6 DEF StageStep
<1>4. CASE OutputStep
  BY <1>1, <1>4 DEF OutputStep, Stages
<1>5. CASE RunnerStep
  <2> USE DEF RunnerStep, StartStage, StartSource, EnterWait, Watch, JoinSource, CloseInput,
              Join, FinalizeAtEof, EndWait, Abort, Aborted
  <2>1. closed' \in [Channels -> BOOLEAN]
    <3>1. \A c \in Channels : [closed EXCEPT ![c] = TRUE] \in [Channels -> BOOLEAN]
      BY <1>1
    <3>2. \/ closed' = closed \/ closed' = [c \in Channels |-> TRUE]
          \/ \E c \in Channels : closed' = [closed EXCEPT ![c] = TRUE]
      BY <1>5 DEF Channels, Input
    <3> QED
      BY <1>1, <3>1, <3>2
  <2>2. /\ UNCHANGED <<hand, poseFailed>>
        /\ stage' = stage \/ \E s \in Stages : stage' = [stage EXCEPT ![s] = "receive"]
    BY <1>5 DEF Stages
  <2> QED
    BY <1>1, <2>1, <2>2
<1>6. CASE ControlStep \/ Done \/ UNCHANGED vars
  BY <1>1, <1>6 DEF ControlStep, StopGoesOn, Uncontrolled, Done, vars
<1> QED
  BY <1>2, <1>3, <1>4, <1>5, <1>6 DEF Next

LEMMA SourceTypeStep ==
    ASSUME TypeOK, [Next]_vars
    PROVE  SourceTypeOK'
<1> USE DEF failures, sourceVars, SourceTypeOK
<1>1. SourceTypeOK
  BY TypeParts
<1>2. CASE SourceStep
  <2>1. next < Batches => next + 1 \in 0 .. Batches /\ next + 1 \in Packets
    BY <1>1, PipelineAssumption DEF Packets
  <2> QED
    BY <1>1, <1>2, <2>1
       DEF SourceStep, SourceSeesStop, SourceTakesBatch, SourceEof, SourceFails, SourceSend,
           SourceClose
<1>3. CASE \E s \in {"tap", "pose"} : StageStep(s)
  BY <1>1, <1>3 DEF StageStep
<1>4. CASE OutputStep
  BY <1>1, <1>4 DEF OutputStep
<1>5. CASE RunnerStep
  BY <1>1, <1>5
     DEF RunnerStep, StartStage, StartSource, EnterWait, Watch, JoinSource, CloseInput, Join,
         FinalizeAtEof, EndWait, Abort, Aborted, StopProducing
<1>6. CASE ControlStep \/ Done \/ UNCHANGED vars
  BY <1>1, <1>6
     DEF ControlStep, StopGoesOn, Uncontrolled, StartRecording, StopRecording, RequestStop,
         FinalizeForStop, TellToStop, StopProducing, Done, vars
<1> QED
  BY <1>2, <1>3, <1>4, <1>5, <1>6 DEF Next

LEMMA RunnerTypeStep ==
    ASSUME TypeOK, [Next]_vars
    PROVE  RunnerTypeOK'
<1> USE DEF runnerVars, waitVars, controlVars, RunnerTypeOK
<1>1. RunnerTypeOK /\ SourceTypeOK
  BY TypeParts
<1>2. CASE \/ SourceStep
           \/ \E s \in {"tap", "pose"} : StageStep(s)
           \/ OutputStep
           \/ Done
           \/ UNCHANGED vars
  BY <1>1, <1>2 DEF SourceStep, StageStep, OutputStep, Done, vars
<1>3. CASE RunnerStep
  <2>1. \/ \/ StartStage("output", "startOutput", "startPose")
           \/ StartStage("pose", "startPose", "startTap")
           \/ StartStage("tap", "startTap", "startSource")
           \/ StartSource
        \/ EnterWait \/ Watch \/ JoinSource \/ FinalizeAtEof \/ EndWait
        \/ \/ CloseInput("tap", "stop tap", "join tap")
           \/ CloseInput("pose", "stop pose", "join pose")
           \/ CloseInput("output", "stop output", "join output")
        \/ \/ Join("tap", "join tap", "stop pose")
           \/ Join("pose", "join pose", "finalize")
           \/ Abort \/ Aborted
    BY <1>3 DEF RunnerStep
  <2>2. UNCHANGED stopAt
    BY <1>3 DEF RunnerStep
  <2>3. CASE \/ StartStage("output", "startOutput", "startPose")
             \/ StartStage("pose", "startPose", "startTap")
             \/ StartStage("tap", "startTap", "startSource")
             \/ StartSource
    BY <1>1, <2>2, <2>3 DEF StartStage, StartSource, RunnerPCs
  <2>4. CASE EnterWait \/ Watch \/ JoinSource \/ FinalizeAtEof \/ EndWait
    <3>1. CASE EnterWait \/ Watch
      <4>1. /\ runner' \in {"watch", "joinSource"} /\ UNCHANGED <<failure, recording>>
            /\ prodStop' \in {TRUE, prodStop} /\ eof' \in BOOLEAN
            /\ cause' \in {cause, "told", "failure", "eof"}
        BY <1>1, <3>1 DEF EnterWait, Watch, StopProducing
      <4> QED
        BY <1>1, <2>2, <4>1 DEF RunnerPCs
    <3>2. CASE JoinSource \/ FinalizeAtEof
      BY <1>1, <2>2, <3>2 DEF JoinSource, FinalizeAtEof, RunnerPCs, SourceTypeOK
    <3>3. CASE EndWait
      BY <1>1, <2>2, <3>3 DEF EndWait, Abandon, RunnerPCs
    <3> QED
      BY <2>4, <3>1, <3>2, <3>3
  <2>5. CASE \/ CloseInput("tap", "stop tap", "join tap")
             \/ CloseInput("pose", "stop pose", "join pose")
             \/ CloseInput("output", "stop output", "join output")
    <3>1. UNCHANGED <<prodStop, waitVars, recording>> /\ runner' \in RunnerPCs
      BY <2>5 DEF CloseInput, RunnerPCs
    <3> QED
      BY <1>1, <2>2, <3>1 DEF waitVars
  <2>6. CASE \/ Join("tap", "join tap", "stop pose")
             \/ Join("pose", "join pose", "finalize")
             \/ Abort \/ Aborted
    <3>1. /\ UNCHANGED waitVars /\ prodStop' \in {TRUE, prodStop}
          /\ recording' \in {recording, "abandoned"} /\ runner' \in RunnerPCs
      BY <2>6 DEF Join, Abort, Aborted, Abandon, StopProducing, RunnerPCs
    <3> QED
      BY <1>1, <2>2, <3>1 DEF waitVars
  <2> QED
    BY <2>1, <2>3, <2>4, <2>5, <2>6
<1>4. CASE ControlStep
  BY <1>1, <1>4 DEF ControlStep, StopGoesOn, Uncontrolled, StartRecording, StopRecording, RequestStop,
                    FinalizeForStop, TellToStop, StopProducing
<1> QED
  BY <1>2, <1>3, <1>4 DEF Next

LEMMA OutputTypeStep ==
    ASSUME TypeOK, [Next]_vars
    PROVE  OutputTypeOK'
<1> USE DEF failures, OutputTypeOK
<1>1. OutputTypeOK
  BY TypeParts
<1>2. CASE OutputStep
  <2>1. queue["toOutput"] # <<>> => Append(exported, Head(queue["toOutput"])) \in Seq(Packets)
    BY Popped, Appended DEF TypeOK, Channels
  <2> QED
    BY <1>1, <1>2, <2>1 DEF OutputStep
<1>3. UNCHANGED <<exported, exportFailed>> \/ OutputStep
  BY DEF Next, SourceStep, StageStep, RunnerStep, ControlStep, StopGoesOn, Uncontrolled, Done, vars
<1> QED
  BY <1>1, <1>2, <1>3

LEMMA TypeStep ==
    ASSUME TypeOK, [Next]_vars
    PROVE  TypeOK'
<1>1. QueueTypeOK' /\ StageTypeOK' /\ SourceTypeOK' /\ RunnerTypeOK' /\ OutputTypeOK'
  BY QueueStep, StageTypeStep, SourceTypeStep, RunnerTypeStep, OutputTypeStep
<1>2. mode' \in Modes
  BY DEF TypeOK, vars, Next, SourceStep, StageStep, OutputStep, RunnerStep,
         ControlStep, StopGoesOn, Uncontrolled, Done
<1>3. {finished, sourceStop, sourceFailed, poseFailed, exportFailed, prodStop, eof,
       failure}' \subseteq BOOLEAN
  BY <1>1 DEF StageTypeOK, SourceTypeOK, RunnerTypeOK, OutputTypeOK
<1> QED
  BY <1>1, <1>2, <1>3
     DEF TypeOK, QueueTypeOK, StageTypeOK, SourceTypeOK, RunnerTypeOK, OutputTypeOK

-----------------------------------------------------------------------------
(* The order in which the pipeline thread starts and joins the others *)

Aborting == runner \in {"abort", "failed"}
Starting == {"startOutput", "startPose", "startTap", "startSource"}

\* Where the pipeline thread can only be once it has joined the pose stage,
\* the tap, the source.
PoseJoined == {"finalize", "stop output", "join output", "stopped"}
TapJoined == {"stop pose", "join pose"} \cup PoseJoined
SourceJoined == {"stop tap", "join tap"} \cup TapJoined

\* A thread is off until its turn to be started and done once it was joined.
JoinedInOrder ==
    /\ runner = "startOutput" => stage["output"] = "off"
    /\ runner \in {"startOutput", "startPose"} => stage["pose"] = "off"
    /\ runner \in {"startOutput", "startPose", "startTap"} => stage["tap"] = "off"
    /\ runner \in Starting => source = "off"
    /\ runner \in SourceJoined => source = "done"
    /\ runner \in TapJoined => stage["tap"] = "done"
    /\ runner \in PoseJoined => stage["pose"] = "done"
    /\ runner = "stopped" => stage["output"] = "done"
    /\ NothingLeftRunning

LEMMA JoinedInOrderStep ==
    ASSUME TypeOK, JoinedInOrder, [Next]_vars
    PROVE  JoinedInOrder'
<1> USE DEF JoinedInOrder, NothingLeftRunning, Ended, Starting, PoseJoined, TapJoined,
            SourceJoined, runnerVars, waitVars, stageVars, sourceVars, Stages
<1>1. /\ stage \in [Stages -> {"off", "receive", "send", "closing", "done"}]
      /\ source \in {"off", "produce", "send", "closing", "done"}
  BY DEF TypeOK
<1>2. CASE SourceStep
  BY <1>1, <1>2
     DEF SourceStep, SourceSeesStop, SourceTakesBatch, SourceEof, SourceFails, SourceSend,
         SourceClose
<1>3. ASSUME NEW s \in {"tap", "pose"}, StageStep(s)
      PROVE  JoinedInOrder'
  BY <1>1, <1>3
     DEF StageStep, StageReceive, PoseFails, StageSend, StageInputEnds, StageClose
<1>4. CASE OutputStep
  BY <1>1, <1>4 DEF OutputStep
<1>5. CASE RunnerStep
  <2>1. CASE \/ StartStage("output", "startOutput", "startPose")
             \/ StartStage("pose", "startPose", "startTap")
             \/ StartStage("tap", "startTap", "startSource")
    BY <1>1, <2>1 DEF StartStage
  <2>2. CASE StartSource
    BY <1>1, <2>2 DEF StartSource
  <2>3. CASE EnterWait \/ Watch \/ JoinSource \/ FinalizeAtEof \/ EndWait \/ Abort \/ Aborted
    BY <1>1, <2>3 DEF EnterWait, Watch, JoinSource, FinalizeAtEof, EndWait, Abort, Aborted
  <2>4. CASE \/ CloseInput("tap", "stop tap", "join tap")
             \/ CloseInput("pose", "stop pose", "join pose")
             \/ CloseInput("output", "stop output", "join output")
             \/ Join("tap", "join tap", "stop pose")
             \/ Join("pose", "join pose", "finalize")
    BY <1>1, <2>4 DEF CloseInput, Join
  <2> QED
    BY <1>5, <2>1, <2>2, <2>3, <2>4 DEF RunnerStep
<1>6. CASE ControlStep \/ Done \/ UNCHANGED vars
  BY <1>6 DEF ControlStep, StopGoesOn, Uncontrolled, Done, vars
<1> QED
  BY <1>2, <1>3, <1>4, <1>5, <1>6 DEF Next

\* Unless the pipeline is being torn down a channel is closed only when its
\* sender is done; the teardown closes them all.
ClosedBehindSenders ==
    /\ Aborting => \A c \in Channels : closed[c]
    /\ ~Aborting =>
          /\ closed["toTap"] => source = "done"
          /\ closed["toPose"] => stage["tap"] = "done"
          /\ closed["toOutput"] => stage["pose"] = "done"

LEMMA ClosedBehindSendersStep ==
    ASSUME TypeOK, JoinedInOrder, ClosedBehindSenders, [Next]_vars
    PROVE  ClosedBehindSenders'
<1> USE DEF ClosedBehindSenders, Aborting, chans, stageVars, sourceVars, runnerVars, waitVars
<1>1. /\ stage \in [Stages -> {"off", "receive", "send", "closing", "done"}]
      /\ closed \in [Channels -> BOOLEAN]
  BY DEF TypeOK
<1>2. CASE SourceStep
  BY <1>1, <1>2
     DEF SourceStep, SourceSeesStop, SourceTakesBatch, SourceEof, SourceFails, SourceSend,
         SourceClose, Channels
<1>3. ASSUME NEW s \in {"tap", "pose"}, StageStep(s)
      PROVE  ClosedBehindSenders'
  <2>1. CASE StageReceive(s) \/ PoseFails \/ StageSend(s) \/ StageInputEnds(s)
    BY <1>1, <1>3, <2>1
       DEF StageStep, StageReceive, PoseFails, StageSend, StageInputEnds, Stages
  <2>2. CASE StageClose(s)
    BY <1>1, <1>3, <2>2 DEF StageStep, StageClose, Stages, Channels, Output
  <2> QED
    BY <1>3, <2>1, <2>2 DEF StageStep
<1>4. CASE OutputStep
  BY <1>1, <1>4 DEF OutputStep, Stages
<1>5. CASE RunnerStep
  <2>1. CASE \/ StartStage("output", "startOutput", "startPose")
             \/ StartStage("pose", "startPose", "startTap")
             \/ StartStage("tap", "startTap", "startSource")
             \/ StartSource
    BY <1>1, <2>1 DEF StartStage, StartSource, JoinedInOrder, Starting, Stages
  <2>2. CASE EnterWait \/ Watch \/ JoinSource \/ FinalizeAtEof \/ EndWait \/ Abort \/ Aborted
    BY <1>1, <2>2
       DEF EnterWait, Watch, JoinSource, FinalizeAtEof, EndWait, Abort, Aborted, Channels
  <2>3. CASE \/ CloseInput("tap", "stop tap", "join tap")
             \/ CloseInput("pose", "stop pose", "join pose")
             \/ CloseInput("output", "stop output", "join output")
    BY <1>1, <2>3
       DEF CloseInput, Input, Channels, JoinedInOrder, SourceJoined, TapJoined, PoseJoined
  <2>4. CASE \/ Join("tap", "join tap", "stop pose")
             \/ Join("pose", "join pose", "finalize")
    BY <1>1, <2>4 DEF Join
  <2> QED
    BY <1>5, <2>1, <2>2, <2>3, <2>4 DEF RunnerStep
<1>6. CASE ControlStep \/ Done \/ UNCHANGED vars
  BY <1>6 DEF ControlStep, StopGoesOn, Uncontrolled, Done, vars
<1> QED
  BY <1>2, <1>3, <1>4, <1>5, <1>6 DEF Next

-----------------------------------------------------------------------------
(* What the pipeline thread tells of the run *)

\* Pipeline::wait keeps the source's failure for later, and looks at the pose
\* stage's and the exporter's when nobody can change them any more.
FailuresAreKept ==
    /\ runner \in SourceJoined => (failure <=> sourceFailed)
    /\ FailureIsReported

LEMMA FailuresAreKeptStep ==
    ASSUME TypeOK, JoinedInOrder, FailuresAreKept, [Next]_vars
    PROVE  FailuresAreKept'
<1> USE DEF FailuresAreKept, FailureIsReported, SourceJoined, TapJoined, PoseJoined,
            runnerVars, waitVars, failures
<1>1. CASE SourceStep
  BY <1>1 DEF SourceStep, SourceSeesStop, SourceTakesBatch, SourceEof, SourceFails, SourceSend,
              SourceClose, JoinedInOrder
<1>2. ASSUME NEW s \in {"tap", "pose"}, StageStep(s)
      PROVE  FailuresAreKept'
  BY <1>2 DEF StageStep, StageReceive, PoseFails, StageSend, StageInputEnds, StageClose,
              JoinedInOrder
<1>3. CASE OutputStep
  BY <1>3 DEF OutputStep, JoinedInOrder
<1>4. CASE RunnerStep
  <2> UNCHANGED <<sourceFailed, poseFailed, exportFailed>>
    BY <1>4 DEF RunnerStep
  <2>1. CASE JoinSource
    BY <2>1 DEF JoinSource
  <2>2. CASE EndWait
    BY <2>2 DEF EndWait
  <2>3. CASE ~JoinSource /\ ~EndWait
    <3>1. /\ UNCHANGED failure /\ runner' # "stopped"
          /\ runner' \in SourceJoined => runner \in SourceJoined
      BY <1>4, <2>3
         DEF RunnerStep, StartStage, StartSource, EnterWait, Watch, CloseInput, Join,
             FinalizeAtEof, Abort, Aborted
    <3> QED
      BY <3>1
  <2> QED
    BY <2>1, <2>2, <2>3
<1>5. CASE ControlStep
  <2>1. UNCHANGED <<runner, failure, sourceFailed, poseFailed, exportFailed>>
    BY <1>5 DEF ControlStep, StopGoesOn, Uncontrolled
  <2> QED
    BY <2>1
<1>6. CASE Done \/ UNCHANGED vars
  <2>1. UNCHANGED <<runner, failure, sourceFailed, poseFailed, exportFailed>>
    BY <1>6 DEF Done, vars
  <2> QED
    BY <2>1
<1> QED
  BY <1>1, <1>2, <1>3, <1>4, <1>5, <1>6 DEF Next

LEMMA Start == Init => TypeOK /\ JoinedInOrder /\ ClosedBehindSenders /\ FailuresAreKept
<1> SUFFICES ASSUME Init
             PROVE  TypeOK /\ JoinedInOrder /\ ClosedBehindSenders /\ FailuresAreKept
  OBVIOUS
<1>1. /\ queue = [c \in Channels |-> <<>>] /\ closed = [c \in Channels |-> FALSE]
      /\ stage = [s \in Stages |-> "off"] /\ source = "off" /\ runner = "startOutput"
  BY DEF Init
<1>2. QueueTypeOK
  BY <1>1, EmptySeq, PipelineAssumption DEF QueueTypeOK
<1>3. StageTypeOK
  <2>1. hand = [s \in Stages |-> 0] /\ 0 \in 0 .. Batches /\ poseFailed = FALSE
    BY PipelineAssumption DEF Init
  <2> QED
    BY <1>1, <2>1 DEF StageTypeOK
<1>4. SourceTypeOK
  <2>1. /\ next = 0 /\ 0 \in 0 .. Batches
        /\ finished = FALSE /\ sourceStop = FALSE /\ sourceFailed = FALSE
    BY PipelineAssumption DEF Init
  <2> QED
    BY <1>1, <2>1 DEF SourceTypeOK
<1>5. RunnerTypeOK
  BY DEF Init, RunnerTypeOK, RunnerPCs
<1>6. OutputTypeOK
  BY EmptySeq DEF Init, OutputTypeOK
<1>7. TypeOK
  BY <1>2, <1>3, <1>4, <1>5, <1>6, TypeParts DEF Init
<1>8. JoinedInOrder
  BY <1>1 DEF JoinedInOrder, NothingLeftRunning, Ended, PoseJoined, TapJoined, SourceJoined,
              Stages
<1>9. ClosedBehindSenders
  BY <1>1 DEF ClosedBehindSenders, Aborting, Channels
<1>10. FailuresAreKept
  BY <1>1 DEF FailuresAreKept, FailureIsReported, PoseJoined, TapJoined, SourceJoined
<1> QED
  BY <1>7, <1>8, <1>9, <1>10

\* The part of the invariant every later result rests on.
THEOREM Orderly ==
    Spec => [](TypeOK /\ JoinedInOrder /\ ClosedBehindSenders /\ FailuresAreKept)
<1>1. TypeOK /\ JoinedInOrder /\ ClosedBehindSenders /\ FailuresAreKept /\ [Next]_vars
      => (TypeOK /\ JoinedInOrder /\ ClosedBehindSenders /\ FailuresAreKept)'
  BY TypeStep, JoinedInOrderStep, ClosedBehindSendersStep, FailuresAreKeptStep
<1> QED
  BY <1>1, Start, PTL DEF Spec

\* Whatever fails and whenever the run is stopped, Pipeline::wait and
\* Pipeline::stop leave no thread of the pipeline running, and a failure of the
\* source, the pose stage or the export is never lost.
THEOREM RunsEndCleanly == Spec => []RunEndsCleanly
<1>1. TypeOK /\ JoinedInOrder /\ FailuresAreKept => RunEndsCleanly
  BY DEF JoinedInOrder, FailuresAreKept, RunEndsCleanly
<1> QED
  BY <1>1, Orderly, PTL

-----------------------------------------------------------------------------
(* Recordings *)

UpToWatch == Starting \cup {"started", "watch"}
AfterWatch == {"joinSource"} \cup SourceJoined
Waiting == {"started", "watch"}

\* Why wait() left its loop is known from then on.
CauseIsKnown ==
    /\ runner \in UpToWatch => cause = "none"
    /\ runner \in AfterWatch => cause # "none"

\* Before anybody has told it, the pipeline thread sees prodStop set only by the
\* control thread, which by then has no recording left: what it finalizes while
\* wait() is in its loop is accepted, and it starts no other.  And a run that
\* was never waited for has had no recording.
RecordingEndsWithRun ==
    /\ CauseIsKnown
    /\ runner \notin Waiting /\ cause = "none" => recording = "none"
    /\ runner \in Starting => ~prodStop /\ stopAt = "no"
    /\ runner \in Waiting =>
          /\ prodStop => stopAt = "told"
          /\ stopAt \in {"tell", "told"} => recording # "active"
    /\ cause = "told" => stopAt = "told" /\ recording # "active"
    /\ StopKeepsRecording

LEMMA CauseIsKnownStep ==
    ASSUME TypeOK, CauseIsKnown, [Next]_vars
    PROVE  CauseIsKnown'
<1> USE DEF CauseIsKnown
<1>1. CASE RunnerStep
  <2> USE DEF UpToWatch, AfterWatch, Starting, SourceJoined, TapJoined, PoseJoined
  <2>1. CASE Watch
    BY <2>1 DEF Watch
  <2>2. CASE ~Watch
    <3>1. /\ UNCHANGED cause
          /\ runner' \in UpToWatch => runner \in UpToWatch
          /\ runner' \in AfterWatch => runner \in AfterWatch
      BY <1>1, <2>2
         DEF RunnerStep, StartStage, StartSource, EnterWait, JoinSource, CloseInput, Join,
             FinalizeAtEof, EndWait, Abort, Aborted, waitVars
    <3> HIDE DEF UpToWatch, AfterWatch
    <3> QED
      BY <3>1
  <2> QED
    BY <2>1, <2>2
<1>2. CASE ~RunnerStep
  <2>1. UNCHANGED <<runner, cause>>
    BY <1>2
       DEF Next, SourceStep, StageStep, OutputStep, ControlStep, StopGoesOn, Uncontrolled, Done,
           vars, runnerVars, waitVars
  <2> QED
    BY <2>1
<1> QED
  BY <1>1, <1>2

LEMMA RecordingEndsWithRunStep ==
    ASSUME TypeOK, RecordingEndsWithRun, [Next]_vars
    PROVE  RecordingEndsWithRun'
<1> USE DEF RecordingEndsWithRun, StopKeepsRecording
<1>1. RunnerTypeOK /\ RunnerTypeOK' /\ CauseIsKnown'
  BY TypeParts, RunnerTypeStep, CauseIsKnownStep
<1>2. CASE SourceStep \/ (\E s \in {"tap", "pose"} : StageStep(s)) \/ OutputStep \/ Done \/ UNCHANGED vars
  <2>1. UNCHANGED <<runner, cause, recording, stopAt, prodStop>>
    BY <1>2 DEF SourceStep, StageStep, OutputStep, Done, vars, runnerVars, waitVars, controlVars
  <2> QED
    BY <1>1, <2>1
<1>3. CASE RunnerStep
  <2> USE DEF Waiting, Starting
  <2> UNCHANGED stopAt
    BY <1>3 DEF RunnerStep
  <2>1. CASE Watch
    <3>1. /\ runner = "watch" /\ runner' = "joinSource" /\ UNCHANGED recording
          /\ \/ cause' = "told" /\ prodStop
             \/ cause' \in {"eof", "failure"}
      BY <2>1 DEF Watch
    <3>2. /\ prodStop => stopAt = "told" /\ recording # "active"
          /\ recording # "abandoned"
      BY <3>1 DEF CauseIsKnown, UpToWatch
    <3> QED
      BY <1>1, <3>1, <3>2
  <2>2. CASE EndWait \/ Aborted \/ FinalizeAtEof
    <3>1. /\ UNCHANGED <<cause, prodStop>> /\ runner \notin Waiting /\ runner' \notin Waiting
          /\ runner' \notin Starting
          /\ recording' \in {recording, "finalized", "abandoned"}
          /\ recording # "active" => UNCHANGED recording
      BY <2>2 DEF EndWait, Aborted, FinalizeAtEof, Abandon, waitVars
    <3>2. recording = "active" => cause \in {"eof", "failure"}
      BY <1>1, <3>1 DEF RunnerTypeOK
    <3> QED
      BY <1>1, <3>1, <3>2
  <2>3. CASE Abort
    BY <1>1, <2>3 DEF Abort, waitVars
  <2>4. CASE ~Watch /\ ~EndWait /\ ~Aborted /\ ~FinalizeAtEof /\ ~Abort
    <3>1. /\ UNCHANGED <<recording, cause, prodStop>>
          /\ runner' \in Starting => runner \in Starting
          /\ runner' \in Waiting => runner \in Waiting \cup Starting
          /\ runner \in Waiting => runner' \in Waiting
      BY <1>3, <2>4
         DEF RunnerStep, StartStage, StartSource, EnterWait, JoinSource, CloseInput, Join,
             waitVars
    <3>2. runner \in Starting => recording = "none" /\ cause = "none"
      BY DEF CauseIsKnown, UpToWatch
    <3> HIDE DEF Waiting, Starting
    <3> QED
      BY <1>1, <3>1, <3>2
  <2> QED
    BY <2>1, <2>2, <2>3, <2>4
<1>4. CASE ControlStep
  <2>1. UNCHANGED <<runner, cause>>
    BY <1>4 DEF ControlStep, StopGoesOn, Uncontrolled, runnerVars, waitVars
  <2>2. Accepting => runner \in Waiting \/ cause # "none"
    BY DEF Accepting, Waiting, CauseIsKnown, AfterWatch, SourceJoined, TapJoined, PoseJoined
  <2>3. runner \in Waiting => Accepting /\ runner \notin Starting
    BY DEF Accepting, Waiting, Starting
  <2>4. Running => runner \notin Starting /\ (runner \in Waiting \/ cause # "none")
    BY DEF Running, Accepting, Waiting, Starting, CauseIsKnown, AfterWatch, SourceJoined, TapJoined,
           PoseJoined
  <2>5. CASE StartRecording \/ StopRecording
    BY <1>1, <2>1, <2>2, <2>5 DEF StartRecording, StopRecording
  <2>6. CASE RequestStop
    BY <1>1, <2>1, <2>4, <2>6 DEF RequestStop
  <2>7. CASE FinalizeForStop
    BY <1>1, <2>1, <2>2, <2>3, <2>7 DEF FinalizeForStop
  <2>8. CASE TellToStop
    BY <1>1, <2>1, <2>3, <2>8 DEF TellToStop, StopProducing
  <2> QED
    BY <1>4, <2>5, <2>6, <2>7, <2>8 DEF ControlStep, StopGoesOn
<1> QED
  BY <1>2, <1>3, <1>4 DEF Next

\* A run that ends because it was told to never drops a recording, wherever the
\* control thread is in stop_pipeline when the files end, a stage fails or the
\* output stage is stopped: only a run that ended by itself may have dropped one.
THEOREM StoppedRunsKeepRecordings == Spec => []StopKeepsRecording
<1>1. Init => RecordingEndsWithRun
  BY DEF Init, RecordingEndsWithRun, CauseIsKnown, StopKeepsRecording, UpToWatch, AfterWatch,
         Waiting, SourceJoined, TapJoined, PoseJoined
<1>2. RecordingEndsWithRun => StopKeepsRecording
  BY DEF RecordingEndsWithRun
<1>3. TypeOK /\ RecordingEndsWithRun /\ [Next]_vars => RecordingEndsWithRun'
  BY RecordingEndsWithRunStep
<1> QED
  BY <1>1, <1>2, <1>3, Orderly, PTL DEF Spec

-----------------------------------------------------------------------------
(* Nothing is left behind *)

Drained(c) == closed[c] /\ queue[c] = <<>>

LEMMA DrainedForGood ==
    ASSUME TypeOK, [Next]_vars, NEW c \in Channels, Drained(c)
    PROVE  Drained(c)'
<1>1. closed'[c]
  <2>1. \/ closed' = closed
        \/ closed' = [d \in Channels |-> TRUE]
        \/ \E d \in Channels : closed' = [closed EXCEPT ![d] = TRUE]
    <3> USE DEF chans
    <3>1. CASE SourceStep
      BY <3>1 DEF SourceStep, SourceSend, SourceClose, Channels
    <3>2. CASE \E s \in {"tap", "pose"} : StageStep(s)
      BY <3>2 DEF StageStep, StageReceive, PoseFails, StageSend, StageInputEnds, StageClose,
                  Output, Channels
    <3>3. CASE RunnerStep
      BY <3>3
         DEF RunnerStep, StartStage, StartSource, EnterWait, Watch, JoinSource, CloseInput, Join,
             FinalizeAtEof, EndWait, Abort, Aborted, Input, Channels
    <3>4. CASE OutputStep \/ ControlStep \/ Done \/ UNCHANGED vars
      BY <3>4 DEF OutputStep, ControlStep, StopGoesOn, Uncontrolled, Done, vars
    <3> QED
      BY <3>1, <3>2, <3>3, <3>4 DEF Next
  <2> QED
    BY <2>1 DEF Drained, TypeOK
<1>2. queue'[c] = <<>>
  BY QueueEffect DEF Drained, Puts, Replaces, Takes, TypeOK
<1> QED
  BY <1>1, <1>2 DEF Drained

\* Unless the pipeline is torn down a stage leaves its loop only because its
\* input is drained, or because it is the pose stage and failed.
LeavesDrained ==
    /\ poseFailed => stage["pose"] \in {"closing", "done"}
    /\ ~Aborting =>
          /\ stage["tap"] \in {"closing", "done"} => Drained("toTap")
          /\ stage["pose"] \in {"closing", "done"} => poseFailed \/ Drained("toPose")
          /\ stage["output"] = "done" => Drained("toOutput")

LEMMA LeavesDrainedStep ==
    ASSUME TypeOK, JoinedInOrder, ClosedBehindSenders, LeavesDrained, [Next]_vars
    PROVE  LeavesDrained'
<1> USE DEF LeavesDrained
<1>1. \A c \in {"toTap", "toPose", "toOutput"} : Drained(c) => Drained(c)'
  BY DrainedForGood DEF Channels
<1>2. stage \in [Stages -> {"off", "receive", "send", "closing", "done"}]
  BY DEF TypeOK
<1>3. CASE SourceStep
  <2>1. UNCHANGED <<stage, poseFailed, runner>>
    BY <1>3 DEF SourceStep, stageVars, runnerVars, waitVars
  <2> QED
    BY <1>1, <2>1 DEF Aborting
<1>4. ASSUME NEW s \in {"tap", "pose"}, StageStep(s)
      PROVE  LeavesDrained'
  <2>1. UNCHANGED runner
    BY <1>4 DEF StageStep, runnerVars, waitVars
  <2>2. CASE StageReceive(s) \/ StageClose(s)
    <3>1. UNCHANGED poseFailed
      BY <2>2 DEF StageReceive, StageClose
    <3> QED
      BY <1>1, <1>2, <1>4, <2>1, <2>2, <3>1 DEF StageReceive, StageClose, Stages, Aborting
  <2>3. CASE s = "pose" /\ PoseFails
    BY <1>1, <1>2, <2>1, <2>3 DEF PoseFails, Stages, Aborting
  <2>4. CASE StageSend(s)
    <3>1. UNCHANGED poseFailed /\ stage[s] = "send"
      BY <2>4 DEF StageSend
    <3>2. ~Aborting => ~closed[Output[s]]
      BY <1>4, <3>1 DEF ClosedBehindSenders, Output
    <3>3. ~Aborting => stage' = [stage EXCEPT ![s] = "receive"]
      BY <2>4, <3>2 DEF StageSend
    <3>4. stage' = [stage EXCEPT ![s] = "closing"] \/ stage' = [stage EXCEPT ![s] = "receive"]
      BY <2>4 DEF StageSend
    <3> QED
      BY <1>1, <1>2, <1>4, <2>1, <3>1, <3>3, <3>4 DEF Stages, Aborting
  <2>5. CASE StageInputEnds(s)
    <3>1. /\ UNCHANGED poseFailed
          /\ stage[s] = "receive" /\ stage' = [stage EXCEPT ![s] = "closing"]
          /\ Drained(Input[s])
      BY <2>5 DEF StageInputEnds, Drained
    <3> QED
      BY <1>1, <1>2, <1>4, <2>1, <3>1 DEF Stages, Aborting, Input
  <2> QED
    BY <1>4, <2>2, <2>3, <2>4, <2>5 DEF StageStep
<1>5. CASE OutputStep
  <2>1. UNCHANGED <<poseFailed, runner>>
    BY <1>5 DEF OutputStep, runnerVars, waitVars
  <2>2. \/ UNCHANGED stage
        \/ Drained("toOutput") /\ stage' = [stage EXCEPT !["output"] = "done"]
    BY <1>5 DEF OutputStep, Drained
  <2> QED
    BY <1>1, <1>2, <2>1, <2>2 DEF Stages, Aborting
<1>6. CASE RunnerStep
  <2>1. UNCHANGED poseFailed
    BY <1>6 DEF RunnerStep, failures
  <2>2. Aborting => Aborting'
    BY <1>6
       DEF RunnerStep, StartStage, StartSource, EnterWait, Watch, JoinSource, CloseInput, Join,
           FinalizeAtEof, EndWait, Abort, Aborted, Aborting
  <2>3. \/ UNCHANGED stage
        \/ \E s \in Stages : stage[s] = "off" /\ stage' = [stage EXCEPT ![s] = "receive"]
    BY <1>6
       DEF RunnerStep, StartStage, StartSource, EnterWait, Watch, JoinSource, CloseInput, Join,
           FinalizeAtEof, EndWait, Abort, Aborted, stageVars, JoinedInOrder, Stages
  <2> QED
    BY <1>1, <1>2, <2>1, <2>2, <2>3 DEF Stages
<1>7. CASE ControlStep \/ Done \/ UNCHANGED vars
  <2>1. UNCHANGED <<stage, poseFailed, runner>>
    BY <1>7 DEF
                ControlStep, StopGoesOn, Uncontrolled, Done, vars, stageVars, runnerVars, waitVars, failures
  <2> QED
    BY <1>1, <2>1 DEF Aborting
<1> QED
  BY <1>3, <1>4, <1>5, <1>6, <1>7 DEF Next

-----------------------------------------------------------------------------
(* A video run ends for a reason *)

EndReason == ~Healthy \/ next = Batches

\* The request to stop that the pipeline thread makes of the source, and the end
\* the source comes to, both go back to the control thread, a failure or the end
\* of the files; and to one of the latter when wait() was not told to stop.
EndsForAReason ==
    mode = "video" /\ ~Aborting =>
        /\ stopAt = "told" => prodStop
        /\ prodStop \/ sourceStop \/ finished \/ source \in {"closing", "done"} =>
              stopAt = "told" \/ EndReason
        /\ cause \in {"eof", "failure"} => EndReason

LEMMA EndsForAReasonStep ==
    ASSUME TypeOK, ClosedBehindSenders, EndsForAReason, [Next]_vars
    PROVE  EndsForAReason'
<1> USE DEF EndsForAReason, EndReason, Healthy
<1>1. /\ finished \in BOOLEAN /\ sourceStop \in BOOLEAN /\ prodStop \in BOOLEAN
      /\ sourceFailed \in BOOLEAN /\ poseFailed \in BOOLEAN
  BY TypeParts DEF SourceTypeOK, RunnerTypeOK, StageTypeOK
<1>2. /\ finished' \in BOOLEAN /\ sourceStop' \in BOOLEAN /\ prodStop' \in BOOLEAN
      /\ sourceFailed' \in BOOLEAN /\ poseFailed' \in BOOLEAN
  BY SourceTypeStep, RunnerTypeStep, StageTypeStep DEF SourceTypeOK, RunnerTypeOK, StageTypeOK
<1>3. next \in Nat /\ Batches \in Nat /\ next <= Batches
  BY TypeParts, PipelineAssumption DEF SourceTypeOK
<1>4. CASE SourceStep
  <2>1. UNCHANGED <<mode, runner, prodStop, stopAt, cause, poseFailed, sourceStop>>
    BY <1>4 DEF SourceStep, SourceSeesStop, SourceTakesBatch, SourceEof, SourceFails, SourceSend,
                SourceClose, runnerVars, waitVars, controlVars
  <2>2. CASE SourceSeesStop
    BY <1>1, <1>2, <2>1, <2>2 DEF SourceSeesStop, Aborting
  <2>3. CASE SourceTakesBatch
    BY <1>1, <1>2, <1>3, <2>1, <2>3 DEF SourceTakesBatch, Aborting
  <2>4. CASE SourceEof \/ SourceFails
    BY <1>1, <1>2, <2>1, <2>4 DEF SourceEof, SourceFails, Aborting
  <2>5. CASE SourceSend
    <3>1. ~Aborting => source' = "produce"
      BY <2>5 DEF SourceSend, ClosedBehindSenders
    <3> QED
      BY <1>1, <1>2, <2>1, <2>5, <3>1 DEF SourceSend, Aborting
  <2>6. CASE SourceClose
    BY <1>1, <1>2, <2>1, <2>6 DEF SourceClose, Aborting
  <2> QED
    BY <1>4, <2>2, <2>3, <2>4, <2>5, <2>6 DEF SourceStep
<1>5. CASE \E s \in {"tap", "pose"} : StageStep(s)
  <2>1. /\ UNCHANGED <<mode, runner, prodStop, stopAt, cause, source, next, finished, sourceStop,
                       sourceFailed>>
        /\ poseFailed => poseFailed'
    BY <1>5
       DEF StageStep, StageReceive, PoseFails, StageSend, StageInputEnds, StageClose,
           runnerVars, waitVars, controlVars, sourceVars
  <2> QED
    BY <1>1, <1>2, <2>1 DEF Aborting
<1>6. CASE OutputStep \/ Done \/ UNCHANGED vars
  <2>1. UNCHANGED <<mode, runner, prodStop, stopAt, cause, source, next, finished, sourceStop,
                    sourceFailed, poseFailed>>
    BY <1>6 DEF OutputStep, Done, vars, runnerVars, waitVars, controlVars, sourceVars, failures
  <2> QED
    BY <1>1, <1>2, <2>1 DEF Aborting
<1>7. CASE RunnerStep
  <2> UNCHANGED <<mode, stopAt, sourceFailed, poseFailed, next, finished>>
    BY <1>7
       DEF RunnerStep, StartStage, StartSource, EnterWait, Watch, JoinSource, CloseInput, Join,
           FinalizeAtEof, EndWait, Abort, Aborted, sourceVars, failures
  <2>1. CASE Watch
    BY <1>1, <1>2, <2>1 DEF Watch, StopProducing, Aborting
  <2>2. CASE Abort \/ Aborted
    BY <2>2 DEF Abort, Aborted, Aborting
  <2>3. CASE ~Watch /\ ~Abort /\ ~Aborted
    <3>1. /\ UNCHANGED <<prodStop, sourceStop, cause>> /\ ~Aborting
          /\ source' \in {"closing", "done"} => source \in {"closing", "done"}
      BY <1>7, <2>3
         DEF RunnerStep, StartStage, StartSource, EnterWait, JoinSource, CloseInput, Join,
             FinalizeAtEof, EndWait, sourceVars, waitVars, Aborting
    <3> QED
      BY <1>1, <1>2, <3>1
  <2> QED
    BY <2>1, <2>2, <2>3
<1>8. CASE ControlStep
  <2>1. UNCHANGED <<mode, runner, source, next, finished, sourceFailed, poseFailed>>
    BY <1>8 DEF ControlStep, StopGoesOn, Uncontrolled, failures, runnerVars, waitVars
  <2>2. UNCHANGED cause
    BY <1>8 DEF ControlStep, StopGoesOn, Uncontrolled, runnerVars, waitVars
  <2>3. \/ stopAt' = "told" /\ prodStop' = TRUE
        \/ UNCHANGED <<prodStop, sourceStop>> /\ (stopAt' = "told" <=> stopAt = "told")
    BY <1>8
       DEF ControlStep, StopGoesOn, StartRecording, StopRecording, RequestStop,
           FinalizeForStop, TellToStop, StopProducing
  <2>4. EndReason' = EndReason /\ Aborting' = Aborting
    BY <2>1 DEF Aborting
  <2> HIDE DEF EndReason, Healthy
  <2> SUFFICES ASSUME mode = "video", ~Aborting
               PROVE  /\ stopAt' = "told" => prodStop'
                      /\ prodStop' \/ sourceStop' \/ finished \/ source \in {"closing", "done"} =>
                            stopAt' = "told" \/ EndReason
                      /\ cause \in {"eof", "failure"} => EndReason
    BY <2>1, <2>2, <2>4
  <2>5. CASE stopAt' = "told" /\ prodStop' = TRUE
    BY <2>5
  <2>6. CASE UNCHANGED <<prodStop, sourceStop>> /\ (stopAt' = "told" <=> stopAt = "told")
    BY <2>6
  <2> QED
    BY <2>3, <2>5, <2>6
<1> QED
  BY <1>4, <1>5, <1>6, <1>7, <1>8 DEF Next

-----------------------------------------------------------------------------
(* The packets of a video run are the numbers from 1 on, everywhere *)

Numbered(q, n) == \A i \in 1 .. Len(q) : q[i] = n + i

LEMMA NumberedAppend ==
    ASSUME NEW q \in Seq(Nat), NEW n \in Nat, Numbered(q, n), NEW item \in Nat, item = n + Len(q) + 1
    PROVE  Numbered(Append(q, item), n)
<1>1. /\ Len(q) \in Nat /\ Len(Append(q, item)) = Len(q) + 1
      /\ \A i \in 1 .. Len(q) : Append(q, item)[i] = q[i]
      /\ Append(q, item)[Len(q) + 1] = item
  BY Appended, LenProperties
<1> SUFFICES ASSUME NEW i \in 1 .. Len(q) + 1
             PROVE  Append(q, item)[i] = n + i
  BY <1>1 DEF Numbered
<1>2. CASE i = Len(q) + 1
  BY <1>1, <1>2
<1>3. CASE i \in 1 .. Len(q)
  BY <1>1, <1>3 DEF Numbered
<1> QED
  BY <1>1, <1>2, <1>3

LEMMA NumberedTail ==
    ASSUME NEW q \in Seq(Nat), NEW n \in Nat, Numbered(q, n), q # <<>>
    PROVE  Head(q) = n + 1 /\ Numbered(Tail(q), n + 1)
<1>1. /\ Len(q) \in Nat \ {0} /\ Head(q) = q[1]
      /\ Len(Tail(q)) = Len(q) - 1
      /\ \A i \in 1 .. Len(Tail(q)) : Tail(q)[i] = q[i + 1]
  BY Popped
<1>2. Head(q) = n + 1
  BY <1>1 DEF Numbered
<1>3. ASSUME NEW i \in 1 .. Len(Tail(q))
      PROVE  Tail(q)[i] = (n + 1) + i
  BY <1>1, <1>3 DEF Numbered
<1> QED
  BY <1>2, <1>3 DEF Numbered

\* How many packets have gone past each place: what a stage holds has not left it.
Holds(s) == IF stage[s] = "send" THEN 1 ELSE 0
PastPose == Len(exported) + Len(queue["toOutput"])
AtPose == PastPose + Holds("pose")
PastTap == AtPose + Len(queue["toPose"])
AtTap == PastTap + Holds("tap")
PastSource == AtTap + Len(queue["toTap"])

GaplessOutput ==
    mode = "video" =>
        /\ Numbered(exported, 0)
        /\ Numbered(queue["toOutput"], Len(exported))
        /\ ~Aborting /\ stage["pose"] = "send" => hand["pose"] = PastPose + 1

\* Up to the pose stage, for as long as it lives and the channels are open.
GaplessInput ==
    mode = "video" /\ ~Aborting /\ ~poseFailed =>
        /\ Numbered(queue["toPose"], AtPose)
        /\ stage["tap"] = "send" => hand["tap"] = PastTap + 1
        /\ Numbered(queue["toTap"], AtTap)
        /\ next = PastSource + IF source = "send" THEN 1 ELSE 0

Gapless == GaplessOutput /\ GaplessInput

LEMMA Counts ==
    ASSUME TypeOK
    PROVE  /\ \A c \in Channels : queue[c] \in Seq(Nat) /\ Len(queue[c]) \in Nat
           /\ exported \in Seq(Nat) /\ Len(exported) \in Nat
           /\ \A s \in Stages : hand[s] \in Nat /\ Holds(s) \in {0, 1}
           /\ next \in Nat
           /\ PastPose \in Nat /\ AtPose \in Nat /\ PastTap \in Nat /\ AtTap \in Nat
<1>1. \A q \in Seq(Packets) : q \in Seq(Nat) /\ Len(q) \in Nat
  BY PacketsAreNumbers, SeqMonotonic, LenProperties
<1>2. \A c \in Channels : queue[c] \in Seq(Nat) /\ Len(queue[c]) \in Nat
  BY <1>1 DEF TypeOK
<1>3. exported \in Seq(Nat) /\ Len(exported) \in Nat
  BY <1>1 DEF TypeOK
<1>4. \A s \in Stages : hand[s] \in Nat /\ Holds(s) \in {0, 1}
  BY PipelineAssumption DEF TypeOK, Holds
<1>5. next \in Nat
  BY PipelineAssumption DEF TypeOK
<1>6. PastPose \in Nat /\ AtPose \in Nat
  BY <1>2, <1>3, <1>4 DEF PastPose, AtPose, Channels, Stages
<1>7. PastTap \in Nat /\ AtTap \in Nat
  BY <1>2, <1>4, <1>6 DEF PastTap, AtTap, Channels, Stages
<1> QED
  BY <1>2, <1>3, <1>4, <1>5, <1>6, <1>7

\* A step that moves no packet.
LEMMA GaplessQuiet ==
    ASSUME Gapless, UNCHANGED <<mode, queue, exported, next, hand>>,
           Aborting => Aborting', poseFailed => poseFailed',
           \A s \in {"tap", "pose"} : (stage[s] = "send") <=> (stage'[s] = "send"),
           (source = "send") <=> (source' = "send")
    PROVE  Gapless'
<1>1. UNCHANGED <<PastPose, AtPose, PastTap, AtTap, PastSource>>
  BY DEF PastPose, AtPose, PastTap, AtTap, PastSource, Holds
<1>2. GaplessOutput'
  BY <1>1 DEF Gapless, GaplessOutput, Numbered
<1>3. GaplessInput'
  BY <1>1 DEF Gapless, GaplessInput, Numbered
<1> QED
  BY <1>2, <1>3 DEF Gapless

LEMMA GaplessSource ==
    ASSUME TypeOK, ClosedBehindSenders, Gapless, SourceStep
    PROVE  Gapless'
<1> USE DEF SourceStep, chans, stageVars, runnerVars, waitVars, failures
<1>1. /\ UNCHANGED <<mode, exported, stage, hand, poseFailed>>
      /\ Aborting <=> Aborting'
  BY DEF Aborting
<1>2. CASE SourceSeesStop \/ SourceEof \/ SourceFails \/ SourceClose
  <2>1. /\ UNCHANGED <<queue, next>>
        /\ source # "send" /\ source' # "send"
    BY <1>2 DEF SourceSeesStop, SourceEof, SourceFails, SourceClose, SourceTakesBatch, SourceSend
  <2> QED
    BY <1>1, <2>1, GaplessQuiet
<1>3. CASE SourceTakesBatch
  <2>1. /\ next' = next + 1 /\ source = "produce" /\ source' = "send" /\ UNCHANGED queue
    BY <1>3 DEF SourceTakesBatch, SourceSend, SourceClose
  <2>2. UNCHANGED <<PastPose, AtPose, PastTap, AtTap, PastSource>>
    BY <1>1, <2>1 DEF PastPose, AtPose, PastTap, AtTap, PastSource, Holds
  <2>3. GaplessOutput'
    BY <1>1, <2>1, <2>2 DEF Gapless, GaplessOutput, Numbered
  <2>4. GaplessInput'
    <3>1. PastSource \in Nat
      BY Counts DEF PastSource, Channels
    <3>2. next = PastSource + 0 => next' = PastSource + 1
      BY <2>1, <3>1
    <3> QED
      BY <1>1, <2>1, <2>2, <3>2 DEF Gapless, GaplessInput, Numbered
  <2> QED
    BY <2>3, <2>4 DEF Gapless
<1>4. CASE SourceSend
  <2>1. Send("toTap", next) /\ source = "send" /\ UNCHANGED next
        /\ next \in Packets /\ "toTap" \in Channels
    BY <1>4 DEF SourceSend, TypeOK, Channels
  <2>2. queue'["toPose"] = queue["toPose"] /\ queue'["toOutput"] = queue["toOutput"]
    BY <2>1, SendEffect DEF Puts, Replaces, TypeOK, QueueTypeOK, Channels
  <2>3. UNCHANGED <<PastPose, AtPose, PastTap, AtTap>>
    BY <1>1, <2>2 DEF PastPose, AtPose, PastTap, AtTap, Holds
  <2>4. GaplessOutput'
    BY <1>1, <2>2, <2>3 DEF Gapless, GaplessOutput, Numbered
  <2>5. ASSUME mode = "video", ~Aborting, ~poseFailed
        PROVE  GaplessInput'
    <3>1. ~closed["toTap"] /\ source' = "produce"
      BY <1>4, <2>1, <2>5 DEF SourceSend, ClosedBehindSenders
    <3>2. queue'["toTap"] = Append(queue["toTap"], next)
      BY <2>1, <2>5, <3>1, SendEffect DEF Puts, Replaces, TypeOK, QueueTypeOK
    <3>3. /\ Numbered(queue["toPose"], AtPose)
          /\ stage["tap"] = "send" => hand["tap"] = PastTap + 1
          /\ Numbered(queue["toTap"], AtTap)
          /\ next = AtTap + Len(queue["toTap"]) + 1
      BY <2>1, <2>5, Counts DEF Gapless, GaplessInput, PastSource, Channels
    <3>4. Numbered(queue'["toTap"], AtTap)
      BY <3>2, <3>3, Counts, NumberedAppend DEF Channels
    <3>5. next = AtTap + Len(queue'["toTap"]) + 0
      BY <3>2, <3>3, Counts, Appended DEF Channels
    <3> QED
      BY <1>1, <2>1, <2>2, <2>3, <3>1, <3>3, <3>4, <3>5 DEF GaplessInput, PastSource, Numbered
  <2>6. ASSUME ~(mode = "video" /\ ~Aborting /\ ~poseFailed)
        PROVE  GaplessInput'
    BY <1>1, <2>6 DEF GaplessInput
  <2> QED
    BY <2>4, <2>5, <2>6 DEF Gapless
<1> QED
  BY <1>2, <1>3, <1>4

LEMMA GaplessTap ==
    ASSUME TypeOK, ClosedBehindSenders, Gapless, StageStep("tap")
    PROVE  Gapless'
<1> USE DEF chans, sourceVars, runnerVars, waitVars
<1>1. /\ UNCHANGED <<mode, source, next, exported, poseFailed>>
      /\ Aborting <=> Aborting'
  BY DEF StageStep, StageReceive, StageSend, StageInputEnds, StageClose, Aborting
<1>2. /\ "tap" \in Stages /\ "pose" \in Stages /\ "toTap" \in Channels /\ "toPose" \in Channels
      /\ "toOutput" \in Channels /\ Input["tap"] = "toTap" /\ Output["tap"] = "toPose"
  BY DEF Stages, Channels, Input, Output
<1>3. /\ stage \in [Stages -> {"off", "receive", "send", "closing", "done"}]
      /\ queue \in [Channels -> Seq(Packets)] /\ hand \in [Stages -> 0 .. Batches]
      /\ stage["tap"] = "send" => hand["tap"] \in Packets
  BY <1>2 DEF TypeOK
<1>4. CASE StageInputEnds("tap") \/ StageClose("tap")
  <2>1. /\ UNCHANGED <<queue, hand>>
        /\ \A s \in {"tap", "pose"} : (stage[s] = "send") <=> (stage'[s] = "send")
    BY <1>2, <1>3, <1>4 DEF StageInputEnds, StageClose
  <2> QED
    BY <1>1, <2>1, GaplessQuiet
<1>5. CASE StageReceive("tap")
  <2> DEFINE q == queue["toTap"]
  <2>1. /\ q # <<>> /\ queue'["toTap"] = Tail(q) /\ hand'["tap"] = Head(q)
        /\ stage["tap"] = "receive" /\ stage'["tap"] = "send"
        /\ queue'["toPose"] = queue["toPose"] /\ queue'["toOutput"] = queue["toOutput"]
        /\ hand'["pose"] = hand["pose"] /\ stage'["pose"] = stage["pose"]
    BY <1>2, <1>3, <1>5 DEF StageReceive
  <2>2. /\ UNCHANGED <<PastPose, AtPose, PastTap>>
        /\ AtTap = PastTap + 0 /\ AtTap' = PastTap + 1
    BY <1>1, <2>1 DEF PastPose, AtPose, PastTap, AtTap, Holds
  <2>3. GaplessOutput'
    BY <1>1, <2>1, <2>2 DEF Gapless, GaplessOutput, Numbered
  <2>4. ASSUME mode = "video", ~Aborting, ~poseFailed
        PROVE  GaplessInput'
    <3>1. /\ Numbered(queue["toPose"], AtPose) /\ Numbered(q, AtTap)
          /\ next = AtTap + Len(q) + IF source = "send" THEN 1 ELSE 0
      BY <2>4 DEF Gapless, GaplessInput, PastSource
    <3>2. PastTap \in Nat /\ q \in Seq(Nat)
      BY <1>2, Counts
    <3> HIDE DEF q
    <3>3. Head(q) = PastTap + 1 /\ Numbered(Tail(q), PastTap + 1)
      BY <2>1, <2>2, <3>1, <3>2, NumberedTail
    <3>4. next = (PastTap + 1) + Len(Tail(q)) + IF source = "send" THEN 1 ELSE 0
      BY <2>1, <2>2, <3>1, <3>2, Popped
    <3> QED
      BY <1>1, <2>1, <2>2, <3>1, <3>3, <3>4 DEF GaplessInput, PastSource, Numbered
  <2>5. ASSUME ~(mode = "video" /\ ~Aborting /\ ~poseFailed)
        PROVE  GaplessInput'
    BY <1>1, <2>5 DEF GaplessInput
  <2> QED
    BY <2>3, <2>4, <2>5 DEF Gapless
<1>6. CASE StageSend("tap")
  <2> DEFINE q == queue["toPose"]
             item == hand["tap"]
  <2>1. /\ Send("toPose", item) /\ item \in Packets
        /\ stage["tap"] = "send" /\ hand'["pose"] = hand["pose"] /\ stage'["pose"] = stage["pose"]
    BY <1>2, <1>3, <1>6 DEF StageSend
  <2>2. queue'["toTap"] = queue["toTap"] /\ queue'["toOutput"] = queue["toOutput"]
    BY <1>2, <1>3, <2>1, SendEffect, Zenon DEF Puts, Replaces, TypeOK, QueueTypeOK
  <2>3. UNCHANGED <<PastPose, AtPose>>
    BY <1>1, <2>1, <2>2 DEF PastPose, AtPose, Holds
  <2>4. GaplessOutput'
    BY <1>1, <2>1, <2>2, <2>3 DEF Gapless, GaplessOutput, Numbered
  <2>5. ASSUME mode = "video", ~Aborting, ~poseFailed
        PROVE  GaplessInput'
    <3>1. ~closed["toPose"] /\ stage'["tap"] = "receive"
      BY <1>2, <1>3, <1>6, <2>1, <2>5 DEF StageSend, ClosedBehindSenders
    <3>2. queue'["toPose"] = Append(q, item)
      BY <1>2, <1>3, <2>1, <2>5, <3>1, SendEffect DEF Puts, Replaces, TypeOK, QueueTypeOK
    <3>3. /\ Numbered(q, AtPose) /\ item = AtPose + Len(q) + 1
          /\ Numbered(queue["toTap"], AtTap) /\ next = PastSource + IF source = "send" THEN 1 ELSE 0
      BY <2>1, <2>5 DEF Gapless, GaplessInput, PastTap
    <3>4. q \in Seq(Nat) /\ AtPose \in Nat /\ item \in Nat /\ Len(q) \in Nat
      BY <1>2, Counts
    <3> HIDE DEF q, item
    <3>5. Numbered(queue'["toPose"], AtPose)
      BY <3>2, <3>3, <3>4, NumberedAppend
    <3>6. Len(queue'["toPose"]) = Len(q) + 1
      BY <3>2, <3>4, Appended
    <3>7. AtTap = AtPose + Len(q) + 1
      BY <2>1 DEF AtTap, PastTap, Holds, q
    <3>8. AtTap' = AtPose + (Len(q) + 1) + 0
      BY <2>3, <3>1, <3>6 DEF AtTap, PastTap, Holds
    <3>9. UNCHANGED <<AtTap, PastSource>>
      <4>1. UNCHANGED AtTap
        BY <3>4, <3>7, <3>8
      <4> QED
        BY <2>2, <4>1 DEF PastSource
    <3> QED
      BY <1>1, <2>2, <2>3, <3>1, <3>3, <3>5, <3>9 DEF GaplessInput, Numbered
  <2>6. ASSUME ~(mode = "video" /\ ~Aborting /\ ~poseFailed)
        PROVE  GaplessInput'
    BY <1>1, <2>6 DEF GaplessInput
  <2> QED
    BY <2>4, <2>5, <2>6 DEF Gapless
<1> QED
  BY <1>4, <1>5, <1>6 DEF StageStep

LEMMA GaplessPose ==
    ASSUME TypeOK, ClosedBehindSenders, LeavesDrained, Gapless, StageStep("pose")
    PROVE  Gapless'
<1> USE DEF chans, sourceVars, runnerVars, waitVars
<1>1. /\ UNCHANGED <<mode, source, next, exported>>
      /\ Aborting <=> Aborting'
  BY DEF StageStep, Aborting
<1>2. /\ "tap" \in Stages /\ "pose" \in Stages /\ "toTap" \in Channels /\ "toPose" \in Channels
      /\ "toOutput" \in Channels /\ Input["pose"] = "toPose" /\ Output["pose"] = "toOutput"
  BY DEF Stages, Channels, Input, Output
<1>3. /\ stage \in [Stages -> {"off", "receive", "send", "closing", "done"}]
      /\ queue \in [Channels -> Seq(Packets)] /\ hand \in [Stages -> 0 .. Batches]
      /\ stage["pose"] = "send" => hand["pose"] \in Packets
  BY <1>2 DEF TypeOK
<1>4. CASE StageInputEnds("pose") \/ StageClose("pose")
  <2>1. /\ UNCHANGED <<queue, hand, poseFailed>>
        /\ \A s \in {"tap", "pose"} : (stage[s] = "send") <=> (stage'[s] = "send")
    BY <1>2, <1>3, <1>4 DEF StageInputEnds, StageClose
  <2> QED
    BY <1>1, <2>1, GaplessQuiet
<1>5. CASE PoseFails
  <2>1. /\ poseFailed' /\ stage'["pose"] = "closing" /\ queue'["toOutput"] = queue["toOutput"]
    BY <1>2, <1>3, <1>5 DEF PoseFails
  <2> QED
    BY <1>1, <2>1 DEF Gapless, GaplessOutput, GaplessInput, Numbered
<1>6. CASE StageReceive("pose")
  <2> DEFINE q == queue["toPose"]
  <2>1. /\ q # <<>> /\ queue'["toPose"] = Tail(q) /\ hand'["pose"] = Head(q)
        /\ stage["pose"] = "receive" /\ stage'["pose"] = "send"
        /\ queue'["toTap"] = queue["toTap"] /\ queue'["toOutput"] = queue["toOutput"]
        /\ hand'["tap"] = hand["tap"] /\ stage'["tap"] = stage["tap"]
        /\ UNCHANGED poseFailed
    BY <1>2, <1>3, <1>6 DEF StageReceive
  <2>2. ~poseFailed
    BY <2>1 DEF LeavesDrained
  <2>3. /\ PastPose \in Nat /\ q \in Seq(Nat) /\ Len(q) \in Nat /\ Holds("tap") \in {0, 1}
        /\ Len(Tail(q)) = Len(q) - 1
    BY <1>2, <2>1, Counts, Popped
  <2>4. /\ UNCHANGED PastPose /\ AtPose = PastPose + 0 /\ AtPose' = PastPose + 1
    BY <1>1, <2>1 DEF PastPose, AtPose, Holds
  <2>5. UNCHANGED <<PastTap, AtTap, PastSource>>
    <3>1. PastTap = AtPose + Len(q) /\ PastTap' = AtPose' + Len(queue'["toPose"])
      BY DEF PastTap
    <3> HIDE DEF q
    <3>2. Len(queue'["toPose"]) = Len(q) - 1
      BY <2>1, <2>3
    <3>3. PastTap' = (PastPose + 1) + (Len(q) - 1) /\ PastTap = (PastPose + 0) + Len(q)
      BY <2>4, <3>1, <3>2
    <3>4. UNCHANGED PastTap
      BY <2>3, <3>3
    <3>5. UNCHANGED AtTap
      BY <2>1, <3>4 DEF AtTap, Holds
    <3> QED
      BY <2>1, <3>4, <3>5 DEF PastSource
  <2>6. ASSUME mode = "video", ~Aborting
        PROVE  Gapless'
    <3>1. stage["tap"] = "send" => hand["tap"] = PastTap + 1
      BY <2>2, <2>6 DEF Gapless, GaplessInput
    <3>2. Numbered(queue["toTap"], AtTap) /\ next = PastSource + IF source = "send" THEN 1 ELSE 0
      BY <2>2, <2>6 DEF Gapless, GaplessInput
    <3>3. Numbered(q, AtPose)
      BY <2>2, <2>6 DEF Gapless, GaplessInput
    <3> HIDE DEF q
    <3>4. Head(q) = PastPose + 1 /\ Numbered(Tail(q), PastPose + 1)
      BY <2>1, <2>3, <2>4, <3>3, NumberedTail
    <3>5. GaplessOutput'
      BY <1>1, <2>1, <2>4, <3>4 DEF Gapless, GaplessOutput, Numbered
    <3>6. GaplessInput'
      BY <1>1, <2>1, <2>4, <2>5, <3>1, <3>2, <3>3, <3>4 DEF GaplessInput, Numbered
    <3> QED
      BY <3>5, <3>6 DEF Gapless
  <2>7. ASSUME ~(mode = "video" /\ ~Aborting)
        PROVE  Gapless'
    BY <1>1, <2>1, <2>7 DEF Gapless, GaplessOutput, GaplessInput, Numbered
  <2> QED
    BY <2>6, <2>7
<1>7. CASE StageSend("pose")
  <2> DEFINE q == queue["toOutput"]
             item == hand["pose"]
  <2>1. /\ Send("toOutput", item) /\ item \in Packets /\ UNCHANGED poseFailed
        /\ stage["pose"] = "send" /\ hand'["tap"] = hand["tap"] /\ stage'["tap"] = stage["tap"]
        /\ stage'["pose"] \in {"receive", "closing"}
    BY <1>2, <1>3, <1>7 DEF StageSend
  <2>2. queue'["toTap"] = queue["toTap"] /\ queue'["toPose"] = queue["toPose"]
    <3>1. QueueTypeOK /\ "toOutput" \in Channels
      BY <1>2 DEF TypeOK, QueueTypeOK, Channels
    <3>2. UNCHANGED queue \/ Puts("toOutput", item) \/ Replaces("toOutput", item)
      BY <2>1, <3>1, SendEffect
    <3> QED
      BY <3>1, <3>2 DEF Puts, Replaces, QueueTypeOK, Channels
  <2>3. /\ q \in Seq(Nat) /\ Len(q) \in Nat /\ item \in Nat
        /\ exported \in Seq(Nat) /\ Len(exported) \in Nat
    BY <1>2, Counts
  <2>4. ASSUME mode = "video", ~Aborting
        PROVE  Gapless'
    <3>1. ~closed["toOutput"]
      BY <2>1, <2>4 DEF ClosedBehindSenders
    <3>2. queue'["toOutput"] = Append(q, item)
      BY <1>2, <1>3, <2>1, <2>4, <3>1, SendEffect DEF Puts, Replaces, TypeOK, QueueTypeOK
    <3>3. /\ Numbered(exported, 0) /\ Numbered(q, Len(exported))
          /\ item = Len(exported) + Len(q) + 1
      BY <2>1, <2>4 DEF Gapless, GaplessOutput, PastPose
    <3> HIDE DEF q, item
    <3>4. Numbered(queue'["toOutput"], Len(exported)) /\ Len(queue'["toOutput"]) = Len(q) + 1
      BY <2>3, <3>2, <3>3, NumberedAppend, Appended
    <3>5. GaplessOutput'
      BY <1>1, <2>1, <3>3, <3>4 DEF GaplessOutput
    <3>6. UNCHANGED AtPose
      <4>1. AtPose = Len(exported) + Len(q) + 1
        BY <2>1 DEF AtPose, PastPose, Holds, q
      <4>2. AtPose' = Len(exported) + (Len(q) + 1) + 0
        BY <1>1, <2>1, <3>4 DEF AtPose, PastPose, Holds
      <4> QED
        BY <2>3, <4>1, <4>2
    <3>7. UNCHANGED <<PastTap, AtTap, PastSource>>
      BY <2>1, <2>2, <3>6 DEF PastTap, AtTap, PastSource, Holds
    <3>8. GaplessInput'
      BY <1>1, <2>1, <2>2, <3>6, <3>7 DEF Gapless, GaplessInput, Numbered
    <3> QED
      BY <3>5, <3>8 DEF Gapless
  <2>5. ASSUME mode = "video", Aborting
        PROVE  Gapless'
    <3>1. queue'["toOutput"] = q
      BY <1>2, <1>3, <2>1, <2>5, SendEffect DEF ClosedBehindSenders, Puts, Replaces, TypeOK, QueueTypeOK
    <3> QED
      BY <1>1, <2>5, <3>1 DEF Gapless, GaplessOutput, GaplessInput, Numbered
  <2>6. ASSUME mode # "video"
        PROVE  Gapless'
    BY <1>1, <2>6 DEF Gapless, GaplessOutput, GaplessInput
  <2> QED
    BY <2>4, <2>5, <2>6
<1> QED
  BY <1>4, <1>5, <1>6, <1>7 DEF StageStep

LEMMA GaplessExport ==
    ASSUME TypeOK, Gapless, OutputStep
    PROVE  Gapless'
<1>1. /\ UNCHANGED <<mode, source, next, hand, poseFailed, runner>>
      /\ Aborting <=> Aborting'
  BY DEF OutputStep, Aborting, sourceVars, runnerVars, waitVars
<1>2. \A s \in {"tap", "pose"} : stage'[s] = stage[s]
  BY DEF OutputStep, TypeOK, Stages
<1> DEFINE q == queue["toOutput"]
<1>3. CASE UNCHANGED <<queue, exported>>
  BY <1>1, <1>2, <1>3, GaplessQuiet
<1>4. CASE /\ q # <<>> /\ exported' = Append(exported, Head(q))
           /\ queue' = [queue EXCEPT !["toOutput"] = Tail(q)]
  <2>1. /\ queue'["toOutput"] = Tail(q)
        /\ queue'["toPose"] = queue["toPose"] /\ queue'["toTap"] = queue["toTap"]
    BY <1>4 DEF TypeOK, Channels
  <2>2. /\ q \in Seq(Nat) /\ Len(q) \in Nat /\ exported \in Seq(Nat) /\ Len(exported) \in Nat
    BY Counts DEF Channels
  <2>3. PastPose = Len(exported) + Len(q) /\ PastPose' = Len(exported') + Len(queue'["toOutput"])
    BY DEF PastPose
  <2> HIDE DEF q
  <2>4. Len(Tail(q)) = Len(q) - 1 /\ Head(q) \in Nat
    BY <1>4, <2>2, Popped
  <2>5. Len(exported') = Len(exported) + 1
    BY <1>4, <2>2, <2>4, Appended
  <2>6. UNCHANGED PastPose
    <3>1. Len(queue'["toOutput"]) = Len(q) - 1
      BY <2>1, <2>4
    <3>2. PastPose \in Nat /\ PastPose' = (Len(exported) + 1) + (Len(q) - 1)
      BY <2>3, <2>5, <3>1, Counts
    <3>3. (Len(exported) + 1) + (Len(q) - 1) = Len(exported) + Len(q)
      BY <2>2
    <3> QED
      BY <2>3, <3>2, <3>3
  <2>7. UNCHANGED <<AtPose, PastTap, AtTap, PastSource>>
    BY <1>2, <2>1, <2>6 DEF AtPose, PastTap, AtTap, PastSource, Holds
  <2>8. GaplessInput'
    BY <1>1, <1>2, <2>1, <2>7 DEF Gapless, GaplessInput, Numbered
  <2>9. ASSUME mode = "video"
        PROVE  GaplessOutput'
    <3>1. Numbered(exported, 0) /\ Numbered(q, Len(exported))
      BY <2>9 DEF Gapless, GaplessOutput, q
    <3>2. Head(q) = Len(exported) + 1 /\ Numbered(Tail(q), Len(exported) + 1)
      BY <1>4, <2>2, <3>1, NumberedTail
    <3>3. Numbered(exported', 0)
      BY <1>4, <2>2, <2>4, <3>1, <3>2, NumberedAppend
    <3> QED
      BY <1>1, <1>2, <2>1, <2>5, <2>6, <2>9, <3>2, <3>3 DEF Gapless, GaplessOutput
  <2> QED
    BY <1>1, <2>8, <2>9 DEF Gapless, GaplessOutput
<1> QED
  BY <1>3, <1>4 DEF OutputStep

LEMMA GaplessRest ==
    ASSUME TypeOK, JoinedInOrder, Gapless, RunnerStep \/ ControlStep \/ Done \/ UNCHANGED vars
    PROVE  Gapless'
<1>1. CASE RunnerStep
  <2>1. UNCHANGED <<mode, exported, poseFailed, queue, hand, next>>
    BY <1>1
       DEF RunnerStep, StartStage, StartSource, EnterWait, Watch, JoinSource, CloseInput, Join,
           FinalizeAtEof, EndWait, Abort, Aborted, chans, stageVars, sourceVars, failures
  <2>2. Aborting => Aborting'
    BY <1>1
       DEF RunnerStep, StartStage, StartSource, EnterWait, Watch, JoinSource, CloseInput, Join,
           FinalizeAtEof, EndWait, Abort, Aborted, Aborting
  <2>3. \/ UNCHANGED stage
        \/ \E s \in Stages : stage[s] = "off" /\ stage' = [stage EXCEPT ![s] = "receive"]
    BY <1>1
       DEF RunnerStep, StartStage, StartSource, EnterWait, Watch, JoinSource, CloseInput, Join,
           FinalizeAtEof, EndWait, Abort, Aborted, stageVars, JoinedInOrder, Stages
  <2>4. \A s \in {"tap", "pose"} : (stage[s] = "send") <=> (stage'[s] = "send")
    BY <2>3 DEF TypeOK, Stages
  <2>5. CASE StartSource
    BY <2>1, <2>2, <2>4, <2>5, GaplessQuiet DEF StartSource, JoinedInOrder, Starting
  <2>6. ASSUME ~StartSource
        PROVE  UNCHANGED source
    BY <1>1, <2>6
       DEF RunnerStep, StartStage, EnterWait, Watch, JoinSource, CloseInput, Join,
           FinalizeAtEof, EndWait, Abort, Aborted, sourceVars
  <2> QED
    BY <2>1, <2>2, <2>4, <2>5, <2>6, GaplessQuiet
<1>2. CASE ControlStep \/ Done \/ UNCHANGED vars
  <2>1. UNCHANGED <<mode, exported, poseFailed, queue, hand, next, runner, stage, source>>
    BY <1>2 DEF
                ControlStep, StopGoesOn, Uncontrolled, Done, vars, chans, stageVars, sourceVars, runnerVars, waitVars, failures
  <2> QED
    BY <2>1, GaplessQuiet DEF Aborting
<1> QED
  BY <1>1, <1>2

\* In video mode no batch is lost, doubled or overtaken on its way from the files
\* to the output stage, whatever fails; and a run that ends as "stopped" has
\* passed on every batch its source took up.
THEOREM VideoLosesNothing == Spec => []VideoIsLossless
<1> DEFINE Earlier == TypeOK /\ JoinedInOrder /\ ClosedBehindSenders /\ FailuresAreKept
           Inv == LeavesDrained /\ EndsForAReason /\ CauseIsKnown /\ Gapless
<1>1. ASSUME Init
      PROVE  Inv
  <2>1. /\ queue = [c \in Channels |-> <<>>] /\ exported = <<>> /\ next = 0
        /\ stage = [s \in Stages |-> "off"] /\ source = "off"
        /\ finished = FALSE /\ sourceStop = FALSE /\ prodStop = FALSE /\ poseFailed = FALSE
        /\ stopAt = "no" /\ cause = "none" /\ runner = "startOutput"
    BY <1>1 DEF Init
  <2>2. Len(<<>>) = 0 /\ \A n \in Nat : Numbered(<<>>, n)
    BY EmptySeq DEF Numbered
  <2>3. LeavesDrained
    BY <2>1 DEF LeavesDrained, Stages
  <2>4. EndsForAReason /\ CauseIsKnown
    BY <2>1 DEF EndsForAReason, CauseIsKnown, AfterWatch, SourceJoined, TapJoined, PoseJoined
  <2>5. /\ PastPose = 0 /\ AtPose = 0 /\ PastTap = 0 /\ AtTap = 0 /\ PastSource = 0
    BY <2>1, <2>2 DEF PastPose, AtPose, PastTap, AtTap, PastSource, Holds, Channels, Stages
  <2>6. GaplessOutput
    BY <2>1, <2>2 DEF GaplessOutput, Channels, Stages
  <2>7. GaplessInput
    BY <2>1, <2>2, <2>5 DEF GaplessInput, Channels, Stages
  <2> QED
    BY <2>3, <2>4, <2>6, <2>7 DEF Gapless
<1>2. ASSUME Earlier, Inv, [Next]_vars
      PROVE  Inv'
  <2>1. LeavesDrained' /\ EndsForAReason' /\ CauseIsKnown'
    BY <1>2, LeavesDrainedStep, EndsForAReasonStep, CauseIsKnownStep
  <2>2. Gapless'
    BY <1>2, GaplessSource, GaplessTap, GaplessPose, GaplessExport, GaplessRest DEF Next
  <2> QED
    BY <2>1, <2>2
<1>3. Earlier /\ Inv => VideoIsLossless
  <2> SUFFICES ASSUME Earlier, Inv, mode = "video"
               PROVE  VideoIsLossless
    BY DEF VideoIsLossless
  <2>1. \A i \in 1 .. Len(exported) : exported[i] = i
    BY DEF Gapless, GaplessOutput, Numbered
  <2>2. ASSUME runner = "stopped"
        PROVE  Len(exported) = next /\ (cause = "told" \/ next = Batches)
    <3>1. /\ stage["tap"] = "done" /\ stage["pose"] = "done" /\ stage["output"] = "done"
          /\ source = "done" /\ ~Aborting
      BY <2>2 DEF JoinedInOrder, PoseJoined, TapJoined, SourceJoined, Aborting
    <3>2. ~poseFailed /\ ~sourceFailed
      BY <2>2 DEF FailuresAreKept, FailureIsReported
    <3>3. \A c \in {"toTap", "toPose", "toOutput"} : queue[c] = <<>>
      BY <3>1, <3>2 DEF LeavesDrained, Drained
    <3>4. Len(exported) \in Nat /\ Len(<<>>) = 0
      BY Counts, EmptySeq
    <3>5. PastSource = Len(exported)
      <4>1. Holds("tap") = 0 /\ Holds("pose") = 0
        BY <3>1 DEF Holds
      <4>2. PastSource = Len(exported) + 0 + 0 + 0 + 0 + 0
        BY <3>3, <3>4, <4>1 DEF PastSource, AtTap, PastTap, AtPose, PastPose
      <4> QED
        BY <3>4, <4>2
    <3>6. next = PastSource + 0
      BY <3>1, <3>2 DEF Gapless, GaplessInput
    <3>7. cause = "told" \/ next = Batches
      <4>1. cause \in {"told", "eof", "failure"}
        BY <2>2, TypeParts DEF CauseIsKnown, AfterWatch, SourceJoined, TapJoined, PoseJoined, RunnerTypeOK
      <4> QED
        BY <3>1, <3>2, <4>1 DEF EndsForAReason, EndReason, Healthy
    <3> QED
      BY <3>4, <3>5, <3>6, <3>7
  <2> QED
    BY <2>1, <2>2 DEF VideoIsLossless
<1> QED
  BY <1>1, <1>2, <1>3, Orderly, PTL DEF Spec

-----------------------------------------------------------------------------
(* Rows of detections. *)

LEMMA HeldMember ==
    ASSUME NEW r, NEW x
    PROVE  x \in HeldBy(r) <=> \E view \in Views : r[view] # None /\ x = <<view, r[view]>>
BY DEF HeldBy

LEMMA RowFacts ==
    ASSUME NEW r \in Rows, NEW view \in Views
    PROVE  r[view] \in Candidates[view] \cup {None}
BY DEF Rows

LEMMA EmptyRow == NoRow \in Rows /\ HeldBy(NoRow) = {}
<1>1. NoRow \in Rows
  BY DEF NoRow, Rows
<1>2. HeldBy(NoRow) = {}
  BY HeldMember DEF NoRow
<1> QED
  BY <1>1, <1>2

LEMMA HeldAreDetections ==
    ASSUME NEW r \in Rows
    PROVE  HeldBy(r) \subseteq Detections
<1> SUFFICES ASSUME NEW x \in HeldBy(r)
             PROVE  x \in Detections
  OBVIOUS
<1>1. PICK view \in Views : r[view] # None /\ x = <<view, r[view]>>
  BY HeldMember
<1>2. r[view] \in Candidates[view]
  BY <1>1, RowFacts
<1> QED
  BY <1>1, <1>2 DEF Detections

LEMMA HeldFinite ==
    ASSUME NEW r
    PROVE  IsFiniteSet(HeldBy(r))
<1> DEFINE D == {view \in Views : r[view] # None}
           f == [view \in D |-> <<view, r[view]>>]
<1>1. IsFiniteSet(D)
  BY TrackerAssumption, FS_Subset
<1>2. f \in Surjection(D, HeldBy(r))
  BY DEF Surjection, HeldBy
<1> QED
  BY <1>1, <1>2, FS_Surjection

\* A track that takes detections of a seed has a row again, with these and with
\* none that it or the seed did not have.
LEMMA TakenFacts ==
    ASSUME NEW r \in Rows, NEW s \in Rows
    PROVE  /\ Taken(r, s) \in Rows
           /\ HeldBy(Taken(r, s)) \subseteq HeldBy(r) \cup Free(s)
           /\ Free(s) \subseteq HeldBy(Taken(r, s))
<1>1. \A view \in Views : Taken(r, s)[view] = IF <<view, s[view]>> \in Free(s) THEN s[view] ELSE r[view]
  BY DEF Taken
<1>2. Taken(r, s) \in Rows
  <2>1. \A view \in Views : Taken(r, s)[view] \in Candidates[view] \cup {None}
    BY <1>1, RowFacts
  <2>2. Taken(r, s) \in [Views -> (UNION {Candidates[view] : view \in Views}) \cup {None}]
    BY <2>1 DEF Taken
  <2> QED
    BY <2>1, <2>2 DEF Rows
<1>3. HeldBy(Taken(r, s)) \subseteq HeldBy(r) \cup Free(s)
  <2> SUFFICES ASSUME NEW x \in HeldBy(Taken(r, s)), x \notin Free(s)
               PROVE  x \in HeldBy(r)
    OBVIOUS
  <2>1. PICK view \in Views : Taken(r, s)[view] # None /\ x = <<view, Taken(r, s)[view]>>
    BY HeldMember
  <2>2. Taken(r, s)[view] = r[view]
    BY <1>1, <2>1
  <2> QED
    BY <2>1, <2>2, HeldMember
<1>4. Free(s) \subseteq HeldBy(Taken(r, s))
  <2> SUFFICES ASSUME NEW x \in Free(s)
               PROVE  x \in HeldBy(Taken(r, s))
    OBVIOUS
  <2>1. PICK view \in Views : s[view] # None /\ x = <<view, s[view]>>
    BY HeldMember DEF Free
  <2>2. Taken(r, s)[view] = s[view]
    BY <1>1, <2>1
  <2> QED
    BY <2>1, <2>2, HeldMember
<1> QED
  BY <1>2, <1>3, <1>4

-----------------------------------------------------------------------------
(* Slots. *)

LEMMA LeastIsMember ==
    ASSUME NEW S \in SUBSET Tracks, S # {}
    PROVE  Least(S) \in S
<1>1. S \in SUBSET Nat
  BY TrackerAssumption DEF Tracks
<1>2. \E m \in S : \A n \in S : m <= n
  BY <1>1, LeastExists
<1> QED
  BY <1>2 DEF Least

\* A new track gets a slot that no active track has.
LEMMA SlotIsFree ==
    ASSUME TTypeOK, NEW slot \in SlotFor
    PROVE  slot \in Tracks \ active \/ slot \in dormant
<1> DEFINE vacant == Tracks \ (active \cup dormant)
           oldest == {t \in dormant : \A s \in dormant : age[s] <= age[t]}
<1>1. CASE vacant # {}
  <2>1. Least(vacant) \in vacant
    BY <1>1, LeastIsMember
  <2> QED
    BY <1>1, <2>1 DEF SlotFor
<1>2. CASE vacant = {} /\ dormant # {}
  <2> DEFINE rest == {Lifetime - age[t] : t \in dormant}
  <2>1. rest \in SUBSET Nat /\ rest # {}
    BY <1>2, TrackerAssumption DEF TTypeOK
  <2>2. PICK m \in rest : \A n \in rest : m <= n
    BY <2>1, LeastExists
  <2>3. PICK t \in dormant : m = Lifetime - age[t]
    BY <2>2
  <2>4. \A s \in dormant : age[s] \in Nat /\ age[t] \in Nat /\ Lifetime - age[t] <= Lifetime - age[s]
    BY <2>2, <2>3 DEF TTypeOK
  <2>5. \A s \in dormant : age[s] <= age[t]
    BY <2>4, TrackerAssumption
  <2>6. oldest # {} /\ oldest \subseteq Tracks
    BY <2>5 DEF TTypeOK
  <2>7. Least(oldest) \in oldest
    BY <2>6, LeastIsMember
  <2> QED
    BY <1>2, <2>7 DEF SlotFor
<1>3. CASE vacant = {} /\ dormant = {}
  BY <1>3 DEF SlotFor
<1> QED
  BY <1>1, <1>2, <1>3

-----------------------------------------------------------------------------
(* The slots and their identities.  The lifecycle kernel keeps them apart    *)
(* because a slot is named only when it is free or taken over.               *)

LEMMA SoundInit == TInit => TracksAreSound
<1> SUFFICES ASSUME TInit
             PROVE  TracksAreSound
  OBVIOUS
<1> USE DEF TInit, FreshWorkspace
<1>1. TTypeOK
  BY TrackerAssumption, EmptyRow DEF TTypeOK
<1>2. DistinctIdentities
  BY DEF DistinctIdentities
<1> QED
  BY <1>1, <1>2 DEF TracksAreSound

\* Every row the association can write is a row.
LEMMA SeedsAreRows ==
    ASSUME Recover
    PROVE  seeds' \in [Tracks -> Rows]
BY EmptyRow DEF Recover, SeedRows

LEMMA RecoverType ==
    ASSUME TTypeOK, Recover
    PROVE  TTypeOK'
<1>1. seeds' \in [Tracks -> Rows]
  BY SeedsAreRows
<1> DEFINE open == {k \in Tracks : Cardinality(Free(seeds'[k])) >= 2}
<1>2. PICK back \in SUBSET Recognizable : \E by \in [back -> open] :
        /\ active' = active \cup back
        /\ dormant' = dormant \ back
        /\ missed' = [t \in Tracks |-> IF t \in back THEN 0 ELSE missed[t]]
        /\ age' = [t \in Tracks |-> IF t \in back THEN 0 ELSE age[t]]
        /\ joint' = [t \in Tracks |-> IF t \in back THEN "invalid" ELSE joint[t]]
        /\ row' = [t \in Tracks |-> IF t \in back THEN Taken(row[t], seeds'[by[t]]) ELSE row[t]]
        /\ used' = used \cup UNION {Free(seeds'[by[t]]) : t \in back}
        /\ todo' = open \ {by[t] : t \in back}
  BY Zenon DEF Recover
<1>3. PICK by \in [back -> open] :
        /\ row' = [t \in Tracks |-> IF t \in back THEN Taken(row[t], seeds'[by[t]]) ELSE row[t]]
        /\ used' = used \cup UNION {Free(seeds'[by[t]]) : t \in back}
        /\ todo' = open \ {by[t] : t \in back}
  BY <1>2
<1>4. back \subseteq Tracks /\ \A t \in back : seeds'[by[t]] \in Rows
  BY <1>1, <1>3 DEF Recognizable, TTypeOK
<1>5. row' \in [Tracks -> Rows]
  BY <1>3, <1>4, TakenFacts DEF TTypeOK
<1>6. used' \subseteq Detections
  BY <1>3, <1>4, HeldAreDetections DEF TTypeOK, Free
<1>7. active' \subseteq Tracks /\ dormant' \subseteq Tracks /\ todo' \subseteq Tracks
  BY <1>2, <1>3, <1>4 DEF TTypeOK
<1>8. /\ missed' \in [Tracks -> Nat] /\ age' \in [Tracks -> 0 .. Lifetime]
      /\ joint' \in [Tracks -> {"invalid", "measured", "predicted"}]
  BY <1>2, TrackerAssumption DEF TTypeOK
<1> QED
  BY <1>1, <1>5, <1>6, <1>7, <1>8 DEF TTypeOK, Recover

\* What a turn of the loop over the seeds does when it finds a slot.
Begins(slot) ==
    /\ active' = active \cup {slot} /\ dormant' = dormant \ {slot}
    /\ missed' = [missed EXCEPT ![slot] = 0] /\ age' = [age EXCEPT ![slot] = 0]
    /\ NewIdentity(slot) /\ Forget(slot)
    /\ row' = [row EXCEPT ![slot] = Taken(row[slot], seeds[Least(todo)])]
    /\ used' = used \cup HeldBy(seeds[Least(todo)])

LEMMA FreshCases ==
    ASSUME TTypeOK, Fresh
    PROVE  /\ Least(todo) \in todo /\ seeds[Least(todo)] \in Rows
           /\ todo' = todo \ {Least(todo)}
           /\ fpc = "fresh" /\ UNCHANGED <<fpc, frame, seeds, owner, since>>
           /\ \/ UNCHANGED <<lifeVars, row, used, joint, anchored>>
              \/ \E slot \in Tracks : (slot \notin active \/ slot \in dormant) /\ Begins(slot)
<1>1. Least(todo) \in todo /\ seeds[Least(todo)] \in Rows
  BY LeastIsMember DEF Fresh, TTypeOK
<1>2. \A slot \in SlotFor : slot \in Tracks /\ (slot \notin active \/ slot \in dormant)
  BY SlotIsFree DEF TTypeOK
<1> QED
  BY <1>1, <1>2 DEF Fresh, Begins

LEMMA FreshType ==
    ASSUME TTypeOK, Fresh
    PROVE  TTypeOK'
<1>1. CASE UNCHANGED <<lifeVars, row, used, joint, anchored>>
  BY <1>1, FreshCases DEF TTypeOK, lifeVars
<1>2. ASSUME NEW slot \in Tracks, Begins(slot)
      PROVE  TTypeOK'
  <2>1. seeds[Least(todo)] \in Rows
    BY FreshCases
  <2>2. Taken(row[slot], seeds[Least(todo)]) \in Rows
    BY <2>1, TakenFacts DEF TTypeOK
  <2>3. row' \in [Tracks -> Rows]
    BY <1>2, <2>2 DEF Begins, TTypeOK
  <2>4. used' \subseteq Detections
    BY <1>2, <2>1, HeldAreDetections DEF Begins, TTypeOK
  <2>5. /\ missed' \in [Tracks -> Nat] /\ age' \in [Tracks -> 0 .. Lifetime]
        /\ id' \in [Tracks -> Nat] /\ nextId' \in Nat \ {0}
        /\ joint' \in [Tracks -> {"invalid", "measured", "predicted"}]
        /\ anchored' \subseteq Tracks /\ active' \subseteq Tracks /\ dormant' \subseteq Tracks
    BY <1>2, TrackerAssumption DEF Begins, NewIdentity, Forget, TTypeOK
  <2> QED
    BY <2>3, <2>4, <2>5, FreshCases DEF TTypeOK
<1> QED
  BY <1>1, <1>2, FreshCases

\* Every active track has an identity, so the last loop of the kernel finds
\* none to name.
LEMMA NothingToName ==
    ASSUME TracksAreSound, Name
    PROVE  id' = id /\ nextId' = nextId
<1> DEFINE nameless == {t \in active : id[t] = 0 /\ row[t] # NoRow}
<1>1. nameless = {}
  BY DEF TracksAreSound, DistinctIdentities, TTypeOK
<1>2. Cardinality(nameless) = 0
  BY <1>1, FS_EmptySet
<1>3. id' = [t \in Tracks |-> id[t]]
  BY <1>1 DEF Name
<1> QED
  BY <1>2, <1>3 DEF Name, TracksAreSound, TTypeOK

LEMMA TrackerTypeStep == TracksAreSound /\ [TNext]_trackerVars => TTypeOK'
<1> SUFFICES ASSUME TracksAreSound, [TNext]_trackerVars
             PROVE  TTypeOK'
  OBVIOUS
<1> TTypeOK
  BY DEF TracksAreSound
<1>1. CASE Recalibrate
  BY <1>1, TrackerAssumption DEF Recalibrate, TTypeOK, frameVars
<1>2. CASE Match
  <2>1. row' \in [Tracks -> Rows]
    BY <1>2 DEF Match
  <2>2. used' \subseteq Detections
    BY <1>2, <2>1, HeldAreDetections DEF Match
  <2> QED
    BY <1>2, <2>1, <2>2 DEF Match, TTypeOK, lifeVars, jointVars
<1>3. CASE Retire
  <2>1. active' \subseteq Tracks /\ dormant' \subseteq Tracks /\ anchored' \subseteq Tracks
    BY <1>3 DEF Retire, TTypeOK
  <2>2. missed' \in [Tracks -> Nat] /\ id' \in [Tracks -> Nat]
    BY <1>3 DEF Retire, TTypeOK
  <2>3. age' \in [Tracks -> 0 .. Lifetime]
    BY <1>3, TrackerAssumption DEF Retire, TTypeOK
  <2>4. joint' \in [Tracks -> {"invalid", "measured", "predicted"}]
    BY <1>3 DEF Retire, TTypeOK
  <2> QED
    BY <1>3, <2>1, <2>2, <2>3, <2>4 DEF Retire, TTypeOK, frameVars
<1>4. CASE Recover
  BY <1>4, RecoverType
<1>5. CASE Fresh
  BY <1>5, FreshType
<1>6. CASE Name
  <2>1. seeds' \in [Tracks -> Rows]
    BY <1>6, EmptyRow DEF Name
  <2> QED
    BY <1>6, <2>1, NothingToName DEF Name, TTypeOK, jointVars
<1>7. CASE Update
  <2>1. row' \in [Tracks -> Rows] /\ used' \subseteq Detections
    BY <1>7, EmptyRow DEF Update
  <2>2. frame' \in 0 .. Interval - 1
    BY <1>7, TrackerAssumption DEF Update, TTypeOK
  <2>3. PICK solved \in SUBSET Tracks :
          /\ joint' = [t \in Tracks |->
                        IF t \notin active THEN "invalid"
                        ELSE IF t \in solved THEN "measured"
                        ELSE IF joint[t] = "measured" THEN "predicted" ELSE "invalid"]
          /\ anchored' = anchored \cup solved
          /\ owner' = [t \in Tracks |-> IF t \in solved THEN id[t] ELSE owner[t]]
          /\ since' = [t \in Tracks |-> IF t \in solved THEN 0 ELSE IF since[t] < 2 THEN since[t] + 1 ELSE 2]
    BY <1>7 DEF Update
  <2>4. /\ joint' \in [Tracks -> {"invalid", "measured", "predicted"}]
        /\ anchored' \subseteq Tracks
        /\ owner' \in [Tracks -> Nat] /\ since' \in [Tracks -> 0 .. 2]
    BY <2>3 DEF TTypeOK
  <2> QED
    BY <1>7, <2>1, <2>2, <2>4 DEF Update, TTypeOK, lifeVars
<1>8. CASE UNCHANGED trackerVars
  BY <1>8 DEF TTypeOK, trackerVars, lifeVars, frameVars, jointVars
<1> QED
  BY <1>1, <1>2, <1>3, <1>4, <1>5, <1>6, <1>7, <1>8 DEF TNext, Infer

LEMMA IdentityStep == TracksAreSound /\ [TNext]_trackerVars => DistinctIdentities'
<1> SUFFICES ASSUME TracksAreSound, [TNext]_trackerVars
             PROVE  DistinctIdentities'
  OBVIOUS
<1> USE DEF TracksAreSound, DistinctIdentities, TTypeOK
<1>1. CASE Recalibrate
  BY <1>1 DEF Recalibrate
<1>2. CASE Match
  BY <1>2 DEF Match, lifeVars
<1>3. CASE Retire
  BY <1>3 DEF Retire
<1>4. CASE Recover
  BY <1>4 DEF Recover, Recognizable
<1>5. CASE Fresh
  <2>1. CASE UNCHANGED <<lifeVars, row, used, joint, anchored>>
    BY <2>1 DEF lifeVars
  <2>2. ASSUME NEW slot \in Tracks, slot \notin active \/ slot \in dormant, Begins(slot)
        PROVE  DistinctIdentities'
    BY <2>2 DEF Begins, NewIdentity
  <2> QED
    BY <1>5, <2>1, <2>2, FreshCases
<1>6. CASE Name
  BY <1>6, NothingToName DEF Name
<1>7. CASE Update
  BY <1>7 DEF Update, lifeVars
<1>8. CASE UNCHANGED trackerVars
  BY <1>8 DEF trackerVars, lifeVars
<1> QED
  BY <1>1, <1>2, <1>3, <1>4, <1>5, <1>6, <1>7, <1>8 DEF TNext, Infer

\* Every slot is free, active or dormant, has an identity exactly when it is
\* not free, and shares it with no other slot: temporal_lifecycle_kernel for
\* any number of persons.
THEOREM Sound == TSpec => []TracksAreSound
<1>1. TracksAreSound /\ [TNext]_trackerVars => TracksAreSound'
  BY TrackerTypeStep, IdentityStep DEF TracksAreSound
<1> QED
  BY SoundInit, <1>1, PTL DEF TSpec

-----------------------------------------------------------------------------
(* Detections.  Between the assignment and the update every row is covered   *)
(* by the set of used detections, so what a seed still has free is in no row. *)

SeedsDisjoint == \A k, l \in Tracks : k # l => HeldBy(seeds[k]) \cap HeldBy(seeds[l]) = {}
Covered == \A t \in Tracks : HeldBy(row[t]) \subseteq used

HoldInvariant ==
    /\ OneTrackPerDetection /\ SeedsDisjoint
    /\ fpc \in {"retire", "recover", "fresh"} => Covered
    /\ fpc = "fresh" => \A k \in todo : Cardinality(Free(seeds[k])) >= 2

LEMMA HoldInit == TInit => HoldInvariant
BY EmptyRow DEF TInit, HoldInvariant, OneTrackPerDetection, SeedsDisjoint

\* The rows of the association never meet.
LEMMA SeedsStayDisjoint ==
    ASSUME Recover
    PROVE  SeedsDisjoint'
<1>1. seeds' \in IF SeedFrame THEN SeedRows ELSE {[t \in Tracks |-> NoRow]}
  BY DEF Recover
<1>2. PICK given : given = seeds'
  OBVIOUS
<1>3. CASE given \in SeedRows
  BY <1>2, <1>3 DEF SeedRows, SeedsDisjoint
<1>4. CASE given = [t \in Tracks |-> NoRow]
  <2>1. \A t \in Tracks : HeldBy(given[t]) = {}
    BY <1>4, EmptyRow
  <2> QED
    BY <1>2, <2>1 DEF SeedsDisjoint
<1> QED
  BY <1>1, <1>2, <1>3, <1>4

LEMMA RecoverHold ==
    ASSUME TTypeOK, HoldInvariant, Recover
    PROVE  /\ HoldInvariant'
           /\ \A t \in active' \ active : Cardinality(HeldBy(row'[t])) >= 2
<1>1. seeds' \in [Tracks -> Rows] /\ SeedsDisjoint'
  BY SeedsAreRows, SeedsStayDisjoint
<1> DEFINE open == {k \in Tracks : Cardinality(Free(seeds'[k])) >= 2}
<1>2. PICK back \in SUBSET Recognizable : \E by \in [back -> open] :
        /\ \A s, t \in back : s # t => by[s] # by[t]
        /\ active' = active \cup back
        /\ row' = [t \in Tracks |-> IF t \in back THEN Taken(row[t], seeds'[by[t]]) ELSE row[t]]
        /\ used' = used \cup UNION {Free(seeds'[by[t]]) : t \in back}
        /\ todo' = open \ {by[t] : t \in back}
  BY Zenon DEF Recover
<1>3. PICK by \in [back -> open] :
        /\ \A s, t \in back : s # t => by[s] # by[t]
        /\ row' = [t \in Tracks |-> IF t \in back THEN Taken(row[t], seeds'[by[t]]) ELSE row[t]]
        /\ used' = used \cup UNION {Free(seeds'[by[t]]) : t \in back}
        /\ todo' = open \ {by[t] : t \in back}
  BY <1>2
<1>4. back \subseteq Tracks /\ \A t \in back : by[t] \in Tracks /\ by[t] \in open /\ seeds'[by[t]] \in Rows
  BY <1>1, <1>3 DEF Recognizable, TTypeOK
<1>5. \A t \in Tracks : row[t] \in Rows /\ HeldBy(row[t]) \subseteq used
  BY DEF Recover, HoldInvariant, Covered, TTypeOK
<1> DEFINE share == [t \in Tracks |-> IF t \in back THEN Free(seeds'[by[t]]) ELSE {}]
<1>6. \A t \in Tracks : HeldBy(row'[t]) \subseteq HeldBy(row[t]) \cup share[t]
  BY <1>3, <1>4, <1>5, TakenFacts
<1>7. \A t \in Tracks : share[t] \cap used = {} /\ share[t] \subseteq used'
  BY <1>3 DEF Free
<1>8. \A s, t \in Tracks : s # t => share[s] \cap share[t] = {}
  BY <1>1, <1>3, <1>4 DEF Free, SeedsDisjoint
<1>9. OneTrackPerDetection'
  <2> SUFFICES ASSUME NEW s \in Tracks, NEW t \in Tracks, s # t
               PROVE  HeldBy(row'[s]) \cap HeldBy(row'[t]) = {}
    BY DEF OneTrackPerDetection
  <2>1. HeldBy(row[s]) \cap HeldBy(row[t]) = {}
    BY DEF HoldInvariant, OneTrackPerDetection
  <2> QED
    BY <1>5, <1>6, <1>7, <1>8, <2>1
<1>10. Covered'
  BY <1>3, <1>5, <1>6, <1>7 DEF Covered
<1>11. \A k \in todo' : Cardinality((Free(seeds[k]))') >= 2
  <2> SUFFICES ASSUME NEW k \in todo'
               PROVE  Cardinality((Free(seeds[k]))') >= 2
    OBVIOUS
  <2>1. k \in open /\ \A t \in back : by[t] # k
    BY <1>3
  <2>2. \A t \in back : Free(seeds'[by[t]]) \cap HeldBy(seeds'[k]) = {}
    BY <1>1, <1>4, <2>1 DEF SeedsDisjoint, Free
  <2>3. (Free(seeds[k]))' = Free(seeds'[k])
    BY <1>3, <2>2 DEF Free
  <2> QED
    BY <2>1, <2>3
<1>12. ASSUME NEW t \in active' \ active
       PROVE  Cardinality(HeldBy(row'[t])) >= 2
  <2>1. t \in back /\ row'[t] = Taken(row[t], seeds'[by[t]])
    BY <1>2, <1>3, <1>4, <1>12
  <2>2. Free(seeds'[by[t]]) \subseteq HeldBy(row'[t]) /\ IsFiniteSet(HeldBy(row'[t]))
    BY <1>4, <1>5, <2>1, TakenFacts, HeldFinite
  <2>3. Cardinality(Free(seeds'[by[t]])) <= Cardinality(HeldBy(row'[t]))
    BY <2>2, FS_Subset
  <2>4. Cardinality(HeldBy(row'[t])) \in Nat /\ Cardinality(Free(seeds'[by[t]])) \in Nat
    BY <2>2, FS_Subset, FS_CardinalityType
  <2> QED
    BY <1>4, <2>1, <2>3, <2>4
<1> QED
  BY <1>1, <1>9, <1>10, <1>11, <1>12 DEF HoldInvariant, Recover

LEMMA FreshHold ==
    ASSUME TTypeOK, HoldInvariant, Fresh
    PROVE  /\ HoldInvariant'
           /\ \A t \in active' \ active : Cardinality(HeldBy(row'[t])) >= 2
<1> DEFINE seed == Least(todo)
<1>1. /\ seed \in todo /\ seeds[seed] \in Rows /\ seed \in Tracks
      /\ fpc = "fresh" /\ fpc' = "fresh" /\ seeds' = seeds /\ todo' = todo \ {seed}
      /\ Covered /\ SeedsDisjoint
      /\ Cardinality(Free(seeds[seed])) >= 2
  BY FreshCases DEF HoldInvariant, TTypeOK
<1>2. CASE UNCHANGED <<lifeVars, row, used, joint, anchored>>
  BY <1>1, <1>2 DEF HoldInvariant, OneTrackPerDetection, SeedsDisjoint, Covered, Free, lifeVars
<1>3. ASSUME NEW slot \in Tracks, Begins(slot)
      PROVE  /\ HoldInvariant'
             /\ \A t \in active' \ active : Cardinality(HeldBy(row'[t])) >= 2
  <2>1. /\ active' = active \cup {slot}
        /\ row' = [row EXCEPT ![slot] = Taken(row[slot], seeds[seed])]
        /\ used' = used \cup HeldBy(seeds[seed])
    BY <1>3 DEF Begins
  <2>2. \A t \in Tracks : row[t] \in Rows /\ HeldBy(row[t]) \subseteq used
    BY <1>1 DEF Covered, TTypeOK
  <2>3. row'[slot] = Taken(row[slot], seeds[seed]) /\ \A t \in Tracks \ {slot} : row'[t] = row[t]
    BY <2>1 DEF TTypeOK
  <2>4. /\ HeldBy(row'[slot]) \subseteq HeldBy(row[slot]) \cup Free(seeds[seed])
        /\ Free(seeds[seed]) \subseteq HeldBy(row'[slot])
    BY <1>1, <2>2, <2>3, TakenFacts
  <2>5. Free(seeds[seed]) \cap used = {} /\ Free(seeds[seed]) \subseteq used'
    BY <2>1 DEF Free
  <2>6. OneTrackPerDetection'
    BY <2>2, <2>3, <2>4, <2>5 DEF HoldInvariant, OneTrackPerDetection
  <2>7. Covered'
    BY <2>1, <2>2, <2>3, <2>4, <2>5 DEF Covered
  <2>8. \A k \in todo' : Cardinality((Free(seeds[k]))') >= 2
    <3> SUFFICES ASSUME NEW k \in todo'
                 PROVE  Cardinality((Free(seeds[k]))') >= 2
      OBVIOUS
    <3>1. k \in todo /\ k # seed /\ k \in Tracks
      BY <1>1 DEF TTypeOK
    <3>2. HeldBy(seeds[seed]) \cap HeldBy(seeds[k]) = {}
      BY <1>1, <3>1 DEF SeedsDisjoint
    <3>3. (Free(seeds[k]))' = Free(seeds[k])
      BY <1>1, <2>1, <3>2 DEF Free
    <3> QED
      BY <1>1, <3>1, <3>3 DEF HoldInvariant
  <2>9. Cardinality(HeldBy(row'[slot])) >= 2
    <3>1. IsFiniteSet(HeldBy(row'[slot]))
      BY HeldFinite
    <3>2. /\ Cardinality(Free(seeds[seed])) <= Cardinality(HeldBy(row'[slot]))
          /\ Cardinality(HeldBy(row'[slot])) \in Nat /\ Cardinality(Free(seeds[seed])) \in Nat
      BY <2>4, <3>1, FS_Subset, FS_CardinalityType
    <3> QED
      BY <1>1, <3>2
  <2>10. SeedsDisjoint'
    BY <1>1 DEF SeedsDisjoint
  <2> QED
    BY <1>1, <2>1, <2>6, <2>7, <2>8, <2>9, <2>10 DEF HoldInvariant
<1> QED
  BY <1>2, <1>3, FreshCases DEF lifeVars

LEMMA HoldStep == TTypeOK /\ HoldInvariant /\ [TNext]_trackerVars => HoldInvariant'
<1> SUFFICES ASSUME TTypeOK, HoldInvariant, [TNext]_trackerVars
             PROVE  HoldInvariant'
  OBVIOUS
<1> USE DEF HoldInvariant
<1>1. CASE Recalibrate
  BY <1>1 DEF Recalibrate, OneTrackPerDetection, SeedsDisjoint, frameVars
<1>2. CASE Match
  <2>1. Covered' /\ OneTrackPerDetection'
    BY <1>2 DEF Match, Covered, OneTrackPerDetection
  <2> QED
    BY <1>2, <2>1 DEF Match, SeedsDisjoint
<1>3. CASE Retire
  BY <1>3 DEF Retire, OneTrackPerDetection, SeedsDisjoint, Covered, frameVars
<1>4. CASE Recover
  BY <1>4, RecoverHold
<1>5. CASE Fresh
  BY <1>5, FreshHold
<1>6. CASE Name
  BY <1>6, EmptyRow DEF Name, OneTrackPerDetection, SeedsDisjoint
<1>7. CASE Update
  BY <1>7, EmptyRow DEF Update, OneTrackPerDetection, SeedsDisjoint
<1>8. CASE UNCHANGED trackerVars
  BY <1>8 DEF trackerVars, frameVars, OneTrackPerDetection, SeedsDisjoint, Covered, Free
<1> QED
  BY <1>1, <1>2, <1>3, <1>4, <1>5, <1>6, <1>7, <1>8 DEF TNext, Infer

\* No two tracks ever hold the same detection, for any number of tracks,
\* cameras and detections.
THEOREM Exclusive == TSpec => []OneTrackPerDetection
<1>1. TInit => TTypeOK /\ HoldInvariant
  BY SoundInit, HoldInit DEF TracksAreSound
<1>2. TTypeOK /\ HoldInvariant /\ [TNext]_trackerVars => HoldInvariant'
  BY HoldStep
<1>3. HoldInvariant => OneTrackPerDetection
  BY DEF HoldInvariant
<1>4. TracksAreSound => TTypeOK
  BY DEF TracksAreSound
<1> QED
  BY <1>1, <1>2, <1>3, <1>4, Sound, PTL DEF TSpec

-----------------------------------------------------------------------------
(* Identities over time. *)

FreshStep ==
    nextId' >= nextId =>
        /\ \A t \in Tracks : id'[t] \in {0, id[t]} \/ id'[t] >= nextId
        /\ \A t \in active' \ active : Cardinality(HeldBy(row'[t])) >= 2

LEMMA NamesAreNew ==
    ASSUME TracksAreSound, HoldInvariant, [TNext]_trackerVars
    PROVE  FreshStep
<1> USE DEF FreshStep
<1> TTypeOK /\ DistinctIdentities
  BY DEF TracksAreSound
<1>1. CASE Recalibrate
  BY <1>1 DEF Recalibrate
<1>2. CASE Match
  BY <1>2 DEF Match, lifeVars
<1>3. CASE Retire
  BY <1>3 DEF Retire, TTypeOK
<1>4. CASE Recover
  BY <1>4, RecoverHold DEF Recover
<1>5. CASE Fresh
  <2>1. \A t \in active' \ active : Cardinality(HeldBy(row'[t])) >= 2
    BY <1>5, FreshHold
  <2>2. CASE UNCHANGED <<lifeVars, row, used, joint, anchored>>
    BY <2>1, <2>2 DEF lifeVars
  <2>3. ASSUME NEW slot \in Tracks, Begins(slot)
        PROVE  FreshStep
    BY <2>1, <2>3 DEF Begins, NewIdentity, TTypeOK
  <2> QED
    BY <1>5, <2>2, <2>3, FreshCases
<1>6. CASE Name
  BY <1>6, NothingToName DEF Name
<1>7. CASE Update
  BY <1>7 DEF Update, lifeVars
<1>8. CASE UNCHANGED trackerVars
  BY <1>8 DEF trackerVars, lifeVars
<1> QED
  BY <1>1, <1>2, <1>3, <1>4, <1>5, <1>6, <1>7, <1>8 DEF TNext, Infer

\* Within the life of an engine a slot only gets an identity that was never
\* given before, and only a track that two cameras see becomes active.
THEOREM NewIdentities == TSpec => IdentitiesAreFresh
<1>1. TInit => TracksAreSound /\ HoldInvariant
  BY SoundInit, HoldInit
<1>2. TracksAreSound /\ HoldInvariant /\ [TNext]_trackerVars => HoldInvariant'
  BY HoldStep DEF TracksAreSound
<1>3. TracksAreSound /\ HoldInvariant /\ [TNext]_trackerVars => [FreshStep]_trackerVars
  BY NamesAreNew
<1>4. [][FreshStep]_trackerVars => IdentitiesAreFresh
  BY PTL DEF IdentitiesAreFresh, FreshStep
<1> QED
  BY <1>1, <1>2, <1>3, <1>4, Sound, PTL DEF TSpec

\* What a slot remembers belongs to the identity it has, between the kernels
\* as well: an active one's joint, and every anchor.
MemoryInvariant ==
    /\ \A t \in Tracks : joint[t] # "invalid" =>
          /\ t \in active /\ owner[t] = id[t]
          /\ since[t] = IF joint[t] = "predicted" THEN 1 ELSE 0
    /\ \A t \in anchored : owner[t] = id[t]

LEMMA MemoryStep == TracksAreSound /\ MemoryInvariant /\ [TNext]_trackerVars => MemoryInvariant'
<1> SUFFICES ASSUME TracksAreSound, MemoryInvariant, [TNext]_trackerVars
             PROVE  MemoryInvariant'
  OBVIOUS
<1> TTypeOK /\ DistinctIdentities
  BY DEF TracksAreSound
<1> USE DEF MemoryInvariant, TTypeOK
<1>1. CASE Recalibrate
  BY <1>1 DEF Recalibrate
<1>2. CASE Match
  BY <1>2 DEF Match, lifeVars, jointVars
<1>3. CASE Retire
  <2> DEFINE retired == {t \in active : Support(t) < 2 /\ missed[t] + 1 >= DormantAfter}
             expired == {t \in dormant : age[t] + 1 > Lifetime}
  <2>1. /\ active' = active \ retired
        /\ \A t \in Tracks : id'[t] = IF t \in expired THEN 0 ELSE id[t]
        /\ \A t \in Tracks : joint'[t] = IF t \in retired THEN "invalid" ELSE joint[t]
        /\ anchored' = anchored \ expired
        /\ owner' = owner /\ since' = since
    BY <1>3 DEF Retire
  <2>2. active \cap expired = {}
    BY DEF DistinctIdentities
  <2> HIDE DEF retired, expired
  <2> QED
    BY <2>1, <2>2
<1>4. CASE Recover
  BY <1>4 DEF Recover
<1>5. CASE Fresh
  <2>1. CASE UNCHANGED <<lifeVars, row, used, joint, anchored>>
    BY <1>5, <2>1, FreshCases DEF lifeVars
  <2>2. ASSUME NEW slot \in Tracks, Begins(slot)
        PROVE  MemoryInvariant'
    <3>1. owner' = owner /\ since' = since
      BY <1>5, FreshCases
    <3> QED
      BY <2>2, <3>1 DEF Begins, NewIdentity, Forget
  <2> QED
    BY <1>5, <2>1, <2>2, FreshCases
<1>6. CASE Name
  BY <1>6, NothingToName DEF Name, jointVars
<1>7. CASE Update
  <2>1. PICK solved \in SUBSET Tracks :
          /\ joint' = [t \in Tracks |->
                        IF t \notin active THEN "invalid"
                        ELSE IF t \in solved THEN "measured"
                        ELSE IF joint[t] = "measured" THEN "predicted" ELSE "invalid"]
          /\ anchored' = anchored \cup solved
          /\ owner' = [t \in Tracks |-> IF t \in solved THEN id[t] ELSE owner[t]]
          /\ since' = [t \in Tracks |-> IF t \in solved THEN 0 ELSE IF since[t] < 2 THEN since[t] + 1 ELSE 2]
    BY <1>7 DEF Update
  <2>2. active' = active /\ id' = id
    BY <1>7 DEF Update, lifeVars
  <2>3. \A t \in Tracks : joint'[t] # "invalid" =>
          /\ t \in active' /\ owner'[t] = id'[t]
          /\ since'[t] = IF joint'[t] = "predicted" THEN 1 ELSE 0
    BY <2>1, <2>2
  <2>4. \A t \in anchored' : owner'[t] = id'[t]
    BY <2>1, <2>2
  <2> QED
    BY <2>3, <2>4
<1>8. CASE UNCHANGED trackerVars
  BY <1>8 DEF trackerVars, lifeVars, jointVars
<1> QED
  BY <1>1, <1>2, <1>3, <1>4, <1>5, <1>6, <1>7, <1>8 DEF TNext, Infer

\* A published joint was measured for the identity it is published under, in
\* this frame or, when it is marked as predicted, in the one before.
THEOREM NothingLeftOver == TSpec => []JointsBelongToIdentity
<1>1. TInit => MemoryInvariant
  BY DEF TInit, FreshWorkspace, MemoryInvariant
<1>2. TracksAreSound /\ MemoryInvariant /\ [TNext]_trackerVars => MemoryInvariant'
  BY MemoryStep
<1>3. TracksAreSound /\ MemoryInvariant => JointsBelongToIdentity
  BY DEF TracksAreSound, DistinctIdentities, TTypeOK, MemoryInvariant, JointsBelongToIdentity, Published, Pose, TrackIds
<1> QED
  BY <1>1, <1>2, <1>3, Sound, PTL DEF TSpec

-----------------------------------------------------------------------------
(* Sorting.  InOrder puts a member where the number of those before it says: *)
(* in a strict total order these numbers are 0, 1, 2, ..., each for one      *)
(* member.                                                                   *)

Irreflexive(R, S) == \A e \in S : <<e, e>> \notin R
Transitive(R, S) == \A e, f, g \in S : <<e, f>> \in R /\ <<f, g>> \in R => <<e, g>> \in R
Total(R, S) == \A e, f \in S : e # f => <<e, f>> \in R \/ <<f, e>> \in R
StrictOrder(R, S) == Irreflexive(R, S) /\ Transitive(R, S) /\ Total(R, S)

Ahead(R, S, e) == {f \in S : <<f, e>> \in R}

LEMMA AheadGrows ==
    ASSUME NEW S, IsFiniteSet(S), NEW R, StrictOrder(R, S)
    PROVE  /\ \A e \in S : Cardinality(Ahead(R, S, e)) \in 0 .. Cardinality(S) - 1
           /\ \A e, f \in S : <<e, f>> \in R =>
                 Cardinality(Ahead(R, S, e)) < Cardinality(Ahead(R, S, f))
<1>0. Cardinality(S) \in Nat /\ \A e \in S : Cardinality(S \ {e}) = Cardinality(S) - 1 /\ IsFiniteSet(S \ {e})
  BY FS_CardinalityType, FS_RemoveElement
<1>1. ASSUME NEW e \in S
      PROVE  /\ IsFiniteSet(Ahead(R, S, e)) /\ Cardinality(Ahead(R, S, e)) \in Nat
             /\ Cardinality(Ahead(R, S, e)) <= Cardinality(S) - 1
  <2>1. Ahead(R, S, e) \in SUBSET (S \ {e})
    BY DEF Ahead, StrictOrder, Irreflexive
  <2>2. IsFiniteSet(Ahead(R, S, e)) /\ Cardinality(Ahead(R, S, e)) <= Cardinality(S \ {e})
    BY <1>0, <2>1, FS_Subset
  <2> QED
    BY <1>0, <2>2, FS_CardinalityType
<1>2. ASSUME NEW e \in S, NEW f \in S, <<e, f>> \in R
      PROVE  Cardinality(Ahead(R, S, e)) < Cardinality(Ahead(R, S, f))
  <2>1. Ahead(R, S, e) \in SUBSET (Ahead(R, S, f) \ {e}) /\ e \in Ahead(R, S, f)
    BY <1>2 DEF Ahead, StrictOrder, Irreflexive, Transitive
  <2>2. /\ IsFiniteSet(Ahead(R, S, f) \ {e})
        /\ Cardinality(Ahead(R, S, f) \ {e}) = Cardinality(Ahead(R, S, f)) - 1
    BY <1>1, <2>1, FS_RemoveElement
  <2>3. Cardinality(Ahead(R, S, e)) <= Cardinality(Ahead(R, S, f) \ {e})
    BY <2>1, <2>2, FS_Subset
  <2> QED
    BY <1>1, <2>2, <2>3
<1> QED
  BY <1>0, <1>1, <1>2

LEMMA InOrderSorts ==
    ASSUME NEW S, IsFiniteSet(S), NEW R, StrictOrder(R, S)
    PROVE  /\ Cardinality(S) \in Nat
           /\ InOrder(S, R) \in [1 .. Cardinality(S) -> S]
           /\ \A e \in S : \E i \in 1 .. Cardinality(S) : InOrder(S, R)[i] = e
           /\ \A i, j \in 1 .. Cardinality(S) :
                 i < j => <<InOrder(S, R)[i], InOrder(S, R)[j]>> \in R
<1> DEFINE rank == [e \in S |-> Cardinality(Ahead(R, S, e))]
           Places == 0 .. Cardinality(S) - 1
<1>0. Cardinality(S) \in Nat
  BY FS_CardinalityType
<1>1. rank \in [S -> Places]
  BY AheadGrows
<1>2. \A e, f \in S : <<e, f>> \in R => rank[e] < rank[f]
  BY AheadGrows
<1>3. \A e, f \in S : rank[e] = rank[f] => e = f
  <2>1. \A e \in S : rank[e] \in Int
    BY <1>0, <1>1
  <2> HIDE DEF rank
  <2> SUFFICES ASSUME NEW e \in S, NEW f \in S, rank[e] = rank[f], e # f PROVE FALSE
    OBVIOUS
  <2>2. rank[e] < rank[f] \/ rank[f] < rank[e]
    BY <1>2 DEF StrictOrder, Total
  <2>3. PICK i, j \in Int : i = rank[e] /\ j = rank[f]
    BY <2>1
  <2> QED
    BY <2>2, <2>3
<1>4. rank \in Injection(S, Places)
  BY <1>1, <1>3 DEF Injection, IsInjective
<1>5. IsFiniteSet(Places) /\ Cardinality(Places) = Cardinality(S)
  <2>1. Cardinality(S) - 1 \in Int /\ 0 \in Int
    BY <1>0
  <2>2. /\ IsFiniteSet(Places)
        /\ Cardinality(Places)
              = IF 0 > Cardinality(S) - 1 THEN 0 ELSE Cardinality(S) - 1 - 0 + 1
    BY <2>1, FS_Interval, Zenon
  <2> QED
    BY <1>0, <2>2
<1>6. rank \in Surjection(S, Places)
  BY <1>4, <1>5, FS_Injection
<1>7. \A k \in Places : \E e \in S : rank[e] = k
  BY <1>6 DEF Surjection
<1> DEFINE sorted == InOrder(S, R)
<1>8. \A i \in 1 .. Cardinality(S) : sorted[i] \in S /\ rank[sorted[i]] = i - 1
  <2> SUFFICES ASSUME NEW i \in 1 .. Cardinality(S)
               PROVE  sorted[i] \in S /\ rank[sorted[i]] = i - 1
    OBVIOUS
  <2>1. sorted[i] = CHOOSE e \in S : rank[e] = i - 1
    BY DEF InOrder, Ahead
  <2>2. i - 1 \in Places
    BY <1>0
  <2> QED
    BY <1>7, <2>1, <2>2
<1>9. sorted = [i \in 1 .. Cardinality(S) |->
          CHOOSE e \in S : Cardinality({f \in S : <<f, e>> \in R}) = i - 1]
  BY DEF InOrder
<1>10. sorted \in [1 .. Cardinality(S) -> S]
  <2> HIDE DEF sorted
  <2> QED
    BY <1>8, <1>9
<1>11. ASSUME NEW e \in S PROVE \E i \in 1 .. Cardinality(S) : sorted[i] = e
  <2>1. rank[e] + 1 \in 1 .. Cardinality(S) /\ (rank[e] + 1) - 1 = rank[e]
    BY <1>0, <1>1
  <2>2. sorted[rank[e] + 1] = e
    BY <1>3, <1>8, <2>1
  <2> QED
    BY <2>1, <2>2
<1>12. ASSUME NEW i \in 1 .. Cardinality(S), NEW j \in 1 .. Cardinality(S), i < j
       PROVE  <<sorted[i], sorted[j]>> \in R
  <2>1. rank[sorted[i]] < rank[sorted[j]] /\ sorted[i] \in S /\ sorted[j] \in S
    BY <1>8, <1>12
  <2>2. ~(rank[sorted[j]] < rank[sorted[i]]) /\ sorted[i] # sorted[j]
    BY <1>0, <1>1, <2>1
  <2> QED
    BY <1>2, <2>1, <2>2 DEF StrictOrder, Total
<1> HIDE DEF sorted
<1> QED
  BY <1>0, <1>10, <1>11, <1>12 DEF sorted

-----------------------------------------------------------------------------
(* The pairs: finitely many, and their sort keys are different. *)

LEMMA NodesAreFinite ==
    /\ ViewCount \in Nat
    /\ IsFiniteSet(Nodes) /\ IsFiniteSet(Edges)
    /\ Cardinality(Nodes) \in Nat /\ Cardinality(Nodes) <= 10 * ViewCount
<1>1. ViewCount \in Nat
  BY AssociationAssumption
<1>2. /\ IsFiniteSet(1 .. ViewCount) /\ Cardinality(1 .. ViewCount) = ViewCount
      /\ IsFiniteSet(1 .. 10) /\ Cardinality(1 .. 10) = 10
  BY <1>1, NaturalIndices
<1>3. /\ IsFiniteSet((1 .. ViewCount) \X (1 .. 10))
      /\ Cardinality((1 .. ViewCount) \X (1 .. 10)) = ViewCount * 10
  <2>1. PICK A, B : A = 1 .. ViewCount /\ B = 1 .. 10
    OBVIOUS
  <2>2. IsFiniteSet(A \X B) /\ Cardinality(A \X B) = Cardinality(A) * Cardinality(B)
    BY <1>2, <2>1, FS_Product
  <2> QED
    BY <1>2, <2>1, <2>2
<1>4. Nodes \in SUBSET ((1 .. ViewCount) \X (1 .. 10))
  BY DEF Nodes
<1>5. IsFiniteSet(Nodes) /\ Cardinality(Nodes) <= ViewCount * 10
  BY <1>3, <1>4, FS_Subset
<1>6. IsFiniteSet(Nodes \X Nodes)
  BY <1>5, FS_Product
<1>7. Edges \in SUBSET (Nodes \X Nodes)
  BY DEF Edges
<1>8. IsFiniteSet(Edges)
  BY <1>6, <1>7, FS_Subset
<1> QED
  BY <1>1, <1>5, <1>8, FS_CardinalityType

LEMMA NodeParts ==
    \A n \in Nodes :
        /\ n = <<n[1], n[2]>>
        /\ n[1] \in 1 .. ViewCount /\ n[2] \in Detection(n[1]) /\ n[2] \in 1 .. 10
        /\ n[1] \in Int /\ n[2] \in Int /\ n[2] \in Nat
        /\ n[2] # Unassigned
BY AssociationAssumption DEF Nodes, Detection, Unassigned

LEMMA EdgeParts ==
    \A e \in Edges :
        /\ e = <<e[1], e[2]>>
        /\ e[1] \in Nodes /\ e[2] \in Nodes /\ e[1][1] < e[2][1]
BY DEF Edges

\* The lexicographic order, written out.
Smaller(e, f) ==
    \/ e[1][1] < f[1][1]
    \/ e[1][1] = f[1][1] /\ e[2][1] < f[2][1]
    \/ e[1][1] = f[1][1] /\ e[2][1] = f[2][1] /\ e[1][2] < f[1][2]
    \/ e[1][1] = f[1][1] /\ e[2][1] = f[2][1] /\ e[1][2] = f[1][2] /\ e[2][2] < f[2][2]

LEMMA BeforeIsSmaller ==
    ASSUME NEW e \in Edges, NEW f \in Edges
    PROVE  Before(EdgeKey(e), EdgeKey(f)) <=> Smaller(e, f)
<1> DEFINE a == EdgeKey(e)
           b == EdgeKey(f)
           FirstAt(i) == a[i] < b[i] /\ \A j \in 1 .. i - 1 : a[j] = b[j]
<1>1. /\ a[1] = e[1][1] /\ a[2] = e[2][1] /\ a[3] = e[1][2] /\ a[4] = e[2][2]
      /\ b[1] = f[1][1] /\ b[2] = f[2][1] /\ b[3] = f[1][2] /\ b[4] = f[2][2]
  BY DEF EdgeKey
<1> HIDE DEF a, b
<1>2. 1 .. 4 = {1, 2, 3, 4} /\ 1 .. 0 = {} /\ 1 .. 1 = {1} /\ 1 .. 2 = {1, 2} /\ 1 .. 3 = {1, 2, 3}
  OBVIOUS
<1>3. 1 - 1 = 0 /\ 2 - 1 = 1 /\ 3 - 1 = 2 /\ 4 - 1 = 3
  OBVIOUS
<1>4. /\ FirstAt(1) <=> a[1] < b[1]
      /\ FirstAt(2) <=> a[2] < b[2] /\ a[1] = b[1]
      /\ FirstAt(3) <=> a[3] < b[3] /\ a[1] = b[1] /\ a[2] = b[2]
      /\ FirstAt(4) <=> a[4] < b[4] /\ a[1] = b[1] /\ a[2] = b[2] /\ a[3] = b[3]
  BY <1>2, <1>3, Zenon
<1>5. Before(a, b) <=> \E i \in 1 .. 4 : FirstAt(i)
  BY DEF Before
<1> HIDE DEF FirstAt
<1>6. Before(a, b) <=> FirstAt(1) \/ FirstAt(2) \/ FirstAt(3) \/ FirstAt(4)
  BY <1>2, <1>5
<1> QED
  BY <1>1, <1>4, <1>6 DEF Smaller, a, b

LEMMA CostsAreOrdered ==
    ASSUME NEW costs \in [Edges -> Nat]
    PROVE  StrictOrder(SortKeys(costs), Edges)
<1> DEFINE First(e, f) == costs[e] < costs[f] \/ (costs[e] = costs[f] /\ Smaller(e, f))
<1>1. \A e, f \in Edges : <<e, f>> \in SortKeys(costs) <=> First(e, f)
  <2> SUFFICES ASSUME NEW e \in Edges, NEW f \in Edges
               PROVE  <<e, f>> \in SortKeys(costs) <=> First(e, f)
    OBVIOUS
  <2> DEFINE pair == <<e, f>>
  <2>1. pair \in Edges \X Edges /\ pair[1] = e /\ pair[2] = f
    OBVIOUS
  <2> HIDE DEF pair
  <2>2. pair \in SortKeys(costs) <=>
          costs[e] < costs[f] \/ (costs[e] = costs[f] /\ Before(EdgeKey(e), EdgeKey(f)))
    BY <2>1, Zenon DEF SortKeys
  <2> QED
    BY <2>2, BeforeIsSmaller DEF pair
<1>2. \A e \in Edges : /\ e[1][1] \in Int /\ e[1][2] \in Int /\ e[2][1] \in Int /\ e[2][2] \in Int
                        /\ costs[e] \in Int /\ e = <<<<e[1][1], e[1][2]>>, <<e[2][1], e[2][2]>>>>
  BY EdgeParts, NodeParts
<1>3. Irreflexive(SortKeys(costs), Edges)
  BY <1>1, <1>2 DEF Irreflexive, Smaller
<1>4. ASSUME NEW e \in Edges, NEW f \in Edges, NEW g \in Edges, First(e, f), First(f, g)
      PROVE  First(e, g)
  BY <1>2, <1>4 DEF Smaller
<1>5. Transitive(SortKeys(costs), Edges)
  BY <1>1, <1>4 DEF Transitive
<1>6. ASSUME NEW e \in Edges, NEW f \in Edges, ~First(e, f), ~First(f, e)
      PROVE  e = f
  <2>1. e[1][1] = f[1][1] /\ e[2][1] = f[2][1] /\ e[1][2] = f[1][2] /\ e[2][2] = f[2][2]
    <3>0. /\ costs[e] \in Int /\ costs[f] \in Int
          /\ e[1][1] \in Int /\ e[1][2] \in Int /\ e[2][1] \in Int /\ e[2][2] \in Int
          /\ f[1][1] \in Int /\ f[1][2] \in Int /\ f[2][1] \in Int /\ f[2][2] \in Int
      BY <1>2
    <3> DEFINE x == costs[e]
               y == costs[f]
               ea == e[1][1]
               eb == e[1][2]
               ec == e[2][1]
               ed == e[2][2]
               fa == f[1][1]
               fb == f[1][2]
               fc == f[2][1]
               fd == f[2][2]
    <3>1. ~(x < y) /\ ~(y < x) => x = y
      <4> HIDE DEF x, y
      <4> QED
        BY <3>0 DEF x, y
    <3>2. ~Smaller(e, f) /\ ~Smaller(f, e)
      BY <1>6, <3>1
    <3>3. /\ ~(ea < fa) /\ ~(fa < ea)
          /\ ea = fa => ~(ec < fc) /\ ~(fc < ec)
          /\ ea = fa /\ ec = fc => ~(eb < fb) /\ ~(fb < eb)
          /\ ea = fa /\ ec = fc /\ eb = fb => ~(ed < fd) /\ ~(fd < ed)
      BY <3>2, Zenon DEF Smaller
    <3>4. \A i, j \in Int : ~(i < j) /\ ~(j < i) => i = j
      OBVIOUS
    <3>5. ea = fa /\ (ea = fa => ec = fc) /\ (ea = fa /\ ec = fc => eb = fb)
          /\ (ea = fa /\ ec = fc /\ eb = fb => ed = fd)
      BY <3>0, <3>3, <3>4, Zenon
    <3> QED
      BY <3>5, Zenon
  <2> QED
    BY <1>2, <2>1, Zenon
<1>7. Total(SortKeys(costs), Edges)
  BY <1>1, <1>6 DEF Total
<1> QED
  BY <1>3, <1>5, <1>7 DEF StrictOrder

\* The sorted pairs are all the pairs, by increasing costs.
LEMMA SortedByCost ==
    ASSUME NEW costs \in [Edges -> Nat]
    PROVE  /\ Sorted(costs) \in Seq(Edges)
           /\ \A e \in Edges : \E i \in 1 .. Len(Sorted(costs)) : Sorted(costs)[i] = e
           /\ \A i, j \in 1 .. Len(Sorted(costs)) :
                 i < j => costs[Sorted(costs)[i]] <= costs[Sorted(costs)[j]]
<1>1. PICK n \in Nat : /\ Sorted(costs) \in [1 .. n -> Edges]
                       /\ \A e \in Edges : \E i \in 1 .. n : Sorted(costs)[i] = e
                       /\ \A i, j \in 1 .. n :
                             i < j => <<Sorted(costs)[i], Sorted(costs)[j]>> \in SortKeys(costs)
  BY CostsAreOrdered, NodesAreFinite, InOrderSorts DEF Sorted
<1>2. Sorted(costs) \in Seq(Edges) /\ Len(Sorted(costs)) = n
  BY <1>1
<1>3. \A e, f \in Edges : <<e, f>> \in SortKeys(costs) => costs[e] <= costs[f]
  BY DEF SortKeys
<1> QED
  BY <1>1, <1>2, <1>3

-----------------------------------------------------------------------------
(* The greedy union, seen from node_track: two detections are together when  *)
(* they point at the same track.                                             *)

TrackSet == {x \in [1 .. ViewCount -> Nat] :
                \A w \in 1 .. ViewCount : x[w] \in Detection(w) \cup {Unassigned}}

TypesHold ==
    /\ pairCost \in [Edges -> Nat]
    /\ edges \in Seq(Edges)
    /\ tracks \in Seq(TrackSet)
    /\ activeTracks \subseteq 1 .. Len(tracks)
    /\ nodeTrack \in [Nodes -> 0 .. Len(tracks)]
    /\ apc \in {"merge", "ranked"}

\* A detection points at the track that holds it, and a track that was merged
\* away holds nothing.
HeldOnce ==
    \A n \in Nodes : \A t \in 1 .. Len(tracks) : tracks[t][n[1]] = n[2] <=> nodeTrack[n] = t
MergedAreEmpty ==
    \A t \in 1 .. Len(tracks) : t \notin activeTracks =>
        \A w \in 1 .. ViewCount : tracks[t][w] = Unassigned

Together(m, n) == nodeTrack[m] # NoTrack /\ nodeTrack[m] = nodeTrack[n]
Agree(m, n) == m[1] # n[1] /\ Cost(m, n) < Gate

\* Detections that are together agree, and every track that is left has two.
TogetherAgree == \A m, n \in Nodes : m # n /\ Together(m, n) => Agree(m, n)
TwoInEach ==
    \A t \in activeTracks :
        \E m, n \in Nodes : m # n /\ nodeTrack[m] = t /\ nodeTrack[n] = t

\* Two detections were placed for every track.
Placed == {n \in Nodes : nodeTrack[n] # NoTrack}
RoomIsLeft == 2 * Len(tracks) <= Cardinality(Placed)

UnionInv ==
    TypesHold /\ HeldOnce /\ MergedAreEmpty /\ TogetherAgree /\ TwoInEach /\ RoomIsLeft

LEMMA MembersOfTrack ==
    ASSUME NEW x \in TrackSet, NEW n
    PROVE  n \in Members(x) <=> n \in Nodes /\ x[n[1]] = n[2]
<1>0. Unassigned = 255
  BY DEF Unassigned
<1>1. ASSUME n \in Members(x) PROVE n \in Nodes /\ x[n[1]] = n[2]
  <2>1. PICK w \in 1 .. ViewCount : n = <<w, x[w]>> /\ x[w] # Unassigned
    BY <1>1 DEF Members
  <2>2. x[w] \in 1 .. CandidateCount[w] /\ CandidateCount[w] \in 0 .. 10
    BY <2>1, AssociationAssumption DEF TrackSet, Detection
  <2>3. n[1] = w /\ n[2] = x[w] /\ n \in (1 .. ViewCount) \X (1 .. 10) /\ x[w] <= CandidateCount[w]
    BY <2>1, <2>2
  <2> QED
    BY <2>3, Zenon DEF Nodes
<1>2. ASSUME n \in Nodes, x[n[1]] = n[2] PROVE n \in Members(x)
  <2>1. n = <<n[1], x[n[1]]>> /\ n[1] \in 1 .. ViewCount
    BY <1>2, NodeParts, Zenon
  <2>2. x[n[1]] # Unassigned
    BY <1>0, <1>2, NodeParts
  <2>3. n[1] \in {w \in 1 .. ViewCount : x[w] # Unassigned}
    BY <2>1, <2>2
  <2> QED
    BY <2>1, <2>3, Zenon DEF Members
<1> QED
  BY <1>1, <1>2

LEMMA MembersAreTogether ==
    ASSUME TypesHold, HeldOnce, NEW t \in 1 .. Len(tracks), NEW n
    PROVE  /\ tracks[t] \in TrackSet
           /\ n \in Members(tracks[t]) <=> n \in Nodes /\ nodeTrack[n] = t
<1>1. tracks[t] \in TrackSet
  BY DEF TypesHold
<1> QED
  BY <1>1, MembersOfTrack DEF HeldOnce

LEMMA ActiveHolds ==
    ASSUME TypesHold, HeldOnce, MergedAreEmpty, NEW n \in Nodes, nodeTrack[n] # NoTrack
    PROVE  nodeTrack[n] \in activeTracks /\ nodeTrack[n] \in 1 .. Len(tracks)
<1>1. nodeTrack[n] \in 0 .. Len(tracks) /\ Len(tracks) \in Nat
  BY DEF TypesHold
<1>2. nodeTrack[n] \in 1 .. Len(tracks)
  BY <1>1 DEF NoTrack
<1>3. tracks[nodeTrack[n]][n[1]] = n[2] /\ n[1] \in 1 .. ViewCount /\ n[2] # Unassigned
  BY <1>2, NodeParts DEF HeldOnce, Unassigned
<1> QED
  BY <1>2, <1>3 DEF MergedAreEmpty

LEMMA CostIsSymmetric ==
    ASSUME NEW m \in Nodes, NEW n \in Nodes, m[1] # n[1], TypesHold
    PROVE  /\ Cost(m, n) = Cost(n, m) /\ Cost(m, n) \in Nat
           /\ m[1] < n[1] => <<m, n>> \in Edges /\ Cost(m, n) = pairCost[<<m, n>>]
<1>1. m[1] \in Int /\ n[1] \in Int
  BY NodeParts
<1>2. (m[1] < n[1] /\ ~(n[1] < m[1])) \/ (n[1] < m[1] /\ ~(m[1] < n[1]))
  BY <1>1
<1>3. m[1] < n[1] => <<m, n>> \in Edges
  BY DEF Edges
<1>4. n[1] < m[1] => <<n, m>> \in Edges
  BY DEF Edges
<1> QED
  BY <1>2, <1>3, <1>4 DEF Cost, TypesHold

\* What a turn of the loop does with the pair a, b.
Started(a, b) ==
    /\ nodeTrack[a] = NoTrack /\ nodeTrack[b] = NoTrack
    /\ tracks' = Append(tracks, [EmptyTrack EXCEPT ![a[1]] = a[2], ![b[1]] = b[2]])
    /\ activeTracks' = activeTracks \cup {Len(tracks) + 1}
    /\ nodeTrack' = [nodeTrack EXCEPT ![a] = Len(tracks) + 1, ![b] = Len(tracks) + 1]

Attached(m, n) ==
    /\ nodeTrack[m] # NoTrack /\ nodeTrack[n] = NoTrack
    /\ NodeCompatible(tracks[nodeTrack[m]], n)
    /\ tracks' = [tracks EXCEPT ![nodeTrack[m]][n[1]] = n[2]]
    /\ nodeTrack' = [nodeTrack EXCEPT ![n] = nodeTrack[m]]
    /\ activeTracks' = activeTracks

United(s, t) ==
    /\ s # t /\ s \in activeTracks /\ t \in activeTracks
    /\ TracksCompatible(tracks[s], tracks[t])
    /\ tracks' = [tracks EXCEPT
            ![s] = [view \in 1 .. ViewCount |->
                      IF tracks[t][view] # Unassigned THEN tracks[t][view] ELSE tracks[s][view]],
            ![t] = EmptyTrack]
    /\ activeTracks' = activeTracks \ {t}
    /\ nodeTrack' = [n \in Nodes |-> IF n \in Members(tracks[t]) THEN s ELSE nodeTrack[n]]

\* The pair is refused: it was together, or some of what is together with one
\* and with the other does not agree.
Refused(a, b) ==
    /\ UNCHANGED <<tracks, activeTracks, nodeTrack>>
    /\ \/ Together(a, b)
       \/ \E m, n \in Nodes :
             /\ m = a \/ Together(m, a)
             /\ n = b \/ Together(n, b)
             /\ ~Agree(m, n)

LEMMA NoSlotIsMissing ==
    ASSUME UnionInv, NEW a \in Nodes, NEW b \in Nodes, a # b,
           nodeTrack[a] = NoTrack, nodeTrack[b] = NoTrack
    PROVE  Len(tracks) < MaxTracks
<1> DEFINE Others == (Nodes \ {a}) \ {b}
<1>1. IsFiniteSet(Others) /\ Cardinality(Others) = Cardinality(Nodes) - 2
  <2>1. IsFiniteSet(Nodes \ {a}) /\ Cardinality(Nodes \ {a}) = Cardinality(Nodes) - 1
    BY NodesAreFinite, FS_RemoveElement
  <2>2. IsFiniteSet(Others) /\ Cardinality(Others) = Cardinality(Nodes \ {a}) - 1
    BY <2>1, FS_RemoveElement
  <2> QED
    BY <2>1, <2>2, NodesAreFinite
<1>2. Placed \in SUBSET Others
  BY DEF Placed
<1>3. Cardinality(Placed) <= Cardinality(Others)
  BY <1>1, <1>2, FS_Subset
<1>4. Len(tracks) \in Nat /\ IsFiniteSet(Placed) /\ Cardinality(Placed) \in Nat
  BY <1>1, <1>2, FS_Subset, FS_CardinalityType DEF UnionInv, TypesHold
<1>5. MaxTracks \in Nat /\ 5 * ViewCount <= MaxTracks
  BY AssociationAssumption
<1> HIDE DEF Others
<1> QED
  BY <1>1, <1>3, <1>4, <1>5, NodesAreFinite DEF UnionInv, RoomIsLeft

LEMMA MergeKinds ==
    ASSUME UnionInv, Merge
    PROVE  \E a, b \in Nodes :
              /\ Head(edges) = <<a, b>> /\ a[1] < b[1] /\ pairCost[<<a, b>>] < Gate
              /\ \/ Started(a, b)
                 \/ Attached(a, b)
                 \/ Attached(b, a)
                 \/ /\ nodeTrack[a] # NoTrack /\ nodeTrack[b] # NoTrack
                    /\ United(nodeTrack[a], nodeTrack[b])
                 \/ Refused(a, b)
<1> USE DEF UnionInv
<1>1. edges # << >> /\ Head(edges) \in Edges /\ pairCost[Head(edges)] < Gate
  BY DEF Merge, EdgeUnderGate, TypesHold
<1> DEFINE a == Head(edges)[1]
           b == Head(edges)[2]
<1>2. Head(edges) = <<a, b>> /\ a \in Nodes /\ b \in Nodes /\ a[1] < b[1]
  BY <1>1, EdgeParts
<1>3. a[1] # b[1] /\ a # b
  BY <1>2, NodeParts
<1>4. /\ nodeTrack[a] = NoTrack /\ nodeTrack[b] = NoTrack => StartTrack(a, b)
      /\ nodeTrack[a] # NoTrack /\ nodeTrack[b] = NoTrack => JoinTrack(nodeTrack[a], b)
      /\ nodeTrack[a] = NoTrack /\ nodeTrack[b] # NoTrack => JoinTrack(nodeTrack[b], a)
      /\ nodeTrack[a] # NoTrack /\ nodeTrack[b] # NoTrack => Unite(nodeTrack[a], nodeTrack[b])
  BY DEF Merge
<1> HIDE DEF a, b
\* What a track refuses is a detection that does not agree with all of it.
<1>5. ASSUME NEW m \in Nodes, NEW n \in Nodes, nodeTrack[m] # NoTrack,
             ~NodeCompatible(tracks[nodeTrack[m]], n)
      PROVE  \E k \in Nodes : (k = m \/ Together(k, m)) /\ ~Agree(k, n) /\ ~Agree(n, k)
  <2> DEFINE t == nodeTrack[m]
  <2>1. t \in 1 .. Len(tracks)
    BY <1>5, ActiveHolds
  <2>2. tracks[t] \in TrackSet /\ n[1] \in 1 .. ViewCount
    BY <2>1, MembersAreTogether, NodeParts
  <2>3. CASE tracks[t][n[1]] # Unassigned
    <3>1. <<n[1], tracks[t][n[1]]>> \in Members(tracks[t])
      BY <2>2, <2>3 DEF Members
    <3> DEFINE k == <<n[1], tracks[t][n[1]]>>
    <3>2. k \in Nodes /\ nodeTrack[k] = t /\ k[1] = n[1]
      BY <2>1, <3>1, MembersAreTogether
    <3> QED
      BY <1>5, <3>2 DEF Together, Agree
  <2>4. CASE tracks[t][n[1]] = Unassigned
    <3>1. PICK k \in Members(tracks[t]) : ~(Cost(k, n) < Gate)
      BY <1>5, <2>4 DEF NodeCompatible
    <3>2. k \in Nodes /\ nodeTrack[k] = t
      BY <2>1, <3>1, MembersAreTogether
    <3>3. ~Agree(k, n) /\ ~Agree(n, k)
      BY <3>1, <3>2, CostIsSymmetric DEF Agree
    <3> QED
      BY <1>5, <3>2, <3>3 DEF Together
  <2> QED
    BY <2>3, <2>4
<1>6. CASE nodeTrack[a] = NoTrack /\ nodeTrack[b] = NoTrack
  <2>1. StartTrack(a, b)
    BY <1>4, <1>6
  <2>2. Len(tracks) < MaxTracks
    BY <1>2, <1>3, <1>6, NoSlotIsMissing
  <2>3. ~(Len(tracks) >= MaxTracks)
    BY <2>2, AssociationAssumption DEF TypesHold
  <2>4. Started(a, b)
    BY <1>6, <2>1, <2>3 DEF StartTrack, Started
  <2> QED
    BY <1>1, <1>2, <2>4
<1>7. CASE nodeTrack[a] # NoTrack /\ nodeTrack[b] = NoTrack
  <2>1. JoinTrack(nodeTrack[a], b)
    BY <1>4, <1>7
  <2>2. Attached(a, b) \/ Refused(a, b)
    BY <1>2, <1>5, <1>7, <2>1 DEF JoinTrack, Attached, Refused
  <2> QED
    BY <1>1, <1>2, <2>2
<1>8. CASE nodeTrack[a] = NoTrack /\ nodeTrack[b] # NoTrack
  <2>1. JoinTrack(nodeTrack[b], a)
    BY <1>4, <1>8
  <2>2. Attached(b, a) \/ Refused(a, b)
    BY <1>2, <1>5, <1>8, <2>1 DEF JoinTrack, Attached, Refused
  <2> QED
    BY <1>1, <1>2, <2>2
<1>9. CASE nodeTrack[a] # NoTrack /\ nodeTrack[b] # NoTrack
  <2> DEFINE s == nodeTrack[a]
             t == nodeTrack[b]
  <2>1. Unite(s, t)
    BY <1>4, <1>9
  <2>2. s \in activeTracks /\ t \in activeTracks /\ s \in 1 .. Len(tracks) /\ t \in 1 .. Len(tracks)
    BY <1>2, <1>9, ActiveHolds
  <2>3. CASE s = t
    BY <1>1, <1>2, <1>9, <2>1, <2>3 DEF Unite, Refused, Together
  <2>4. CASE s # t /\ TracksCompatible(tracks[s], tracks[t])
    <3>1. United(s, t)
      BY <2>1, <2>2, <2>4 DEF Unite, United
    <3> QED
      BY <1>1, <1>2, <1>9, <3>1
  <2>5. CASE s # t /\ ~TracksCompatible(tracks[s], tracks[t])
    <3>1. PICK m \in Members(tracks[s]) :
              \/ tracks[t][m[1]] # Unassigned
              \/ \E n \in Members(tracks[t]) : ~(Cost(m, n) < Gate)
      BY <2>5 DEF TracksCompatible
    <3>2. m \in Nodes /\ Together(m, a) /\ m[1] \in 1 .. ViewCount
      BY <1>9, <2>2, <3>1, MembersAreTogether, NodeParts DEF Together
    <3>3. \E n \in Members(tracks[t]) : ~Agree(m, n)
      <4>1. CASE tracks[t][m[1]] # Unassigned
        <5>1. <<m[1], tracks[t][m[1]]>> \in Members(tracks[t])
          BY <3>2, <4>1 DEF Members
        <5> QED
          BY <5>1 DEF Agree
      <4>2. CASE \E n \in Members(tracks[t]) : ~(Cost(m, n) < Gate)
        BY <4>2 DEF Agree
      <4> QED
        BY <3>1, <4>1, <4>2
    <3>4. PICK n \in Members(tracks[t]) : ~Agree(m, n)
      BY <3>3
    <3>5. n \in Nodes /\ Together(n, b)
      BY <1>9, <2>2, <3>4, MembersAreTogether DEF Together
    <3>6. UNCHANGED <<tracks, activeTracks, nodeTrack>>
      BY <2>1, <2>5 DEF Unite
    <3>7. Refused(a, b)
      BY <3>2, <3>4, <3>5, <3>6 DEF Refused
    <3> QED
      BY <1>1, <1>2, <3>7
  <2> QED
    BY <2>3, <2>4, <2>5
<1> QED
  BY <1>6, <1>7, <1>8, <1>9

-----------------------------------------------------------------------------
(* Each kind of turn keeps the invariant, and what is together stays so. *)

Grows == \A m, n \in Nodes : Together(m, n) => nodeTrack'[m] # NoTrack /\ nodeTrack'[m] = nodeTrack'[n]

LEMMA StartedKeeps ==
    ASSUME UnionInv, NEW a \in Nodes, NEW b \in Nodes, a[1] < b[1],
           pairCost[<<a, b>>] < Gate, Started(a, b), UNCHANGED <<pairCost, apc>>,
           edges' \in Seq(Edges)
    PROVE  UnionInv' /\ Grows /\ Together(a, b)'
<1> DEFINE k == Len(tracks) + 1
           new == [EmptyTrack EXCEPT ![a[1]] = a[2], ![b[1]] = b[2]]
<1> USE DEF UnionInv
<1>1. /\ Len(tracks) \in Nat /\ k \in Nat /\ k # NoTrack /\ k # 0
      /\ a # b /\ a[1] # b[1] /\ a[1] \in 1 .. ViewCount /\ b[1] \in 1 .. ViewCount
  BY NodeParts DEF TypesHold, NoTrack
<1>2. new \in TrackSet /\ \A w \in 1 .. ViewCount :
          new[w] = IF w = b[1] THEN b[2] ELSE IF w = a[1] THEN a[2] ELSE Unassigned
  <2>1. /\ a[2] \in Detection(a[1]) /\ a[2] \in Nat /\ b[2] \in Detection(b[1]) /\ b[2] \in Nat
        /\ Unassigned \in Nat
    <3>1. Unassigned \in Nat
      BY DEF Unassigned
    <3> QED
      BY <3>1, NodeParts
  <2>2. new = [w \in 1 .. ViewCount |->
                  IF w = b[1] THEN b[2] ELSE IF w = a[1] THEN a[2] ELSE Unassigned]
    BY <1>1 DEF EmptyTrack
  <2> HIDE DEF new
  <2>3. \A w \in 1 .. ViewCount : /\ new[w] = IF w = b[1] THEN b[2] ELSE IF w = a[1] THEN a[2] ELSE Unassigned
                                  /\ new[w] \in Nat /\ new[w] \in Detection(w) \cup {Unassigned}
    BY <2>1, <2>2
  <2>4. new \in [1 .. ViewCount -> Nat]
    BY <2>2, <2>3
  <2> QED
    BY <2>3, <2>4 DEF TrackSet
<1>3. \A n \in Nodes : new[n[1]] = n[2] <=> n = a \/ n = b
  <2> SUFFICES ASSUME NEW n \in Nodes PROVE new[n[1]] = n[2] <=> n = a \/ n = b
    OBVIOUS
  <2>1. n[1] \in 1 .. ViewCount /\ n[2] # Unassigned
    BY NodeParts
  <2>2. n = <<n[1], n[2]>> /\ a = <<a[1], a[2]>> /\ b = <<b[1], b[2]>>
    BY NodeParts, Zenon
  <2> QED
    BY <1>1, <1>2, <2>1, <2>2
<1>4. /\ tracks' \in Seq(TrackSet) /\ Len(tracks') = k /\ tracks'[k] = new
      /\ \A t \in 1 .. Len(tracks) : tracks'[t] = tracks[t]
      /\ tracks' = Append(tracks, new)
  BY <1>2 DEF Started, TypesHold
<1> HIDE DEF new
<1>5. nodeTrack' = [nodeTrack EXCEPT ![a] = k, ![b] = k]
  BY DEF Started
<1>6. /\ nodeTrack' \in [Nodes -> 0 .. k]
      /\ \A n \in Nodes : nodeTrack'[n] = IF n = a \/ n = b THEN k ELSE nodeTrack[n]
      /\ \A n \in Nodes : nodeTrack[n] # k /\ nodeTrack[n] \in 0 .. Len(tracks)
  <2>1. nodeTrack \in [Nodes -> 0 .. Len(tracks)]
    BY DEF TypesHold
  <2>2. \A n \in Nodes : nodeTrack[n] \in 0 .. Len(tracks) /\ nodeTrack[n] \in 0 .. k /\ nodeTrack[n] # k
    BY <1>1, <2>1
  <2>3. nodeTrack' = [n \in Nodes |-> IF n = a \/ n = b THEN k ELSE nodeTrack[n]] /\ k \in 0 .. k
    <3>1. k \in 0 .. k
      BY <1>1
    <3> HIDE DEF k
    <3> QED
      BY <1>5, <2>1, <3>1
  <2> HIDE DEF k
  <2> QED
    BY <2>2, <2>3
<1>7. TypesHold'
  <2>1. activeTracks' \subseteq 1 .. k
    <3>1. activeTracks \subseteq 1 .. Len(tracks)
      BY DEF TypesHold
    <3>2. activeTracks' = activeTracks \cup {k}
      BY DEF Started
    <3>3. 1 .. Len(tracks) \subseteq 1 .. k /\ k \in 1 .. k
      BY <1>1
    <3> HIDE DEF k
    <3> QED
      BY <3>1, <3>2, <3>3
  <2> QED
    BY <1>4, <1>6, <2>1 DEF TypesHold
<1>8. HeldOnce'
  <2> SUFFICES ASSUME NEW n \in Nodes, NEW t \in 1 .. k
               PROVE  tracks'[t][n[1]] = n[2] <=> nodeTrack'[n] = t
    BY <1>4 DEF HeldOnce
  <2>1. CASE t = k
    BY <1>3, <1>4, <1>6, <2>1
  <2>2. CASE t # k
    <3>1. t \in 1 .. Len(tracks) /\ tracks'[t] = tracks[t]
      BY <1>1, <1>4, <2>2
    <3>2. nodeTrack[a] = 0 /\ nodeTrack[b] = 0 /\ t # 0
      BY <3>1 DEF Started, NoTrack
    <3> QED
      BY <1>6, <2>2, <3>1, <3>2 DEF HeldOnce
  <2> QED
    BY <2>1, <2>2
<1>9. MergedAreEmpty'
  <2> SUFFICES ASSUME NEW t \in 1 .. k, t \notin activeTracks', NEW w \in 1 .. ViewCount
               PROVE  tracks'[t][w] = Unassigned
    BY <1>4 DEF MergedAreEmpty
  <2>1. t \in 1 .. Len(tracks) /\ t \notin activeTracks
    BY <1>1 DEF Started
  <2> QED
    BY <1>4, <2>1 DEF MergedAreEmpty
<1>10. \A m, n : Cost(m, n)' = Cost(m, n)
  BY DEF Cost
<1>11. Cost(a, b) < Gate /\ Cost(b, a) < Gate
  BY <1>1, CostIsSymmetric
<1>12. \A m, n \in Nodes : nodeTrack[m] # NoTrack /\ nodeTrack[m] = nodeTrack[n] => m # a /\ m # b /\ n # a /\ n # b
  BY DEF Started
<1>13. TogetherAgree'
  BY <1>1, <1>6, <1>10, <1>11 DEF TogetherAgree, Together, Agree
<1>14. Grows /\ Together(a, b)'
  BY <1>1, <1>6, <1>12 DEF Grows, Together
<1>15. TwoInEach'
  <2> SUFFICES ASSUME NEW t \in activeTracks'
               PROVE  \E m, n \in Nodes : m # n /\ nodeTrack'[m] = t /\ nodeTrack'[n] = t
    BY DEF TwoInEach
  <2>1. CASE t = k
    BY <1>1, <1>6, <2>1
  <2>2. CASE t # k
    <3>1. t \in activeTracks /\ t # NoTrack
      BY <2>2 DEF Started, TypesHold, NoTrack
    <3>2. PICK m, n \in Nodes : m # n /\ nodeTrack[m] = t /\ nodeTrack[n] = t
      BY <3>1 DEF TwoInEach
    <3> QED
      BY <1>6, <1>12, <3>1, <3>2
  <2> QED
    BY <2>1, <2>2
<1>16. RoomIsLeft'
  <2>1. Placed \in SUBSET Nodes /\ a \notin Placed /\ b \notin Placed
    BY DEF Placed, Started
  <2>2. Placed' = (Placed \cup {a}) \cup {b}
    BY <1>1, <1>6 DEF Placed
  <2>3. IsFiniteSet(Placed) /\ Cardinality(Placed) \in Nat
    BY <2>1, NodesAreFinite, FS_Subset, FS_CardinalityType
  <2>4. IsFiniteSet(Placed \cup {a}) /\ Cardinality(Placed \cup {a}) = Cardinality(Placed) + 1
    BY <2>1, <2>3, FS_AddElement
  <2>5. Cardinality(Placed') = Cardinality(Placed) + 2
    <3>1. b \notin Placed \cup {a}
      BY <1>1, <2>1
    <3>2. Cardinality(Placed') = Cardinality(Placed \cup {a}) + 1
      BY <2>2, <2>4, <3>1, FS_AddElement
    <3> QED
      BY <2>3, <2>4, <3>2
  <2> QED
    BY <1>1, <1>4, <2>3, <2>5 DEF RoomIsLeft
<1> QED
  BY <1>7, <1>8, <1>9, <1>13, <1>14, <1>15, <1>16

LEMMA AttachedKeeps ==
    ASSUME UnionInv, NEW a \in Nodes, NEW n \in Nodes, Attached(a, n),
           UNCHANGED <<pairCost, apc>>, edges' \in Seq(Edges)
    PROVE  UnionInv' /\ Grows /\ Together(a, n)'
<1> DEFINE k == nodeTrack[a]
           new == [tracks[k] EXCEPT ![n[1]] = n[2]]
<1> USE DEF UnionInv
<1>1. /\ Len(tracks) \in Nat /\ k \in 1 .. Len(tracks) /\ k \in activeTracks /\ k # NoTrack /\ k # 0
      /\ a # n /\ n[1] \in 1 .. ViewCount /\ tracks[k] \in TrackSet
  BY NodeParts, ActiveHolds, MembersAreTogether DEF TypesHold, NoTrack, Attached
<1>2. /\ tracks[k][n[1]] = Unassigned
      /\ \A m \in Nodes : nodeTrack[m] = k => Cost(m, n) < Gate
  BY <1>1, MembersAreTogether DEF Attached, NodeCompatible
<1>3. new \in TrackSet /\ \A w \in 1 .. ViewCount : new[w] = IF w = n[1] THEN n[2] ELSE tracks[k][w]
  <2>1. n[2] \in Detection(n[1]) /\ n[2] \in Nat
    BY NodeParts
  <2>2. new = [w \in 1 .. ViewCount |-> IF w = n[1] THEN n[2] ELSE tracks[k][w]]
    BY <1>1 DEF TrackSet
  <2> HIDE DEF new
  <2>3. \A w \in 1 .. ViewCount : /\ new[w] = IF w = n[1] THEN n[2] ELSE tracks[k][w]
                                  /\ new[w] \in Nat /\ new[w] \in Detection(w) \cup {Unassigned}
    BY <1>1, <2>1, <2>2 DEF TrackSet
  <2>4. new \in [1 .. ViewCount -> Nat]
    BY <2>2, <2>3
  <2> QED
    BY <2>3, <2>4 DEF TrackSet
<1>4. \A m \in Nodes : nodeTrack[m] = k => m[1] # n[1]
  <2> SUFFICES ASSUME NEW m \in Nodes, nodeTrack[m] = k, m[1] = n[1] PROVE FALSE
    OBVIOUS
  <2>1. m[2] # Unassigned
    BY NodeParts
  <2>2. tracks[k][m[1]] = m[2]
    BY <1>1 DEF HeldOnce
  <2> QED
    BY <1>2, <2>1, <2>2
<1>5. \A m \in Nodes : new[m[1]] = m[2] <=> m = n \/ nodeTrack[m] = k
  <2> SUFFICES ASSUME NEW m \in Nodes PROVE new[m[1]] = m[2] <=> m = n \/ nodeTrack[m] = k
    OBVIOUS
  <2>1. m[1] \in 1 .. ViewCount
    BY NodeParts
  <2>2. m = <<m[1], m[2]>> /\ n = <<n[1], n[2]>>
    BY NodeParts, Zenon
  <2>3. tracks[k][m[1]] = m[2] <=> nodeTrack[m] = k
    BY <1>1 DEF HeldOnce
  <2> QED
    BY <1>3, <1>4, <2>1, <2>2, <2>3
<1>6. /\ tracks' \in Seq(TrackSet) /\ Len(tracks') = Len(tracks) /\ tracks'[k] = new
      /\ \A t \in 1 .. Len(tracks) : t # k => tracks'[t] = tracks[t]
  <2>1. tracks' = [tracks EXCEPT ![k] = new]
    BY DEF Attached
  <2> HIDE DEF new
  <2> QED
    BY <1>1, <1>3, <2>1 DEF TypesHold
<1> HIDE DEF new
<1>7. /\ nodeTrack' \in [Nodes -> 0 .. Len(tracks)]
      /\ \A m \in Nodes : nodeTrack'[m] = IF m = n THEN k ELSE nodeTrack[m]
      /\ nodeTrack[n] = 0
  BY <1>1 DEF TypesHold, Attached, NoTrack
<1>8. TypesHold'
  BY <1>1, <1>6, <1>7 DEF TypesHold, Attached
<1>9. HeldOnce'
  <2> SUFFICES ASSUME NEW m \in Nodes, NEW t \in 1 .. Len(tracks)
               PROVE  tracks'[t][m[1]] = m[2] <=> nodeTrack'[m] = t
    BY <1>6 DEF HeldOnce
  <2>1. CASE t = k
    BY <1>5, <1>6, <1>7, <2>1
  <2>2. CASE t # k
    <3>1. tracks'[t] = tracks[t] /\ (tracks[t][m[1]] = m[2] <=> nodeTrack[m] = t) /\ t # 0
      BY <1>6, <2>2 DEF HeldOnce
    <3> QED
      BY <1>7, <2>2, <3>1
  <2> QED
    BY <2>1, <2>2
<1>10. MergedAreEmpty'
  <2> SUFFICES ASSUME NEW t \in 1 .. Len(tracks), t \notin activeTracks, NEW w \in 1 .. ViewCount
               PROVE  tracks'[t][w] = Unassigned
    BY <1>6 DEF MergedAreEmpty, Attached
  <2> QED
    BY <1>1, <1>6 DEF MergedAreEmpty
<1>11. \A m, l : Cost(m, l)' = Cost(m, l)
  BY DEF Cost
<1>12. TogetherAgree'
  <2> SUFFICES ASSUME NEW m \in Nodes, NEW l \in Nodes, m # l, nodeTrack'[m] # NoTrack,
                      nodeTrack'[m] = nodeTrack'[l]
               PROVE  m[1] # l[1] /\ Cost(m, l) < Gate
    BY <1>11 DEF TogetherAgree, Together, Agree
  <2>1. CASE m # n /\ l # n
    BY <1>7, <2>1 DEF TogetherAgree, Together, Agree
  <2>2. CASE m = n
    BY <1>2, <1>4, <1>7, <2>2, CostIsSymmetric
  <2>3. CASE l = n
    BY <1>2, <1>4, <1>7, <2>3
  <2> QED
    BY <2>1, <2>2, <2>3
<1>13. Grows /\ Together(a, n)'
  BY <1>1, <1>7 DEF Grows, Together, NoTrack
<1>14. TwoInEach'
  <2> SUFFICES ASSUME NEW t \in activeTracks
               PROVE  \E m, l \in Nodes : m # l /\ nodeTrack'[m] = t /\ nodeTrack'[l] = t
    BY DEF TwoInEach, Attached
  <2>1. PICK m, l \in Nodes : m # l /\ nodeTrack[m] = t /\ nodeTrack[l] = t
    BY DEF TwoInEach
  <2>2. t # 0
    BY DEF TypesHold
  <2> QED
    BY <1>7, <2>1, <2>2
<1>15. RoomIsLeft'
  <2>1. Placed \in SUBSET Nodes /\ n \notin Placed
    BY <1>7 DEF Placed, NoTrack
  <2>2. Placed' = Placed \cup {n}
    BY <1>1, <1>7 DEF Placed
  <2>3. IsFiniteSet(Placed) /\ Cardinality(Placed) \in Nat
    BY <2>1, NodesAreFinite, FS_Subset, FS_CardinalityType
  <2>4. Cardinality(Placed') = Cardinality(Placed) + 1
    BY <2>1, <2>2, <2>3, FS_AddElement
  <2> QED
    BY <1>1, <1>6, <2>3, <2>4 DEF RoomIsLeft
<1> QED
  BY <1>8, <1>9, <1>10, <1>12, <1>13, <1>14, <1>15

LEMMA UnitedKeeps ==
    ASSUME UnionInv, NEW a \in Nodes, NEW b \in Nodes, nodeTrack[a] # NoTrack, nodeTrack[b] # NoTrack,
           United(nodeTrack[a], nodeTrack[b]), UNCHANGED <<pairCost, apc>>, edges' \in Seq(Edges)
    PROVE  UnionInv' /\ Grows /\ Together(a, b)'
<1> DEFINE s == nodeTrack[a]
           t == nodeTrack[b]
           new == [view \in 1 .. ViewCount |->
                      IF tracks[t][view] # Unassigned THEN tracks[t][view] ELSE tracks[s][view]]
<1> USE DEF UnionInv
<1>1. /\ Len(tracks) \in Nat /\ s \in 1 .. Len(tracks) /\ t \in 1 .. Len(tracks)
      /\ s # t /\ s \in activeTracks /\ t \in activeTracks /\ s # NoTrack /\ t # NoTrack
      /\ tracks[s] \in TrackSet /\ tracks[t] \in TrackSet
  BY ActiveHolds, MembersAreTogether DEF TypesHold, United
<1>2. \A m, n \in Nodes : nodeTrack[m] = s /\ nodeTrack[n] = t => m[1] # n[1] /\ Cost(m, n) < Gate
  <2> SUFFICES ASSUME NEW m \in Nodes, NEW n \in Nodes, nodeTrack[m] = s, nodeTrack[n] = t
               PROVE  m[1] # n[1] /\ Cost(m, n) < Gate
    OBVIOUS
  <2>1. m \in Members(tracks[s]) /\ n \in Members(tracks[t])
    BY <1>1, MembersAreTogether
  <2>2. tracks[t][m[1]] = Unassigned /\ Cost(m, n) < Gate
    BY <2>1 DEF United, TracksCompatible
  <2>3. n[2] # Unassigned
    BY NodeParts
  <2>4. tracks[t][n[1]] = n[2]
    BY <1>1 DEF HeldOnce
  <2> QED
    BY <2>2, <2>3, <2>4
<1>3. new \in TrackSet
  BY <1>1 DEF TrackSet
<1>4. \A m \in Nodes : new[m[1]] = m[2] <=> nodeTrack[m] = s \/ nodeTrack[m] = t
  <2> SUFFICES ASSUME NEW m \in Nodes
               PROVE  new[m[1]] = m[2] <=> nodeTrack[m] = s \/ nodeTrack[m] = t
    OBVIOUS
  <2>1. m[1] \in 1 .. ViewCount /\ m[2] # Unassigned
    BY NodeParts
  <2>2. /\ tracks[s][m[1]] = m[2] <=> nodeTrack[m] = s
        /\ tracks[t][m[1]] = m[2] <=> nodeTrack[m] = t
    BY <1>1 DEF HeldOnce
  <2>3. CASE tracks[t][m[1]] # Unassigned
    <3>1. new[m[1]] = tracks[t][m[1]]
      BY <2>1, <2>3
    <3> DEFINE n == <<m[1], tracks[t][m[1]]>>
    <3>2. n \in Members(tracks[t])
      BY <2>1, <2>3 DEF Members
    <3>3. n \in Nodes /\ nodeTrack[n] = t /\ n[1] = m[1]
      BY <1>1, <3>2, MembersAreTogether
    <3>4. nodeTrack[m] # s
      BY <1>2, <3>3
    <3> QED
      BY <2>2, <3>1, <3>4
  <2>4. CASE tracks[t][m[1]] = Unassigned
    <3>1. new[m[1]] = tracks[s][m[1]]
      BY <2>1, <2>4
    <3> QED
      BY <2>1, <2>2, <2>4, <3>1
  <2> QED
    BY <2>3, <2>4
<1>5. /\ tracks' \in Seq(TrackSet) /\ Len(tracks') = Len(tracks)
      /\ tracks'[s] = new /\ tracks'[t] = EmptyTrack
      /\ \A r \in 1 .. Len(tracks) : r # s /\ r # t => tracks'[r] = tracks[r]
  <2>1. tracks' = [tracks EXCEPT ![s] = new, ![t] = EmptyTrack]
    BY DEF United
  <2>2. EmptyTrack \in TrackSet
    BY DEF EmptyTrack, TrackSet, Unassigned
  <2> HIDE DEF new
  <2> QED
    BY <1>1, <1>3, <2>1, <2>2 DEF TypesHold
<1> HIDE DEF new
<1>6. /\ nodeTrack' \in [Nodes -> 0 .. Len(tracks)]
      /\ \A m \in Nodes : nodeTrack'[m] = IF nodeTrack[m] = t THEN s ELSE nodeTrack[m]
  <2>1. nodeTrack' = [n \in Nodes |-> IF n \in Members(tracks[t]) THEN s ELSE nodeTrack[n]]
    BY DEF United
  <2>2. \A n \in Nodes : n \in Members(tracks[t]) <=> nodeTrack[n] = t
    BY <1>1, MembersAreTogether
  <2>3. s \in 0 .. Len(tracks) /\ \A n \in Nodes : nodeTrack[n] \in 0 .. Len(tracks)
    BY <1>1 DEF TypesHold
  <2> QED
    BY <2>1, <2>2, <2>3
<1>7. activeTracks' = activeTracks \ {t}
  BY DEF United
<1>8. TypesHold'
  BY <1>1, <1>5, <1>6, <1>7 DEF TypesHold
<1>9. HeldOnce'
  <2> SUFFICES ASSUME NEW m \in Nodes, NEW r \in 1 .. Len(tracks)
               PROVE  tracks'[r][m[1]] = m[2] <=> nodeTrack'[m] = r
    BY <1>5 DEF HeldOnce
  <2>1. CASE r = s
    BY <1>1, <1>4, <1>5, <1>6, <2>1
  <2>2. CASE r = t
    <3>1. m[1] \in 1 .. ViewCount /\ m[2] # Unassigned
      BY NodeParts
    <3>2. tracks'[r][m[1]] # m[2]
      BY <1>5, <2>2, <3>1 DEF EmptyTrack
    <3> QED
      BY <1>1, <1>6, <2>2, <3>2
  <2>3. CASE r # s /\ r # t
    <3>1. tracks'[r] = tracks[r] /\ (tracks[r][m[1]] = m[2] <=> nodeTrack[m] = r)
      BY <1>5, <2>3 DEF HeldOnce
    <3> QED
      BY <1>6, <2>3, <3>1
  <2> QED
    BY <2>1, <2>2, <2>3
<1>10. MergedAreEmpty'
  <2> SUFFICES ASSUME NEW r \in 1 .. Len(tracks), r \notin activeTracks', NEW w \in 1 .. ViewCount
               PROVE  tracks'[r][w] = Unassigned
    BY <1>5 DEF MergedAreEmpty
  <2>1. CASE r = t
    BY <1>5, <2>1 DEF EmptyTrack
  <2>2. CASE r # t
    BY <1>1, <1>5, <1>7, <2>2 DEF MergedAreEmpty
  <2> QED
    BY <2>1, <2>2
<1>11. \A m, n : Cost(m, n)' = Cost(m, n)
  BY DEF Cost
<1>12. TogetherAgree'
  <2> SUFFICES ASSUME NEW m \in Nodes, NEW n \in Nodes, m # n, nodeTrack'[m] # NoTrack,
                      nodeTrack'[m] = nodeTrack'[n]
               PROVE  m[1] # n[1] /\ Cost(m, n) < Gate
    BY <1>11 DEF TogetherAgree, Together, Agree
  <2>1. CASE nodeTrack[m] = nodeTrack[n]
    <3>1. nodeTrack[m] # NoTrack
      BY <1>1, <1>6, <2>1
    <3> QED
      BY <2>1, <3>1 DEF TogetherAgree, Together, Agree
  <2>2. CASE nodeTrack[m] # nodeTrack[n]
    <3>1. \/ nodeTrack[m] = s /\ nodeTrack[n] = t
          \/ nodeTrack[m] = t /\ nodeTrack[n] = s
      BY <1>6, <2>2
    <3> QED
      BY <1>2, <3>1, CostIsSymmetric
  <2> QED
    BY <2>1, <2>2
<1>13. Grows /\ Together(a, b)'
  BY <1>1, <1>6 DEF Grows, Together
<1>14. TwoInEach'
  <2> SUFFICES ASSUME NEW r \in activeTracks, r # t
               PROVE  \E m, n \in Nodes : m # n /\ nodeTrack'[m] = r /\ nodeTrack'[n] = r
    BY <1>7 DEF TwoInEach
  <2>1. PICK m, n \in Nodes : m # n /\ nodeTrack[m] = r /\ nodeTrack[n] = r
    BY DEF TwoInEach
  <2> QED
    BY <1>6, <2>1
<1>15. RoomIsLeft'
  <2>1. Placed' = Placed
    BY <1>1, <1>6 DEF Placed
  <2> QED
    BY <1>5, <2>1 DEF RoomIsLeft
<1> QED
  BY <1>8, <1>9, <1>10, <1>12, <1>13, <1>14, <1>15

-----------------------------------------------------------------------------
(* Maximality: a pair under the gate that was taken is settled, and stays so *)
(* because what is together only grows.                                      *)

Settled(a, b) ==
    \/ b \in Group(a)
    \/ \E m \in Group(a), n \in Group(b) : m[1] = n[1] \/ Cost(m, n) >= Gate

Left(e) == \E i \in 1 .. Len(edges) : edges[i] = e

PairsInv ==
    /\ \A i, j \in 1 .. Len(edges) : i < j => pairCost[edges[i]] <= pairCost[edges[j]]
    /\ \A e \in Edges : pairCost[e] < Gate => Left(e) \/ Settled(e[1], e[2])
    /\ apc = "ranked" => ~EdgeUnderGate

LEMMA GroupForm ==
    \A m, n \in Nodes : m \in Group(n) <=> m = n \/ Together(m, n)
BY DEF Group, Together

LEMMA SettledStays ==
    ASSUME TypesHold, Grows, UNCHANGED pairCost, NEW a \in Nodes, NEW b \in Nodes, Settled(a, b)
    PROVE  Settled(a, b)'
<1>1. \A m, n \in Nodes : m \in Group(n) => m \in Group(n)'
  BY DEF Group, Grows, Together
<1>2. \A m, n : Cost(m, n)' = Cost(m, n)
  BY DEF Cost
<1>3. \A m : m \in Group(a) \/ m \in Group(b) => m \in Nodes
  BY DEF Group
<1> QED
  BY <1>1, <1>2, <1>3 DEF Settled

LEMMA RefusedSettles ==
    ASSUME TypesHold, NEW a \in Nodes, NEW b \in Nodes, Refused(a, b)
    PROVE  Settled(a, b)
<1>1. CASE Together(a, b)
  BY <1>1 DEF Settled, Group, Together
<1>2. ASSUME NEW m \in Nodes, NEW n \in Nodes, m = a \/ Together(m, a), n = b \/ Together(n, b),
             ~Agree(m, n)
      PROVE  Settled(a, b)
  <2>1. m \in Group(a) /\ n \in Group(b)
    BY <1>2, GroupForm
  <2>2. m[1] = n[1] \/ Cost(m, n) >= Gate
    <3>1. Gate \in Int
      BY AssociationAssumption
    <3> QED
      <4>1. m[1] # n[1] => Cost(m, n) \in Nat
        BY CostIsSymmetric
      <4>2. m[1] = n[1] \/ ~(Cost(m, n) < Gate)
        BY <1>2 DEF Agree
      <4> QED
        BY <3>1, <4>1, <4>2
  <2> QED
    BY <2>1, <2>2 DEF Settled
<1> QED
  BY <1>1, <1>2 DEF Refused

LEMMA MergeKeeps ==
    ASSUME UnionInv, Merge
    PROVE  /\ UnionInv' /\ Grows
           /\ \E a, b \in Nodes : Head(edges) = <<a, b>> /\ Settled(a, b)'
<1>1. PICK a \in Nodes, b \in Nodes :
          /\ Head(edges) = <<a, b>> /\ a[1] < b[1] /\ pairCost[<<a, b>>] < Gate
          /\ \/ Started(a, b)
             \/ Attached(a, b)
             \/ Attached(b, a)
             \/ /\ nodeTrack[a] # NoTrack /\ nodeTrack[b] # NoTrack
                /\ United(nodeTrack[a], nodeTrack[b])
             \/ Refused(a, b)
  BY MergeKinds
<1>2. UNCHANGED <<pairCost, apc>> /\ edges' \in Seq(Edges)
  BY DEF Merge, EdgeUnderGate, UnionInv, TypesHold
<1>3. <<a, b>> \in Edges
  BY <1>1 DEF Edges
<1>4. ASSUME UnionInv', Grows, Together(a, b)' \/ Together(b, a)' PROVE Settled(a, b)'
  BY <1>4 DEF Settled, Group, Together
<1>5. CASE Started(a, b)
  BY <1>1, <1>2, <1>3, <1>4, <1>5, StartedKeeps
<1>6. CASE Attached(a, b)
  BY <1>1, <1>2, <1>3, <1>4, <1>6, AttachedKeeps
<1>7. CASE Attached(b, a)
  BY <1>1, <1>2, <1>3, <1>4, <1>7, AttachedKeeps
<1>8. CASE /\ nodeTrack[a] # NoTrack /\ nodeTrack[b] # NoTrack
           /\ United(nodeTrack[a], nodeTrack[b])
  BY <1>1, <1>2, <1>3, <1>4, <1>8, UnitedKeeps
<1>9. CASE Refused(a, b)
  <2>1. UNCHANGED <<tracks, activeTracks, nodeTrack>>
    BY <1>9 DEF Refused
  <2>2. UnionInv'
    BY <1>2, <2>1 DEF UnionInv, TypesHold, HeldOnce, MergedAreEmpty, TogetherAgree, TwoInEach,
      RoomIsLeft, Placed, Together, Agree, Cost
  <2>3. Grows
    BY <2>1 DEF Grows, Together
  <2>4. Settled(a, b)'
    BY <1>2, <1>9, <2>3, RefusedSettles, SettledStays DEF UnionInv
  <2> QED
    BY <1>1, <1>3, <2>2, <2>3, <2>4
<1> QED
  BY <1>1, <1>5, <1>6, <1>7, <1>8, <1>9

LEMMA MergeKeepsPairs ==
    ASSUME UnionInv, PairsInv, Merge
    PROVE  PairsInv'
<1>1. /\ edges \in Seq(Edges) /\ edges # << >> /\ edges' = Tail(edges)
      /\ pairCost' = pairCost /\ apc' = "merge"
  BY DEF Merge, EdgeUnderGate, UnionInv, TypesHold
<1>2. /\ Len(edges) \in Nat /\ Len(edges') = Len(edges) - 1
      /\ \A i \in 1 .. Len(edges') : i + 1 \in 1 .. Len(edges) /\ edges'[i] = edges[i + 1]
      /\ Head(edges) = edges[1]
  BY <1>1
<1>3. \A i, j \in 1 .. Len(edges') : i < j => pairCost'[edges'[i]] <= pairCost'[edges'[j]]
  <2> SUFFICES ASSUME NEW i \in 1 .. Len(edges'), NEW j \in 1 .. Len(edges'), i < j
               PROVE  pairCost[edges[i + 1]] <= pairCost[edges[j + 1]]
    BY <1>1, <1>2
  <2>1. i + 1 \in 1 .. Len(edges) /\ j + 1 \in 1 .. Len(edges) /\ i + 1 < j + 1
    BY <1>2
  <2> QED
    BY <2>1 DEF PairsInv
<1>4. ASSUME NEW e \in Edges, pairCost[e] < Gate
      PROVE  Left(e)' \/ Settled(e[1], e[2])'
  <2>1. e[1] \in Nodes /\ e[2] \in Nodes
    BY EdgeParts
  <2>2. CASE Settled(e[1], e[2])
    BY <1>1, <2>1, <2>2, MergeKeeps, SettledStays DEF UnionInv
  <2>3. CASE Left(e)
    <3>1. PICK i \in 1 .. Len(edges) : edges[i] = e
      BY <2>3 DEF Left
    <3>2. CASE i = 1
      <4>1. PICK a \in Nodes, b \in Nodes : Head(edges) = <<a, b>> /\ Settled(a, b)'
        BY MergeKeeps
      <4>2. e[1] = a /\ e[2] = b
        BY <1>2, <3>1, <3>2, <4>1
      <4> QED
        BY <4>1, <4>2
    <3>3. CASE i # 1
      <4>1. i - 1 \in 1 .. Len(edges') /\ (i - 1) + 1 = i
        BY <1>2, <3>3
      <4>2. edges'[i - 1] = e
        BY <1>2, <3>1, <4>1
      <4> QED
        BY <4>1, <4>2 DEF Left
    <3> QED
      BY <3>2, <3>3
  <2> QED
    BY <1>4, <2>2, <2>3 DEF PairsInv
<1> QED
  BY <1>1, <1>3, <1>4 DEF PairsInv

LEMMA PairsStay ==
    ASSUME PairsInv, UNCHANGED <<pairCost, edges, nodeTrack>>, apc' = "ranked" => ~EdgeUnderGate
    PROVE  PairsInv'
<1>1. \A m, n : Cost(m, n)' = Cost(m, n)
  BY DEF Cost
<1>2. \A n : Group(n)' = Group(n)
  BY DEF Group
<1>3. \A a, b : Settled(a, b) => Settled(a, b)'
  BY <1>1, <1>2 DEF Settled
<1>4. \A e : Left(e) => Left(e)'
  BY DEF Left
<1>5. EdgeUnderGate' <=> EdgeUnderGate
  BY DEF EdgeUnderGate
<1> QED
  BY <1>3, <1>4, <1>5 DEF PairsInv

LEMMA NothingFits ==
    UnionInv /\ PairsInv => NothingElseFits
<1> SUFFICES ASSUME UnionInv, PairsInv, apc = "ranked", NEW e \in Edges, pairCost[e] < Gate
             PROVE  Settled(e[1], e[2])
  BY DEF NothingElseFits, Settled
<1>1. ~Left(e)
  <2> SUFFICES ASSUME NEW i \in 1 .. Len(edges), edges[i] = e PROVE FALSE
    BY DEF Left
  <2>1. edges \in Seq(Edges) /\ pairCost \in [Edges -> Nat]
    BY DEF UnionInv, TypesHold
  <2>2. edges # << >> /\ Head(edges) = edges[1] /\ 1 \in 1 .. Len(edges) /\ edges[1] \in Edges
    BY <2>1
  <2>3. pairCost[edges[1]] <= pairCost[edges[i]]
    <3>1. CASE i = 1
      BY <2>1, <2>2, <3>1
    <3>2. CASE i # 1
      BY <2>2, <3>2 DEF PairsInv
    <3> QED
      BY <3>1, <3>2
  <2>4. pairCost[edges[1]] \in Nat /\ pairCost[e] \in Nat /\ Gate \in Int
    BY <2>1, <2>2, AssociationAssumption
  <2>5. pairCost[Head(edges)] < Gate
    BY <2>2, <2>3, <2>4
  <2> QED
    BY <2>2, <2>5 DEF PairsInv, EdgeUnderGate
<1> QED
  BY <1>1 DEF PairsInv

-----------------------------------------------------------------------------
(* The ranking is a strict total order of the tracks with a pair. *)

LEMMA TotalIsNatural ==
    ASSUME TypesHold, NEW x
    PROVE  /\ TotalCost(x) \in Nat /\ Cardinality(PairsOf(x)) \in Nat
           /\ PairsOf(x) # {} => Cardinality(PairsOf(x)) > 0
<1>1. PairsOf(x) \in SUBSET Edges
  BY DEF PairsOf
<1>2. IsFiniteSet(PairsOf(x))
  BY <1>1, NodesAreFinite, FS_Subset
<1>3. \A e \in PairsOf(x) : pairCost[e] \in Nat
  BY <1>1 DEF TypesHold
<1>4. SumFunctionOnSet(pairCost, PairsOf(x)) \in Nat
  BY <1>2, <1>3, SumIsNatural
<1>5. TotalCost(x) = SumFunctionOnSet(pairCost, PairsOf(x))
  BY Zenon DEF TotalCost, MapThenSumSet, SumFunctionOnSet, FoldFunctionOnSet, MapThenFoldSet
<1>6. Cardinality(PairsOf(x)) \in Nat /\ (PairsOf(x) # {} => Cardinality(PairsOf(x)) # 0)
  BY <1>2, FS_CardinalityType, FS_EmptySet
<1> QED
  BY <1>4, <1>5, <1>6

LEMMA MembersNumber ==
    ASSUME NEW x
    PROVE  Cardinality(Members(x)) \in Nat /\ IsFiniteSet(Members(x))
<1> DEFINE views == {w \in 1 .. ViewCount : x[w] # Unassigned}
           f == [w \in views |-> <<w, x[w]>>]
<1>0. ViewCount \in Int
  BY NodesAreFinite
<1>1. IsFiniteSet(1 .. ViewCount)
  BY <1>0, FS_Interval
<1>2. IsFiniteSet(views)
  <2>1. views \in SUBSET (1 .. ViewCount)
    OBVIOUS
  <2> QED
    BY <1>1, <2>1, FS_Subset
<1>3. f \in Surjection(views, Members(x))
  BY DEF Surjection, Members
<1> QED
  BY <1>2, <1>3, FS_Surjection, FS_CardinalityType

\* Fractions compared by cross products.
LEMMA Multiply ==
    ASSUME NEW a \in Nat, NEW b \in Nat, NEW c \in Nat, c > 0
    PROVE  /\ a < b <=> a * c < b * c
           /\ a = b <=> a * c = b * c
OBVIOUS

LEMMA Fractions ==
    ASSUME NEW a \in Nat, NEW b \in Nat, NEW c \in Nat, NEW h \in Nat, NEW q \in Nat, NEW r \in Nat,
           h > 0, q > 0, r > 0
    PROVE  /\ a * q < b * h /\ b * r < c * q => a * r < c * h
           /\ a * q < b * h /\ b * r = c * q => a * r < c * h
           /\ a * q = b * h /\ b * r < c * q => a * r < c * h
           /\ a * q = b * h /\ b * r = c * q => a * r = c * h
<1> DEFINE x == a * q
           y == b * h
           z == b * r
           w == c * q
<1>1. x \in Nat /\ y \in Nat /\ z \in Nat /\ w \in Nat /\ a * r \in Nat /\ c * h \in Nat
  OBVIOUS
<1>2. /\ x < y <=> x * r < y * r
      /\ x = y <=> x * r = y * r
      /\ z < w <=> z * h < w * h
      /\ z = w <=> z * h = w * h
  <2> HIDE DEF x, y, z, w
  <2> QED
    BY <1>1, Multiply
<1>3. /\ a * r < c * h <=> (a * r) * q < (c * h) * q
      /\ a * r = c * h <=> (a * r) * q = (c * h) * q
  BY <1>1, Multiply
<1>4. y * r = z * h /\ x * r = (a * r) * q /\ w * h = (c * h) * q
  OBVIOUS
<1>5. x * r \in Nat /\ y * r \in Nat /\ z * h \in Nat /\ w * h \in Nat
  OBVIOUS
<1> DEFINE k == x * r
           l == y * r
           m == w * h
<1>6. /\ k < l /\ l < m => k < m
      /\ k < l /\ l = m => k < m
      /\ k = l /\ l < m => k < m
      /\ k = l /\ l = m => k = m
  <2>1. k \in Nat /\ l \in Nat /\ m \in Nat
    BY <1>5
  <2> HIDE DEF k, l, m
  <2> QED
    BY <2>1
<1>7. /\ x < y <=> k < l
      /\ x = y <=> k = l
      /\ z < w <=> l < m
      /\ z = w <=> l = m
      /\ a * r < c * h <=> k < m
      /\ a * r = c * h <=> k = m
  BY <1>2, <1>3, <1>4, Zenon
<1> QED
  BY <1>6, <1>7, Zenon

\* The candidates in camera order.
LexLess(x, y) ==
    \E w \in 1 .. ViewCount :
        /\ Value(x, w) < Value(y, w)
        /\ \A earlier \in 1 .. w - 1 : Value(x, earlier) = Value(y, earlier)

LEMMA ValueIsNatural ==
    ASSUME NEW x \in TrackSet, NEW w \in 1 .. ViewCount
    PROVE  /\ Value(x, w) \in Nat
           /\ \A y \in TrackSet : Value(x, w) = Value(y, w) => x[w] = y[w]
<1>1. \A z \in TrackSet :
          \/ z[w] = Unassigned
          \/ z[w] # Unassigned /\ z[w] \in 1 .. 10
  <2>1. CandidateCount[w] \in 0 .. 10
    BY AssociationAssumption
  <2>2. \A c \in 1 .. CandidateCount[w] : c \in 1 .. 10
    BY <2>1
  <2>3. \A z \in TrackSet : z[w] \in 1 .. CandidateCount[w] \/ z[w] = Unassigned
    BY DEF TrackSet, Detection
  <2> QED
    BY <2>2, <2>3
<1>2. \A z \in TrackSet :
          \/ z[w] = Unassigned /\ Value(z, w) = 10
          \/ z[w] \in 1 .. 10 /\ Value(z, w) = z[w] - 1
  BY <1>1 DEF Value
<1> QED
  BY <1>2

LEMMA LexIsOrdered ==
    /\ \A x \in TrackSet : ~LexLess(x, x)
    /\ \A x, y, z \in TrackSet : LexLess(x, y) /\ LexLess(y, z) => LexLess(x, z)
    /\ \A x, y \in TrackSet : x # y => LexLess(x, y) \/ LexLess(y, x)
<1>1. ASSUME NEW x \in TrackSet PROVE ~LexLess(x, x)
  BY ValueIsNatural DEF LexLess
<1>2. ASSUME NEW x \in TrackSet, NEW y \in TrackSet, NEW z \in TrackSet, LexLess(x, y), LexLess(y, z)
      PROVE  LexLess(x, z)
  <2>1. PICK h \in 1 .. ViewCount : /\ Value(x, h) < Value(y, h)
                                   /\ \A i \in 1 .. h - 1 : Value(x, i) = Value(y, i)
    BY <1>2 DEF LexLess
  <2>2. PICK w \in 1 .. ViewCount : /\ Value(y, w) < Value(z, w)
                                   /\ \A i \in 1 .. w - 1 : Value(y, i) = Value(z, i)
    BY <1>2 DEF LexLess
  <2>3. /\ Value(x, h) \in Nat /\ Value(y, h) \in Nat /\ Value(z, h) \in Nat
        /\ Value(x, w) \in Nat /\ Value(y, w) \in Nat /\ Value(z, w) \in Nat
    BY ValueIsNatural
  <2>4. CASE h < w
    <3>1. Value(x, h) < Value(z, h)
      BY <2>1, <2>2, <2>4
    <3>2. \A i \in 1 .. h - 1 : Value(x, i) = Value(z, i)
      BY <2>1, <2>2, <2>4
    <3> QED
      BY <3>1, <3>2 DEF LexLess
  <2>5. CASE w < h
    <3>1. Value(x, w) < Value(z, w)
      BY <2>1, <2>2, <2>5
    <3>2. \A i \in 1 .. w - 1 : Value(x, i) = Value(z, i)
      BY <2>1, <2>2, <2>5
    <3> QED
      BY <3>1, <3>2 DEF LexLess
  <2>6. CASE h = w
    <3>1. Value(x, w) < Value(z, w)
      BY <2>1, <2>2, <2>3, <2>6
    <3>2. \A i \in 1 .. w - 1 : Value(x, i) = Value(z, i)
      BY <2>1, <2>2, <2>6
    <3> QED
      BY <3>1, <3>2 DEF LexLess
  <2> QED
    BY <2>4, <2>5, <2>6
<1>3. ASSUME NEW x \in TrackSet, NEW y \in TrackSet, x # y
      PROVE  LexLess(x, y) \/ LexLess(y, x)
  <2> DEFINE D == {w \in 1 .. ViewCount : Value(x, w) # Value(y, w)}
  <2>1. D # {}
    <3> SUFFICES ASSUME \A w \in 1 .. ViewCount : Value(x, w) = Value(y, w) PROVE FALSE
      OBVIOUS
    <3>1. \A w \in 1 .. ViewCount : x[w] = y[w]
      BY ValueIsNatural
    <3>2. x \in [1 .. ViewCount -> Nat] /\ y \in [1 .. ViewCount -> Nat]
      BY DEF TrackSet
    <3>3. x = [w \in 1 .. ViewCount |-> x[w]] /\ y = [w \in 1 .. ViewCount |-> y[w]]
      BY <3>2
    <3>4. [w \in 1 .. ViewCount |-> x[w]] = [w \in 1 .. ViewCount |-> y[w]]
      BY <3>1, Zenon
    <3> QED
      BY <1>3, <3>3, <3>4, Zenon
  <2>2. D \in SUBSET Nat
    OBVIOUS
  <2>3. PICK w \in D : \A i \in D : w <= i
    BY <2>1, <2>2, LeastExists
  <2>4. w \in 1 .. ViewCount /\ Value(x, w) # Value(y, w)
    BY <2>3
  <2>5. \A i \in 1 .. w - 1 : Value(x, i) = Value(y, i)
    <3> SUFFICES ASSUME NEW i \in 1 .. w - 1, Value(x, i) # Value(y, i) PROVE FALSE
      OBVIOUS
    <3>1. i \in 1 .. ViewCount /\ ~(w <= i)
      BY <2>4, NodesAreFinite
    <3>2. i \in D
      BY <3>1
    <3> QED
      BY <2>3, <3>1, <3>2
  <2>6. Value(x, w) \in Nat /\ Value(y, w) \in Nat
    BY <2>4, ValueIsNatural
  <2> QED
    BY <2>4, <2>5, <2>6 DEF LexLess
<1> QED
  BY <1>1, <1>2, <1>3

\* A track that can be ranked has a pair.
Rankable == {x \in TrackSet : PairsOf(x) # {}}
ViewsOf(x) == Cardinality(Members(x))
Cheaper(x, y) == TotalCost(x) * Cardinality(PairsOf(y)) < TotalCost(y) * Cardinality(PairsOf(x))
AsCheap(x, y) == TotalCost(x) * Cardinality(PairsOf(y)) = TotalCost(y) * Cardinality(PairsOf(x))

LEMMA BetterForm ==
    ASSUME NEW x, NEW y
    PROVE  Better(x, y) <=>
              \/ ViewsOf(x) > ViewsOf(y)
              \/ /\ ViewsOf(x) = ViewsOf(y)
                 /\ Cheaper(x, y) \/ (AsCheap(x, y) /\ LexLess(x, y))
BY DEF Better, ViewsOf, Cheaper, AsCheap, LexLess

LEMMA CheaperIsOrdered ==
    ASSUME TypesHold
    PROVE  /\ \A x \in Rankable : ~Cheaper(x, x)
           /\ \A x, y, z \in Rankable :
                 /\ Cheaper(x, y) /\ Cheaper(y, z) => Cheaper(x, z)
                 /\ Cheaper(x, y) /\ AsCheap(y, z) => Cheaper(x, z)
                 /\ AsCheap(x, y) /\ Cheaper(y, z) => Cheaper(x, z)
                 /\ AsCheap(x, y) /\ AsCheap(y, z) => AsCheap(x, z)
           /\ \A x, y \in Rankable : Cheaper(x, y) \/ Cheaper(y, x) \/ (AsCheap(x, y) /\ AsCheap(y, x))
<1>1. \A x \in Rankable : /\ TotalCost(x) \in Nat /\ Cardinality(PairsOf(x)) \in Nat
                         /\ Cardinality(PairsOf(x)) > 0
  BY TotalIsNatural DEF Rankable
<1>2. ASSUME NEW x \in Rankable, NEW y \in Rankable
      PROVE  /\ TotalCost(x) * Cardinality(PairsOf(y)) \in Nat
             /\ TotalCost(y) * Cardinality(PairsOf(x)) \in Nat
  BY <1>1
<1>3. ASSUME NEW x \in Rankable PROVE ~Cheaper(x, x)
  BY <1>2 DEF Cheaper
<1>4. ASSUME NEW x \in Rankable, NEW y \in Rankable, NEW z \in Rankable
      PROVE  /\ Cheaper(x, y) /\ Cheaper(y, z) => Cheaper(x, z)
             /\ Cheaper(x, y) /\ AsCheap(y, z) => Cheaper(x, z)
             /\ AsCheap(x, y) /\ Cheaper(y, z) => Cheaper(x, z)
             /\ AsCheap(x, y) /\ AsCheap(y, z) => AsCheap(x, z)
  <2>1. PICK a \in Nat, b \in Nat, c \in Nat :
            a = TotalCost(x) /\ b = TotalCost(y) /\ c = TotalCost(z)
    BY <1>1
  <2>2. PICK h \in Nat, q \in Nat, r \in Nat :
            /\ h = Cardinality(PairsOf(x)) /\ q = Cardinality(PairsOf(y)) /\ r = Cardinality(PairsOf(z))
            /\ h > 0 /\ q > 0 /\ r > 0
    BY <1>1
  <2>3. /\ a * q < b * h /\ b * r < c * q => a * r < c * h
        /\ a * q < b * h /\ b * r = c * q => a * r < c * h
        /\ a * q = b * h /\ b * r < c * q => a * r < c * h
        /\ a * q = b * h /\ b * r = c * q => a * r = c * h
    BY <2>2, Fractions
  <2> QED
    BY <2>1, <2>2, <2>3, Zenon DEF Cheaper, AsCheap
<1>5. ASSUME NEW x \in Rankable, NEW y \in Rankable
      PROVE  Cheaper(x, y) \/ Cheaper(y, x) \/ (AsCheap(x, y) /\ AsCheap(y, x))
  <2>1. \A i, j \in Nat : i < j \/ j < i \/ i = j
    OBVIOUS
  <2> QED
    BY <1>2, <2>1, Zenon DEF Cheaper, AsCheap
<1> QED
  BY <1>3, <1>4, <1>5

LEMMA BetterIsOrdered ==
    ASSUME TypesHold, NEW S \in SUBSET Rankable
    PROVE  StrictOrder({pair \in S \X S : Better(pair[1], pair[2])}, S)
<1> DEFINE R == {pair \in S \X S : Better(pair[1], pair[2])}
<1>1. \A x, y \in S : <<x, y>> \in R <=> Better(x, y)
  <2> SUFFICES ASSUME NEW x \in S, NEW y \in S PROVE <<x, y>> \in R <=> Better(x, y)
    OBVIOUS
  <2> DEFINE q == <<x, y>>
  <2>1. q \in S \X S /\ q[1] = x /\ q[2] = y
    OBVIOUS
  <2> HIDE DEF q
  <2>2. q \in R <=> Better(x, y)
    BY <2>1, Zenon
  <2> QED
    BY <2>2 DEF q
<1> HIDE DEF R
<1>2. \A x : ViewsOf(x) \in Nat
  BY MembersNumber DEF ViewsOf
<1>3. \A x \in S : x \in Rankable /\ x \in TrackSet
  BY DEF Rankable
<1>4. Irreflexive(R, S)
  <2> SUFFICES ASSUME NEW x \in S, Better(x, x) PROVE FALSE
    BY <1>1 DEF Irreflexive
  <2>1. ~Cheaper(x, x) /\ ~LexLess(x, x) /\ ~(ViewsOf(x) > ViewsOf(x))
    BY <1>2, <1>3, CheaperIsOrdered, LexIsOrdered
  <2> QED
    BY <2>1, BetterForm, Zenon
<1>5. Transitive(R, S)
  <2> SUFFICES ASSUME NEW x \in S, NEW y \in S, NEW z \in S, Better(x, y), Better(y, z)
               PROVE  Better(x, z)
    BY <1>1 DEF Transitive
  <2> DEFINE Tie(a, b) == Cheaper(a, b) \/ (AsCheap(a, b) /\ LexLess(a, b))
  <2>1. Tie(x, y) /\ Tie(y, z) => Tie(x, z)
    BY <1>3, CheaperIsOrdered, LexIsOrdered, Zenon
  <2>2. /\ Better(x, y) <=> ViewsOf(x) > ViewsOf(y) \/ (ViewsOf(x) = ViewsOf(y) /\ Tie(x, y))
        /\ Better(y, z) <=> ViewsOf(y) > ViewsOf(z) \/ (ViewsOf(y) = ViewsOf(z) /\ Tie(y, z))
        /\ Better(x, z) <=> ViewsOf(x) > ViewsOf(z) \/ (ViewsOf(x) = ViewsOf(z) /\ Tie(x, z))
    BY BetterForm, Zenon
  <2> HIDE DEF Tie
  <2>3. ViewsOf(x) \in Nat /\ ViewsOf(y) \in Nat /\ ViewsOf(z) \in Nat
    BY <1>2
  <2> QED
    BY <2>1, <2>2, <2>3
<1>6. Total(R, S)
  <2> SUFFICES ASSUME NEW x \in S, NEW y \in S, x # y PROVE Better(x, y) \/ Better(y, x)
    BY <1>1 DEF Total
  <2>1. Cheaper(x, y) \/ Cheaper(y, x) \/ (AsCheap(x, y) /\ AsCheap(y, x))
    BY <1>3, CheaperIsOrdered
  <2>2. LexLess(x, y) \/ LexLess(y, x)
    BY <1>3, LexIsOrdered
  <2>3. ViewsOf(x) > ViewsOf(y) \/ ViewsOf(y) > ViewsOf(x) \/ (ViewsOf(x) = ViewsOf(y) /\ ViewsOf(y) = ViewsOf(x))
    BY <1>2
  <2> QED
    BY <2>1, <2>2, <2>3, BetterForm, Zenon
<1> QED
  BY <1>4, <1>5, <1>6 DEF StrictOrder, R

LEMMA ActiveIsRankable ==
    ASSUME UnionInv, NEW t \in activeTracks
    PROVE  tracks[t] \in Rankable /\ Cardinality(Members(tracks[t])) >= 2
<1> USE DEF UnionInv
<1>1. t \in 1 .. Len(tracks) /\ t # NoTrack
  BY DEF TypesHold, NoTrack
<1>2. PICK m \in Nodes, n \in Nodes : m # n /\ nodeTrack[m] = t /\ nodeTrack[n] = t
  BY DEF TwoInEach
<1>3. m \in Members(tracks[t]) /\ n \in Members(tracks[t]) /\ tracks[t] \in TrackSet
  BY <1>1, <1>2, MembersAreTogether
<1>4. m[1] # n[1]
  BY <1>1, <1>2 DEF TogetherAgree, Together, Agree
<1>5. <<m, n>> \in Edges \/ <<n, m>> \in Edges
  <2>1. m[1] < n[1] \/ n[1] < m[1]
    BY <1>4, NodeParts
  <2> QED
    BY <1>4, <2>1, CostIsSymmetric
<1>6. PairsOf(tracks[t]) # {}
  BY <1>3, <1>5 DEF PairsOf
<1>7. Cardinality(Members(tracks[t])) >= 2
  <2>1. IsFiniteSet(Members(tracks[t])) /\ Cardinality(Members(tracks[t])) \in Nat
    BY MembersNumber
  <2>2. IsFiniteSet({m}) /\ Cardinality({m}) = 1
    BY FS_Singleton
  <2>3. Cardinality({m} \cup {n}) = 2
    <3>1. n \notin {m}
      BY <1>2
    <3>2. Cardinality({m} \cup {n}) = Cardinality({m}) + 1
      BY <2>2, <3>1, FS_AddElement
    <3> QED
      BY <2>2, <3>2
  <2>4. {m} \cup {n} \in SUBSET Members(tracks[t])
    BY <1>3
  <2>5. 2 <= Cardinality(Members(tracks[t]))
    BY <2>1, <2>3, <2>4, FS_Subset
  <2> QED
    BY <2>1, <2>5
<1> QED
  BY <1>3, <1>6, <1>7 DEF Rankable

LEMMA ActiveTracksAreFinite ==
    ASSUME TypesHold
    PROVE  IsFiniteSet({tracks[t] : t \in {k \in activeTracks : Cardinality(Members(tracks[k])) >= 2}})
<1> DEFINE K == {k \in activeTracks : Cardinality(Members(tracks[k])) >= 2}
           f == [k \in K |-> tracks[k]]
<1>1. IsFiniteSet(1 .. Len(tracks))
  BY FS_Interval DEF TypesHold
<1>2. IsFiniteSet(K)
  <2>1. K \in SUBSET (1 .. Len(tracks))
    BY DEF TypesHold
  <2> QED
    BY <1>1, <2>1, FS_Subset
<1>3. f \in Surjection(K, {tracks[t] : t \in K})
  BY DEF Surjection
<1> QED
  BY <1>2, <1>3, FS_Surjection

\* The rows r are the best of the tracks.
BestOf(r) ==
    /\ \A i, j \in DOMAIN r : i < j => Better(r[i], r[j])
    /\ \A t \in activeTracks :
          \/ tracks[t] \in Range(r)
          \/ Len(r) = MaxPersons /\ \A i \in DOMAIN r : Better(r[i], tracks[t])

LEMMA OrderStays ==
    ASSUME UNCHANGED pairCost, NEW x, NEW y
    PROVE  Better(x, y)' <=> Better(x, y)
<1>1. \A z : TotalCost(z) = SumFunctionOnSet(pairCost, PairsOf(z))
  BY Zenon DEF TotalCost, MapThenSumSet, SumFunctionOnSet, FoldFunctionOnSet, MapThenFoldSet
<1>2. \A z : TotalCost(z)' = SumFunctionOnSet(pairCost', PairsOf(z))
  BY Zenon DEF TotalCost, MapThenSumSet, SumFunctionOnSet, FoldFunctionOnSet, MapThenFoldSet
<1>3. TotalCost(x)' = TotalCost(x) /\ TotalCost(y)' = TotalCost(y)
  BY <1>1, <1>2
<1> QED
  BY <1>3, Zenon DEF Better

LEMMA BestStays ==
    ASSUME UNCHANGED <<pairCost, tracks, activeTracks>>, NEW r, BestOf(r)
    PROVE  BestOf(r)'
<1>1. \A x, y : Better(x, y)' <=> Better(x, y)
  BY OrderStays
<1> QED
  BY <1>1 DEF BestOf

LEMMA RankKeeps ==
    ASSUME UnionInv, Rank
    PROVE  BestRowsAreWritten'
<1> DEFINE chosen == {tracks[t] : t \in {k \in activeTracks : Cardinality(Members(tracks[k])) >= 2}}
           order == {pair \in chosen \X chosen : Better(pair[1], pair[2])}
           ranked == InOrder(chosen, order)
           best == IF Len(ranked) < MaxPersons THEN Len(ranked) ELSE MaxPersons
<1>1. TypesHold /\ chosen \in SUBSET Rankable /\ \A t \in activeTracks : tracks[t] \in chosen
  BY ActiveIsRankable DEF UnionInv
<1>2. IsFiniteSet(chosen) /\ StrictOrder(order, chosen)
  BY <1>1, ActiveTracksAreFinite, BetterIsOrdered
<1>3. rows' = SubSeq(ranked, 1, best)
  BY DEF Rank
<1>4. UNCHANGED <<pairCost, tracks, activeTracks>>
  BY DEF Rank
<1>5. PICK r : r = rows'
  OBVIOUS
<1>6. \A pair \in order : Better(pair[1], pair[2])
  OBVIOUS
<1> HIDE DEF chosen, order
<1>7. PICK n \in Nat : /\ ranked \in [1 .. n -> chosen]
                       /\ \A x \in chosen : \E i \in 1 .. n : ranked[i] = x
                       /\ \A i, j \in 1 .. n : i < j => <<ranked[i], ranked[j]>> \in order
  BY <1>2, InOrderSorts
<1> HIDE DEF ranked
<1>8. ranked \in Seq(chosen) /\ Len(ranked) = n
  BY <1>7
<1>9. /\ best \in 0 .. n /\ (best # n => best = MaxPersons)
      /\ MaxPersons \in Nat
  BY <1>8, AssociationAssumption
<1> HIDE DEF best
<1>10. Len(r) = best /\ DOMAIN r = 1 .. best /\ \A i \in 1 .. best : r[i] = ranked[i]
  BY <1>3, <1>5, <1>8, <1>9
<1>11. \A i, j \in 1 .. n : i < j => Better(ranked[i], ranked[j])
  <2> SUFFICES ASSUME NEW i \in 1 .. n, NEW j \in 1 .. n, i < j PROVE Better(ranked[i], ranked[j])
    OBVIOUS
  <2> DEFINE pair == <<ranked[i], ranked[j]>>
  <2>1. pair \in order /\ pair[1] = ranked[i] /\ pair[2] = ranked[j]
    BY <1>7
  <2> HIDE DEF pair
  <2> QED
    BY <1>6, <2>1
<1>12. \A i \in 1 .. best : i \in 1 .. n
  BY <1>9
<1>13. \A i, j \in DOMAIN r : i < j => Better(r[i], r[j])
  BY <1>10, <1>11, <1>12
<1>14. ASSUME NEW t \in activeTracks
       PROVE  \/ tracks[t] \in Range(r)
              \/ Len(r) = MaxPersons /\ \A i \in DOMAIN r : Better(r[i], tracks[t])
  <2>1. PICK j \in 1 .. n : ranked[j] = tracks[t]
    BY <1>1, <1>7
  <2>2. CASE j \in 1 .. best
    <3>1. j \in DOMAIN r /\ r[j] = tracks[t]
      BY <1>10, <2>1, <2>2
    <3> QED
      BY <3>1 DEF Range
  <2>3. CASE j \notin 1 .. best
    <3>1. best = MaxPersons /\ \A i \in 1 .. best : i < j
      BY <1>9, <2>3
    <3>2. \A i \in 1 .. best : Better(r[i], tracks[t])
      BY <1>10, <1>11, <1>12, <2>1, <3>1
    <3> QED
      BY <1>10, <3>1, <3>2
  <2> QED
    BY <2>2, <2>3
<1>15. BestOf(r)
  BY <1>13, <1>14 DEF BestOf
<1>16. BestOf(r)'
  BY <1>4, <1>15, BestStays
<1> QED
  BY <1>5, <1>16 DEF BestRowsAreWritten, BestOf

\* The association is consistent.
AssociationInv == UnionInv /\ PairsInv /\ BestRowsAreWritten

LEMMA AInitHolds == AInit => AssociationInv
<1> SUFFICES ASSUME AInit PROVE AssociationInv
  OBVIOUS
<1> USE DEF AInit
<1>1. pairCost \in [Edges -> Nat] /\ apc = "merge" /\ tracks = << >> /\ activeTracks = {} /\ edges = Sorted(pairCost)
  BY AssociationAssumption
<1>2. /\ edges \in Seq(Edges)
      /\ \A e \in Edges : \E i \in 1 .. Len(edges) : edges[i] = e
      /\ \A i, j \in 1 .. Len(edges) : i < j => pairCost[edges[i]] <= pairCost[edges[j]]
  BY <1>1, SortedByCost
<1>3. \A n \in Nodes : nodeTrack[n] = NoTrack
  OBVIOUS
<1>4. Len(tracks) = 0 /\ tracks \in Seq(TrackSet)
  BY <1>1
<1>5. TypesHold
  BY <1>1, <1>2, <1>4 DEF TypesHold, NoTrack
<1>6. HeldOnce /\ MergedAreEmpty /\ TogetherAgree /\ TwoInEach
  BY <1>1, <1>3, <1>4 DEF HeldOnce, MergedAreEmpty, TogetherAgree, Together, TwoInEach
<1>7. RoomIsLeft
  <2>1. Placed = {}
    BY <1>3 DEF Placed
  <2> QED
    BY <1>4, <2>1, FS_EmptySet DEF RoomIsLeft
<1>8. PairsInv
  BY <1>1, <1>2 DEF PairsInv, Left
<1>9. BestRowsAreWritten
  BY <1>1 DEF BestRowsAreWritten
<1> QED
  BY <1>5, <1>6, <1>7, <1>8, <1>9 DEF AssociationInv, UnionInv

LEMMA ANextKeeps == AssociationInv /\ [ANext]_avars => AssociationInv'
<1> SUFFICES ASSUME AssociationInv, [ANext]_avars PROVE AssociationInv'
  OBVIOUS
<1> USE DEF AssociationInv
<1>1. CASE Merge
  <2>1. apc' # "ranked"
    BY <1>1 DEF Merge
  <2>2. BestRowsAreWritten'
    BY <2>1 DEF BestRowsAreWritten
  <2> QED
    BY <1>1, <2>2, MergeKeeps, MergeKeepsPairs
<1>2. CASE Rank
  <2>1. UNCHANGED <<pairCost, edges, tracks, activeTracks, nodeTrack>> /\ apc' = "ranked" /\ ~EdgeUnderGate
    BY <1>2 DEF Rank
  <2>2. UnionInv'
    BY <2>1 DEF UnionInv, TypesHold, HeldOnce, MergedAreEmpty, TogetherAgree, TwoInEach,
      RoomIsLeft, Placed, Together, Agree, Cost
  <2>3. PairsInv'
    BY <2>1, PairsStay DEF PairsInv
  <2> QED
    BY <1>2, <2>2, <2>3, RankKeeps
<1>3. CASE UNCHANGED avars
  <2>1. UNCHANGED <<pairCost, edges, tracks, activeTracks, nodeTrack, rows, apc>>
    BY <1>3 DEF avars
  <2>2. UnionInv'
    BY <2>1 DEF UnionInv, TypesHold, HeldOnce, MergedAreEmpty, TogetherAgree, TwoInEach,
      RoomIsLeft, Placed, Together, Agree, Cost
  <2>3. PairsInv'
    BY <2>1, PairsStay DEF PairsInv
  <2>4. BestRowsAreWritten'
    <3>1. PICK r : r = rows
      OBVIOUS
    <3>2. apc = "ranked" => BestOf(r)
      BY <3>1 DEF BestRowsAreWritten, BestOf
    <3>3. apc = "ranked" => BestOf(r)'
      BY <2>1, <3>2, BestStays
    <3> QED
      BY <2>1, <3>1, <3>3 DEF BestRowsAreWritten, BestOf
  <2> QED
    BY <2>2, <2>3, <2>4
<1> QED
  BY <1>1, <1>2, <1>3 DEF ANext

LEMMA InvIsConsistent == AssociationInv => AssociationIsConsistent
<1> SUFFICES ASSUME AssociationInv PROVE AssociationIsConsistent
  OBVIOUS
<1> USE DEF AssociationInv, UnionInv
<1>1. DOMAIN tracks = 1 .. Len(tracks) /\ \A t \in 1 .. Len(tracks) : tracks[t] \in TrackSet
  BY DEF TypesHold
<1>2. ATypeOK
  BY <1>1 DEF ATypeOK, TypesHold, TrackSet
<1>3. PartitionIsConsistent
  <2>1. \A n \in Nodes : \A t \in DOMAIN tracks : n \in Members(tracks[t]) <=> nodeTrack[n] = t
    BY <1>1, MembersAreTogether
  <2>2. \A t \in DOMAIN tracks \ activeTracks : Members(tracks[t]) = {}
    BY <1>1 DEF MergedAreEmpty, Members
  <2>3. Cardinality(Placed) <= Cardinality(Nodes)
    <3>1. Placed \in SUBSET Nodes
      BY DEF Placed
    <3> QED
      BY <3>1, NodesAreFinite, FS_Subset
  <2>4. Cardinality(Placed) \in Nat /\ Cardinality(Nodes) \in Nat /\ Len(tracks) \in Nat
    <3>1. Placed \in SUBSET Nodes
      BY DEF Placed
    <3> QED
      BY <3>1, NodesAreFinite, FS_Subset, FS_CardinalityType DEF TypesHold
  <2> QED
    BY <2>1, <2>2, <2>3, <2>4 DEF PartitionIsConsistent, RoomIsLeft
<1>4. RowsAreConsistent
  <2> SUFFICES ASSUME NEW t \in activeTracks, NEW m \in Members(tracks[t]), NEW n \in Members(tracks[t]), m # n
               PROVE  Cost(m, n) < Gate
    BY DEF RowsAreConsistent
  <2>1. t \in 1 .. Len(tracks) /\ t # NoTrack
    BY DEF TypesHold, NoTrack
  <2>2. m \in Nodes /\ n \in Nodes /\ nodeTrack[m] = t /\ nodeTrack[n] = t
    BY <2>1, MembersAreTogether
  <2> QED
    BY <2>1, <2>2 DEF TogetherAgree, Together, Agree
<1>5. NothingElseFits
  BY NothingFits
<1> QED
  BY <1>2, <1>3, <1>4, <1>5 DEF AssociationIsConsistent

\* In every state of the greedy association, whatever the costs: node_track and
\* tracks describe one partition and no pair is given up for want of a slot, all
\* the pairs of a row agree, and when it ends no two groups that fit were left
\* apart and the rows written are the best of the tracks, in order.
THEOREM AssociationHolds == ASpec => []AssociationIsConsistent
<1>1. AInit => AssociationInv
  BY AInitHolds
<1>2. AssociationInv /\ [ANext]_avars => AssociationInv'
  BY ANextKeeps
<1>3. AssociationInv => AssociationIsConsistent
  BY InvIsConsistent
<1> QED
  BY <1>1, <1>2, <1>3, PTL DEF ASpec

-----------------------------------------------------------------------------
(* The assignment of the temporal kernels.  Its potentials stay dual feasible *)
(* and tight on what is matched, the columns a scan reaches are a tree of     *)
(* tight edges, and the path of the tree gives one more row a column.  By     *)
(* weak duality the potentials then show that no matching is cheaper.         *)

AllColumns == {0} \cup Columns

HungarianTypes ==
    /\ cost \in Matrices
    /\ u \in [0 .. RowCount -> Nat] /\ v \in [AllColumns -> Int]
    /\ p \in [AllColumns -> 0 .. RowCount] /\ p[0] # 0
    /\ way \in [AllColumns -> AllColumns] /\ minv \in [AllColumns -> Int]
    /\ usedCols \subseteq AllColumns /\ columnZero \in AllColumns
    /\ hpc \in {"scan", "augment", "done"}

\* The rows before the one that is added have a column each, the others none.
RowsDone == IF hpc = "done" THEN RowCount ELSE p[0] - 1
OneColumnEach ==
    /\ \A r \in 1 .. RowsDone : \E c \in Columns : p[c] = r
    /\ \A c \in Columns : p[c] <= RowsDone
    /\ \A c, d \in Columns : p[c] # 0 /\ p[c] = p[d] => c = d

\* No edge is cheaper than its potentials, a matched one is as expensive, and a
\* column that has no row was never charged.
DualFeasible ==
    /\ \A c \in Columns : v[c] <= 0 /\ (p[c] = 0 => v[c] = 0)
    /\ \A r \in 1 .. RowCount, c \in Columns : Reduced(r, c) >= 0
    /\ \A c \in Columns : p[c] # 0 => Reduced(p[c], c) = 0

\* The columns the scan has come to.  Their predecessors are a tree of edges that
\* are as expensive as their potentials, with column 0 for its root ...
Reached == usedCols \cup {columnZero}
TreeIsTight ==
    /\ \A c \in usedCols : p[c] # 0
    /\ \A c \in Reached \ {0} : way[c] \in usedCols /\ Reduced(p[way[c]], c) = 0
    /\ \A S \in SUBSET Reached : S # {} /\ (\A c \in S \ {0} : way[c] \in S) => 0 \in S

\* ... and for the others minv is the least distance from the tree.
Distances ==
    /\ usedCols = {} => columnZero = 0 /\ \A c \in Columns : minv[c] = Infinity
    /\ usedCols # {} =>
          /\ 0 \in usedCols /\ columnZero \notin usedCols
          /\ \A c \in Columns \ usedCols :
                /\ way[c] \in usedCols /\ minv[c] = Reduced(p[way[c]], c)
                /\ \A d \in usedCols : minv[c] <= Reduced(p[d], c)

Scanning == hpc # "done" => TreeIsTight /\ Distances /\ (hpc = "scan" <=> p[columnZero] # 0)

HungarianInv == HungarianTypes /\ OneColumnEach /\ DualFeasible /\ Scanning

LEMMA HungarianNumbers ==
    /\ RowCount \in Nat \ {0} /\ RealColumns \in Nat /\ DummyColumns \in Nat /\ RowCount <= DummyColumns
    /\ HUGE \in Nat /\ MatchGate \in 0 .. HUGE
    /\ MatchGate \in Nat /\ Infinity \in Nat /\ MatchGate + MatchGate < Infinity
    /\ 0 \notin Columns /\ Columns \subseteq Nat /\ IsFiniteSet(Columns)
<1>1. RealColumns + DummyColumns \in Nat
  BY HungarianAssumption
<1>2. IsFiniteSet(Columns)
  BY <1>1, FS_Interval DEF Columns
<1>3. HUGE \in Nat
  BY SMT DEF HUGE
<1> QED
  BY <1>2, <1>3, HungarianAssumption DEF Columns

LEMMA EdgesAreNumbers ==
    ASSUME cost \in Matrices, NEW r \in 1 .. RowCount, NEW c \in Columns
    PROVE  Edge(r, c) \in Nat /\ Edge(r, c) + MatchGate < Infinity
<1>1. CASE c > RealColumns
  BY <1>1, HungarianNumbers DEF Edge
<1>2. CASE c <= RealColumns
  <2>1. <<r, c>> \in (1 .. RowCount) \X (1 .. RealColumns)
    BY <1>2, HungarianNumbers DEF Columns
  <2>2. /\ cost[<<r, c>>] \in Nat
        /\ cost[<<r, c>>] = Infinity \/ cost[<<r, c>>] + MatchGate < Infinity
    BY <2>1, HungarianAssumption
  <2>3. Edge(r, c) = IF cost[<<r, c>>] = Infinity THEN HUGE ELSE cost[<<r, c>>]
    BY <1>2, HungarianNumbers DEF Edge, Columns
  <2> QED
    BY <2>2, <2>3, HungarianAssumption, HungarianNumbers
<1> QED
  BY <1>1, <1>2, HungarianNumbers DEF Columns

LEMMA ReducedIsNumber ==
    ASSUME HungarianTypes, NEW r \in 1 .. RowCount, NEW c \in Columns
    PROVE  Reduced(r, c) \in Int /\ u[r] \in Nat /\ v[c] \in Int
<1>1. u[r] \in Nat /\ v[c] \in Int
  BY HungarianNumbers DEF HungarianTypes, AllColumns
<1>2. Edge(r, c) \in Nat
  BY EdgesAreNumbers DEF HungarianTypes
<1> QED
  BY <1>1, <1>2 DEF Reduced

\* While a row is added some dummy column is free.
LEMMA DummyIsFree ==
    ASSUME HungarianTypes, OneColumnEach, hpc # "done"
    PROVE  \E c \in Columns : c > RealColumns /\ p[c] = 0
<1> SUFFICES ASSUME \A c \in Columns : c > RealColumns => p[c] # 0 PROVE FALSE
  OBVIOUS
<1>1. p[0] - 1 \in Nat /\ p[0] - 1 < DummyColumns /\ RowsDone = p[0] - 1
  BY HungarianNumbers DEF HungarianTypes, RowsDone, AllColumns
<1> DEFINE g == [i \in 1 .. DummyColumns |-> p[RealColumns + i]]
<1>2. \A i \in 1 .. DummyColumns : RealColumns + i \in Columns /\ RealColumns + i > RealColumns
  BY HungarianNumbers DEF Columns
<1>3. \A i \in 1 .. DummyColumns : p[RealColumns + i] \in 1 .. p[0] - 1
  <2> SUFFICES ASSUME NEW i \in 1 .. DummyColumns PROVE p[RealColumns + i] \in 1 .. p[0] - 1
    OBVIOUS
  <2>1. PICK c \in Columns : c = RealColumns + i /\ c > RealColumns
    BY <1>2
  <2>2. p[c] # 0 /\ p[c] <= p[0] - 1 /\ p[c] \in 0 .. RowCount
    BY <1>1, <2>1 DEF OneColumnEach, HungarianTypes, AllColumns
  <2> QED
    BY <1>1, <2>1, <2>2, HungarianNumbers
<1>4. \A i, j \in 1 .. DummyColumns : p[RealColumns + i] = p[RealColumns + j] => i = j
  <2> SUFFICES ASSUME NEW i \in 1 .. DummyColumns, NEW j \in 1 .. DummyColumns,
                      p[RealColumns + i] = p[RealColumns + j]
               PROVE  i = j
    OBVIOUS
  <2>1. RealColumns + i = RealColumns + j
    BY <1>2, <1>3 DEF OneColumnEach
  <2> QED
    BY <2>1, HungarianNumbers
<1>5. g \in Injection(1 .. DummyColumns, 1 .. p[0] - 1)
  BY <1>3, <1>4 DEF Injection, IsInjective
<1>6. Cardinality(1 .. DummyColumns) <= Cardinality(1 .. p[0] - 1)
  <2> HIDE DEF g
  <2> QED
    BY <1>1, <1>5, NaturalIndices, FS_Injection
<1> QED
  BY <1>1, <1>6, NaturalIndices, HungarianNumbers

\* No potential is out of the gate, so that no distance reaches infinity.
LEMMA PotentialsAreBounded ==
    ASSUME HungarianTypes, OneColumnEach, DualFeasible, hpc # "done",
           NEW r \in 1 .. RowCount, NEW c \in Columns
    PROVE  u[r] <= MatchGate /\ Reduced(r, c) < Infinity
<1>1. \A q \in 1 .. RowCount : u[q] <= MatchGate
  <2> SUFFICES ASSUME NEW q \in 1 .. RowCount PROVE u[q] <= MatchGate
    OBVIOUS
  <2>1. PICK d \in Columns : d > RealColumns /\ p[d] = 0
    BY DummyIsFree
  <2>2. Reduced(q, d) >= 0 /\ v[d] = 0 /\ Edge(q, d) = MatchGate
    BY <2>1 DEF DualFeasible, Edge
  <2> QED
    BY <2>2, ReducedIsNumber, HungarianNumbers DEF Reduced
<1>2. v[c] >= 0 - MatchGate
  <2>1. CASE p[c] = 0
    BY <2>1, HungarianNumbers DEF DualFeasible
  <2>2. CASE p[c] # 0
    <3>1. p[c] \in 1 .. RowCount
      BY <2>2, HungarianNumbers DEF HungarianTypes, AllColumns
    <3>2. Reduced(p[c], c) = 0 /\ Edge(p[c], c) \in Nat /\ u[p[c]] \in Nat /\ u[p[c]] <= MatchGate
      BY <1>1, <2>2, <3>1, EdgesAreNumbers, ReducedIsNumber DEF DualFeasible, HungarianTypes
    <3> QED
      BY <3>2, ReducedIsNumber, <3>1, HungarianNumbers DEF Reduced
  <2> QED
    BY <2>1, <2>2
<1>3. Edge(r, c) \in Nat /\ Edge(r, c) + MatchGate < Infinity /\ u[r] \in Nat /\ v[c] \in Int
  BY EdgesAreNumbers, ReducedIsNumber DEF HungarianTypes
<1> QED
  BY <1>1, <1>2, <1>3, HungarianNumbers DEF Reduced

LEMMA ClosestIsClosest ==
    ASSUME NEW C \in SUBSET Columns, C # {}, NEW slack, \A c \in C : slack[c] \in Nat
    PROVE  Closest(slack, C) \in C /\ \A d \in C : slack[Closest(slack, C)] <= slack[d]
<1> DEFINE Lengths == {slack[c] : c \in C}
<1>1. Lengths \in SUBSET Nat /\ Lengths # {}
  OBVIOUS
<1>2. PICK least \in Lengths : \A n \in Lengths : least <= n
  BY <1>1, LeastExists
<1> DEFINE Near == {c \in C : slack[c] = least}
<1>3. Near \in SUBSET Nat /\ Near # {}
  BY <1>2, HungarianNumbers
<1>4. PICK c \in Near : \A d \in Near : c <= d
  <2> HIDE DEF Near
  <2> QED
    BY <1>3, LeastExists
<1>5. c \in C /\ \A d \in C : slack[c] < slack[d] \/ (slack[c] = slack[d] /\ c <= d)
  <2> SUFFICES ASSUME NEW d \in C PROVE slack[c] < slack[d] \/ (slack[c] = slack[d] /\ c <= d)
    BY <1>4
  <2>1. slack[c] = least /\ least <= slack[d] /\ slack[d] \in Nat /\ least \in Nat
    BY <1>2, <1>4
  <2>2. slack[d] = least => c <= d
    BY <1>4
  <2> QED
    BY <2>1, <2>2
<1>6. \E e \in C : \A d \in C : slack[e] < slack[d] \/ (slack[e] = slack[d] /\ e <= d)
  BY <1>5
<1>7. /\ Closest(slack, C) \in C
      /\ \A d \in C : \/ slack[Closest(slack, C)] < slack[d]
                      \/ slack[Closest(slack, C)] = slack[d] /\ Closest(slack, C) <= d
  BY <1>6, Zenon DEF Closest
<1> QED
  BY <1>7

-----------------------------------------------------------------------------
\* A turn of the scan.
ScanMoves(nearest, delta) ==
    /\ nearest \in Columns \ Reached
    /\ usedCols' = Reached /\ columnZero' = nearest /\ cost' = cost /\ p' = p
    /\ u' = [k \in 0 .. RowCount |-> IF \E c \in Reached : p[c] = k THEN u[k] + delta ELSE u[k]]
    /\ v' = [c \in AllColumns |-> IF c \in Reached THEN v[c] - delta ELSE v[c]]
    /\ way' \in [AllColumns -> AllColumns] /\ minv' \in [AllColumns -> Int]
    /\ \A c \in Reached : way'[c] = way[c]
    /\ \A c \in Columns \ Reached :
          /\ way'[c] \in Reached
          /\ minv'[c] = Reduced(p[way'[c]], c) - delta
          /\ minv'[c] >= 0
          /\ \A d \in Reached : minv'[c] <= Reduced(p[d], c) - delta
    /\ minv'[nearest] = 0
    /\ hpc' = IF p[nearest] = 0 THEN "augment" ELSE "scan"

LEMMA ReachedHaveRows ==
    ASSUME HungarianTypes, TreeIsTight, p[columnZero] # 0
    PROVE  /\ Reached \subseteq AllColumns
           /\ \A c \in Reached : p[c] \in 1 .. RowCount
BY HungarianNumbers DEF HungarianTypes, TreeIsTight, Reached

LEMMA ScanIsMove ==
    ASSUME HungarianInv, Scan
    PROVE  \E nearest \in Columns, delta \in Nat : ScanMoves(nearest, delta)
<1> USE DEF HungarianInv
<1> DEFINE r == p[columnZero]
           better == {c \in Columns \ Reached : Reduced(r, c) < minv[c]}
           slack == [c \in AllColumns |-> IF c \in better THEN Reduced(r, c) ELSE minv[c]]
           nearest == Closest(slack, Columns \ Reached)
           delta == slack[nearest]
           way1 == [c \in AllColumns |-> IF c \in better THEN columnZero ELSE way[c]]
<1>1. hpc = "scan" /\ TreeIsTight /\ Distances /\ p[columnZero] # 0
  BY DEF Scan, Scanning
<1>2. Reached \subseteq AllColumns /\ (\A c \in Reached : p[c] \in 1 .. RowCount)
  BY <1>1, ReachedHaveRows
<1>3. /\ columnZero \in Reached /\ r \in 1 .. RowCount
      /\ \A c \in Reached : c \in usedCols \/ c = columnZero
      /\ usedCols \subseteq Reached
  BY <1>2 DEF Reached
<1>4. \A c \in Columns \ Reached : c \in AllColumns /\ c \notin usedCols
  BY DEF AllColumns, Reached
<1>5. \A c \in Columns \ Reached :
        /\ slack[c] \in Nat /\ way1[c] \in Reached /\ slack[c] = Reduced(p[way1[c]], c)
        /\ \A d \in Reached : slack[c] <= Reduced(p[d], c)
  <2> SUFFICES ASSUME NEW c \in Columns \ Reached
               PROVE  /\ slack[c] \in Nat /\ way1[c] \in Reached /\ slack[c] = Reduced(p[way1[c]], c)
                      /\ \A d \in Reached : slack[c] <= Reduced(p[d], c)
    OBVIOUS
  <2>1. \A d \in Reached : Reduced(p[d], c) \in Int /\ Reduced(p[d], c) >= 0
    BY <1>2, ReducedIsNumber DEF DualFeasible
  <2>2. Reduced(r, c) \in Int /\ minv[c] \in Int
    BY <1>3, <1>4, <2>1 DEF HungarianTypes
  <2>3. c \in better <=> Reduced(r, c) < minv[c]
    OBVIOUS
  <2>4. /\ slack[c] = IF c \in better THEN Reduced(r, c) ELSE minv[c]
        /\ way1[c] = IF c \in better THEN columnZero ELSE way[c]
    BY <1>4
  <2> HIDE DEF better, slack, way1
  <2>5. CASE usedCols = {}
    <3>1. Reached = {columnZero} /\ minv[c] = Infinity
      BY <1>1, <2>5 DEF Distances, Reached
    <3>2. Reduced(r, c) < Infinity
      BY <1>1, <1>3, PotentialsAreBounded
    <3>3. slack[c] = Reduced(r, c) /\ way1[c] = columnZero
      BY <2>3, <2>4, <3>1, <3>2
    <3> QED
      BY <2>1, <2>2, <3>1, <3>3
  <2>6. CASE usedCols # {}
    <3>1. /\ way[c] \in usedCols /\ minv[c] = Reduced(p[way[c]], c)
          /\ \A d \in usedCols : minv[c] <= Reduced(p[d], c)
      BY <1>1, <1>4, <2>6 DEF Distances
    <3>2. slack[c] <= Reduced(r, c) /\ slack[c] <= minv[c]
      BY <2>2, <2>3, <2>4
    <3>3. \A d \in Reached : slack[c] <= Reduced(p[d], c)
      BY <1>3, <2>1, <2>2, <2>3, <2>4, <3>1, <3>2
    <3>4. way1[c] \in Reached /\ slack[c] = Reduced(p[way1[c]], c)
      BY <1>3, <2>4, <3>1
    <3> QED
      BY <2>1, <3>3, <3>4
  <2> QED
    BY <2>5, <2>6
<1>6. Columns \ Reached # {}
  <2>1. PICK c \in Columns : p[c] = 0
    BY <1>1, DummyIsFree
  <2> QED
    BY <1>2, <2>1
<1>7. nearest \in Columns \ Reached /\ \A d \in Columns \ Reached : slack[nearest] <= slack[d]
  <2>1. \A c \in Columns \ Reached : slack[c] \in Nat
    BY <1>5
  <2> HIDE DEF slack
  <2> QED
    BY <1>6, <2>1, ClosestIsClosest
<1>8. delta \in Nat
  BY <1>5, <1>7
<1>9. /\ DOMAIN way = AllColumns /\ DOMAIN u = 0 .. RowCount /\ DOMAIN v = AllColumns /\ DOMAIN minv = AllColumns
  BY DEF HungarianTypes
<1>10. /\ usedCols' = Reached /\ columnZero' = nearest /\ cost' = cost /\ p' = p
       /\ way' = way1
       /\ u' = [k \in 0 .. RowCount |-> IF \E c \in Reached : p[c] = k THEN u[k] + delta ELSE u[k]]
       /\ v' = [c \in AllColumns |-> IF c \in Reached THEN v[c] - delta ELSE v[c]]
       /\ minv' = [c \in AllColumns |-> IF c \in Reached THEN minv[c] ELSE slack[c] - delta]
       /\ hpc' = IF p[nearest] = 0 THEN "augment" ELSE "scan"
  BY <1>9 DEF Scan, Reached, AllColumns
<1>11. /\ way' \in [AllColumns -> AllColumns] /\ minv' \in [AllColumns -> Int]
       /\ \A c \in Reached : way'[c] = way[c]
  <2>1. \A c \in AllColumns : way1[c] \in AllColumns
    BY <1>2, <1>3 DEF HungarianTypes
  <2>2. \A c \in AllColumns : c \notin Reached => c \in Columns
    BY <1>1, HungarianNumbers DEF AllColumns, Distances, Reached
  <2>3. \A c \in AllColumns : minv[c] \in Int
    BY DEF HungarianTypes
  <2>4. \A c \in AllColumns : c \notin Reached => slack[c] - delta \in Int
    <3> HIDE DEF slack, delta, way1
    <3> QED
      BY <1>5, <1>8, <2>2
  <2>5. \A c \in Reached : way1[c] = way[c]
    BY <1>2
  <2>6. way1 \in [AllColumns -> AllColumns]
    BY <2>1
  <2>7. [c \in AllColumns |-> IF c \in Reached THEN minv[c] ELSE slack[c] - delta] \in [AllColumns -> Int]
    <3> HIDE DEF slack, delta
    <3> QED
      BY <2>3, <2>4
  <2> HIDE DEF way1, slack, delta
  <2> QED
    BY <1>10, <2>5, <2>6, <2>7
<1>12. \A c \in Columns \ Reached : minv'[c] = slack[c] - delta
  <2> HIDE DEF slack, delta
  <2> QED
    BY <1>4, <1>10
<1>13. \A c \in Columns \ Reached :
          /\ way'[c] \in Reached
          /\ minv'[c] = Reduced(p[way'[c]], c) - delta
          /\ minv'[c] >= 0
          /\ \A d \in Reached : minv'[c] <= Reduced(p[d], c) - delta
  <2> SUFFICES ASSUME NEW c \in Columns \ Reached
               PROVE  /\ way'[c] \in Reached
                      /\ minv'[c] = Reduced(p[way'[c]], c) - delta
                      /\ minv'[c] >= 0
                      /\ \A d \in Reached : minv'[c] <= Reduced(p[d], c) - delta
    OBVIOUS
  <2>1. \A d \in Reached : Reduced(p[d], c) \in Int
    BY <1>2, ReducedIsNumber
  <2>2. slack[nearest] <= slack[c] /\ slack[c] \in Nat
    BY <1>5, <1>7
  <2>3. way'[c] = way1[c] /\ minv'[c] = slack[c] - delta
    BY <1>10, <1>12
  <2> HIDE DEF slack, way1, nearest
  <2> QED
    BY <1>5, <1>8, <2>1, <2>2, <2>3
<1>14. minv'[nearest] = 0
  <2> HIDE DEF slack, nearest
  <2> QED
    BY <1>7, <1>8, <1>12
<1>15. ScanMoves(nearest, delta)
  <2> HIDE DEF nearest, delta, slack, way1
  <2> QED
    BY <1>7, <1>10, <1>11, <1>13, <1>14 DEF ScanMoves
<1> QED
  BY <1>7, <1>8, <1>15

\* How a turn moves the reduced costs: those between the tree and the rest fall,
\* the others on the tree's side or on the other do not.
LEMMA ReducedMoves ==
    ASSUME HungarianTypes, NEW nearest, NEW delta \in Nat, ScanMoves(nearest, delta),
           Reached \subseteq AllColumns, NEW r \in 1 .. RowCount, NEW c \in Columns
    PROVE  Reduced(r, c)' = Reduced(r, c) - (IF \E d \in Reached : p[d] = r THEN delta ELSE 0)
                                          + (IF c \in Reached THEN delta ELSE 0)
<1>1. Edge(r, c)' = Edge(r, c) /\ Edge(r, c) \in Nat
  BY EdgesAreNumbers DEF ScanMoves, Edge, HungarianTypes
<1>2. u[r] \in Nat /\ v[c] \in Int /\ r \in 0 .. RowCount /\ c \in AllColumns
  BY ReducedIsNumber, HungarianNumbers DEF AllColumns
<1>3. u'[r] = IF \E d \in Reached : p[d] = r THEN u[r] + delta ELSE u[r]
  BY <1>2 DEF ScanMoves
<1>4. v'[c] = IF c \in Reached THEN v[c] - delta ELSE v[c]
  BY <1>2 DEF ScanMoves
<1> QED
  BY <1>1, <1>2, <1>3, <1>4 DEF Reduced

LEMMA ScanKeepsTypes ==
    ASSUME HungarianTypes, NEW nearest, NEW delta \in Nat, ScanMoves(nearest, delta), Reached \subseteq AllColumns
    PROVE  HungarianTypes'
<1>1. \A k \in 0 .. RowCount : u[k] + delta \in Nat
  <2> SUFFICES ASSUME NEW k \in 0 .. RowCount PROVE u[k] + delta \in Nat
    OBVIOUS
  <2>1. u[k] \in Nat
    BY DEF HungarianTypes
  <2> QED
    BY <2>1
<1>2. \A c \in AllColumns : v[c] - delta \in Int
  <2> SUFFICES ASSUME NEW c \in AllColumns PROVE v[c] - delta \in Int
    OBVIOUS
  <2>1. v[c] \in Int
    BY DEF HungarianTypes
  <2> QED
    BY <2>1
<1>3. u' \in [0 .. RowCount -> Nat] /\ v' \in [AllColumns -> Int]
  <2>1. \A k \in 0 .. RowCount : u[k] \in Nat
    BY DEF HungarianTypes
  <2>2. \A c \in AllColumns : v[c] \in Int
    BY DEF HungarianTypes
  <2>3. u' \in [0 .. RowCount -> Nat]
    BY <1>1, <2>1 DEF ScanMoves
  <2>4. v' \in [AllColumns -> Int]
    BY <1>2, <2>2 DEF ScanMoves
  <2> QED
    BY <2>3, <2>4
<1>4. nearest \in AllColumns /\ hpc' \in {"scan", "augment", "done"}
  BY DEF ScanMoves, AllColumns
<1>5. /\ way' \in [AllColumns -> AllColumns] /\ minv' \in [AllColumns -> Int] /\ cost' = cost /\ p' = p
      /\ usedCols' = Reached /\ columnZero' = nearest
  BY DEF ScanMoves
<1>6. AllColumns' = AllColumns
  BY DEF AllColumns, Columns
<1> HIDE DEF AllColumns
<1> QED
  BY <1>3, <1>4, <1>5, <1>6 DEF HungarianTypes

LEMMA ScanKeeps == HungarianInv /\ Scan => HungarianInv'
<1> SUFFICES ASSUME HungarianInv, Scan PROVE HungarianInv'
  OBVIOUS
<1> USE DEF HungarianInv
<1>1. PICK nearest \in Columns, delta \in Nat : ScanMoves(nearest, delta)
  BY ScanIsMove
<1>2. hpc = "scan" /\ TreeIsTight /\ Distances /\ p[columnZero] # 0
  BY DEF Scan, Scanning
<1>3. Reached \subseteq AllColumns /\ (\A c \in Reached : p[c] \in 1 .. RowCount)
  BY <1>2, ReachedHaveRows
<1>4. /\ usedCols' = Reached /\ columnZero' = nearest /\ nearest \notin Reached
      /\ p' = p /\ hpc' = (IF p[nearest] = 0 THEN "augment" ELSE "scan")
      /\ 0 \in Reached /\ usedCols \subseteq Reached /\ Reached' = Reached \cup {nearest}
  BY <1>1, <1>2 DEF ScanMoves, Distances, Reached
<1>5. \A r \in 1 .. RowCount, c \in Columns :
         /\ Reduced(r, c)' = Reduced(r, c) - (IF \E d \in Reached : p[d] = r THEN delta ELSE 0)
                                           + (IF c \in Reached THEN delta ELSE 0)
         /\ Reduced(r, c) \in Int
  BY <1>1, <1>3, ReducedMoves, ReducedIsNumber
\* From a column of the tree to one of the tree, or to one outside.
<1>6. \A d \in Reached, c \in Columns :
         Reduced(p[d], c)' = IF c \in Reached THEN Reduced(p[d], c) ELSE Reduced(p[d], c) - delta
  <2> SUFFICES ASSUME NEW d \in Reached, NEW c \in Columns
               PROVE  Reduced(p[d], c)' = IF c \in Reached THEN Reduced(p[d], c)
                                          ELSE Reduced(p[d], c) - delta
    OBVIOUS
  <2>1. PICK r \in 1 .. RowCount : r = p[d] /\ r = p'[d]
    BY <1>3, <1>4
  <2>2. Reduced(p[d], c) = Reduced(r, c) /\ Reduced(p[d], c)' = Reduced(r, c)'
    BY <2>1
  <2>3. /\ Reduced(r, c)' = Reduced(r, c) - delta + (IF c \in Reached THEN delta ELSE 0)
        /\ Reduced(r, c) \in Int
    BY <1>5, <2>1
  <2> QED
    BY <2>2, <2>3
<1>7. HungarianTypes'
  BY <1>1, <1>3, ScanKeepsTypes
<1>8. OneColumnEach'
  <2>1. RowsDone' = RowsDone
    BY <1>2, <1>4 DEF RowsDone
  <2> QED
    BY <1>4, <2>1 DEF OneColumnEach
<1>9. DualFeasible'
  <2>1. \A c \in Columns : v'[c] <= 0 /\ (p'[c] = 0 => v'[c] = 0)
    <3> SUFFICES ASSUME NEW c \in Columns PROVE v'[c] <= 0 /\ (p'[c] = 0 => v'[c] = 0)
      OBVIOUS
    <3>1. v'[c] = IF c \in Reached THEN v[c] - delta ELSE v[c]
      BY <1>1 DEF ScanMoves, AllColumns
    <3>2. v[c] \in Int /\ v[c] <= 0 /\ (p[c] = 0 => v[c] = 0)
      BY DEF DualFeasible, HungarianTypes, AllColumns
    <3>3. c \in Reached => p[c] # 0
      BY <1>3
    <3> QED
      BY <1>4, <3>1, <3>2, <3>3
  <2>2. \A r \in 1 .. RowCount, c \in Columns : Reduced(r, c)' >= 0
    <3> SUFFICES ASSUME NEW r \in 1 .. RowCount, NEW c \in Columns PROVE Reduced(r, c)' >= 0
      OBVIOUS
    <3>1. Reduced(r, c) \in Int /\ Reduced(r, c) >= 0
      BY <1>5 DEF DualFeasible
    <3>2. CASE c \notin Reached /\ \E d \in Reached : p[d] = r
      <4>1. PICK d \in Reached : p[d] = r
        BY <3>2
      <4>2. minv'[c] >= 0 /\ minv'[c] <= Reduced(r, c) - delta /\ minv'[c] \in Int
        BY <1>1, <3>2, <4>1 DEF ScanMoves, AllColumns
      <4>3. Reduced(r, c)' = Reduced(r, c) - delta + 0
        BY <1>5, <3>2
      <4> QED
        BY <3>1, <4>2, <4>3
    <3>3. CASE c \in Reached \/ ~\E d \in Reached : p[d] = r
      <4>1. PICK x \in Int, y \in Int :
                /\ x = (IF \E d \in Reached : p[d] = r THEN delta ELSE 0)
                /\ y = (IF c \in Reached THEN delta ELSE 0)
        OBVIOUS
      <4>2. Reduced(r, c)' = Reduced(r, c) - x + y
        BY <1>5, <4>1
      <4>3. x <= y
        BY <3>3, <4>1
      <4> QED
        BY <3>1, <4>2, <4>3
    <3> QED
      BY <3>2, <3>3
  <2>3. \A c \in Columns : p[c] # 0 => Reduced(p[c], c)' = 0
    <3> SUFFICES ASSUME NEW c \in Columns, p[c] # 0 PROVE Reduced(p[c], c)' = 0
      OBVIOUS
    <3>1. Reduced(p[c], c) = 0
      BY DEF DualFeasible
    <3>2. CASE c \in Reached
      BY <1>6, <3>1, <3>2
    <3>3. CASE c \notin Reached
      <4>1. ~\E d \in Reached : p[d] = p[c]
        <5> SUFFICES ASSUME NEW d \in Reached, p[d] = p[c] PROVE FALSE
          OBVIOUS
        <5>1. d \notin Columns
          BY <3>3 DEF OneColumnEach
        <5>2. d = 0
          BY <1>3, <5>1 DEF AllColumns
        <5>3. p[c] <= p[0] - 1 /\ p[0] \in Int
          BY <1>2 DEF OneColumnEach, RowsDone, HungarianTypes, AllColumns
        <5> QED
          BY <5>2, <5>3
      <4>2. PICK r \in 1 .. RowCount : r = p[c] /\ r = p'[c]
        BY <1>4, HungarianNumbers DEF HungarianTypes, AllColumns
      <4>3. Reduced(r, c) = 0 /\ Reduced(p[c], c)' = Reduced(r, c)'
        BY <3>1, <4>2
      <4>4. Reduced(r, c)' = Reduced(r, c) - 0 + 0
        BY <1>5, <3>3, <4>1, <4>2
      <4> QED
        BY <4>3, <4>4
    <3> QED
      BY <3>2, <3>3
  <2>4. \A c \in Columns : p'[c] # 0 => Reduced(p[c], c)' = 0
    BY <1>4, <2>3
  <2> QED
    BY <2>1, <2>2, <2>4 DEF DualFeasible
<1>10. TreeIsTight'
  <2>1. \A c \in usedCols' : p'[c] # 0
    BY <1>3, <1>4
  <2>2. \A c \in Reached \ {0} : way'[c] \in Reached /\ Reduced(p[way[c]], c)' = 0
    <3> SUFFICES ASSUME NEW c \in Reached \ {0}
                 PROVE  way'[c] \in Reached /\ Reduced(p[way[c]], c)' = 0
      OBVIOUS
    <3>1. way'[c] = way[c] /\ way[c] \in usedCols /\ Reduced(p[way[c]], c) = 0 /\ c \in Columns
      BY <1>1, <1>2, <1>3 DEF ScanMoves, TreeIsTight, AllColumns
    <3>2. PICK d \in Reached : d = way[c] /\ d = way'[c]
      BY <1>4, <3>1
    <3>3. Reduced(p[d], c)' = Reduced(p[d], c)
      BY <1>6, <3>1
    <3> QED
      BY <3>1, <3>2, <3>3
  <2>3. way'[nearest] \in Reached /\ Reduced(p[way[nearest]], nearest)' = 0
    <3>1. /\ way'[nearest] \in Reached /\ minv'[nearest] = 0
          /\ minv'[nearest] = Reduced(p[way'[nearest]], nearest) - delta
      BY <1>1, <1>4 DEF ScanMoves
    <3>2. PICK d \in Reached : d = way'[nearest]
      BY <3>1
    <3>3. Reduced(p[d], nearest)' = Reduced(p[d], nearest) - delta
      BY <1>4, <1>6
    <3> QED
      BY <3>1, <3>2, <3>3
  <2>4. \A S \in SUBSET Reached' : S # {} /\ (\A c \in S \ {0} : way'[c] \in S) => 0 \in S
    <3> SUFFICES ASSUME NEW S \in SUBSET (Reached \cup {nearest}), S # {}, \A c \in S \ {0} : way'[c] \in S
                 PROVE  0 \in S
      BY <1>4
    <3> DEFINE R == S \ {nearest}
    <3>0. nearest # 0
      BY <1>4
    <3>1. R \in SUBSET Reached /\ R # {}
      BY <2>3, <3>0, <1>4
    <3>2. \A c \in R \ {0} : way[c] \in R
      <4> SUFFICES ASSUME NEW c \in R \ {0} PROVE way[c] \in R
        OBVIOUS
      <4>1. c \in Reached \ {0} /\ way'[c] \in S
        OBVIOUS
      <4>2. way'[c] = way[c] /\ way[c] \in usedCols
        BY <1>1, <1>2, <4>1 DEF ScanMoves, TreeIsTight
      <4> QED
        BY <1>4, <4>1, <4>2
    <3>3. 0 \in R
      <4> HIDE DEF R
      <4> QED
        BY <1>2, <3>1, <3>2 DEF TreeIsTight
    <3> QED
      BY <3>3
  <2>5. \A c \in Reached' \ {0} : way'[c] \in usedCols' /\ Reduced(p[way[c]], c)' = 0
    <3> SUFFICES ASSUME NEW c \in (Reached \cup {nearest}) \ {0}
                 PROVE  way'[c] \in usedCols' /\ Reduced(p[way[c]], c)' = 0
      BY <1>4
    <3>1. CASE c \in Reached
      BY <1>4, <2>2, <3>1
    <3>2. CASE c = nearest
      BY <1>4, <2>3, <3>2
    <3> QED
      BY <3>1, <3>2
  <2> QED
    BY <2>1, <2>4, <2>5 DEF TreeIsTight
<1>11. Distances'
  <2>1. \A c \in Columns \ Reached :
           /\ way'[c] \in Reached /\ minv'[c] = Reduced(p[way[c]], c)'
           /\ \A d \in Reached : minv'[c] <= Reduced(p[d], c)'
    <3> SUFFICES ASSUME NEW c \in Columns \ Reached
                 PROVE  /\ way'[c] \in Reached /\ minv'[c] = Reduced(p[way[c]], c)'
                        /\ \A d \in Reached : minv'[c] <= Reduced(p[d], c)'
      OBVIOUS
    <3>1. /\ way'[c] \in Reached /\ minv'[c] = Reduced(p[way'[c]], c) - delta
          /\ \A d \in Reached : minv'[c] <= Reduced(p[d], c) - delta
      BY <1>1 DEF ScanMoves
    <3>2. \A d \in Reached : Reduced(p[d], c)' = Reduced(p[d], c) - delta
      BY <1>6
    <3>3. PICK w \in Reached : w = way'[c]
      BY <3>1
    <3>4. Reduced(p[w], c)' = Reduced(p[w], c) - delta
      BY <3>2
    <3> QED
      BY <3>1, <3>2, <3>3, <3>4
  <2> QED
    BY <1>4, <2>1 DEF Distances
<1>12. Scanning'
  BY <1>4, <1>10, <1>11 DEF Scanning
<1> QED
  BY <1>7, <1>8, <1>9, <1>12

-----------------------------------------------------------------------------
\* The path leads through the tree from the free column to column 0.
LEMMA PathLeadsBack ==
    ASSUME HungarianInv, hpc = "augment", NEW path, path = PathFrom(columnZero)
    PROVE  /\ path \subseteq Reached \ {0} /\ path \subseteq Columns
           /\ columnZero \in path /\ p[columnZero] = 0
           /\ \A c \in path : way[c] \in usedCols
           /\ \A d \in path : d # columnZero => \E c \in path : way[c] = d
           /\ \E c \in path : way[c] = 0
<1> USE DEF HungarianInv
<1>1. TreeIsTight /\ Distances /\ p[columnZero] = 0
  BY DEF Scanning
<1>2. columnZero \in Columns /\ DOMAIN way = AllColumns /\ Reached \subseteq AllColumns
  BY <1>1 DEF HungarianTypes, AllColumns, Reached
<1> DEFINE Follows(S) == columnZero \in S /\ \A e \in S \ {0} : way[e] \in S
<1>3. \A d : d \in path <=> d \in Columns /\ \A S \in SUBSET AllColumns : Follows(S) => d \in S
  BY <1>2 DEF PathFrom
<1>4. path \subseteq Columns /\ columnZero \in path
  BY <1>2, <1>3
<1>5. \A c \in Reached \ {0} : way[c] \in usedCols
  BY <1>1 DEF TreeIsTight
<1>6. Follows(Reached)
  BY <1>5 DEF Reached
<1>7. path \subseteq Reached \ {0}
  <2> HIDE DEF Follows
  <2> QED
    BY <1>2, <1>3, <1>4, <1>6, HungarianNumbers
<1>8. \A c \in path : way[c] \in usedCols
  BY <1>5, <1>7
<1>9. \A c \in path : way[c] = 0 \/ way[c] \in path
  <2> SUFFICES ASSUME NEW c \in path, way[c] # 0 PROVE way[c] \in path
    OBVIOUS
  <2>1. way[c] \in Columns
    BY <1>2, <1>8 DEF AllColumns, Reached
  <2>2. \A S \in SUBSET AllColumns : Follows(S) => way[c] \in S
    <3> SUFFICES ASSUME NEW S \in SUBSET AllColumns, Follows(S) PROVE way[c] \in S
      OBVIOUS
    <3>1. c \in S /\ c # 0
      BY <1>3, <1>4, HungarianNumbers
    <3> QED
      BY <3>1
  <2> HIDE DEF Follows
  <2> QED
    BY <1>3, <2>1, <2>2
<1>10. \A d \in path : d # columnZero => \E c \in path : way[c] = d
  <2> SUFFICES ASSUME NEW d \in path, d # columnZero, \A c \in path : way[c] # d PROVE FALSE
    OBVIOUS
  <2> DEFINE S == ({0} \cup path) \ {d}
  <2>1. S \in SUBSET AllColumns /\ d \notin S /\ d # 0
    BY <1>4, HungarianNumbers DEF AllColumns
  <2>2. Follows(S)
    BY <1>4, <1>9, <2>1
  <2> HIDE DEF S, Follows
  <2> QED
    BY <1>3, <2>1, <2>2
<1>11. \E c \in path : way[c] = 0
  <2> SUFFICES ASSUME \A c \in path : way[c] # 0 PROVE FALSE
    OBVIOUS
  <2>1. path \in SUBSET Reached /\ path # {} /\ \A c \in path \ {0} : way[c] \in path
    BY <1>4, <1>7, <1>9
  <2>2. 0 \in path
    BY <1>1, <2>1 DEF TreeIsTight
  <2> QED
    BY <1>7, <2>2
<1> QED
  BY <1>1, <1>4, <1>7, <1>8, <1>10, <1>11

\* A map of a finite set of columns onto as many rows meets no row twice.
LEMMA OntoIsOneToOne ==
    ASSUME NEW C, NEW D, NEW n \in Nat, NEW c, NEW g, NEW h,
           g \in Bijection(C, 1 .. n), c \notin C, D = C \cup {c},
           h \in Surjection(D, 1 .. n + 1)
    PROVE  h \in Injection(D, 1 .. n + 1)
<1>1. IsFiniteSet(C) /\ Cardinality(C) = n
  <2>1. ExistsBijection(C, 1 .. n)
    BY DEF ExistsBijection
  <2>2. ExistsBijection(1 .. n, C)
    BY <2>1, Fun_ExistsBijSymmetric
  <2> QED
    BY <2>2, FS_Bijection, NaturalIndices
<1>2. IsFiniteSet(D) /\ Cardinality(D) = n + 1
  BY <1>1, FS_AddElement
<1>3. n + 1 \in Nat /\ Cardinality(1 .. n + 1) = n + 1
  BY NaturalIndices
<1> QED
  BY <1>2, <1>3, FS_SurjSameCardinalityImpliesInj

Matched == {c \in Columns : p[c] # 0}

LEMMA MatchedAreRows ==
    ASSUME HungarianTypes, OneColumnEach, RowsDone \in Nat
    PROVE  [c \in Matched |-> p[c]] \in Bijection(Matched, 1 .. RowsDone)
<1>1. \A c \in Matched : p[c] \in 1 .. RowsDone
  BY DEF Matched, OneColumnEach, HungarianTypes, AllColumns
<1>2. \A c, d \in Matched : p[c] = p[d] => c = d
  BY DEF Matched, OneColumnEach
<1>3. \A r \in 1 .. RowsDone : \E c \in Matched : p[c] = r
  BY DEF Matched, OneColumnEach
<1> QED
  BY <1>1, <1>2, <1>3 DEF Bijection, Injection, Surjection, IsInjective

LEMMA AugmentKeeps == HungarianInv /\ Augment => HungarianInv'
<1> SUFFICES ASSUME HungarianInv, Augment PROVE HungarianInv'
  OBVIOUS
<1> USE DEF HungarianInv
<1>1. PICK path : path = PathFrom(columnZero)
  OBVIOUS
<1>2. /\ path \subseteq Reached \ {0} /\ path \subseteq Columns
      /\ columnZero \in path /\ p[columnZero] = 0
      /\ \A c \in path : way[c] \in usedCols
      /\ \A d \in path : d # columnZero => \E c \in path : way[c] = d
      /\ \E c \in path : way[c] = 0
  BY <1>1, PathLeadsBack DEF Augment
<1>3. TreeIsTight /\ Distances /\ hpc = "augment"
  BY DEF Augment, Scanning
<1>4. /\ p[0] \in 1 .. RowCount /\ RowsDone = p[0] - 1 /\ RowsDone \in Nat
      /\ \A c \in usedCols : c \in AllColumns /\ p[c] \in 1 .. p[0]
  <2>1. p[0] \in 1 .. RowCount
    BY HungarianNumbers DEF HungarianTypes, AllColumns
  <2>2. RowsDone = p[0] - 1 /\ RowsDone \in Nat
    BY <1>3, <2>1, HungarianNumbers DEF RowsDone
  <2>3. \A c \in usedCols : c \in AllColumns /\ p[c] \in 1 .. p[0]
    <3> SUFFICES ASSUME NEW c \in usedCols PROVE c \in AllColumns /\ p[c] \in 1 .. p[0]
      OBVIOUS
    <3>1. c \in AllColumns /\ p[c] # 0 /\ p[c] \in 0 .. RowCount
      BY <1>3 DEF HungarianTypes, TreeIsTight
    <3>2. c # 0 => p[c] <= p[0] - 1
      BY <2>2, <3>1 DEF OneColumnEach, AllColumns
    <3> QED
      BY <2>1, <3>1, <3>2, HungarianNumbers
  <2> QED
    BY <2>1, <2>2, <2>3
\* What changes: the rows along the path, and where the nearest scan begins.
<1>5. /\ \A c \in Columns : p'[c] = IF c \in path THEN p[way[c]] ELSE p[c]
      /\ p'[0] = IF p[0] = RowCount THEN p[0] ELSE p[0] + 1
      /\ p' \in [AllColumns -> 0 .. RowCount] /\ p'[0] # 0
  <2>1. DOMAIN p = AllColumns /\ 0 \in AllColumns
    BY DEF HungarianTypes, AllColumns
  <2>2. p' = [c \in AllColumns |-> IF c \in path THEN p[way[c]]
                              ELSE IF c = 0 /\ p[0] # RowCount THEN p[0] + 1 ELSE p[c]]
    BY <1>1, <2>1 DEF Augment
  <2>3. 0 \notin path
    BY <1>2
  <2>4. \A c \in Columns : p'[c] = IF c \in path THEN p[way[c]] ELSE p[c]
    BY <2>2, HungarianNumbers DEF AllColumns
  <2>5. p'[0] = IF p[0] = RowCount THEN p[0] ELSE p[0] + 1
    BY <2>1, <2>2, <2>3
  <2>6. \A c \in AllColumns : p[c] \in 0 .. RowCount
    BY DEF HungarianTypes
  <2>7. \A c \in path : p[way[c]] \in 0 .. RowCount
    <3> SUFFICES ASSUME NEW c \in path PROVE p[way[c]] \in 0 .. RowCount
      OBVIOUS
    <3>1. way[c] \in AllColumns
      BY <1>2, <1>4
    <3> QED
      BY <2>6, <3>1
  <2>8. p[0] # RowCount => p[0] + 1 \in 0 .. RowCount
    BY <1>4, HungarianNumbers
  <2>9. p' \in [AllColumns -> 0 .. RowCount]
    BY <2>2, <2>6, <2>7, <2>8
  <2> QED
    BY <1>4, <2>4, <2>5, <2>9
<1>6. /\ UNCHANGED <<cost, u, v, way>>
      /\ p[0] = RowCount => hpc' = "done" /\ UNCHANGED <<columnZero, minv, usedCols>>
      /\ p[0] # RowCount => hpc' = "scan" /\ StartRow
  BY DEF Augment
<1>7. RowsDone' = p[0] /\ hpc' \in {"scan", "done"}
  BY <1>4, <1>5, <1>6 DEF RowsDone
<1>8. HungarianTypes'
  <2>1. CASE p[0] = RowCount
    <3>1. hpc' = "done" /\ UNCHANGED <<cost, u, v, way, columnZero, minv, usedCols>>
      BY <1>6, <2>1
    <3>2. AllColumns' = AllColumns
      BY DEF AllColumns, Columns
    <3> QED
      BY <1>5, <3>1, <3>2 DEF HungarianTypes
  <2>2. CASE p[0] # RowCount
    <3>1. columnZero' = 0 /\ usedCols' = {} /\ minv' = [c \in AllColumns |-> Infinity]
      BY <1>6, <2>2 DEF StartRow, AllColumns
    <3>2. minv' \in [AllColumns -> Int] /\ columnZero' \in AllColumns /\ usedCols' \subseteq AllColumns
      BY <3>1, HungarianNumbers DEF AllColumns
    <3>3. AllColumns' = AllColumns
      BY DEF AllColumns, Columns
    <3> QED
      BY <1>5, <1>6, <2>2, <3>2, <3>3 DEF HungarianTypes
  <2> QED
    BY <2>1, <2>2
<1>9. OneColumnEach'
  <2> DEFINE h == [c \in Matched \cup {columnZero} |-> p'[c]]
             g == [c \in Matched |-> p[c]]
  <2>1. g \in Bijection(Matched, 1 .. p[0] - 1)
    BY <1>4, MatchedAreRows
  <2>2. columnZero \notin Matched /\ columnZero \in Columns
    BY <1>2 DEF Matched
  <2>3. \A c \in Columns : c \in Matched \cup {columnZero} <=> p'[c] # 0
    <3> SUFFICES ASSUME NEW c \in Columns PROVE c \in Matched \cup {columnZero} <=> p'[c] # 0
      OBVIOUS
    <3>1. CASE c \in path
      <4>1. p'[c] # 0
        BY <1>2, <1>4, <1>5, <3>1
      <4>2. c \in Matched \cup {columnZero}
        BY <1>2, <1>4, <3>1 DEF Matched, Reached
      <4> QED
        BY <4>1, <4>2
    <3>2. CASE c \notin path
      BY <1>2, <1>5, <3>2 DEF Matched
    <3> QED
      BY <3>1, <3>2
  <2>4. \A c \in Columns : p'[c] \in 0 .. p[0]
    <3> SUFFICES ASSUME NEW c \in Columns PROVE p'[c] \in 0 .. p[0]
      OBVIOUS
    <3>1. CASE c \in path
      BY <1>2, <1>4, <1>5, <3>1
    <3>2. CASE c \notin path
      <4>1. p[c] <= p[0] - 1 /\ p[c] \in 0 .. RowCount
        BY <1>4 DEF OneColumnEach, HungarianTypes, AllColumns
      <4> QED
        BY <1>4, <1>5, <3>2, <4>1
    <3> QED
      BY <3>1, <3>2
  <2>5. \A r \in 1 .. p[0] : \E c \in Columns : p'[c] = r
    <3> SUFFICES ASSUME NEW r \in 1 .. p[0] PROVE \E c \in Columns : p'[c] = r
      OBVIOUS
    <3>1. CASE r = p[0]
      <4>1. PICK c \in path : way[c] = 0
        BY <1>2
      <4> QED
        BY <1>2, <1>5, <3>1, <4>1
    <3>2. CASE r # p[0]
      <4>1. PICK d \in Columns : p[d] = r
        BY <1>4, <3>2 DEF OneColumnEach
      <4>2. CASE d \in path
        <5>1. d # columnZero
          BY <1>2, <4>1
        <5>2. PICK c \in path : way[c] = d
          BY <1>2, <4>2, <5>1
        <5> QED
          BY <1>2, <1>5, <4>1, <5>2
      <4>3. CASE d \notin path
        BY <1>5, <4>1, <4>3
      <4> QED
        BY <4>2, <4>3
    <3> QED
      BY <3>1, <3>2
  <2>6. h \in Surjection(Matched \cup {columnZero}, 1 .. p[0])
    <3>1. \A c \in Matched \cup {columnZero} : c \in Columns /\ p'[c] \in 1 .. p[0]
      BY <1>4, <2>2, <2>3, <2>4 DEF Matched
    <3>2. \A r \in 1 .. p[0] : \E c \in Matched \cup {columnZero} : p'[c] = r
      BY <1>4, <2>3, <2>5
    <3> QED
      BY <3>1, <3>2 DEF Surjection
  <2>7. h \in Injection(Matched \cup {columnZero}, 1 .. p[0])
    <3> HIDE DEF g, h
    <3>1. PICK n \in Nat : n = p[0] - 1 /\ p[0] = n + 1
      BY <1>4
    <3>2. g \in Bijection(Matched, 1 .. n) /\ h \in Surjection(Matched \cup {columnZero}, 1 .. n + 1)
      BY <2>1, <2>6, <3>1
    <3>3. h \in Injection(Matched \cup {columnZero}, 1 .. n + 1)
      BY <2>2, <3>2, OntoIsOneToOne
    <3> QED
      BY <3>1, <3>3
  <2>8. \A c, d \in Columns : p'[c] # 0 /\ p'[c] = p'[d] => c = d
    <3> SUFFICES ASSUME NEW c \in Columns, NEW d \in Columns, p'[c] # 0, p'[c] = p'[d] PROVE c = d
      OBVIOUS
    <3>1. c \in Matched \cup {columnZero} /\ d \in Matched \cup {columnZero}
      BY <2>3
    <3>2. h[c] = h[d]
      BY <3>1
    <3> HIDE DEF h
    <3> QED
      BY <2>7, <3>1, <3>2 DEF Injection, IsInjective
  <2>9. \A c \in Columns : p'[c] <= p[0]
    BY <1>4, <2>4
  <2> QED
    BY <1>7, <2>5, <2>8, <2>9 DEF OneColumnEach
<1>10. DualFeasible'
  <2>1. \A r, c : Reduced(r, c)' = Reduced(r, c)
    BY <1>6 DEF Reduced, Edge
  <2>2. \A c \in Columns : v'[c] <= 0 /\ (p'[c] = 0 => v'[c] = 0)
    <3> SUFFICES ASSUME NEW c \in Columns PROVE v'[c] <= 0 /\ (p'[c] = 0 => v'[c] = 0)
      OBVIOUS
    <3>1. v'[c] = v[c] /\ v[c] <= 0 /\ (p[c] = 0 => v[c] = 0)
      BY <1>6 DEF DualFeasible
    <3>2. p'[c] = 0 => p[c] = 0
      BY <1>2, <1>4, <1>5
    <3> QED
      BY <3>1, <3>2
  <2>3. \A c \in Columns : p'[c] # 0 => Reduced(p[c], c)' = 0
    <3> SUFFICES ASSUME NEW c \in Columns, p'[c] # 0 PROVE Reduced(p[c], c)' = 0
      OBVIOUS
    <3>1. PICK r : r = p'[c]
      OBVIOUS
    <3>2. Reduced(p[c], c)' = Reduced(r, c)
      BY <2>1, <3>1
    <3>3. CASE c \in path
      <4>1. c \in Reached \ {0} /\ r = p[way[c]]
        BY <1>2, <1>5, <3>1, <3>3
      <4> QED
        BY <1>3, <3>2, <4>1 DEF TreeIsTight
    <3>4. CASE c \notin path
      BY <1>5, <3>1, <3>2, <3>4 DEF DualFeasible
    <3> QED
      BY <3>3, <3>4
  <2>4. \A r \in 1 .. RowCount, c \in Columns : Reduced(r, c)' >= 0
    BY <2>1 DEF DualFeasible
  <2> QED
    BY <2>2, <2>3, <2>4 DEF DualFeasible
<1>11. Scanning'
  <2>1. CASE p[0] = RowCount
    BY <1>6, <2>1 DEF Scanning
  <2>2. CASE p[0] # RowCount
    <3>1. columnZero' = 0 /\ usedCols' = {} /\ minv' = [c \in AllColumns |-> Infinity] /\ hpc' = "scan"
      BY <1>6, <2>2 DEF StartRow, AllColumns
    <3>2. Reached' = {0}
      BY <3>1 DEF Reached
    <3>3. TreeIsTight'
      BY <3>1, <3>2 DEF TreeIsTight
    <3>4. Distances'
      BY <3>1 DEF Distances, AllColumns
    <3> QED
      BY <1>5, <3>1, <3>3, <3>4 DEF Scanning
  <2> QED
    BY <2>1, <2>2
<1> QED
  BY <1>8, <1>9, <1>10, <1>11

LEMMA HungarianBegins == HInit => HungarianInv
<1> SUFFICES ASSUME HInit PROVE HungarianInv
  OBVIOUS
<1> USE DEF HInit
<1>1. /\ p \in [AllColumns -> 0 .. RowCount] /\ p[0] = 1 /\ \A c \in Columns : p[c] = 0
  BY HungarianNumbers DEF AllColumns
<1>2. HungarianTypes
  BY <1>1, HungarianNumbers DEF HungarianTypes, AllColumns
<1>3. OneColumnEach
  BY <1>1 DEF OneColumnEach, RowsDone
<1>4. \A r \in 1 .. RowCount, c \in Columns : u[r] = 0 /\ v[c] = 0
  BY HungarianNumbers
<1>5. DualFeasible
  <2>1. \A r \in 1 .. RowCount, c \in Columns : Reduced(r, c) >= 0
    <3> SUFFICES ASSUME NEW r \in 1 .. RowCount, NEW c \in Columns PROVE Reduced(r, c) >= 0
      OBVIOUS
    <3>1. Edge(r, c) \in Nat
      BY EdgesAreNumbers
    <3> QED
      BY <1>4, <3>1 DEF Reduced
  <2>2. \A c \in Columns : v[c] = 0
    OBVIOUS
  <2> QED
    BY <1>1, <2>1, <2>2 DEF DualFeasible
<1>6. Reached = {0}
  BY DEF Reached
<1>7. TreeIsTight
  BY <1>6 DEF TreeIsTight
<1>8. Distances
  BY DEF Distances
<1>9. Scanning
  BY <1>1, <1>7, <1>8 DEF Scanning
<1> QED
  BY <1>2, <1>3, <1>5, <1>9 DEF HungarianInv

LEMMA HungarianStep == HungarianInv /\ [HNext]_hvars => HungarianInv'
<1> SUFFICES ASSUME HungarianInv, [HNext]_hvars PROVE HungarianInv'
  OBVIOUS
<1>1. CASE Scan
  BY <1>1, ScanKeeps
<1>2. CASE Augment
  BY <1>2, AugmentKeeps
<1>3. CASE UNCHANGED hvars
  <2> USE <1>3 DEF hvars, HungarianInv
  <2>1. \A r, c : Reduced(r, c)' = Reduced(r, c)
    BY DEF Reduced, Edge
  <2>2. AllColumns' = AllColumns /\ Reached' = Reached /\ RowsDone' = RowsDone
    BY DEF AllColumns, Columns, Reached, RowsDone
  <2>3. HungarianTypes'
    BY <2>2 DEF HungarianTypes
  <2>4. OneColumnEach'
    BY <2>2 DEF OneColumnEach
  <2>5. DualFeasible'
    BY <2>1 DEF DualFeasible
  <2>6. Scanning'
    BY <2>1, <2>2 DEF Scanning, TreeIsTight, Distances
  <2> QED
    BY <2>3, <2>4, <2>5, <2>6
<1> QED
  BY <1>1, <1>2, <1>3 DEF HNext

-----------------------------------------------------------------------------
\* The potentials price every matching: their sum over the rows and the columns
\* that tau uses.
LEMMA PotentialsAddUp ==
    ASSUME HungarianTypes, NEW tau \in Injection(1 .. RowCount, Columns), NEW d,
           \A r \in 1 .. RowCount : d[r] = u[r] + v[tau[r]]
    PROVE  /\ SumFunctionOnSet(d, 1 .. RowCount)
                  = SumFunctionOnSet(u, 1 .. RowCount)
                    + SumFunctionOnSet(Through(v, tau, 1 .. RowCount, Columns), Columns)
           /\ SumFunctionOnSet(u, 1 .. RowCount) \in Int
<1>1. IsFiniteSet(1 .. RowCount) /\ IsFiniteSet(Columns)
  BY HungarianNumbers, NaturalIndices
<1>2. tau \in [1 .. RowCount -> Columns]
  BY DEF Injection
<1>3. (\A c \in Columns : v[c] \in Int) /\ (\A r \in 1 .. RowCount : u[r] \in Int)
  BY HungarianNumbers DEF HungarianTypes, AllColumns
<1> DEFINE w == [r \in 1 .. RowCount |-> v[tau[r]]]
<1>4. \A r \in 1 .. RowCount : w[r] = v[tau[r]] /\ w[r] \in Int
  BY <1>2, <1>3
<1>5. Integral(v, Columns) /\ Integral(u, 1 .. RowCount) /\ Integral(w, 1 .. RowCount)
  <2> HIDE DEF w
  <2> QED
    BY <1>3, <1>4 DEF Integral
<1>6. Combines(d, 1, u, 1, w, 1 .. RowCount)
  <2> HIDE DEF w
  <2> QED
    BY <1>3, <1>4 DEF Combines
<1> HIDE DEF w
<1>7. SumFunctionOnSet(d, 1 .. RowCount)
        = 1 * SumFunctionOnSet(u, 1 .. RowCount) + 1 * SumFunctionOnSet(w, 1 .. RowCount)
  BY <1>1, <1>5, <1>6, SumIsLinear
<1>8. SumFunctionOnSet(w, 1 .. RowCount)
        = SumFunctionOnSet(Through(v, tau, 1 .. RowCount, Columns), Columns)
  <2>1. PICK S, T, g, f, h : S = 1 .. RowCount /\ T = Columns /\ g = tau /\ f = v /\ h = w
    OBVIOUS
  <2>2. IsFiniteSet(S) /\ IsFiniteSet(T) /\ g \in Injection(S, T) /\ Integral(f, T)
    BY <1>1, <1>5, <2>1
  <2>3. \A x \in S : h[x] = f[g[x]]
    BY <1>4, <2>1
  <2>4. SumFunctionOnSet(h, S) = SumFunctionOnSet(Through(f, g, S, T), T)
    BY <2>2, <2>3, SumThroughInjection
  <2> QED
    BY <2>1, <2>4
<1>9. SumFunctionOnSet(u, 1 .. RowCount) \in Int /\ SumFunctionOnSet(w, 1 .. RowCount) \in Int
  BY <1>1, <1>5, SumTakesAny DEF Integral
<1> QED
  BY <1>7, <1>8, <1>9

Price == SumFunctionOnSet(u, 1 .. RowCount) + SumFunctionOnSet(v, Columns)

LEMMA CostIsSum ==
    ASSUME NEW m
    PROVE  MatchingCost(m)
              = SumFunctionOnSet([r \in 1 .. RowCount |->
                                    IF m[r] = 0 THEN MatchGate ELSE cost[<<r, m[r]>>]], 1 .. RowCount)
BY Zenon DEF MatchingCost, SumFunction

\* No matching is cheaper than the potentials ...
LEMMA NoMatchingIsCheaper ==
    ASSUME HungarianTypes, DualFeasible, NEW m \in Matchings
    PROVE  Price <= MatchingCost(m) /\ MatchingCost(m) \in Int
<1> DEFINE tau == [r \in 1 .. RowCount |-> IF m[r] = 0 THEN RealColumns + r ELSE m[r]]
           d == [r \in 1 .. RowCount |-> u[r] + v[tau[r]]]
           f == [r \in 1 .. RowCount |-> IF m[r] = 0 THEN MatchGate ELSE cost[<<r, m[r]>>]]
<1>1. /\ m \in [1 .. RowCount -> 0 .. RealColumns]
      /\ \A r \in 1 .. RowCount : m[r] # 0 =>
            cost[<<r, m[r]>>] < Infinity /\ \A q \in 1 .. r - 1 : m[q] # m[r]
  BY DEF Matchings
<1>2. \A r \in 1 .. RowCount : tau[r] \in Columns
  BY <1>1, HungarianNumbers DEF Columns
<1>3. \A r, q \in 1 .. RowCount : tau[r] = tau[q] => r = q
  <2> SUFFICES ASSUME NEW r \in 1 .. RowCount, NEW q \in 1 .. RowCount, tau[r] = tau[q] PROVE r = q
    OBVIOUS
  <2>1. m[r] \in 0 .. RealColumns /\ m[q] \in 0 .. RealColumns
    BY <1>1
  <2>2. CASE m[r] = 0 \/ m[q] = 0
    BY <2>1, <2>2, HungarianNumbers
  <2>3. CASE m[r] # 0 /\ m[q] # 0
    <3>1. m[r] = m[q]
      BY <2>3
    <3>2. ~(r < q) /\ ~(q < r)
      <4>1. r < q => r \in 1 .. q - 1
        OBVIOUS
      <4>2. q < r => q \in 1 .. r - 1
        OBVIOUS
      <4> QED
        BY <1>1, <2>3, <3>1, <4>1, <4>2
    <3> QED
      BY <3>2
  <2> QED
    BY <2>2, <2>3
<1>4. tau \in Injection(1 .. RowCount, Columns)
  BY <1>2, <1>3 DEF Injection, IsInjective
<1>5. \A r \in 1 .. RowCount : f[r] \in Int /\ d[r] \in Int /\ d[r] <= f[r]
  <2> SUFFICES ASSUME NEW r \in 1 .. RowCount PROVE f[r] \in Int /\ d[r] \in Int /\ d[r] <= f[r]
    OBVIOUS
  <2>1. f[r] = Edge(r, tau[r])
    <3>1. CASE m[r] = 0
      <4>1. tau[r] = RealColumns + r /\ RealColumns + r > RealColumns
        BY <3>1, HungarianNumbers
      <4> QED
        BY <3>1, <4>1 DEF Edge
    <3>2. CASE m[r] # 0
      <4>1. tau[r] = m[r] /\ m[r] \in 0 .. RealColumns /\ cost[<<r, m[r]>>] < Infinity
        BY <1>1, <3>2
      <4>2. <<r, m[r]>> \in (1 .. RowCount) \X (1 .. RealColumns)
        BY <3>2, <4>1, HungarianNumbers
      <4>3. cost[<<r, m[r]>>] \in Nat
        BY <4>2, HungarianAssumption DEF HungarianTypes
      <4>4. ~(m[r] > RealColumns) /\ cost[<<r, m[r]>>] # Infinity
        BY <4>1, <4>3, HungarianNumbers
      <4>5. f[r] = cost[<<r, m[r]>>]
        BY <3>2
      <4> HIDE DEF f, tau
      <4> QED
        BY <4>1, <4>4, <4>5 DEF Edge
    <3> QED
      BY <3>1, <3>2
  <2>2. PICK c \in Columns : c = tau[r]
    BY <1>2
  <2>3. Edge(r, c) \in Nat /\ u[r] \in Nat /\ v[c] \in Int /\ Reduced(r, c) >= 0
    BY EdgesAreNumbers, ReducedIsNumber DEF HungarianTypes, DualFeasible
  <2>4. d[r] = u[r] + v[c]
    BY <2>2
  <2> HIDE DEF f, d, tau
  <2> QED
    BY <2>1, <2>2, <2>3, <2>4 DEF Reduced
<1>6. \A r \in 1 .. RowCount : d[r] = u[r] + v[tau[r]]
  OBVIOUS
<1>7. MatchingCost(m) = SumFunctionOnSet(f, 1 .. RowCount)
  BY CostIsSum
<1> HIDE DEF f, d, tau
<1>8. IsFiniteSet(1 .. RowCount) /\ IsFiniteSet(Columns)
  BY HungarianNumbers, NaturalIndices
<1>9. SumFunctionOnSet(d, 1 .. RowCount) <= SumFunctionOnSet(f, 1 .. RowCount)
  BY <1>5, <1>8, SumIsMonotone
<1>10. PICK part : part = Through(v, tau, 1 .. RowCount, Columns)
  OBVIOUS
<1>11. \A c \in Columns : v[c] \in Int /\ part[c] \in Int /\ v[c] <= part[c]
  <2> SUFFICES ASSUME NEW c \in Columns PROVE v[c] \in Int /\ part[c] \in Int /\ v[c] <= part[c]
    OBVIOUS
  <2>1. v[c] \in Int /\ v[c] <= 0
    BY DEF HungarianTypes, DualFeasible, AllColumns
  <2>2. part[c] = v[c] \/ part[c] = 0
    BY <1>10 DEF Through
  <2> QED
    BY <2>1, <2>2
<1>12. SumFunctionOnSet(v, Columns) <= SumFunctionOnSet(part, Columns)
  BY <1>8, <1>11, SumIsMonotone
<1>13. /\ SumFunctionOnSet(d, 1 .. RowCount)
            = SumFunctionOnSet(u, 1 .. RowCount) + SumFunctionOnSet(part, Columns)
       /\ SumFunctionOnSet(u, 1 .. RowCount) \in Int
  BY <1>4, <1>6, <1>10, PotentialsAddUp
<1>14. SumFunctionOnSet(v, Columns) \in Int /\ SumFunctionOnSet(part, Columns) \in Int
  BY <1>8, <1>11, SumTakesAny
<1>15. SumFunctionOnSet(f, 1 .. RowCount) \in Int
  BY <1>5, <1>8, SumTakesAny
<1> QED
  BY <1>7, <1>9, <1>12, <1>13, <1>14, <1>15 DEF Price

\* ... and the one the algorithm ends with is not dearer.
LEMMA ColumnOfRow ==
    ASSUME HungarianTypes, OneColumnEach, hpc = "done"
    PROVE  \E sigma \in Injection(1 .. RowCount, Columns) : \A r \in 1 .. RowCount : p[sigma[r]] = r
<1> DEFINE sigma == [r \in 1 .. RowCount |-> CHOOSE c \in Columns : p[c] = r]
<1>1. \A r \in 1 .. RowCount : \E c \in Columns : p[c] = r
  BY DEF OneColumnEach, RowsDone
<1>2. \A r \in 1 .. RowCount : sigma[r] \in Columns /\ p[sigma[r]] = r
  BY <1>1
<1>3. sigma \in [1 .. RowCount -> Columns]
  BY <1>2
<1>4. \A r, q \in 1 .. RowCount : sigma[r] = sigma[q] => r = q
  <2> HIDE DEF sigma
  <2> QED
    BY <1>2
<1> HIDE DEF sigma
<1>5. sigma \in Injection(1 .. RowCount, Columns)
  BY <1>3, <1>4 DEF Injection, IsInjective
<1> QED
  BY <1>2, <1>5

LEMMA SolutionOfRow ==
    ASSUME HungarianTypes, OneColumnEach, hpc = "done",
           NEW r \in 1 .. RowCount, NEW c \in Columns, p[c] = r
    PROVE  /\ Selected(r) = IF c <= RealColumns /\ cost[<<r, c>>] < MatchGate THEN {c} ELSE {}
           /\ Solution[r] = IF c <= RealColumns /\ cost[<<r, c>>] < MatchGate THEN c ELSE 0
<1>1. \A d \in 1 .. RealColumns : d \in Columns
  BY HungarianNumbers DEF Columns
<1>2. \A d \in Columns : p[d] = r => d = c
  BY DEF OneColumnEach
<1>3. c <= RealColumns => c \in 1 .. RealColumns
  BY HungarianNumbers DEF Columns
<1>4. \A d \in Selected(r) : d = c /\ c <= RealColumns /\ cost[<<r, c>>] < MatchGate
  BY <1>1, <1>2, HungarianNumbers DEF Selected
<1>5. c <= RealColumns /\ cost[<<r, c>>] < MatchGate => c \in Selected(r)
  BY <1>3 DEF Selected
<1>6. Selected(r) = IF c <= RealColumns /\ cost[<<r, c>>] < MatchGate THEN {c} ELSE {}
  BY <1>4, <1>5
<1>7. Solution[r] = IF Selected(r) = {} THEN 0 ELSE CHOOSE d \in Selected(r) : TRUE
  BY DEF Solution
<1>8. (CHOOSE d \in {c} : TRUE) = c
  OBVIOUS
<1> QED
  BY <1>6, <1>7, <1>8

LEMMA SolutionIsPaid ==
    ASSUME HungarianTypes, OneColumnEach, DualFeasible, hpc = "done"
    PROVE  MatchingCost(Solution) <= Price /\ Price \in Int
<1>1. PICK sigma \in Injection(1 .. RowCount, Columns) : \A r \in 1 .. RowCount : p[sigma[r]] = r
  BY ColumnOfRow
<1>2. \A r \in 1 .. RowCount : sigma[r] \in Columns
  BY DEF Injection
<1> DEFINE d == [r \in 1 .. RowCount |-> u[r] + v[sigma[r]]]
           f == [r \in 1 .. RowCount |->
                   IF Solution[r] = 0 THEN MatchGate ELSE cost[<<r, Solution[r]>>]]
<1>3. \A r \in 1 .. RowCount : f[r] \in Int /\ d[r] \in Int /\ f[r] <= d[r]
  <2> SUFFICES ASSUME NEW r \in 1 .. RowCount PROVE f[r] \in Int /\ d[r] \in Int /\ f[r] <= d[r]
    OBVIOUS
  <2>1. PICK c \in Columns : c = sigma[r] /\ p[c] = r /\ c # 0
    BY <1>1, <1>2, HungarianNumbers
  <2>2. d[r] = u[r] + v[c]
    BY <2>1
  <2>3. Edge(r, c) \in Nat /\ u[r] \in Nat /\ v[c] \in Int /\ Reduced(r, c) = 0
    <3>1. Reduced(p[c], c) = 0
      BY <2>1, HungarianNumbers DEF DualFeasible
    <3>2. Edge(r, c) \in Nat
      BY EdgesAreNumbers DEF HungarianTypes
    <3>3. u[r] \in Nat /\ v[c] \in Int
      BY ReducedIsNumber
    <3> QED
      BY <2>1, <3>1, <3>2, <3>3
  <2>4. Edge(r, c) = u[r] + v[c]
    BY <2>3 DEF Reduced
  <2>5. f[r] = IF Solution[r] = 0 THEN MatchGate ELSE cost[<<r, Solution[r]>>]
    OBVIOUS
  <2>6. Solution[r] = IF c <= RealColumns /\ cost[<<r, c>>] < MatchGate THEN c ELSE 0
    BY <2>1, SolutionOfRow
  <2> HIDE DEF f, d
  <2>7. f[r] \in Int /\ f[r] <= Edge(r, c)
    <3>1. CASE c > RealColumns
      <4>1. ~(c <= RealColumns)
        BY <3>1, HungarianNumbers
      <4> QED
        BY <2>5, <2>6, <3>1, <4>1, HungarianNumbers DEF Edge
    <3>2. CASE c <= RealColumns
      <4>1. <<r, c>> \in (1 .. RowCount) \X (1 .. RealColumns) /\ ~(c > RealColumns)
        BY <3>2, HungarianNumbers DEF Columns
      <4>2. cost[<<r, c>>] \in Nat
        BY <4>1, HungarianAssumption DEF HungarianTypes
      <4>3. Edge(r, c) = IF cost[<<r, c>>] = Infinity THEN HUGE ELSE cost[<<r, c>>]
        BY <4>1 DEF Edge
      <4>4. PICK x \in Nat : x = cost[<<r, c>>]
        BY <4>2
      <4>5. f[r] = IF x < MatchGate THEN x ELSE MatchGate
        BY <2>1, <2>5, <2>6, <3>2, <4>4
      <4>6. MatchGate <= HUGE /\ MatchGate < Infinity
        BY HungarianNumbers
      <4> QED
        BY <4>3, <4>4, <4>5, <4>6, HungarianNumbers
    <3> QED
      BY <3>1, <3>2, HungarianNumbers
  <2> QED
    BY <2>2, <2>3, <2>4, <2>7
<1>4. \A r \in 1 .. RowCount : d[r] = u[r] + v[sigma[r]]
  OBVIOUS
<1>5. MatchingCost(Solution) = SumFunctionOnSet(f, 1 .. RowCount)
  BY CostIsSum
<1> HIDE DEF f, d
<1>6. IsFiniteSet(1 .. RowCount) /\ IsFiniteSet(Columns)
  BY HungarianNumbers, NaturalIndices
<1>7. SumFunctionOnSet(f, 1 .. RowCount) <= SumFunctionOnSet(d, 1 .. RowCount)
  BY <1>3, <1>6, SumIsMonotone
<1>8. PICK part : part = Through(v, sigma, 1 .. RowCount, Columns)
  OBVIOUS
<1>9. \A c \in Columns : part[c] = v[c]
  <2> SUFFICES ASSUME NEW c \in Columns PROVE part[c] = v[c]
    OBVIOUS
  <2>1. CASE p[c] = 0
    BY <1>8, <2>1 DEF Through, DualFeasible
  <2>2. CASE p[c] # 0
    <3>1. PICK r \in 1 .. RowCount : r = p[c]
      BY <2>2, HungarianNumbers DEF HungarianTypes, AllColumns
    <3>2. sigma[r] = c
      BY <1>1, <1>2, <2>2, <3>1 DEF OneColumnEach
    <3> QED
      BY <1>8, <3>2 DEF Through
  <2> QED
    BY <2>1, <2>2
<1>10. SumFunctionOnSet(part, Columns) = SumFunctionOnSet(v, Columns)
  BY <1>6, <1>9, SumOfTheSame
<1>11. /\ SumFunctionOnSet(d, 1 .. RowCount)
             = SumFunctionOnSet(u, 1 .. RowCount) + SumFunctionOnSet(part, Columns)
       /\ SumFunctionOnSet(u, 1 .. RowCount) \in Int
  BY <1>1, <1>4, <1>8, PotentialsAddUp
<1>12. SumFunctionOnSet(v, Columns) \in Int
  <2>1. \A c \in Columns : v[c] \in Int
    BY DEF HungarianTypes, AllColumns
  <2> QED
    BY <1>6, <2>1, SumTakesAny
<1> QED
  BY <1>5, <1>7, <1>10, <1>11, <1>12 DEF Price

\* The matched pairs under the gate, what the code selects, and nothing else.
LEMMA SolutionIsMatching ==
    ASSUME HungarianTypes, OneColumnEach, hpc = "done"
    PROVE  /\ \A r \in 1 .. RowCount : Cardinality(Selected(r)) <= 1
           /\ Solution \in Matchings
           /\ \A r \in 1 .. RowCount : Solution[r] # 0 => cost[<<r, Solution[r]>>] < MatchGate
<1>1. PICK sigma \in Injection(1 .. RowCount, Columns) : \A r \in 1 .. RowCount : p[sigma[r]] = r
  BY ColumnOfRow
<1>2. \A r \in 1 .. RowCount : sigma[r] \in Columns
  BY DEF Injection
<1>3. PICK m : m = Solution
  OBVIOUS
<1>4. ASSUME NEW r \in 1 .. RowCount
      PROVE  /\ Cardinality(Selected(r)) <= 1
             /\ m[r] \in 0 .. RealColumns
             /\ m[r] # 0 => m[r] = sigma[r] /\ cost[<<r, m[r]>>] < MatchGate
  <2>1. PICK c \in Columns : c = sigma[r] /\ p[c] = r
    BY <1>1, <1>2
  <2>2. /\ Selected(r) = IF c <= RealColumns /\ cost[<<r, c>>] < MatchGate THEN {c} ELSE {}
        /\ m[r] = IF c <= RealColumns /\ cost[<<r, c>>] < MatchGate THEN c ELSE 0
    BY <1>3, <2>1, SolutionOfRow
  <2>3. Cardinality({c}) = 1 /\ Cardinality({}) = 0
    BY FS_Singleton, FS_EmptySet
  <2>4. CASE c <= RealColumns /\ cost[<<r, c>>] < MatchGate
    BY <2>1, <2>2, <2>3, <2>4, HungarianNumbers
  <2>5. CASE ~(c <= RealColumns /\ cost[<<r, c>>] < MatchGate)
    BY <2>1, <2>2, <2>3, <2>5, HungarianNumbers
  <2> QED
    BY <2>4, <2>5
<1>5. m \in [1 .. RowCount -> 0 .. RealColumns]
  <2>1. m = [r \in 1 .. RowCount |-> m[r]]
    BY <1>3 DEF Solution
  <2> QED
    BY <1>4, <2>1
<1>6. ASSUME NEW r \in 1 .. RowCount, m[r] # 0
      PROVE  cost[<<r, m[r]>>] < Infinity
  <2>1. m[r] \in 1 .. RealColumns /\ cost[<<r, m[r]>>] < MatchGate
    BY <1>4, <1>6, HungarianNumbers
  <2>2. <<r, m[r]>> \in (1 .. RowCount) \X (1 .. RealColumns)
    BY <2>1
  <2>3. cost[<<r, m[r]>>] \in Nat
    BY <2>2, HungarianAssumption DEF HungarianTypes
  <2>4. MatchGate < Infinity
    BY HungarianNumbers
  <2> QED
    BY <2>1, <2>3, <2>4, HungarianNumbers
<1>7. ASSUME NEW r \in 1 .. RowCount, NEW q \in 1 .. r - 1, m[r] # 0
      PROVE  m[q] # m[r]
  <2>1. q \in 1 .. RowCount /\ q # r
    BY HungarianNumbers
  <2>2. SUFFICES ASSUME m[q] = m[r] PROVE FALSE
    OBVIOUS
  <2>3. sigma[q] = sigma[r]
    BY <1>4, <1>7, <2>1, <2>2
  <2> QED
    BY <1>1, <2>1, <2>3
<1>8. m \in Matchings
  BY <1>5, <1>6, <1>7 DEF Matchings
<1> QED
  BY <1>3, <1>4, <1>8

LEMMA HungarianAnswers ==
    ASSUME HungarianInv PROVE AssignmentIsOptimal
<1>1. HTypeOK
  BY DEF HungarianInv, HungarianTypes, HTypeOK, AllColumns
<1>2. PotentialsAreFeasible
  <2> SUFFICES ASSUME NEW c \in Columns, p[c] # 0, NEW d \in Columns
               PROVE  /\ Edge(p[c], c) = u[p[c]] + v[c]
                      /\ Edge(p[c], d) >= u[p[c]] + v[d]
    BY DEF PotentialsAreFeasible
  <2>1. HungarianTypes /\ DualFeasible
    BY DEF HungarianInv
  <2>2. PICK r \in 1 .. RowCount : r = p[c]
    BY <2>1, HungarianNumbers DEF HungarianTypes, AllColumns
  <2>3. Reduced(r, c) = 0 /\ Reduced(r, d) >= 0
    BY <2>1, <2>2 DEF DualFeasible
  <2>4. Edge(r, c) \in Nat /\ Edge(r, d) \in Nat /\ u[r] \in Nat /\ v[c] \in Int /\ v[d] \in Int
    BY <2>1, EdgesAreNumbers, ReducedIsNumber DEF HungarianTypes
  <2> QED
    BY <2>2, <2>3, <2>4 DEF Reduced
<1>3. AnswerIsCheapest
  <2> SUFFICES ASSUME hpc = "done"
               PROVE  /\ \A r \in 1 .. RowCount : Cardinality(Selected(r)) <= 1
                      /\ Solution \in Matchings
                      /\ \A r \in 1 .. RowCount : Solution[r] # 0 => cost[<<r, Solution[r]>>] < MatchGate
                      /\ \A m \in Matchings : MatchingCost(Solution) <= MatchingCost(m)
    BY DEF AnswerIsCheapest
  <2>1. HungarianTypes /\ OneColumnEach /\ DualFeasible
    BY DEF HungarianInv
  <2>2. \A m \in Matchings : Price <= MatchingCost(m) /\ MatchingCost(m) \in Int
    BY <2>1, NoMatchingIsCheaper
  <2>3. Solution \in Matchings /\ MatchingCost(Solution) <= Price /\ Price \in Int
    BY <2>1, SolutionIsMatching, SolutionIsPaid
  <2>4. \A m \in Matchings : MatchingCost(Solution) <= MatchingCost(m)
    BY <2>2, <2>3
  <2> QED
    BY <2>1, <2>4, SolutionIsMatching
<1> QED
  BY <1>1, <1>2, <1>3 DEF AssignmentIsOptimal

\* The assignment of temporal_assignment_kernel and temporal_lifecycle_kernel is
\* one-to-one, has no pair at the gate, and is a cheapest one, for any number of
\* tracks and detections and any costs.
THEOREM AssignmentHolds == HSpec => []AssignmentIsOptimal
<1>1. HInit => HungarianInv
  BY HungarianBegins
<1>2. HungarianInv /\ [HNext]_hvars => HungarianInv'
  BY HungarianStep
<1>3. HungarianInv => AssignmentIsOptimal
  BY HungarianAnswers
<1> QED
  BY <1>1, <1>2, <1>3, PTL DEF HSpec

-----------------------------------------------------------------------------
(* The three-camera matcher.  First its dynamic program, for every table of   *)
(* costs: no matching costs less than the entry of the set it uses, and what  *)
(* the walk back through the table takes is paid for by the best entry.       *)

\* What a pair may cost, and the rows of the table over the masks.
CostValues == (0 .. EpipolarGate) \cup {InvalidCost}
Tables == [Masks -> Int]

LEMMA MasksAreFinite ==
    /\ IsFiniteSet(Cands) /\ IsFiniteSet(Masks) /\ Unmatched \notin Cands /\ Cands \subseteq Nat
    /\ \A mask \in Masks : IsFiniteSet(mask) /\ \A c : mask \ {c} \in Masks
<1>1. IsFiniteSet(Cands)
  BY EpipolarAssumption, NaturalIndices DEF Cands
<1>2. IsFiniteSet(Masks)
  BY <1>1, FS_SUBSET DEF Masks
<1>3. Unmatched \notin Cands /\ Cands \subseteq Nat
  BY EpipolarAssumption DEF Cands, Unmatched
<1>4. \A mask \in Masks : IsFiniteSet(mask) /\ \A c : mask \ {c} \in Masks
  BY <1>1, FS_Subset DEF Masks
<1> QED
  BY <1>1, <1>2, <1>3, <1>4

LEMMA CostsAreNumbers ==
    /\ EpipolarGate \in Nat /\ InvalidCost \in Nat /\ EpipolarGate < InvalidCost
    /\ \A x \in CostValues : x \in Nat /\ (x < InvalidCost => x <= EpipolarGate)
BY EpipolarAssumption DEF CostValues

\* One turn: the candidate chosen is allowed, pays for the new value, and no
\* allowed candidate, nor leaving the row unmatched, costs less.
LEMMA TurnIsLeast ==
    ASSUME NEW prices \in [Cands -> CostValues], NEW current \in Tables, NEW mask \in Masks
    PROVE  /\ Choice(prices, current, mask) \in Allowed(prices, current, mask) \cup {Unmatched}
           /\ Turn(prices, current)[mask]
                 = IF Choice(prices, current, mask) = Unmatched THEN current[mask]
                   ELSE CostWith(prices, current, mask, Choice(prices, current, mask))
           /\ Turn(prices, current)[mask] \in Int
           /\ Turn(prices, current)[mask] <= current[mask]
           /\ \A d \in Allowed(prices, current, mask) :
                 /\ d \in Cands /\ CostWith(prices, current, mask, d) \in Int
                 /\ Turn(prices, current)[mask] <= CostWith(prices, current, mask, d)
<1> DEFINE price(c) == CostWith(prices, current, mask, c)
           allowed == Allowed(prices, current, mask)
           better == {c \in allowed : price(c) < current[mask]}
           chosen == Choice(prices, current, mask)
<1>1. current[mask] \in Int
  BY DEF Tables
<1>2. ASSUME NEW c \in allowed PROVE c \in Cands /\ c \in Nat /\ price(c) \in Int
  <2>1. c \in Cands /\ c \in Nat /\ mask \ {c} \in Masks
    BY MasksAreFinite DEF Allowed, Masks
  <2>2. prices[c] \in Nat /\ current[mask \ {c}] \in Int /\ EpipolarGate \in Nat
    BY <2>1, CostsAreNumbers DEF Tables
  <2> QED
    BY <2>1, <2>2 DEF CostWith
<1>3. IsFiniteSet(better) /\ better \subseteq allowed
  <2>1. better \in SUBSET Cands
    BY <1>2
  <2> QED
    BY <2>1, MasksAreFinite, FS_Subset
<1>4. chosen = IF better = {} THEN Unmatched
               ELSE CHOOSE c \in better : \A d \in better : price(c) < price(d) \/ (price(c) = price(d) /\ c >= d)
  BY DEF Choice
<1>5. Turn(prices, current)[mask] = IF chosen = Unmatched THEN current[mask] ELSE price(chosen)
  BY DEF Turn
<1>6. CASE better = {}
  <2>1. chosen = Unmatched /\ Turn(prices, current)[mask] = current[mask]
    BY <1>4, <1>5, <1>6
  <2>2. ASSUME NEW d \in allowed PROVE current[mask] <= price(d)
    <3>1. ~(price(d) < current[mask]) /\ price(d) \in Int
      BY <1>2, <1>6
    <3> HIDE DEF price
    <3> QED
      BY <1>1, <3>1
  <2> HIDE DEF better, chosen, price, allowed
  <2>3. current[mask] <= current[mask]
    BY <1>1
  <2> QED
    BY <1>1, <1>2, <2>1, <2>2, <2>3 DEF chosen, price, allowed
<1>7. CASE better # {}
  <2> DEFINE f == [c \in better |-> price(c)]
             g == [c \in better |-> -c]
  <2>1. \A c \in better : f[c] \in Int /\ g[c] \in Int /\ f[c] = price(c) /\ g[c] = -c /\ c \in Nat
    BY <1>2, <1>3
  <2> HIDE DEF f, g, better, price
  <2>2. PICK x \in better : \A y \in better : f[x] < f[y] \/ (f[x] = f[y] /\ g[x] <= g[y])
    BY <1>3, <1>7, <2>1, LeastPairExists
  <2>3. \A d \in better : price(x) < price(d) \/ (price(x) = price(d) /\ x >= d)
    <3> SUFFICES ASSUME NEW d \in better
                 PROVE  price(x) < price(d) \/ (price(x) = price(d) /\ x >= d)
      OBVIOUS
    <3>1. f[x] < f[d] \/ (f[x] = f[d] /\ -x <= -d)
      BY <2>1, <2>2
    <3>2. x \in Nat /\ d \in Nat /\ f[x] = price(x) /\ f[d] = price(d)
      BY <2>1
    <3>3. -x <= -d => x >= d
      BY <3>2
    <3> QED
      BY <3>1, <3>2, <3>3
  <2>4. chosen \in better /\ \A d \in better : price(chosen) < price(d) \/ (price(chosen) = price(d) /\ chosen >= d)
    <3> HIDE DEF chosen
    <3> QED
      BY <1>4, <1>7, <2>3
  <2> HIDE DEF chosen, allowed
  <2>5. chosen \in allowed /\ chosen # Unmatched
    BY <1>2, <1>3, <2>4, MasksAreFinite
  <2>6. Turn(prices, current)[mask] = price(chosen) /\ price(chosen) \in Int
    BY <1>2, <1>5, <2>5
  <2>7. price(chosen) < current[mask]
    BY <2>4 DEF better
  <2>8. ASSUME NEW d \in allowed PROVE price(chosen) <= price(d)
    <3>1. price(d) \in Int
      BY <1>2
    <3>2. CASE d \in better
      BY <2>4, <2>6, <3>1, <3>2
    <3>3. CASE d \notin better
      <4>1. ~(price(d) < current[mask])
        BY <3>3 DEF better
      <4> QED
        BY <1>1, <2>6, <2>7, <3>1, <4>1
    <3> QED
      BY <3>2, <3>3
  <2>9. price(chosen) <= current[mask]
    BY <1>1, <2>6, <2>7
  <2> QED
    BY <1>2, <2>5, <2>6, <2>8, <2>9 DEF chosen, price, allowed
<1> QED
  BY <1>6, <1>7

\* The first row of the table, and the others.
EmptyTable == [mask \in Masks |-> IF mask = {} THEN 0 ELSE InvalidCost]

LEMMA EmptyTableFits == EmptyTable \in Tables /\ {} \in Masks
BY CostsAreNumbers DEF EmptyTable, Tables, Masks

LEMMA TurnFits ==
    ASSUME NEW prices \in [Cands -> CostValues], NEW current \in Tables
    PROVE  Turn(prices, current) \in Tables
<1>1. \A mask \in Masks : Turn(prices, current)[mask] \in Int
  BY TurnIsLeast
<1>2. PICK t : t = Turn(prices, current)
  OBVIOUS
<1>3. t = [mask \in Masks |-> t[mask]]
  BY <1>2 DEF Turn
<1> QED
  BY <1>1, <1>2, <1>3 DEF Tables

CostTables(n) == [1 .. n -> [Cands -> CostValues]]

LEMMA TableFills ==
    ASSUME NEW n \in Nat, NEW prices \in CostTables(n)
    PROVE  /\ Table(n, prices) \in [0 .. n -> Tables]
           /\ Table(n, prices)[0] = EmptyTable
           /\ \A k \in 1 .. n : Table(n, prices)[k] = Turn(prices[k], Table(n, prices)[k - 1])
<1> DEFINE Fills(g) == g = [k \in 0 .. n |-> IF k = 0 THEN EmptyTable ELSE Turn(prices[k], g[k - 1])]
           step == [e \in (1 .. n) \X Tables |-> Turn(prices[e[1]], e[2])]
<1>1. \E g : Fills(g)
  <2>0. PICK s : s = step
    OBVIOUS
  <2>1. \A k \in 1 .. n, d \in Tables : s[<<k, d>>] = Turn(prices[k], d)
    BY <2>0
  <2> HIDE DEF step
  <2>2. \A k \in 1 .. n, d \in Tables : s[<<k, d>>] \in Tables
    <3> SUFFICES ASSUME NEW k \in 1 .. n, NEW d \in Tables PROVE s[<<k, d>>] \in Tables
      OBVIOUS
    <3>1. prices[k] \in [Cands -> CostValues]
      BY DEF CostTables
    <3>2. Turn(prices[k], d) \in Tables
      BY <3>1, TurnFits
    <3> QED
      BY <2>1, <3>2
  <2>2a. PICK D, start : D = Tables /\ start = EmptyTable
    OBVIOUS
  <2>2b. start \in D /\ StaysIn(s, n, D)
    BY <2>2, <2>2a, EmptyTableFits DEF StaysIn
  <2>2c. \E g : RunsFrom(g, n, D, start, s)
    BY <2>2b, RecursionExists
  <2>3. PICK g \in [0 .. n -> Tables] : g[0] = EmptyTable /\ \A k \in 1 .. n : g[k] = s[<<k, g[k - 1]>>]
    BY <2>2a, <2>2c DEF RunsFrom
  <2>3a. \A k \in 1 .. n : k - 1 \in 0 .. n /\ g[k - 1] \in Tables
    BY <2>3
  <2>3b. \A k \in 1 .. n : g[k] = Turn(prices[k], g[k - 1])
    BY <2>1, <2>3, <2>3a
  <2>4. \A k \in 0 .. n : g[k] = IF k = 0 THEN EmptyTable ELSE Turn(prices[k], g[k - 1])
    <3> SUFFICES ASSUME NEW k \in 0 .. n
                 PROVE  g[k] = IF k = 0 THEN EmptyTable ELSE Turn(prices[k], g[k - 1])
      OBVIOUS
    <3>1. k = 0 \/ k \in 1 .. n
      OBVIOUS
    <3> QED
      BY <2>3, <2>3b, <3>1
  <2>5. Fills(g)
    BY <2>3, <2>4
  <2> QED
    BY <2>5
<1>2. Fills(Table(n, prices))
  BY <1>1, Zenon DEF Table, EmptyTable
<1>3. PICK t : t = Table(n, prices)
  OBVIOUS
<1>4. t = [k \in 0 .. n |-> IF k = 0 THEN EmptyTable ELSE Turn(prices[k], t[k - 1])]
  BY <1>2, <1>3
<1>5. t[0] = EmptyTable /\ \A k \in 1 .. n : t[k] = Turn(prices[k], t[k - 1])
  <2>1. 0 \in 0 .. n /\ \A k \in 1 .. n : k \in 0 .. n /\ k # 0
    OBVIOUS
  <2> QED
    BY <1>4, <2>1
<1>6. \A k \in 0 .. n : t[k] \in Tables
  <2> DEFINE S == {k \in 0 .. n : t[k] \in Tables}
  <2>1. 0 \in S
    BY <1>5, EmptyTableFits
  <2>2. ASSUME NEW k \in 1 .. n, k - 1 \in S PROVE k \in S
    <3>1. t[k - 1] \in Tables /\ prices[k] \in [Cands -> CostValues] /\ k \in 0 .. n
      BY <2>2 DEF CostTables
    <3> QED
      BY <1>5, <3>1, TurnFits
  <2> HIDE DEF S
  <2>3. \A k \in 0 .. n : k \in S
    BY <2>1, <2>2, HoldsUpTo
  <2> QED
    BY <2>3 DEF S
<1>7. t \in [0 .. n -> Tables]
  BY <1>4, <1>6
<1> QED
  BY <1>3, <1>5, <1>7

-----------------------------------------------------------------------------
(* No matching costs less than the entry of its mask. *)

\* The candidates of a matching, and what each of its pairs adds to the total.
TakenIn(M) == {e[2] : e \in M}
Gains(n, prices) == [e \in EdgesOf(n) |-> prices[e[1]][e[2]] - EpipolarGate]

LEMMA GainsFit ==
    ASSUME NEW n \in Nat, NEW prices \in CostTables(n), NEW M, PairsUp(M, n, prices)
    PROVE  /\ IsFiniteSet(M)
           /\ \A e \in M : /\ e[1] \in 1 .. n /\ e[2] \in Cands /\ e = <<e[1], e[2]>>
                           /\ Gains(n, prices)[e] = prices[e[1]][e[2]] - EpipolarGate
                           /\ prices[e[1]][e[2]] \in Nat
                           /\ Gains(n, prices)[e] \in Int /\ Gains(n, prices)[e] <= 0
           /\ SumFunctionOnSet(Gains(n, prices), M) \in Int
           /\ SumFunctionOnSet(Gains(n, prices), M) <= 0
<1>1. IsFiniteSet(M)
  <2>1. PICK A, B : A = 1 .. n /\ B = Cands
    OBVIOUS
  <2>2. IsFiniteSet(A) /\ IsFiniteSet(B)
    BY <2>1, NaturalIndices, MasksAreFinite
  <2>3. IsFiniteSet(A \X B)
    BY <2>2, FS_Product, Zenon
  <2>4. M \in SUBSET (A \X B)
    BY <2>1 DEF PairsUp, EdgesOf
  <2> QED
    BY <2>3, <2>4, FS_Subset
<1>2. ASSUME NEW e \in M
      PROVE  /\ e[1] \in 1 .. n /\ e[2] \in Cands /\ e = <<e[1], e[2]>>
             /\ Gains(n, prices)[e] = prices[e[1]][e[2]] - EpipolarGate
             /\ prices[e[1]][e[2]] \in Nat
             /\ Gains(n, prices)[e] \in Int /\ Gains(n, prices)[e] <= 0
  <2>1. /\ e \in EdgesOf(n) /\ prices[e[1]][e[2]] < InvalidCost
        /\ e[1] \in 1 .. n /\ e[2] \in Cands /\ e = <<e[1], e[2]>>
    BY DEF PairsUp, EdgesOf
  <2>2. PICK x \in CostValues : x = prices[e[1]][e[2]]
    BY <2>1 DEF CostTables
  <2>3. x \in Nat /\ x <= EpipolarGate /\ EpipolarGate \in Nat
    BY <2>1, <2>2, CostsAreNumbers
  <2>4. x - EpipolarGate \in Int /\ x - EpipolarGate <= 0
    BY <2>3
  <2>5. Gains(n, prices)[e] = x - EpipolarGate
    BY <2>1, <2>2 DEF Gains
  <2> QED
    BY <2>1, <2>2, <2>3, <2>4, <2>5
<1> DEFINE zeros == [e \in M |-> 0]
<1>3. PICK f : f = Gains(n, prices)
  OBVIOUS
<1>4. \A e \in M : f[e] \in Int /\ zeros[e] \in Int /\ f[e] <= zeros[e] /\ zeros[e] = 0
  BY <1>2, <1>3
<1> HIDE DEF zeros
<1>5. SumFunctionOnSet(f, M) <= SumFunctionOnSet(zeros, M)
  BY <1>1, <1>4, SumIsMonotone
<1>6. SumFunctionOnSet(zeros, M) = 0
  BY <1>1, <1>4, SumOfZeros
<1>7. SumFunctionOnSet(f, M) \in Int
  BY <1>1, <1>4, SumTakesAny
<1> QED
  BY <1>1, <1>2, <1>3, <1>5, <1>6, <1>7

\* Without the pair of the last row it is a matching of the rows before it.
LEMMA LastPairLeaves ==
    ASSUME NEW n \in Nat, NEW prices, NEW k \in 1 .. n, NEW M, PairsUp(M, k, prices), NEW e \in M
    PROVE  e[1] = k => PairsUp(M \ {e}, k - 1, prices)
<1> SUFFICES ASSUME e[1] = k
             PROVE  PairsUp(M \ {e}, k - 1, prices)
  OBVIOUS
<1>1. ASSUME NEW f \in M \ {e} PROVE f \in EdgesOf(k - 1)
  <2>1. f \in (1 .. k) \X Cands /\ f[1] # e[1] /\ f[2] # e[2]
    BY DEF PairsUp, EdgesOf
  <2>2. f[1] \in 1 .. k - 1
    BY <2>1
  <2> QED
    BY <2>1, <2>2 DEF EdgesOf
<1> QED
  BY <1>1 DEF PairsUp

LEMMA NoPairLeaves ==
    ASSUME NEW n \in Nat, NEW prices, NEW k \in 1 .. n, NEW M, PairsUp(M, k, prices),
           \A e \in M : e[1] # k
    PROVE  PairsUp(M, k - 1, prices)
<1>1. ASSUME NEW f \in M PROVE f \in EdgesOf(k - 1)
  <2>1. f \in (1 .. k) \X Cands /\ f[1] # k
    BY DEF PairsUp, EdgesOf
  <2>2. f[1] \in 1 .. k - 1
    BY <2>1
  <2> QED
    BY <2>1, <2>2 DEF EdgesOf
<1> QED
  BY <1>1 DEF PairsUp

\* And a matching of the first rows is one of all.
LEMMA FewerRowsFit ==
    ASSUME NEW n \in Nat, NEW prices, NEW k \in 0 .. n, NEW M, PairsUp(M, k, prices)
    PROVE  PairsUp(M, n, prices)
<1>1. 1 .. k \subseteq 1 .. n
  OBVIOUS
<1> QED
  BY <1>1 DEF PairsUp, EdgesOf

LEMMA NoMatchingCostsLess ==
    ASSUME NEW n \in Nat, NEW prices \in CostTables(n)
    PROVE  \A k \in 0 .. n : \A M \in SUBSET EdgesOf(k) :
              PairsUp(M, k, prices) =>
                 Table(n, prices)[k][TakenIn(M)] <= SumFunctionOnSet(Gains(n, prices), M)
<1>1. PICK t \in [0 .. n -> Tables] :
         /\ t = Table(n, prices) /\ t[0] = EmptyTable
         /\ \A k \in 1 .. n : t[k] = Turn(prices[k], t[k - 1])
  BY TableFills
<1>2. PICK f : f = Gains(n, prices)
  OBVIOUS
<1> DEFINE Smallest(k) == \A M \in SUBSET EdgesOf(k) :
                          PairsUp(M, k, prices) => t[k][TakenIn(M)] <= SumFunctionOnSet(f, M)
           S == {k \in 0 .. n : Smallest(k)}
<1>3. 0 \in S
  <2>1. EdgesOf(0) = {}
    BY DEF EdgesOf
  <2>2. TakenIn({}) = {} /\ t[0][{}] = 0
    BY <1>1, EmptyTableFits DEF TakenIn, EmptyTable
  <2>3. SumFunctionOnSet(f, {}) = 0
    BY SumOfNothing
  <2>4. Smallest(0)
    <3>1. \A M \in SUBSET EdgesOf(0) : M = {}
      BY <2>1
    <3>2. t[0][TakenIn({})] <= SumFunctionOnSet(f, {})
      <4>1. 0 <= 0
        OBVIOUS
      <4>2. t[0][TakenIn({})] = 0
        BY <2>2, Zenon
      <4> QED
        BY <2>3, <4>1, <4>2, Zenon
    <3> QED
      BY <3>1, <3>2, Zenon
  <2> HIDE DEF Smallest
  <2> QED
    BY <2>4
<1>4. ASSUME NEW k \in 1 .. n, k - 1 \in S PROVE k \in S
  <2>1. Smallest(k - 1)
    BY <1>4
  <2>2. ASSUME NEW M \in SUBSET EdgesOf(k), PairsUp(M, k, prices)
        PROVE  t[k][TakenIn(M)] <= SumFunctionOnSet(f, M)
    <3>0. /\ k - 1 \in 0 .. n /\ k \in 0 .. n /\ prices[k] \in [Cands -> CostValues]
          /\ t[k - 1] \in Tables /\ t[k] = Turn(prices[k], t[k - 1])
      BY <1>1 DEF CostTables
    <3>1. PairsUp(M, n, prices)
      BY <2>2, <3>0, FewerRowsFit
    <3>2. /\ IsFiniteSet(M) /\ SumFunctionOnSet(f, M) \in Int
          /\ \A e \in M : /\ e[2] \in Cands /\ f[e] \in Int
                          /\ f[e] = prices[e[1]][e[2]] - EpipolarGate /\ prices[e[1]][e[2]] \in Nat
      BY <1>2, <3>1, GainsFit
    <3>3. PICK mask \in Masks : mask = TakenIn(M)
      BY <3>2 DEF TakenIn, Masks
    <3>4. /\ t[k][mask] \in Int /\ t[k][mask] <= t[k - 1][mask] /\ t[k - 1][mask] \in Int
          /\ \A d \in Allowed(prices[k], t[k - 1], mask) :
                /\ CostWith(prices[k], t[k - 1], mask, d) \in Int
                /\ t[k][mask] <= CostWith(prices[k], t[k - 1], mask, d)
      BY <3>0, TurnIsLeast DEF Tables
    <3>5. CASE \E e \in M : e[1] = k
      <4>1. PICK e \in M : e[1] = k
        BY <3>5
      <4>2. PICK N : N = M \ {e}
        OBVIOUS
      <4>3. PairsUp(N, k - 1, prices) /\ TakenIn(N) = mask \ {e[2]} /\ N \in SUBSET EdgesOf(k - 1)
        <5> HIDE DEF S, Smallest
        <5>0. PairsUp(M \ {e}, k - 1, prices)
          BY <2>2, <4>1, LastPairLeaves
        <5>1. TakenIn(M \ {e}) = TakenIn(M) \ {e[2]}
          <6>1. \A g \in M : g # e => g[2] # e[2]
            BY <2>2 DEF PairsUp
          <6> QED
            BY <6>1 DEF TakenIn
        <5>2. N \in SUBSET EdgesOf(k - 1)
          BY <4>2, <5>0 DEF PairsUp
        <5> QED
          BY <3>3, <4>2, <5>0, <5>1, <5>2
      <4>4. t[k - 1][mask \ {e[2]}] <= SumFunctionOnSet(f, N)
        BY <2>1, <4>3
      <4>5. SumFunctionOnSet(f, N) \in Int /\ SumFunctionOnSet(f, N) <= 0
        BY <1>2, <3>0, <4>3, FewerRowsFit, GainsFit
      <4>6. PICK x, y \in Int : x = t[k - 1][mask \ {e[2]}] /\ y = SumFunctionOnSet(f, N)
        BY <3>0, <4>5, MasksAreFinite DEF Tables
      <4>7. x < InvalidCost /\ x <= y
        BY <4>4, <4>5, <4>6, CostsAreNumbers
      <4>8. e[2] \in Allowed(prices[k], t[k - 1], mask)
        <5>1. e[2] \in mask /\ prices[k][e[2]] < InvalidCost
          BY <2>2, <3>3, <4>1 DEF TakenIn, PairsUp
        <5> QED
          BY <4>6, <4>7, <5>1 DEF Allowed
      <4>9. t[k][mask] <= x + prices[k][e[2]] - EpipolarGate
        BY <3>4, <4>6, <4>8 DEF CostWith
      <4>10. SumFunctionOnSet(f, M) = f[e] + y
        BY <3>2, <4>1, <4>2, <4>6, SumTakesAny
      <4>11. PICK z, w \in Int : z = prices[k][e[2]] /\ w = t[k][mask]
        BY <3>2, <3>4, <4>1
      <4>12. f[e] = z - EpipolarGate /\ w <= x + z - EpipolarGate /\ EpipolarGate \in Nat
        BY <3>2, <4>1, <4>9, <4>11, CostsAreNumbers
      <4>13. w <= (z - EpipolarGate) + y
        BY <4>7, <4>12
      <4> QED
        BY <3>3, <4>10, <4>11, <4>12, <4>13
    <3>6. CASE ~\E e \in M : e[1] = k
      <4>1. PairsUp(M, k - 1, prices) /\ M \in SUBSET EdgesOf(k - 1)
        BY <2>2, <3>6, NoPairLeaves DEF PairsUp
      <4>2. t[k - 1][mask] <= SumFunctionOnSet(f, M)
        BY <2>1, <3>3, <4>1
      <4>3. PICK x, y, w \in Int : x = t[k - 1][mask] /\ y = SumFunctionOnSet(f, M) /\ w = t[k][mask]
        BY <3>2, <3>4
      <4>4. w <= x /\ x <= y
        BY <3>4, <4>2, <4>3
      <4>5. w <= y
        BY <4>4
      <4> QED
        BY <3>3, <4>3, <4>5
    <3> QED
      BY <3>5, <3>6
  <2>3. Smallest(k)
    BY <2>2
  <2> HIDE DEF Smallest
  <2> QED
    BY <2>3
<1> HIDE DEF S, Smallest
<1>5. \A k \in 0 .. n : k \in S
  BY <1>3, <1>4, HoldsUpTo
<1> QED
  BY <1>1, <1>2, <1>5 DEF S, Smallest

-----------------------------------------------------------------------------
(* The mask that is best and what the rows take of it. *)

LEMMA NumbersAreNatural ==
    ASSUME NEW mask \in Masks
    PROVE  Number(mask) \in Nat
<1> DEFINE Fills(g) == g = [c \in 0 .. Count |-> IF c = 0 THEN 1 ELSE 2 * g[c - 1]]
           step == [e \in (1 .. Count) \X Nat |-> 2 * e[2]]
<1>0. Count \in Nat /\ IsFiniteSet(mask)
  BY EpipolarAssumption, MasksAreFinite
<1>1. \E g : Fills(g) /\ g \in [0 .. Count -> Nat]
  <2>0. PICK s : s = step
    OBVIOUS
  <2>1. \A k \in 1 .. Count, d \in Nat : s[<<k, d>>] = 2 * d
    BY <2>0
  <2> HIDE DEF step
  <2>2. PICK D, start : D = Nat /\ start = 1
    OBVIOUS
  <2>3. start \in D /\ StaysIn(s, Count, D)
    BY <2>1, <2>2 DEF StaysIn
  <2>4. PICK g : RunsFrom(g, Count, D, start, s)
    BY <1>0, <2>3, RecursionExists
  <2>5. g \in [0 .. Count -> Nat] /\ g[0] = 1 /\ \A k \in 1 .. Count : g[k] = s[<<k, g[k - 1]>>]
    BY <2>2, <2>4 DEF RunsFrom
  <2>6. \A k \in 1 .. Count : k - 1 \in 0 .. Count /\ g[k - 1] \in Nat
    BY <1>0, <2>5
  <2>7. \A k \in 1 .. Count : g[k] = 2 * g[k - 1]
    BY <2>1, <2>5, <2>6
  <2>8. \A k \in 0 .. Count : g[k] = IF k = 0 THEN 1 ELSE 2 * g[k - 1]
    <3> SUFFICES ASSUME NEW k \in 0 .. Count
                 PROVE  g[k] = IF k = 0 THEN 1 ELSE 2 * g[k - 1]
      OBVIOUS
    <3>1. k = 0 \/ k \in 1 .. Count
      BY <1>0
    <3> QED
      BY <2>5, <2>7, <3>1
  <2>9. Fills(g)
    BY <2>5, <2>8
  <2> QED
    BY <2>5, <2>9
<1>2. PICK g : Fills(g) /\ g \in [0 .. Count -> Nat]
  BY <1>1
<1>3. \A h : Fills(h) => h = g
  <2> SUFFICES ASSUME NEW h, Fills(h) PROVE h = g
    OBVIOUS
  <2> DEFINE S == {c \in 0 .. Count : h[c] = g[c]}
  <2>0. h = [c \in 0 .. Count |-> h[c]] /\ g = [c \in 0 .. Count |-> g[c]]
    BY <1>2
  <2>1. 0 \in S
    BY <1>0, <1>2
  <2>2. ASSUME NEW c \in 1 .. Count, c - 1 \in S PROVE c \in S
    <3>1. c \in 0 .. Count /\ c # 0
      BY <1>0
    <3>2. h[c] = 2 * h[c - 1] /\ g[c] = 2 * g[c - 1]
      BY <1>2, <3>1
    <3> QED
      BY <2>2, <3>1, <3>2
  <2> HIDE DEF S
  <2>3. \A c \in 0 .. Count : c \in S
    BY <1>0, <2>1, <2>2, HoldsUpTo
  <2>4. \A c \in 0 .. Count : h[c] = g[c]
    BY <2>3 DEF S
  <2> HIDE DEF Fills
  <2> QED
    BY <2>0, <2>4
<1>4. Fills(CHOOSE h : Fills(h))
  BY <1>1
<1>5. (CHOOSE h : Fills(h)) = g
  <2> HIDE DEF Fills
  <2> QED
    BY <1>3, <1>4
<1>6. Number(mask) = SumFunctionOnSet(g, mask)
  BY <1>5, Zenon DEF Number
<1>7. \A c \in mask : g[c] \in Nat
  <2>1. \A c \in mask : c \in 0 .. Count
    BY <1>0 DEF Masks, Cands
  <2> QED
    BY <1>2, <2>1
<1> QED
  BY <1>0, <1>6, <1>7, SumIsNatural

LEMMA FinalMaskIsLeast ==
    ASSUME NEW last \in Tables
    PROVE  FinalMask(last) \in Masks /\ \A o \in Masks : last[FinalMask(last)] <= last[o]
<1> DEFINE numbers == [m \in Masks |-> Number(m)]
           Best(m) == \A o \in Masks :
                         last[m] < last[o] \/ (last[m] = last[o] /\ Number(m) <= Number(o))
<1>1. \A m \in Masks : last[m] \in Int /\ numbers[m] \in Int /\ numbers[m] = Number(m)
  BY NumbersAreNatural DEF Tables
<1>2. IsFiniteSet(Masks) /\ Masks # {}
  BY MasksAreFinite, EmptyTableFits
<1> HIDE DEF numbers
<1>3. PICK m \in Masks : \A o \in Masks : last[m] < last[o] \/ (last[m] = last[o] /\ numbers[m] <= numbers[o])
  BY <1>1, <1>2, LeastPairExists
<1>4. Best(m)
  BY <1>1, <1>3
<1>5. FinalMask(last) \in Masks /\ Best(FinalMask(last))
  BY <1>4 DEF FinalMask
<1>6. PICK w : w = FinalMask(last)
  OBVIOUS
<1>7. \A o \in Masks : last[w] <= last[o]
  BY <1>1, <1>5, <1>6
<1> QED
  BY <1>5, <1>6, <1>7

LEMMA RemainingSteps ==
    ASSUME NEW n \in Nat, NEW prices, NEW t \in [0 .. n -> Tables]
    PROVE  /\ Remaining(n, prices, t) \in [0 .. n -> Masks]
           /\ Remaining(n, prices, t)[0] = FinalMask(t[n])
           /\ \A i \in 1 .. n :
                 Remaining(n, prices, t)[i]
                    = Remaining(n, prices, t)[i - 1]
                        \ {Choice(prices[n - i + 1], t[n - i], Remaining(n, prices, t)[i - 1])}
<1> DEFINE Fills(g) == g = [i \in 0 .. n |->
                              IF i = 0 THEN FinalMask(t[n])
                              ELSE g[i - 1] \ {Choice(prices[n - i + 1], t[n - i], g[i - 1])}]
           step == [e \in (1 .. n) \X Masks |-> e[2] \ {Choice(prices[n - e[1] + 1], t[n - e[1]], e[2])}]
<1>0. n \in 0 .. n /\ FinalMask(t[n]) \in Masks
  BY FinalMaskIsLeast
<1>1. \E g : Fills(g)
  <2>0. PICK s : s = step
    OBVIOUS
  <2>1. \A k \in 1 .. n, d \in Masks : s[<<k, d>>] = d \ {Choice(prices[n - k + 1], t[n - k], d)}
    BY <2>0
  <2> HIDE DEF step
  <2>2. PICK D, start : D = Masks /\ start = FinalMask(t[n])
    OBVIOUS
  <2>2a. ASSUME NEW k \in 1 .. n, NEW d \in Masks PROVE s[<<k, d>>] \in Masks
    <3>1. PICK c : c = Choice(prices[n - k + 1], t[n - k], d)
      OBVIOUS
    <3>2. s[<<k, d>>] = d \ {c}
      BY <2>1, <3>1
    <3> QED
      BY <3>2, MasksAreFinite
  <2>3. start \in D /\ StaysIn(s, n, D)
    BY <1>0, <2>2, <2>2a DEF StaysIn
  <2>4. PICK g : RunsFrom(g, n, D, start, s)
    BY <2>3, RecursionExists
  <2>5. g \in [0 .. n -> Masks] /\ g[0] = FinalMask(t[n]) /\ \A k \in 1 .. n : g[k] = s[<<k, g[k - 1]>>]
    BY <2>2, <2>4 DEF RunsFrom
  <2>6. \A k \in 1 .. n : k - 1 \in 0 .. n /\ g[k - 1] \in Masks
    BY <2>5
  <2>7. \A k \in 1 .. n : g[k] = g[k - 1] \ {Choice(prices[n - k + 1], t[n - k], g[k - 1])}
    BY <2>1, <2>5, <2>6
  <2>8. \A k \in 0 .. n : g[k] = IF k = 0 THEN FinalMask(t[n])
                                 ELSE g[k - 1] \ {Choice(prices[n - k + 1], t[n - k], g[k - 1])}
    <3> SUFFICES ASSUME NEW k \in 0 .. n
                 PROVE  g[k] = IF k = 0 THEN FinalMask(t[n])
                               ELSE g[k - 1] \ {Choice(prices[n - k + 1], t[n - k], g[k - 1])}
      OBVIOUS
    <3>1. k = 0 \/ k \in 1 .. n
      OBVIOUS
    <3> QED
      BY <2>5, <2>7, <3>1
  <2>9. Fills(g)
    BY <2>5, <2>8
  <2> QED
    BY <2>9
<1>2. Fills(Remaining(n, prices, t))
  BY <1>1, Zenon DEF Remaining
<1>3. PICK r : r = Remaining(n, prices, t)
  OBVIOUS
<1>4. r = [i \in 0 .. n |-> IF i = 0 THEN FinalMask(t[n])
                            ELSE r[i - 1] \ {Choice(prices[n - i + 1], t[n - i], r[i - 1])}]
  BY <1>2, <1>3
<1>5. r[0] = FinalMask(t[n]) /\ \A i \in 1 .. n : r[i] = r[i - 1] \ {Choice(prices[n - i + 1], t[n - i], r[i - 1])}
  <2>1. 0 \in 0 .. n /\ \A i \in 1 .. n : i \in 0 .. n /\ i # 0
    OBVIOUS
  <2> QED
    BY <1>4, <2>1
<1>6. \A i \in 0 .. n : r[i] \in Masks
  <2> DEFINE S == {i \in 0 .. n : r[i] \in Masks}
  <2>1. 0 \in S
    BY <1>0, <1>5
  <2>2. ASSUME NEW i \in 1 .. n, i - 1 \in S PROVE i \in S
    <3>1. r[i - 1] \in Masks /\ i \in 0 .. n
      BY <2>2
    <3>2. PICK c : c = Choice(prices[n - i + 1], t[n - i], r[i - 1])
      OBVIOUS
    <3>3. r[i] = r[i - 1] \ {c}
      BY <1>5, <3>2
    <3> QED
      BY <3>1, <3>3, MasksAreFinite
  <2> HIDE DEF S
  <2>3. \A i \in 0 .. n : i \in S
    BY <2>1, <2>2, HoldsUpTo
  <2> QED
    BY <2>3 DEF S
<1>7. r \in [0 .. n -> Masks]
  BY <1>4, <1>6
<1> QED
  BY <1>3, <1>5, <1>7

\* The mask that is left for the first k rows, and what row k takes of it.
LeftFor(n, prices) == [k \in 0 .. n |-> Remaining(n, prices, Table(n, prices))[n - k]]
PairsUpTo(S, k) == {<<j, S[j]>> : j \in {i \in 1 .. k : S[i] # Unmatched}}

LEMMA SolutionSteps ==
    ASSUME NEW n \in Nat, NEW prices \in CostTables(n)
    PROVE  /\ LeftFor(n, prices) \in [0 .. n -> Masks]
           /\ LeftFor(n, prices)[n] = FinalMask(Table(n, prices)[n])
           /\ Solve(n, prices) = [k \in 1 .. n |-> Solve(n, prices)[k]]
           /\ \A k \in 1 .. n :
                 /\ Solve(n, prices)[k] = Choice(prices[k], Table(n, prices)[k - 1], LeftFor(n, prices)[k])
                 /\ LeftFor(n, prices)[k - 1] = LeftFor(n, prices)[k] \ {Solve(n, prices)[k]}
<1>1. PICK t \in [0 .. n -> Tables] : t = Table(n, prices)
  BY TableFills
<1>2. PICK r \in [0 .. n -> Masks] :
         /\ r = Remaining(n, prices, t) /\ r[0] = FinalMask(t[n])
         /\ \A i \in 1 .. n : r[i] = r[i - 1] \ {Choice(prices[n - i + 1], t[n - i], r[i - 1])}
  BY RemainingSteps
<1>3. PICK L : L = LeftFor(n, prices)
  OBVIOUS
<1>4. PICK S : S = Solve(n, prices)
  OBVIOUS
<1>5. L = [k \in 0 .. n |-> r[n - k]]
  BY <1>1, <1>2, <1>3 DEF LeftFor
<1>6. S = [k \in 1 .. n |-> Choice(prices[k], t[k - 1], r[n - k])]
  BY <1>1, <1>2, <1>4 DEF Solve
<1>7. L \in [0 .. n -> Masks]
  <2>1. \A k \in 0 .. n : n - k \in 0 .. n
    OBVIOUS
  <2> QED
    BY <1>5, <2>1
<1>8. L[n] = FinalMask(t[n])
  <2>1. n \in 0 .. n /\ n - n = 0
    OBVIOUS
  <2> QED
    BY <1>2, <1>5, <2>1
<1>9. ASSUME NEW k \in 1 .. n
      PROVE  S[k] = Choice(prices[k], t[k - 1], L[k]) /\ L[k - 1] = L[k] \ {S[k]}
  <2>1. k \in 0 .. n /\ k - 1 \in 0 .. n
    OBVIOUS
  <2>2. L[k] = r[n - k] /\ S[k] = Choice(prices[k], t[k - 1], r[n - k])
    BY <1>5, <1>6, <2>1
  <2>3. PICK i \in 1 .. n : i = n - k + 1
    OBVIOUS
  <2>4. n - i + 1 = k /\ n - i = k - 1 /\ i - 1 = n - k /\ n - (k - 1) = i
    BY <2>3
  <2>5. L[k - 1] = r[i]
    BY <1>5, <2>1, <2>4
  <2>6. r[i] = r[i - 1] \ {Choice(prices[n - i + 1], t[n - i], r[i - 1])}
    BY <1>2
  <2>7. r[i] = r[n - k] \ {Choice(prices[k], t[k - 1], r[n - k])}
    BY <2>4, <2>6
  <2> QED
    BY <2>2, <2>5, <2>7
<1> QED
  BY <1>1, <1>3, <1>4, <1>6, <1>7, <1>8, <1>9

\* What the rows take, they take once: the masks grow with the rows.
LEMMA SolutionIsAMatching ==
    ASSUME NEW n \in Nat, NEW prices \in CostTables(n)
    PROVE  /\ Solve(n, prices) \in [1 .. n -> Cands \cup {Unmatched}]
           /\ \A k \in 1 .. n :
                 Solve(n, prices)[k] # Unmatched =>
                    /\ prices[k][Solve(n, prices)[k]] < InvalidCost
                    /\ \A l \in 1 .. n : l # k => Solve(n, prices)[l] # Solve(n, prices)[k]
<1>1. PICK t \in [0 .. n -> Tables] : t = Table(n, prices)
  BY TableFills
<1>2. PICK L, S : L = LeftFor(n, prices) /\ S = Solve(n, prices)
  OBVIOUS
<1>3. /\ L \in [0 .. n -> Masks] /\ S = [k \in 1 .. n |-> S[k]]
      /\ \A k \in 1 .. n : S[k] = Choice(prices[k], t[k - 1], L[k]) /\ L[k - 1] = L[k] \ {S[k]}
  BY <1>1, <1>2, SolutionSteps
<1>4. ASSUME NEW k \in 1 .. n
      PROVE  S[k] \in Cands \cup {Unmatched} /\ (S[k] # Unmatched => S[k] \in L[k] /\ prices[k][S[k]] < InvalidCost)
  <2>1. prices[k] \in [Cands -> CostValues] /\ t[k - 1] \in Tables /\ L[k] \in Masks
    <3>1. k - 1 \in 0 .. n /\ k \in 0 .. n
      OBVIOUS
    <3> QED
      BY <1>3, <3>1 DEF CostTables
  <2>2. S[k] \in Allowed(prices[k], t[k - 1], L[k]) \cup {Unmatched}
    BY <1>3, <2>1, TurnIsLeast
  <2> QED
    BY <2>1, <2>2 DEF Allowed, Masks
<1>5. \A l \in 0 .. n : \A k \in 0 .. l : L[k] \subseteq L[l]
  <2> DEFINE Q == {l \in 0 .. n : \A k \in 0 .. l : L[k] \subseteq L[l]}
  <2>1. 0 \in Q
    OBVIOUS
  <2>2. ASSUME NEW l \in 1 .. n, l - 1 \in Q PROVE l \in Q
    <3>1. L[l - 1] \subseteq L[l] /\ l \in 0 .. n
      BY <1>3
    <3>2. \A k \in 0 .. l : k = l \/ k \in 0 .. l - 1
      OBVIOUS
    <3>3. \A k \in 0 .. l - 1 : L[k] \subseteq L[l - 1]
      BY <2>2
    <3>4. \A k \in 0 .. l : L[k] \subseteq L[l]
      BY <3>1, <3>2, <3>3
    <3> QED
      BY <3>1, <3>4
  <2> HIDE DEF Q
  <2>3. \A l \in 0 .. n : l \in Q
    BY <2>1, <2>2, HoldsUpTo
  <2> QED
    BY <2>3 DEF Q
<1>6. ASSUME NEW k \in 1 .. n, NEW l \in 1 .. n, k < l, S[k] # Unmatched
      PROVE  S[k] # S[l]
  <2>1. k \in 0 .. l - 1 /\ l - 1 \in 0 .. n
    BY <1>6
  <2>2. S[k] \in L[l - 1]
    BY <1>4, <1>5, <1>6, <2>1
  <2>3. L[l - 1] = L[l] \ {S[l]}
    BY <1>3
  <2> QED
    BY <2>2, <2>3
<1>7. S \in [1 .. n -> Cands \cup {Unmatched}]
  BY <1>3, <1>4
<1>8. ASSUME NEW k \in 1 .. n, NEW l \in 1 .. n, k # l, S[k] # Unmatched
      PROVE  S[l] # S[k]
  <2>1. k < l \/ l < k
    BY <1>8
  <2>2. CASE k < l
    BY <1>6, <1>8, <2>2
  <2>3. CASE l < k
    BY <1>6, <1>8, <2>3
  <2> QED
    BY <2>1, <2>2, <2>3
<1> QED
  BY <1>2, <1>4, <1>7, <1>8

LEMMA PairsOfGrow ==
    ASSUME NEW n \in Nat, NEW S, NEW k \in 1 .. n
    PROVE  /\ S[k] = Unmatched => PairsUpTo(S, k) = PairsUpTo(S, k - 1)
           /\ S[k] # Unmatched => /\ <<k, S[k]>> \in PairsUpTo(S, k)
                                  /\ PairsUpTo(S, k) \ {<<k, S[k]>>} = PairsUpTo(S, k - 1)
<1>1. \A j : j \in 1 .. k <=> (j = k \/ j \in 1 .. k - 1)
  OBVIOUS
<1>2. k \notin 1 .. k - 1 /\ k \in 1 .. k
  OBVIOUS
<1>3. S[k] = Unmatched => PairsUpTo(S, k) = PairsUpTo(S, k - 1)
  BY <1>1 DEF PairsUpTo
<1>4. S[k] # Unmatched => <<k, S[k]>> \in PairsUpTo(S, k)
  BY <1>2 DEF PairsUpTo
<1>5. PairsUpTo(S, k) \ {<<k, S[k]>>} \subseteq PairsUpTo(S, k - 1)
  <2> SUFFICES ASSUME NEW e \in PairsUpTo(S, k), e # <<k, S[k]>>
               PROVE  e \in PairsUpTo(S, k - 1)
    OBVIOUS
  <2>1. PICK j \in 1 .. k : S[j] # Unmatched /\ e = <<j, S[j]>>
    BY DEF PairsUpTo
  <2>2. j # k
    BY <2>1
  <2> QED
    BY <1>1, <2>1, <2>2 DEF PairsUpTo
<1>6. PairsUpTo(S, k - 1) \subseteq PairsUpTo(S, k) \ {<<k, S[k]>>}
  <2> SUFFICES ASSUME NEW e \in PairsUpTo(S, k - 1)
               PROVE  e \in PairsUpTo(S, k) /\ e # <<k, S[k]>>
    OBVIOUS
  <2>1. PICK j \in 1 .. k - 1 : S[j] # Unmatched /\ e = <<j, S[j]>>
    BY DEF PairsUpTo
  <2>2. j # k /\ j \in 1 .. k
    BY <1>1, <1>2
  <2> QED
    BY <2>1, <2>2 DEF PairsUpTo
<1> QED
  BY <1>3, <1>4, <1>5, <1>6

\* The solution is a matching in the sense of the property.
LEMMA SolutionPairsUp ==
    ASSUME NEW n \in Nat, NEW prices \in CostTables(n), NEW k \in 0 .. n
    PROVE  PairsUp(PairsUpTo(Solve(n, prices), k), n, prices)
<1>1. PICK S : S = Solve(n, prices)
  OBVIOUS
<1>2. /\ S \in [1 .. n -> Cands \cup {Unmatched}]
      /\ \A j \in 1 .. n : S[j] # Unmatched =>
            prices[j][S[j]] < InvalidCost /\ \A l \in 1 .. n : l # j => S[l] # S[j]
  BY <1>1, SolutionIsAMatching
<1>3. \A e \in PairsUpTo(S, k) : \E j \in 1 .. n : S[j] # Unmatched /\ e = <<j, S[j]>>
  <2>1. 1 .. k \subseteq 1 .. n
    OBVIOUS
  <2> QED
    BY <2>1 DEF PairsUpTo
<1>4. ASSUME NEW e \in PairsUpTo(S, k)
      PROVE  e \in EdgesOf(n) /\ prices[e[1]][e[2]] < InvalidCost
  <2>1. PICK j \in 1 .. n : S[j] # Unmatched /\ e = <<j, S[j]>>
    BY <1>3
  <2> QED
    BY <1>2, <2>1 DEF EdgesOf
<1>5. ASSUME NEW e \in PairsUpTo(S, k), NEW f \in PairsUpTo(S, k), e # f
      PROVE  e[1] # f[1] /\ e[2] # f[2]
  <2>1. PICK j \in 1 .. n : S[j] # Unmatched /\ e = <<j, S[j]>>
    BY <1>3
  <2>2. PICK l \in 1 .. n : S[l] # Unmatched /\ f = <<l, S[l]>>
    BY <1>3
  <2>3. j # l
    BY <1>5, <2>1, <2>2
  <2> QED
    BY <1>2, <2>1, <2>2, <2>3
<1>6. PairsUp(PairsUpTo(S, k), n, prices)
  BY <1>4, <1>5 DEF PairsUp
<1> QED
  BY <1>1, <1>6

\* The entry of what is left for the first rows is what their pairs gain.
LEMMA EntriesArePaid ==
    ASSUME NEW n \in Nat, NEW prices \in CostTables(n)
    PROVE  \A k \in 0 .. n :
              Table(n, prices)[k][LeftFor(n, prices)[k]] < InvalidCost =>
                 Table(n, prices)[k][LeftFor(n, prices)[k]]
                    = SumFunctionOnSet(Gains(n, prices), PairsUpTo(Solve(n, prices), k))
<1>1. PICK t \in [0 .. n -> Tables] :
         /\ t = Table(n, prices) /\ t[0] = EmptyTable
         /\ \A k \in 1 .. n : t[k] = Turn(prices[k], t[k - 1])
  BY TableFills
<1>2. PICK L, S, f : L = LeftFor(n, prices) /\ S = Solve(n, prices) /\ f = Gains(n, prices)
  OBVIOUS
<1>3. /\ L \in [0 .. n -> Masks]
      /\ \A k \in 1 .. n : S[k] = Choice(prices[k], t[k - 1], L[k]) /\ L[k - 1] = L[k] \ {S[k]}
  BY <1>1, <1>2, SolutionSteps
<1>4. \A k \in 0 .. n : PairsUp(PairsUpTo(S, k), n, prices)
  BY <1>2, SolutionPairsUp
<1> DEFINE Paid(k) == t[k][L[k]] < InvalidCost => t[k][L[k]] = SumFunctionOnSet(f, PairsUpTo(S, k))
           Q == {k \in 0 .. n : Paid(k)}
<1>5. 0 \in Q
  <2>1. L[0] \in Masks /\ t[0][L[0]] = IF L[0] = {} THEN 0 ELSE InvalidCost
    BY <1>1, <1>3 DEF EmptyTable
  <2>2. t[0][L[0]] < InvalidCost => t[0][L[0]] = 0
    BY <2>1, CostsAreNumbers
  <2>3. PairsUpTo(S, 0) = {}
    BY DEF PairsUpTo
  <2>4. SumFunctionOnSet(f, {}) = 0
    BY SumOfNothing
  <2>5. Paid(0)
    BY <2>2, <2>3, <2>4
  <2> HIDE DEF Paid
  <2> QED
    BY <2>5
<1>6. ASSUME NEW k \in 1 .. n, k - 1 \in Q PROVE k \in Q
  <2>0. /\ k - 1 \in 0 .. n /\ k \in 0 .. n /\ prices[k] \in [Cands -> CostValues]
        /\ t[k - 1] \in Tables /\ t[k] = Turn(prices[k], t[k - 1])
        /\ L[k] \in Masks /\ L[k - 1] \in Masks
        /\ S[k] = Choice(prices[k], t[k - 1], L[k]) /\ L[k - 1] = L[k] \ {S[k]}
    BY <1>1, <1>3 DEF CostTables
  <2>1. Paid(k - 1)
    BY <1>6
  <2>2a. PICK mask \in Masks, other \in Tables : mask = L[k] /\ other = t[k - 1]
    BY <2>0
  <2>2b. PICK c, cam : c = S[k] /\ cam = t[k]
    OBVIOUS
  <2>2. mask = L[k] /\ c = S[k] /\ other = t[k - 1] /\ cam = t[k]
    BY <2>2a, <2>2b
  <2>3. /\ c \in Allowed(prices[k], other, mask) \cup {Unmatched}
        /\ cam[mask] = IF c = Unmatched THEN other[mask] ELSE CostWith(prices[k], other, mask, c)
    <3>1. PICK pr \in [Cands -> CostValues] : pr = prices[k]
      BY <2>0
    <3>2. c = Choice(pr, other, mask) /\ cam = Turn(pr, other)
      BY <2>0, <2>2, <3>1
    <3>3. /\ Choice(pr, other, mask) \in Allowed(pr, other, mask) \cup {Unmatched}
          /\ Turn(pr, other)[mask] = IF Choice(pr, other, mask) = Unmatched THEN other[mask]
                                ELSE CostWith(pr, other, mask, Choice(pr, other, mask))
      BY TurnIsLeast
    <3> QED
      BY <3>1, <3>2, <3>3
  <2>4. CASE c = Unmatched
    <3>1. mask \ {c} = mask
      <4>1. mask \subseteq Cands /\ c \notin Cands
        BY <2>4, MasksAreFinite DEF Masks
      <4> QED
        BY <4>1
    <3>2. cam[mask] = other[mask] /\ L[k - 1] = mask
      <4>1. L[k - 1] = mask \ {c}
        BY <2>0, <2>2
      <4>2. cam[mask] = other[mask]
        BY <2>3, <2>4
      <4> QED
        BY <3>1, <4>1, <4>2
    <3>3. PairsUpTo(S, k) = PairsUpTo(S, k - 1)
      BY <2>2, <2>4, PairsOfGrow
    <3>4. Paid(k)
      BY <2>1, <2>2, <3>2, <3>3
    <3> HIDE DEF Paid
    <3> QED
      BY <2>0, <3>4
  <2>5. CASE c # Unmatched
    <3>1. /\ c \in mask /\ c \in Cands /\ prices[k][c] < InvalidCost
          /\ other[mask \ {c}] < InvalidCost /\ mask \ {c} = L[k - 1]
          /\ cam[mask] = other[mask \ {c}] + prices[k][c] - EpipolarGate
      BY <2>0, <2>2, <2>3, <2>5 DEF Allowed, CostWith, Masks
    <3>2. other[mask \ {c}] = SumFunctionOnSet(f, PairsUpTo(S, k - 1))
      BY <2>1, <2>2, <3>1
    <3>3. PICK P, R : P = PairsUpTo(S, k) /\ R = PairsUpTo(S, k - 1)
      OBVIOUS
    <3>4. <<k, c>> \in P /\ P \ {<<k, c>>} = R
      BY <2>2, <2>5, <3>3, PairsOfGrow
    <3>5. /\ IsFiniteSet(P) /\ SumFunctionOnSet(f, R) \in Int
          /\ \A e \in P : f[e] \in Int
          /\ f[<<k, c>>] = prices[k][c] - EpipolarGate /\ prices[k][c] \in Nat
      <4>1. PairsUp(P, n, prices) /\ PairsUp(R, n, prices)
        BY <1>4, <2>0, <3>3
      <4>2. /\ IsFiniteSet(P)
            /\ \A e \in P : f[e] \in Int /\ f[e] = prices[e[1]][e[2]] - EpipolarGate /\ prices[e[1]][e[2]] \in Nat
        BY <1>2, <4>1, GainsFit
      <4>3. SumFunctionOnSet(f, R) \in Int
        BY <1>2, <4>1, GainsFit
      <4>4. <<k, c>>[1] = k /\ <<k, c>>[2] = c
        OBVIOUS
      <4>5. f[<<k, c>>] = prices[k][c] - EpipolarGate /\ prices[k][c] \in Nat
        BY <3>4, <4>2, <4>4
      <4> QED
        BY <4>2, <4>3, <4>5
    <3>6. SumFunctionOnSet(f, P) = f[<<k, c>>] + SumFunctionOnSet(f, R)
      BY <3>4, <3>5, SumTakesAny
    <3>7. PICK x, y \in Int : x = SumFunctionOnSet(f, R) /\ y = prices[k][c]
      BY <3>5
    <3>8. EpipolarGate \in Nat /\ x + y - EpipolarGate = (y - EpipolarGate) + x
      BY <3>7, CostsAreNumbers
    <3>9. cam[mask] = SumFunctionOnSet(f, P)
      BY <3>1, <3>2, <3>3, <3>5, <3>6, <3>7, <3>8
    <3>10. Paid(k)
      BY <2>2, <3>3, <3>9
    <3> HIDE DEF Paid
    <3> QED
      BY <2>0, <3>10
  <2> QED
    BY <2>4, <2>5
<1> HIDE DEF Q
<1>7. \A k \in 0 .. n : k \in Q
  BY <1>5, <1>6, HoldsUpTo
<1>8. \A k \in 0 .. n : Paid(k)
  BY <1>7 DEF Q
<1> QED
  BY <1>1, <1>2, <1>8

\* No matching gains more than the solution.
LEMMA SolutionIsCheapest ==
    ASSUME NEW n \in Nat, NEW prices \in CostTables(n), NEW M \in SUBSET EdgesOf(n), PairsUp(M, n, prices)
    PROVE  SumFunctionOnSet(Gains(n, prices), PairsUpTo(Solve(n, prices), n))
              <= SumFunctionOnSet(Gains(n, prices), M)
<1>1. PICK t \in [0 .. n -> Tables] : t = Table(n, prices)
  BY TableFills
<1>2. PICK L, S, f : L = LeftFor(n, prices) /\ S = Solve(n, prices) /\ f = Gains(n, prices)
  OBVIOUS
<1>3. n \in 0 .. n /\ t[n] \in Tables
  OBVIOUS
<1>4. L[n] \in Masks /\ \A o \in Masks : t[n][L[n]] <= t[n][o]
  BY <1>1, <1>2, <1>3, SolutionSteps, FinalMaskIsLeast
<1>5. ASSUME NEW N \in SUBSET EdgesOf(n), PairsUp(N, n, prices)
      PROVE  t[n][L[n]] <= SumFunctionOnSet(f, N) /\ SumFunctionOnSet(f, N) \in Int /\ SumFunctionOnSet(f, N) <= 0
  <2>1. t[n][TakenIn(N)] <= SumFunctionOnSet(f, N)
    BY <1>1, <1>2, <1>3, <1>5, NoMatchingCostsLess
  <2>2. SumFunctionOnSet(f, N) \in Int /\ SumFunctionOnSet(f, N) <= 0 /\ TakenIn(N) \in Masks
    BY <1>2, <1>5, GainsFit DEF TakenIn, Masks
  <2>3. PICK x, y, z \in Int : x = t[n][L[n]] /\ y = t[n][TakenIn(N)] /\ z = SumFunctionOnSet(f, N)
    BY <1>3, <1>4, <2>2 DEF Tables
  <2>4. x <= y /\ y <= z
    BY <1>4, <2>1, <2>2, <2>3
  <2>5. x <= z
    BY <2>4
  <2> QED
    BY <2>2, <2>3, <2>5
<1>6. t[n][L[n]] < InvalidCost
  <2>1. PairsUp({}, n, prices) /\ {} \in SUBSET EdgesOf(n)
    BY DEF PairsUp
  <2>2. t[n][L[n]] <= SumFunctionOnSet(f, {}) /\ SumFunctionOnSet(f, {}) = 0
    BY <1>5, <2>1, SumOfNothing
  <2>3. t[n][L[n]] \in Int
    BY <1>3, <1>4 DEF Tables
  <2> QED
    BY <2>2, <2>3, CostsAreNumbers
<1>7. t[n][L[n]] = SumFunctionOnSet(f, PairsUpTo(S, n))
  BY <1>1, <1>2, <1>3, <1>6, EntriesArePaid
<1>8. t[n][L[n]] <= SumFunctionOnSet(f, M)
  BY <1>5
<1> QED
  BY <1>2, <1>7, <1>8

-----------------------------------------------------------------------------
(* The rows.  What is in them, and what the steps put into them. *)

\* Rows of detections, within the limit, of which the first m have an anchor.
DetectionRows == [0 .. 2 -> Cands \cup {Unmatched}]
SoundRows(A, m) ==
    /\ A \in Seq(DetectionRows) /\ Len(A) <= RowLimit /\ m \in 0 .. Len(A)
    /\ \A k \in 1 .. Len(A) : k > m <=> A[k][0] = Unmatched
\* No detection is in two rows, and each is one that its camera saw.
Once(A) == \A cam \in 0 .. 2 : \A k, l \in 1 .. Len(A) :
              k # l /\ A[k][cam] # Unmatched => A[k][cam] # A[l][cam]
AllSeen(A) == \A cam \in 0 .. 2 : \A k \in 1 .. Len(A) : A[k][cam] # Unmatched => A[k][cam] \in Seen(cam)
\* Every detection of a camera has a row.
HasAll(A, cam) == \A c \in Seen(cam) : \E k \in 1 .. Len(A) : A[k][cam] = c
\* The detections of a row are within the gate of each other.
MayMeet(pair, a, b) == a = Unmatched \/ b = Unmatched \/ PairCost(pair, a, b) <= EpipolarGate
CamerasAgree(A) == \A k \in 1 .. Len(A) :
               MayMeet(1, A[k][0], A[k][1]) /\ MayMeet(2, A[k][0], A[k][2]) /\ MayMeet(3, A[k][1], A[k][2])
\* The rows after the first m have no detection of a camera yet.
Blank(A, cam, m) == \A k \in 1 .. Len(A) : k > m => A[k][cam] = Unmatched

LEMMA RowsAreTyped ==
    ASSUME NEW A \in Seq(DetectionRows)
    PROVE  /\ Len(A) \in Nat /\ DOMAIN A = 1 .. Len(A)
           /\ \A k \in 1 .. Len(A) : A[k] \in DetectionRows /\ \A cam \in 0 .. 2 : A[k][cam] \in Cands \cup {Unmatched}
<1>1. Len(A) \in Nat /\ DOMAIN A = 1 .. Len(A) /\ \A k \in 1 .. Len(A) : A[k] \in DetectionRows
  OBVIOUS
<1> QED
  BY <1>1 DEF DetectionRows

\* New rows for a view: what they hold no row has yet, and as long as there is
\* room they hold all that is left.
NewRows(R, A, cam) ==
    /\ R \in Seq(DetectionRows) /\ Len(A) + Len(R) <= RowLimit
    /\ \A i \in 1 .. Len(R) :
          /\ R[i][cam] \in Seen(cam) /\ R[i][cam] # Unmatched
          /\ \A k \in 1 .. Len(A) : A[k][cam] # R[i][cam]
          /\ \A w \in 0 .. 2 : w # cam => R[i][w] = Unmatched
    /\ \A i, j \in 1 .. Len(R) : i # j => R[i][cam] # R[j][cam]
    /\ Len(A) + Len(R) < RowLimit =>
          \A c \in Seen(cam) : (\E k \in 1 .. Len(A) : A[k][cam] = c) \/ \E i \in 1 .. Len(R) : R[i][cam] = c

LEMMA RowsAppended ==
    ASSUME NEW A \in Seq(DetectionRows), NEW cam \in 0 .. 2, NEW R, NewRows(R, A, cam), Once(A), AllSeen(A), CamerasAgree(A)
    PROVE  /\ A \o R \in Seq(DetectionRows) /\ Len(A \o R) = Len(A) + Len(R) /\ Len(A \o R) <= RowLimit
           /\ \A k \in 1 .. Len(A \o R) :
                 \/ k \in 1 .. Len(A) /\ (A \o R)[k] = A[k]
                 \/ /\ k \in Len(A) + 1 .. Len(A \o R) /\ (A \o R)[k][cam] # Unmatched
                    /\ \A w \in 0 .. 2 : w # cam => (A \o R)[k][w] = Unmatched
           /\ Once(A \o R) /\ AllSeen(A \o R) /\ CamerasAgree(A \o R)
           /\ Len(A \o R) < RowLimit => HasAll(A \o R, cam)
           /\ \A w \in 0 .. 2 : HasAll(A, w) => HasAll(A \o R, w)
<1>1. PICK B : B = A \o R
  OBVIOUS
<1>2. PICK m, n \in Nat : m = Len(A) /\ n = Len(R)
  BY DEF NewRows
<1>3. /\ B \in Seq(DetectionRows) /\ Len(B) = m + n /\ m + n <= RowLimit
      /\ \A k \in 1 .. m : B[k] = A[k]
      /\ \A i \in 1 .. n : B[m + i] = R[i]
  BY <1>1, <1>2 DEF NewRows
<1>4. ASSUME NEW k \in 1 .. m + n
      PROVE  \/ k \in 1 .. m /\ B[k] = A[k]
             \/ \E i \in 1 .. n : k = m + i /\ B[k] = R[i]
  <2>1. CASE k <= m
    BY <1>3, <2>1
  <2>2. CASE k > m
    <3>1. k - m \in 1 .. n /\ k = m + (k - m)
      BY <2>2
    <3> QED
      BY <1>3, <3>1
  <2> QED
    BY <2>1, <2>2
<1>5. \A i \in 1 .. n :
          /\ R[i][cam] \in Seen(cam) /\ R[i][cam] # Unmatched
          /\ \A k \in 1 .. m : A[k][cam] # R[i][cam]
          /\ \A w \in 0 .. 2 : w # cam => R[i][w] = Unmatched
  BY <1>2 DEF NewRows
<1>6. ASSUME NEW w \in 0 .. 2, NEW k \in 1 .. m + n, NEW l \in 1 .. m + n, k # l, B[k][w] # Unmatched
      PROVE  B[k][w] # B[l][w]
  <2>1. CASE k \in 1 .. m /\ B[k] = A[k]
    <3>1. CASE l \in 1 .. m /\ B[l] = A[l]
      BY <1>2, <1>6, <2>1, <3>1 DEF Once
    <3>2. CASE \E i \in 1 .. n : l = m + i /\ B[l] = R[i]
      BY <1>5, <1>6, <2>1, <3>2
    <3> QED
      BY <1>4, <3>1, <3>2
  <2>2. CASE \E i \in 1 .. n : k = m + i /\ B[k] = R[i]
    <3>1. CASE l \in 1 .. m /\ B[l] = A[l]
      BY <1>5, <1>6, <2>2, <3>1
    <3>2. CASE \E i \in 1 .. n : l = m + i /\ B[l] = R[i]
      <4>1. PICK i \in 1 .. n : k = m + i /\ B[k] = R[i]
        BY <2>2
      <4>2. PICK j \in 1 .. n : l = m + j /\ B[l] = R[j]
        BY <3>2
      <4>3. i # j /\ w = cam
        BY <1>5, <1>6, <4>1, <4>2
      <4> QED
        BY <1>2, <4>1, <4>2, <4>3 DEF NewRows
    <3> QED
      BY <1>4, <3>1, <3>2
  <2> QED
    BY <1>4, <2>1, <2>2
<1>7. Once(B)
  BY <1>3, <1>6 DEF Once
<1>8. ASSUME NEW w \in 0 .. 2, NEW k \in 1 .. m + n, B[k][w] # Unmatched
      PROVE  B[k][w] \in Seen(w)
  <2>1. CASE k \in 1 .. m /\ B[k] = A[k]
    BY <1>2, <1>8, <2>1 DEF AllSeen
  <2>2. CASE \E i \in 1 .. n : k = m + i /\ B[k] = R[i]
    BY <1>5, <1>8, <2>2
  <2> QED
    BY <1>4, <2>1, <2>2
<1>9. AllSeen(B)
  BY <1>3, <1>8 DEF AllSeen
<1>10. ASSUME NEW k \in 1 .. m + n
       PROVE  MayMeet(1, B[k][0], B[k][1]) /\ MayMeet(2, B[k][0], B[k][2]) /\ MayMeet(3, B[k][1], B[k][2])
  <2>1. CASE k \in 1 .. m /\ B[k] = A[k]
    BY <1>2, <2>1 DEF CamerasAgree
  <2>2. CASE \E i \in 1 .. n : k = m + i /\ B[k] = R[i]
    <3>1. \A w \in 0 .. 2 : w # cam => B[k][w] = Unmatched
      BY <1>5, <2>2
    <3>2. cam = 0 \/ cam = 1 \/ cam = 2
      OBVIOUS
    <3>3. \/ B[k][0] = Unmatched /\ B[k][1] = Unmatched
          \/ B[k][0] = Unmatched /\ B[k][2] = Unmatched
          \/ B[k][1] = Unmatched /\ B[k][2] = Unmatched
      BY <3>1, <3>2
    <3> QED
      BY <3>3 DEF MayMeet
  <2> QED
    BY <1>4, <2>1, <2>2
<1>11. CamerasAgree(B)
  BY <1>3, <1>10 DEF CamerasAgree
<1>12. Len(B) < RowLimit => HasAll(B, cam)
  <2> SUFFICES ASSUME m + n < RowLimit, NEW c \in Seen(cam)
               PROVE  \E k \in 1 .. m + n : B[k][cam] = c
    BY <1>3 DEF HasAll
  <2>1. (\E k \in 1 .. m : A[k][cam] = c) \/ \E i \in 1 .. n : R[i][cam] = c
    BY <1>2 DEF NewRows
  <2>2. \A k \in 1 .. m : k \in 1 .. m + n
    OBVIOUS
  <2>3. \A i \in 1 .. n : m + i \in 1 .. m + n
    OBVIOUS
  <2> QED
    BY <1>3, <2>1, <2>2, <2>3
<1>13. ASSUME NEW w \in 0 .. 2, HasAll(A, w)
       PROVE  HasAll(B, w)
  <2>1. \A k \in 1 .. m : k \in 1 .. m + n
    OBVIOUS
  <2> QED
    BY <1>2, <1>3, <1>13, <2>1 DEF HasAll
<1>14. \A k \in 1 .. m + n :
          \/ k \in 1 .. m /\ B[k] = A[k]
          \/ /\ k \in m + 1 .. m + n /\ B[k][cam] # Unmatched
             /\ \A w \in 0 .. 2 : w # cam => B[k][w] = Unmatched
  <2> SUFFICES ASSUME NEW k \in 1 .. m + n, ~(k \in 1 .. m /\ B[k] = A[k])
               PROVE  /\ k \in m + 1 .. m + n /\ B[k][cam] # Unmatched
                      /\ \A w \in 0 .. 2 : w # cam => B[k][w] = Unmatched
    OBVIOUS
  <2>1. PICK i \in 1 .. n : k = m + i /\ B[k] = R[i]
    BY <1>4
  <2>2. k \in m + 1 .. m + n
    BY <2>1
  <2> QED
    BY <1>5, <2>1, <2>2
<1> QED
  BY <1>1, <1>2, <1>3, <1>7, <1>9, <1>11, <1>12, <1>13, <1>14

\* The order of ByScore: the higher score first, the lower index on a tie.
ScoreOrder(view, S) ==
    {pr \in S \X S : scene.score[view][pr[1]] > scene.score[view][pr[2]]
                    \/ (scene.score[view][pr[1]] = scene.score[view][pr[2]] /\ pr[1] < pr[2])}

LEMMA ScoresAreNumbers ==
    ASSUME scene \in Scenes, NEW cam \in 0 .. 2
    PROVE  /\ \A c \in Cands : scene.score[cam][c] \in Nat
           /\ Seen(cam) \subseteq Cands /\ IsFiniteSet(Seen(cam)) /\ Unmatched \notin Seen(cam)
<1>1. scene.score \in [0 .. 2 -> [Cands -> Nat]]
  BY EpipolarAssumption
<1>2. \A c \in Cands : scene.score[cam][c] \in Nat
  BY <1>1
<1>3. Seen(cam) \in SUBSET Cands
  BY DEF Seen
<1> QED
  BY <1>2, <1>3, MasksAreFinite DEF Masks

LEMMA ByScoreSorts ==
    ASSUME scene \in Scenes, NEW cam \in 0 .. 2, NEW S \in SUBSET Cands
    PROVE  /\ IsFiniteSet(S) /\ StrictOrder(ScoreOrder(cam, S), S)
           /\ ByScore(cam, S) = InOrder(S, ScoreOrder(cam, S))
<1>1. PICK f : f = scene.score[cam]
  OBVIOUS
<1>2. \A c \in S : f[c] \in Nat /\ c \in Nat
  BY <1>1, ScoresAreNumbers, MasksAreFinite
<1>3. PICK R : R = ScoreOrder(cam, S)
  OBVIOUS
<1>4. \A c, d \in S : <<c, d>> \in R <=> (f[c] > f[d] \/ (f[c] = f[d] /\ c < d))
  BY <1>1, <1>3 DEF ScoreOrder
<1>5. Irreflexive(R, S)
  BY <1>2, <1>4 DEF Irreflexive
<1>6. Transitive(R, S)
  <2> SUFFICES ASSUME NEW c \in S, NEW d \in S, NEW e \in S, <<c, d>> \in R, <<d, e>> \in R
               PROVE  <<c, e>> \in R
    BY DEF Transitive
  <2>1. PICK x, y, z \in Nat : x = f[c] /\ y = f[d] /\ z = f[e]
    BY <1>2
  <2>2. (x > y \/ (x = y /\ c < d)) /\ (y > z \/ (y = z /\ d < e)) /\ c \in Nat /\ d \in Nat /\ e \in Nat
    BY <1>2, <1>4, <2>1
  <2>3. x > z \/ (x = z /\ c < e)
    BY <2>2
  <2> QED
    BY <1>4, <2>1, <2>3
<1>7. Total(R, S)
  <2> SUFFICES ASSUME NEW c \in S, NEW d \in S, c # d
               PROVE  <<c, d>> \in R \/ <<d, c>> \in R
    BY DEF Total
  <2>1. PICK x, y \in Nat : x = f[c] /\ y = f[d]
    BY <1>2
  <2>2. x > y \/ y > x \/ (x = y /\ (c < d \/ d < c))
    BY <1>2
  <2> QED
    BY <1>4, <2>1, <2>2
<1>8. ByScore(cam, S) = InOrder(S, R)
  <2> DEFINE first(c) == {d \in S : f[d] > f[c] \/ (f[d] = f[c] /\ d < c)}
             ahead(c) == {d \in S : <<d, c>> \in R}
  <2>1. \A c \in S : first(c) = ahead(c)
    BY <1>4
  <2>2. ByScore(cam, S) = [i \in 1 .. Cardinality(S) |-> CHOOSE c \in S : Cardinality(first(c)) = i - 1]
    BY <1>1 DEF ByScore
  <2>3. InOrder(S, R) = [i \in 1 .. Cardinality(S) |-> CHOOSE c \in S : Cardinality(ahead(c)) = i - 1]
    BY DEF InOrder
  <2> HIDE DEF first, ahead
  <2>4. \A i : (CHOOSE c \in S : Cardinality(first(c)) = i - 1) = (CHOOSE c \in S : Cardinality(ahead(c)) = i - 1)
    <3> SUFFICES ASSUME NEW i
                 PROVE  (CHOOSE c \in S : Cardinality(first(c)) = i - 1)
                           = (CHOOSE c \in S : Cardinality(ahead(c)) = i - 1)
      OBVIOUS
    <3>1. \A c : (c \in S /\ Cardinality(first(c)) = i - 1) <=> (c \in S /\ Cardinality(ahead(c)) = i - 1)
      BY <2>1
    <3> QED
      BY <3>1
  <2> QED
    BY <2>2, <2>3, <2>4
<1>9. IsFiniteSet(S)
  BY MasksAreFinite DEF Masks
<1> QED
  BY <1>3, <1>5, <1>6, <1>7, <1>8, <1>9 DEF StrictOrder

LEMMA RowsForAreNew ==
    ASSUME scene \in Scenes, assignments \in Seq(DetectionRows), Len(assignments) <= RowLimit, NEW cam \in 0 .. 2
    PROVE  NewRows(RowsFor(cam), assignments, cam)
<1>1. PICK S : S = Seen(cam) \ Used(cam)
  OBVIOUS
<1>2. S \in SUBSET Cands /\ Unmatched \notin S /\ IsFiniteSet(S) /\ S \subseteq Seen(cam)
  BY <1>1, ScoresAreNumbers, FS_Subset
<1>3. PICK order : order = ByScore(cam, S)
  OBVIOUS
<1>4. PICK n \in Nat : n = Cardinality(S)
  BY <1>2, FS_CardinalityType
<1>5. /\ order \in [1 .. n -> S]
      /\ \A c \in S : \E i \in 1 .. n : order[i] = c
      /\ \A i, j \in 1 .. n : i < j => <<order[i], order[j]>> \in ScoreOrder(cam, S)
  <2>1. IsFiniteSet(S) /\ StrictOrder(ScoreOrder(cam, S), S) /\ order = InOrder(S, ScoreOrder(cam, S))
    BY <1>2, <1>3, ByScoreSorts
  <2> QED
    BY <1>4, <2>1, InOrderSorts
<1>6. \A i, j \in 1 .. n : i # j => order[i] # order[j]
  <2>1. ASSUME NEW i \in 1 .. n, NEW j \in 1 .. n, i < j PROVE order[i] # order[j]
    <3>1. <<order[i], order[j]>> \in ScoreOrder(cam, S)
      BY <1>5, <2>1
    <3>2. Irreflexive(ScoreOrder(cam, S), S) /\ order[i] \in S
      BY <1>2, <1>5, ByScoreSorts DEF StrictOrder
    <3> QED
      BY <3>1, <3>2 DEF Irreflexive
  <2>2. \A i, j \in 1 .. n : i # j => i < j \/ j < i
    OBVIOUS
  <2> QED
    BY <2>1, <2>2
<1>7. PICK room \in Nat : room = RowLimit - Len(assignments)
  <2>1. PICK x \in Nat : x = Len(assignments)
    BY RowsAreTyped
  <2>2. RowLimit \in Nat /\ x <= RowLimit
    BY <2>1, EpipolarAssumption
  <2>3. RowLimit - x \in Nat
    BY <2>2
  <2> QED
    BY <2>1, <2>3
<1>8. PICK m \in Nat : m = IF n < room THEN n ELSE room
  OBVIOUS
<1>9. Len(order) = n
  BY <1>5
<1>10. PICK R : R = RowsFor(cam)
  OBVIOUS
<1>11. R = [i \in 1 .. m |-> Row(cam, order[i])]
  BY <1>1, <1>3, <1>7, <1>8, <1>9, <1>10 DEF RowsFor
<1>12. m <= n /\ m <= room /\ 1 .. m \subseteq 1 .. n /\ (m < room => m = n)
  BY <1>8
<1>13. ASSUME NEW i \in 1 .. m
       PROVE  /\ R[i] \in DetectionRows /\ R[i][cam] = order[i] /\ order[i] \in S
              /\ \A w \in 0 .. 2 : w # cam => R[i][w] = Unmatched
  <2>1. order[i] \in S /\ order[i] \in Cands
    BY <1>2, <1>5, <1>12
  <2>2. R[i] = [w \in 0 .. 2 |-> IF w = cam THEN order[i] ELSE Unmatched]
    BY <1>11 DEF Row
  <2> QED
    BY <2>1, <2>2 DEF DetectionRows
<1>14. R \in Seq(DetectionRows) /\ Len(R) = m
  BY <1>11, <1>13
<1>15. \A k \in 1 .. Len(assignments), c \in S : assignments[k][cam] # c
  <2>1. DOMAIN assignments = 1 .. Len(assignments)
    BY RowsAreTyped
  <2> QED
    BY <1>1, <1>2, <2>1 DEF Used
<1>16. Len(assignments) + m <= RowLimit /\ (Len(assignments) + m < RowLimit => m = n)
  BY <1>7, <1>12, EpipolarAssumption, RowsAreTyped
<1>17. \A c \in Seen(cam) : (\E k \in 1 .. Len(assignments) : assignments[k][cam] = c) \/ c \in S
  <2>1. DOMAIN assignments = 1 .. Len(assignments)
    BY RowsAreTyped
  <2> QED
    BY <1>1, <2>1 DEF Used
<1>18. Len(assignments) + m < RowLimit =>
          \A c \in Seen(cam) : (\E k \in 1 .. Len(assignments) : assignments[k][cam] = c) \/ \E i \in 1 .. m : R[i][cam] = c
  <2> SUFFICES ASSUME Len(assignments) + m < RowLimit, NEW c \in Seen(cam),
                      ~\E k \in 1 .. Len(assignments) : assignments[k][cam] = c
               PROVE  \E i \in 1 .. m : R[i][cam] = c
    OBVIOUS
  <2>1. c \in S /\ m = n
    BY <1>16, <1>17
  <2>2. PICK i \in 1 .. n : order[i] = c
    BY <1>5, <2>1
  <2> QED
    BY <1>13, <2>1, <2>2
<1>19. \A i, j \in 1 .. m : i # j => R[i][cam] # R[j][cam]
  <2> SUFFICES ASSUME NEW i \in 1 .. m, NEW j \in 1 .. m, i # j
               PROVE  R[i][cam] # R[j][cam]
    OBVIOUS
  <2>1. R[i][cam] = order[i] /\ R[j][cam] = order[j]
    BY <1>13
  <2>2. i \in 1 .. n /\ j \in 1 .. n
    BY <1>12
  <2> QED
    BY <1>6, <2>1, <2>2
<1>20. \A i \in 1 .. m : /\ R[i][cam] \in Seen(cam) /\ R[i][cam] # Unmatched
                         /\ \A k \in 1 .. Len(assignments) : assignments[k][cam] # R[i][cam]
                         /\ \A w \in 0 .. 2 : w # cam => R[i][w] = Unmatched
  BY <1>2, <1>13, <1>15
<1>21. NewRows(R, assignments, cam)
  BY <1>14, <1>16, <1>18, <1>19, <1>20 DEF NewRows
<1> QED
  BY <1>10, <1>21

\* What the matcher may write into the rows after an offset.
Assignable(S, A, offset, cam) ==
    /\ S \in [1 .. Len(A) - offset -> Cands \cup {Unmatched}]
    /\ \A k \in 1 .. Len(A) - offset :
          S[k] # Unmatched =>
             /\ S[k] \in Seen(cam)
             /\ \A l \in 1 .. Len(A) - offset : l # k => S[l] # S[k]
             /\ \A j \in 1 .. offset : A[j][cam] # S[k]

LEMMA RowsAssigned ==
    ASSUME NEW cam \in 1 .. 2, NEW offset \in Nat, NEW S, assignments \in Seq(DetectionRows),
           offset <= Len(assignments), Assignable(S, assignments, offset, cam),
           Blank(assignments, cam, offset), Once(assignments), AllSeen(assignments)
    PROVE  /\ Assigned(S, offset, cam) \in Seq(DetectionRows) /\ Len(Assigned(S, offset, cam)) = Len(assignments)
           /\ \A k \in 1 .. Len(assignments) :
                 /\ \A w \in 0 .. 2 : w # cam => Assigned(S, offset, cam)[k][w] = assignments[k][w]
                 /\ k <= offset => Assigned(S, offset, cam)[k] = assignments[k]
                 /\ k > offset => Assigned(S, offset, cam)[k][cam] = S[k - offset]
           /\ Once(Assigned(S, offset, cam)) /\ AllSeen(Assigned(S, offset, cam))
           /\ \A w \in 0 .. 2 : w # cam /\ HasAll(assignments, w) => HasAll(Assigned(S, offset, cam), w)
<1>1. PICK A \in Seq(DetectionRows) : A = assignments
  OBVIOUS
<1>2. PICK B : B = Assigned(S, offset, cam)
  OBVIOUS
<1>3. PICK n \in Nat : n = Len(A)
  BY RowsAreTyped
<1>3a. DOMAIN A = 1 .. n /\ \A k \in 1 .. n : A[k] \in DetectionRows /\ \A w \in 0 .. 2 : A[k][w] \in Cands \cup {Unmatched}
  BY <1>3, RowsAreTyped
<1>4. PICK m \in Nat : m = n - offset
  <2>1. offset <= n
    BY <1>1, <1>3
  <2>2. n - offset \in Nat
    BY <2>1
  <2> QED
    BY <2>2
<1>5. /\ S \in [1 .. m -> Cands \cup {Unmatched}]
      /\ \A k \in 1 .. m : S[k] # Unmatched =>
            /\ S[k] \in Seen(cam)
            /\ \A l \in 1 .. m : l # k => S[l] # S[k]
            /\ \A j \in 1 .. offset : A[j][cam] # S[k]
  BY <1>1, <1>3, <1>4 DEF Assignable
<1>6. B = [k \in 1 .. n |-> IF k > offset THEN [A[k] EXCEPT ![cam] = S[k - offset]] ELSE A[k]]
  <2>1. DOMAIN S = 1 .. m
    BY <1>5
  <2>2. \A k \in 1 .. n : k > offset => k - offset \in 1 .. m
    BY <1>4
  <2>3. B = [k \in 1 .. n |-> IF k > offset /\ k - offset \in 1 .. m
                              THEN [A[k] EXCEPT ![cam] = S[k - offset]] ELSE A[k]]
    BY <1>1, <1>2, <1>3a, <2>1 DEF Assigned
  <2> QED
    BY <2>2, <2>3
<1>7. ASSUME NEW k \in 1 .. n
      PROVE  /\ B[k] \in DetectionRows
             /\ \A w \in 0 .. 2 : w # cam => B[k][w] = A[k][w]
             /\ k <= offset => B[k] = A[k]
             /\ k > offset => k - offset \in 1 .. m /\ B[k][cam] = S[k - offset]
  <2>1. CASE k > offset
    <3>1. k - offset \in 1 .. m
      BY <1>4, <2>1
    <3>2. PICK c \in Cands \cup {Unmatched} : c = S[k - offset]
      BY <1>5, <3>1
    <3>3. B[k] = [A[k] EXCEPT ![cam] = c]
      BY <1>6, <2>1, <3>2
    <3>4. A[k] \in [0 .. 2 -> Cands \cup {Unmatched}] /\ cam \in 0 .. 2
      BY <1>3a DEF DetectionRows
    <3>5. B[k] \in DetectionRows /\ B[k][cam] = c /\ \A w \in 0 .. 2 : w # cam => B[k][w] = A[k][w]
      BY <3>3, <3>4 DEF DetectionRows
    <3> QED
      BY <2>1, <3>1, <3>2, <3>5
  <2>2. CASE ~(k > offset)
    <3>1. B[k] = A[k]
      BY <1>6, <2>2
    <3> QED
      BY <1>3a, <2>2, <3>1
  <2> QED
    BY <2>1, <2>2
<1>8. B \in Seq(DetectionRows) /\ Len(B) = n
  <2>1. B \in [1 .. n -> DetectionRows]
    <3>1. B = [k \in 1 .. n |-> B[k]]
      BY <1>6
    <3> QED
      BY <1>7, <3>1
  <2> QED
    BY <2>1
<1>9. ASSUME NEW k \in 1 .. n, NEW l \in 1 .. n, k # l, B[k][cam] # Unmatched
      PROVE  B[k][cam] # B[l][cam]
  <2>0. cam \in 0 .. 2
    OBVIOUS
  <2>1. CASE k > offset /\ l > offset
    <3>1. k - offset \in 1 .. m /\ l - offset \in 1 .. m /\ k - offset # l - offset
      BY <1>4, <1>9, <2>1
    <3>2. B[k][cam] = S[k - offset] /\ B[l][cam] = S[l - offset]
      BY <1>7, <2>1
    <3> QED
      BY <1>5, <1>9, <3>1, <3>2
  <2>2. CASE k > offset /\ l <= offset
    <3>1. k - offset \in 1 .. m /\ l \in 1 .. offset
      BY <1>4, <2>2
    <3>2. B[k][cam] = S[k - offset] /\ B[l][cam] = A[l][cam]
      BY <1>7, <2>2
    <3> QED
      BY <1>5, <1>9, <3>1, <3>2
  <2>3. CASE k <= offset /\ l > offset
    <3>1. l - offset \in 1 .. m /\ k \in 1 .. offset
      BY <1>4, <2>3
    <3>2. B[l][cam] = S[l - offset] /\ B[k][cam] = A[k][cam]
      BY <1>7, <2>3
    <3> QED
      BY <1>5, <1>9, <3>1, <3>2
  <2>4. CASE k <= offset /\ l <= offset
    <3>1. B[k] = A[k] /\ B[l] = A[l]
      BY <1>7, <2>4
    <3> QED
      BY <1>1, <1>3, <1>9, <2>0, <3>1 DEF Once
  <2>5. (k > offset \/ k <= offset) /\ (l > offset \/ l <= offset)
    OBVIOUS
  <2> QED
    BY <2>1, <2>2, <2>3, <2>4, <2>5
<1>10. Once(B)
  <2> SUFFICES ASSUME NEW w \in 0 .. 2, NEW k \in 1 .. n, NEW l \in 1 .. n, k # l, B[k][w] # Unmatched
               PROVE  B[k][w] # B[l][w]
    BY <1>8 DEF Once
  <2>1. CASE w = cam
    BY <1>9, <2>1
  <2>2. CASE w # cam
    <3>1. B[k][w] = A[k][w] /\ B[l][w] = A[l][w]
      BY <1>7, <2>2
    <3> QED
      BY <1>1, <1>3, <3>1 DEF Once
  <2> QED
    BY <2>1, <2>2
<1>11. AllSeen(B)
  <2> SUFFICES ASSUME NEW w \in 0 .. 2, NEW k \in 1 .. n, B[k][w] # Unmatched
               PROVE  B[k][w] \in Seen(w)
    BY <1>8 DEF AllSeen
  <2>1. CASE w = cam /\ k > offset
    BY <1>5, <1>7, <2>1
  <2>2. CASE ~(w = cam /\ k > offset)
    <3>1. B[k][w] = A[k][w]
      BY <1>7, <2>2
    <3> QED
      BY <1>1, <1>3, <3>1 DEF AllSeen
  <2> QED
    BY <2>1, <2>2
<1>12. ASSUME NEW w \in 0 .. 2, w # cam, HasAll(A, w)
       PROVE  HasAll(B, w)
  BY <1>3, <1>7, <1>8, <1>12 DEF HasAll
<1>13. \A k \in 1 .. n :
          /\ \A w \in 0 .. 2 : w # cam => B[k][w] = A[k][w]
          /\ k <= offset => B[k] = A[k]
          /\ k > offset => B[k][cam] = S[k - offset]
  BY <1>7
<1> QED
  BY <1>1, <1>2, <1>3, <1>8, <1>10, <1>11, <1>12, <1>13

-----------------------------------------------------------------------------
(* The costs. *)

LEMMA PairCostsAre ==
    ASSUME scene \in Scenes, NEW a \in Cands, NEW b \in Cands
    PROVE  /\ \A pair \in 1 .. 3 : PairCost(pair, a, b) \in CostValues
           /\ PairCost(1, a, b) < InvalidCost => b \in Seen(1)
           /\ PairCost(2, a, b) < InvalidCost => b \in Seen(2)
           /\ PairCost(3, a, b) < InvalidCost => b \in Seen(2)
<1>1. scene.distance \in [1 .. 3 -> [Cands -> [Cands -> Nat]]]
  BY EpipolarAssumption
<1>2. ~(InvalidCost < InvalidCost) /\ EpipolarGate \in Nat
  BY CostsAreNumbers
<1>3. ASSUME NEW pair \in 1 .. 3 PROVE PairCost(pair, a, b) \in CostValues
  <2>1. PICK x \in Nat : x = scene.distance[pair][a][b]
    BY <1>1
  <2>2. x <= EpipolarGate => x \in CostValues
    BY <1>2 DEF CostValues
  <2>3. (PairCost(pair, a, b) = x /\ x <= EpipolarGate) \/ PairCost(pair, a, b) = InvalidCost
    BY <2>1 DEF PairCost
  <2> QED
    BY <2>2, <2>3 DEF CostValues
<1>4. PairCost(1, a, b) < InvalidCost => b \in Seen(1)
  BY <1>2 DEF PairCost, Seen
<1>5. PairCost(2, a, b) < InvalidCost => b \in Seen(2)
  BY <1>2 DEF PairCost, Seen
<1>6. PairCost(3, a, b) < InvalidCost => b \in Seen(2)
  BY <1>2 DEF PairCost, Seen
<1> QED
  BY <1>3, <1>4, <1>5, <1>6

-----------------------------------------------------------------------------
(* The steps of the matcher. *)

\* How far the rows are filled before each step: which cameras have none in
\* them yet, and which are in them with all they saw, while there is room.
InPhase(A, m, phase) ==
    /\ phase \in {"anchors", "view 1", "view 2", "pairs", "pair view 2", "rest", "done"}
    /\ phase = "anchors" => A = << >> /\ m = 0
    /\ phase \in {"view 1", "view 2", "pairs"} => Len(A) = m
    /\ phase = "view 1" => Blank(A, 1, 0)
    /\ phase \in {"view 1", "view 2"} => Blank(A, 2, 0)
    /\ phase = "pair view 2" => /\ Blank(A, 2, m)
                                /\ \A k \in 1 .. Len(A) : k > m => A[k][1] # Unmatched
    /\ Len(A) < RowLimit =>
          /\ phase # "anchors" => HasAll(A, 0)
          /\ phase \in {"pair view 2", "rest", "done"} => HasAll(A, 1)
          /\ phase = "done" => HasAll(A, 2)

\* The invariant: sound rows that hold each detection once, cameras that agree,
\* rows filled as far as the phase says, and an optimal match of camera 1.
EpipolarInvariant ==
    /\ scene \in Scenes
    /\ SoundRows(assignments, anchors) /\ Once(assignments)
    /\ AllSeen(assignments) /\ CamerasAgree(assignments)
    /\ InPhase(assignments, anchors, epc)
    /\ DynamicProgramIsOptimal

\* The steps do not change the scene: what holds of the next rows in this state
\* holds in the next.
LEMMA NextRowsHold ==
    ASSUME NEW B, NEW m, NEW phase, B = assignments', m = anchors', phase = epc', scene \in Scenes, scene' = scene,
           SoundRows(B, m), Once(B), AllSeen(B), CamerasAgree(B), InPhase(B, m, phase), DynamicProgramIsOptimal'
    PROVE  EpipolarInvariant'
<1>1. SoundRows(assignments, anchors)'
  BY DEF SoundRows
<1>2. Once(assignments)'
  BY DEF Once
<1>3. \A cam : Seen(cam)' = Seen(cam)
  BY DEF Seen
<1>4. AllSeen(assignments)'
  BY <1>3 DEF AllSeen
<1>5. CamerasAgree(assignments)'
  BY Zenon DEF CamerasAgree, MayMeet, PairCost
<1>6. ASSUME NEW cam, HasAll(B, cam) PROVE HasAll(assignments, cam)'
  BY <1>6 DEF HasAll, Seen
<1>7. InPhase(assignments, anchors, epc)'
  BY <1>6 DEF InPhase, Blank
<1> QED
  BY <1>1, <1>2, <1>4, <1>5, <1>7 DEF EpipolarInvariant

LEMMA EpipolarInit == EInit => EpipolarInvariant
<1> SUFFICES ASSUME EInit PROVE EpipolarInvariant
  OBVIOUS
<1>1. scene \in Scenes /\ assignments = << >> /\ anchors = 0 /\ epc = "anchors"
  BY DEF EInit
<1>2. assignments \in Seq(DetectionRows) /\ Len(assignments) = 0
  BY <1>1
<1>3. SoundRows(assignments, anchors)
  BY <1>1, <1>2, EpipolarAssumption DEF SoundRows
<1>4. Once(assignments) /\ AllSeen(assignments) /\ CamerasAgree(assignments)
  BY <1>2 DEF Once, AllSeen, CamerasAgree
<1>5. InPhase(assignments, anchors, epc)
  BY <1>1 DEF InPhase
<1>6. DynamicProgramIsOptimal
  BY <1>1 DEF DynamicProgramIsOptimal
<1> QED
  BY <1>1, <1>3, <1>4, <1>5, <1>6 DEF EpipolarInvariant

LEMMA AnchorsStep == EpipolarInvariant /\ Anchors => EpipolarInvariant'
<1> SUFFICES ASSUME EpipolarInvariant, Anchors PROVE EpipolarInvariant'
  OBVIOUS
<1>1. /\ scene \in Scenes /\ assignments = << >> /\ anchors = 0 /\ scene' = scene /\ epc' = "view 1"
      /\ assignments' = RowsFor(0) /\ anchors' = Len(assignments')
      /\ assignments \in Seq(DetectionRows) /\ Len(assignments) <= RowLimit /\ Len(assignments) = 0
  BY DEF EpipolarInvariant, InPhase, Anchors, SoundRows
<1>2. PICK B : B = assignments'
  OBVIOUS
<1>3. NewRows(B, << >>, 0)
  <2>0. PICK cam \in 0 .. 2 : cam = 0
    OBVIOUS
  <2>1. NewRows(RowsFor(cam), assignments, cam)
    BY <1>1, RowsForAreNew
  <2> QED
    BY <1>1, <1>2, <2>0, <2>1
<1>4. /\ B \in Seq(DetectionRows) /\ Len(B) \in Nat /\ Len(B) <= RowLimit
      /\ \A k \in 1 .. Len(B) : B[k][0] # Unmatched /\ \A w \in 0 .. 2 : w # 0 => B[k][w] = Unmatched
  <2>1. B \in Seq(DetectionRows) /\ 0 + Len(B) <= RowLimit
    BY <1>3 DEF NewRows
  <2>2. Len(B) \in Nat
    BY <2>1, RowsAreTyped
  <2> QED
    BY <1>3, <2>1, <2>2 DEF NewRows
<1>5. << >> \o B = B
  BY <1>4
<1>6. << >> \in Seq(DetectionRows) /\ Once(<< >>) /\ AllSeen(<< >>) /\ CamerasAgree(<< >>)
  BY DEF Once, AllSeen, CamerasAgree
<1>7. Once(B) /\ AllSeen(B) /\ CamerasAgree(B) /\ (Len(B) < RowLimit => HasAll(B, 0))
  <2>1. PICK A : A = << >>
    OBVIOUS
  <2>1a. PICK cam \in 0 .. 2 : cam = 0
    OBVIOUS
  <2>2. A \in Seq(DetectionRows) /\ Once(A) /\ AllSeen(A) /\ CamerasAgree(A) /\ NewRows(B, A, cam) /\ A \o B = B
    BY <1>3, <1>5, <1>6, <2>1, <2>1a
  <2>3. Once(A \o B) /\ AllSeen(A \o B) /\ CamerasAgree(A \o B) /\ (Len(A \o B) < RowLimit => HasAll(A \o B, cam))
    BY <2>2, RowsAppended
  <2> QED
    BY <2>1a, <2>2, <2>3
<1>8. PICK m \in Nat : m = Len(B)
  BY <1>4
<1>9. SoundRows(B, m)
  BY <1>4, <1>8 DEF SoundRows
<1>10. InPhase(B, m, "view 1")
  BY <1>4, <1>7, <1>8 DEF InPhase, Blank
<1>11. DynamicProgramIsOptimal'
  BY <1>1 DEF DynamicProgramIsOptimal
<1>12. m = anchors'
  BY <1>1, <1>2, <1>8
<1> QED
  BY <1>1, <1>2, <1>7, <1>9, <1>10, <1>11, <1>12, NextRowsHold

LEMMA AppendStep ==
    ASSUME EpipolarInvariant, NEW cam \in 1 .. 2, assignments' = assignments \o RowsFor(cam)
    PROVE  \E B : /\ B = assignments' /\ SoundRows(B, anchors) /\ Once(B) /\ AllSeen(B) /\ CamerasAgree(B)
                  /\ Len(assignments) <= Len(B)
                  /\ \A k \in 1 .. Len(B) :
                        \/ k <= Len(assignments) /\ B[k] = assignments[k]
                        \/ k > Len(assignments) /\ B[k][cam] # Unmatched /\ \A w \in 0 .. 2 : w # cam => B[k][w] = Unmatched
                  /\ Len(B) < RowLimit => HasAll(B, cam)
                  /\ \A w \in 0 .. 2 : HasAll(assignments, w) => HasAll(B, w)
<1>1. PICK A, R : A = assignments /\ R = RowsFor(cam)
  OBVIOUS
<1>2. A \in Seq(DetectionRows) /\ Once(A) /\ AllSeen(A) /\ CamerasAgree(A) /\ SoundRows(A, anchors) /\ cam \in 0 .. 2
  BY <1>1 DEF EpipolarInvariant, SoundRows
<1>3. NewRows(R, A, cam)
  BY <1>1, <1>2, RowsForAreNew DEF EpipolarInvariant, SoundRows
<1>4. PICK B : B = A \o R
  OBVIOUS
<1>5. /\ B \in Seq(DetectionRows) /\ Len(B) = Len(A) + Len(R) /\ Len(B) <= RowLimit
      /\ \A k \in 1 .. Len(B) :
            \/ k \in 1 .. Len(A) /\ B[k] = A[k]
            \/ /\ k \in Len(A) + 1 .. Len(B) /\ B[k][cam] # Unmatched
               /\ \A w \in 0 .. 2 : w # cam => B[k][w] = Unmatched
      /\ Once(B) /\ AllSeen(B) /\ CamerasAgree(B)
      /\ Len(B) < RowLimit => HasAll(B, cam)
      /\ \A w \in 0 .. 2 : HasAll(A, w) => HasAll(B, w)
  BY <1>2, <1>3, <1>4, RowsAppended
<1>6. PICK a, b \in Nat : a = Len(A) /\ b = Len(B)
  BY <1>2, <1>5, RowsAreTyped
<1>6a. a <= b
  <2>1. PICK r \in Nat : r = Len(R)
    BY <1>3, RowsAreTyped DEF NewRows
  <2>2. b = a + r
    BY <1>5, <1>6, <2>1
  <2> QED
    BY <2>2
<1>7. \A k \in 1 .. b : \/ k <= a /\ B[k] = A[k]
                        \/ k > a /\ B[k][cam] # Unmatched /\ \A w \in 0 .. 2 : w # cam => B[k][w] = Unmatched
  BY <1>5, <1>6
<1>8. anchors \in 0 .. a /\ \A k \in 1 .. a : k > anchors <=> A[k][0] = Unmatched
  BY <1>2, <1>6 DEF SoundRows
<1>9. \A k \in 1 .. b : k > anchors <=> B[k][0] = Unmatched
  <2> SUFFICES ASSUME NEW k \in 1 .. b PROVE k > anchors <=> B[k][0] = Unmatched
    OBVIOUS
  <2>1. CASE k <= a /\ B[k] = A[k]
    BY <1>8, <2>1
  <2>2. CASE k > a /\ B[k][cam] # Unmatched /\ \A w \in 0 .. 2 : w # cam => B[k][w] = Unmatched
    BY <1>8, <2>2
  <2> QED
    BY <1>7, <2>1, <2>2
<1>10. SoundRows(B, anchors)
  BY <1>5, <1>6, <1>6a, <1>8, <1>9 DEF SoundRows
<1>11. B = assignments'
  BY <1>1, <1>4
<1> QED
  BY <1>1, <1>5, <1>6, <1>6a, <1>7, <1>10, <1>11

LEMMA PairsStep == EpipolarInvariant /\ Pairs => EpipolarInvariant'
<1> SUFFICES ASSUME EpipolarInvariant, Pairs PROVE EpipolarInvariant'
  OBVIOUS
<1>1. /\ assignments' = assignments \o RowsFor(1) /\ epc = "pairs"
      /\ epc' = "pair view 2" /\ scene \in Scenes /\ scene' = scene /\ anchors' = anchors
      /\ Len(assignments) = anchors /\ (Len(assignments) < RowLimit => HasAll(assignments, 0))
      /\ assignments \in Seq(DetectionRows)
  BY DEF EpipolarInvariant, InPhase, Pairs, SoundRows
<1>2. PICK cam \in 1 .. 2 : cam = 1
  OBVIOUS
<1>3. assignments' = assignments \o RowsFor(cam)
  BY <1>1, <1>2
<1>4. PICK B : /\ B = assignments' /\ SoundRows(B, anchors) /\ Once(B) /\ AllSeen(B) /\ CamerasAgree(B)
               /\ Len(assignments) <= Len(B)
               /\ \A k \in 1 .. Len(B) :
                     \/ k <= Len(assignments) /\ B[k] = assignments[k]
                     \/ k > Len(assignments) /\ B[k][cam] # Unmatched /\ \A w \in 0 .. 2 : w # cam => B[k][w] = Unmatched
               /\ Len(B) < RowLimit => HasAll(B, cam)
               /\ \A w \in 0 .. 2 : HasAll(assignments, w) => HasAll(B, w)
  BY <1>3, AppendStep
<1>5. PICK a, b \in Nat : a = Len(assignments) /\ a = anchors /\ b = Len(B)
  BY <1>1, <1>4, RowsAreTyped DEF SoundRows
<1>6. InPhase(B, anchors, "pair view 2")
  <2>1. \A k \in 1 .. b : k > a => B[k][1] # Unmatched /\ B[k][2] = Unmatched
    BY <1>2, <1>4, <1>5
  <2>2. b < RowLimit => HasAll(B, 0) /\ HasAll(B, 1)
    <3>1. a <= b /\ RowLimit \in Int
      BY <1>4, <1>5, EpipolarAssumption
    <3>2. b < RowLimit => a < RowLimit
      BY <3>1
    <3>3. a < RowLimit => HasAll(B, 0)
      <4>1. PICK w \in 0 .. 2 : w = 0
        OBVIOUS
      <4>2. HasAll(assignments, w) => HasAll(B, w)
        BY <1>4
      <4>3. a < RowLimit => HasAll(assignments, 0)
        BY <1>1, <1>5
      <4> QED
        BY <4>1, <4>2, <4>3
    <3> QED
      BY <1>2, <1>4, <1>5, <3>2, <3>3
  <2> QED
    BY <1>5, <2>1, <2>2 DEF InPhase, Blank
<1>7. DynamicProgramIsOptimal'
  BY <1>1 DEF DynamicProgramIsOptimal
<1> QED
  BY <1>1, <1>4, <1>6, <1>7, NextRowsHold

LEMMA RestStep == EpipolarInvariant /\ Rest => EpipolarInvariant'
<1> SUFFICES ASSUME EpipolarInvariant, Rest PROVE EpipolarInvariant'
  OBVIOUS
<1>1. /\ assignments' = assignments \o RowsFor(2)
      /\ epc' = "done" /\ scene \in Scenes /\ scene' = scene /\ anchors' = anchors
      /\ (Len(assignments) < RowLimit => HasAll(assignments, 0) /\ HasAll(assignments, 1))
      /\ assignments \in Seq(DetectionRows)
  BY DEF EpipolarInvariant, InPhase, Rest, SoundRows
<1>2. PICK cam \in 1 .. 2 : cam = 2
  OBVIOUS
<1>3. assignments' = assignments \o RowsFor(cam)
  BY <1>1, <1>2
<1>4. PICK B : /\ B = assignments' /\ SoundRows(B, anchors) /\ Once(B) /\ AllSeen(B) /\ CamerasAgree(B)
               /\ Len(assignments) <= Len(B)
               /\ Len(B) < RowLimit => HasAll(B, cam)
               /\ \A w \in 0 .. 2 : HasAll(assignments, w) => HasAll(B, w)
  BY <1>3, AppendStep
<1>5. PICK a, b \in Nat : a = Len(assignments) /\ b = Len(B)
  BY <1>1, <1>4, RowsAreTyped DEF SoundRows
<1>6. InPhase(B, anchors, "done")
  <2>1. b < RowLimit => HasAll(B, 0) /\ HasAll(B, 1) /\ HasAll(B, 2)
    <3>1. a <= b /\ RowLimit \in Int
      BY <1>4, <1>5, EpipolarAssumption
    <3>2. b < RowLimit => a < RowLimit
      BY <3>1
    <3>3. a < RowLimit => HasAll(B, 0) /\ HasAll(B, 1)
      <4>1. \A w \in 0 .. 2 : HasAll(assignments, w) => HasAll(B, w)
        BY <1>4
      <4> QED
        BY <1>1, <1>5, <4>1
    <3> QED
      BY <1>2, <1>4, <1>5, <3>2, <3>3
  <2> QED
    BY <1>5, <2>1 DEF InPhase
<1>7. DynamicProgramIsOptimal'
  BY <1>1 DEF DynamicProgramIsOptimal
<1> QED
  BY <1>1, <1>4, <1>6, <1>7, NextRowsHold

LEMMA AssignStep ==
    ASSUME EpipolarInvariant, NEW cam \in 1 .. 2, NEW offset \in Nat, NEW S, offset <= Len(assignments),
           Assignable(S, assignments, offset, cam), Blank(assignments, cam, offset)
    PROVE  \E B : /\ B = Assigned(S, offset, cam) /\ SoundRows(B, anchors) /\ Once(B) /\ AllSeen(B)
                  /\ Len(B) = Len(assignments)
                  /\ \A k \in 1 .. Len(assignments) :
                        /\ \A w \in 0 .. 2 : w # cam => B[k][w] = assignments[k][w]
                        /\ k <= offset => B[k] = assignments[k]
                        /\ k > offset => B[k][cam] = S[k - offset]
                  /\ \A w \in 0 .. 2 : w # cam /\ HasAll(assignments, w) => HasAll(B, w)
<1>1. assignments \in Seq(DetectionRows) /\ SoundRows(assignments, anchors) /\ Once(assignments) /\ AllSeen(assignments)
  BY DEF EpipolarInvariant, SoundRows
<1>2. PICK B : B = Assigned(S, offset, cam)
  OBVIOUS
<1>3. /\ B \in Seq(DetectionRows) /\ Len(B) = Len(assignments)
      /\ \A k \in 1 .. Len(assignments) :
            /\ \A w \in 0 .. 2 : w # cam => B[k][w] = assignments[k][w]
            /\ k <= offset => B[k] = assignments[k]
            /\ k > offset => B[k][cam] = S[k - offset]
      /\ Once(B) /\ AllSeen(B)
      /\ \A w \in 0 .. 2 : w # cam /\ HasAll(assignments, w) => HasAll(B, w)
  BY <1>1, <1>2, RowsAssigned
<1>4. PICK n \in Nat : n = Len(assignments) /\ n = Len(B)
  BY <1>1, <1>3, RowsAreTyped
<1>5. \A k \in 1 .. n : B[k][0] = assignments[k][0]
  BY <1>3, <1>4
<1>6. SoundRows(B, anchors)
  BY <1>1, <1>3, <1>4, <1>5 DEF SoundRows
<1> QED
  BY <1>2, <1>3, <1>6

LEMMA WithinTheGate ==
    ASSUME scene \in Scenes, NEW a \in Cands, NEW b \in Cands, NEW pair \in 1 .. 3,
           PairCost(pair, a, b) < InvalidCost
    PROVE  PairCost(pair, a, b) <= EpipolarGate
BY PairCostsAre, CostsAreNumbers

LEMMA View1Step == EpipolarInvariant /\ View1 => EpipolarInvariant'
<1> SUFFICES ASSUME EpipolarInvariant, View1 PROVE EpipolarInvariant'
  OBVIOUS
<1>1. /\ scene \in Scenes /\ scene' = scene /\ anchors' = anchors /\ epc' = "view 2"
      /\ assignments' = Assigned(Solve(anchors, AnchorCosts), 0, 1)
      /\ Len(assignments) = anchors /\ Blank(assignments, 1, 0) /\ Blank(assignments, 2, 0)
      /\ Len(assignments) < RowLimit => HasAll(assignments, 0)
      /\ assignments \in Seq(DetectionRows) /\ SoundRows(assignments, anchors)
  BY DEF EpipolarInvariant, InPhase, View1, SoundRows
<1>2. PICK n \in Nat : n = Len(assignments) /\ n = anchors
  BY <1>1, RowsAreTyped
<1>3. PICK prices, S : prices = AnchorCosts /\ S = Solve(n, prices)
  OBVIOUS
<1>4. \A k \in 1 .. n : assignments[k][0] \in Cands
  <2> SUFFICES ASSUME NEW k \in 1 .. n PROVE assignments[k][0] \in Cands
    OBVIOUS
  <2>1. PICK w \in 0 .. 2 : w = 0
    OBVIOUS
  <2>2. \A cam \in 0 .. 2 : assignments[k][cam] \in Cands \cup {Unmatched}
    BY <1>1, <1>2, RowsAreTyped
  <2>3. \A j \in 1 .. Len(assignments) : j > anchors <=> assignments[j][0] = Unmatched
    BY <1>1 DEF SoundRows
  <2>4. ~(k > n)
    OBVIOUS
  <2>5. assignments[k][0] # Unmatched
    BY <1>2, <2>3, <2>4
  <2> QED
    BY <2>1, <2>2, <2>5
<1>5. prices = [k \in 1 .. n |-> [c \in Cands |-> PairCost(1, assignments[k][0], c)]]
  BY <1>2, <1>3 DEF AnchorCosts
<1>6. prices \in CostTables(n)
  <2>1. \A k \in 1 .. n, c \in Cands : PairCost(1, assignments[k][0], c) \in CostValues
    <3> SUFFICES ASSUME NEW k \in 1 .. n, NEW c \in Cands
                 PROVE  PairCost(1, assignments[k][0], c) \in CostValues
      OBVIOUS
    <3>1. PICK a \in Cands : a = assignments[k][0]
      BY <1>4
    <3>2. \A pair \in 1 .. 3 : PairCost(pair, a, c) \in CostValues
      BY <1>1, PairCostsAre
    <3>3. PICK pair \in 1 .. 3 : pair = 1
      OBVIOUS
    <3> QED
      BY <3>1, <3>2, <3>3
  <2> QED
    BY <1>5, <2>1 DEF CostTables
<1>7. /\ S \in [1 .. n -> Cands \cup {Unmatched}]
      /\ \A k \in 1 .. n : S[k] # Unmatched =>
            prices[k][S[k]] < InvalidCost /\ \A l \in 1 .. n : l # k => S[l] # S[k]
  BY <1>3, <1>6, SolutionIsAMatching
<1>8. ASSUME NEW k \in 1 .. n, S[k] # Unmatched
      PROVE  S[k] \in Seen(1) /\ PairCost(1, assignments[k][0], S[k]) <= EpipolarGate
  <2>1. PICK c \in Cands : c = S[k]
    BY <1>7, <1>8
  <2>2. prices[k][c] = PairCost(1, assignments[k][0], c)
    BY <1>5
  <2>3. PICK a \in Cands : a = assignments[k][0]
    BY <1>4
  <2>4. PairCost(1, a, c) < InvalidCost
    BY <1>7, <1>8, <2>1, <2>2, <2>3
  <2>5. c \in Seen(1)
    BY <1>1, <2>4, PairCostsAre
  <2>6. PICK pair \in 1 .. 3 : pair = 1
    OBVIOUS
  <2>7. PairCost(pair, a, c) <= EpipolarGate
    BY <1>1, <2>4, <2>6, WithinTheGate
  <2> QED
    BY <2>1, <2>3, <2>5, <2>6, <2>7
<1>9. PICK cam \in 1 .. 2, offset \in Nat : cam = 1 /\ offset = 0
  OBVIOUS
<1>10. Assignable(S, assignments, offset, cam)
  <2>1. n - offset = n /\ 1 .. offset = {}
    BY <1>9
  <2> QED
    BY <1>2, <1>7, <1>8, <1>9, <2>1 DEF Assignable
<1>11. PICK B : /\ B = Assigned(S, offset, cam) /\ SoundRows(B, anchors) /\ Once(B) /\ AllSeen(B)
                /\ Len(B) = Len(assignments)
                /\ \A k \in 1 .. Len(assignments) :
                      /\ \A w \in 0 .. 2 : w # cam => B[k][w] = assignments[k][w]
                      /\ k > offset => B[k][cam] = S[k - offset]
                /\ \A w \in 0 .. 2 : w # cam /\ HasAll(assignments, w) => HasAll(B, w)
  <2>1. offset <= n
    BY <1>9
  <2>2. offset <= Len(assignments)
    BY <1>2, <2>1
  <2>3. Blank(assignments, cam, offset)
    BY <1>1, <1>9
  <2> QED
    BY <1>10, <2>2, <2>3, AssignStep
<1>12. B = assignments' /\ Len(B) = n
  BY <1>1, <1>2, <1>3, <1>9, <1>11
<1>13. \A k \in 1 .. n : /\ B[k][0] = assignments[k][0] /\ B[k][2] = Unmatched
                         /\ B[k][1] = S[k]
  <2> SUFFICES ASSUME NEW k \in 1 .. n
               PROVE  B[k][0] = assignments[k][0] /\ B[k][2] = Unmatched /\ B[k][1] = S[k]
    OBVIOUS
  <2>1. k > offset /\ k - offset = k
    BY <1>9
  <2>2. B[k][0] = assignments[k][0] /\ B[k][2] = assignments[k][2] /\ B[k][1] = S[k]
    BY <1>2, <1>9, <1>11, <2>1
  <2>3. assignments[k][2] = Unmatched
    <3>1. Blank(assignments, 2, 0)
      BY <1>1
    <3>2. k \in 1 .. Len(assignments) /\ k > 0
      BY <1>2
    <3> QED
      BY <3>1, <3>2 DEF Blank
  <2> QED
    BY <2>2, <2>3
<1>14. CamerasAgree(B)
  <2>1. \A k \in 1 .. n : MayMeet(1, B[k][0], B[k][1])
    BY <1>8, <1>13 DEF MayMeet
  <2> QED
    BY <1>12, <1>13, <2>1 DEF CamerasAgree, MayMeet
<1>15. InPhase(B, anchors, "view 2")
  <2>1. Len(B) < RowLimit => HasAll(B, 0)
    <3>1. PICK w \in 0 .. 2 : w = 0
      OBVIOUS
    <3>2. w # cam /\ HasAll(assignments, w) => HasAll(B, w)
      BY <1>11
    <3>3. HasAll(assignments, 0) => HasAll(B, 0)
      BY <1>9, <3>1, <3>2
    <3>4. Len(B) = Len(assignments)
      BY <1>11
    <3>5. Len(assignments) < RowLimit => HasAll(assignments, 0)
      BY <1>1
    <3> QED
      BY <3>3, <3>4, <3>5
  <2>2. Len(B) = anchors /\ Blank(B, 2, 0)
    BY <1>2, <1>12, <1>13 DEF Blank
  <2> QED
    BY <2>1, <2>2 DEF InPhase
<1>16. DynamicProgramIsOptimal'
  <2>1. AnchorCosts' = prices
    <3>1. \A k \in 1 .. n, c \in Cands : PairCost(1, assignments[k][0], c) = PairCost(1, B[k][0], c)'
      BY <1>1, <1>13, Zenon DEF PairCost
    <3>2. AnchorCosts' = [k \in 1 .. n |-> [c \in Cands |-> PairCost(1, B[k][0], c)']]
      BY <1>1, <1>2, <1>12, Zenon DEF AnchorCosts, PairCost
    <3> QED
      BY <1>5, <3>1, <3>2
  <2>2. {<<k, assignments'[k][1]>> : k \in {l \in DOMAIN assignments' : assignments'[l][1] # Unmatched}} = PairsUpTo(S, n)
    <3>1. DOMAIN B = 1 .. n
      BY <1>11, <1>12, RowsAreTyped DEF SoundRows
    <3> QED
      BY <1>12, <1>13, <3>1 DEF PairsUpTo
  <2>3. ASSUME NEW M \in SUBSET EdgesOf(n), PairsUp(M, n, prices)
        PROVE  CostOf(PairsUpTo(S, n), n, prices) <= CostOf(M, n, prices)
    <3>1. \A N : CostOf(N, n, prices) = SumFunctionOnSet(Gains(n, prices), N)
      BY DEF CostOf, Gains
    <3>2. SumFunctionOnSet(Gains(n, prices), PairsUpTo(Solve(n, prices), n))
             <= SumFunctionOnSet(Gains(n, prices), M)
      BY <1>6, <2>3, SolutionIsCheapest
    <3> QED
      BY <1>3, <3>1, <3>2
  <2> QED
    BY <1>1, <1>2, <2>1, <2>2, <2>3 DEF DynamicProgramIsOptimal
<1> QED
  BY <1>1, <1>11, <1>12, <1>14, <1>15, <1>16, NextRowsHold

LEMMA ConsistentCosts ==
    ASSUME scene \in Scenes, NEW k, NEW c \in Cands, NEW a \in Cands, NEW d \in Cands \cup {Unmatched},
           a = assignments[k][0], d = assignments[k][1]
    PROVE  /\ Consistent(k, c) \in CostValues
           /\ Consistent(k, c) < InvalidCost => MayMeet(2, a, c) /\ MayMeet(3, d, c) /\ c \in Seen(2)
<1>0. PICK two, three \in 1 .. 3 : two = 2 /\ three = 3
  OBVIOUS
<1>1. PairCost(2, a, c) \in CostValues
  <2>1. \A pair \in 1 .. 3 : PairCost(pair, a, c) \in CostValues
    BY PairCostsAre
  <2> QED
    BY <1>0, <2>1
<1>2. PICK x \in CostValues : x = PairCost(2, a, c)
  BY <1>1
<1>3. x < InvalidCost => x <= EpipolarGate /\ c \in Seen(2)
  BY <1>2, PairCostsAre, CostsAreNumbers
<1>4. CASE d = Unmatched
  <2>1. Consistent(k, c) = x
    BY <1>2, <1>4 DEF Consistent
  <2> QED
    BY <1>2, <1>3, <1>4, <2>1 DEF MayMeet
<1>5. CASE d \in Cands /\ d # Unmatched
  <2>1. PairCost(3, d, c) \in CostValues
    <3>1. \A pair \in 1 .. 3 : PairCost(pair, d, c) \in CostValues
      BY <1>5, PairCostsAre
    <3> QED
      BY <1>0, <3>1
  <2>2. PICK y \in CostValues : y = PairCost(3, d, c)
    BY <2>1
  <2>3. Consistent(k, c) = IF x < InvalidCost /\ y < InvalidCost THEN (x + y) \div 2 ELSE InvalidCost
    BY <1>2, <1>5, <2>2 DEF Consistent
  <2>4. CASE x < InvalidCost /\ y < InvalidCost
    <3>1. x \in Nat /\ y \in Nat /\ x <= EpipolarGate /\ y <= EpipolarGate /\ EpipolarGate \in Nat
      BY <2>4, CostsAreNumbers
    <3>2. (x + y) \div 2 \in 0 .. EpipolarGate
      BY <3>1
    <3>3. Consistent(k, c) \in CostValues
      BY <2>3, <2>4, <3>2 DEF CostValues
    <3>4. MayMeet(2, a, c) /\ MayMeet(3, d, c)
      BY <1>2, <2>2, <3>1 DEF MayMeet
    <3> QED
      BY <1>3, <2>4, <3>3, <3>4
  <2>5. CASE ~(x < InvalidCost /\ y < InvalidCost)
    <3>1. Consistent(k, c) = InvalidCost
      BY <2>3, <2>5
    <3>2. ~(InvalidCost < InvalidCost)
      BY CostsAreNumbers
    <3> QED
      BY <3>1, <3>2 DEF CostValues
  <2> QED
    BY <2>4, <2>5
<1>6. d = Unmatched \/ (d \in Cands /\ d # Unmatched)
  OBVIOUS
<1> QED
  BY <1>4, <1>5, <1>6

LEMMA View2Step == EpipolarInvariant /\ View2 => EpipolarInvariant'
<1> SUFFICES ASSUME EpipolarInvariant, View2 PROVE EpipolarInvariant'
  OBVIOUS
<1>1. /\ scene \in Scenes /\ scene' = scene /\ anchors' = anchors /\ epc' = "pairs"
      /\ assignments' = Assigned(Solve(anchors, [k \in 1 .. anchors |-> [c \in Cands |-> Consistent(k, c)]]), 0, 2)
      /\ Len(assignments) = anchors /\ Blank(assignments, 2, 0)
      /\ Len(assignments) < RowLimit => HasAll(assignments, 0)
      /\ assignments \in Seq(DetectionRows) /\ SoundRows(assignments, anchors) /\ CamerasAgree(assignments)
  BY DEF EpipolarInvariant, InPhase, View2, SoundRows
<1>2. PICK n \in Nat : n = Len(assignments) /\ n = anchors
  BY <1>1, RowsAreTyped
<1>3. PICK prices, S : prices = [k \in 1 .. n |-> [c \in Cands |-> Consistent(k, c)]] /\ S = Solve(n, prices)
  OBVIOUS
<1>4. ASSUME NEW k \in 1 .. n
      PROVE  assignments[k][0] \in Cands /\ assignments[k][1] \in Cands \cup {Unmatched}
  <2>1. PICK w, other \in 0 .. 2 : w = 0 /\ other = 1
    OBVIOUS
  <2>2. \A cam \in 0 .. 2 : assignments[k][cam] \in Cands \cup {Unmatched}
    BY <1>1, <1>2, RowsAreTyped
  <2>3. \A j \in 1 .. Len(assignments) : j > anchors <=> assignments[j][0] = Unmatched
    BY <1>1 DEF SoundRows
  <2>4. ~(k > n)
    OBVIOUS
  <2>5. assignments[k][0] # Unmatched
    BY <1>2, <2>3, <2>4
  <2> QED
    BY <2>1, <2>2, <2>5
<1>5. ASSUME NEW k \in 1 .. n, NEW c \in Cands
      PROVE  /\ Consistent(k, c) \in CostValues
             /\ Consistent(k, c) < InvalidCost =>
                   MayMeet(2, assignments[k][0], c) /\ MayMeet(3, assignments[k][1], c) /\ c \in Seen(2)
  <2>1. PICK a \in Cands : a = assignments[k][0]
    BY <1>4
  <2>2. PICK d \in Cands \cup {Unmatched} : d = assignments[k][1]
    BY <1>4
  <2>3. /\ Consistent(k, c) \in CostValues
        /\ Consistent(k, c) < InvalidCost => MayMeet(2, a, c) /\ MayMeet(3, d, c) /\ c \in Seen(2)
    BY <1>1, <2>1, <2>2, ConsistentCosts
  <2> QED
    BY <2>1, <2>2, <2>3
<1>6. prices \in CostTables(n)
  BY <1>3, <1>5 DEF CostTables
<1>7. /\ S \in [1 .. n -> Cands \cup {Unmatched}]
      /\ \A k \in 1 .. n : S[k] # Unmatched =>
            prices[k][S[k]] < InvalidCost /\ \A l \in 1 .. n : l # k => S[l] # S[k]
  BY <1>3, <1>6, SolutionIsAMatching
<1>8. ASSUME NEW k \in 1 .. n, S[k] # Unmatched
      PROVE  S[k] \in Seen(2) /\ MayMeet(2, assignments[k][0], S[k]) /\ MayMeet(3, assignments[k][1], S[k])
  <2>1. PICK c \in Cands : c = S[k]
    BY <1>7, <1>8
  <2>2. Consistent(k, c) < InvalidCost
    BY <1>3, <1>7, <1>8, <2>1
  <2> QED
    BY <1>5, <2>1, <2>2
<1>9. PICK cam \in 1 .. 2, offset \in Nat : cam = 2 /\ offset = 0
  OBVIOUS
<1>10. Assignable(S, assignments, offset, cam)
  <2>1. n - offset = n /\ 1 .. offset = {}
    BY <1>9
  <2> QED
    BY <1>2, <1>7, <1>8, <1>9, <2>1 DEF Assignable
<1>11. PICK B : /\ B = Assigned(S, offset, cam) /\ SoundRows(B, anchors) /\ Once(B) /\ AllSeen(B)
                /\ Len(B) = Len(assignments)
                /\ \A k \in 1 .. Len(assignments) :
                      /\ \A w \in 0 .. 2 : w # cam => B[k][w] = assignments[k][w]
                      /\ k > offset => B[k][cam] = S[k - offset]
                /\ \A w \in 0 .. 2 : w # cam /\ HasAll(assignments, w) => HasAll(B, w)
  <2>1. offset <= n
    BY <1>9
  <2>2. offset <= Len(assignments)
    BY <1>2, <2>1
  <2>3. Blank(assignments, cam, offset)
    BY <1>1, <1>9
  <2> QED
    BY <1>10, <2>2, <2>3, AssignStep
<1>12. B = assignments' /\ Len(B) = n
  BY <1>1, <1>2, <1>3, <1>9, <1>11
<1>13. \A k \in 1 .. n : B[k][0] = assignments[k][0] /\ B[k][1] = assignments[k][1] /\ B[k][2] = S[k]
  <2> SUFFICES ASSUME NEW k \in 1 .. n
               PROVE  B[k][0] = assignments[k][0] /\ B[k][1] = assignments[k][1] /\ B[k][2] = S[k]
    OBVIOUS
  <2>1. k > offset /\ k - offset = k
    BY <1>9
  <2> QED
    BY <1>2, <1>9, <1>11, <2>1
<1>14. CamerasAgree(B)
  <2> SUFFICES ASSUME NEW k \in 1 .. n
               PROVE  MayMeet(1, B[k][0], B[k][1]) /\ MayMeet(2, B[k][0], B[k][2]) /\ MayMeet(3, B[k][1], B[k][2])
    BY <1>12 DEF CamerasAgree
  <2>1. B[k][0] = assignments[k][0] /\ B[k][1] = assignments[k][1] /\ B[k][2] = S[k]
    BY <1>13
  <2>2. MayMeet(1, assignments[k][0], assignments[k][1])
    <3>1. CamerasAgree(assignments) /\ k \in 1 .. Len(assignments)
      BY <1>1, <1>2
    <3> QED
      BY <3>1 DEF CamerasAgree
  <2>3. MayMeet(2, assignments[k][0], S[k]) /\ MayMeet(3, assignments[k][1], S[k])
    BY <1>8 DEF MayMeet
  <2> QED
    BY <2>1, <2>2, <2>3
<1>15. InPhase(B, anchors, "pairs")
  <2>1. Len(B) < RowLimit => HasAll(B, 0)
    <3>1. PICK w \in 0 .. 2 : w = 0
      OBVIOUS
    <3>2. w # cam /\ HasAll(assignments, w) => HasAll(B, w)
      BY <1>11
    <3>3. HasAll(assignments, 0) => HasAll(B, 0)
      BY <1>9, <3>1, <3>2
    <3>4. Len(B) = Len(assignments)
      BY <1>11
    <3>5. Len(assignments) < RowLimit => HasAll(assignments, 0)
      BY <1>1
    <3> QED
      BY <3>3, <3>4, <3>5
  <2>2. Len(B) = anchors
    BY <1>2, <1>12
  <2> QED
    BY <2>1, <2>2 DEF InPhase
<1>16. DynamicProgramIsOptimal'
  BY <1>1 DEF DynamicProgramIsOptimal
<1> QED
  BY <1>1, <1>11, <1>12, <1>14, <1>15, <1>16, NextRowsHold

LEMMA PairView2Step == EpipolarInvariant /\ PairView2 => EpipolarInvariant'
<1> SUFFICES ASSUME EpipolarInvariant, PairView2 PROVE EpipolarInvariant'
  OBVIOUS
<1>1. /\ scene \in Scenes /\ scene' = scene /\ anchors' = anchors /\ epc' = "rest"
      /\ assignments' = Assigned(Solve(Len(assignments) - anchors, PairCosts), anchors, 2)
      /\ Blank(assignments, 2, anchors)
      /\ \A k \in 1 .. Len(assignments) : k > anchors => assignments[k][1] # Unmatched
      /\ Len(assignments) < RowLimit => HasAll(assignments, 0) /\ HasAll(assignments, 1)
      /\ assignments \in Seq(DetectionRows) /\ SoundRows(assignments, anchors) /\ CamerasAgree(assignments)
  BY DEF EpipolarInvariant, InPhase, PairView2, SoundRows
<1>2. PICK n, m \in Nat : n = Len(assignments) /\ m = anchors /\ m <= n
  BY <1>1, RowsAreTyped DEF SoundRows
<1>2a. PICK r \in Nat : r = n - m
  <2>1. n - m \in Nat
    BY <1>2
  <2> QED
    BY <2>1
<1>3. PICK prices, S : prices = PairCosts /\ S = Solve(r, prices)
  OBVIOUS
<1>4. ASSUME NEW k \in 1 .. r
      PROVE  m + k \in 1 .. n /\ m + k > m /\ assignments[m + k][1] \in Cands
  <2>1. m + k \in 1 .. n /\ m + k > m
    BY <1>2a
  <2>2. PICK w \in 0 .. 2 : w = 1
    OBVIOUS
  <2>3. \A cam \in 0 .. 2 : assignments[m + k][cam] \in Cands \cup {Unmatched}
    BY <1>1, <1>2, <2>1, RowsAreTyped
  <2>4. assignments[m + k][1] # Unmatched
    BY <1>1, <1>2, <2>1
  <2> QED
    BY <2>1, <2>2, <2>3, <2>4
<1>5. prices = [k \in 1 .. r |-> [c \in Cands |-> IF c \in Used(2) THEN InvalidCost
                                                 ELSE PairCost(3, assignments[m + k][1], c)]]
  BY <1>2, <1>2a, <1>3 DEF PairCosts
<1>6. ASSUME NEW k \in 1 .. r, NEW c \in Cands
      PROVE  /\ prices[k][c] \in CostValues
             /\ prices[k][c] < InvalidCost =>
                   c \notin Used(2) /\ MayMeet(3, assignments[m + k][1], c) /\ c \in Seen(2)
  <2>1. PICK a \in Cands : a = assignments[m + k][1]
    BY <1>4
  <2>2. prices[k][c] = IF c \in Used(2) THEN InvalidCost ELSE PairCost(3, a, c)
    BY <1>5, <2>1
  <2>3. PICK pair \in 1 .. 3 : pair = 3
    OBVIOUS
  <2>4. \A pr \in 1 .. 3 : PairCost(pr, a, c) \in CostValues
    BY <1>1, PairCostsAre
  <2>5. PICK x \in CostValues : x = PairCost(3, a, c)
    BY <2>3, <2>4
  <2>6. x < InvalidCost => x <= EpipolarGate /\ c \in Seen(2)
    BY <1>1, <2>5, PairCostsAre, CostsAreNumbers
  <2>7. ~(InvalidCost < InvalidCost) /\ InvalidCost \in CostValues
    BY CostsAreNumbers DEF CostValues
  <2>8. CASE c \in Used(2)
    BY <2>2, <2>7, <2>8
  <2>9. CASE c \notin Used(2)
    <3>1. prices[k][c] = x
      BY <2>2, <2>5, <2>9
    <3> QED
      BY <2>1, <2>5, <2>6, <2>9, <3>1 DEF MayMeet
  <2> QED
    BY <2>8, <2>9
<1>7. prices \in CostTables(r)
  <2>1. prices = [k \in 1 .. r |-> [c \in Cands |-> prices[k][c]]]
    BY <1>5
  <2> QED
    BY <1>6, <2>1 DEF CostTables
<1>8. /\ S \in [1 .. r -> Cands \cup {Unmatched}]
      /\ \A k \in 1 .. r : S[k] # Unmatched =>
            prices[k][S[k]] < InvalidCost /\ \A l \in 1 .. r : l # k => S[l] # S[k]
  BY <1>3, <1>7, SolutionIsAMatching
<1>9. ASSUME NEW k \in 1 .. r, S[k] # Unmatched
      PROVE  /\ S[k] \in Seen(2) /\ MayMeet(3, assignments[m + k][1], S[k])
             /\ \A j \in 1 .. m : assignments[j][2] # S[k]
  <2>1. PICK c \in Cands : c = S[k]
    BY <1>8, <1>9
  <2>2. prices[k][c] < InvalidCost
    BY <1>8, <1>9, <2>1
  <2>3. c \notin Used(2) /\ MayMeet(3, assignments[m + k][1], c) /\ c \in Seen(2)
    BY <1>6, <2>2
  <2>4. \A j \in 1 .. m : assignments[j][2] # c
    <3>1. DOMAIN assignments = 1 .. Len(assignments)
      BY <1>1, RowsAreTyped
    <3>2. \A j \in 1 .. m : j \in DOMAIN assignments
      BY <1>2, <3>1
    <3> QED
      BY <1>9, <2>1, <2>3, <3>2 DEF Used
  <2> QED
    BY <2>1, <2>3, <2>4
<1>10. PICK cam \in 1 .. 2 : cam = 2
  OBVIOUS
<1>11. Assignable(S, assignments, m, cam)
  BY <1>2, <1>2a, <1>8, <1>9, <1>10 DEF Assignable
<1>12. PICK B : /\ B = Assigned(S, m, cam) /\ SoundRows(B, anchors) /\ Once(B) /\ AllSeen(B)
                /\ Len(B) = Len(assignments)
                /\ \A k \in 1 .. Len(assignments) :
                      /\ \A w \in 0 .. 2 : w # cam => B[k][w] = assignments[k][w]
                      /\ k <= m => B[k] = assignments[k]
                      /\ k > m => B[k][cam] = S[k - m]
                /\ \A w \in 0 .. 2 : w # cam /\ HasAll(assignments, w) => HasAll(B, w)
  <2>1. m <= Len(assignments)
    BY <1>2
  <2>2. Blank(assignments, cam, m)
    BY <1>1, <1>2, <1>10
  <2> QED
    BY <1>11, <2>1, <2>2, AssignStep
<1>13. B = assignments' /\ Len(B) = n
  <2>1. Len(assignments) - anchors = r
    BY <1>2, <1>2a
  <2>2. assignments' = Assigned(S, m, cam)
    BY <1>1, <1>2, <1>3, <1>10, <2>1
  <2> QED
    BY <1>2, <1>12, <2>2
<1>14. CamerasAgree(B)
  <2> SUFFICES ASSUME NEW k \in 1 .. n
               PROVE  MayMeet(1, B[k][0], B[k][1]) /\ MayMeet(2, B[k][0], B[k][2]) /\ MayMeet(3, B[k][1], B[k][2])
    BY <1>13 DEF CamerasAgree
  <2>0. k \in 1 .. Len(assignments)
    BY <1>2
  <2>1. CASE k <= m
    <3>1. B[k] = assignments[k]
      BY <1>12, <2>0, <2>1
    <3>2. CamerasAgree(assignments)
      BY <1>1
    <3> QED
      BY <2>0, <3>1, <3>2 DEF CamerasAgree
  <2>2. CASE k > m
    <3>1. PICK j \in 1 .. r : j = k - m /\ k = m + j
      BY <1>2a, <2>2
    <3>2. B[k][0] = assignments[k][0] /\ B[k][1] = assignments[k][1]
      BY <1>10, <1>12, <2>0
    <3>3. B[k][2] = S[j]
      BY <1>10, <1>12, <2>0, <2>2, <3>1
    <3>4. assignments[k][0] = Unmatched
      <4>1. \A i \in 1 .. Len(assignments) : i > anchors <=> assignments[i][0] = Unmatched
        BY <1>1 DEF SoundRows
      <4> QED
        BY <1>2, <2>0, <2>2, <4>1
    <3>5. MayMeet(3, assignments[k][1], S[j])
      BY <1>9, <3>1 DEF MayMeet
    <3> QED
      BY <3>2, <3>3, <3>4, <3>5 DEF MayMeet
  <2> QED
    BY <2>1, <2>2
<1>15. InPhase(B, anchors, "rest")
  <2>1. Len(B) < RowLimit => HasAll(B, 0) /\ HasAll(B, 1)
    <3>1. PICK w, other \in 0 .. 2 : w = 0 /\ other = 1
      OBVIOUS
    <3>2. (w # cam /\ HasAll(assignments, w) => HasAll(B, w)) /\ (other # cam /\ HasAll(assignments, other) => HasAll(B, other))
      BY <1>12
    <3>3. (HasAll(assignments, 0) => HasAll(B, 0)) /\ (HasAll(assignments, 1) => HasAll(B, 1))
      BY <1>10, <3>1, <3>2
    <3>4. Len(B) = Len(assignments)
      BY <1>12
    <3>5. Len(assignments) < RowLimit => HasAll(assignments, 0) /\ HasAll(assignments, 1)
      BY <1>1
    <3> QED
      BY <3>3, <3>4, <3>5
  <2> QED
    BY <2>1 DEF InPhase
<1>16. DynamicProgramIsOptimal'
  BY <1>1 DEF DynamicProgramIsOptimal
<1> QED
  BY <1>1, <1>12, <1>13, <1>14, <1>15, <1>16, NextRowsHold

LEMMA EpipolarStays == EpipolarInvariant /\ [ENext]_evars => EpipolarInvariant'
<1> SUFFICES ASSUME EpipolarInvariant, [ENext]_evars PROVE EpipolarInvariant'
  OBVIOUS
<1>1. CASE UNCHANGED evars
  <2>1. scene' = scene /\ assignments' = assignments /\ anchors' = anchors /\ epc' = epc
    BY <1>1 DEF evars
  <2>2. PICK B, m, phase : B = assignments /\ m = anchors /\ phase = epc
    OBVIOUS
  <2>3. B = assignments' /\ m = anchors' /\ phase = epc'
    BY <2>1, <2>2
  <2>4. SoundRows(B, m) /\ Once(B) /\ AllSeen(B) /\ CamerasAgree(B) /\ InPhase(B, m, phase) /\ scene \in Scenes
    BY <2>2 DEF EpipolarInvariant
  <2>5. AnchorCosts' = AnchorCosts
    BY <2>1 DEF AnchorCosts, PairCost
  <2>6. DynamicProgramIsOptimal
    BY DEF EpipolarInvariant
  <2>7. DynamicProgramIsOptimal'
    BY <2>1, <2>5, <2>6 DEF DynamicProgramIsOptimal
  <2> QED
    BY <2>1, <2>3, <2>4, <2>7, NextRowsHold
<1> QED
  BY <1>1, AnchorsStep, View1Step, View2Step, PairsStep, PairView2Step, RestStep DEF ENext

LEMMA EpipolarRowsFollow == EpipolarInvariant => EpipolarRowsAreRight
<1> SUFFICES ASSUME EpipolarInvariant PROVE EpipolarRowsAreRight
  OBVIOUS
<1>1. /\ assignments \in Seq(DetectionRows) /\ Once(assignments) /\ AllSeen(assignments) /\ CamerasAgree(assignments)
      /\ InPhase(assignments, anchors, epc) /\ DynamicProgramIsOptimal /\ scene \in Scenes
  BY DEF EpipolarInvariant, SoundRows
<1>2. DOMAIN assignments = 1 .. Len(assignments)
  BY <1>1, RowsAreTyped
<1>3. TriplesAgree
  BY <1>1, <1>2 DEF TriplesAgree, CamerasAgree, MayMeet
<1>4. EveryDetectionOnce
  <2> SUFFICES ASSUME epc = "done", NEW view \in 0 .. 2
               PROVE  /\ \A k, l \in DOMAIN assignments :
                            k # l /\ assignments[k][view] # Unmatched => assignments[k][view] # assignments[l][view]
                      /\ Len(assignments) < RowLimit => Used(view) = Seen(view)
    BY DEF EveryDetectionOnce
  <2>1. \A k, l \in DOMAIN assignments :
           k # l /\ assignments[k][view] # Unmatched => assignments[k][view] # assignments[l][view]
    BY <1>1, <1>2 DEF Once
  <2>2. Used(view) \subseteq Seen(view)
    BY <1>1, <1>2 DEF Used, AllSeen
  <2>3. Len(assignments) < RowLimit => Seen(view) \subseteq Used(view)
    <3> SUFFICES ASSUME Len(assignments) < RowLimit PROVE Seen(view) \subseteq Used(view)
      OBVIOUS
    <3>1. HasAll(assignments, 0) /\ HasAll(assignments, 1) /\ HasAll(assignments, 2)
      BY <1>1 DEF InPhase
    <3>2. view = 0 \/ view = 1 \/ view = 2
      OBVIOUS
    <3>3. HasAll(assignments, view)
      BY <3>1, <3>2
    <3>4. Unmatched \notin Seen(view)
      BY <1>1, ScoresAreNumbers
    <3> QED
      BY <1>2, <3>3, <3>4 DEF HasAll, Used
  <2> QED
    BY <2>1, <2>2, <2>3
<1> QED
  BY <1>1, <1>3, <1>4 DEF EpipolarRowsAreRight

\* The rows of the three-camera matcher use each detection once and lose none
\* while there is room, hold only cameras that agree, and are the cheapest
\* assignment of camera 1 to the anchors.
THEOREM EpipolarHolds == ESpec => []EpipolarRowsAreRight
<1>1. EInit => EpipolarInvariant
  BY EpipolarInit
<1>2. EpipolarInvariant /\ [ENext]_evars => EpipolarInvariant'
  BY EpipolarStays
<1>3. EpipolarInvariant => EpipolarRowsAreRight
  BY EpipolarRowsFollow
<1> QED
  BY <1>1, <1>2, <1>3, PTL DEF ESpec

-----------------------------------------------------------------------------
(* The rig calibration. *)

\* A calibration in the store has a revision, and the one the worker is about to
\* publish a greater one, also after a clear.
RevisionsGrow ==
    /\ store # NoCalibration => store.revision # 0
    /\ worker \in {"write", "rename", "publish"} => made.revision > store.revision

\* The pose stage is not ahead of the store, and has its calibration when it has
\* its revision; a clear, after which revisions start again, voids that until the
\* next calibration is adopted.
PoseFollowsStore ==
    ~cleared => /\ pose.revision <= store.revision
                /\ pose.revision = store.revision => pose.config = store.source

\* Configuration, cached projections and engine of the pose stage go together.
PoseIsWhole ==
    /\ pose.engine = pose.config
    /\ pose.geometryValid => pose.geometry = pose.config

\* The file was renamed before the worker came to publish.
FileIsAhead == worker = "publish" => file = made.source

CalibrationInv ==
    /\ RTypeOK /\ RevisionsGrow /\ PoseFollowsStore /\ PoseIsWhole /\ FileIsAhead
    /\ InferenceIsOfOneCalibration /\ PublishedIsOnDisk

LEMMA NothingTyped ==
    /\ NoCalibration \in [revision : Nat, source : Nat, rig : Rigs \cup {0}]
    /\ NoPacket \in [number : Nat, rig : Rigs \cup {0}]
    /\ NoPose \in [rig : Rigs \cup {0}, config : Nat, revision : Nat, geometryValid : BOOLEAN,
                   geometry : Nat, engine : Nat]
BY DEF NoCalibration, NoPacket, NoPose

LEMMA CalibrationInit == RInit => CalibrationInv
<1> SUFFICES ASSUME RInit
             PROVE  CalibrationInv
  OBVIOUS
<1>2. NoInference \in [config : Nat, geometry : Nat, engine : Nat,
                       store : [revision : Nat, source : Nat, rig : Rigs \cup {0}],
                       cleared : BOOLEAN]
  BY NothingTyped DEF NoInference
<1>3. RTypeOK
  BY <1>2, NothingTyped DEF RInit, RTypeOK
<1>4. RevisionsGrow /\ PoseFollowsStore /\ PoseIsWhole /\ FileIsAhead
  BY DEF RInit, RevisionsGrow, PoseFollowsStore, PoseIsWhole, FileIsAhead, NoCalibration, NoPose
<1>5. InferenceIsOfOneCalibration /\ PublishedIsOnDisk
  BY DEF RInit, InferenceIsOfOneCalibration, PublishedIsOnDisk, NoInference, NoCalibration
<1> QED
  BY <1>3, <1>4, <1>5 DEF CalibrationInv

\* What a refreshed pose stage is: as it was, or with the store's calibration.
LEMMA RefreshedPose ==
    ASSUME RTypeOK, NEW s,
           s \in [rig : Rigs \cup {0}, config : Nat, revision : Nat, geometryValid : BOOLEAN,
                  geometry : Nat, engine : Nat]
    PROVE  LET r == [Refreshed(s) EXCEPT !.engine = EngineOf(s)]
           IN  /\ r \in [rig : Rigs \cup {0}, config : Nat, revision : Nat, geometryValid : BOOLEAN,
                         geometry : Nat, engine : Nat]
               /\ Stale(s) => /\ r.config = store.source /\ r.engine = store.source
                              /\ r.revision = store.revision /\ r.geometryValid = FALSE
               /\ ~Stale(s) => r = s
<1> DEFINE r == [Refreshed(s) EXCEPT !.engine = EngineOf(s)]
<1>1. store.source \in Nat /\ store.revision \in Nat
  BY DEF RTypeOK
<1>2. CASE Stale(s)
  BY <1>1, <1>2 DEF Refreshed, EngineOf, Adopted
<1>3. CASE ~Stale(s)
  BY <1>3 DEF Refreshed, EngineOf
<1> QED
  BY <1>2, <1>3

\* The pose stage after the geometry of its configuration was computed.
LEMMA PoseWithGeometry ==
    ASSUME NEW s,
           s \in [rig : Rigs \cup {0}, config : Nat, revision : Nat, geometryValid : BOOLEAN,
                  geometry : Nat, engine : Nat]
    PROVE  LET g == WithGeometry(s)
           IN  /\ g \in [rig : Rigs \cup {0}, config : Nat, revision : Nat, geometryValid : BOOLEAN,
                         geometry : Nat, engine : Nat]
               /\ g.config = s.config /\ g.engine = s.engine /\ g.revision = s.revision
               /\ g.geometryValid
               /\ s.geometryValid => g.geometry = s.geometry
               /\ ~s.geometryValid => g.geometry = s.config
<1>1. CASE s.geometryValid
  BY <1>1 DEF WithGeometry
<1>2. CASE ~s.geometryValid
  BY <1>2 DEF WithGeometry
<1> QED
  BY <1>1, <1>2

LEMMA ProcessKeeps == CalibrationInv /\ Process => CalibrationInv'
<1> SUFFICES ASSUME CalibrationInv, Process
             PROVE  CalibrationInv'
  OBVIOUS
<1> USE DEF CalibrationInv
<1> DEFINE r == [Refreshed(pose) EXCEPT !.engine = EngineOf(pose)]
<1>1. UNCHANGED <<store, latest, worker, stop, packet, made, file, control, crashed, packets, calls>>
  BY DEF Process
<1>2. CASE Stale(pose) /\ ~Fits(pose)
  <2>1. pipeline' = "failed" /\ UNCHANGED <<pose, inference, cleared>>
    BY <1>2 DEF Process
  <2> QED
    BY <1>1, <2>1 DEF RTypeOK, RevisionsGrow, PoseFollowsStore, PoseIsWhole, FileIsAhead,
       InferenceIsOfOneCalibration, PublishedIsOnDisk
<1>3. CASE ~(Stale(pose) /\ ~Fits(pose))
  <2>1. /\ pose' = WithGeometry(r)
        /\ cleared' = (cleared /\ ~Stale(pose))
        /\ inference' = [config |-> pose'.config, geometry |-> pose'.geometry,
                         engine |-> pose'.engine, store |-> store, cleared |-> cleared']
        /\ pipeline' = pipeline
    BY <1>3 DEF Process
  <2>2. PICK s : s = r
    OBVIOUS
  <2>3. /\ s \in [rig : Rigs \cup {0}, config : Nat, revision : Nat, geometryValid : BOOLEAN,
                  geometry : Nat, engine : Nat]
        /\ Stale(pose) => /\ s.config = store.source /\ s.engine = store.source
                          /\ s.revision = store.revision /\ s.geometryValid = FALSE
        /\ ~Stale(pose) => s = pose
    BY <2>2, RefreshedPose DEF RTypeOK
  <2> HIDE DEF r
  <2>4. /\ pose' \in [rig : Rigs \cup {0}, config : Nat, revision : Nat, geometryValid : BOOLEAN,
                      geometry : Nat, engine : Nat]
        /\ pose'.config = s.config /\ pose'.engine = s.engine /\ pose'.revision = s.revision
        /\ pose'.geometryValid
        /\ s.geometryValid => pose'.geometry = s.geometry
        /\ ~s.geometryValid => pose'.geometry = s.config
    BY <2>1, <2>2, <2>3, PoseWithGeometry
  <2>5. cleared' \in BOOLEAN
    BY <2>1
  <2>6. pose'.engine = pose'.config /\ pose'.geometry = pose'.config
    BY <2>3, <2>4 DEF PoseIsWhole
  <2>7. ~cleared' => /\ pose'.revision <= store.revision
                     /\ pose'.revision = store.revision => pose'.config = store.source
    <3>1. CASE Stale(pose)
      BY <3>1, <2>3, <2>4 DEF RTypeOK
    <3>2. CASE ~Stale(pose)
      BY <3>2, <2>1, <2>3, <2>4 DEF PoseFollowsStore
    <3> QED
      BY <3>1, <3>2
  <2>8. ~cleared' /\ store # NoCalibration => pose'.config = store.source
    <3>1. CASE Stale(pose)
      BY <3>1, <2>3, <2>4
    <3>2. CASE ~Stale(pose)
      <4>1. store # NoCalibration => pose.revision = store.revision
        BY <3>2 DEF Stale
      <4> QED
        BY <4>1, <2>7, <3>2, <2>3, <2>4
    <3> QED
      BY <3>1, <3>2
  <2>9. inference' \in [config : Nat, geometry : Nat, engine : Nat,
                        store : [revision : Nat, source : Nat, rig : Rigs \cup {0}],
                        cleared : BOOLEAN]
    BY <2>1, <2>4, <2>5 DEF RTypeOK
  <2>10. RTypeOK'
    BY <1>1, <2>1, <2>4, <2>5, <2>9 DEF RTypeOK
  <2>11. InferenceIsOfOneCalibration'
    BY <2>1, <2>6, <2>8 DEF InferenceIsOfOneCalibration, NoCalibration
  <2>12. PoseFollowsStore' /\ PoseIsWhole'
    BY <1>1, <2>6, <2>7 DEF PoseFollowsStore, PoseIsWhole
  <2>13. RevisionsGrow' /\ FileIsAhead' /\ PublishedIsOnDisk'
    BY <1>1 DEF RevisionsGrow, FileIsAhead, PublishedIsOnDisk, NoCalibration
  <2> QED
    BY <2>10, <2>11, <2>12, <2>13
<1> QED
  BY <1>2, <1>3

\* A step of the worker: it changes neither the pose stage nor the pipeline.
LEMMA RunKeeps == CalibrationInv /\ Run => CalibrationInv'
<1> SUFFICES ASSUME CalibrationInv, Run
             PROVE  CalibrationInv'
  OBVIOUS
<1> USE DEF CalibrationInv, toolRest
<1>1. UNCHANGED <<stop, control, pipeline, pose, inference, cleared, packets, calls>>
  BY DEF Run, TakePacket, Cancelled, Advance, ReadRevision, WriteFile, RenameFile, Publish, Throws
<1>2. PoseIsWhole' /\ InferenceIsOfOneCalibration'
  BY <1>1 DEF PoseIsWhole, InferenceIsOfOneCalibration, NoCalibration
<1>3. CASE TakePacket
  BY <1>1, <1>2, <1>3 DEF TakePacket, RTypeOK, RevisionsGrow, PoseFollowsStore, FileIsAhead,
     PublishedIsOnDisk, NoPacket
<1>4. CASE Cancelled \/ Advance \/ WriteFile \/ Throws
  BY <1>1, <1>2, <1>4 DEF Cancelled, Advance, WriteFile, Throws, RTypeOK, RevisionsGrow,
     PoseFollowsStore, FileIsAhead, PublishedIsOnDisk
<1>5. CASE ReadRevision
  <2>1. UNCHANGED <<store, latest, packet, file>>
    BY <1>5 DEF ReadRevision
  <2>2. \/ /\ made' = made /\ worker' \in {"first", "second"}
           /\ crashed' \in BOOLEAN
        \/ /\ made' = Made(1) /\ store = NoCalibration
           /\ worker' = "write" /\ crashed' = crashed
        \/ /\ made' = Made(store.revision + 1)
           /\ worker' = "write" /\ crashed' = crashed
    <3>1. CASE worker = "first"
      BY <1>5, <3>1 DEF ReadRevision, RTypeOK
    <3>2. CASE worker = "second"
      BY <1>5, <3>2 DEF ReadRevision, RTypeOK
    <3> QED
      BY <1>5, <3>1, <3>2 DEF ReadRevision
  <2>3. PICK k \in Nat : \/ made' = made /\ worker' \in {"first", "second"}
                         \/ made' = Made(k) /\ k > store.revision /\ worker' = "write"
    BY <2>2 DEF RTypeOK, NoCalibration
  <2>4. made' \in [revision : Nat, source : Nat, rig : Rigs \cup {0}]
    BY <2>3 DEF Made, RTypeOK
  <2>5. crashed' \in BOOLEAN
    BY <2>2 DEF RTypeOK
  <2>6. RTypeOK'
    BY <1>1, <2>1, <2>3, <2>4, <2>5 DEF RTypeOK
  <2>7. RevisionsGrow'
    BY <2>1, <2>3 DEF RevisionsGrow, Made, NoCalibration
  <2>8. PoseFollowsStore' /\ FileIsAhead' /\ PublishedIsOnDisk'
    <3>1. worker # "publish"
      BY <1>5 DEF ReadRevision
    <3> QED
      BY <1>1, <2>1, <2>3, <3>1 DEF PoseFollowsStore, FileIsAhead, PublishedIsOnDisk, NoCalibration
  <2> QED
    BY <1>2, <2>6, <2>7, <2>8
<1>6. CASE RenameFile
  BY <1>1, <1>2, <1>6 DEF RenameFile, RTypeOK, RevisionsGrow, PoseFollowsStore, FileIsAhead,
     PublishedIsOnDisk
<1>7. CASE Publish
  <2>1. UNCHANGED <<latest, packet, made, file, crashed>> /\ worker' \in {"complete", "ended"}
    BY <1>7 DEF Publish
  <2>2. \/ store' = made /\ worker = "publish"
        \/ store' = store /\ worker = "complete"
    BY <1>7 DEF Publish
  <2>3. RTypeOK'
    BY <1>1, <2>1, <2>2 DEF RTypeOK
  <2>4. RevisionsGrow' /\ PoseFollowsStore'
    BY <1>1, <2>1, <2>2 DEF RTypeOK, RevisionsGrow, PoseFollowsStore, NoCalibration
  <2>5. FileIsAhead' /\ PublishedIsOnDisk'
    BY <2>1, <2>2 DEF FileIsAhead, PublishedIsOnDisk
  <2> QED
    BY <1>2, <2>3, <2>4, <2>5
<1> QED
  BY <1>3, <1>4, <1>5, <1>6, <1>7 DEF Run

\* A command: the pose stage and the store change only in clear and start.
LEMMA CommandKeeps == CalibrationInv /\ Command => CalibrationInv'
<1> SUFFICES ASSUME CalibrationInv, Command
             PROVE  CalibrationInv'
  OBVIOUS
<1> USE DEF CalibrationInv
<1>1. calls' \in Nat
  BY DEF Command, StartCalibration, CancelCalibration, StopPipeline, ClearCalibration, StartPipeline,
         Call, RTypeOK
<1>2. CASE StartCalibration
  <2>1. /\ worker' = "waiting" /\ stop' = FALSE /\ packet' = NoPacket /\ made' = NoCalibration
        /\ UNCHANGED <<store, latest, file, control, pipeline, pose, inference, cleared, crashed, packets>>
        /\ worker # "publish"
    BY <1>2 DEF StartCalibration
  <2>2. /\ made' \in [revision : Nat, source : Nat, rig : Rigs \cup {0}]
        /\ packet' \in [number : Nat, rig : Rigs \cup {0}]
    BY <2>1, NothingTyped
  <2>3. RTypeOK'
    <3>1. worker' \in {"none", "waiting", "preparing", "inference", "first", "second", "write",
                       "rename", "publish", "complete", "ended"} /\ stop' \in BOOLEAN
      BY <2>1
    <3>2. UNCHANGED <<store, latest, file, control, pipeline, pose, inference, cleared, crashed, packets>>
      BY <2>1
    <3> QED
      BY <1>1, <2>2, <3>1, <3>2 DEF RTypeOK
  <2> QED
    BY <2>1, <2>3 DEF RevisionsGrow, PoseFollowsStore, PoseIsWhole, FileIsAhead,
       InferenceIsOfOneCalibration, PublishedIsOnDisk, NoCalibration
<1>3. CASE CancelCalibration \/ StopPipeline
  <2>1. /\ control' \in {"cancel", "stop"} /\ stop' \in BOOLEAN
        /\ UNCHANGED <<store, latest, worker, packet, made, file, pose, inference, cleared, crashed,
                       packets, pipeline>>
    BY <1>3 DEF CancelCalibration, StopPipeline, RequestCancel, RTypeOK
  <2>2. RTypeOK'
    BY <1>1, <2>1 DEF RTypeOK
  <2>3. RevisionsGrow' /\ PoseFollowsStore' /\ PoseIsWhole'
    BY <2>1 DEF RevisionsGrow, PoseFollowsStore, PoseIsWhole, NoCalibration
  <2>4. FileIsAhead' /\ InferenceIsOfOneCalibration' /\ PublishedIsOnDisk'
    BY <2>1 DEF FileIsAhead, InferenceIsOfOneCalibration, PublishedIsOnDisk
  <2> QED
    BY <2>2, <2>3, <2>4
<1>4. CASE ClearCalibration
  <2>1. /\ store' = NoCalibration /\ cleared' = TRUE
        /\ UNCHANGED <<latest, worker, stop, packet, made, file, control, pipeline, pose, inference,
                       crashed, packets>>
    BY <1>4 DEF ClearCalibration
  <2>2. made.revision \in Nat /\ store.revision \in Nat
    BY DEF RTypeOK
  <2> QED
    BY <1>1, <2>1, <2>2 DEF RTypeOK, RevisionsGrow, PoseFollowsStore, PoseIsWhole, FileIsAhead,
       InferenceIsOfOneCalibration, PublishedIsOnDisk, NoCalibration
<1>5. CASE StartPipeline
  <2>1. UNCHANGED <<store, latest, worker, stop, packet, made, file, control, inference, crashed,
                    packets>>
    BY <1>5 DEF StartPipeline
  <2>2. PICK rig \in Rigs, calibrated \in BOOLEAN :
          LET fresh == [NoPose EXCEPT !.rig = rig]
          IN  IF (Stale(fresh) /\ ~Fits(fresh)) \/ (~Stale(fresh) /\ ~calibrated)
              THEN pipeline' = "failed" /\ pose' = fresh /\ UNCHANGED cleared
              ELSE /\ pipeline' = "running" /\ cleared' = FALSE
                   /\ pose' = [Refreshed(fresh) EXCEPT !.engine = EngineOf(fresh)]
    BY <1>5 DEF StartPipeline
  <2>3. PICK fresh : fresh = [NoPose EXCEPT !.rig = rig]
    OBVIOUS
  <2>4. /\ fresh \in [rig : Rigs \cup {0}, config : Nat, revision : Nat, geometryValid : BOOLEAN,
                      geometry : Nat, engine : Nat]
        /\ fresh.config = 0 /\ fresh.revision = 0 /\ fresh.engine = 0 /\ fresh.geometryValid = FALSE
    BY <2>3 DEF NoPose
  <2>5. pipeline' \in {"running", "failed"} /\ cleared' \in {cleared, FALSE}
    BY <2>2
  <2>6. Stale(fresh) <=> store # NoCalibration
    BY <2>4 DEF Stale, RevisionsGrow
  <2>7. /\ pose' \in [rig : Rigs \cup {0}, config : Nat, revision : Nat, geometryValid : BOOLEAN,
                      geometry : Nat, engine : Nat]
        /\ pose'.engine = pose'.config /\ pose'.geometryValid = FALSE
        /\ \/ pose'.revision = 0 /\ pose'.config = 0
           \/ pose'.revision = store.revision /\ pose'.config = store.source
    <3>1. CASE pose' = fresh
      BY <3>1, <2>4
    <3>2. CASE pose' = [Refreshed(fresh) EXCEPT !.engine = EngineOf(fresh)]
      <4>1. /\ pose' \in [rig : Rigs \cup {0}, config : Nat, revision : Nat, geometryValid : BOOLEAN,
                           geometry : Nat, engine : Nat]
            /\ Stale(fresh) => /\ pose'.config = store.source /\ pose'.engine = store.source
                               /\ pose'.revision = store.revision /\ pose'.geometryValid = FALSE
            /\ ~Stale(fresh) => pose' = fresh
        BY <3>2, <2>4, RefreshedPose
      <4> QED
        BY <2>4, <4>1
    <3> QED
      BY <3>1, <3>2, <2>2, <2>3
  <2>8. RTypeOK'
    <3>1. pipeline' \in {"stopped", "running", "failed"} /\ cleared' \in BOOLEAN
      BY <2>5 DEF RTypeOK
    <3> QED
      BY <1>1, <2>1, <2>7, <3>1 DEF RTypeOK
  <2>9. PoseFollowsStore' /\ PoseIsWhole'
    <3>1. store.revision \in Nat /\ (store.revision = 0 => store.source = 0)
      BY DEF RTypeOK, RevisionsGrow, NoCalibration
    <3> QED
      BY <2>1, <2>7, <3>1 DEF PoseFollowsStore, PoseIsWhole
  <2> QED
    BY <2>1, <2>8, <2>9 DEF RevisionsGrow, FileIsAhead, InferenceIsOfOneCalibration,
       PublishedIsOnDisk, NoCalibration
<1> QED
  BY <1>2, <1>3, <1>4, <1>5 DEF Command

LEMMA CalibrationStep == CalibrationInv /\ [RNext]_rigVars => CalibrationInv'
<1> SUFFICES ASSUME CalibrationInv, [RNext]_rigVars
             PROVE  CalibrationInv'
  OBVIOUS
<1>1. CASE Process
  BY <1>1, ProcessKeeps
<1>2. CASE Observe
  <2>1. /\ latest' = [number |-> packets', rig |-> pose.rig] /\ packets' = packets + 1
        /\ UNCHANGED <<store, worker, stop, packet, made, file, control, pipeline, pose, inference,
                       cleared, crashed, calls>>
    BY <1>2 DEF Observe
  <2>2. RTypeOK
    BY DEF CalibrationInv
  <2>3. packets' \in Nat /\ latest' \in [number : Nat, rig : Rigs \cup {0}]
    BY <2>1, <2>2 DEF RTypeOK
  <2>4. RTypeOK'
    BY <2>1, <2>2, <2>3 DEF RTypeOK
  <2> QED
    BY <2>1, <2>4 DEF CalibrationInv, RevisionsGrow, PoseFollowsStore, PoseIsWhole, FileIsAhead,
       InferenceIsOfOneCalibration, PublishedIsOnDisk, NoCalibration
<1>3. CASE Run
  BY <1>3, RunKeeps
<1>4. CASE Command
  BY <1>4, CommandKeeps
<1>5. CASE Joined
  <2>1. /\ worker' = "none" /\ stop' = FALSE /\ control' = "idle" /\ worker \in {"none", "ended"}
        /\ pipeline' \in {"stopped", pipeline}
        /\ UNCHANGED <<store, latest, packet, made, file, pose, inference, cleared, crashed, packets,
                       calls>>
    BY <1>5 DEF Joined
  <2>2. RTypeOK
    BY DEF CalibrationInv
  <2>3. /\ pipeline' \in {"stopped", "running", "failed"} /\ stop' \in BOOLEAN
        /\ worker' \in {"none", "waiting", "preparing", "inference", "first", "second", "write",
                        "rename", "publish", "complete", "ended"}
        /\ control' \in {"idle", "cancel", "stop"}
    BY <2>1, <2>2 DEF RTypeOK
  <2>4. UNCHANGED <<store, latest, packet, made, file, pose, inference, cleared, crashed, packets, calls>>
    BY <2>1
  <2>5. RTypeOK'
    BY <2>2, <2>3, <2>4 DEF RTypeOK
  <2> QED
    BY <2>1, <2>5 DEF CalibrationInv, RevisionsGrow, PoseFollowsStore, PoseIsWhole, FileIsAhead,
       InferenceIsOfOneCalibration, PublishedIsOnDisk, NoCalibration
<1>6. CASE UNCHANGED rigVars
  BY <1>6 DEF rigVars, CalibrationInv, RTypeOK, RevisionsGrow, PoseFollowsStore, PoseIsWhole,
     FileIsAhead, InferenceIsOfOneCalibration, PublishedIsOnDisk, NoCalibration
<1> QED
  BY <1>1, <1>2, <1>3, <1>4, <1>5, <1>6 DEF RNext

\* MultiviewPoseStage::process gives its engine one calibration, the one in the
\* store, and RigCalibrationTool::run has written what it published, whatever the
\* control thread clears, cancels and restarts in between.
THEOREM OneCalibration == RSpec => []CalibrationIsCurrent
<1>1. CalibrationInv => CalibrationIsCurrent
  BY DEF CalibrationInv, CalibrationIsCurrent
<1> QED
  BY <1>1, CalibrationInit, CalibrationStep, PTL DEF RSpec

-----------------------------------------------------------------------------
(* The REST server. *)

ApiTypes ==
    /\ pc = [c \in Clients |-> pc[c]] /\ answer = [c \in Clients |-> answer[c]]
    /\ request = [c \in Clients |-> request[c]]
    /\ observed \in [Clients -> Nat] /\ taken \in [Clients -> Nat] /\ before \in [Clients -> Nat]
    /\ pending \in [Clients -> {"absent", "empty", "written"}]
    /\ directory = [d \in Destinations |-> directory[d]]
    /\ batches \in Seq(PacketKinds)

\* Where a session has taken its batch, and where it asks for one.
Holding == {"skew", "exists", "empty", "remove", "stage", "write", "commit"}
Asking == {"snapshot", "wait"} \cup Holding

\* A session is answered at its end, its staging directory is there while it
\* writes, and the batch it took is one of its request that came after it.
SessionIsSound(c) ==
    /\ pc[c] \notin {"respond", "leave"} => answer[c] = "none"
    /\ pc[c] = "write" => pending[c] = "empty"
    /\ pc[c] = "commit" => pending[c] = "written"
    /\ pc[c] \notin {"write", "commit", "cleanup"} => pending[c] = "absent"
    /\ pc[c] \in Asking => request[c].to \in Destinations /\ before[c] <= Len(batches)
    /\ pc[c] = "wait" => before[c] <= observed[c]
    /\ pc[c] \in Holding =>
          /\ taken[c] \in 1 .. Len(batches) /\ before[c] < taken[c]
          /\ batches[taken[c]].rig = request[c].rig

ApiInv == ApiTypes /\ \A c \in Clients : SessionIsSound(c)

LEMMA ApiInitial == PInit => ApiInv
BY DEF PInit, ApiInv, ApiTypes, SessionIsSound, Asking, Holding, NoRequest

\* A step leaves a session alone that is not its own.
Untouched(c) ==
    /\ pc'[c] = pc[c] /\ request'[c] = request[c] /\ answer'[c] = answer[c]
    /\ observed'[c] = observed[c] /\ taken'[c] = taken[c] /\ before'[c] = before[c]
    /\ pending'[c] = pending[c]

LEMMA UntouchedStaysSound ==
    ASSUME NEW c \in Clients, SessionIsSound(c), Untouched(c), batches' = batches
    PROVE  SessionIsSound(c)'
BY DEF SessionIsSound, Untouched, Asking, Holding

\* What a step of a session does: it has its place, its answer and its staging
\* directory, takes up a request or drops it, and takes a batch.
Step(c) ==
    Accept(c) \/ Read(c) \/ ReadFails(c) \/ Handle(c) \/ CommandReturns(c) \/ Respond(c) \/ Leave(c)

LEMMA OthersUntouched ==
    ASSUME ApiTypes, NEW c \in Clients, Step(c)
    PROVE  /\ \A d \in Clients \ {c} : Untouched(d)
           /\ batches' = batches
           /\ ApiTypes'
<1> USE DEF ApiTypes, Untouched, waiting, files, Goto, Answer
<1>1. CASE Accept(c)
  BY <1>1 DEF Accept
<1>2. CASE Read(c)
  <2>1. PICK r \in Requests[c] : request' = [request EXCEPT ![c] = r] /\ pc' = [pc EXCEPT ![c] = r.kind]
    BY <1>2 DEF Read
  <2>2. /\ before' = [before EXCEPT ![c] = Len(batches)] /\ pc[c] = "read" /\ Len(batches) \in Nat
        /\ UNCHANGED <<answer, batches, observed, taken, pending, directory>>
    BY <1>2 DEF Read, At
  <2> QED
    BY <2>1, <2>2
<1>3. CASE ReadFails(c)
  BY <1>3 DEF ReadFails
<1>4. CASE Refuse(c) \/ Query(c)
  BY <1>4 DEF Refuse, Query
<1>5. CASE Execute(c) \/ CommandReturns(c) \/ Respond(c)
  BY <1>5 DEF Execute, CommandReturns, Respond
<1>6. CASE Snapshot(c)
  BY <1>6 DEF Snapshot
<1>7. CASE Wait(c) \/ WaitTimesOut(c)
  BY <1>7 DEF Wait, WaitTimesOut
<1>8. CASE CheckSkew(c)
  BY <1>8 DEF CheckSkew
<1>9. CASE Reserve(c)
  BY <1>9 DEF Reserve, RemoveDirectory, SetTo
<1>10. CASE CreatePending(c)
  BY <1>10 DEF CreatePending, Stage
<1>11. CASE WriteBatch(c)
  BY <1>11 DEF WriteBatch, Stage
<1>12. CASE Commit(c)
  BY <1>12 DEF Commit, Stage, SetTo
<1>13. CASE Cleanup(c)
  BY <1>13 DEF Cleanup, Stage
<1>14. CASE Leave(c)
  BY <1>14 DEF Leave, Notify
<1> QED
  BY <1>1, <1>2, <1>3, <1>4, <1>5, <1>6, <1>7, <1>8, <1>9, <1>10, <1>11, <1>12, <1>13, <1>14
     DEF Step, Handle

LEMMA OwnStepIsSound ==
    ASSUME ApiTypes, NEW c \in Clients, SessionIsSound(c), Step(c)
    PROVE  SessionIsSound(c)'
<1> USE DEF ApiTypes, SessionIsSound, waiting, files, At, Goto, Answer, Asking, Holding
<1>1. CASE Accept(c)
  BY <1>1 DEF Accept
<1>2. CASE Read(c)
  <2>1. PICK r \in Requests[c] : request' = [request EXCEPT ![c] = r] /\ pc' = [pc EXCEPT ![c] = r.kind]
    BY <1>2 DEF Read
  <2>2. /\ before' = [before EXCEPT ![c] = Len(batches)] /\ pc[c] = "read" /\ Len(batches) \in Nat
        /\ UNCHANGED <<answer, batches, observed, taken, pending, directory>>
    BY <1>2 DEF Read, At
  <2>3. /\ r.kind \in {"bad", "query", "command", "snapshot"}
        /\ r.kind = "snapshot" => r.to \in Destinations
    BY RequestsAssumption
  <2>4. /\ pc'[c] = r.kind /\ request'[c] = r /\ before'[c] = Len(batches) /\ batches' = batches
        /\ answer'[c] = answer[c] /\ pending'[c] = pending[c]
    BY <2>1, <2>2
  <2> QED
    BY <2>2, <2>3, <2>4
<1>3. CASE ReadFails(c)
  BY <1>3 DEF ReadFails
<1>4. CASE Refuse(c) \/ Query(c)
  BY <1>4 DEF Refuse, Query
<1>5. CASE Execute(c) \/ CommandReturns(c) \/ Respond(c)
  BY <1>5 DEF Execute, CommandReturns, Respond
<1>6. CASE Snapshot(c)
  BY <1>6 DEF Snapshot
<1>7. CASE Wait(c)
  BY <1>7 DEF Wait, New, Latest
<1>8. CASE WaitTimesOut(c)
  BY <1>8 DEF WaitTimesOut
<1>9. CASE CheckSkew(c)
  BY <1>9 DEF CheckSkew
<1>10. CASE Reserve(c)
  BY <1>10 DEF Reserve, RemoveDirectory
<1>11. CASE CreatePending(c)
  BY <1>11 DEF CreatePending, Stage
<1>12. CASE WriteBatch(c)
  BY <1>12 DEF WriteBatch, Stage
<1>13. CASE Commit(c)
  BY <1>13 DEF Commit, Stage
<1>14. CASE Cleanup(c)
  BY <1>14 DEF Cleanup, Stage
<1>15. CASE Leave(c)
  BY <1>15 DEF Leave, Notify
<1> QED
  BY <1>1, <1>2, <1>3, <1>4, <1>5, <1>6, <1>7, <1>8, <1>9, <1>10, <1>11, <1>12, <1>13, <1>14, <1>15
     DEF Step, Handle

\* A new batch comes behind the others.
LEMMA BatchKeeps ==
    ASSUME ApiInv, PublishBatch
    PROVE  ApiInv'
<1>1. /\ UNCHANGED <<pc, request, answer, before, observed, taken, pending, directory>>
      /\ \E batch \in PacketKinds : batches' = Append(batches, batch)
  BY DEF PublishBatch, files
<1>2. /\ batches' \in Seq(PacketKinds) /\ Len(batches') = Len(batches) + 1 /\ Len(batches) \in Nat
      /\ \A i \in 1 .. Len(batches) : batches'[i] = batches[i]
  BY <1>1 DEF ApiInv, ApiTypes
<1>3. ApiTypes'
  BY <1>1, <1>2 DEF ApiInv, ApiTypes
<1>4. ASSUME NEW c \in Clients
      PROVE  SessionIsSound(c)'
  <2>1. SessionIsSound(c) /\ before[c] \in Nat /\ taken[c] \in Nat
    BY DEF ApiInv, ApiTypes
  <2> QED
    BY <1>1, <1>2, <2>1 DEF SessionIsSound, Asking, Holding
<1> QED
  BY <1>3, <1>4 DEF ApiInv

LEMMA ApiStep == ApiInv /\ [PNext]_apiVars => ApiInv'
<1> SUFFICES ASSUME ApiInv, [PNext]_apiVars
             PROVE  ApiInv'
  OBVIOUS
<1>1. ASSUME NEW c \in Clients, Step(c)
      PROVE  ApiInv'
  <2>1. ApiTypes /\ \A d \in Clients : SessionIsSound(d)
    BY DEF ApiInv
  <2>2. ASSUME NEW d \in Clients \ {c}
        PROVE  SessionIsSound(d)'
    BY <1>1, <2>1, OthersUntouched, UntouchedStaysSound
  <2>3. SessionIsSound(c)'
    BY <1>1, <2>1, OwnStepIsSound
  <2> QED
    BY <1>1, <2>1, <2>2, <2>3, OthersUntouched DEF ApiInv
<1>2. CASE AcceptEnds \/ StopStep \/ UNCHANGED apiVars
  <2>1. UNCHANGED <<pc, request, answer, before, batches, observed, taken, pending, directory>>
    BY <1>2 DEF AcceptEnds, StopStep, apiVars, waiting, files
  <2> QED
    BY <2>1 DEF ApiInv, ApiTypes, SessionIsSound, Asking, Holding
<1>3. CASE PublishBatch
  BY <1>3, BatchKeeps
<1> QED
  BY <1>1, <1>2, <1>3 DEF PNext, Step

\* The only step of a session that commits, and is answered with "ok", is Commit.
LEMMA OkIsCommitted ==
    ASSUME ApiInv, [PNext]_apiVars, NEW c \in Clients, pc[c] = "commit", answer'[c] = "ok"
    PROVE  Commit(c) /\ directory' = [directory EXCEPT ![request[c].to] = [by |-> c, packet |-> taken[c]]]
<1>1. ApiTypes /\ SessionIsSound(c)
  BY DEF ApiInv
<1>2. answer[c] = "none"
  BY <1>1 DEF SessionIsSound
<1>3. Step(c)
  <2>1. ASSUME NEW d \in Clients, Step(d), d # c
        PROVE  FALSE
    BY <1>1, <1>2, <2>1, OthersUntouched DEF Untouched
  <2>2. CASE AcceptEnds \/ StopStep \/ PublishBatch \/ UNCHANGED apiVars
    BY <1>2, <2>2 DEF AcceptEnds, StopStep, PublishBatch, apiVars
  <2> QED
    BY <2>1, <2>2 DEF PNext, Step
<1>4. Commit(c)
  BY <1>3 DEF Step, Handle, Accept, Read, ReadFails, Refuse, Query, Execute, CommandReturns,
     Respond, Snapshot, Wait, WaitTimesOut, CheckSkew, Reserve, RemoveDirectory, CreatePending, WriteBatch, Cleanup, Leave, Notify, At
<1>5. directory' = [directory EXCEPT ![request[c].to] = [by |-> c, packet |-> taken[c]]]
  BY <1>2, <1>4 DEF Commit, SetTo
<1> QED
  BY <1>4, <1>5

\* A directory with something in it stays as it is.
LEMMA OccupiedStays ==
    ASSUME ApiInv, [PNext]_apiVars, NEW d \in Destinations, Occupied(directory[d])
    PROVE  directory'[d] = directory[d]
<1>1. directory = [e \in Destinations |-> directory[e]]
  BY DEF ApiInv, ApiTypes
<1>2. ASSUME NEW c \in Clients, Step(c)
      PROVE  directory'[d] = directory[d]
  <2>1. CASE Reserve(c)
    BY <1>1, <2>1 DEF Reserve, RemoveDirectory, SetTo, To
  <2>2. CASE Commit(c)
    BY <1>1, <2>2 DEF Commit, SetTo, To, files
  <2>3. CASE ~Reserve(c) /\ ~Commit(c)
    BY <1>2, <2>3 DEF Step, Handle, Accept, Read, ReadFails, Refuse, Query, Execute, CommandReturns,
       Respond, Snapshot, Wait, WaitTimesOut, CheckSkew, CreatePending, WriteBatch, Cleanup, Leave, files
  <2> QED
    BY <2>1, <2>2, <2>3
<1>3. CASE AcceptEnds \/ StopStep \/ PublishBatch \/ UNCHANGED apiVars
  BY <1>3 DEF AcceptEnds, StopStep, PublishBatch, apiVars, files
<1> QED
  BY <1>2, <1>3 DEF PNext, Step

\* POST /capture/snapshot: what is answered with "ok" is whole, new and of the
\* cameras asked for, nothing in a directory is replaced, and no staging directory
\* is left, however many sessions meet in one destination.
THEOREM WholeSnapshots == PSpec => SnapshotsAreWhole
<1>1. ApiInv /\ [PNext]_apiVars =>
         [/\ \A c \in Clients :
               /\ At(c, "commit") /\ answer'[c] = "ok" =>
                     /\ directory'[request[c].to] = [by |-> c, packet |-> taken[c]]
                     /\ batches[taken[c]].rig = request[c].rig /\ taken[c] > before[c]
                     /\ pending[c] = "written"
               /\ pc'[c] = "gone" => pending'[c] = "absent"
          /\ \A d \in Destinations : Occupied(directory[d]) => directory'[d] = directory[d]]_apiVars
  <2> SUFFICES ASSUME ApiInv, [PNext]_apiVars
               PROVE  /\ \A c \in Clients :
                           /\ At(c, "commit") /\ answer'[c] = "ok" =>
                                 /\ directory'[request[c].to] = [by |-> c, packet |-> taken[c]]
                                 /\ batches[taken[c]].rig = request[c].rig /\ taken[c] > before[c]
                                 /\ pending[c] = "written"
                           /\ pc'[c] = "gone" => pending'[c] = "absent"
                      /\ \A d \in Destinations : Occupied(directory[d]) => directory'[d] = directory[d]
    OBVIOUS
  <2>1. ApiInv'
    BY ApiStep
  <2>2. ASSUME NEW c \in Clients, At(c, "commit"), answer'[c] = "ok"
        PROVE  /\ directory'[request[c].to] = [by |-> c, packet |-> taken[c]]
               /\ batches[taken[c]].rig = request[c].rig /\ taken[c] > before[c]
               /\ pending[c] = "written"
    <3>1. ApiTypes /\ SessionIsSound(c) /\ pc[c] = "commit"
      BY <2>2 DEF ApiInv, At
    <3>2. request[c].to \in Destinations
      BY <3>1 DEF SessionIsSound, Asking, Holding
    <3>3. directory'[request[c].to] = [by |-> c, packet |-> taken[c]]
      BY <2>2, <3>1, <3>2, OkIsCommitted DEF ApiTypes
    <3>4. batches[taken[c]].rig = request[c].rig /\ before[c] < taken[c] /\ pending[c] = "written"
      BY <3>1 DEF SessionIsSound, Holding
    <3>5. before[c] \in Nat /\ taken[c] \in Nat
      BY <3>1 DEF ApiTypes
    <3> QED
      BY <3>3, <3>4, <3>5
  <2>3. ASSUME NEW c \in Clients, pc'[c] = "gone"
        PROVE  pending'[c] = "absent"
    BY <2>1, <2>3 DEF ApiInv, SessionIsSound
  <2>4. \A d \in Destinations : Occupied(directory[d]) => directory'[d] = directory[d]
    BY OccupiedStays
  <2> QED
    BY <2>2, <2>3, <2>4
<1>2. PInit => ApiInv
  BY ApiInitial
<1>3. ApiInv /\ [PNext]_apiVars => ApiInv'
  BY ApiStep
<1> QED
  BY <1>1, <1>2, <1>3, PTL DEF PSpec, SnapshotsAreWhole
=============================================================================
