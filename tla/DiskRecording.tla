--------------------------- MODULE DiskRecording ----------------------------
(***************************************************************************)
(* Recording in iris::OutputStage (src/stages/output/OutputStage.cpp).     *)
(*                                                                         *)
(* The coordinator takes packets from the pose stage and, while a          *)
(* recording accepts them, passes them to the disk worker through a        *)
(* bounded blocking queue.  The control thread's commands travel through   *)
(* the same queue, each with a promise the worker fulfils; the submission  *)
(* mutex keeps admission and commands in one order.  The runner (the       *)
(* pipeline thread) stops the stage, after an optional stop_recording at   *)
(* the end of the files.                                                   *)
(*                                                                         *)
(* The worker writes with the writers of Mp4Writer.  A packet is its       *)
(* number and has a frame of every camera; of a disk configuration only    *)
(* the destination is kept.                                                *)
(***************************************************************************)
EXTENDS Mp4Writer

CONSTANTS DiskCapacity, \* disk.queue_capacity
          MaxPackets,   \* bound: packets that reach the stage
          MaxCommands   \* bound: commands of the control thread

ASSUME DiskAssumption ==
    /\ DiskCapacity \in Nat \ {0}
    /\ MaxPackets \in Nat /\ Time \in [1 .. MaxPackets -> Nat]
    /\ MaxCommands \in Nat

Callers == {"control", "runner"}
Operations == {"start", "stop", "configure"}
Results == {"none", "Applied", "Rejected", "Failed"}

VARIABLES
    arrived,        \* packets the coordinator has received
    inputClosed,    \* the input channel is closed
    running,        \* running_
    accepting,      \* accepting_disk_
    failed,         \* recording_failed_
    gauge,          \* iris_output_recording_active
    mutex,          \* holder of disk_submit_mutex_, or "free"
    queue, queueClosed, \* disk_queue_
    coordinator,    \* receive, lock, send, done
    worker,         \* receive, write, fail, fail2, done
    packet, todo,   \* the packet being written, and the cameras still to write
    broken,         \* failure of run_disk
    destination,    \* disk_config.destination of run_disk
    op, pc,         \* the operation each caller is in, and where
    answer,         \* the future of each caller
    commands,       \* commands of the control thread so far
    stopping,       \* where stop() is
    admitted        \* history: packets admitted since the last armed start

flags == <<running, accepting, failed, gauge>>
workerVars == <<worker, packet, todo, broken, destination, writers, files>>
callerVars == <<op, pc, answer, commands>>
vars == <<arrived, inputClosed, flags, mutex, queue, queueClosed, coordinator,
          workerVars, callerVars, stopping, admitted>>

Init ==
    /\ arrived = 0 /\ inputClosed = FALSE
    /\ running = TRUE /\ accepting = FALSE /\ failed = FALSE /\ gauge = FALSE
    /\ mutex = "free" /\ queue = <<>> /\ queueClosed = FALSE
    /\ coordinator = "receive"
    /\ worker = "receive" /\ packet = 0 /\ todo = {} /\ broken = FALSE
    /\ destination = CHOOSE d \in Destinations : TRUE
    /\ WritersInit
    /\ op = [t \in Callers |-> "none"]
    /\ pc = [t \in Callers |-> "idle"]
    /\ answer = [t \in Callers |-> "none"]
    /\ commands = 0
    /\ stopping = "no"
    /\ admitted = <<>>

Full == Len(queue) >= DiskCapacity

-----------------------------------------------------------------------------
(* run_coordinator *)

CoordinatorReceives ==
    /\ coordinator = "receive" /\ arrived < MaxPackets
    /\ arrived' = arrived + 1
    /\ coordinator' = "lock"
    /\ UNCHANGED <<mutex, queue, admitted>>

CoordinatorEnds ==
    /\ coordinator = "receive" /\ inputClosed
    /\ coordinator' = "done"
    /\ UNCHANGED <<arrived, mutex, queue, admitted>>

\* The pose stage closes its output when it ends.
InputEnds ==
    /\ inputClosed' = TRUE
    /\ UNCHANGED <<arrived, flags, mutex, queue, queueClosed, coordinator, workerVars,
                   callerVars, stopping, admitted>>

CoordinatorLocks ==
    /\ coordinator = "lock" /\ mutex = "free"
    /\ IF accepting
       THEN /\ mutex' = "coordinator" /\ coordinator' = "send"
            /\ admitted' = Append(admitted, arrived)
       ELSE coordinator' = "receive" /\ UNCHANGED <<mutex, admitted>>
    /\ UNCHANGED <<arrived, queue>>

\* Blocks while the queue is full, mutex in hand.
CoordinatorSends ==
    /\ coordinator = "send" /\ (queueClosed \/ ~Full)
    /\ queue' = IF queueClosed THEN queue
                ELSE Append(queue, [kind |-> "packet", packet |-> arrived])
    /\ mutex' = "free"
    /\ coordinator' = "receive"
    /\ UNCHANGED <<arrived, admitted>>

CoordinatorStep ==
    /\ CoordinatorReceives \/ CoordinatorEnds \/ CoordinatorLocks \/ CoordinatorSends
    /\ UNCHANGED <<inputClosed, flags, queueClosed, workerVars, callerVars, stopping>>

-----------------------------------------------------------------------------
(* run_disk *)

Work(kinds) ==
    /\ worker = "receive" /\ queue # <<>> /\ Head(queue).kind \in kinds
    /\ queue' = Tail(queue)

Fulfil(t, r) == answer' = [answer EXCEPT ![t] = r]

WorkerTakesPacket ==
    /\ Work({"packet"})
    /\ IF broken THEN UNCHANGED <<worker, packet, todo>>
       ELSE worker' = "write" /\ packet' = Head(queue).packet /\ todo' = Cameras
    /\ UNCHANGED <<broken, destination, writers, files, accepting, failed, gauge, answer>>

\* The cameras of a packet are in the order of their numbers.
Turn(c) == worker = "write" /\ c \in todo /\ \A d \in todo : c <= d

WorkerOpens ==
    /\ \E c \in Cameras : Turn(c) /\ Open(destination, c)
    /\ UNCHANGED <<worker, packet, todo, broken, destination, queue, accepting, failed, gauge,
                   answer>>

WorkerWrites ==
    /\ \E c \in Cameras :
          /\ Turn(c) /\ Write(c, packet)
          /\ todo' = todo \ {c}
    /\ worker' = IF todo' = {} THEN "receive" ELSE "write"
    /\ packet' = IF todo' = {} THEN 0 ELSE packet
    /\ UNCHANGED <<broken, destination, queue, accepting, failed, gauge, answer>>

\* A writer throws.  The three stores of the handler are three steps:
\* accepting_disk_, recording_failed_, the gauge.
WorkerBreaks ==
    /\ \E c \in Cameras : Turn(c) /\ (OpenThrows(destination, c) \/ WriteThrows(c))
    /\ broken' = TRUE
    /\ accepting' = FALSE
    /\ worker' = "fail" /\ packet' = 0 /\ todo' = {}
    /\ UNCHANGED <<destination, queue, failed, gauge, answer>>

\* Mutant: a failure leaves the metric on.
WorkerKeepsGauge ==
    /\ worker = "fail"
    /\ failed' = TRUE
    /\ worker' = "receive"
    /\ UNCHANGED <<gauge, queue, packet, todo, broken, destination, writers, files, accepting,
                   answer>>

WorkerMarksFailed ==
    \/ /\ worker = "fail"
       /\ failed' = TRUE
       /\ worker' = "fail2"
       /\ UNCHANGED <<gauge, queue, packet, todo, broken, destination, writers, files, accepting,
                      answer>>
    \/ /\ worker = "fail2"
       /\ gauge' = FALSE
       /\ worker' = "receive"
       /\ UNCHANGED <<failed, queue, packet, todo, broken, destination, writers, files, accepting,
                      answer>>

\* writers.clear(): what an earlier recording left open stays a partial file.
WorkerStarts ==
    /\ Work({"start"})
    /\ Clear /\ broken' = FALSE
    /\ Fulfil(Head(queue).by, "Applied")
    /\ UNCHANGED <<worker, packet, todo, destination, files, accepting, failed, gauge>>

\* A stop after a failure, without a frame, or with a writer that cannot be
\* finalized has failed.
WorkerStops ==
    /\ Work({"stop"})
    /\ \/ /\ ~broken /\ Used # {}
          /\ FinalizeAll
          /\ Fulfil(Head(queue).by, "Applied")
       \/ /\ IF broken \/ Used = {} THEN UNCHANGED files ELSE FinalizeSome
          /\ Fulfil(Head(queue).by, "Failed")
    /\ Clear
    /\ UNCHANGED <<worker, packet, todo, broken, destination, accepting, failed, gauge>>

WorkerConfigures ==
    /\ Work({"configure"})
    /\ IF Used # {}
       THEN Fulfil(Head(queue).by, "Rejected") /\ UNCHANGED destination
       ELSE Fulfil(Head(queue).by, "Applied") /\ destination' \in Destinations
    /\ UNCHANGED <<worker, packet, todo, broken, writers, files, accepting, failed, gauge>>

\* Mutant: what is still queued when the queue is closed is not handled.
WorkerEndsEarly ==
    /\ worker = "receive" /\ queueClosed
    /\ worker' = "done" /\ Clear
    /\ UNCHANGED <<packet, todo, broken, destination, files, queue, accepting, failed, gauge,
                   answer>>

\* The writers go out of scope: what was not finalized stays a partial file.
WorkerEnds ==
    /\ worker = "receive" /\ queue = <<>> /\ queueClosed
    /\ worker' = "done" /\ Clear
    /\ UNCHANGED <<packet, todo, broken, destination, files, queue, accepting, failed, gauge,
                   answer>>

WorkerStep ==
    /\ \/ WorkerTakesPacket \/ WorkerOpens \/ WorkerWrites \/ WorkerBreaks \/ WorkerMarksFailed
       \/ WorkerStarts \/ WorkerStops \/ WorkerConfigures \/ WorkerEnds
    /\ UNCHANGED <<arrived, inputClosed, running, mutex, queueClosed, coordinator, op, pc,
                   commands, stopping, admitted>>

-----------------------------------------------------------------------------
(* start_recording, stop_recording, configure_disk *)

At(t, l) == pc[t] = l
Goto(t, l) == pc' = [pc EXCEPT ![t] = l]

\* The control thread calls an operation; running_ is read without the mutex.
\* A stage that is not running refuses, or just notes the configuration.
Call(o) ==
    /\ At("control", "idle") /\ commands < MaxCommands
    /\ commands' = commands + 1
    /\ IF running THEN Goto("control", "lock") /\ op' = [op EXCEPT !["control"] = o]
                  ELSE UNCHANGED <<pc, op>>
    /\ UNCHANGED <<accepting, failed, gauge, mutex, queue, answer, stopping, admitted>>

\* What the operation requires once it has the mutex.
Permitted(o) ==
    CASE o = "start" -> ~accepting
      [] o = "stop" -> accepting \/ failed
      [] o = "configure" -> ~accepting /\ ~failed

\* Takes the mutex; stop_recording ends admission before it sends DiskStop.
Lock(t) ==
    /\ At(t, "lock") /\ mutex = "free"
    /\ IF Permitted(op[t])
       THEN /\ mutex' = t
            /\ Goto(t, "send")
            /\ accepting' = (accepting /\ op[t] # "stop")
       ELSE Goto(t, "idle") /\ UNCHANGED <<mutex, accepting>>
    /\ op' = IF Permitted(op[t]) THEN op ELSE [op EXCEPT ![t] = "none"]
    /\ UNCHANGED <<answer, commands, failed, gauge, queue, stopping, admitted>>

\* await_command: send, unless the queue is closed, then wait for the answer.
SendCommand(t) ==
    /\ At(t, "send") /\ (queueClosed \/ ~Full)
    /\ IF queueClosed
       THEN /\ answer' = [answer EXCEPT ![t] = "Rejected"]
            /\ UNCHANGED <<queue, admitted>>
       ELSE /\ queue' = Append(queue, [kind |-> op[t], by |-> t])
            /\ answer' = [answer EXCEPT ![t] = "none"]
            /\ admitted' = IF op[t] = "start" THEN <<>> ELSE admitted
    /\ Goto(t, "await")
    /\ UNCHANGED <<accepting, failed, gauge, mutex, op, commands, stopping>>

\* The answer is there: start_recording opens admission, then sets the gauge;
\* stop_recording forgets the failure and clears the gauge.
Answered(t) ==
    /\ At(t, "await") /\ answer[t] # "none"
    /\ IF op[t] = "start" /\ answer[t] = "Applied"
       THEN failed' = FALSE /\ accepting' = TRUE
       ELSE failed' = (failed /\ op[t] # "stop") /\ UNCHANGED accepting
    /\ Goto(t, "gauge")
    /\ UNCHANGED <<gauge, mutex, queue, op, answer, commands, stopping, admitted>>

Return(t) ==
    /\ At(t, "gauge")
    /\ gauge' = CASE op[t] = "start" /\ answer[t] = "Applied" -> TRUE
                  [] op[t] = "stop" -> FALSE
                  [] OTHER -> gauge
    /\ mutex' = "free"
    /\ Goto(t, "idle")
    /\ op' = [op EXCEPT ![t] = "none"] /\ answer' = [answer EXCEPT ![t] = "none"]
    /\ UNCHANGED <<accepting, failed, queue, commands, stopping, admitted>>

CallerStep(t) == Lock(t) \/ SendCommand(t) \/ Answered(t) \/ Return(t)

CommandStep ==
    /\ \/ \E o \in Operations : Call(o)
       \/ \E t \in Callers : CallerStep(t)
    /\ UNCHANGED <<arrived, inputClosed, running, queueClosed, coordinator, workerVars>>

-----------------------------------------------------------------------------
(* The runner: stop_recording if the files ended, then stop(). *)

StopStep ==
    \/ /\ stopping = "no"
       /\ \/ Goto("runner", "lock") /\ op' = [op EXCEPT !["runner"] = "stop"]
          \/ UNCHANGED <<pc, op>>
       /\ stopping' = "begin"
       /\ UNCHANGED <<flags, inputClosed, queueClosed>>
    \/ /\ stopping = "begin" /\ At("runner", "idle")
       /\ running' = FALSE /\ inputClosed' = TRUE
       /\ stopping' = "coordinator"
       /\ UNCHANGED <<accepting, failed, gauge, queueClosed, pc, op>>
    \/ /\ stopping = "coordinator" /\ coordinator = "done"
       /\ stopping' = "preview"
       /\ UNCHANGED <<flags, inputClosed, queueClosed, pc, op>>
    \/ /\ stopping = "preview"            \* preview_.stop(), PreviewSink!Stop
       /\ queueClosed' = TRUE
       /\ stopping' = "worker"
       /\ UNCHANGED <<flags, inputClosed, pc, op>>
    \/ /\ stopping = "worker" /\ worker = "done"
       /\ accepting' = FALSE
       /\ stopping' = "gauge"
       /\ UNCHANGED <<running, failed, gauge, inputClosed, queueClosed, pc, op>>
    \/ /\ stopping = "gauge"
       /\ gauge' = FALSE
       /\ stopping' = "done"
       /\ UNCHANGED <<running, accepting, failed, inputClosed, queueClosed, pc, op>>

Stop ==
    /\ StopStep
    /\ UNCHANGED <<arrived, mutex, queue, coordinator, workerVars, answer, commands, admitted>>

Next == CoordinatorStep \/ InputEnds \/ WorkerStep \/ CommandStep \/ Stop

Spec == Init /\ [][Next]_vars

\* Threads are scheduled; packets, commands and the stop need not come, and
\* preview_.stop() need not return (PreviewSink!StopEndsUnlessHeld).
Fairness ==
    /\ WF_vars(CoordinatorStep /\ coordinator # "receive")
    /\ WF_vars(CoordinatorEnds /\ CoordinatorStep)
    /\ WF_vars(WorkerStep)
    /\ \A t \in Callers : WF_vars(CommandStep /\ CallerStep(t))
    /\ WF_vars(Stop /\ stopping \notin {"no", "preview"})

FairSpec == Spec /\ Fairness

-----------------------------------------------------------------------------
(* Properties *)

Packets == 1 .. MaxPackets

\* Every variable has its type.
TypeOK ==
    /\ arrived \in 0 .. MaxPackets
    /\ {inputClosed, running, accepting, failed, gauge, queueClosed, broken} \subseteq BOOLEAN
    /\ mutex \in Callers \cup {"free", "coordinator"}
    /\ Len(queue) <= DiskCapacity
    /\ \A i \in 1 .. Len(queue) : queue[i].kind \in Operations \cup {"packet"}
    /\ coordinator \in {"receive", "lock", "send", "done"}
    /\ worker \in {"receive", "write", "fail", "fail2", "done"}
    /\ packet \in 0 .. MaxPackets /\ todo \subseteq Cameras
    /\ destination \in Destinations
    /\ \A c \in Cameras :
          /\ writers[c].state \in {"none", "null", "open"}
          /\ \A d \in Destinations : files[d][c].state \in {"absent", "partial", "final"}
    /\ op \in [Callers -> Operations \cup {"none"}]
    /\ pc \in [Callers -> {"idle", "lock", "send", "await", "gauge"}]
    /\ answer \in [Callers -> Results]
    /\ commands \in 0 .. MaxCommands
    /\ stopping \in {"no", "begin", "coordinator", "preview", "worker", "gauge", "done"}
    /\ admitted \in Seq(Packets)

\* A recording that stop_recording() reports as finalized has, in the file of
\* every camera, exactly the packets that came between its start and its stop:
\* the recording "never drops a frame" (docs/output-stage.md), neither in the
\* queue nor in the encoder, and nothing of an earlier recording, of a failed
\* write or of a late packet gets into it.
FinalizedIsComplete ==
    [][\A t \in Callers :
          op[t] = "stop" /\ pc[t] = "await" /\ answer'[t] = "Applied" =>
              \A c \in Cameras :
                  files'[destination][c] = [state |-> "final", content |-> admitted]]_vars

\* A finished file is never written again, whatever destination a later
\* recording is given, and a partial one is only ever finished: the failed
\* recording it is the rest of "retains its .partial file".
FilesAreKept ==
    [][\A d \in Destinations, c \in Cameras :
          /\ files[d][c].state = "final" => files'[d][c] = files[d][c]
          /\ files[d][c].state = "partial" /\ Used = {} => files'[d][c] = files[d][c]]_vars

\* While the stage runs and no command or failure is in progress, the metric
\* (which the runtime reports as "recording") tells whether packets are
\* recorded.
GaugeTellsAdmission ==
    running /\ (\A t \in Callers : pc[t] \in {"idle", "lock"}) /\ worker \notin {"fail", "fail2"} =>
        gauge = accepting

\* Between commands the stage is in order, and tells whether it records.
RecordingIsTold == TypeOK /\ GaugeTellsAdmission

\* Every command is answered, even one that races stop(), meets a full queue or
\* comes while the preview does not stop, and stop() gets through its joins,
\* unless the preview keeps it, although the coordinator and the commands wait
\* for the worker with the submission mutex in hand.
EveryCallReturns ==
    /\ \A t \in Callers : (pc[t] # "idle") ~> (pc[t] = "idle")
    /\ (stopping \notin {"no", "preview"}) ~> (stopping \in {"preview", "done"})
=============================================================================
