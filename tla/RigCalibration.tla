--------------------------- MODULE RigCalibration ---------------------------
(***************************************************************************)
(* The rig calibration: RigCalibrationTool (src/tools), which computes a   *)
(* calibration from one packet, the CalibrationStore it publishes to, and  *)
(* MultiviewPoseStage (src/stages/pose), which adopts what is published.   *)
(* The control thread of Runtime starts and cancels the tool, clears the   *)
(* store, and starts and stops the pipeline whose tap shows the tool its   *)
(* packets.                                                                *)
(*                                                                         *)
(* A calibration is the number of the packet it was computed from, 0 for   *)
(* the one of the pose configuration.  Matrices, the inference of DA3 and  *)
(* the point cloud are left out: a step of theirs succeeds or throws.      *)
(***************************************************************************)
EXTENDS Integers

CONSTANTS Rigs,        \* sets of cameras a pipeline may be configured with
          MaxPackets,  \* bound: packets that reach the tap
          MaxCommands  \* bound: commands of the control thread

VARIABLES
    store,          \* current_ of CalibrationStore
    latest, worker, \* latest_, and where the worker thread is
    stop,           \* a stop was requested of the worker
    packet, made,   \* what the worker works on, and its result
    file,           \* the calibration in the output file
    control,        \* where the control thread is
    pipeline,       \* stopped, running, failed
    pose,           \* MultiviewPoseStage
    inference,      \* what the last engine_->infer() was given
    cleared,        \* history: a clear since the pose stage adopted a calibration
    crashed,        \* the process is gone
    packets, calls  \* packets and commands so far

rigVars == <<store, latest, worker, stop, packet, made, file, control, pipeline, pose, inference,
             cleared, crashed, packets, calls>>

NoCalibration == [revision |-> 0, source |-> 0, rig |-> 0]
NoPacket == [number |-> 0, rig |-> 0]
NoInference == [config |-> 0, geometry |-> 0, engine |-> 0, store |-> NoCalibration, cleared |-> TRUE]
NoPose == [rig |-> 0, config |-> 0, revision |-> 0, geometryValid |-> FALSE, geometry |-> 0, engine |-> 0]

RInit ==
    /\ store = NoCalibration
    /\ latest = NoPacket /\ worker = "none" /\ stop = FALSE /\ packet = NoPacket /\ made = NoCalibration
    /\ file = 0
    /\ control = "idle" /\ pipeline = "stopped" /\ pose = NoPose /\ inference = NoInference
    /\ cleared = FALSE /\ crashed = FALSE /\ packets = 0 /\ calls = 0

-----------------------------------------------------------------------------
(* MultiviewPoseStage *)

\* Mutant: the projections of the last calibration are kept.
AdoptedGeometryKept(s) == [s EXCEPT !.config = store.source, !.revision = store.revision]

\* Takes the store's calibration over; the cached geometry is computed anew.
Adopted(s) ==
    [s EXCEPT !.config = store.source, !.revision = store.revision, !.geometryValid = FALSE]

\* refresh_calibration: nothing is done for an empty store or a known revision.
Stale(s) == store # NoCalibration /\ store.revision # s.revision
Fits(s) == store.rig = s.rig
Refreshed(s) == IF Stale(s) THEN Adopted(s) ELSE s

\* The engine is created from the configuration, and again when it changes.
EngineOf(s) == IF Stale(s) THEN store.source ELSE s.engine

WithGeometry(s) ==
    IF s.geometryValid THEN s ELSE [s EXCEPT !.geometryValid = TRUE, !.geometry = s.config]

Process ==
    /\ pipeline = "running"
    /\ IF Stale(pose) /\ ~Fits(pose)
       THEN pipeline' = "failed" /\ UNCHANGED <<pose, inference, cleared>>
       ELSE /\ pose' = WithGeometry([Refreshed(pose) EXCEPT !.engine = EngineOf(pose)])
            /\ cleared' = (cleared /\ ~Stale(pose))
            /\ inference' = [config |-> pose'.config, geometry |-> pose'.geometry,
                             engine |-> pose'.engine, store |-> store, cleared |-> cleared']
            /\ UNCHANGED pipeline
    /\ UNCHANGED <<store, latest, worker, stop, packet, made, file, control, crashed, packets, calls>>

-----------------------------------------------------------------------------
(* RigCalibrationTool *)

\* The tap of a running pipeline.
Observe ==
    /\ pipeline = "running" /\ packets < MaxPackets
    /\ packets' = packets + 1
    /\ latest' = [number |-> packets', rig |-> pose.rig]
    /\ UNCHANGED <<store, worker, stop, packet, made, file, control, pipeline, pose, inference,
                   cleared, crashed, calls>>

toolRest == <<stop, control, pipeline, pose, inference, cleared, packets, calls>>

\* An exception anywhere: the status is "failed".
Throws ==
    /\ worker \in {"preparing", "inference", "write", "rename"}
    /\ worker' = "ended"
    /\ UNCHANGED <<store, latest, packet, made, file, crashed, toolRest>>

TakePacket ==
    /\ worker = "waiting" /\ ~stop /\ latest # NoPacket
    /\ packet' = latest /\ latest' = NoPacket
    /\ worker' = "preparing"
    /\ UNCHANGED <<store, made, file, crashed, toolRest>>

\* Mutant: the wait takes no stop token.
CancelledByPacket ==
    /\ worker = "waiting" /\ stop /\ latest # NoPacket
    /\ worker' = "ended"
    /\ UNCHANGED <<store, latest, packet, made, file, crashed, toolRest>>

\* The stop token ends the wait, and only the wait.
Cancelled ==
    /\ worker = "waiting" /\ stop
    /\ worker' = "ended"
    /\ UNCHANGED <<store, latest, packet, made, file, crashed, toolRest>>

\* The frames are copied, then DA3 runs.
Advance ==
    /\ \/ worker = "preparing" /\ worker' = "inference"
       \/ worker = "inference" /\ worker' = "first"
    /\ UNCHANGED <<store, latest, packet, made, file, crashed, toolRest>>

Made(revision) == [revision |-> revision, source |-> packet.number, rig |-> packet.rig]

\* The revision is one more than the store's, which is read twice; a clear in
\* between makes the second read a null pointer.
ReadRevision ==
    \/ /\ worker = "first"
       /\ IF store = NoCalibration THEN worker' = "write" /\ made' = Made(1)
                          ELSE worker' = "second" /\ UNCHANGED made
       /\ UNCHANGED <<store, latest, packet, file, crashed, toolRest>>
    \/ /\ worker = "second"
       /\ IF store = NoCalibration THEN crashed' = TRUE /\ UNCHANGED <<worker, made>>
                          ELSE worker' = "write" /\ made' = Made(store.revision + 1) /\ UNCHANGED crashed
       /\ UNCHANGED <<store, latest, packet, file, toolRest>>

WriteFile ==
    /\ worker = "write" /\ worker' = "rename"
    /\ UNCHANGED <<store, latest, packet, made, file, crashed, toolRest>>

RenameFile ==
    /\ worker = "rename" /\ worker' = "publish"
    /\ file' = made.source
    /\ UNCHANGED <<store, latest, packet, made, crashed, toolRest>>

\* The new status, "complete", is set after the store.
Publish ==
    \/ /\ worker = "publish" /\ worker' = "complete"
       /\ store' = made
       /\ UNCHANGED <<latest, packet, made, file, crashed, toolRest>>
    \/ /\ worker = "complete" /\ worker' = "ended"
       /\ UNCHANGED <<store, latest, packet, made, file, crashed, toolRest>>

Run == TakePacket \/ Cancelled \/ Advance \/ ReadRevision \/ WriteFile \/ RenameFile \/ Publish \/ Throws

-----------------------------------------------------------------------------
(* The control thread *)

Call == control = "idle" /\ calls < MaxCommands /\ calls' = calls + 1

\* A worker that has ended is joined; another one refuses the start.
StartCalibration ==
    /\ Call /\ pipeline = "running" /\ worker \in {"none", "ended"}
    /\ worker' = "waiting" /\ stop' = FALSE /\ packet' = NoPacket /\ made' = NoCalibration
    /\ UNCHANGED <<store, latest, file, control, pipeline, pose, inference, cleared, crashed, packets>>

\* cancel(): the stop is requested, then the worker is joined.
RequestCancel(next) ==
    /\ control' = next
    /\ stop' = (stop \/ worker # "none")
    /\ UNCHANGED <<store, latest, worker, packet, made, file, pose, inference, cleared, crashed, packets>>

CancelCalibration == Call /\ RequestCancel("cancel") /\ UNCHANGED pipeline

\* stop_pipeline() cancels the calibration first.
StopPipeline == Call /\ pipeline # "stopped" /\ RequestCancel("stop") /\ UNCHANGED pipeline

Joined ==
    /\ control \in {"cancel", "stop"} /\ worker \in {"none", "ended"}
    /\ worker' = "none" /\ stop' = FALSE
    /\ control' = "idle"
    /\ pipeline' = IF control = "stop" THEN "stopped" ELSE pipeline
    /\ UNCHANGED <<store, latest, packet, made, file, pose, inference, cleared, crashed, packets, calls>>

ClearCalibration ==
    /\ Call /\ store' = NoCalibration /\ cleared' = TRUE
    /\ UNCHANGED <<latest, worker, stop, packet, made, file, control, pipeline, pose, inference,
                   crashed, packets>>

\* A new pose stage for the cameras; its start() needs a calibration that fits.
StartPipeline ==
    /\ Call /\ pipeline = "stopped"
    /\ \E rig \in Rigs, calibrated \in BOOLEAN :
          LET fresh == [NoPose EXCEPT !.rig = rig]
          IN  IF (Stale(fresh) /\ ~Fits(fresh)) \/ (~Stale(fresh) /\ ~calibrated)
              THEN pipeline' = "failed" /\ pose' = fresh /\ UNCHANGED cleared
              ELSE /\ pipeline' = "running" /\ cleared' = FALSE
                   /\ pose' = [Refreshed(fresh) EXCEPT !.engine = EngineOf(fresh)]
    /\ UNCHANGED <<store, latest, worker, stop, packet, made, file, control, inference, crashed, packets>>

Command == StartCalibration \/ CancelCalibration \/ StopPipeline \/ ClearCalibration \/ StartPipeline

RNext == ~crashed /\ (Process \/ Observe \/ Run \/ Command \/ Joined)

\* The worker and the control thread go on; DA3 always comes to an end.
RFairness == WF_rigVars(~crashed /\ Run) /\ WF_rigVars(~crashed /\ Joined)

RSpec == RInit /\ [][RNext]_rigVars /\ RFairness

-----------------------------------------------------------------------------
(* Properties *)

RTypeOK ==
    LET rigs == Rigs \cup {0}
        calibrations == [revision : Nat, source : Nat, rig : rigs]
        ofPackets == [number : Nat, rig : rigs]
    IN  /\ store \in calibrations /\ made \in calibrations
        /\ latest \in ofPackets /\ packet \in ofPackets
        /\ worker \in {"none", "waiting", "preparing", "inference", "first", "second", "write",
                       "rename", "publish", "complete", "ended"}
        /\ stop \in BOOLEAN /\ cleared \in BOOLEAN /\ crashed \in BOOLEAN
        /\ file \in Nat /\ packets \in Nat /\ calls \in Nat
        /\ control \in {"idle", "cancel", "stop"} /\ pipeline \in {"stopped", "running", "failed"}
        /\ pose \in [rig : rigs, config : Nat, revision : Nat, geometryValid : BOOLEAN,
                      geometry : Nat, engine : Nat]
        /\ inference \in [config : Nat, geometry : Nat, engine : Nat, store : calibrations,
                           cleared : BOOLEAN]

\* The pose engine is never given parts of two calibrations: configuration,
\* projections and the engine's own copy are of one source, the one that was in
\* the store when the packet came.  (A clear makes the revisions start again,
\* so what is published after it is known only if its revision differs.)
InferenceIsOfOneCalibration ==
    LET i == inference
    IN  /\ i.config = i.geometry /\ i.geometry = i.engine
        /\ i.store # NoCalibration /\ ~i.cleared => i.config = i.store.source

\* What is published is in the output file, so that a crash loses no calibration
\* that was in use; the file is ahead of the store only while the worker is about
\* to publish it.
PublishedIsOnDisk == store # NoCalibration /\ worker # "publish" => file = store.source

\* The pose engine is given one calibration, the published one, and that is in
\* the output file.
CalibrationIsCurrent == RTypeOK /\ InferenceIsOfOneCalibration /\ PublishedIsOnDisk

\* A cancelled or stopped calibration gives the control thread back.
CancelReturns == (control # "idle") ~> (control = "idle" \/ crashed)
=============================================================================
