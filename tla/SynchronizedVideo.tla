------------------------- MODULE SynchronizedVideo -------------------------
(***************************************************************************)
(* SynchronizedVideoStage with its file readers (VideoFileReader.tla), its *)
(* frame pools (FramePool.cpp) and everything behind it that holds frames: *)
(* the channel, the tap with the rig calibration tool, the stages up to    *)
(* the output stage, and the latest packet of the snapshot source.         *)
(*                                                                         *)
(* A slot of a pool is leased as long as somebody refers to it (the lease  *)
(* is a shared_ptr whose deleter frees the slot).  What is in the memory   *)
(* of a slot is the identity of the frame written there last.              *)
(***************************************************************************)
EXTENDS VideoFileReader, FiniteSets

CONSTANTS Setups,           \* the configurations an instance explores: records of
                            \* files, pool (frame_pool_capacity), loop, rotated
          ChannelCapacity,  \* capacity of the output channel
          MaxBatches        \* bound: a looped run is stopped after so many batches

ASSUME ChannelAssumption == ChannelCapacity \in Nat \ {0} /\ MaxBatches \in Nat

\* The cameras are numbered; a packet of a file is of the video stream or not,
\* and may have a time stamp.
ASSUME CamerasAssumption ==
    /\ IsFiniteSet(Cameras) /\ Cameras # {}
    /\ Cameras = 1 .. Cardinality(Cameras)
ASSUME SetupsAssumption ==
    \A s \in Setups :
        /\ s.pool \in Nat \ {0} /\ s.rotated \subseteq Cameras /\ s.loop \in BOOLEAN
        /\ \A c \in Cameras : s.files[c].packets \in Seq(BOOLEAN \X (Nat \cup {Missing}))

VARIABLES setup,        \* the chosen configuration
          vpc, camera,  \* the worker: its place and the camera its loops are at
          raw, turned,  \* buffers and rotated_buffers: the leased slot, 0 if none
          batch,        \* the packet that is being built and sent
          batchIndex, previousTime,
          stopRequested, healthy,
          channel, closed,                   \* the output channel
          staged,                            \* the packet in the pose and output stages
          latest, observed, calibrating,     \* snapshot source, latest_ and packet of the tool
          memory,       \* what is written in each slot
          sent          \* history: the batches that were sent

workerVars == <<vpc, camera, raw, turned, batch, batchIndex, previousTime, healthy, memory>>
holderVars == <<staged, latest, observed, calibrating>>
vars == <<files, readerVars, setup, workerVars, stopRequested, channel, closed, holderVars, sent>>

None == [index |-> -1]
Kinds == {"raw", "turned"}
Kind(c) == IF c \in setup.rotated THEN "turned" ELSE "raw"
FirstCamera == CHOOSE c \in Cameras : \A d \in Cameras : c <= d
LastCamera  == CHOOSE c \in Cameras : \A d \in Cameras : c >= d

Init ==
    /\ setup \in Setups /\ files = setup.files
    /\ reader = [c \in Cameras |-> Opened(1)] /\ result = [c \in Cameras |-> Pending]
    /\ vpc = "acquire" /\ camera = FirstCamera
    /\ raw = [c \in Cameras |-> 0] /\ turned = [c \in Cameras |-> 0]
    /\ batch = None /\ batchIndex = 0 /\ previousTime = -1
    /\ stopRequested = FALSE /\ healthy = TRUE
    /\ channel = << >> /\ closed = FALSE
    /\ staged = None /\ latest = None /\ observed = None /\ calibrating = None
    /\ memory = [k \in Kinds |-> [c \in Cameras |-> [s \in 1 .. setup.pool |-> << >>]]]
    /\ sent = << >>

-----------------------------------------------------------------------------
(* The frame pools.                                                        *)

Packets == ({batch, staged, latest, observed, calibrating}
              \cup {channel[k] : k \in DOMAIN channel}) \ {None}

\* Mutant: the lease ends when the stages are done with the packet.
LeasedByStages(kind, c) ==
    {IF kind = "raw" THEN raw[c] ELSE turned[c]}
      \cup {p.slot[c] : p \in IF kind = Kind(c) THEN ({batch, staged} \cup {channel[k] : k \in DOMAIN channel}) \ {None} ELSE {}}

\* The slots of a pool that are in use.
Leased(kind, c) ==
    {IF kind = "raw" THEN raw[c] ELSE turned[c]}
      \cup {p.slot[c] : p \in IF kind = Kind(c) THEN Packets ELSE {}}

FreeSlots(kind, c) == (1 .. setup.pool) \ Leased(kind, c)
Acquired(kind, c) == CHOOSE s \in FreeSlots(kind, c) : \A t \in FreeSlots(kind, c) : s <= t

-----------------------------------------------------------------------------
(* The worker: SynchronizedVideoStage::Impl::run.                          *)

\* The end of run(): the buffers are gone, the output is closed.
End(ok) ==
    /\ vpc' = "done" /\ healthy' = ok
    /\ raw' = [c \in Cameras |-> 0] /\ turned' = [c \in Cameras |-> 0] /\ batch' = None
    /\ closed' = TRUE
    /\ UNCHANGED <<camera, batchIndex, previousTime, memory>>

\* The next turn of the loop: what the last one leased and did not send is
\* released.
NextTurn ==
    /\ vpc' = "acquire" /\ camera' = FirstCamera
    /\ raw' = [c \in Cameras |-> 0] /\ turned' = [c \in Cameras |-> 0] /\ batch' = None

NextCamera(place, nextPlace) ==
    IF camera = LastCamera THEN vpc' = nextPlace /\ camera' = FirstCamera
                           ELSE vpc' = place /\ camera' = camera + 1

SeeStop ==
    /\ vpc \in {"acquire", "acquireTurned", "built"} /\ stopRequested
    /\ End(healthy)
    /\ UNCHANGED <<files, readerVars, setup, stopRequested, channel, holderVars, sent>>

\* FramePool::acquire, tried every millisecond until there is a slot.
Acquire ==
    /\ vpc = "acquire" /\ ~stopRequested /\ FreeSlots("raw", camera) # {}
    /\ raw' = [raw EXCEPT ![camera] = Acquired("raw", camera)]
    /\ IF camera \in setup.rotated THEN vpc' = "acquireTurned" /\ UNCHANGED camera
                                   ELSE NextCamera("acquire", "read")
    /\ UNCHANGED <<files, readerVars, setup, turned, batch, batchIndex, previousTime, healthy, memory,
                   stopRequested, channel, closed, holderVars, sent>>

AcquireTurned ==
    /\ vpc = "acquireTurned" /\ ~stopRequested /\ FreeSlots("turned", camera) # {}
    /\ turned' = [turned EXCEPT ![camera] = Acquired("turned", camera)]
    /\ NextCamera("acquire", "read")
    /\ UNCHANGED <<files, readerVars, setup, raw, batch, batchIndex, previousTime, healthy, memory,
                   stopRequested, channel, closed, holderVars, sent>>

\* One turn of read_next() of the current camera.  A frame that is converted
\* on the GPU is written into the leased slot.
Decode ==
    /\ vpc = "read"
    /\ ReadNext(camera)
    /\ LET got == result'[camera]
       IN /\ memory' = IF got.is = "frame" /\ OnGpu(files[camera])
                         THEN [memory EXCEPT !["raw"][camera][raw[camera]] = got.frame] ELSE memory
          /\ IF got = Thrown THEN vpc' = "failed" /\ UNCHANGED camera
             ELSE IF got = Pending THEN UNCHANGED <<vpc, camera>>
             ELSE NextCamera("read", "decoded")
    /\ UNCHANGED <<files, setup, raw, turned, batch, batchIndex, previousTime, healthy,
                   stopRequested, channel, closed, holderVars, sent>>

Ended == {c \in Cameras : result[c] = Nothing}

\* An exception anywhere in the loop: out of read_next(), or while a batch is
\* built, by a frame of another size or without pixels, a copy or a rotation.
Fail ==
    /\ \/ vpc = "failed"
       \/ vpc = "decoded" /\ Ended = {}
    /\ End(FALSE)
    /\ UNCHANGED <<files, readerVars, setup, stopRequested, channel, holderVars, sent>>

\* All files end together: the end of the run, or of a pass of a looped one.
\* A file that cannot be opened again, or that has no frame, is an error.
AllEnded ==
    /\ vpc = "decoded" /\ Ended = Cameras
    /\ IF ~setup.loop
         THEN End(healthy) /\ UNCHANGED readerVars
         ELSE \/ End(FALSE) /\ UNCHANGED readerVars
              \/ /\ batchIndex # 0 /\ batchIndex < MaxBatches
                 /\ reader' = [c \in Cameras |-> Opened(reader[c].pass + 1)]
                 /\ result' = [c \in Cameras |-> Pending]
                 /\ NextTurn
                 /\ UNCHANGED <<batchIndex, previousTime, healthy, memory, closed>>
    /\ UNCHANGED <<files, setup, stopRequested, channel, holderVars, sent>>

\* Mutant: the run ends with the shortest file.
SomeEndedQuietly ==
    /\ vpc = "decoded" /\ Ended # {} /\ Ended # Cameras
    /\ End(healthy)
    /\ UNCHANGED <<files, readerVars, setup, stopRequested, channel, holderVars, sent>>

\* Only some files end: they have different frame counts.
SomeEnded ==
    /\ vpc = "decoded" /\ Ended # {} /\ Ended # Cameras
    /\ End(FALSE)
    /\ UNCHANGED <<files, readerVars, setup, stopRequested, channel, holderVars, sent>>

\* Mutant: the times of the file are used as they are.
SourceTimeOfFile == result[FirstCamera].time

\* The batch has the time of the first file, moved on if that does not grow.
SourceTime ==
    LET time == result[FirstCamera].time
    IN IF batchIndex # 0 /\ time <= previousTime THEN previousTime + Interval ELSE time

\* The frames that are still in host memory when the batch is built.
Uploaded(c) == ~OnGpu(files[c])

\* Every camera has a frame: they are uploaded where that is still to do,
\* rotated into the second buffer where the camera is mounted so, and put in
\* a batch.
Build ==
    /\ vpc = "decoded" /\ Ended = {}
    /\ LET inRaw(c) == IF Uploaded(c) THEN result[c].frame ELSE memory["raw"][c][raw[c]]
       IN memory' = [k \in Kinds |-> [c \in Cameras |->
                        IF k = "raw" THEN [memory[k][c] EXCEPT ![raw[c]] = inRaw(c)]
                        ELSE IF c \in setup.rotated THEN [memory[k][c] EXCEPT ![turned[c]] = inRaw(c)]
                        ELSE memory[k][c]]]
    /\ batch' = [index |-> batchIndex, time |-> SourceTime,
                 slot |-> [c \in Cameras |-> IF c \in setup.rotated THEN turned[c] ELSE raw[c]],
                 frame |-> [c \in Cameras |-> result[c].frame]]
    /\ previousTime' = SourceTime
    /\ vpc' = "built"
    /\ UNCHANGED <<files, readerVars, setup, camera, raw, turned, batchIndex, healthy,
                   stopRequested, channel, closed, holderVars, sent>>

\* The last look at the stop token before the batch is sent.
PassStopCheck ==
    /\ vpc = "built" /\ ~stopRequested
    /\ vpc' = "send"
    /\ UNCHANGED <<files, readerVars, setup, camera, raw, turned, batch, batchIndex, previousTime, healthy,
                   memory, stopRequested, channel, closed, holderVars, sent>>

\* The blocking send to the output.
Send ==
    /\ vpc = "send"
    /\ \/ /\ closed
          /\ End(healthy)
          /\ UNCHANGED <<channel, sent, result>>
       \/ /\ ~closed /\ Len(channel) < ChannelCapacity
          /\ channel' = Append(channel, batch)
          /\ sent' = Append(sent, [time |-> batch.time, frame |-> batch.frame])
          /\ batchIndex' = batchIndex + 1
          /\ result' = [c \in Cameras |-> Pending]
          /\ NextTurn
          /\ UNCHANGED <<previousTime, healthy, memory, closed>>
    /\ UNCHANGED <<files, reader, setup, stopRequested, holderVars>>

Worker == \/ SeeStop \/ Acquire \/ AcquireTurned \/ Decode \/ Fail
          \/ AllEnded \/ SomeEnded \/ Build \/ PassStopCheck \/ Send

-----------------------------------------------------------------------------
(* The others.                                                             *)

otherVars == <<files, readerVars, setup, workerVars, sent>>

\* stop_producing(), and the closing of the channel by Pipeline::Impl::stop.
StopProducing ==
    /\ ~stopRequested /\ stopRequested' = TRUE
    /\ UNCHANGED <<otherVars, channel, closed, holderVars>>
CloseOutput ==
    /\ stopRequested /\ ~closed /\ closed' = TRUE
    /\ UNCHANGED <<otherVars, channel, stopRequested, holderVars>>

\* The tap receives a packet and the calibration tool observes it.
Tap ==
    /\ channel # << >> /\ staged = None
    /\ channel' = Tail(channel) /\ staged' = Head(channel) /\ observed' = Head(channel)
    /\ UNCHANGED <<otherVars, stopRequested, closed, latest, calibrating>>

\* The output stage publishes the packet to the snapshot source.
Publish ==
    /\ staged # None
    /\ latest' = staged /\ staged' = None
    /\ UNCHANGED <<otherVars, channel, stopRequested, closed, observed, calibrating>>

\* A calibration moves the latest packet out of the tool and keeps it until it
\* ends.
Calibrate ==
    /\ observed # None /\ calibrating = None
    /\ calibrating' = observed /\ observed' = None
    /\ UNCHANGED <<otherVars, channel, stopRequested, closed, staged, latest>>

\* Mutant: the packet of a calibration is kept for the next one.
CalibrationKeepsPacket ==
    /\ calibrating # None /\ observed = None
    /\ observed' = calibrating /\ calibrating' = None
    /\ UNCHANGED <<otherVars, channel, stopRequested, closed, staged, latest>>

CalibrationEnds ==
    /\ calibrating # None
    /\ calibrating' = None
    /\ UNCHANGED <<otherVars, channel, stopRequested, closed, staged, latest, observed>>

Next == Worker \/ StopProducing \/ CloseOutput \/ Tap \/ Publish \/ Calibrate \/ CalibrationEnds

\* The worker and the stages run; a calibration ends.
Fairness == WF_vars(Worker) /\ WF_vars(Tap) /\ WF_vars(Publish) /\ WF_vars(CalibrationEnds)

Spec == Init /\ [][Next]_vars /\ Fairness

-----------------------------------------------------------------------------
Slots == 0 .. setup.pool
TypeOK ==
    /\ vpc \in {"acquire", "acquireTurned", "read", "decoded", "built", "send", "failed", "done"}
    /\ camera \in Cameras
    /\ raw \in [Cameras -> Slots] /\ turned \in [Cameras -> Slots]
    /\ stopRequested \in BOOLEAN /\ healthy \in BOOLEAN /\ closed \in BOOLEAN
    /\ Len(channel) <= ChannelCapacity
    /\ batchIndex = Len(sent)

\* A run that was left alone either sends every frame of every file, the ones
\* the decoder kept back included, in batches of frames with the same number,
\* or it reports an error; files of different lengths are never cut to the
\* shortest one.
EveryFrameOrAnError ==
    /\ \A k \in DOMAIN sent : \A c, d \in Cameras : sent[k].frame[c] = sent[k].frame[d]
    /\ vpc = "done" /\ healthy /\ ~stopRequested =>
         \A c \in Cameras : {sent[k].frame[c] : k \in DOMAIN sent}
                              = {<<1, n>> : n \in 1 .. Cardinality(VideoPackets(files[c]))}

\* Capture times grow strictly from batch to batch, whatever the time stamps
\* of the file are and over all passes of a looped one: the stages behind
\* order by them.
TimesIncrease ==
    \A k \in 1 .. Len(sent) - 1 : sent[k].time < sent[k + 1].time

\* Whoever holds a packet finds in its slots the frames of that packet,
\* decoded on the GPU or uploaded, rotated or not: a slot is not written again
\* while the channel, a stage, the snapshot source or a calibration has it.
HeldFramesAreIntact ==
    \A p \in Packets : \A c \in Cameras : memory[Kind(c)][c][p.slot[c]] = p.frame[c]

\* The stage and the pools are in order, and a frame that is held is intact.
FramesAreSound == TypeOK /\ HeldFramesAreIntact

\* The worker does not wait for a slot for ever, unless the pool has a single
\* one: then the packet that the snapshot source or the tool keeps is all of
\* it.
SlotsComeBack ==
    vpc \in {"acquire", "acquireTurned"} ~> \/ vpc \notin {"acquire", "acquireTurned"}
                                            \/ setup.pool = 1 /\ (latest # None \/ observed # None)
=============================================================================
