-------------------------- MODULE FrameSynchronizer --------------------------
(***************************************************************************)
(* iris::FrameSynchronizerStage (stages/capture/FrameSynchronizerStage):   *)
(* one thread that polls a drop-oldest channel per camera, keeps the last  *)
(* frames of each camera in a bounded buffer and groups frames whose       *)
(* estimated capture times lie within sync_tolerance into a batch.         *)
(*                                                                         *)
(* A frame is its camera and its estimated capture time.  Between two      *)
(* resets CaptureClock::observe gives a camera strictly increasing times,  *)
(* so a time names one frame of a camera; the model is one such period.    *)
(***************************************************************************)
EXTENDS Integers, FiniteSets, SequencesExt

CONSTANT Setups     \* the configurations explored, each with its bound

Policies == {"DropBatch", "EmitPartial"}

\* The number of inputs, sync_queue_capacity (of the channels and the buffers),
\* sync_tolerance and incomplete_batch_policy; maxTime bounds the instants.
ASSUME SyncAssumption ==
    Setups \subseteq [cameras : Nat \ {0, 1}, capacity : Nat \ {0}, tolerance : Nat,
                     policy : Policies, maxTime : Nat]

VARIABLES
    setup,      \* the configuration, const after construction
    now,        \* steady_clock::now()
    lastSent,   \* capture time of the newest frame of each camera
    input,      \* queue_ of each camera's channel
    inClosed,   \* closed_ of each camera's channel
    outClosed,  \* the output channel is closed
    stopping,   \* stop was requested
    buffers,    \* buffers
    pc,         \* where the worker is in run()
    turn,       \* the camera whose channel is being drained
    flush,      \* all_closed
    emitted, dropped, partial,  \* the counters
    received,   \* received_ of each camera's channel
    refused,    \* history: frames in batches the closed output refused
    batches,    \* history: the batches sent to the output, in order
    discarded   \* history: frames match() gave up, <<camera, time>>

producers == <<now, lastSent, inClosed, outClosed, stopping>>
counters == <<emitted, dropped, partial>>
history == <<refused, batches, discarded>>
vars == <<setup, producers, input, buffers, pc, turn, flush, counters,
          received, history>>

Cameras == 1 .. setup.cameras
Instants == 0 .. setup.maxTime
Capacity == setup.capacity
Tolerance == setup.tolerance

Init ==
    /\ setup \in Setups
    /\ now = 0
    /\ lastSent = [c \in Cameras |-> -1]
    /\ input = [c \in Cameras |-> <<>>]
    /\ inClosed = [c \in Cameras |-> FALSE]
    /\ outClosed = FALSE
    /\ stopping = FALSE
    /\ buffers = [c \in Cameras |-> <<>>]
    /\ pc = "top"
    /\ turn = 1
    /\ flush = FALSE
    /\ emitted = 0 /\ dropped = 0 /\ partial = 0
    /\ received = [c \in Cameras |-> 0]
    /\ refused = 0
    /\ batches = <<>>
    /\ discarded = {}

-----------------------------------------------------------------------------
(* The cameras, the clock and the pipeline *)

Tick ==
    /\ now < setup.maxTime
    /\ now' = now + 1
    /\ UNCHANGED <<setup, lastSent, input, inClosed, outClosed, stopping,
                   buffers, pc, turn, flush, counters, received, history>>

\* The decode thread of camera c sends a frame captured at t.
CameraSends(c, t) ==
    /\ ~inClosed[c]
    /\ lastSent[c] < t /\ t <= now
    /\ lastSent' = [lastSent EXCEPT ![c] = t]
    /\ \/ /\ Len(input[c]) < Capacity
          /\ input' = [input EXCEPT ![c] = Append(@, t)]
       \/ /\ Len(input[c]) = Capacity
          /\ input' = [input EXCEPT ![c] = Append(Tail(@), t)]
    /\ UNCHANGED <<setup, now, inClosed, outClosed, stopping, buffers, pc,
                   turn, flush, counters, received, history>>

\* The decode thread of camera c ends and closes its channel.
CameraEnds(c) ==
    /\ ~inClosed[c]
    /\ inClosed' = [inClosed EXCEPT ![c] = TRUE]
    /\ UNCHANGED <<setup, now, lastSent, input, outClosed, stopping, buffers,
                   pc, turn, flush, counters, received, history>>

\* Pipeline::stop() closes the output before anything else.
OutputCloses ==
    /\ ~outClosed
    /\ outClosed' = TRUE
    /\ UNCHANGED <<setup, now, lastSent, input, inClosed, stopping, buffers,
                   pc, turn, flush, counters, received, history>>

\* Pipeline::stop() closes every input and then stops the synchronizer.
Stop ==
    /\ outClosed /\ ~stopping
    /\ \A c \in Cameras : inClosed[c]
    /\ stopping' = TRUE
    /\ UNCHANGED <<setup, now, lastSent, input, inClosed, outClosed, buffers,
                   pc, turn, flush, counters, received, history>>

-----------------------------------------------------------------------------
(* run(): one iteration of the loop *)

\* The loop ends when a stop was requested; the output is closed after it.
LoopTop ==
    /\ pc = "top"
    /\ \/ /\ stopping
          /\ pc' = "done"
          /\ outClosed' = TRUE
       \/ /\ ~stopping
          /\ pc' = "drain"
          /\ UNCHANGED outClosed
    /\ turn' = 1
    /\ UNCHANGED <<setup, now, lastSent, inClosed, stopping, input, buffers,
                   flush, counters, received, history>>

\* try_receive() gives a frame; the oldest frame of a full buffer makes room.
DrainFrame(c) ==
    /\ pc = "drain" /\ turn = c
    /\ input[c] # <<>>
    /\ LET full == Len(buffers[c]) = Capacity IN
       /\ buffers' = [buffers EXCEPT ![c] =
               Append(IF full THEN Tail(@) ELSE @, Head(input[c]))]
       /\ dropped' = IF full THEN dropped + 1 ELSE dropped
    /\ input' = [input EXCEPT ![c] = Tail(@)]
    /\ received' = [received EXCEPT ![c] = @ + 1]
    /\ UNCHANGED <<setup, producers, pc, turn, flush, emitted, partial, history>>

\* try_receive() gives nothing: on to the next camera, and then to match().
DrainNext(c) ==
    /\ pc = "drain" /\ turn = c
    /\ input[c] = <<>>
    /\ turn' = c + 1
    /\ pc' = IF c = setup.cameras THEN "match" ELSE "drain"
    /\ UNCHANGED <<setup, producers, input, buffers, flush, counters,
                   received, history>>

-----------------------------------------------------------------------------
(* match() *)

\* A candidate is a position in every buffer.
Candidates ==
    {k \in [Cameras -> 1 .. Capacity] : \A c \in Cameras : k[c] <= Len(buffers[c])}
Times(k) == {buffers[c][k[c]] : c \in Cameras}
Latest(k) == Max(Times(k))
Skew(k) == Max(Times(k)) - Min(Times(k))

\* The order search() visits candidates in.
Before(k, j) ==
    \E c \in Cameras : k[c] < j[c] /\ \A d \in 1 .. c - 1 : k[d] = j[d]

Better(k, j) ==
    \/ Skew(k) < Skew(j)
    \/ Skew(k) = Skew(j) /\ Latest(k) < Latest(j)
    \/ Skew(k) = Skew(j) /\ Latest(k) = Latest(j) /\ Before(k, j)

Matches == {k \in Candidates : Skew(k) <= Tolerance}
Best == CHOOSE k \in Matches : \A j \in Matches \ {k} : Better(k, j)

\* Mutant: the first camera that has a frame is taken for the oldest.
OldestFrontFirst ==
    CHOOSE c \in Cameras :
        buffers[c] # <<>> /\ \A d \in Cameras : buffers[d] # <<>> => c <= d

\* The camera whose front is the earliest of all, the first such camera.
OldestFront ==
    CHOOSE c \in Cameras :
        /\ buffers[c] # <<>>
        /\ \A d \in Cameras \ {c} : buffers[d] # <<>> =>
              \/ Head(buffers[c]) < Head(buffers[d])
              \/ Head(buffers[c]) = Head(buffers[d]) /\ c < d

\* send() of a batch; a closed output refuses it and the caller goes to pc "at".
SendBatch(batch, at) ==
    \/ /\ outClosed
       /\ pc' = at
       /\ refused' = refused + Cardinality(DOMAIN batch)
       /\ UNCHANGED <<batches, emitted>>
    \/ /\ ~outClosed
       /\ batches' = Append(batches, batch)
       /\ emitted' = emitted + 1
       /\ UNCHANGED <<pc, refused>>

\* Mutant: the frame of the first camera is copied and not moved.
EmitMatchKeepingFirst ==
    /\ Matches # {}
    /\ buffers' = [c \in Cameras |->
           IF c = 1 THEN buffers[c] ELSE RemoveAt(buffers[c], Best[c])]
    /\ SendBatch([c \in Cameras |-> buffers[c][Best[c]]], "check")
    /\ UNCHANGED <<dropped, discarded>>

\* The frames of the best match leave the buffers, even when the output is
\* closed and send() refuses them.
EmitMatch ==
    /\ Matches # {}
    /\ buffers' = [c \in Cameras |-> RemoveAt(buffers[c], Best[c])]
    /\ SendBatch([c \in Cameras |-> buffers[c][Best[c]]], "check")
    /\ UNCHANGED <<dropped, discarded>>

\* No match in the buffers: the oldest frame is given up.
DiscardOldest ==
    /\ Matches = {}
    /\ buffers' = [buffers EXCEPT ![OldestFront] = Tail(@)]
    /\ discarded' = discarded \cup {<<OldestFront, Head(buffers[OldestFront])>>}
    /\ dropped' = dropped + 1
    /\ UNCHANGED <<pc, emitted, refused, batches>>

Match ==
    /\ pc = "match"
    /\ \/ /\ \E c \in Cameras : buffers[c] = <<>>
          /\ pc' = "check"
          /\ UNCHANGED <<buffers, emitted, dropped, history>>
       \/ /\ \A c \in Cameras : buffers[c] # <<>>
          /\ EmitMatch \/ DiscardOldest
    /\ UNCHANGED <<setup, producers, input, turn, flush, partial, received>>

-----------------------------------------------------------------------------
(* emit_expired_partial(all_closed) *)

\* The frames one partial batch takes: the fronts near the earliest front.
PartialGroup ==
    LET first == Head(buffers[OldestFront]) IN
    {c \in Cameras : buffers[c] # <<>> /\ Head(buffers[c]) - first <= Tolerance}

\* Mutant: a frame expires only when the inputs have ended.
ExpiredAtEnd == flush

Expired == flush \/ now - Head(buffers[OldestFront]) > Tolerance

EmitPartial ==
    /\ Expired
    /\ buffers' = [c \in Cameras |->
           IF c \in PartialGroup THEN Tail(buffers[c]) ELSE buffers[c]]
    /\ partial' = IF PartialGroup = Cameras THEN partial ELSE partial + 1
    /\ SendBatch([c \in PartialGroup |-> Head(buffers[c])], "finish")

EmitExpired ==
    /\ pc = "partial"
    /\ \/ /\ \A c \in Cameras : buffers[c] = <<>>
          /\ pc' = "finish"
          /\ UNCHANGED <<buffers, partial, emitted, refused, batches>>
       \/ /\ \E c \in Cameras : buffers[c] # <<>>
          /\ \/ EmitPartial
             \/ /\ ~Expired
                /\ pc' = "finish"
                /\ UNCHANGED <<buffers, partial, emitted, refused, batches>>
    /\ UNCHANGED <<setup, producers, input, turn, flush, dropped, received,
                   discarded>>

-----------------------------------------------------------------------------
(* The end of an iteration *)

CheckInputs ==
    /\ pc = "check"
    /\ flush' = \A c \in Cameras : inClosed[c]
    /\ pc' = IF setup.policy = "EmitPartial" THEN "partial" ELSE "finish"
    /\ UNCHANGED <<setup, producers, input, buffers, turn, counters,
                   received, history>>

Buffered == SumFunction([c \in Cameras |-> Len(buffers[c])])

DropRest ==
    IF setup.policy = "DropBatch"
    THEN /\ dropped' = dropped + Buffered
         /\ buffers' = [c \in Cameras |-> <<>>]
    ELSE UNCHANGED <<buffers, dropped>>

Finish ==
    /\ pc = "finish"
    /\ \/ /\ flush
          /\ DropRest
          /\ pc' = "done"
          /\ outClosed' = TRUE
       \/ /\ ~flush
          /\ pc' = "top"
          /\ UNCHANGED <<buffers, dropped, outClosed>>
    /\ UNCHANGED <<setup, now, lastSent, inClosed, stopping, input, turn,
                   flush, emitted, partial, received, history>>

Work ==
    \/ LoopTop
    \/ \E c \in Cameras : DrainFrame(c) \/ DrainNext(c)
    \/ Match
    \/ CheckInputs
    \/ EmitExpired
    \/ Finish

Next ==
    \/ Tick
    \/ \E c \in Cameras : (\E t \in Instants : CameraSends(c, t)) \/ CameraEnds(c)
    \/ OutputCloses
    \/ Stop
    \/ Work

Spec == Init /\ [][Next]_vars

\* The worker and the clock go on; cameras owe nobody a frame.
FairSpec == Spec /\ WF_vars(Work) /\ WF_vars(Tick)

-----------------------------------------------------------------------------
(* Properties *)

\* Every variable has its type.
TypeOK ==
    /\ setup \in Setups
    /\ now \in Instants
    /\ lastSent \in [Cameras -> Instants \cup {-1}]
    /\ \A c \in Cameras :
          /\ input[c] \in Seq(Instants) /\ Len(input[c]) <= Capacity
          /\ buffers[c] \in Seq(Instants) /\ Len(buffers[c]) <= Capacity
    /\ inClosed \in [Cameras -> BOOLEAN]
    /\ {outClosed, stopping, flush} \subseteq BOOLEAN
    /\ pc \in {"top", "drain", "match", "check", "partial", "finish", "done"}
    /\ turn \in 1 .. setup.cameras + 1
    /\ {emitted, dropped, partial} \subseteq Nat
    /\ received \in [Cameras -> Nat]
    /\ \A i \in DOMAIN batches : \A c \in DOMAIN batches[i] : batches[i][c] \in Instants
    /\ refused \in Nat
    /\ discarded \subseteq Cameras \X Instants

\* The frames of a batch were captured within sync_tolerance of each other,
\* whichever of match() and emit_expired_partial() formed it, and a batch that
\* lacks a camera is sent only where the policy allows it.
WithinTolerance ==
    \A i \in DOMAIN batches :
       LET times == {batches[i][c] : c \in DOMAIN batches[i]} IN
       /\ Max(times) - Min(times) <= Tolerance
       /\ setup.policy = "DropBatch" => DOMAIN batches[i] = Cameras

\* Every frame taken from a channel is in a buffer, in one batch, refused with
\* its batch by the closed output, or counted by
\* iris_sync_frames_dropped_total: run() loses none in silence and sends none
\* twice, at the end and in an overflow as well.
FramesAddUp ==
    SumFunction(received) =
        Buffered + dropped + refused
        + SumFunction([i \in DOMAIN batches |-> Cardinality(DOMAIN batches[i])])

\* Every batch is one the policy allows, and every frame is in one batch, in a
\* buffer or in a counter.
BatchesAreSound == TypeOK /\ WithinTolerance /\ FramesAddUp

\* The comment in match(): a frame it gives up "cannot be part of a valid match
\* and is therefore safe to discard".  There is a camera none of whose frames,
\* buffered, queued or still to come, is near enough to it.
DiscardIsSafe ==
    \A f \in discarded : \E c \in Cameras :
       /\ lastSent[c] > f[2] + Tolerance
       /\ \A t \in Range(buffers[c]) \cup Range(input[c]) : t > f[2] + Tolerance

\* The synchronizer ends once every camera has ended, whatever is buffered.
EndsWithInputs == (\A c \in Cameras : inClosed[c]) ~> pc = "done"

\* With EmitPartial a frame does not wait for ever for a camera that sends
\* nothing: once it is older than the tolerance it leaves the buffers.
OldFramesLeave ==
    setup.policy = "EmitPartial" =>
       []<>(\A c \in Cameras : \A t \in Range(buffers[c]) :
               pc = "done" \/ t + Tolerance >= setup.maxTime)

\* Neither a frame nor the worker stays for ever.
NothingStays == EndsWithInputs /\ OldFramesLeave

=============================================================================
