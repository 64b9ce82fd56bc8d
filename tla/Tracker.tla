------------------------------ MODULE Tracker ------------------------------
(***************************************************************************)
(* The persistent 3-D tracks of the multiview pose stage: the temporal     *)
(* kernels of MultiviewCudaPostprocess.cu, launched once per packet by     *)
(* TensorRtMultiviewEngine::infer on one CUDA stream, and what             *)
(* MultiviewPoseStage publishes of them.                                   *)
(*                                                                         *)
(* Kernels of one stream run one after the other, so an action is a kernel *)
(* or a loop of temporal_lifecycle_kernel.  Geometry is abstract: every    *)
(* one-to-one assignment of tracks to detections, every matching of seeds  *)
(* with dormant tracks and every outcome of a triangulation with at least  *)
(* two observations can come out of some images (Hungarian.tla and         *)
(* Association.tla model how they are computed).  One joint stands for all *)
(* seventeen.                                                              *)
(***************************************************************************)
EXTENDS Integers, FiniteSets

CONSTANTS Slots,            \* max_persons, the slots are 1 .. Slots
          Views,            \* set of cameras
          Candidates,       \* detections of a view: [Views -> SUBSET Nat]
          DormantAfter,     \* temporal_dormant_after_missed
          Lifetime,         \* temporal_dormant_lifetime_frames
          Interval,         \* cross_view_recovery_interval_frames
          MaxId             \* bound: no frame starts when next_id is past it

ASSUME TrackerAssumption ==
    /\ Slots \in Nat \ {0} /\ DormantAfter \in Nat \ {0} /\ Lifetime \in Nat
    /\ Interval \in Nat \ {0} /\ MaxId \in Nat
    /\ IsFiniteSet(Views) /\ \A view \in Views : Candidates[view] \subseteq Nat \ {255}

Tracks == 1 .. Slots
None == 255
Detections == UNION {{view} \X Candidates[view] : view \in Views}

VARIABLES fpc,        \* the kernel that runs next
          frame,      \* frame_index modulo Interval
          active, dormant, missed, age, id, nextId,
          row,        \* assignments
          used,       \* the detections that tracks hold (used in the lifecycle kernel)
          seeds,      \* the rows of the association
          todo,       \* seeds that still want a new track
          joint,      \* joint_valid and joint_missed: "invalid", "measured", "predicted"
          anchored,   \* tracks with anchor_valid
          owner,      \* history: the identity this engine measured the joint and anchor of a slot for
          since       \* history: frames since then, up to 2

lifeVars  == <<active, dormant, missed, age, id, nextId>>
jointVars == <<joint, anchored, owner, since>>
frameVars == <<row, used, seeds, todo>>
trackerVars == <<fpc, frame, lifeVars, frameVars, jointVars>>

NoRow == [view \in Views |-> None]
Rows  == {r \in [Views -> (UNION {Candidates[view] : view \in Views}) \cup {None}] :
             \A view \in Views : r[view] \in Candidates[view] \cup {None}}
HeldBy(r) == {<<view, r[view]>> : view \in {w \in Views : r[w] # None}}
Support(t) == Cardinality(HeldBy(row[t]))

\* create_multiview_temporal_workspace
FreshWorkspace ==
    /\ active = {} /\ dormant = {}
    /\ missed = [t \in Tracks |-> 0] /\ age = [t \in Tracks |-> 0]
    /\ id = [t \in Tracks |-> 0] /\ nextId = 1
    /\ joint = [t \in Tracks |-> "invalid"] /\ anchored = {}

TInit ==
    /\ fpc = "match" /\ frame = 0
    /\ FreshWorkspace
    /\ row = [t \in Tracks |-> NoRow] /\ used = {}
    /\ seeds = [t \in Tracks |-> NoRow] /\ todo = {}
    /\ owner = [t \in Tracks |-> 0] /\ since = [t \in Tracks |-> 2]

\* refresh_calibration: a new revision replaces the engine, and with it the
\* workspace.  It runs before a packet is inferred.
Recalibrate ==
    /\ fpc = "match"
    /\ frame' = 0
    /\ active' = {} /\ dormant' = {}
    /\ missed' = [t \in Tracks |-> 0] /\ age' = [t \in Tracks |-> 0]
    /\ id' = [t \in Tracks |-> 0] /\ nextId' = 1
    /\ joint' = [t \in Tracks |-> "invalid"] /\ anchored' = {}
    /\ owner' = [t \in Tracks |-> 0] /\ since' = [t \in Tracks |-> 2]
    /\ UNCHANGED <<fpc, frameVars>>

\* temporal_cost_kernel: only an active track has a finite cost, and that with
\* the detections its valid joints are seen near.  The joint of the model is
\* one of seventeen, so it does not decide which detections these are.
RowsOf(t) == IF t \in active THEN Rows ELSE {NoRow}

\* temporal_assignment_kernel: per view, tracks and detections are matched one
\* to one.
Match ==
    /\ fpc = "match" /\ nextId <= MaxId
    /\ row' \in [Tracks -> Rows]
    /\ \A t \in Tracks : row'[t] \in RowsOf(t)
    /\ \A s, t \in Tracks : s # t => HeldBy(row'[s]) \cap HeldBy(row'[t]) = {}
    /\ used' = UNION {HeldBy(row'[t]) : t \in Tracks}
    /\ fpc' = "retire"
    /\ UNCHANGED <<frame, lifeVars, seeds, todo, jointVars>>

\* The first loop of temporal_lifecycle_kernel: a track without two views for
\* DormantAfter frames becomes dormant, a dormant one past its lifetime is
\* freed.
Retire ==
    LET unseen  == {t \in active : Support(t) < 2}
        retired == {t \in unseen : missed[t] + 1 >= DormantAfter}
        expired == {t \in dormant : age[t] + 1 > Lifetime}
    IN /\ fpc = "retire"
       /\ active' = active \ retired
       /\ dormant' = (dormant \ expired) \cup retired
       /\ missed' = [t \in Tracks |-> IF t \in unseen \ retired THEN missed[t] + 1
                                      ELSE IF t \in active THEN 0 ELSE missed[t]]
       /\ age' = [t \in Tracks |-> IF t \in retired \cup expired THEN 0
                                   ELSE IF t \in dormant THEN age[t] + 1 ELSE age[t]]
       /\ id' = [t \in Tracks |-> IF t \in expired THEN 0 ELSE id[t]]
       /\ joint' = [t \in Tracks |-> IF t \in retired THEN "invalid" ELSE joint[t]]
       /\ anchored' = anchored \ expired
       /\ fpc' = "recover"
       /\ UNCHANGED <<frame, nextId, frameVars, owner, since>>

\* Mutant: the association may put one detection in two rows.
SeedRowsOverlapping == {s \in [Tracks -> Rows] : \A k \in Tracks : Cardinality(HeldBy(s[k])) # 1}

\* What the association writes (Association.tla): rows of at least two
\* detections, no detection in two rows; an unused row is empty.
SeedRows ==
    {s \in [Tracks -> Rows] :
        /\ \A k \in Tracks : Cardinality(HeldBy(s[k])) # 1
        /\ \A k, l \in Tracks : k # l => HeldBy(s[k]) \cap HeldBy(s[l]) = {}}

\* The association runs on every Interval-th frame; on the frames between, its
\* rows are cleared.
SeedFrame == frame = 0

\* temporal_reidentification_cost: an identity without anchors cannot be
\* recognized.
Recognizable == dormant \cap anchored

\* Mutant: a new track takes detections that other tracks hold.
FreeOrNot(s) == HeldBy(s)

\* The detections of a seed that no track holds.
Free(s) == HeldBy(s) \ used

\* A track takes the free detections of a seed into its row.
Taken(r, s) == [view \in Views |-> IF <<view, s[view]>> \in Free(s) THEN s[view] ELSE r[view]]

\* Seeds with two free detections are matched one to one with the dormant
\* identities, by the reprojection of their anchors; the matched ones are
\* active again under their old id.
Recover ==
    /\ fpc = "recover"
    /\ seeds' \in IF SeedFrame THEN SeedRows ELSE {[t \in Tracks |-> NoRow]}
    /\ LET open == {k \in Tracks : Cardinality(Free(seeds'[k])) >= 2}
       IN \E back \in SUBSET Recognizable : \E by \in [back -> open] :
            /\ \A s, t \in back : s # t => by[s] # by[t]
            /\ active' = active \cup back
            /\ dormant' = dormant \ back
            /\ missed' = [t \in Tracks |-> IF t \in back THEN 0 ELSE missed[t]]
            /\ age' = [t \in Tracks |-> IF t \in back THEN 0 ELSE age[t]]
            /\ joint' = [t \in Tracks |-> IF t \in back THEN "invalid" ELSE joint[t]]
            /\ row' = [t \in Tracks |-> IF t \in back THEN Taken(row[t], seeds'[by[t]]) ELSE row[t]]
            /\ used' = used \cup UNION {Free(seeds'[by[t]]) : t \in back}
            /\ todo' = open \ {by[t] : t \in back}
    /\ fpc' = "fresh"
    /\ UNCHANGED <<frame, id, nextId, anchored, owner, since>>

Least(S) == CHOOSE t \in S : \A s \in S : t <= s

\* The slot for a new track: the first free one, else that of the identity
\* that has been dormant longest, else none.
SlotFor ==
    LET vacant == Tracks \ (active \cup dormant)
        oldest == {t \in dormant : \A s \in dormant : age[s] <= age[t]}
    IN IF vacant # {} THEN {Least(vacant)}
       ELSE IF dormant # {} THEN {Least(oldest)} ELSE {}

\* Mutant: the counter of identities stays.
NewIdentityUncounted(slot) ==
    /\ id' = [id EXCEPT ![slot] = nextId]
    /\ UNCHANGED nextId
NewIdentity(slot) ==
    /\ id' = [id EXCEPT ![slot] = nextId]
    /\ nextId' = nextId + 1

\* Mutant: a slot that is taken over keeps the joint and the anchors.
ForgetNothing(slot) == UNCHANGED <<joint, anchored>>

\* What a slot remembers of its last identity is cleared.
Forget(slot) ==
    /\ joint' = [joint EXCEPT ![slot] = "invalid"]
    /\ anchored' = anchored \ {slot}

\* One turn of the loop over the unmatched seeds.  The row of the slot is not
\* cleared: a track that became dormant in this frame may still hold a
\* detection, and the new identity inherits it.
Fresh ==
    /\ fpc = "fresh" /\ todo # {}
    /\ LET seed == Least(todo)
       IN /\ todo' = todo \ {seed}
          /\ IF SlotFor = {} THEN UNCHANGED <<lifeVars, row, used, joint, anchored>>
             ELSE \E slot \in SlotFor :
                    /\ active' = active \cup {slot}
                    /\ dormant' = dormant \ {slot}
                    /\ missed' = [missed EXCEPT ![slot] = 0]
                    /\ age' = [age EXCEPT ![slot] = 0]
                    /\ NewIdentity(slot)
                    /\ Forget(slot)
                    /\ row' = [row EXCEPT ![slot] = Taken(row[slot], seeds[seed])]
                    /\ used' = used \cup HeldBy(seeds[seed])
    /\ UNCHANGED <<fpc, frame, seeds, owner, since>>

\* The loop that would name active tracks without an id, in slot order.
Name ==
    /\ fpc = "fresh" /\ todo = {}
    /\ LET nameless == {t \in active : id[t] = 0 /\ row[t] # NoRow}
       IN /\ id' = [t \in Tracks |-> IF t \in nameless
                        THEN nextId + Cardinality({s \in nameless : s < t}) ELSE id[t]]
          /\ nextId' = nextId + Cardinality(nameless)
    /\ seeds' = [t \in Tracks |-> NoRow]
    /\ fpc' = "update"
    /\ UNCHANGED <<frame, active, dormant, missed, age, row, used, todo, jointVars>>

\* temporal_update_kernel: a joint that at least two cameras observe may be
\* triangulated; otherwise it is predicted once and then invalid.  Then the
\* result is copied and published.  The rows are forgotten here: the next
\* frame overwrites all of them before it reads one.
Update ==
    /\ fpc = "update"
    /\ \E solved \in SUBSET {t \in Tracks : Support(t) >= 2} :
         /\ joint' = [t \in Tracks |->
                        IF t \notin active THEN "invalid"
                        ELSE IF t \in solved THEN "measured"
                        ELSE IF joint[t] = "measured" THEN "predicted" ELSE "invalid"]
         /\ anchored' = anchored \cup solved
         /\ owner' = [t \in Tracks |-> IF t \in solved THEN id[t] ELSE owner[t]]
         /\ since' = [t \in Tracks |-> IF t \in solved THEN 0 ELSE IF since[t] < 2 THEN since[t] + 1 ELSE 2]
    /\ row' = [t \in Tracks |-> NoRow] /\ used' = {}
    /\ frame' = (frame + 1) % Interval
    /\ fpc' = "match"
    /\ UNCHANGED <<lifeVars, seeds, todo>>

\* copy_multiview_temporal_result hides the id of every slot that is not active.
TrackIds == [t \in Tracks |-> IF t \in active THEN id[t] ELSE 0]

\* MultiviewPoseStage::process publishes the slots that have an id ...
Published == {t \in Tracks : TrackIds[t] # 0}

\* ... with the joints that are valid, some of them marked as predicted.
Pose(t) == [track_id |-> TrackIds[t], valid |-> joint[t] # "invalid", predicted |-> joint[t] = "predicted"]

\* One packet through the engine: its kernels in the order of the stream.
Infer == Match \/ Retire \/ Recover \/ Fresh \/ Name \/ Update

TNext == Recalibrate \/ Infer
TSpec == TInit /\ [][TNext]_trackerVars

-----------------------------------------------------------------------------
TTypeOK ==
    /\ fpc \in {"match", "retire", "recover", "fresh", "update"}
    /\ frame \in 0 .. Interval - 1
    /\ active \subseteq Tracks /\ dormant \subseteq Tracks /\ anchored \subseteq Tracks
    /\ missed \in [Tracks -> Nat] /\ age \in [Tracks -> 0 .. Lifetime]
    /\ id \in [Tracks -> Nat] /\ nextId \in Nat \ {0}
    /\ row \in [Tracks -> Rows] /\ used \subseteq Detections
    /\ seeds \in [Tracks -> Rows] /\ todo \subseteq Tracks
    /\ joint \in [Tracks -> {"invalid", "measured", "predicted"}]
    /\ owner \in [Tracks -> Nat] /\ since \in [Tracks -> 0 .. 2]

\* Every slot is free, active or dormant; a slot has an identity exactly when
\* it is not free, no two slots share one, and none is newer than the counter.
DistinctIdentities ==
    /\ active \cap dormant = {}
    /\ \A t \in Tracks : id[t] # 0 <=> t \in active \cup dormant
    /\ \A t \in Tracks : id[t] < nextId
    /\ \A s, t \in Tracks : s # t /\ id[s] # 0 => id[s] # id[t]

\* The state is well formed, and its identities are distinct.
TracksAreSound == TTypeOK /\ DistinctIdentities

\* A detection supports at most one person: no two tracks ever hold it,
\* although the rows are written by the temporal assignment, by the recovery
\* of dormant tracks and by the new tracks.
OneTrackPerDetection ==
    \A s, t \in Tracks : s # t => HeldBy(row[s]) \cap HeldBy(row[t]) = {}

\* What is published of a person was measured on this person: a valid joint was
\* triangulated for the identity it is published under, in this frame or, when
\* it is marked as predicted, in the one before; nothing is left over from an
\* earlier identity of the slot, neither a joint nor an anchor.
JointsBelongToIdentity ==
    fpc = "match" =>
        /\ \A t \in Published : Pose(t).valid =>
              /\ owner[t] = Pose(t).track_id
              /\ since[t] = IF Pose(t).predicted THEN 1 ELSE 0
        /\ \A t \in Tracks \ Published : joint[t] = "invalid"
        /\ \A t \in anchored : owner[t] = id[t]

\* An identity that is gone does not come back: within the life of an engine
\* a slot only ever gets an identity that was never given before.  And a track
\* that becomes active, new or returning, is seen by two cameras.
IdentitiesAreFresh ==
    [][nextId' >= nextId =>
        /\ \A t \in Tracks : id'[t] \in {0, id[t]} \/ id'[t] >= nextId
        /\ \A t \in active' \ active : Cardinality(HeldBy(row'[t])) >= 2]_trackerVars
=============================================================================
