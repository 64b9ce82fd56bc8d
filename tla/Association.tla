---------------------------- MODULE Association ----------------------------
(***************************************************************************)
(* The cross-view association of MultiviewCudaPostprocess.cu: every pair   *)
(* of detections in two cameras has an epipolar cost; the pairs are sorted *)
(* by cost and merged greedily into tracks, which are then ranked.  The    *)
(* rows are the recovery seeds of the tracker.                             *)
(*                                                                         *)
(* A view is its place in the order of camera ids, the order the pairs and *)
(* the ranking use.  The geometry of a cost is abstract: any value of      *)
(* Costs, or INF (an invalid detection, fewer than five shared joints).    *)
(***************************************************************************)
EXTENDS Integers, Sequences, FiniteSets, FiniteSetsExt, Functions

CONSTANTS ViewCount,       \* number of cameras
          CandidateCount,  \* detections per view
          Costs,           \* costs of a pair
          INF,             \* the cost of a pair that cannot match
          Gate,
          MaxPersons, MaxTracks

\* There is a track for every two of the ten detections of each camera: 50
\* for 10 cameras (association_max_tracks, association_max_views).
ASSUME AssociationAssumption ==
    /\ ViewCount \in Nat /\ CandidateCount \in [1 .. ViewCount -> 0 .. 10]
    /\ Costs \subseteq Nat /\ INF \in Nat /\ Gate \in 0 .. INF
    /\ MaxPersons \in Nat /\ MaxTracks \in Nat /\ 5 * ViewCount <= MaxTracks

Nodes == {n \in (1 .. ViewCount) \X (1 .. 10) : n[2] <= CandidateCount[n[1]]}
Unassigned  == 255
NoTrack == 0
Detection(view) == 1 .. CandidateCount[view]

\* The members of a set in a strict total order, the set of its pairs.
InOrder(S, order) ==
    [i \in 1 .. Cardinality(S) |->
        CHOOSE e \in S : Cardinality({f \in S : <<f, e>> \in order}) = i - 1]

Edges == {e \in Nodes \X Nodes : e[1][1] < e[2][1]}

\* The order of the edge indices: view pairs in camera order, then candidates.
EdgeKey(e) == <<e[1][1], e[2][1], e[1][2], e[2][2]>>
Before(a, b) ==
    \E i \in 1 .. 4 : a[i] < b[i] /\ \A j \in 1 .. i - 1 : a[j] = b[j]

VARIABLES pairCost,   \* pair_costs, by edge
          edges,      \* the sorted edges that are left
          tracks,     \* tracks: sequence of [view -> candidate or Unassigned]
          activeTracks,     \* which of them were not merged away
          nodeTrack,  \* node_track
          rows,       \* assignments
          apc         \* "merge", "ranked"

avars == <<pairCost, edges, tracks, activeTracks, nodeTrack, rows, apc>>

\* association_pair_cost_kernel is symmetric in its two detections.
Cost(a, b) == IF a[1] < b[1] THEN pairCost[<<a, b>>] ELSE pairCost[<<b, a>>]

\* The radix sort of the keys (cost, edge index).
SortKeys(cost) ==
    {p \in Edges \X Edges :
        \/ cost[p[1]] < cost[p[2]]
        \/ cost[p[1]] = cost[p[2]] /\ Before(EdgeKey(p[1]), EdgeKey(p[2]))}
Sorted(cost) == InOrder(Edges, SortKeys(cost))

AInit ==
    /\ pairCost \in [Edges -> Costs \cup {INF}]
    /\ edges = Sorted(pairCost)
    /\ tracks = << >>
    /\ activeTracks = {}
    /\ nodeTrack = [n \in Nodes |-> NoTrack]
    /\ rows = << >>
    /\ apc = "merge"

Members(track) == {<<view, track[view]>> : view \in {w \in 1 .. ViewCount : track[w] # Unassigned}}

\* association_node_compatible
NodeCompatible(track, n) ==
    /\ track[n[1]] = Unassigned
    /\ \A m \in Members(track) : Cost(m, n) < Gate

\* Mutant: only the edge that is merged is checked, not all the pairs.
TracksCompatibleViewsOnly(first, second) ==
    \A m \in Members(first) : second[m[1]] = Unassigned

\* association_tracks_compatible
TracksCompatible(first, second) ==
    \A m \in Members(first) :
        /\ second[m[1]] = Unassigned
        /\ \A n \in Members(second) : Cost(m, n) < Gate

EmptyTrack == [view \in 1 .. ViewCount |-> Unassigned]

\* Both detections are free: they start a track.
StartTrack(a, b) ==
    IF Len(tracks) >= MaxTracks THEN UNCHANGED <<tracks, activeTracks, nodeTrack>>
    ELSE /\ tracks' = Append(tracks, [EmptyTrack EXCEPT ![a[1]] = a[2], ![b[1]] = b[2]])
         /\ activeTracks' = activeTracks \cup {Len(tracks) + 1}
         /\ nodeTrack' = [nodeTrack EXCEPT ![a] = Len(tracks) + 1, ![b] = Len(tracks) + 1]

\* One of them is in a track: the other joins it if it agrees with all of it.
JoinTrack(t, n) ==
    IF NodeCompatible(tracks[t], n)
    THEN /\ tracks' = [tracks EXCEPT ![t][n[1]] = n[2]]
         /\ nodeTrack' = [nodeTrack EXCEPT ![n] = t]
         /\ UNCHANGED activeTracks
    ELSE UNCHANGED <<tracks, activeTracks, nodeTrack>>

\* Both are in tracks: the second track is moved into the first.
Unite(s, t) ==
    IF s # t /\ {s, t} \subseteq activeTracks /\ TracksCompatible(tracks[s], tracks[t])
    THEN /\ tracks' = [tracks EXCEPT
                ![s] = [view \in 1 .. ViewCount |->
                          IF tracks[t][view] # Unassigned THEN tracks[t][view] ELSE tracks[s][view]],
                ![t] = EmptyTrack]
         /\ activeTracks' = activeTracks \ {t}
         /\ nodeTrack' = [n \in Nodes |-> IF n \in Members(tracks[t]) THEN s ELSE nodeTrack[n]]
    ELSE UNCHANGED <<tracks, activeTracks, nodeTrack>>

EdgeUnderGate == edges # << >> /\ pairCost[Head(edges)] < Gate

\* One turn of the loop of association_merge_kernel.
Merge ==
    /\ apc = "merge"
    /\ EdgeUnderGate
    /\ LET a == Head(edges)[1]
           b == Head(edges)[2]
           s == nodeTrack[a]
           t == nodeTrack[b]
       IN CASE s = NoTrack /\ t = NoTrack -> StartTrack(a, b)
            [] s # NoTrack /\ t = NoTrack -> JoinTrack(s, b)
            [] s = NoTrack /\ t # NoTrack -> JoinTrack(t, a)
            [] OTHER -> Unite(s, t)
    /\ edges' = Tail(edges)
    /\ UNCHANGED <<pairCost, rows, apc>>

\* The ranking: more views first, then the smaller mean cost, then the
\* candidates in camera order.  Fractions are compared by cross products.
PairsOf(track) == {e \in Edges : {e[1], e[2]} \subseteq Members(track)}
TotalCost(track) == MapThenSumSet(LAMBDA e : pairCost[e], PairsOf(track))
Value(track, view) == IF track[view] = Unassigned THEN 10 ELSE track[view] - 1
Better(x, y) ==
    LET views(z) == Cardinality(Members(z))
        lhs == TotalCost(x) * Cardinality(PairsOf(y))
        rhs == TotalCost(y) * Cardinality(PairsOf(x))
    IN \/ views(x) > views(y)
       \/ /\ views(x) = views(y)
          /\ \/ lhs < rhs
             \/ /\ lhs = rhs
                /\ \E w \in 1 .. ViewCount :
                      /\ Value(x, w) < Value(y, w)
                      /\ \A earlier \in 1 .. w - 1 : Value(x, earlier) = Value(y, earlier)

\* No edge is left under the gate: rank the tracks and write the best rows.
Rank ==
    /\ apc = "merge"
    /\ ~EdgeUnderGate
    /\ LET chosen == {tracks[t] : t \in {k \in activeTracks : Cardinality(Members(tracks[k])) >= 2}}
           ranked == InOrder(chosen, {p \in chosen \X chosen : Better(p[1], p[2])})
       IN rows' = SubSeq(ranked, 1, IF Len(ranked) < MaxPersons THEN Len(ranked) ELSE MaxPersons)
    /\ apc' = "ranked"
    /\ UNCHANGED <<pairCost, edges, tracks, activeTracks, nodeTrack>>

ANext == Merge \/ Rank
ASpec == AInit /\ [][ANext]_avars

-----------------------------------------------------------------------------
ATypeOK ==
    /\ apc \in {"merge", "ranked"}
    /\ activeTracks \subseteq DOMAIN tracks
    /\ \A t \in DOMAIN tracks : \A w \in 1 .. ViewCount : tracks[t][w] \in Detection(w) \cup {Unassigned}

\* node_track and tracks are two views of the same partition: a detection
\* points at the one track that holds it, tracks that were merged away hold
\* nothing, and the table of tracks is never exhausted, so that no pair under
\* the gate is given up for want of a slot.
PartitionIsConsistent ==
    /\ \A n \in Nodes : \A t \in DOMAIN tracks :
          n \in Members(tracks[t]) <=> nodeTrack[n] = t
    /\ \A t \in DOMAIN tracks \ activeTracks : Members(tracks[t]) = {}
    /\ 2 * Len(tracks) <= Cardinality(Nodes)

\* Every two detections of a track agree, also those that met only because
\* two tracks were merged: a row is never a chain of pairs whose ends are
\* far apart.
RowsAreConsistent ==
    \A t \in activeTracks : \A m, n \in Members(tracks[t]) : m # n => Cost(m, n) < Gate

\* The detections that are in one row with a detection so far.
Group(n) == {n} \cup {m \in Nodes : nodeTrack[n] # NoTrack /\ nodeTrack[m] = nodeTrack[n]}

\* Nothing is left out that fits: two detections with an edge under the gate are
\* in one track in the end, or of what is together with them, themselves
\* included, some pair is of one camera or not under the gate.
NothingElseFits ==
    apc = "ranked" =>
        \A e \in Edges :
            pairCost[e] < Gate =>
                \/ e[2] \in Group(e[1])
                \/ \E m \in Group(e[1]), n \in Group(e[2]) : m[1] = n[1] \/ Cost(m, n) >= Gate

\* The rows that are written are the best of the tracks, in order.
BestRowsAreWritten ==
    apc = "ranked" =>
        /\ \A i, j \in DOMAIN rows : i < j => Better(rows[i], rows[j])
        /\ \A t \in activeTracks :
              \/ tracks[t] \in Range(rows)
              \/ /\ Len(rows) = MaxPersons
                 /\ \A i \in DOMAIN rows : Better(rows[i], tracks[t])

\* The rows of the association are a partition of the detections whose pairs all
\* agree, no detection is in two rows, two groups that fit are united, and the
\* best tracks are the ones written.
AssociationIsConsistent ==
    /\ ATypeOK /\ PartitionIsConsistent /\ RowsAreConsistent
    /\ NothingElseFits /\ BestRowsAreWritten
=============================================================================
