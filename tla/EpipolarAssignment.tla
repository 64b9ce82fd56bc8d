------------------------- MODULE EpipolarAssignment -------------------------
(***************************************************************************)
(* The three-camera matcher assignment_kernel of                           *)
(* MultiviewCudaPostprocess.cu, which the CUDA test calls through          *)
(* launch_multiview_epipolar_assignment: detections of camera 0 anchor the *)
(* rows, cameras 1 and 2 are matched to them by a dynamic program over     *)
(* sets of candidates, what is left of camera 1 is matched with camera 2,  *)
(* and what is left of camera 2 gets rows of its own.                      *)
(*                                                                         *)
(* A step is the code between two barriers; lanes that run in parallel     *)
(* write different masks or different costs.  A score is 0 where the       *)
(* candidate is invalid or below the minimum, a distance that is not       *)
(* finite is one above the gate.                                           *)
(***************************************************************************)
EXTENDS Integers, Sequences, FiniteSets, FiniteSetsExt, Functions

CONSTANTS Count,         \* candidates per view, 10 in the code
          RowLimit,      \* rows of the result, 10 in the code
          Scenes,        \* the detections and their distances, see EpipolarAssumption
          EpipolarGate,
          InvalidCost    \* 1e20F

Unmatched == 255
Cands == 1 .. Count

\* A candidate is an unsigned char and 255 is none.  A scene has the scores of the
\* three views and the distances of pair 1, cameras (0,1), 2, (0,2), and 3, (1,2).
ASSUME EpipolarAssumption ==
    /\ Count \in Nat /\ Count < Unmatched /\ RowLimit \in Nat
    /\ EpipolarGate \in Nat /\ InvalidCost \in Nat /\ EpipolarGate < InvalidCost
    /\ Scenes \subseteq [score : [0 .. 2 -> [Cands -> Nat]],
                         distance : [1 .. 3 -> [Cands -> [Cands -> Nat]]]]

VARIABLES scene,
          assignments,  \* the rows: sequence of [0..2 -> candidate or Unmatched]
          anchors,      \* anchor_count
          epc           \* "anchors", "view 1", "view 2", "pairs", "pair view 2", "rest", "done"

evars == <<scene, assignments, anchors, epc>>

\* The epipolar distance of two confident detections of a pair of cameras,
\* invalid when one of them is not confident or the distance is over the gate.
PairCost(pair, a, b) ==
    LET first  == IF pair = 3 THEN 1 ELSE 0
        second == IF pair = 1 THEN 1 ELSE 2
    IN IF /\ scene.score[first][a] > 0 /\ scene.score[second][b] > 0
          /\ scene.distance[pair][a][b] <= EpipolarGate
       THEN scene.distance[pair][a][b] ELSE InvalidCost

Row(view, c) == [w \in 0 .. 2 |-> IF w = view THEN c ELSE Unmatched]
Used(view) == {assignments[k][view] : k \in DOMAIN assignments} \ {Unmatched}

\* The confident detections of a view.
Seen(view) == {c \in Cands : scene.score[view][c] > 0}

\* Detections of a view by falling score, the lower index first on a tie.
ByScore(view, S) ==
    LET score == scene.score[view]
        first(c) == {d \in S : score[d] > score[c] \/ (score[d] = score[c] /\ d < c)}
    IN [i \in 1 .. Cardinality(S) |-> CHOOSE c \in S : Cardinality(first(c)) = i - 1]

\* Rows for the detections of a view that no row has yet, while there is room.
RowsFor(view) ==
    LET left == ByScore(view, Seen(view) \ Used(view))
        room == RowLimit - Len(assignments)
    IN [i \in 1 .. (IF Len(left) < room THEN Len(left) ELSE room) |-> Row(view, left[i])]

-----------------------------------------------------------------------------
(* solve_assignment_parallel.  current[mask] is the least cost of giving     *)
(* exactly the candidates of mask to the rows so far; a row that takes a     *)
(* candidate gains gate - cost.                                              *)

Masks == SUBSET Cands

Allowed(costs, current, mask) ==
    {c \in mask : costs[c] < InvalidCost /\ current[mask \ {c}] < InvalidCost}
CostWith(costs, current, mask, c) == current[mask \ {c}] + costs[c] - EpipolarGate

\* What the row takes of a mask: the candidate that costs least, the highest on a tie.
Choice(costs, current, mask) ==
    LET cost(c) == CostWith(costs, current, mask, c)
        better == {c \in Allowed(costs, current, mask) : cost(c) < current[mask]}
    IN IF better = {} THEN Unmatched
       ELSE CHOOSE c \in better : \A d \in better : cost(c) < cost(d) \/ (cost(c) = cost(d) /\ c >= d)

\* One more row.
Turn(costs, current) ==
    [mask \in Masks |->
        LET c == Choice(costs, current, mask)
        IN IF c = Unmatched THEN current[mask] ELSE CostWith(costs, current, mask, c)]

Table(n, cost) ==
    LET best[k \in 0 .. n] ==
            IF k = 0 THEN [mask \in Masks |-> IF mask = {} THEN 0 ELSE InvalidCost]
            ELSE Turn(cost[k], best[k - 1])
    IN best

\* Of the best masks the one with the lowest number.
Number(mask) ==
    LET bit[c \in 0 .. Count] == IF c = 0 THEN 1 ELSE 2 * bit[c - 1]
    IN SumFunctionOnSet(bit, mask)
FinalMask(last) ==
    CHOOSE m \in Masks : \A o \in Masks :
        last[m] < last[o] \/ (last[m] = last[o] /\ Number(m) <= Number(o))

\* The mask that is left for the first n - i rows.
Remaining(n, cost, table) ==
    LET left[i \in 0 .. n] ==
            IF i = 0 THEN FinalMask(table[n])
            ELSE left[i - 1] \ {Choice(cost[n - i + 1], table[n - i], left[i - 1])}
    IN left

\* The candidate of each row, or Unmatched.
Solve(n, cost) ==
    LET table == Table(n, cost)
        left == Remaining(n, cost, table)
    IN [k \in 1 .. n |-> Choice(cost[k], table[k - 1], left[n - k])]

-----------------------------------------------------------------------------
EInit == /\ scene \in Scenes
         /\ assignments = << >> /\ anchors = 0
         /\ epc = "anchors"

Anchors ==
    /\ epc = "anchors"
    /\ assignments' = RowsFor(0)
    /\ anchors' = Len(assignments')
    /\ epc' = "view 1"
    /\ UNCHANGED scene

\* Write the chosen candidates of a view into the rows after an offset.
Assigned(chosen, offset, view) ==
    [k \in DOMAIN assignments |->
        IF k > offset /\ k - offset \in DOMAIN chosen
        THEN [assignments[k] EXCEPT ![view] = chosen[k - offset]] ELSE assignments[k]]

AnchorCosts == [k \in 1 .. anchors |-> [c \in Cands |-> PairCost(1, assignments[k][0], c)]]

View1 ==
    /\ epc = "view 1"
    /\ assignments' = Assigned(Solve(anchors, AnchorCosts), 0, 1)
    /\ epc' = "view 2"
    /\ UNCHANGED <<scene, anchors>>

\* A detection of camera 2 has to agree with the anchor and, when there is
\* one, with the chosen detection of camera 1.
Consistent(k, c) ==
    LET cost02 == PairCost(2, assignments[k][0], c)
        cost12 == PairCost(3, assignments[k][1], c)
    IN IF assignments[k][1] = Unmatched THEN cost02
       ELSE IF cost02 < InvalidCost /\ cost12 < InvalidCost THEN (cost02 + cost12) \div 2 ELSE InvalidCost

View2 ==
    /\ epc = "view 2"
    /\ assignments' = Assigned(Solve(anchors, [k \in 1 .. anchors |-> [c \in Cands |-> Consistent(k, c)]]), 0, 2)
    /\ epc' = "pairs"
    /\ UNCHANGED <<scene, anchors>>

\* Rows for what is left of camera 1 ...
Pairs ==
    /\ epc = "pairs"
    /\ assignments' = assignments \o RowsFor(1)
    /\ epc' = "pair view 2"
    /\ UNCHANGED <<scene, anchors>>

\* Mutant: the detections of camera 2 that anchored rows hold are not excluded.
PairCostsReuse ==
    [k \in 1 .. Len(assignments) - anchors |->
        [c \in Cands |-> PairCost(3, assignments[anchors + k][1], c)]]

\* ... matched with the detections of camera 2 that no anchored row holds.
PairCosts ==
    [k \in 1 .. Len(assignments) - anchors |->
        [c \in Cands |-> IF c \in Used(2) THEN InvalidCost ELSE PairCost(3, assignments[anchors + k][1], c)]]

PairView2 ==
    /\ epc = "pair view 2"
    /\ assignments' = Assigned(Solve(Len(assignments) - anchors, PairCosts), anchors, 2)
    /\ epc' = "rest"
    /\ UNCHANGED <<scene, anchors>>

Rest ==
    /\ epc = "rest"
    /\ assignments' = assignments \o RowsFor(2)
    /\ epc' = "done"
    /\ UNCHANGED <<scene, anchors>>

ENext == Anchors \/ View1 \/ View2 \/ Pairs \/ PairView2 \/ Rest
ESpec == EInit /\ [][ENext]_evars

-----------------------------------------------------------------------------
\* No detection is used by two rows, and while there are rows left none is
\* lost: the rows are a partition of what the cameras saw.
EveryDetectionOnce ==
    epc = "done" =>
        \A view \in 0 .. 2 :
            /\ \A k, l \in DOMAIN assignments :
                  k # l /\ assignments[k][view] # Unmatched => assignments[k][view] # assignments[l][view]
            /\ Len(assignments) < RowLimit => Used(view) = Seen(view)

\* "This avoids building geometrically inconsistent triples": every pair of
\* detections of a row with an anchor, and the pair of a row without one, is
\* within the gate.
TriplesAgree ==
    \A k \in DOMAIN assignments :
        LET cost(pair, a, b) == a = Unmatched \/ b = Unmatched \/ PairCost(pair, a, b) <= EpipolarGate
        IN /\ cost(1, assignments[k][0], assignments[k][1])
           /\ cost(2, assignments[k][0], assignments[k][2])
           /\ cost(3, assignments[k][1], assignments[k][2])

\* One-to-one matchings of the first k rows, by their costs, and what they cost.
EdgesOf(k) == (1 .. k) \X Cands
PairsUp(M, k, cost) ==
    /\ M \subseteq EdgesOf(k)
    /\ \A e \in M : cost[e[1]][e[2]] < InvalidCost
    /\ \A e, f \in M : e # f => e[1] # f[1] /\ e[2] # f[2]
CostOf(M, k, cost) == SumFunctionOnSet([e \in EdgesOf(k) |-> cost[e[1]][e[2]] - EpipolarGate], M)

\* The dynamic program finds the best one-to-one matching of the anchors
\* with camera 1: no other set of pairs gains more.
DynamicProgramIsOptimal ==
    epc = "view 2" =>
        LET found == {<<k, assignments[k][1]>> : k \in {l \in DOMAIN assignments : assignments[l][1] # Unmatched}}
        IN \A M \in SUBSET EdgesOf(anchors) :
              PairsUp(M, anchors, AnchorCosts) => CostOf(found, anchors, AnchorCosts) <= CostOf(M, anchors, AnchorCosts)

\* The epipolar rows use each detection once, keep only cameras that agree, and
\* the dynamic program behind them finds a cheapest assignment.
EpipolarRowsAreRight == EveryDetectionOnce /\ TriplesAgree /\ DynamicProgramIsOptimal
=============================================================================
