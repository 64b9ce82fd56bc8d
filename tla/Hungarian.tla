----------------------------- MODULE Hungarian -----------------------------
(***************************************************************************)
(* The rectangular Hungarian algorithm that MultiviewCudaPostprocess.cu    *)
(* runs twice per frame: temporal_assignment_kernel matches tracks with    *)
(* the detections of one view, temporal_lifecycle_kernel matches recovery  *)
(* seeds with dormant tracks.  Rows are tracks (seeds), columns are        *)
(* detections (dormant tracks) followed by as many dummy columns that cost *)
(* exactly the gate, so that a row can stay unmatched.                     *)
(*                                                                         *)
(* One step is one turn of the inner do-loop, or the augmentation that     *)
(* ends a row.  The lanes of the block relax the columns in parallel       *)
(* between two barriers and each writes only its own column, so a turn is  *)
(* atomic.  Costs are integers here; the code rounds floats.               *)
(***************************************************************************)
EXTENDS Integers, FiniteSets, Functions

CONSTANTS RowCount,      \* number of tracks (seeds)
          RealColumns,   \* number of detections (dormant tracks)
          DummyColumns,  \* the other columns: no fewer than rows
          Matrices,      \* the cost matrices to solve
          Infinity,      \* CUDART_INF_F, the cost of a pair that cannot match
          MatchGate

HUGE == 1000000          \* what an impossible edge costs: 1e6F

\* Ten tracks at the most, and ten dummy columns in both kernels.  Infinity is
\* above whatever is computed from finite costs.
ASSUME HungarianAssumption ==
    /\ RowCount \in Nat \ {0} /\ RealColumns \in Nat
    /\ DummyColumns \in Nat /\ RowCount <= DummyColumns
    /\ MatchGate \in 0 .. HUGE
    /\ Infinity \in Nat /\ HUGE + MatchGate < Infinity
    /\ Matrices \subseteq [(1 .. RowCount) \X (1 .. RealColumns) -> Nat]
    /\ \A m \in Matrices : \A e \in (1 .. RowCount) \X (1 .. RealColumns) :
          m[e] = Infinity \/ m[e] + MatchGate < Infinity

Columns == 1 .. RealColumns + DummyColumns

VARIABLES cost,     \* the cost matrix, Infinity where a pair is impossible
          u, v,     \* the potentials of rows and columns
          p,        \* p[c] the row matched with column c, 0 none; p[0] the row that is added
          minv, way, usedCols,
          columnZero,
          hpc       \* "scan", "augment", "done"

hvars == <<cost, u, v, p, minv, way, usedCols, columnZero, hpc>>

\* Where the scan for a row begins.
StartRow ==
    /\ columnZero' = 0
    /\ minv' = [c \in {0} \cup Columns |-> Infinity]
    /\ usedCols' = {}

HInit ==
    /\ cost \in Matrices
    /\ u = [r \in 0 .. RowCount |-> 0]
    /\ v = [c \in {0} \cup Columns |-> 0]
    /\ p = [c \in {0} \cup Columns |-> IF c = 0 THEN 1 ELSE 0]
    /\ way = [c \in {0} \cup Columns |-> 0]
    /\ minv = [c \in {0} \cup Columns |-> Infinity]
    /\ usedCols = {}
    /\ columnZero = 0
    /\ hpc = "scan"

Edge(r, c) ==
    IF c > RealColumns THEN MatchGate
    ELSE IF cost[<<r, c>>] = Infinity THEN HUGE ELSE cost[<<r, c>>]

\* The first column with the smallest slack, as the scan in index order finds it.
Closest(slack, cols) ==
    CHOOSE c \in cols : \A d \in cols :
        slack[c] < slack[d] \/ (slack[c] = slack[d] /\ c <= d)

\* Mutant: the relaxation compares with the edge instead of the reduced cost.
ReducedWithoutPotential(r, c) == Edge(r, c)
Reduced(r, c) == Edge(r, c) - u[r] - v[c]

\* Relax every unused column from the current one, then move the potentials
\* by the smallest slack and go to its column.
Scan ==
    /\ hpc = "scan"
    /\ LET used  == usedCols \cup {columnZero}
           r     == p[columnZero]
           better == {c \in Columns \ used : Reduced(r, c) < minv[c]}
           slack == [c \in {0} \cup Columns |-> IF c \in better THEN Reduced(r, c) ELSE minv[c]]
           next  == Closest(slack, Columns \ used)
           delta == slack[next]
       IN /\ usedCols' = used
          /\ way' = [c \in DOMAIN way |-> IF c \in better THEN columnZero ELSE way[c]]
          /\ u' = [k \in DOMAIN u |-> IF \E c \in used : p[c] = k THEN u[k] + delta ELSE u[k]]
          /\ v' = [c \in DOMAIN v |-> IF c \in used THEN v[c] - delta ELSE v[c]]
          /\ minv' = [c \in DOMAIN minv |-> IF c \in used THEN minv[c] ELSE slack[c] - delta]
          /\ columnZero' = next
          /\ hpc' = IF p[next] = 0 THEN "augment" ELSE "scan"
    /\ UNCHANGED <<cost, p>>

\* The alternating path from a column back to column 0: the least set that has
\* the column, and the predecessor of each of its columns but 0.
PathFrom(c) ==
    {d \in Columns : \A S \in SUBSET DOMAIN way :
        c \in S /\ (\A e \in S \ {0} : way[e] \in S) => d \in S}

\* Every column of the path takes the row of its predecessor; then the next
\* row starts.
Augment ==
    /\ hpc = "augment"
    /\ LET path == PathFrom(columnZero)
           last == p[0] = RowCount
       IN /\ p' = [c \in DOMAIN p |-> IF c \in path THEN p[way[c]]
                                     ELSE IF c = 0 /\ ~last THEN p[0] + 1 ELSE p[c]]
          /\ IF last THEN hpc' = "done" /\ UNCHANGED <<columnZero, minv, usedCols>>
                     ELSE hpc' = "scan" /\ StartRow
    /\ UNCHANGED <<cost, u, v, way>>

\* The detection a row ends up with, at most one: matched and under the gate.
Selected(r) ==
    {c \in 1 .. RealColumns : p[c] = r /\ cost[<<r, c>>] < MatchGate}

HNext == Scan \/ Augment
HSpec == HInit /\ [][HNext]_hvars

-----------------------------------------------------------------------------
HTypeOK ==
    /\ hpc \in {"scan", "augment", "done"}
    /\ columnZero \in {0} \cup Columns
    /\ \A c \in Columns : p[c] \in 0 .. RowCount /\ way[c] \in {0} \cup Columns

\* Every one-to-one matching: the column of each row, 0 for none.
Matchings ==
    {m \in [1 .. RowCount -> 0 .. RealColumns] :
        \A r \in 1 .. RowCount : m[r] # 0 =>
            /\ cost[<<r, m[r]>>] < Infinity
            /\ \A q \in 1 .. r - 1 : m[q] # m[r]}

\* A row that is not matched pays the gate.
MatchingCost(m) == SumFunction([r \in 1 .. RowCount |-> IF m[r] = 0 THEN MatchGate ELSE cost[<<r, m[r]>>]])

Solution ==
    [r \in 1 .. RowCount |-> IF Selected(r) = {} THEN 0 ELSE CHOOSE c \in Selected(r) : TRUE]

\* A row gets at most one column, a column at most one row, every match is
\* under the gate, and no other matching is cheaper.
AnswerIsCheapest ==
    hpc = "done" =>
        /\ \A r \in 1 .. RowCount : Cardinality(Selected(r)) <= 1
        /\ Solution \in Matchings
        /\ \A r \in 1 .. RowCount : Solution[r] # 0 => cost[<<r, Solution[r]>>] < MatchGate
        /\ \A m \in Matchings : MatchingCost(Solution) <= MatchingCost(m)

\* Dual feasibility, the reason why the loop may stop at the first free
\* column: between two rows no edge of a matched row is cheaper than the
\* potentials of its ends, and a matched edge is exactly as expensive.
PotentialsAreFeasible ==
    hpc = "done" \/ usedCols = {} =>
        \A c \in Columns : p[c] # 0 =>
            /\ Edge(p[c], c) = u[p[c]] + v[c]
            /\ \A d \in Columns : Edge(p[c], d) >= u[p[c]] + v[d]

\* The "exact minimum-cost one-to-one solution" of the comment in
\* temporal_assignment_kernel: the temporal assignment is a cheapest one, no pair
\* at the gate is in it, and the potentials that prove it are feasible after
\* every row.
AssignmentIsOptimal == HTypeOK /\ PotentialsAreFeasible /\ AnswerIsCheapest
=============================================================================
