------------------------------- MODULE MCPose -------------------------------
(* The three matching algorithms of the pose stage and its tracker, each     *)
(* explored by itself: an initial state belongs to one of them and leaves    *)
(* the others idle.                                                          *)
EXTENDS Association, Hungarian, EpipolarAssignment, Tracker

VARIABLE part

\* Two slots, three cameras, two of them with two detections each.
MCViews == 1 .. 3
MCCandidates == <<{0, 1}, {0, 1}, {0}>>

\* Two detections of the first of four cameras, and one of each other.
MCCandidateCount == <<2, 1, 1, 1>>

\* Of the two detections of the first camera, the first is not further from
\* that of the second camera, and of the third and the fourth camera the third
\* is not: but for the order of equal costs, any other costs are some of
\* these with the detections or the cameras renamed.
MCPairCosts ==
    {c \in [Edges -> Costs \cup {INF}] :
        /\ c[<< <<1, 1>>, <<2, 1>> >>] <= c[<< <<1, 2>>, <<2, 1>> >>]
        /\ c[<< <<2, 1>>, <<3, 1>> >>] <= c[<< <<2, 1>>, <<4, 1>> >>]}

\* Three rows and columns; the first row and column are sorted, any other
\* matrix is one of these with its rows and columns renamed.
MCMatrices ==
    {m \in [(1 .. 3) \X (1 .. 3) -> {1, 2, Infinity}] :
        /\ m[1, 1] <= m[1, 2] /\ m[1, 2] <= m[1, 3]
        /\ m[1, 1] <= m[2, 1] /\ m[2, 1] <= m[3, 1]}

Matrix(S) == [1 .. 2 -> [1 .. 2 -> S]]
SceneSet ==
    {[score    |-> [view \in 0 .. 2 |-> CASE view = 0 -> <<1, 2>> [] view = 1 -> s[1] [] OTHER -> s[2]],
      distance |-> <<d, e, f>>] :
        s \in {<< <<1, 1>>, <<1, 0>> >>, << <<0, 2>>, <<1, 2>> >>},
        d \in Matrix({2, 4, InvalidCost}), e \in [1 .. 2 -> {<<2, InvalidCost>>, <<2, 2>>}],
        f \in [1 .. 2 -> {<<InvalidCost, 2>>, <<2, 4>>}]}

\* An idle assignment has not begun with a matrix without a pair.
HIdle == /\ cost = [e \in (1 .. RowCount) \X (1 .. RealColumns) |-> Infinity]
         /\ u = [r \in 0 .. RowCount |-> 0] /\ v = [c \in {0} \cup Columns |-> 0]
         /\ p = [c \in {0} \cup Columns |-> 0]
         /\ minv = << >> /\ way = [c \in Columns |-> 0] /\ usedCols = {0}
         /\ columnZero = 0 /\ hpc = "augment"
\* An idle association has no edge under the gate.
AIdle == /\ pairCost = [e \in Edges |-> INF] /\ edges = << >>
         /\ tracks = << >> /\ activeTracks = {} /\ nodeTrack = [n \in Nodes |-> NoTrack]
         /\ rows = << >> /\ apc = "merge"
EIdle == scene = 0 /\ assignments = << >> /\ anchors = 0 /\ epc = "idle"

vars == <<part, hvars, avars, evars, trackerVars>>

Init ==
    \/ part = "hungarian"   /\ HInit /\ AIdle /\ EIdle /\ TInit
    \/ part = "association" /\ HIdle /\ pairCost \in MCPairCosts /\ AInit /\ EIdle /\ TInit
    \/ part = "epipolar"    /\ HIdle /\ AIdle /\ EInit /\ TInit
    \/ part = "tracker"     /\ HIdle /\ AIdle /\ EIdle /\ TInit

HungarianNext   == part = "hungarian"   /\ HNext /\ UNCHANGED <<part, avars, evars, trackerVars>>
AssociationNext == part = "association" /\ ANext /\ UNCHANGED <<part, hvars, evars, trackerVars>>
EpipolarNext    == part = "epipolar"    /\ ENext /\ UNCHANGED <<part, hvars, avars, trackerVars>>
TrackerNext     == part = "tracker"     /\ TNext /\ UNCHANGED <<part, hvars, avars, evars>>

\* An algorithm ends, and then stays as it is; the tracker always goes on.
Rests == part # "tracker" /\ UNCHANGED vars

Next == HungarianNext \/ AssociationNext \/ EpipolarNext \/ TrackerNext \/ Rests
Spec == Init /\ [][Next]_vars
=============================================================================
