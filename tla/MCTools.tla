------------------------------ MODULE MCTools -------------------------------
(* The rig calibration and the REST server, each explored by itself: an     *)
(* initial state belongs to one of them and leaves the other at rest.       *)
EXTENDS RigCalibration, RestApi

VARIABLE part

Snapshots == [kind |-> "snapshot", rig |-> 1, to |-> 1]
Others(kind) == [kind |-> kind, rig |-> 0, to |-> 0]

\* Two snapshots into one directory, or one beside any other request.
RequestsOf == <<{Snapshots}, {Snapshots, Others("bad"), Others("query"), Others("command")}>>

BatchSet == [rig : {1}, aligned : BOOLEAN] \cup [rig : {2}, aligned : {TRUE}]

vars == <<part, rigVars, apiVars>>
Init == part \in {"rig", "api"} /\ RInit /\ PInit
Next ==
    \/ part = "rig" /\ RNext /\ UNCHANGED <<part, apiVars>>
    \/ part = "api" /\ PNext /\ UNCHANGED <<part, rigVars>>
Spec == Init /\ [][Next]_vars /\ RFairness /\ PFairness

\* A cancelled calibration gives the control thread back, and stop() of the
\* server returns unless a silent client holds a session.
EveryCallReturns == CancelReturns /\ StopReturns
=============================================================================
