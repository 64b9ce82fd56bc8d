---------------------------- MODULE MCLiveCapture ----------------------------
(* Bounds for LiveCapture: without reconnection enough samples to fill the  *)
(* sample channel and block the reader; with reconnection two connections,  *)
(* whose callbacks may overlap, and no samples.  The clock of the camera is *)
(* explored by itself: an initial state belongs to the threads of the stage *)
(* or to the clock, and leaves the other at rest.                           *)
EXTENDS LiveCapture, CaptureClock

VARIABLE part

OneConnection ==
    [reconnect |-> FALSE, overflow |-> "Block", connections |-> 1, deliveries |-> 2]
Reconnecting ==
    [reconnect |-> TRUE, overflow |-> "Block", connections |-> 2, deliveries |-> 0]
Dropping ==
    [reconnect |-> FALSE, overflow |-> "DropOldest", connections |-> 1, deliveries |-> 1]
MCConfigurations == {OneConnection, Reconnecting, Dropping}

\* The second connection is opened when the first has sent all its samples, or some.
MCOpenings == <<10, 30>>

vars == <<part, captureVars, clockVars>>
Init ==
    /\ part \in {"stage", "clock"}
    /\ CInit /\ ClockInit
    /\ part = "clock" => config = Dropping
Next ==
    \/ part = "stage" /\ CNext /\ UNCHANGED <<part, clockVars>>
    \/ part = "clock" /\ ClockNext /\ UNCHANGED <<part, captureVars>>
Spec == Init /\ [][Next]_vars /\ Fairness
=============================================================================
