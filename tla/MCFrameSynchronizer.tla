------------------------- MODULE MCFrameSynchronizer -------------------------
(* Bounds for FrameSynchronizer.  Two cameras with two places each, so that *)
(* match() has combinations to choose from and an earlier and a later pair  *)
(* may both be buffered; three cameras, so that a partial batch has several *)
(* frames and the oldest frame may fit one camera and not the other.        *)
EXTENDS FrameSynchronizer

TwoCameras ==
    [cameras : {2}, capacity : {2}, tolerance : {1}, policy : Policies, maxTime : {2}]
ThreeCameras ==
    [cameras : {3}, capacity : {1}, tolerance : {0}, policy : Policies, maxTime : {1}]
MCSetups == TwoCameras \cup ThreeCameras
=============================================================================
