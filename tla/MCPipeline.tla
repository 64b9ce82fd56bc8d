----------------------------- MODULE MCPipeline -----------------------------
(* Bounds for Pipeline.  Batches = 7 is one more than the threads and the   *)
(* channels between them can hold when the pose stage is gone.              *)
EXTENDS Pipeline

AllModes == {"video", "live"}
VideoMode == {"video"}
AnyFailure == {"start", "source", "pose", "export"}
PoseFailure == {"pose"}
NoFailure == {}
=============================================================================
