--------------------------- MODULE MCDiskRecording --------------------------
(* The callers of DiskRecording, the control thread and the runner, are    *)
(* those of the code; only the times of the packets are defined here.      *)
EXTENDS DiskRecording

\* The time stamps of the packets, in microseconds.
PacketTimes == <<1, 2>>
=============================================================================
