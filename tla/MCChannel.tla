----------------------------- MODULE MCChannel -----------------------------
(* Bounds for Channel: two threads on each side, so that a notification    *)
(* can wake the wrong one, and more send calls than slots.                 *)
EXTENDS Channel

CONSTANTS s1, s2, r1, r2

MCSenders == {s1, s2}
MCReceivers == {r1, r2}
=============================================================================
