-------------------------- MODULE MCRuntimeControl --------------------------
(* Bounds for RuntimeControl: two clients and the main thread compete for a *)
(* queue of one request.                                                    *)
EXTENDS RuntimeControl

CONSTANTS c1, c2, m, v1, v2

MCClients == {c1, c2}
MCValues == {v1, v2}

\* The values of one field of a configuration are interchangeable, so it is
\* enough to begin with one of them.
MCInit == Init /\ config.camera = v1 /\ config.pose = v1

MCSpec == MCInit /\ [][Next]_vars /\ Fairness
=============================================================================
