----------------------------- MODULE LossyQueue -----------------------------
(***************************************************************************)
(* What a Channel promises its users: an atomic first-in first-out queue   *)
(* that delivers what it accepted, once and in order, that may replace its *)
(* oldest item only when it was built to, and that accepts nothing after   *)
(* it was closed but still hands out what is left.  No thread, lock, wait  *)
(* or notification appears here: Channel.tla has those and implements this *)
(***************************************************************************)
EXTENDS Naturals, Sequences

CONSTANT Items          \* whatever callers send

VARIABLES lossy,        \* TRUE when the queue may replace its oldest item
          pending,      \* accepted and not yet taken
          delivered,    \* everything taken so far, in order
          closed

vars == <<lossy, pending, delivered, closed>>

Init ==
    /\ lossy \in BOOLEAN
    /\ pending = <<>>
    /\ delivered = <<>>
    /\ closed = FALSE

Put(v) ==
    /\ ~closed
    /\ pending' = Append(pending, v)
    /\ UNCHANGED <<lossy, delivered, closed>>

Replace(v) ==
    /\ lossy
    /\ ~closed
    /\ pending # <<>>
    /\ pending' = Append(Tail(pending), v)
    /\ UNCHANGED <<lossy, delivered, closed>>

Get ==
    /\ pending # <<>>
    /\ pending' = Tail(pending)
    /\ delivered' = Append(delivered, Head(pending))
    /\ UNCHANGED <<lossy, closed>>

Close ==
    /\ closed' = TRUE
    /\ UNCHANGED <<lossy, pending, delivered>>

Next ==
    \/ \E v \in Items : Put(v) \/ Replace(v)
    \/ Get
    \/ Close

Spec == Init /\ [][Next]_vars
=============================================================================
