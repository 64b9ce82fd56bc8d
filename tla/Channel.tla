------------------------------- MODULE Channel -------------------------------
(***************************************************************************)
(* iris::Channel (include/iris/pipeline/Channel.hpp): the bounded queue    *)
(* between every two threads of the runtime.  One mutex, two condition     *)
(* variables (readable_, writable_), a capacity, an overflow policy and a  *)
(* closed flag.  A critical section is one step; a wait releases the       *)
(* mutex, so a call that waits is several steps: it joins the wait set, is *)
(* woken by a notification (or spuriously) and tests its predicate again.  *)
(*                                                                         *)
(* An item is the number of the send call that carried it.                 *)
(***************************************************************************)
EXTENDS Naturals, Sequences, FiniteSets

CONSTANTS Senders,      \* threads that call send
          Receivers,    \* threads that call receive or try_receive
          MaxCapacity,  \* largest capacity a channel is built with
          MaxSends      \* bound: send calls made in a behaviour

ASSUME ThreadsAssumption ==
    /\ IsFiniteSet(Senders)
    /\ IsFiniteSet(Receivers)
    /\ Senders \cap Receivers = {}
ASSUME BoundsAssumption ==
    /\ MaxCapacity \in Nat \ {0}
    /\ MaxSends \in Nat

OverflowPolicy == {"Block", "DropOldest", "DropNewest"}
Threads == Senders \cup Receivers
Items == 1 .. MaxSends
PCs == {"idle", "waitWritable", "waitReadable", "woken"}

VARIABLES
    policy,     \* policy_, const after construction
    capacity,   \* capacity_, const after construction
    queue,      \* queue_
    closed,     \* closed_
    sent, received, dropped, \* sent_, received_, dropped_
    rejected,   \* the rejected_closed metric
    pc,         \* where each thread is in send or receive
    item,       \* the argument of the send call a waiting sender is in
    calls,      \* send calls made so far
    accepted,   \* history: items enqueued, in order
    delivered   \* history: items received, in order

vars == <<policy, capacity, queue, closed, sent, received, dropped, rejected,
          pc, item, calls, accepted, delivered>>
config == <<policy, capacity>>
stats == <<sent, received, dropped, rejected>>

Init ==
    /\ policy \in OverflowPolicy
    /\ capacity \in 1 .. MaxCapacity
    /\ queue = <<>>
    /\ closed = FALSE
    /\ sent = 0 /\ received = 0 /\ dropped = 0 /\ rejected = 0
    /\ pc = [t \in Threads |-> "idle"]
    /\ item = [s \in Senders |-> 0]
    /\ calls = 0
    /\ accepted = <<>>
    /\ delivered = <<>>

-----------------------------------------------------------------------------
(* Condition variables *)

Waiting(cv) == {t \in Threads : pc[t] = cv}

Return(t) == pc' = [pc EXCEPT ![t] = "idle"]

\* The thread t returns to its caller and one thread waiting on cv, if there
\* is one, is woken.
ReturnAndNotifyOne(t, cv) ==
    \/ /\ Waiting(cv) = {}
       /\ pc' = [pc EXCEPT ![t] = "idle"]
    \/ \E w \in Waiting(cv) :
          pc' = [pc EXCEPT ![t] = "idle", ![w] = "woken"]

Full == Len(queue) >= capacity

-----------------------------------------------------------------------------
(* send(value): the body, from taking the mutex to releasing it.  It runs  *)
(* when the call is made and again each time a waiting sender is woken.    *)

WaitForSpace(s, v) ==
    /\ policy = "Block" /\ ~closed /\ Full
    /\ pc' = [pc EXCEPT ![s] = "waitWritable"]
    /\ item' = [item EXCEPT ![s] = v]
    /\ UNCHANGED <<queue, closed, stats, accepted, delivered>>

RejectClosed(s) ==
    /\ closed
    /\ rejected' = rejected + 1
    /\ Return(s)
    /\ item' = [item EXCEPT ![s] = 0]
    /\ UNCHANGED <<queue, closed, sent, received, dropped, accepted, delivered>>

\* Mutant: a refused item is not counted as dropped.
DropNewestUncounted(s) ==
    /\ ~closed /\ Full /\ policy = "DropNewest"
    /\ Return(s)
    /\ item' = [item EXCEPT ![s] = 0]
    /\ UNCHANGED <<queue, closed, stats, accepted, delivered>>

DropNewest(s) ==
    /\ ~closed /\ Full /\ policy = "DropNewest"
    /\ dropped' = dropped + 1
    /\ Return(s)
    /\ item' = [item EXCEPT ![s] = 0]
    /\ UNCHANGED <<queue, closed, sent, received, rejected, accepted, delivered>>

Enqueue(s, v) ==
    /\ ~closed
    /\ \/ /\ ~Full
          /\ queue' = Append(queue, v)
          /\ UNCHANGED dropped
       \/ /\ Full /\ policy = "DropOldest"
          /\ queue' = Append(Tail(queue), v)
          /\ dropped' = dropped + 1
    /\ sent' = sent + 1
    /\ accepted' = Append(accepted, v)
    /\ ReturnAndNotifyOne(s, "waitReadable")
    /\ item' = [item EXCEPT ![s] = 0]
    /\ UNCHANGED <<closed, received, rejected, delivered>>

SendBody(s, v) ==
    \/ WaitForSpace(s, v)
    \/ RejectClosed(s)
    \/ DropNewest(s)
    \/ Enqueue(s, v)

Send(s) ==
    /\ pc[s] = "idle"
    /\ calls < MaxSends
    /\ calls' = calls + 1
    /\ SendBody(s, calls + 1)
    /\ UNCHANGED config

ResumeSend(s) ==
    /\ pc[s] = "woken"
    /\ SendBody(s, item[s])
    /\ UNCHANGED <<config, calls>>

-----------------------------------------------------------------------------
(* receive() and try_receive() *)

WaitForItem(r) ==
    /\ ~closed /\ queue = <<>>
    /\ pc' = [pc EXCEPT ![r] = "waitReadable"]
    /\ UNCHANGED <<queue, stats, delivered>>

ReceiveNothing(r) ==
    /\ closed /\ queue = <<>>
    /\ Return(r)
    /\ UNCHANGED <<queue, stats, delivered>>

\* Mutant: the item is copied out and not popped.
DequeueKeepsFront(r) ==
    /\ queue # <<>>
    /\ delivered' = Append(delivered, Head(queue))
    /\ received' = received + 1
    /\ UNCHANGED <<queue, sent, dropped, rejected>>
    /\ ReturnAndNotifyOne(r, "waitWritable")

Dequeue(r) ==
    /\ queue # <<>>
    /\ queue' = Tail(queue)
    /\ delivered' = Append(delivered, Head(queue))
    /\ received' = received + 1
    /\ UNCHANGED <<sent, dropped, rejected>>
    /\ ReturnAndNotifyOne(r, "waitWritable")

ReceiveBody(r) ==
    \/ WaitForItem(r)
    \/ ReceiveNothing(r)
    \/ Dequeue(r)

Receive(r) ==
    /\ pc[r] = "idle"
    /\ ReceiveBody(r)
    /\ UNCHANGED <<config, closed, item, calls, accepted>>

ResumeReceive(r) ==
    /\ pc[r] = "woken"
    /\ ReceiveBody(r)
    /\ UNCHANGED <<config, closed, item, calls, accepted>>

\* try_receive never waits; on an empty queue it changes nothing.
TryReceive(r) ==
    /\ pc[r] = "idle"
    /\ Dequeue(r)
    /\ UNCHANGED <<config, closed, item, calls, accepted>>

-----------------------------------------------------------------------------

\* Mutant: writable_.notify_all() is forgotten.
CloseForgetsSenders ==
    /\ closed' = TRUE
    /\ pc' = [t \in Threads |-> IF pc[t] = "waitReadable" THEN "woken" ELSE pc[t]]
    /\ UNCHANGED <<config, queue, stats, item, calls, accepted, delivered>>

Close ==
    /\ closed' = TRUE
    /\ pc' = [t \in Threads |->
                 IF pc[t] \in {"waitWritable", "waitReadable"} THEN "woken" ELSE pc[t]]
    /\ UNCHANGED <<config, queue, stats, item, calls, accepted, delivered>>

\* std::condition_variable::wait may return without a notification.
SpuriousWakeup(t) ==
    /\ pc[t] \in {"waitWritable", "waitReadable"}
    /\ pc' = [pc EXCEPT ![t] = "woken"]
    /\ UNCHANGED <<config, queue, closed, stats, item, calls, accepted, delivered>>

Next ==
    \/ \E s \in Senders : Send(s) \/ ResumeSend(s)
    \/ \E r \in Receivers : Receive(r) \/ ResumeReceive(r) \/ TryReceive(r)
    \/ Close
    \/ \E t \in Threads : SpuriousWakeup(t)

Spec == Init /\ [][Next]_vars

\* A woken thread is scheduled until it gets the mutex.  Whether anybody calls
\* send, receive or close is up to the callers, and nobody relies on a
\* spurious wakeup.
Fairness ==
    /\ \A s \in Senders : WF_vars(ResumeSend(s))
    /\ \A r \in Receivers : WF_vars(ResumeReceive(r))

FairSpec == Spec /\ Fairness

-----------------------------------------------------------------------------
(* Properties *)

QueueTypeOK ==
    /\ policy \in OverflowPolicy
    /\ capacity \in 1 .. MaxCapacity
    /\ queue \in Seq(Items)
    /\ Len(queue) <= capacity
    /\ closed \in BOOLEAN

StatsTypeOK == sent \in Nat /\ received \in Nat /\ dropped \in Nat /\ rejected \in Nat

ThreadTypeOK ==
    /\ pc \in [Threads -> PCs]
    /\ item \in [Senders -> 0 .. MaxSends]
    /\ \A s \in Senders : pc[s] # "waitReadable"
    /\ \A s \in Senders : pc[s] # "idle" => item[s] \in Items
    /\ \A r \in Receivers : pc[r] # "waitWritable"

HistoryTypeOK ==
    /\ calls \in 0 .. MaxSends
    /\ accepted \in Seq(Items)
    /\ delivered \in Seq(Items)

\* Every variable has its type: among the types, the queue never grows past
\* the capacity, senders wait only for space and receivers only for an item.
TypeOK == QueueTypeOK /\ StatsTypeOK /\ ThreadTypeOK /\ HistoryTypeOK

Evicted == IF policy = "DropOldest" THEN dropped ELSE 0
Refused == IF policy = "DropNewest" THEN dropped ELSE 0
InSend == {s \in Senders : pc[s] # "idle"}

\* What stats() and the channel metrics report adds up at every moment: each
\* accepted item was received, evicted or is still queued, and each send call
\* was accepted, refused, rejected or is still blocked.  A blocking channel
\* never reports a drop.
Accounting ==
    /\ sent = received + Evicted + Len(queue)
    /\ calls = sent + Refused + rejected + Cardinality(InSend)
    /\ policy = "Block" => dropped = 0

WokenSenders == {s \in Senders : pc[s] = "woken"}
WokenReceivers == {r \in Receivers : pc[r] = "woken"}

\* send and receive notify one thread each, not all: that is enough only if a
\* thread never stays in a wait set while an item (a free slot) exists that no
\* woken thread is on its way to, and if nobody waits on a closed channel.
NoLostWakeup ==
    /\ Waiting("waitReadable") # {} =>
          ~closed /\ Cardinality(WokenReceivers) >= Len(queue)
    /\ Waiting("waitWritable") # {} =>
          ~closed /\ Cardinality(WokenSenders) >= capacity - Len(queue)

\* What is queued is always the newest accepted items in the order send
\* accepted them, whatever was evicted: a consumer that falls behind skips
\* ahead and never goes back.
QueueIsNewest ==
    /\ Len(accepted) = sent
    /\ Len(queue) <= Len(accepted)
    /\ \A i \in 1 .. Len(queue) :
          queue[i] = accepted[Len(accepted) - Len(queue) + i]

\* The channel implements the atomic queue of LossyQueue.
Atomic == INSTANCE LossyQueue WITH lossy <- (policy = "DropOldest"), pending <- queue
ImplementsLossyQueue == Atomic!Spec

\* After close() every thread blocked in send or receive returns to its
\* caller, whoever holds the mutex in between.  Pipeline::stop relies on it.
CloseReleasesEveryone == closed ~> \A t \in Threads : pc[t] = "idle"

=============================================================================
