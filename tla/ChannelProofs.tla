---------------------------- MODULE ChannelProofs ----------------------------
(* Proofs about Channel, for every set of threads, capacity and policy.    *)
EXTENDS Channel, SequenceTheorems, FiniteSetTheorems, TLAPS

-----------------------------------------------------------------------------
(* The two operations every step applies to a sequence. *)

LEMMA AppendFacts ==
    ASSUME NEW S, NEW q \in Seq(S), NEW v \in S
    PROVE  /\ Append(q, v) \in Seq(S)
           /\ Len(Append(q, v)) = Len(q) + 1
           /\ \A i \in 1 .. Len(q) : Append(q, v)[i] = q[i]
           /\ Append(q, v)[Len(q) + 1] = v
BY AppendProperties

LEMMA TailFacts ==
    ASSUME NEW S, NEW q \in Seq(S), q # <<>>
    PROVE  /\ Len(q) \in Nat \ {0}
           /\ Head(q) \in S
           /\ Tail(q) \in Seq(S)
           /\ Len(Tail(q)) = Len(q) - 1
           /\ \A i \in 1 .. Len(Tail(q)) : Tail(q)[i] = q[i + 1]
BY HeadTailProperties, EmptySeq, LenProperties

\* The three ways a step may change the queue: an item goes in at the back,
\* replaces the oldest, or the oldest goes out.  The rest leaves it alone.
Grows(v) == ~closed /\ ~Full /\ queue' = Append(queue, v)
Replaces(v) ==
    /\ ~closed /\ Full /\ policy = "DropOldest"
    /\ queue # <<>> /\ queue' = Append(Tail(queue), v)
Shrinks == queue # <<>> /\ queue' = Tail(queue)

\* A full queue is not empty, because a capacity is not zero.
LEMMA FullNotEmpty == QueueTypeOK /\ Full => queue # <<>>
BY BoundsAssumption DEF QueueTypeOK, Full

\* Every step does one of the three or none, with the history and the counters
\* that go with it.
Effect ==
    /\ UNCHANGED config
    /\ \/ \E v \in Items :
             /\ Grows(v)
             /\ accepted' = Append(accepted, v) /\ sent' = sent + 1
             /\ UNCHANGED <<closed, delivered, received, dropped, rejected>>
       \/ \E v \in Items :
             /\ Replaces(v)
             /\ accepted' = Append(accepted, v) /\ sent' = sent + 1
             /\ dropped' = dropped + 1
             /\ UNCHANGED <<closed, delivered, received, rejected>>
       \/ /\ Shrinks
          /\ delivered' = Append(delivered, Head(queue)) /\ received' = received + 1
          /\ UNCHANGED <<closed, accepted, sent, dropped, rejected>>
       \/ /\ UNCHANGED <<queue, accepted, delivered, sent, received>>
          /\ closed' \in {closed, TRUE}
          /\ \/ UNCHANGED <<dropped, rejected>>
             \/ rejected' = rejected + 1 /\ UNCHANGED dropped
             \/ policy = "DropNewest" /\ dropped' = dropped + 1 /\ UNCHANGED rejected

LEMMA StepEffect == TypeOK /\ [Next]_vars => Effect
<1> SUFFICES ASSUME TypeOK, [Next]_vars
             PROVE  Effect
  OBVIOUS
<1> USE DEF config, stats
<1>1. ASSUME NEW s \in Senders, NEW v \in Items, SendBody(s, v), UNCHANGED config
      PROVE  Effect
  <2>1. CASE WaitForSpace(s, v)
    BY <1>1, <2>1 DEF WaitForSpace, Effect
  <2>2. CASE RejectClosed(s)
    BY <1>1, <2>2 DEF RejectClosed, Effect
  <2>3. CASE DropNewest(s)
    BY <1>1, <2>3 DEF DropNewest, Effect
  <2>4. CASE Enqueue(s, v)
    BY <1>1, <2>4, FullNotEmpty DEF Enqueue, Effect, Grows, Replaces, TypeOK
  <2> QED
    BY <1>1, <2>1, <2>2, <2>3, <2>4 DEF SendBody
<1>2. ASSUME NEW r \in Receivers, ReceiveBody(r), UNCHANGED <<config, closed, accepted>>
      PROVE  Effect
  BY <1>2 DEF ReceiveBody, WaitForItem, ReceiveNothing, Dequeue, Shrinks, Effect
<1>3. ASSUME NEW s \in Senders, Send(s)
      PROVE  Effect
  <2>1. calls + 1 \in Items
    BY <1>3, BoundsAssumption DEF Send, TypeOK, HistoryTypeOK, Items
  <2> QED
    BY <1>1, <1>3, <2>1 DEF Send
<1>4. ASSUME NEW s \in Senders, ResumeSend(s)
      PROVE  Effect
  <2>1. item[s] \in Items
    BY <1>4 DEF ResumeSend, TypeOK, ThreadTypeOK
  <2> QED
    BY <1>1, <1>4, <2>1 DEF ResumeSend
<1>5. ASSUME NEW r \in Receivers, Receive(r) \/ ResumeReceive(r) \/ TryReceive(r)
      PROVE  Effect
  <2> QED
    BY <1>2, <1>5 DEF Receive, ResumeReceive, TryReceive, ReceiveBody
<1>6. CASE Close
  BY <1>6 DEF Close, Effect
<1>7. ASSUME NEW t \in Threads, SpuriousWakeup(t)
      PROVE  Effect
  BY <1>7 DEF SpuriousWakeup, Effect
<1>8. CASE UNCHANGED vars
  BY <1>8 DEF vars, Effect
<1> QED
  BY <1>3, <1>4, <1>5, <1>6, <1>7, <1>8 DEF Next

-----------------------------------------------------------------------------
(* Type correctness, one lemma per part of TypeOK *)

LEMMA QueueTypeStep ==
    ASSUME TypeOK, Effect
    PROVE  QueueTypeOK'
<1>1. /\ policy' = policy /\ policy \in OverflowPolicy
      /\ capacity' = capacity /\ capacity \in 1 .. MaxCapacity
      /\ closed' \in BOOLEAN
  BY DEF Effect, config, TypeOK, QueueTypeOK
<1>2. queue \in Seq(Items) /\ Len(queue) \in Nat /\ capacity \in Nat /\ Len(queue) <= capacity
  BY BoundsAssumption, LenProperties DEF TypeOK, QueueTypeOK
<1>3. ASSUME NEW v \in Items, Grows(v)
      PROVE  queue' \in Seq(Items) /\ Len(queue') <= capacity
  <2>1. Append(queue, v) \in Seq(Items) /\ Len(Append(queue, v)) = Len(queue) + 1
    BY <1>2, AppendFacts
  <2> QED
    BY <1>2, <1>3, <2>1 DEF Grows, Full
<1>4. ASSUME NEW v \in Items, Replaces(v)
      PROVE  queue' \in Seq(Items) /\ Len(queue') <= capacity
  <2>1. Tail(queue) \in Seq(Items) /\ Len(Tail(queue)) = Len(queue) - 1
    BY <1>2, <1>4, TailFacts DEF Replaces
  <2>2. /\ Append(Tail(queue), v) \in Seq(Items)
        /\ Len(Append(Tail(queue), v)) = Len(Tail(queue)) + 1
    BY <2>1, AppendFacts
  <2> QED
    BY <1>2, <1>4, <2>1, <2>2 DEF Replaces
<1>5. ASSUME Shrinks
      PROVE  queue' \in Seq(Items) /\ Len(queue') <= capacity
  <2>1. Tail(queue) \in Seq(Items) /\ Len(Tail(queue)) = Len(queue) - 1
    BY <1>2, <1>5, TailFacts DEF Shrinks
  <2> QED
    BY <1>2, <1>5, <2>1 DEF Shrinks
<1>6. queue' \in Seq(Items) /\ Len(queue') <= capacity
  BY <1>2, <1>3, <1>4, <1>5 DEF Effect
<1> QED
  BY <1>1, <1>6 DEF QueueTypeOK

LEMMA StatsTypeStep ==
    ASSUME TypeOK, Effect
    PROVE  StatsTypeOK'
<1>1. /\ sent' \in {sent, sent + 1} /\ received' \in {received, received + 1}
      /\ dropped' \in {dropped, dropped + 1} /\ rejected' \in {rejected, rejected + 1}
  BY DEF Effect
<1> QED
  BY <1>1 DEF TypeOK, StatsTypeOK

LEMMA HistoryTypeStep ==
    ASSUME TypeOK, [Next]_vars
    PROVE  HistoryTypeOK'
<1>1. /\ calls \in 0 .. MaxSends /\ queue \in Seq(Items)
      /\ accepted \in Seq(Items) /\ delivered \in Seq(Items)
  BY DEF TypeOK, QueueTypeOK, HistoryTypeOK
<1>2. calls' = calls \/ (calls < MaxSends /\ calls' = calls + 1)
  BY DEF Next, Send, ResumeSend, Receive, ResumeReceive, TryReceive, Close,
         SpuriousWakeup, vars
<1>3. calls' \in 0 .. MaxSends
  BY <1>1, <1>2, BoundsAssumption
<1>4. accepted' = accepted \/ \E v \in Items : accepted' = Append(accepted, v)
  BY StepEffect DEF Effect
<1>5. accepted' \in Seq(Items)
  <2>1. \A v \in Items : Append(accepted, v) \in Seq(Items)
    BY <1>1, AppendFacts
  <2> QED
    BY <1>1, <1>4, <2>1
<1>6. \/ delivered' = delivered
      \/ queue # <<>> /\ delivered' = Append(delivered, Head(queue))
  BY StepEffect DEF Effect, Shrinks
<1>7. delivered' \in Seq(Items)
  <2>1. queue # <<>> => Head(queue) \in Items
    BY <1>1, TailFacts
  <2>2. \A v \in Items : Append(delivered, v) \in Seq(Items)
    BY <1>1, AppendFacts
  <2> QED
    BY <1>1, <1>6, <2>1, <2>2
<1> QED
  BY <1>3, <1>5, <1>7 DEF HistoryTypeOK

\* Only a sender enters the wait set of writable_ and only a receiver that of
\* readable_, and a sender inside send carries the item it came with.
LEMMA ThreadTypeStep ==
    ASSUME TypeOK, [Next]_vars
    PROVE  ThreadTypeOK'
<1> USE ThreadsAssumption DEF TypeOK, ThreadTypeOK, Threads, PCs, Waiting, Return
<1>1. ASSUME NEW s \in Senders, NEW v \in Items, SendBody(s, v)
      PROVE  ThreadTypeOK'
  <2>1. v \in 0 .. MaxSends /\ 0 \in 0 .. MaxSends
    BY BoundsAssumption DEF Items
  <2>2. CASE /\ item' = [item EXCEPT ![s] = v]
             /\ pc' = [pc EXCEPT ![s] = "waitWritable"]
    BY <2>1, <2>2
  <2>3. CASE /\ item' = [item EXCEPT ![s] = 0]
             /\ pc' = [pc EXCEPT ![s] = "idle"]
    BY <2>1, <2>3
  <2>4. ASSUME item' = [item EXCEPT ![s] = 0],
               NEW w \in Receivers, pc' = [pc EXCEPT ![s] = "idle", ![w] = "woken"]
        PROVE  ThreadTypeOK'
    BY <2>1, <2>4
  <2>5. \A w \in Waiting("waitReadable") : w \in Receivers
    OBVIOUS
  <2> QED
    BY <1>1, <2>2, <2>3, <2>4, <2>5
       DEF SendBody, WaitForSpace, RejectClosed, DropNewest, Enqueue, ReturnAndNotifyOne
<1>2. ASSUME NEW r \in Receivers, ReceiveBody(r), UNCHANGED item
      PROVE  ThreadTypeOK'
  <2>1. \/ pc' = [pc EXCEPT ![r] = "waitReadable"]
        \/ pc' = [pc EXCEPT ![r] = "idle"]
        \/ \E w \in Waiting("waitWritable") :
              pc' = [pc EXCEPT ![r] = "idle", ![w] = "woken"]
    BY <1>2 DEF ReceiveBody, WaitForItem, ReceiveNothing, Dequeue, ReturnAndNotifyOne
  <2>2. \A w \in Waiting("waitWritable") : w \in Senders /\ item[w] \in Items
    OBVIOUS
  <2> QED
    BY <1>2, <2>1, <2>2
<1>3. ASSUME NEW s \in Senders, Send(s)
      PROVE  ThreadTypeOK'
  <2>1. calls + 1 \in Items
    BY <1>3, BoundsAssumption DEF Send, HistoryTypeOK, Items
  <2> QED
    BY <1>1, <1>3, <2>1 DEF Send
<1>4. ASSUME NEW s \in Senders, ResumeSend(s)
      PROVE  ThreadTypeOK'
  BY <1>1, <1>4 DEF ResumeSend
<1>5. ASSUME NEW r \in Receivers, Receive(r) \/ ResumeReceive(r) \/ TryReceive(r)
      PROVE  ThreadTypeOK'
  BY <1>2, <1>5 DEF Receive, ResumeReceive, TryReceive, ReceiveBody
<1>6. CASE Close
  BY <1>6 DEF Close
<1>7. ASSUME NEW t \in Threads, SpuriousWakeup(t)
      PROVE  ThreadTypeOK'
  BY <1>7 DEF SpuriousWakeup
<1>8. CASE UNCHANGED vars
  BY <1>8 DEF vars
<1> QED
  BY <1>3, <1>4, <1>5, <1>6, <1>7, <1>8 DEF Next

\* Every reachable state of a channel is well typed: in particular, whatever
\* the policy and however many threads use it, it never holds more items than
\* its capacity.
THEOREM TypeCorrect == Spec => []TypeOK
<1>1. ASSUME Init
      PROVE  TypeOK
  <2>1. QueueTypeOK
    <3>1. /\ policy \in OverflowPolicy /\ capacity \in 1 .. MaxCapacity
          /\ queue = <<>> /\ closed = FALSE
      BY <1>1 DEF Init
    <3>2. queue \in Seq(Items) /\ Len(queue) = 0
      BY <3>1, EmptySeq
    <3>3. closed \in BOOLEAN
      BY <3>1
    <3>4. Len(queue) <= capacity
      BY <3>1, <3>2, BoundsAssumption
    <3> QED
      BY <3>1, <3>2, <3>3, <3>4 DEF QueueTypeOK
  <2>2. StatsTypeOK
    BY <1>1 DEF Init, StatsTypeOK
  <2>3. ThreadTypeOK
    <3>1. pc = [t \in Threads |-> "idle"] /\ item = [s \in Senders |-> 0]
      BY <1>1 DEF Init
    <3>2. pc \in [Threads -> PCs] /\ \A t \in Threads : pc[t] = "idle"
      BY <3>1 DEF PCs
    <3>3. item \in [Senders -> 0 .. MaxSends]
      BY <3>1, BoundsAssumption
    <3> QED
      BY <3>2, <3>3 DEF ThreadTypeOK, Threads
  <2>4. HistoryTypeOK
    BY <1>1, EmptySeq, BoundsAssumption DEF Init, HistoryTypeOK
  <2> QED
    BY <2>1, <2>2, <2>3, <2>4 DEF TypeOK
<1>2. TypeOK /\ [Next]_vars => TypeOK'
  BY StepEffect, QueueTypeStep, StatsTypeStep, ThreadTypeStep, HistoryTypeStep DEF TypeOK
<1> QED
  BY <1>1, <1>2, PTL DEF Spec

-----------------------------------------------------------------------------
(* The queue and its history *)

\* One step keeps the queue a suffix of what was accepted.
LEMMA NewestStep ==
    ASSUME TypeOK, QueueIsNewest, Effect
    PROVE  QueueIsNewest'
<1>1. /\ queue \in Seq(Items) /\ accepted \in Seq(Items) /\ sent \in Nat
      /\ Len(queue) \in Nat /\ Len(accepted) \in Nat
  BY LenProperties DEF TypeOK, QueueTypeOK, StatsTypeOK, HistoryTypeOK
<1>2. /\ Len(accepted) = sent /\ Len(queue) <= Len(accepted)
      /\ \A i \in 1 .. Len(queue) : queue[i] = accepted[Len(accepted) - Len(queue) + i]
  BY DEF QueueIsNewest
<1>3. ASSUME NEW v \in Items, Grows(v), accepted' = Append(accepted, v), sent' = sent + 1
      PROVE  QueueIsNewest'
  <2>1. /\ Len(queue') = Len(queue) + 1
        /\ \A i \in 1 .. Len(queue) : queue'[i] = queue[i]
        /\ queue'[Len(queue) + 1] = v
    BY <1>1, <1>3, AppendFacts DEF Grows
  <2>2. /\ Len(accepted') = Len(accepted) + 1
        /\ \A i \in 1 .. Len(accepted) : accepted'[i] = accepted[i]
        /\ accepted'[Len(accepted) + 1] = v
    BY <1>1, <1>3, AppendFacts
  <2>3. ASSUME NEW i \in 1 .. Len(queue')
        PROVE  queue'[i] = accepted'[Len(accepted') - Len(queue') + i]
    <3>1. CASE i = Len(queue) + 1
      BY <1>1, <2>1, <2>2, <3>1
    <3>2. CASE i \in 1 .. Len(queue)
      <4>1. Len(accepted) - Len(queue) + i \in 1 .. Len(accepted)
        BY <1>1, <1>2, <3>2
      <4> QED
        BY <1>1, <1>2, <2>1, <2>2, <3>2, <4>1
    <3> QED
      BY <1>1, <2>1, <3>1, <3>2
  <2>4. Len(accepted') = sent' /\ Len(queue') <= Len(accepted')
    BY <1>1, <1>2, <1>3, <2>1, <2>2
  <2> QED
    BY <2>3, <2>4 DEF QueueIsNewest
<1>4. ASSUME NEW v \in Items, Replaces(v), accepted' = Append(accepted, v), sent' = sent + 1
      PROVE  QueueIsNewest'
  <2> DEFINE rest == Tail(queue)
  <2>1. /\ rest \in Seq(Items) /\ Len(rest) = Len(queue) - 1 /\ Len(queue) > 0
        /\ \A i \in 1 .. Len(rest) : rest[i] = queue[i + 1]
    BY <1>1, <1>4, TailFacts DEF Replaces
  <2>2. queue' = Append(rest, v)
    BY <1>4 DEF Replaces
  <2> HIDE DEF rest
  <2>3. /\ Len(queue') = Len(queue)
        /\ \A i \in 1 .. Len(queue) - 1 : queue'[i] = queue[i + 1]
        /\ queue'[Len(queue)] = v
    BY <1>1, <2>1, <2>2, AppendFacts
  <2>4. /\ Len(accepted') = Len(accepted) + 1
        /\ \A i \in 1 .. Len(accepted) : accepted'[i] = accepted[i]
        /\ accepted'[Len(accepted) + 1] = v
    BY <1>1, <1>4, AppendFacts
  <2>5. ASSUME NEW i \in 1 .. Len(queue')
        PROVE  queue'[i] = accepted'[Len(accepted') - Len(queue') + i]
    <3>1. CASE i = Len(queue)
      BY <1>1, <2>3, <2>4, <3>1
    <3>2. CASE i \in 1 .. Len(queue) - 1
      <4>1. /\ i + 1 \in 1 .. Len(queue)
            /\ Len(accepted) - Len(queue) + (i + 1) \in 1 .. Len(accepted)
        BY <1>1, <1>2, <3>2
      <4>2. queue[i + 1] = accepted[Len(accepted) - Len(queue) + (i + 1)]
        BY <1>2, <4>1
      <4>3. Len(accepted) - Len(queue) + (i + 1) = Len(accepted') - Len(queue') + i
        BY <1>1, <2>3, <2>4, <3>2
      <4> QED
        BY <2>3, <2>4, <3>2, <4>1, <4>2, <4>3
    <3> QED
      BY <1>1, <2>1, <2>3, <3>1, <3>2
  <2>6. Len(queue') <= Len(accepted') /\ Len(accepted') = sent'
    BY <1>1, <1>2, <1>4, <2>1, <2>3, <2>4
  <2> QED
    BY <2>5, <2>6 DEF QueueIsNewest
<1>5. ASSUME Shrinks, UNCHANGED <<accepted, sent>>
      PROVE  QueueIsNewest'
  <2>1. /\ Len(queue') = Len(queue) - 1
        /\ \A i \in 1 .. Len(queue') : queue'[i] = queue[i + 1]
    BY <1>1, <1>5, TailFacts DEF Shrinks
  <2>2. ASSUME NEW i \in 1 .. Len(queue')
        PROVE  queue'[i] = accepted'[Len(accepted') - Len(queue') + i]
    <3>1. i + 1 \in 1 .. Len(queue)
      BY <1>1, <2>1
    <3>2. queue[i + 1] = accepted[Len(accepted) - Len(queue) + (i + 1)]
      BY <1>2, <3>1
    <3>3. Len(accepted) - Len(queue) + (i + 1) = Len(accepted') - Len(queue') + i
      BY <1>1, <1>5, <2>1
    <3> QED
      BY <1>5, <2>1, <3>2, <3>3
  <2>3. Len(queue') <= Len(accepted') /\ Len(accepted') = sent'
    BY <1>1, <1>2, <1>5, <2>1
  <2> QED
    BY <2>2, <2>3 DEF QueueIsNewest
<1>6. ASSUME UNCHANGED <<queue, accepted, sent>>
      PROVE  QueueIsNewest'
  BY <1>2, <1>6 DEF QueueIsNewest
<1> QED
  BY <1>3, <1>4, <1>5, <1>6 DEF Effect

\* First in, first out, under every policy: what is queued is the newest
\* accepted items in the order they were accepted, so the receiver never sees
\* an older item after a newer one.
THEOREM FirstInFirstOut == Spec => []QueueIsNewest
<1>1. Init => QueueIsNewest
  BY EmptySeq DEF Init, QueueIsNewest
<1>2. TypeOK /\ QueueIsNewest /\ [Next]_vars => QueueIsNewest'
  BY StepEffect, NewestStep
<1> QED
  BY <1>1, <1>2, TypeCorrect, PTL DEF Spec

-----------------------------------------------------------------------------
(* Refinement *)

\* The channel, with its mutex, its wait sets and its counters, implements the
\* atomic queue: every critical section is one of its operations or a stutter.
THEOREM Refinement == Spec => ImplementsLossyQueue
<1> USE DEF Atomic!vars
<1>1. Init => Atomic!Init
  BY DEF Init, Atomic!Init
<1>2. TypeOK /\ [Next]_vars => [Atomic!Next]_Atomic!vars
  <2> SUFFICES ASSUME TypeOK, [Next]_vars
               PROVE  [Atomic!Next]_Atomic!vars
    OBVIOUS
  <2>1. Effect
    BY StepEffect
  <2>2. CASE \E v \in Items : Grows(v) /\ UNCHANGED <<closed, delivered>>
    BY <2>1, <2>2 DEF Effect, config, Grows, Atomic!Next, Atomic!Put
  <2>3. CASE \E v \in Items : Replaces(v) /\ UNCHANGED <<closed, delivered>>
    BY <2>1, <2>3 DEF Effect, config, Replaces, Atomic!Next, Atomic!Replace
  <2>4. CASE /\ Shrinks /\ UNCHANGED closed
             /\ delivered' = Append(delivered, Head(queue))
    BY <2>1, <2>4 DEF Effect, config, Shrinks, Atomic!Next, Atomic!Get
  <2>5. CASE UNCHANGED <<queue, delivered>> /\ closed' \in {closed, TRUE}
    BY <2>1, <2>5 DEF Effect, config, Atomic!Next, Atomic!Close
  <2> QED
    BY <2>1, <2>2, <2>3, <2>4, <2>5 DEF Effect
<1> QED
  BY <1>1, <1>2, TypeCorrect, PTL DEF Spec, ImplementsLossyQueue, Atomic!Spec

-----------------------------------------------------------------------------
(* Notifications *)

\* The threads that were woken and have not run yet can be counted.
LEMMA WokenFinite ==
    /\ IsFiniteSet(WokenSenders) /\ Cardinality(WokenSenders) \in Nat
    /\ IsFiniteSet(WokenReceivers) /\ Cardinality(WokenReceivers) \in Nat
<1>1. WokenSenders \in SUBSET Senders /\ WokenReceivers \in SUBSET Receivers
  BY DEF WokenSenders, WokenReceivers
<1> QED
  BY <1>1, FS_Subset, FS_CardinalityType, ThreadsAssumption

\* NoLostWakeup for one wait set: `woken` threads are on their way to `avail`
\* items or slots while the threads in `waiting` sleep.
Covered(waiting, woken, avail) == waiting # {} => ~closed /\ Cardinality(woken) >= avail

Free == capacity - Len(queue)

LEMMA CoveredForm ==
    NoLostWakeup <=> /\ Covered(Waiting("waitReadable"), WokenReceivers, Len(queue))
                     /\ Covered(Waiting("waitWritable"), WokenSenders, Free)
BY DEF NoLostWakeup, Covered, Free

LEMMA Lengths ==
    ASSUME TypeOK
    PROVE  /\ Len(queue) \in Nat /\ capacity \in Nat /\ Len(queue) <= capacity
           /\ Free \in Nat
           /\ queue # <<>> => Len(queue) > 0
<1>1. queue \in Seq(Items) /\ capacity \in Nat /\ Len(queue) <= capacity
  BY BoundsAssumption DEF TypeOK, QueueTypeOK
<1>2. Len(queue) \in Nat /\ (queue # <<>> => Len(queue) > 0)
  BY <1>1, EmptySeq, LenProperties
<1> QED
  BY <1>1, <1>2 DEF Free

\* How long the queue is after each of its operations.
LEMMA LengthSteps ==
    ASSUME TypeOK
    PROVE  /\ \A v \in Items : Grows(v) => Len(queue') = Len(queue) + 1
           /\ \A v \in Items : Replaces(v) => Len(queue') = Len(queue)
           /\ Shrinks => Len(queue') = Len(queue) - 1
<1>1. queue \in Seq(Items) /\ Len(queue) \in Nat
  BY Lengths DEF TypeOK, QueueTypeOK
<1>2. ASSUME NEW v \in Items, Grows(v)
      PROVE  Len(queue') = Len(queue) + 1
  BY <1>1, <1>2, AppendFacts DEF Grows
<1>3. ASSUME NEW v \in Items, Replaces(v)
      PROVE  Len(queue') = Len(queue)
  <2>1. Tail(queue) \in Seq(Items) /\ Len(Tail(queue)) = Len(queue) - 1
    BY <1>1, <1>3, TailFacts DEF Replaces
  <2>2. Len(Append(Tail(queue), v)) = Len(Tail(queue)) + 1
    BY <2>1, AppendFacts
  <2> QED
    BY <1>1, <1>3, <2>1, <2>2 DEF Replaces
<1>4. ASSUME Shrinks
      PROVE  Len(queue') = Len(queue) - 1
  BY <1>1, <1>4, TailFacts DEF Shrinks
<1> QED
  BY <1>2, <1>3, <1>4

\* A thread that runs (idle or woken) and returns, waking nobody or one thread
\* w that slept on cv, changes the wait sets and the woken threads like this.
LEMMA ReturnSender ==
    ASSUME TypeOK, NEW s \in Senders, pc[s] \in {"idle", "woken"},
           ReturnAndNotifyOne(s, "waitReadable")
    PROVE  /\ Waiting("waitWritable")' = Waiting("waitWritable")
           /\ WokenSenders' = WokenSenders \ {s}
           /\ \/ /\ Waiting("waitReadable") = {} /\ Waiting("waitReadable")' = {}
              \/ /\ Waiting("waitReadable") # {}
                 /\ \E w \in Receivers \ WokenReceivers :
                       WokenReceivers' = WokenReceivers \cup {w}
<1> USE ThreadsAssumption DEF TypeOK, ThreadTypeOK, Threads, Waiting, WokenSenders, WokenReceivers
<1>1. CASE Waiting("waitReadable") = {} /\ pc' = [pc EXCEPT ![s] = "idle"]
  BY <1>1
<1>2. CASE \E w \in Waiting("waitReadable") : pc' = [pc EXCEPT ![s] = "idle", ![w] = "woken"]
  <2>1. PICK w \in Waiting("waitReadable") : pc' = [pc EXCEPT ![s] = "idle", ![w] = "woken"]
    BY <1>2
  <2>2. w \in Receivers /\ w \notin WokenReceivers /\ w # s
    OBVIOUS
  <2>3. WokenReceivers' = WokenReceivers \cup {w}
    BY <2>1, <2>2
  <2>4. WokenSenders' = WokenSenders \ {s}
    BY <2>1, <2>2
  <2>5. Waiting("waitWritable")' = Waiting("waitWritable")
    BY <2>1, <2>2
  <2> QED
    BY <2>2, <2>3, <2>4, <2>5
<1> QED
  BY <1>1, <1>2 DEF ReturnAndNotifyOne

LEMMA ReturnReceiver ==
    ASSUME TypeOK, NEW r \in Receivers, pc[r] \in {"idle", "woken"},
           ReturnAndNotifyOne(r, "waitWritable")
    PROVE  /\ Waiting("waitReadable")' = Waiting("waitReadable")
           /\ WokenReceivers' = WokenReceivers \ {r}
           /\ \/ /\ Waiting("waitWritable") = {} /\ Waiting("waitWritable")' = {}
              \/ /\ Waiting("waitWritable") # {}
                 /\ \E w \in Senders \ WokenSenders :
                       WokenSenders' = WokenSenders \cup {w}
<1> USE ThreadsAssumption DEF TypeOK, ThreadTypeOK, Threads, Waiting, WokenSenders, WokenReceivers
<1>1. CASE Waiting("waitWritable") = {} /\ pc' = [pc EXCEPT ![r] = "idle"]
  BY <1>1
<1>2. CASE \E w \in Waiting("waitWritable") : pc' = [pc EXCEPT ![r] = "idle", ![w] = "woken"]
  <2>1. PICK w \in Waiting("waitWritable") : pc' = [pc EXCEPT ![r] = "idle", ![w] = "woken"]
    BY <1>2
  <2>2. w \in Senders /\ w \notin WokenSenders /\ w # r
    OBVIOUS
  <2>3. WokenSenders' = WokenSenders \cup {w}
    BY <2>1, <2>2
  <2>4. WokenReceivers' = WokenReceivers \ {r}
    BY <2>1, <2>2
  <2>5. Waiting("waitReadable")' = Waiting("waitReadable")
    BY <2>1, <2>2
  <2> QED
    BY <2>2, <2>3, <2>4, <2>5
<1> QED
  BY <1>1, <1>2 DEF ReturnAndNotifyOne

\* Removing a thread lowers the count by at most one, adding one raises it.
LEMMA Counting ==
    ASSUME NEW S, IsFiniteSet(S), NEW x
    PROVE  /\ Cardinality(S \ {x}) \in Nat /\ Cardinality(S \ {x}) >= Cardinality(S) - 1
           /\ Cardinality(S \cup {x}) \in Nat
           /\ x \notin S => Cardinality(S \cup {x}) = Cardinality(S) + 1
BY FS_AddElement, FS_RemoveElement, FS_CardinalityType

\* A send body that runs to its return or to its wait loses no wakeup.
LEMMA SendNoLost ==
    ASSUME TypeOK, NoLostWakeup, NEW s \in Senders, NEW v \in Items,
           pc[s] \in {"idle", "woken"}, SendBody(s, v), UNCHANGED config
    PROVE  NoLostWakeup'
<1>1. /\ Covered(Waiting("waitReadable"), WokenReceivers, Len(queue))
      /\ Covered(Waiting("waitWritable"), WokenSenders, Free)
  BY CoveredForm
<1>2. SUFFICES /\ Covered(Waiting("waitReadable"), WokenReceivers, Len(queue))'
               /\ Covered(Waiting("waitWritable"), WokenSenders, Free)'
  BY DEF NoLostWakeup, Covered, Free
<1>3. CASE WaitForSpace(s, v)
  <2>1. /\ UNCHANGED <<queue, closed, capacity>> /\ ~closed /\ Full
        /\ pc' = [pc EXCEPT ![s] = "waitWritable"]
    BY <1>3 DEF WaitForSpace, config
  <2>2. /\ Waiting("waitReadable")' = Waiting("waitReadable")
        /\ WokenReceivers' = WokenReceivers
        /\ WokenSenders' = WokenSenders \ {s}
    BY <2>1, ThreadsAssumption
       DEF TypeOK, ThreadTypeOK, Threads, Waiting, WokenSenders, WokenReceivers
  <2>3. Free' = 0
    BY <2>1, Lengths DEF Free, Full
  <2>4. Cardinality(WokenSenders') >= 0
    BY <2>2, WokenFinite, Counting
  <2> QED
    BY <1>1, <2>1, <2>2, <2>3, <2>4 DEF Covered
<1>4. ASSUME Return(s), UNCHANGED <<queue, closed, capacity>>, closed \/ Full
      PROVE  /\ Covered(Waiting("waitReadable"), WokenReceivers, Len(queue))'
             /\ Covered(Waiting("waitWritable"), WokenSenders, Free)'
  <2>1. /\ Waiting("waitReadable")' = Waiting("waitReadable")
        /\ Waiting("waitWritable")' = Waiting("waitWritable")
        /\ WokenReceivers' = WokenReceivers
        /\ WokenSenders' = WokenSenders \ {s}
    BY <1>4, ThreadsAssumption
       DEF Return, TypeOK, ThreadTypeOK, Threads, Waiting, WokenSenders, WokenReceivers
  <2>2. Cardinality(WokenSenders') >= 0
    <3>1. Cardinality(WokenSenders \ {s}) \in Nat
      BY WokenFinite, Counting
    <3> QED
      BY <2>1, <3>1
  <2>3. CASE closed
    BY <1>1, <1>4, <2>1, <2>3 DEF Covered
  <2>4. CASE Full /\ ~closed
    <3>1. Free' = 0
      BY <1>4, <2>4, Lengths DEF Free, Full
    <3> QED
      BY <1>1, <1>4, <2>1, <2>2, <2>4, <3>1 DEF Covered
  <2> QED
    BY <1>4, <2>3, <2>4
<1>5. CASE Enqueue(s, v)
  <2>1. /\ ~closed /\ UNCHANGED <<closed, capacity>>
        /\ Grows(v) \/ Replaces(v)
        /\ ReturnAndNotifyOne(s, "waitReadable")
    BY <1>5, FullNotEmpty DEF Enqueue, Grows, Replaces, config, TypeOK
  <2>2. /\ Waiting("waitWritable")' = Waiting("waitWritable")
        /\ WokenSenders' = WokenSenders \ {s}
        /\ \/ /\ Waiting("waitReadable") = {} /\ Waiting("waitReadable")' = {}
           \/ /\ Waiting("waitReadable") # {}
              /\ \E w \in Receivers \ WokenReceivers :
                    WokenReceivers' = WokenReceivers \cup {w}
    BY <2>1, ReturnSender
  <2>3. \/ Len(queue') = Len(queue) + 1
        \/ Len(queue') = Len(queue) /\ Full
    BY <2>1, LengthSteps DEF Replaces
  <2>4. Cardinality(WokenSenders') \in Nat /\ Cardinality(WokenSenders') >= Cardinality(WokenSenders) - 1
    BY <2>2, WokenFinite, Counting
  <2>5. Free' = Free - 1 \/ Free' = 0
    BY <2>1, <2>3, Lengths DEF Free, Full
  <2>6. Covered(Waiting("waitWritable"), WokenSenders, Free)'
    BY <1>1, <2>1, <2>2, <2>4, <2>5, Lengths, WokenFinite DEF Covered
  <2>7. Covered(Waiting("waitReadable"), WokenReceivers, Len(queue))'
    <3>1. CASE Waiting("waitReadable")' = {}
      BY <3>1 DEF Covered
    <3>2. CASE Waiting("waitReadable") # {}
      <4>1. PICK w \in Receivers \ WokenReceivers : WokenReceivers' = WokenReceivers \cup {w}
        BY <2>2, <3>2
      <4>2. Cardinality(WokenReceivers') = Cardinality(WokenReceivers) + 1
        BY <4>1, WokenFinite, Counting
      <4> QED
        BY <1>1, <2>1, <2>3, <3>2, <4>2, Lengths, WokenFinite DEF Covered
    <3> QED
      BY <2>2, <3>1, <3>2
  <2> QED
    BY <2>6, <2>7
<1> QED
  BY <1>3, <1>4, <1>5 DEF SendBody, RejectClosed, DropNewest, config

LEMMA ReceiveNoLost ==
    ASSUME TypeOK, NoLostWakeup, NEW r \in Receivers,
           pc[r] \in {"idle", "woken"}, ReceiveBody(r), UNCHANGED <<config, closed>>
    PROVE  NoLostWakeup'
<1>1. /\ Covered(Waiting("waitReadable"), WokenReceivers, Len(queue))
      /\ Covered(Waiting("waitWritable"), WokenSenders, Free)
  BY CoveredForm
<1>2. SUFFICES /\ Covered(Waiting("waitReadable"), WokenReceivers, Len(queue))'
               /\ Covered(Waiting("waitWritable"), WokenSenders, Free)'
  BY DEF NoLostWakeup, Covered, Free
<1>3. Cardinality(WokenReceivers \ {r}) \in Nat
  BY WokenFinite, Counting
<1>4. UNCHANGED <<capacity, closed>>
  BY DEF config
<1>5. CASE WaitForItem(r)
  <2>1. queue = <<>> /\ UNCHANGED queue /\ pc' = [pc EXCEPT ![r] = "waitReadable"] /\ ~closed
    BY <1>5 DEF WaitForItem
  <2>2. /\ Waiting("waitWritable")' = Waiting("waitWritable")
        /\ WokenSenders' = WokenSenders
        /\ WokenReceivers' = WokenReceivers \ {r}
    BY <2>1, ThreadsAssumption
       DEF TypeOK, ThreadTypeOK, Threads, Waiting, WokenSenders, WokenReceivers
  <2>3. Len(queue') = 0
    BY <2>1, EmptySeq
  <2>4. Free' = Free
    BY <1>4, <2>1 DEF Free
  <2> QED
    BY <1>1, <1>3, <1>4, <2>1, <2>2, <2>3, <2>4 DEF Covered
<1>6. CASE ReceiveNothing(r)
  <2>1. closed /\ UNCHANGED queue /\ pc' = [pc EXCEPT ![r] = "idle"]
    BY <1>6 DEF ReceiveNothing, Return
  <2>2. /\ Waiting("waitWritable")' = Waiting("waitWritable")
        /\ Waiting("waitReadable")' = Waiting("waitReadable")
    BY <2>1, ThreadsAssumption DEF TypeOK, ThreadTypeOK, Threads, Waiting
  <2> QED
    BY <1>1, <2>1, <2>2 DEF Covered
<1>7. CASE Dequeue(r)
  <2>1. Shrinks /\ ReturnAndNotifyOne(r, "waitWritable")
    BY <1>7 DEF Dequeue, Shrinks
  <2>2. /\ Waiting("waitReadable")' = Waiting("waitReadable")
        /\ WokenReceivers' = WokenReceivers \ {r}
        /\ \/ /\ Waiting("waitWritable") = {} /\ Waiting("waitWritable")' = {}
           \/ /\ Waiting("waitWritable") # {}
              /\ \E w \in Senders \ WokenSenders :
                    WokenSenders' = WokenSenders \cup {w}
    BY <2>1, ReturnReceiver
  <2>3. Len(queue') = Len(queue) - 1 /\ Free' = Free + 1
    BY <1>4, <2>1, LengthSteps, Lengths DEF Free
  <2>4. Cardinality(WokenReceivers') \in Nat /\ Cardinality(WokenReceivers') >= Cardinality(WokenReceivers) - 1
    BY <2>2, WokenFinite, Counting
  <2>5. Covered(Waiting("waitReadable"), WokenReceivers, Len(queue))'
    BY <1>1, <1>4, <2>2, <2>3, <2>4, Lengths, WokenFinite DEF Covered
  <2>6. Covered(Waiting("waitWritable"), WokenSenders, Free)'
    <3>1. CASE Waiting("waitWritable")' = {}
      BY <3>1 DEF Covered
    <3>2. CASE Waiting("waitWritable") # {}
      <4>1. PICK w \in Senders \ WokenSenders : WokenSenders' = WokenSenders \cup {w}
        BY <2>2, <3>2
      <4>2. Cardinality(WokenSenders') = Cardinality(WokenSenders) + 1
        BY <4>1, WokenFinite, Counting
      <4> QED
        BY <1>1, <1>4, <2>3, <3>2, <4>2, Lengths, WokenFinite DEF Covered
    <3> QED
      BY <2>2, <3>1, <3>2
  <2> QED
    BY <2>5, <2>6
<1> QED
  BY <1>5, <1>6, <1>7 DEF ReceiveBody

\* One notification per operation is enough: no thread sleeps on a condition
\* variable while there is an item (a free slot) that no woken thread is going
\* to take, and none sleeps on a closed channel, for any number of threads.
THEOREM Wakeups == Spec => []NoLostWakeup
<1>1. Init => NoLostWakeup
  BY DEF Init, NoLostWakeup, Waiting, Threads
<1>2. TypeOK /\ NoLostWakeup /\ [Next]_vars => NoLostWakeup'
  <2> SUFFICES ASSUME TypeOK, NoLostWakeup, [Next]_vars
               PROVE  NoLostWakeup'
    OBVIOUS
  <2>1. ASSUME NEW s \in Senders, Send(s)
        PROVE  NoLostWakeup'
    <3>1. calls + 1 \in Items
      BY <2>1, BoundsAssumption DEF Send, TypeOK, HistoryTypeOK, Items
    <3> QED
      BY <2>1, <3>1, SendNoLost DEF Send
  <2>2. ASSUME NEW s \in Senders, ResumeSend(s)
        PROVE  NoLostWakeup'
    <3>1. item[s] \in Items
      BY <2>2 DEF ResumeSend, TypeOK, ThreadTypeOK
    <3> QED
      BY <2>2, <3>1, SendNoLost DEF ResumeSend
  <2>3. ASSUME NEW r \in Receivers, Receive(r) \/ ResumeReceive(r) \/ TryReceive(r)
        PROVE  NoLostWakeup'
    BY <2>3, ReceiveNoLost DEF Receive, ResumeReceive, TryReceive, ReceiveBody
  <2>4. CASE Close
    <3>1. \A t \in Threads : pc'[t] \notin {"waitWritable", "waitReadable"}
      BY <2>4 DEF Close
    <3> QED
      BY <3>1 DEF NoLostWakeup, Waiting
  <2>5. ASSUME NEW t \in Threads, SpuriousWakeup(t)
        PROVE  NoLostWakeup'
    <3>1. /\ UNCHANGED <<queue, closed, capacity>>
          /\ pc[t] \in {"waitWritable", "waitReadable"} /\ pc' = [pc EXCEPT ![t] = "woken"]
      BY <2>5 DEF SpuriousWakeup, config
    <3>2. /\ Waiting("waitWritable")' \subseteq Waiting("waitWritable")
          /\ Waiting("waitReadable")' \subseteq Waiting("waitReadable")
      BY <3>1 DEF TypeOK, ThreadTypeOK, Waiting
    <3>3. CASE t \in Senders
      <4>1. WokenSenders' = WokenSenders \cup {t} /\ WokenReceivers' = WokenReceivers
        BY <3>1, <3>3, ThreadsAssumption
           DEF TypeOK, ThreadTypeOK, Threads, WokenSenders, WokenReceivers
      <4>2. t \notin WokenSenders
        BY <3>1 DEF WokenSenders
      <4>3. Cardinality(WokenSenders') = Cardinality(WokenSenders) + 1
        BY <4>1, <4>2, WokenFinite, Counting
      <4> QED
        BY <3>1, <3>2, <4>1, <4>3, WokenFinite, Lengths DEF NoLostWakeup, Free
    <3>4. CASE t \in Receivers
      <4>1. WokenReceivers' = WokenReceivers \cup {t} /\ WokenSenders' = WokenSenders
        BY <3>1, <3>4, ThreadsAssumption
           DEF TypeOK, ThreadTypeOK, Threads, WokenSenders, WokenReceivers
      <4>2. t \notin WokenReceivers
        BY <3>1 DEF WokenReceivers
      <4>3. Cardinality(WokenReceivers') = Cardinality(WokenReceivers) + 1
        BY <4>1, <4>2, WokenFinite, Counting
      <4> QED
        BY <3>1, <3>2, <4>1, <4>3, WokenFinite, Lengths DEF NoLostWakeup, Free
    <3> QED
      BY <3>3, <3>4 DEF Threads
  <2>6. CASE UNCHANGED vars
    BY <2>6 DEF vars, NoLostWakeup, Waiting, WokenSenders, WokenReceivers
  <2> QED
    BY <2>1, <2>2, <2>3, <2>4, <2>5, <2>6 DEF Next
<1> QED
  BY <1>1, <1>2, TypeCorrect, PTL DEF Spec

-----------------------------------------------------------------------------
(* Accounting *)

\* What happens to the senders inside send, and to the number of calls that
\* have ended one way or the other.
Ended == sent + Refused + rejected

LEMMA EndedNat ==
    ASSUME TypeOK
    PROVE  /\ Ended \in Nat /\ calls \in Nat
           /\ IsFiniteSet(InSend) /\ Cardinality(InSend) \in Nat
<1>1. InSend \in SUBSET Senders
  BY DEF InSend
<1>2. IsFiniteSet(InSend) /\ Cardinality(InSend) \in Nat
  BY <1>1, FS_Subset, FS_CardinalityType, ThreadsAssumption
<1>3. Ended \in Nat /\ calls \in Nat
  BY BoundsAssumption DEF TypeOK, StatsTypeOK, HistoryTypeOK, Ended, Refused
<1> QED
  BY <1>2, <1>3

\* A send body either leaves its sender inside send or ends exactly one call.
LEMMA SendEnds ==
    ASSUME TypeOK, NEW s \in Senders, NEW v \in Items,
           pc[s] \in {"idle", "woken"}, SendBody(s, v), UNCHANGED config
    PROVE  \/ Ended' = Ended /\ InSend' = InSend \cup {s}
           \/ Ended' = Ended + 1 /\ InSend' = InSend \ {s}
<1> USE ThreadsAssumption DEF config
<1>1. /\ sent \in Nat /\ dropped \in Nat /\ rejected \in Nat
      /\ pc \in [Threads -> PCs]
      /\ \A t \in Senders : pc[t] # "waitReadable"
  BY DEF TypeOK, StatsTypeOK, ThreadTypeOK
<1>2. CASE WaitForSpace(s, v)
  <2>1. InSend' = InSend \cup {s}
    BY <1>1, <1>2 DEF WaitForSpace, InSend, Threads
  <2> QED
    BY <1>2, <2>1 DEF WaitForSpace, stats, Ended, Refused
<1>3. CASE RejectClosed(s)
  <2>1. InSend' = InSend \ {s}
    BY <1>1, <1>3 DEF RejectClosed, Return, InSend, Threads
  <2> QED
    BY <1>1, <1>3, <2>1 DEF RejectClosed, Ended, Refused
<1>4. CASE DropNewest(s)
  <2>1. InSend' = InSend \ {s}
    BY <1>1, <1>4 DEF DropNewest, Return, InSend, Threads
  <2> QED
    BY <1>1, <1>4, <2>1 DEF DropNewest, Ended, Refused
<1>5. CASE Enqueue(s, v)
  <2>1. \/ pc' = [pc EXCEPT ![s] = "idle"]
        \/ \E w \in Threads : pc[w] = "waitReadable" /\ pc' = [pc EXCEPT ![s] = "idle", ![w] = "woken"]
    BY <1>5 DEF Enqueue, ReturnAndNotifyOne, Waiting
  <2>2. InSend' = InSend \ {s}
    BY <1>1, <2>1 DEF InSend, Threads
  <2>3. /\ policy' = policy /\ sent' = sent + 1 /\ rejected' = rejected
        /\ dropped' = dropped \/ policy = "DropOldest"
    BY <1>5 DEF Enqueue
  <2>4. Refused' = Refused
    BY <2>3 DEF Refused
  <2>5. Refused \in Nat
    BY <1>1 DEF Refused
  <2>6. Ended' = Ended + 1
    BY <1>1, <2>3, <2>4, <2>5 DEF Ended
  <2> QED
    BY <2>2, <2>6
<1> QED
  BY <1>2, <1>3, <1>4, <1>5 DEF SendBody

\* A receive body and the other steps end no send call.
LEMMA OthersEndNothing ==
    ASSUME TypeOK,
           \/ \E r \in Receivers : Receive(r) \/ ResumeReceive(r) \/ TryReceive(r)
           \/ Close
           \/ \E t \in Threads : SpuriousWakeup(t)
           \/ UNCHANGED vars
    PROVE  Ended' = Ended /\ InSend' = InSend /\ calls' = calls
<1> USE ThreadsAssumption DEF config, stats, Ended, Refused
<1>1. pc \in [Threads -> PCs] /\ Senders \subseteq Threads /\ Receivers \cap Senders = {}
  BY DEF TypeOK, ThreadTypeOK, Threads
<1>2. ASSUME NEW r \in Receivers, Receive(r) \/ ResumeReceive(r) \/ TryReceive(r)
      PROVE  Ended' = Ended /\ InSend' = InSend /\ calls' = calls
  <2>1. \/ \E to \in PCs : pc' = [pc EXCEPT ![r] = to]
        \/ \E w \in Threads : pc[w] = "waitWritable" /\ pc' = [pc EXCEPT ![r] = "idle", ![w] = "woken"]
    BY <1>2 DEF Receive, ResumeReceive, TryReceive, ReceiveBody, WaitForItem,
                ReceiveNothing, Dequeue, ReturnAndNotifyOne, Return, Waiting, PCs
  <2>2. InSend' = InSend
    BY <1>1, <2>1 DEF InSend
  <2> QED
    BY <1>2, <2>2 DEF Receive, ResumeReceive, TryReceive, ReceiveBody, WaitForItem,
                      ReceiveNothing, Dequeue
<1>3. CASE Close
  BY <1>1, <1>3 DEF Close, InSend
<1>4. ASSUME NEW t \in Threads, SpuriousWakeup(t)
      PROVE  Ended' = Ended /\ InSend' = InSend /\ calls' = calls
  BY <1>1, <1>4 DEF SpuriousWakeup, InSend
<1>5. CASE UNCHANGED vars
  BY <1>5 DEF vars, InSend
<1> QED
  BY <1>2, <1>3, <1>4, <1>5

\* What happened to the items: received, evicted or still queued.
LEMMA ItemsStep ==
    ASSUME TypeOK, Effect, sent = received + Evicted + Len(queue),
           policy = "Block" => dropped = 0
    PROVE  /\ sent' = received' + Evicted' + Len(queue')
           /\ policy' = "Block" => dropped' = 0
<1>1. /\ sent \in Nat /\ received \in Nat /\ dropped \in Nat /\ Len(queue) \in Nat
      /\ policy' = policy /\ UNCHANGED config
  BY Lengths DEF TypeOK, StatsTypeOK, Effect, config
<1> USE DEF Evicted
<1>2. CASE \E v \in Items : Grows(v) /\ sent' = sent + 1 /\ UNCHANGED <<received, dropped>>
  <2>1. Len(queue') = Len(queue) + 1
    BY <1>2, LengthSteps
  <2> QED
    BY <1>1, <1>2, <2>1
<1>3. CASE \E v \in Items : /\ Replaces(v) /\ sent' = sent + 1 /\ dropped' = dropped + 1
                            /\ UNCHANGED received
  <2>1. Len(queue') = Len(queue) /\ policy = "DropOldest"
    BY <1>3, LengthSteps DEF Replaces
  <2> QED
    BY <1>1, <1>3, <2>1
<1>4. CASE Shrinks /\ received' = received + 1 /\ UNCHANGED <<sent, dropped>>
  <2>1. Len(queue') = Len(queue) - 1
    BY <1>4, LengthSteps
  <2> QED
    BY <1>1, <1>4, <2>1
<1>5. CASE /\ UNCHANGED <<queue, sent, received>>
           /\ UNCHANGED dropped \/ (policy = "DropNewest" /\ dropped' = dropped + 1)
  BY <1>1, <1>5
<1> QED
  BY <1>2, <1>3, <1>4, <1>5 DEF Effect

\* The numbers a channel reports always add up: every accepted item was
\* received, evicted or is queued, every send call was accepted, refused,
\* rejected or is still waiting, and a blocking channel drops nothing.
THEOREM CountersAddUp == Spec => []Accounting
<1>1. ASSUME Init
      PROVE  Accounting
  <2>1. InSend = {} /\ Len(queue) = 0
    BY <1>1, EmptySeq DEF Init, InSend, Threads
  <2> QED
    BY <1>1, <2>1, FS_EmptySet DEF Init, Accounting, Evicted, Refused
<1>2. TypeOK /\ Accounting /\ [Next]_vars => Accounting'
  <2> SUFFICES ASSUME TypeOK, Accounting, [Next]_vars
               PROVE  Accounting'
    OBVIOUS
  <2>1. /\ sent' = received' + Evicted' + Len(queue')
        /\ policy' = "Block" => dropped' = 0
    BY StepEffect, ItemsStep DEF Accounting
  <2>2. calls = Ended + Cardinality(InSend)
    BY DEF Accounting, Ended
  <2>3. calls' = Ended' + Cardinality(InSend')
    <3>1. ASSUME NEW s \in Senders, Send(s)
          PROVE  calls' = Ended' + Cardinality(InSend')
      <4>1. calls + 1 \in Items /\ calls' = calls + 1 /\ s \notin InSend
        BY <3>1, BoundsAssumption DEF Send, TypeOK, HistoryTypeOK, Items, InSend
      <4>2. \/ Ended' = Ended /\ InSend' = InSend \cup {s}
            \/ Ended' = Ended + 1 /\ InSend' = InSend \ {s}
        BY <3>1, <4>1, SendEnds DEF Send
      <4>3. InSend \ {s} = InSend
        BY <4>1
      <4> QED
        BY <2>2, <4>1, <4>2, <4>3, EndedNat, Counting
    <3>2. ASSUME NEW s \in Senders, ResumeSend(s)
          PROVE  calls' = Ended' + Cardinality(InSend')
      <4>1. item[s] \in Items /\ calls' = calls /\ s \in InSend
        BY <3>2 DEF ResumeSend, TypeOK, ThreadTypeOK, InSend
      <4>2. \/ Ended' = Ended /\ InSend' = InSend \cup {s}
            \/ Ended' = Ended + 1 /\ InSend' = InSend \ {s}
        BY <3>2, <4>1, SendEnds DEF ResumeSend
      <4>3. InSend \cup {s} = InSend
        BY <4>1
      <4>4. Cardinality(InSend \ {s}) = Cardinality(InSend) - 1
        BY <4>1, EndedNat, FS_RemoveElement, Zenon
      <4> QED
        BY <2>2, <4>1, <4>2, <4>3, <4>4, EndedNat
    <3>3. CASE \/ \E r \in Receivers : Receive(r) \/ ResumeReceive(r) \/ TryReceive(r)
               \/ Close
               \/ \E t \in Threads : SpuriousWakeup(t)
               \/ UNCHANGED vars
      BY <2>2, <3>3, OthersEndNothing
    <3> QED
      BY <3>1, <3>2, <3>3 DEF Next
  <2> QED
    BY <2>1, <2>3 DEF Accounting, Ended
<1> QED
  BY <1>1, <1>2, TypeCorrect, PTL DEF Spec
=============================================================================
