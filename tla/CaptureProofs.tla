---------------------------- MODULE CaptureProofs ----------------------------
(* Proofs about the two ends of a live capture.  The first part is about    *)
(* FrameSynchronizer, for every number of cameras, capacity of the buffers, *)
(* tolerance and policy; the second about LiveCapture, for every set of     *)
(* configurations and number of connections; the third about CaptureClock,  *)
(* for every window, capacity of the channel, delay and opening times.      *)
EXTENDS FrameSynchronizer, LiveCapture, CaptureClock, DataTheorems

-----------------------------------------------------------------------------
(* Sequences, and the largest and the smallest of some instants.            *)

LEMMA RemovedAt ==
    ASSUME NEW S, NEW q \in Seq(S), NEW i \in 1 .. Len(q)
    PROVE  /\ RemoveAt(q, i) \in Seq(S)
           /\ Len(RemoveAt(q, i)) = Len(q) - 1
           /\ \A j \in 1 .. Len(q) - 1 : RemoveAt(q, i)[j] = IF j < i THEN q[j] ELSE q[j + 1]
<1>1. Len(q) \in Nat
  BY LenProperties
<1> DEFINE front == SubSeq(q, 1, i - 1)
           back == SubSeq(q, i + 1, Len(q))
<1>2. /\ front \in Seq(S) /\ Len(front) = i - 1
      /\ \A j \in 1 .. i - 1 : front[j] = q[j]
  BY <1>1, SubSeqProperties
<1>3. /\ back \in Seq(S) /\ Len(back) = Len(q) - i
      /\ \A j \in 1 .. Len(q) - i : back[j] = q[j + i]
  BY <1>1, SubSeqProperties
<1>4. RemoveAt(q, i) = front \o back
  BY DEF RemoveAt
<1> HIDE DEF front, back
<1>5. /\ front \o back \in Seq(S) /\ Len(front \o back) = Len(front) + Len(back)
      /\ \A j \in 1 .. Len(front) + Len(back) :
           (front \o back)[j] = IF j <= Len(front) THEN front[j] ELSE back[j - Len(front)]
  BY <1>2, <1>3, ConcatProperties
<1>6. Len(front) + Len(back) = Len(q) - 1
  BY <1>1, <1>2, <1>3
<1>7. ASSUME NEW j \in 1 .. Len(q) - 1
      PROVE  RemoveAt(q, i)[j] = IF j < i THEN q[j] ELSE q[j + 1]
  <2>1. CASE j < i
    BY <1>1, <1>2, <1>4, <1>5, <1>6, <2>1
  <2>2. CASE ~(j < i)
    <3>1. /\ j - (i - 1) \in 1 .. Len(q) - i /\ (j - (i - 1)) + i = j + 1
          /\ ~(j <= i - 1)
      BY <1>1, <2>2
    <3>2. (front \o back)[j] = back[j - (i - 1)]
      BY <1>2, <1>5, <1>6, <3>1
    <3> QED
      BY <1>3, <1>4, <2>2, <3>1, <3>2
  <2> QED
    BY <2>1, <2>2
<1> QED
  BY <1>4, <1>5, <1>6, <1>7

LEMMA ExtremesExist ==
    ASSUME NEW n \in Nat, NEW S \in SUBSET (0 .. n), S # {}
    PROVE  /\ Max(S) \in S /\ \A x \in S : x <= Max(S)
           /\ Min(S) \in S /\ \A x \in S : Min(S) <= x
<1>1. \E m \in S : \A x \in S : m >= x
  BY GreatestExists
<1>2. \E m \in S : \A x \in S : m <= x
  BY LeastExists
<1>3. Max(S) \in S /\ \A x \in S : Max(S) >= x
  BY <1>1 DEF Max
<1>4. Min(S) \in S /\ \A x \in S : Min(S) <= x
  BY <1>2 DEF Min
<1> QED
  BY <1>3, <1>4

-----------------------------------------------------------------------------
(* The inductive invariant.                                                 *)

Places == {"top", "drain", "match", "check", "partial", "finish", "done"}

\* A batch has a frame of each camera of a group; no batch is empty.
Batches == UNION {[G -> Instants] : G \in (SUBSET Cameras) \ {{}}}

Producers ==
    /\ now \in Instants
    /\ lastSent \in [Cameras -> Instants \cup {-1}]
    /\ inClosed \in [Cameras -> BOOLEAN]

Flags == outClosed \in BOOLEAN /\ stopping \in BOOLEAN /\ flush \in BOOLEAN

Queues ==
    /\ input \in [Cameras -> Seq(Instants)]
    /\ buffers \in [Cameras -> Seq(Instants)]
    /\ \A c \in Cameras : Len(input[c]) <= Capacity /\ Len(buffers[c]) <= Capacity

Worker == pc \in Places /\ turn \in 1 .. setup.cameras + 1

Counts ==
    /\ emitted \in Nat /\ dropped \in Nat /\ partial \in Nat /\ refused \in Nat
    /\ received \in [Cameras -> Nat]

History == batches \in Seq(Batches) /\ discarded \subseteq Cameras \X Instants

Types ==
    setup \in Setups /\ Producers /\ Flags /\ Queues /\ Worker /\ Counts /\ History

\* The instants of a sequence grow from one to the next.
Grows(q) == \A i, j \in 1 .. Len(q) : i < j => q[i] < q[j]

\* A camera's frames stay in the order it sent them, those in its channel q after
\* those in its buffer b and none after the last one sent.
OrderOf(b, q, last) ==
    /\ Grows(b) /\ Grows(q)
    /\ \A i \in 1 .. Len(b) : b[i] <= last /\ \A j \in 1 .. Len(q) : b[i] < q[j]
    /\ \A j \in 1 .. Len(q) : q[j] <= last

InOrder == \A c \in Cameras : OrderOf(buffers[c], input[c], lastSent[c])

\* emit_expired_partial() runs under the one policy only.
PartialIsAllowed == pc = "partial" => setup.policy = "EmitPartial"

\* No two frames of a batch are further apart than sync_tolerance.
BatchIsClose(batch) == \A c, d \in DOMAIN batch : batch[c] - batch[d] <= Tolerance

BatchesFit ==
    \A i \in 1 .. Len(batches) :
       /\ BatchIsClose(batches[i])
       /\ setup.policy = "DropBatch" => DOMAIN batches[i] = Cameras

\* A camera with a buffer b and a channel q has only frames later than t.
Passed(b, q, last, t) ==
    /\ last > t
    /\ \A i \in 1 .. Len(b) : b[i] > t
    /\ \A i \in 1 .. Len(q) : q[i] > t

\* There is such a camera for every discarded frame.
DiscardsFit ==
    \A f \in discarded : \E c \in Cameras :
       Passed(buffers[c], input[c], lastSent[c], f[2] + Tolerance)

Inv ==
    /\ Types
    /\ InOrder
    /\ PartialIsAllowed
    /\ BatchesFit
    /\ DiscardsFit
    /\ FramesAddUp

-----------------------------------------------------------------------------
(* The choices match() makes are made: CHOOSE finds the element its comment *)
(* describes.                                                               *)

LEMMA Parameters ==
    ASSUME setup \in Setups
    PROVE  /\ setup.cameras \in Nat /\ setup.cameras > 1
           /\ Capacity \in Nat /\ Capacity > 0
           /\ Tolerance \in Nat /\ setup.maxTime \in Nat /\ setup.policy \in Policies
           /\ IsFiniteSet(Cameras) /\ 1 \in Cameras
<1>1. setup \in [cameras : Nat \ {0, 1}, capacity : Nat \ {0}, tolerance : Nat,
                 policy : Policies, maxTime : Nat]
  BY SyncAssumption
<1>2. /\ setup.cameras \in Nat /\ setup.cameras > 1
      /\ setup.capacity \in Nat /\ setup.capacity > 0
      /\ setup.tolerance \in Nat /\ setup.maxTime \in Nat /\ setup.policy \in Policies
  BY <1>1
<1>3. IsFiniteSet(1 .. setup.cameras)
  <2>1. setup.cameras \in Int /\ 1 \in Int
    BY <1>2
  <2> QED
    BY <2>1, FS_Interval
<1> QED
  BY <1>2, <1>3 DEF Capacity, Tolerance, Cameras

\* The order of the candidates, and the first of some of them.
Precedes(k, j, m) == \E c \in 1 .. m : k[c] < j[c] /\ \A d \in 1 .. c - 1 : k[d] = j[d]
FirstOf(B, k, n) == k \in B /\ \A j \in B \ {k} : Precedes(k, j, n)

LEMMA FirstExists ==
    ASSUME NEW n \in Nat, NEW B, B # {}, B \in SUBSET [1 .. n -> Nat]
    PROVE  \E k : FirstOf(B, k, n)
<1> USE DEF Precedes
<1> DEFINE Agree(k, j, m) == \A d \in 1 .. m : j[d] = k[d]
           First(k, m) == \A j \in B : Agree(k, j, m) \/ Precedes(k, j, m)
           Missed == {m \in 0 .. n : ~\E k \in B : First(k, m)}
<1>1. 0 \notin Missed
  BY DEF First
<1>2. Missed = {}
  <2> SUFFICES ASSUME Missed # {} PROVE FALSE
    OBVIOUS
  <2>1. /\ Missed \in SUBSET (0 .. n)
        /\ \A i \in 0 .. n : i \notin Missed => \E k \in B : First(k, i)
        /\ \A i \in Missed : ~\E k \in B : First(k, i)
    <3> HIDE DEF First
    <3> QED
      OBVIOUS
  <2> HIDE DEF Missed, First
  <2>0. Missed \in SUBSET Nat
    BY <2>1
  <2>2. PICK m \in Missed : \A i \in Missed : m <= i
    BY <2>0, LeastExists
  <2>3. m \in 1 .. n /\ m - 1 \in 0 .. n /\ m - 1 \notin Missed
    BY <1>1, <2>1, <2>2
  <2>4. PICK k \in B : First(k, m - 1)
    BY <2>1, <2>3
  <2> USE DEF First
  <2> DEFINE E == {j \in B : Agree(k, j, m - 1)}
             V == {j[m] : j \in E}
  <2>5. k \in E /\ V \in SUBSET Nat /\ V # {}
    <3>1. k \in E /\ E # {}
      BY <2>4
    <3>2. \A j \in B : j[m] \in Nat
      BY <2>3
    <3> HIDE DEF Agree
    <3>3. V \in SUBSET Nat
      BY <3>2
    <3> QED
      BY <3>1, <3>3
  <2>6. PICK v \in V : \A w \in V : v <= w
    BY <2>5, LeastExists
  <2>7. PICK e \in E : e[m] = v
    BY <2>6
  <2>8. ASSUME NEW j \in B
        PROVE  Agree(e, j, m) \/ Precedes(e, j, m)
    <3>1. CASE Agree(k, j, m - 1)
      <4>1. j[m] \in V
        BY <3>1
      <4>2. e[m] <= j[m] /\ e[m] \in Nat /\ j[m] \in Nat
        BY <2>3, <2>6, <2>7, <4>1
      <4>3. CASE e[m] = j[m]
        <5>1. \A d \in 1 .. m : d \in 1 .. m - 1 \/ d = m
          BY <2>3
        <5>2. Agree(e, j, m)
          BY <2>7, <3>1, <4>3, <5>1
        <5> QED
          BY <5>2
      <4>4. CASE e[m] < j[m]
        <5>1. \A d \in 1 .. m - 1 : e[d] = j[d]
          BY <2>7, <3>1
        <5>2. m \in 1 .. m
          BY <2>3
        <5>3. Precedes(e, j, m)
          BY <4>4, <5>1, <5>2, Zenon
        <5> HIDE DEF Agree, Precedes
        <5> QED
          BY <5>3
      <4> QED
        <5>0. \A x, y \in Nat : x <= y => x = y \/ x < y
          OBVIOUS
        <5>1. e[m] = j[m] \/ e[m] < j[m]
          BY <4>2, <5>0, Zenon
        <5> HIDE DEF Agree, Precedes
        <5> QED
          BY <4>3, <4>4, <5>1
    <3>2. CASE Precedes(k, j, m - 1)
      <4>1. PICK c \in 1 .. m - 1 : k[c] < j[c] /\ \A d \in 1 .. c - 1 : k[d] = j[d]
        BY <3>2
      <4>2. c \in 1 .. m /\ \A d \in 1 .. c - 1 : d \in 1 .. m - 1
        BY <2>3
      <4>3. \A d \in 1 .. m - 1 : e[d] = k[d]
        BY <2>7
      <4> QED
        BY <4>1, <4>2, <4>3
    <3> QED
      BY <2>4, <3>1, <3>2
  <2>9. First(e, m)
    BY <2>8
  <2>10. e \in B
    BY <2>7
  <2> HIDE DEF E, V, First
  <2> QED
    BY <2>1, <2>2, <2>9, <2>10
<1>3. PICK k \in B : First(k, n)
  <2>1. n \in 0 .. n
    OBVIOUS
  <2> HIDE DEF First
  <2> QED
    BY <1>2, <2>1
<1>4. ASSUME NEW j \in B \ {k}
      PROVE  Precedes(k, j, n)
  <2>1. ~Agree(k, j, n)
    OBVIOUS
  <2> QED
    BY <1>3, <2>1
<1> QED
  BY <1>4 DEF FirstOf

LEMMA CandidateTimes ==
    ASSUME setup \in Setups, Queues, NEW k \in Candidates
    PROVE  /\ \A c \in Cameras : k[c] \in 1 .. Len(buffers[c]) /\ buffers[c][k[c]] \in Instants
           /\ k \in [Cameras -> Nat]
           /\ Skew(k) \in Nat /\ Latest(k) \in Nat
           /\ \A c, d \in Cameras : buffers[c][k[c]] - buffers[d][k[d]] <= Skew(k)
           /\ \A e \in Nat : (\A c, d \in Cameras : buffers[c][k[c]] - buffers[d][k[d]] <= e)
                             => Skew(k) <= e
<1>1. k \in [Cameras -> 1 .. Capacity] /\ \A c \in Cameras : k[c] <= Len(buffers[c])
  BY DEF Candidates
<1>2. Capacity \in Nat /\ setup.maxTime \in Nat /\ 1 \in Cameras
  BY Parameters
<1>3. k \in [Cameras -> Nat]
  BY <1>1, <1>2
<1>4. ASSUME NEW c \in Cameras
      PROVE  k[c] \in 1 .. Len(buffers[c]) /\ buffers[c][k[c]] \in Instants
  <2>1. buffers[c] \in Seq(Instants) /\ Len(buffers[c]) \in Nat
    BY LenProperties DEF Queues
  <2>2. k[c] \in 1 .. Len(buffers[c])
    BY <1>1, <1>2, <2>1
  <2> QED
    BY <2>1, <2>2, ElementOfSeq
<1>5. Times(k) \in SUBSET (0 .. setup.maxTime) /\ Times(k) # {}
  BY <1>2, <1>4 DEF Times, Instants
<1>6. /\ Max(Times(k)) \in Times(k) /\ \A x \in Times(k) : x <= Max(Times(k))
      /\ Min(Times(k)) \in Times(k) /\ \A x \in Times(k) : Min(Times(k)) <= x
  BY <1>2, <1>5, ExtremesExist
<1>7. Max(Times(k)) \in Nat /\ Min(Times(k)) \in Nat /\ Min(Times(k)) <= Max(Times(k))
  BY <1>2, <1>5, <1>6
<1>8. Skew(k) \in Nat /\ Latest(k) \in Nat
  BY <1>7 DEF Skew, Latest
<1>9. ASSUME NEW c \in Cameras, NEW d \in Cameras
      PROVE  buffers[c][k[c]] - buffers[d][k[d]] <= Skew(k)
  <2>1. buffers[c][k[c]] \in Times(k) /\ buffers[d][k[d]] \in Times(k)
    BY DEF Times
  <2>2. /\ buffers[c][k[c]] <= Max(Times(k)) /\ Min(Times(k)) <= buffers[d][k[d]]
        /\ buffers[c][k[c]] \in Nat /\ buffers[d][k[d]] \in Nat
    BY <1>2, <1>4, <1>6, <2>1 DEF Instants
  <2> QED
    BY <1>7, <2>2 DEF Skew
<1>10. ASSUME NEW e \in Nat, \A c, d \in Cameras : buffers[c][k[c]] - buffers[d][k[d]] <= e
       PROVE  Skew(k) <= e
  <2>1. PICK c \in Cameras : Max(Times(k)) = buffers[c][k[c]]
    BY <1>6 DEF Times
  <2>2. PICK d \in Cameras : Min(Times(k)) = buffers[d][k[d]]
    BY <1>6 DEF Times
  <2> QED
    BY <1>10, <2>1, <2>2 DEF Skew
<1> QED
  BY <1>3, <1>4, <1>8, <1>9, <1>10

LEMMA BestIsAMatch ==
    ASSUME setup \in Setups, Queues, Matches # {}
    PROVE  Best \in Matches
<1>1. \A k \in Matches : k \in [1 .. setup.cameras -> Nat] /\ Skew(k) \in Nat /\ Latest(k) \in Nat
  BY CandidateTimes DEF Matches, Cameras
<1> DEFINE Skews == {Skew(k) : k \in Matches}
<1>2. Skews \in SUBSET Nat /\ Skews # {}
  BY <1>1
<1>3. PICK s \in Skews : \A x \in Skews : s <= x
  BY <1>2, LeastExists
<1> DEFINE Tight == {k \in Matches : Skew(k) = s}
           Lates == {Latest(k) : k \in Tight}
<1>4. Tight # {}
  BY <1>3
<1>5. Lates \in SUBSET Nat /\ Lates # {}
  BY <1>1, <1>4
<1>6. PICK l \in Lates : \A x \in Lates : l <= x
  BY <1>5, LeastExists
<1> DEFINE Early == {k \in Tight : Latest(k) = l}
<1>7. Early # {} /\ Early \in SUBSET [1 .. setup.cameras -> Nat] /\ setup.cameras \in Nat
  BY <1>1, <1>6, Parameters
<1> HIDE DEF Early
<1>8. PICK k : FirstOf(Early, k, setup.cameras)
  BY <1>7, FirstExists
<1> USE DEF Early
<1>9. ASSUME NEW j \in Matches \ {k}
      PROVE  Better(k, j)
  <2>1. Skew(k) = s /\ Latest(k) = l /\ s \in Nat /\ l \in Nat
    BY <1>2, <1>5, <1>8 DEF FirstOf
  <2>2. s <= Skew(j) /\ Skew(j) \in Nat /\ Latest(j) \in Nat
    BY <1>1, <1>3
  <2>3. CASE s < Skew(j)
    BY <2>1, <2>3 DEF Better
  <2>4. CASE s = Skew(j)
    <3>1. l <= Latest(j)
      BY <1>6, <2>4
    <3>2. CASE l < Latest(j)
      BY <2>1, <2>4, <3>2 DEF Better
    <3>3. CASE l = Latest(j)
      <4>1. Before(k, j)
        BY <1>8, <2>4, <3>3 DEF Before, Cameras, FirstOf, Precedes
      <4> QED
        BY <2>1, <2>4, <3>3, <4>1 DEF Better
    <3> QED
      BY <2>1, <2>2, <3>1, <3>2, <3>3
  <2> QED
    BY <2>1, <2>2, <2>3, <2>4
<1>10. k \in Matches
  BY <1>8 DEF FirstOf
<1> QED
  BY <1>9, <1>10 DEF Best

LEMMA OldestFrontIsOldest ==
    ASSUME setup \in Setups, Queues, NEW e \in Cameras, buffers[e] # << >>
    PROVE  /\ OldestFront \in Cameras /\ buffers[OldestFront] # << >>
           /\ \A d \in Cameras : buffers[d] # << >> =>
                Head(buffers[OldestFront]) <= Head(buffers[d])
<1> DEFINE Full == {c \in Cameras : buffers[c] # << >>}
           Fronts == {Head(buffers[c]) : c \in Full}
<1>1. \A c \in Full : Head(buffers[c]) \in Nat
  <2> SUFFICES ASSUME NEW c \in Full PROVE Head(buffers[c]) \in Nat
    OBVIOUS
  <2>1. buffers[c] \in Seq(Instants) /\ buffers[c] # << >>
    BY DEF Queues
  <2>2. Head(buffers[c]) \in Instants
    BY <2>1, Popped
  <2> QED
    BY <2>2, Parameters DEF Instants
<1>2. Fronts \in SUBSET Nat /\ Fronts # {}
  BY <1>1
<1>3. PICK f \in Fronts : \A x \in Fronts : f <= x
  BY <1>2, LeastExists
<1> DEFINE Olds == {c \in Full : Head(buffers[c]) = f}
<1>4. Olds \in SUBSET Nat /\ Olds # {}
  BY <1>3, Parameters DEF Cameras
<1>5. PICK m \in Olds : \A x \in Olds : m <= x
  BY <1>4, LeastExists
<1>6. ASSUME NEW d \in Cameras \ {m}, buffers[d] # << >>
      PROVE  \/ Head(buffers[m]) < Head(buffers[d])
             \/ Head(buffers[m]) = Head(buffers[d]) /\ m < d
  <2>1. d \in Full /\ Head(buffers[d]) \in Fronts /\ Head(buffers[m]) = f
    BY <1>5, <1>6
  <2>2. f <= Head(buffers[d]) /\ Head(buffers[d]) \in Nat /\ f \in Nat
    BY <1>1, <1>2, <1>3, <2>1
  <2>3. CASE f = Head(buffers[d])
    <3>1. d \in Olds /\ d \in Nat /\ m \in Nat /\ m # d
      BY <1>4, <1>5, <2>1, <2>3
    <3>2. m <= d
      BY <1>5, <3>1
    <3> QED
      BY <2>1, <2>3, <3>1, <3>2
  <2> QED
    BY <2>1, <2>2, <2>3
<1>7. m \in Cameras /\ buffers[m] # << >>
  BY <1>5
<1>8. /\ OldestFront \in Cameras /\ buffers[OldestFront] # << >>
      /\ \A d \in Cameras \ {OldestFront} : buffers[d] # << >> =>
           \/ Head(buffers[OldestFront]) < Head(buffers[d])
           \/ Head(buffers[OldestFront]) = Head(buffers[d]) /\ OldestFront < d
  BY <1>6, <1>7 DEF OldestFront
<1>9. ASSUME NEW d \in Cameras, buffers[d] # << >>
      PROVE  Head(buffers[OldestFront]) <= Head(buffers[d])
  <2>1. d \in Full /\ OldestFront \in Full
    BY <1>8, <1>9
  <2>2. Head(buffers[d]) \in Nat /\ Head(buffers[OldestFront]) \in Nat
    BY <1>1, <2>1
  <2> QED
    BY <1>8, <1>9, <2>2
<1> QED
  BY <1>8, <1>9

-----------------------------------------------------------------------------
(* What a step does to the buffers.                                         *)

\* r is q without one of its elements.
LosesOne(q, r) ==
    \E i \in 1 .. Len(q) :
       /\ Len(r) = Len(q) - 1
       /\ \A j \in 1 .. Len(q) - 1 : r[j] = IF j < i THEN q[j] ELSE q[j + 1]

LEMMA LessIsOrdered ==
    ASSUME NEW S, NEW q \in Seq(S), NEW r \in Seq(S), LosesOne(q, r)
    PROVE  /\ Len(q) \in Nat /\ Len(q) > 0 /\ Len(r) = Len(q) - 1
           /\ \A j \in 1 .. Len(r) : \E i \in 1 .. Len(q) : r[j] = q[i]
           /\ Grows(q) => Grows(r)
<1>1. Len(q) \in Nat
  BY LenProperties
<1>2. PICK i \in 1 .. Len(q) :
         /\ Len(r) = Len(q) - 1
         /\ \A j \in 1 .. Len(q) - 1 : r[j] = IF j < i THEN q[j] ELSE q[j + 1]
  BY DEF LosesOne
<1>3. ASSUME NEW j \in 1 .. Len(r)
      PROVE  \E k \in 1 .. Len(q) : r[j] = q[k]
  <2>1. j \in 1 .. Len(q) /\ j + 1 \in 1 .. Len(q) /\ j \in 1 .. Len(q) - 1
    BY <1>1, <1>2
  <2> QED
    BY <1>2, <2>1
<1>4. ASSUME Grows(q), NEW j \in 1 .. Len(r), NEW k \in 1 .. Len(r), j < k
      PROVE  r[j] < r[k]
  <2> DEFINE p(x) == IF x < i THEN x ELSE x + 1
  <2>1. p(j) \in 1 .. Len(q) /\ p(k) \in 1 .. Len(q) /\ p(j) < p(k)
    BY <1>1, <1>2, <1>4
  <2>2. r[j] = q[p(j)] /\ r[k] = q[p(k)]
    BY <1>1, <1>2
  <2> HIDE DEF p
  <2> QED
    BY <1>4, <2>1, <2>2 DEF Grows
<1> QED
  BY <1>1, <1>2, <1>3, <1>4 DEF Grows

LEMMA RemoveLosesOne ==
    ASSUME NEW S, NEW q \in Seq(S), NEW i \in 1 .. Len(q)
    PROVE  RemoveAt(q, i) \in Seq(S) /\ LosesOne(q, RemoveAt(q, i))
BY RemovedAt DEF LosesOne

LEMMA TailLosesOne ==
    ASSUME NEW S, NEW q \in Seq(S), q # << >>
    PROVE  Tail(q) \in Seq(S) /\ LosesOne(q, Tail(q))
<1>1. /\ Len(q) \in Nat \ {0} /\ Tail(q) \in Seq(S) /\ Len(Tail(q)) = Len(q) - 1
      /\ \A i \in 1 .. Len(Tail(q)) : Tail(q)[i] = q[i + 1]
  BY Popped
<1>2. /\ 1 \in 1 .. Len(q)
      /\ \A j \in 1 .. Len(q) - 1 : Tail(q)[j] = IF j < 1 THEN q[j] ELSE q[j + 1]
  BY <1>1
<1> QED
  BY <1>1, <1>2 DEF LosesOne

\* The cameras of G lose one frame each.
Leave(G) ==
    /\ buffers' \in [Cameras -> Seq(Instants)]
    /\ \A c \in Cameras : IF c \in G THEN LosesOne(buffers[c], buffers'[c])
                                     ELSE buffers'[c] = buffers[c]

NothingMoves ==
    UNCHANGED <<setup, lastSent, input, buffers, received, dropped, refused,
                batches, discarded>>

\* match() and emit_expired_partial() form a batch.
BatchLeaves ==
    /\ \E G \in (SUBSET Cameras) \ {{}} : \E batch \in [G -> Instants], at \in {"check", "finish"} :
          /\ Leave(G)
          /\ BatchIsClose(batch)
          /\ setup.policy = "DropBatch" => G = Cameras
          /\ SendBatch(batch, at)
    /\ UNCHANGED <<setup, lastSent, input, received, dropped, discarded>>

\* match() gives a frame up; one camera has only frames too late for it.
OneLeaves ==
    /\ \E c \in Cameras :
          /\ buffers[c] # << >>
          /\ Leave({c})
          /\ discarded' = discarded \cup {<<c, buffers[c][1]>>}
          /\ \E d \in Cameras \ {c} :
                /\ buffers[d] # << >>
                /\ \A i \in 1 .. Len(buffers[d]) : buffers[d][i] > buffers[c][1] + Tolerance
    /\ dropped' = dropped + 1
    /\ UNCHANGED <<setup, lastSent, input, received, refused, batches>>

RestLeaves ==
    /\ buffers' = [c \in Cameras |-> << >>]
    /\ dropped' = dropped + Buffered
    /\ UNCHANGED <<setup, lastSent, input, received, refused, batches, discarded>>

Drains == \E c \in Cameras : DrainFrame(c)
Sends == \E c \in Cameras, t \in Instants : CameraSends(c, t)

LEMMA MatchTakesOneOfEach ==
    ASSUME Inv, EmitMatch,
           UNCHANGED <<setup, producers, input, turn, flush, partial, received>>
    PROVE  BatchLeaves
<1>1. setup \in Setups /\ Queues
  BY DEF Inv, Types
<1>2. Best \in Candidates /\ Skew(Best) <= Tolerance
  BY <1>1, BestIsAMatch DEF EmitMatch, Matches
<1>3. /\ \A c \in Cameras : Best[c] \in 1 .. Len(buffers[c]) /\ buffers[c][Best[c]] \in Instants
      /\ Skew(Best) \in Nat
      /\ \A c, d \in Cameras : buffers[c][Best[c]] - buffers[d][Best[d]] <= Skew(Best)
  BY <1>1, <1>2, CandidateTimes
<1> DEFINE b == Best
<1> HIDE DEF b
<1>4. /\ buffers' = [c \in Cameras |-> RemoveAt(buffers[c], b[c])]
      /\ SendBatch([c \in Cameras |-> buffers[c][b[c]]], "check")
      /\ UNCHANGED <<setup, lastSent, input, received, dropped, discarded>>
  BY DEF EmitMatch, producers, b
<1>5. /\ \A c \in Cameras : b[c] \in 1 .. Len(buffers[c]) /\ buffers[c][b[c]] \in Instants
      /\ \A c, d \in Cameras : buffers[c][b[c]] - buffers[d][b[d]] <= Skew(b)
      /\ Skew(b) \in Nat /\ Skew(b) <= Tolerance
  BY <1>2, <1>3 DEF b
<1>6. Cameras \in (SUBSET Cameras) \ {{}} /\ Tolerance \in Nat /\ setup.maxTime \in Nat
  BY <1>1, Parameters
<1>7. Leave(Cameras)
  <2>1. \A c \in Cameras : /\ RemoveAt(buffers[c], b[c]) \in Seq(Instants)
                           /\ LosesOne(buffers[c], RemoveAt(buffers[c], b[c]))
    BY <1>1, <1>5, RemoveLosesOne DEF Queues
  <2> QED
    BY <1>4, <2>1 DEF Leave
<1>8. PICK batch : batch = [c \in Cameras |-> buffers[c][b[c]]]
  OBVIOUS
<1>9. batch \in [Cameras -> Instants] /\ SendBatch(batch, "check")
  BY <1>4, <1>5, <1>8
<1>10. BatchIsClose(batch)
  <2>1. ASSUME NEW c \in Cameras, NEW d \in Cameras
        PROVE  batch[c] - batch[d] <= Tolerance
    <3>1. batch[c] = buffers[c][b[c]] /\ batch[d] = buffers[d][b[d]]
      BY <1>8
    <3>2. batch[c] \in Nat /\ batch[d] \in Nat
      BY <1>5, <1>6, <3>1 DEF Instants
    <3>3. batch[c] - batch[d] <= Skew(b)
      BY <1>5, <3>1
    <3> QED
      BY <1>5, <1>6, <3>2, <3>3
  <2>2. DOMAIN batch = Cameras
    BY <1>8
  <2> QED
    BY <2>1, <2>2 DEF BatchIsClose
<1> QED
  BY <1>4, <1>6, <1>7, <1>9, <1>10 DEF BatchLeaves

LEMMA PartialTakesTheFronts ==
    ASSUME Inv, pc = "partial", EmitPartial, NEW e \in Cameras, buffers[e] # << >>,
           UNCHANGED <<setup, producers, input, turn, flush, dropped, received, discarded>>
    PROVE  BatchLeaves
<1>1. setup \in Setups /\ Queues /\ setup.policy = "EmitPartial"
  BY DEF Inv, Types, PartialIsAllowed
<1>2. /\ OldestFront \in Cameras /\ buffers[OldestFront] # << >>
      /\ \A d \in Cameras : buffers[d] # << >> =>
           Head(buffers[OldestFront]) <= Head(buffers[d])
  BY <1>1, OldestFrontIsOldest
<1>3. Tolerance \in Nat /\ setup.maxTime \in Nat
  BY <1>1, Parameters
<1>4. ASSUME NEW c \in Cameras, buffers[c] # << >>
      PROVE  /\ Head(buffers[c]) \in Instants /\ Head(buffers[c]) \in Nat
             /\ Tail(buffers[c]) \in Seq(Instants)
             /\ LosesOne(buffers[c], Tail(buffers[c]))
  <2>1. buffers[c] \in Seq(Instants)
    BY <1>1 DEF Queues
  <2>2. Head(buffers[c]) \in Instants
    BY <1>4, <2>1, Popped
  <2>3. Head(buffers[c]) \in Nat
    BY <1>3, <2>2 DEF Instants
  <2>4. Tail(buffers[c]) \in Seq(Instants) /\ LosesOne(buffers[c], Tail(buffers[c]))
    BY <1>4, <2>1, TailLosesOne
  <2> QED
    BY <2>2, <2>3, <2>4
<1>5. PICK G : G = PartialGroup
  OBVIOUS
<1>6. /\ G \in SUBSET Cameras
      /\ \A c \in G : /\ buffers[c] # << >>
                      /\ Head(buffers[c]) - Head(buffers[OldestFront]) <= Tolerance
  BY <1>5 DEF PartialGroup
<1>7. OldestFront \in G
  <2>1. Head(buffers[OldestFront]) \in Nat
    BY <1>2, <1>4
  <2>2. Head(buffers[OldestFront]) - Head(buffers[OldestFront]) <= Tolerance
    BY <1>3, <2>1
  <2> QED
    BY <1>2, <1>5, <2>2 DEF PartialGroup
<1>8. /\ buffers' = [c \in Cameras |-> IF c \in G THEN Tail(buffers[c]) ELSE buffers[c]]
      /\ SendBatch([c \in G |-> Head(buffers[c])], "finish")
      /\ UNCHANGED <<setup, lastSent, input, received, dropped, discarded>>
  BY <1>5 DEF EmitPartial, producers
<1>9. Leave(G)
  <2>1. \A c \in Cameras : buffers[c] \in Seq(Instants)
    BY <1>1 DEF Queues
  <2> QED
    BY <1>4, <1>6, <1>8, <2>1 DEF Leave
<1>10. PICK batch : batch = [c \in G |-> Head(buffers[c])]
  OBVIOUS
<1>11. batch \in [G -> Instants] /\ SendBatch(batch, "finish")
  BY <1>4, <1>6, <1>8, <1>10
<1>12. BatchIsClose(batch)
  <2>1. ASSUME NEW c \in G, NEW d \in G
        PROVE  batch[c] - batch[d] <= Tolerance
    <3>1. /\ batch[c] = Head(buffers[c]) /\ batch[d] = Head(buffers[d])
          /\ c \in Cameras /\ d \in Cameras /\ buffers[c] # << >> /\ buffers[d] # << >>
      BY <1>6, <1>10
    <3>2. batch[c] \in Nat /\ batch[d] \in Nat /\ Head(buffers[OldestFront]) \in Nat
      BY <1>2, <1>4, <3>1
    <3>3. /\ batch[c] - Head(buffers[OldestFront]) <= Tolerance
          /\ Head(buffers[OldestFront]) <= batch[d]
      BY <1>2, <1>6, <3>1
    <3> QED
      BY <1>3, <3>2, <3>3
  <2>2. DOMAIN batch = G
    BY <1>10
  <2> QED
    BY <2>1, <2>2 DEF BatchIsClose
<1>13. setup.policy # "DropBatch" /\ G \in (SUBSET Cameras) \ {{}}
  BY <1>1, <1>6, <1>7
<1> QED
  BY <1>8, <1>9, <1>11, <1>12, <1>13 DEF BatchLeaves

LEMMA DiscardTakesTheOldest ==
    ASSUME Inv, DiscardOldest, \A c \in Cameras : buffers[c] # << >>,
           UNCHANGED <<setup, producers, input, turn, flush, partial, received>>
    PROVE  OneLeaves
<1>1. setup \in Setups /\ Queues /\ InOrder
  BY DEF Inv, Types
<1>2. Tolerance \in Nat /\ setup.maxTime \in Nat /\ 1 \in Cameras /\ Capacity \in Nat
  BY <1>1, Parameters
<1>3. PICK o : o = OldestFront
  OBVIOUS
<1>4. o \in Cameras /\ \A d \in Cameras : Head(buffers[o]) <= Head(buffers[d])
  BY <1>1, <1>2, <1>3, OldestFrontIsOldest
<1>5. ASSUME NEW c \in Cameras
      PROVE  /\ Len(buffers[c]) \in Nat \ {0} /\ Head(buffers[c]) = buffers[c][1]
             /\ \A i \in 1 .. Len(buffers[c]) :
                  buffers[c][i] \in Nat /\ buffers[c][1] <= buffers[c][i]
  <2>1. buffers[c] \in Seq(Instants) /\ buffers[c] # << >>
    BY <1>1 DEF Queues
  <2>2. Len(buffers[c]) \in Nat \ {0} /\ Head(buffers[c]) = buffers[c][1]
    BY <2>1, Popped
  <2>3. \A i \in 1 .. Len(buffers[c]) : buffers[c][i] \in Instants
    BY <2>1, ElementOfSeq
  <2>4. \A i, j \in 1 .. Len(buffers[c]) : i < j => buffers[c][i] < buffers[c][j]
    BY <1>1 DEF InOrder, OrderOf, Grows
  <2>5. ASSUME NEW i \in 1 .. Len(buffers[c])
        PROVE  buffers[c][i] \in Nat /\ buffers[c][1] <= buffers[c][i]
    <3>1. 1 \in 1 .. Len(buffers[c]) /\ (i = 1 \/ 1 < i)
      BY <2>2
    <3>2. buffers[c][i] \in Nat /\ buffers[c][1] \in Nat
      BY <1>2, <2>3, <3>1 DEF Instants
    <3>3. i = 1 \/ buffers[c][1] < buffers[c][i]
      BY <2>4, <3>1
    <3> QED
      BY <3>2, <3>3
  <2> QED
    BY <2>2, <2>5
<1>6. \E d \in Cameras : \A i \in 1 .. Len(buffers[d]) : buffers[d][i] > buffers[o][1] + Tolerance
  <2> SUFFICES ASSUME \A d \in Cameras : \E i \in 1 .. Len(buffers[d]) :
                         ~(buffers[d][i] > buffers[o][1] + Tolerance)
               PROVE  FALSE
    OBVIOUS
  <2> DEFINE k == [d \in Cameras |-> CHOOSE i \in 1 .. Len(buffers[d]) :
                                        ~(buffers[d][i] > buffers[o][1] + Tolerance)]
  <2>1. ASSUME NEW d \in Cameras
        PROVE  k[d] \in 1 .. Len(buffers[d]) /\ ~(buffers[d][k[d]] > buffers[o][1] + Tolerance)
    OBVIOUS
  <2>2. \A d \in Cameras : Len(buffers[d]) <= Capacity
    BY <1>1 DEF Queues
  <2>3. k \in [Cameras -> 1 .. Capacity]
    BY <1>2, <1>5, <2>1, <2>2
  <2> HIDE DEF k
  <2>4. \A d \in Cameras : k[d] <= Len(buffers[d])
    BY <1>5, <2>1
  <2>5. k \in Candidates
    BY <2>3, <2>4 DEF Candidates
  <2>6. ASSUME NEW c \in Cameras, NEW d \in Cameras
        PROVE  buffers[c][k[c]] - buffers[d][k[d]] <= Tolerance
    <3>1. /\ buffers[c][k[c]] \in Nat /\ buffers[d][k[d]] \in Nat
          /\ buffers[d][1] <= buffers[d][k[d]]
      BY <1>5, <2>1
    <3>2. buffers[o][1] \in Nat /\ buffers[d][1] \in Nat
      <4>1. 1 \in 1 .. Len(buffers[o]) /\ 1 \in 1 .. Len(buffers[d])
        BY <1>4, <1>5
      <4> QED
        BY <1>4, <1>5, <4>1
    <3>3. buffers[o][1] <= buffers[d][1]
      BY <1>4, <1>5
    <3>4. ~(buffers[c][k[c]] > buffers[o][1] + Tolerance)
      BY <2>1
    <3> DEFINE x == buffers[c][k[c]]
               y == buffers[d][k[d]]
               first == buffers[o][1]
               front == buffers[d][1]
    <3>5. /\ x \in Nat /\ y \in Nat /\ first \in Nat /\ front \in Nat
          /\ front <= y /\ first <= front /\ ~(x > first + Tolerance)
      BY <3>1, <3>2, <3>3, <3>4
    <3> HIDE DEF x, y, first, front
    <3>6. x - y <= Tolerance
      BY <1>2, <3>5
    <3> QED
      BY <3>6 DEF x, y
  <2>7. Skew(k) <= Tolerance
    BY <1>1, <1>2, <2>5, <2>6, CandidateTimes
  <2>8. Matches = {}
    BY DEF DiscardOldest
  <2> QED
    BY <2>5, <2>7, <2>8 DEF Matches
<1>7. PICK d \in Cameras :
         \A i \in 1 .. Len(buffers[d]) : buffers[d][i] > buffers[o][1] + Tolerance
  BY <1>6
<1>8. d # o
  <2>1. 1 \in 1 .. Len(buffers[o]) /\ buffers[o][1] \in Nat
    <3>1. Len(buffers[o]) \in Nat \ {0}
      BY <1>4, <1>5
    <3>2. 1 \in 1 .. Len(buffers[o])
      BY <3>1
    <3> QED
      BY <1>4, <1>5, <3>2
  <2>2. ~(buffers[o][1] > buffers[o][1] + Tolerance)
    BY <1>2, <2>1
  <2> QED
    BY <1>7, <2>1, <2>2
<1>9. /\ buffers' = [buffers EXCEPT ![o] = Tail(@)]
      /\ discarded' = discarded \cup {<<o, buffers[o][1]>>}
      /\ dropped' = dropped + 1
      /\ UNCHANGED <<setup, lastSent, input, received, refused, batches>>
  BY <1>3, <1>4, <1>5 DEF DiscardOldest, producers
<1>10. Leave({o})
  <2>1. buffers \in [Cameras -> Seq(Instants)]
    BY <1>1 DEF Queues
  <2>2. Tail(buffers[o]) \in Seq(Instants) /\ LosesOne(buffers[o], Tail(buffers[o]))
    BY <1>4, <2>1, TailLosesOne
  <2>3. \A c \in Cameras : buffers'[c] = IF c = o THEN Tail(buffers[o]) ELSE buffers[c]
    BY <1>9, <2>1
  <2>4. buffers' \in [Cameras -> Seq(Instants)]
    BY <1>9, <2>1, <2>2
  <2> QED
    BY <2>2, <2>3, <2>4 DEF Leave
<1> QED
  BY <1>4, <1>7, <1>8, <1>9, <1>10 DEF OneLeaves

LEMMA StepKinds ==
    ASSUME Inv, [Next]_vars
    PROVE  NothingMoves \/ BatchLeaves \/ OneLeaves \/ RestLeaves \/ Drains \/ Sends
<1>1. CASE UNCHANGED vars
  BY <1>1 DEF vars, producers, counters, history, NothingMoves
<1>2. CASE Tick
  BY <1>2 DEF Tick, counters, history, NothingMoves
<1>3. ASSUME NEW c \in Cameras, NEW t \in Instants, CameraSends(c, t)
      PROVE  Sends
  BY <1>3 DEF Sends
<1>4. ASSUME NEW c \in Cameras, CameraEnds(c)
      PROVE  NothingMoves
  BY <1>4 DEF CameraEnds, counters, history, NothingMoves
<1>5. CASE OutputCloses
  BY <1>5 DEF OutputCloses, counters, history, NothingMoves
<1>6. CASE Stop
  BY <1>6 DEF Stop, counters, history, NothingMoves
<1>7. CASE LoopTop
  BY <1>7 DEF LoopTop, counters, history, NothingMoves
<1>8. ASSUME NEW c \in Cameras, DrainFrame(c)
      PROVE  Drains
  BY <1>8 DEF Drains
<1>9. ASSUME NEW c \in Cameras, DrainNext(c)
      PROVE  NothingMoves
  BY <1>9 DEF DrainNext, producers, counters, history, NothingMoves
<1>10. CASE Match
  <2>1. UNCHANGED <<setup, producers, input, turn, flush, partial, received>>
    BY <1>10 DEF Match
  <2>2. CASE UNCHANGED <<buffers, emitted, dropped, history>>
    BY <2>1, <2>2 DEF producers, history, NothingMoves
  <2>3. CASE (\A c \in Cameras : buffers[c] # << >>) /\ EmitMatch
    BY <2>1, <2>3, MatchTakesOneOfEach
  <2>4. CASE (\A c \in Cameras : buffers[c] # << >>) /\ DiscardOldest
    BY <2>1, <2>4, DiscardTakesTheOldest
  <2> QED
    BY <1>10, <2>2, <2>3, <2>4 DEF Match
<1>11. CASE CheckInputs
  BY <1>11 DEF CheckInputs, producers, counters, history, NothingMoves
<1>12. CASE EmitExpired
  <2>1. /\ pc = "partial"
        /\ UNCHANGED <<setup, producers, input, turn, flush, dropped, received, discarded>>
    BY <1>12 DEF EmitExpired
  <2>2. CASE UNCHANGED <<buffers, partial, emitted, refused, batches>>
    BY <2>1, <2>2 DEF producers, NothingMoves
  <2>3. ASSUME NEW e \in Cameras, buffers[e] # << >>, EmitPartial
        PROVE  BatchLeaves
    BY <2>1, <2>3, PartialTakesTheFronts
  <2> QED
    BY <1>12, <2>2, <2>3 DEF EmitExpired
<1>13. CASE Finish
  <2>1. UNCHANGED <<setup, lastSent, input, received, refused, batches, discarded>>
    BY <1>13 DEF Finish, history
  <2>2. \/ UNCHANGED <<buffers, dropped>>
        \/ dropped' = dropped + Buffered /\ buffers' = [c \in Cameras |-> << >>]
    BY <1>13 DEF Finish, DropRest
  <2> QED
    BY <2>1, <2>2 DEF NothingMoves, RestLeaves
<1> QED
  BY <1>1, <1>2, <1>3, <1>4, <1>5, <1>6, <1>7, <1>8, <1>9, <1>10, <1>11, <1>12, <1>13
     DEF Next, Work

LEMMA SetupStays ==
    ASSUME Inv, [Next]_vars
    PROVE  /\ setup' = setup /\ Cameras' = Cameras /\ Instants' = Instants
           /\ Capacity' = Capacity /\ Tolerance' = Tolerance
           /\ Batches' = Batches
<1>1. setup' = setup
  BY StepKinds DEF NothingMoves, BatchLeaves, OneLeaves, RestLeaves, Drains, DrainFrame, Sends,
     CameraSends
<1> QED
  BY <1>1 DEF Cameras, Instants, Capacity, Tolerance, Batches

-----------------------------------------------------------------------------
(* The types are kept.                                                      *)

\* The frames in the batches sent.
InBatches == SumFunction([i \in DOMAIN batches |-> Cardinality(DOMAIN batches[i])])

LEMMA BatchSizes ==
    ASSUME setup \in Setups, NEW batch \in Batches
    PROVE  /\ DOMAIN batch \in SUBSET Cameras /\ DOMAIN batch # {}
           /\ \A c \in DOMAIN batch : batch[c] \in Instants
           /\ Cardinality(DOMAIN batch) \in Nat
<1>1. PICK G \in (SUBSET Cameras) \ {{}} : batch \in [G -> Instants]
  BY DEF Batches
<1>2. IsFiniteSet(Cameras)
  BY Parameters
<1>3. Cardinality(G) \in Nat
  BY <1>2, SubsetSizes
<1> QED
  BY <1>1, <1>3

LEMMA SendEffect ==
    ASSUME NEW at, \E batch \in Batches : SendBatch(batch, at),
           setup \in Setups, batches \in Seq(Batches), refused \in Nat, emitted \in Nat
    PROVE  /\ batches' \in Seq(Batches) /\ refused' \in Nat /\ emitted' \in Nat
           /\ pc' \in {pc, at}
<1>1. PICK batch \in Batches : SendBatch(batch, at)
  OBVIOUS
<1>2. Append(batches, batch) \in Seq(Batches)
  BY Appended
<1>3. Cardinality(DOMAIN batch) \in Nat
  BY BatchSizes
<1>4. refused + Cardinality(DOMAIN batch) \in Nat /\ emitted + 1 \in Nat
  BY <1>3
<1>5. CASE /\ pc' = at /\ refused' = refused + Cardinality(DOMAIN batch)
           /\ UNCHANGED <<batches, emitted>>
  BY <1>4, <1>5
<1>6. CASE /\ batches' = Append(batches, batch) /\ emitted' = emitted + 1
           /\ UNCHANGED <<pc, refused>>
  BY <1>2, <1>4, <1>6
<1> QED
  BY <1>1, <1>5, <1>6 DEF SendBatch

LEMMA SendIsCounted ==
    ASSUME setup \in Setups, batches \in Seq(Batches), refused \in Nat,
           NEW batch \in Batches, NEW at, SendBatch(batch, at)
    PROVE  /\ refused' + InBatches' = refused + InBatches + Cardinality(DOMAIN batch)
           /\ refused' \in Nat /\ InBatches' \in Int /\ InBatches \in Int
           /\ \A i \in 1 .. Len(batches') :
                 batches'[i] = batch \/ (i \in 1 .. Len(batches) /\ batches'[i] = batches[i])
<1>1. Cardinality(DOMAIN batch) \in Nat
  BY BatchSizes
<1> DEFINE n == Len(batches)
           size(q) == [i \in DOMAIN q |-> Cardinality(DOMAIN q[i])]
<1>2. n \in Nat /\ DOMAIN batches = 1 .. n
  BY LenProperties
<1>3. \A i \in 1 .. n : size(batches)[i] \in Int
  <2> SUFFICES ASSUME NEW i \in 1 .. n PROVE size(batches)[i] \in Int
    OBVIOUS
  <2>1. batches[i] \in Batches
    BY ElementOfSeq
  <2>2. Cardinality(DOMAIN batches[i]) \in Nat
    BY <2>1, BatchSizes
  <2> QED
    BY <1>2, <2>2
<1>4. InBatches = SumFunctionOnSet(size(batches), 1 .. n)
  BY <1>2 DEF InBatches, SumFunction
<1>5. CASE outClosed
  <2>1. batches' = batches /\ refused' = refused + Cardinality(DOMAIN batch)
    BY <1>1, <1>5 DEF SendBatch
  <2>2. InBatches' = InBatches
    BY <2>1 DEF InBatches
  <2>3. InBatches \in Int
    <3> HIDE DEF size
    <3>1. SumFunctionOnSet(size(batches), 1 .. n) \in Int
      <4>1. IsFiniteSet(1 .. n)
        BY <1>2, FS_Interval
      <4> QED
        BY <1>3, <4>1, SumTakesAny
    <3> QED
      BY <1>4, <3>1
  <2> QED
    BY <1>1, <2>1, <2>2, <2>3
<1>6. CASE ~outClosed
  <2>1. batches' = Append(batches, batch) /\ refused' = refused
    BY <1>6 DEF SendBatch
  <2> DEFINE r == Append(batches, batch)
  <2>2. /\ r \in Seq(Batches) /\ Len(r) = n + 1
        /\ \A i \in 1 .. n : r[i] = batches[i]
        /\ r[n + 1] = batch
    BY Appended
  <2>3. DOMAIN r = 1 .. n + 1
    BY <2>2, LenProperties
  <2> HIDE DEF r, n
  <2>4. InBatches' = SumFunctionOnSet(size(r), 1 .. n + 1)
    BY <2>1, <2>3 DEF InBatches, SumFunction, r
  <2>5. /\ \A i \in 1 .. n : size(batches)[i] \in Int /\ size(r)[i] = size(batches)[i]
        /\ size(r)[n + 1] = Cardinality(DOMAIN batch)
    <3>1. \A i \in 1 .. n :
             i \in DOMAIN batches /\ i \in DOMAIN r /\ Cardinality(DOMAIN r[i]) = Cardinality(DOMAIN batches[i])
      BY <1>2, <2>2, <2>3
    <3>2. n + 1 \in DOMAIN r /\ Cardinality(DOMAIN r[n + 1]) = Cardinality(DOMAIN batch)
      BY <1>2, <2>2, <2>3
    <3>3. \A i \in 1 .. n : size(r)[i] = size(batches)[i]
      BY <3>1
    <3>4. size(r)[n + 1] = Cardinality(DOMAIN batch)
      BY <3>2
    <3> QED
      BY <1>3, <3>3, <3>4
  <2>6. size(r)[n + 1] \in Int
    BY <1>1, <2>5
  <2> HIDE DEF size
  <2>7. /\ SumFunctionOnSet(size(r), 1 .. n + 1)
             = SumFunctionOnSet(size(batches), 1 .. n) + size(r)[n + 1]
        /\ SumFunctionOnSet(size(batches), 1 .. n) \in Int
    BY <1>2, <2>5, <2>6, SumAppends
  <2>8. ASSUME NEW i \in 1 .. Len(batches')
        PROVE  batches'[i] = batch \/ (i \in 1 .. Len(batches) /\ batches'[i] = batches[i])
    <3>1. batches' = r
      BY <2>1 DEF r
    <3>2. i \in 1 .. n + 1
      BY <2>2, <3>1
    <3>3. i \in 1 .. n \/ i = n + 1
      BY <1>2, <3>2
    <3>4. r[i] = batch \/ (i \in 1 .. n /\ r[i] = batches[i])
      <4>1. CASE i \in 1 .. n
        BY <2>2, <4>1
      <4>2. CASE i = n + 1
        BY <2>2, <4>2
      <4> QED
        BY <3>3, <4>1, <4>2
    <3> QED
      BY <3>1, <3>4 DEF n
  <2> QED
    BY <1>1, <1>4, <2>1, <2>4, <2>5, <2>7, <2>8
<1> QED
  BY <1>5, <1>6

LEMMA QueuesKept ==
    ASSUME Inv, [Next]_vars
    PROVE  Queues'
<1>1. setup \in Setups /\ Queues
  BY DEF Inv, Types
<1>2. Capacity \in Nat /\ Capacity > 0 /\ setup.maxTime \in Nat
  BY <1>1, Parameters
<1> SUFFICES /\ input' \in [Cameras -> Seq(Instants)]
             /\ buffers' \in [Cameras -> Seq(Instants)]
             /\ \A c \in Cameras : Len(input'[c]) <= Capacity /\ Len(buffers'[c]) <= Capacity
  BY SetupStays DEF Queues
<1>3. /\ input \in [Cameras -> Seq(Instants)] /\ buffers \in [Cameras -> Seq(Instants)]
      /\ \A c \in Cameras :
            /\ input[c] \in Seq(Instants) /\ Len(input[c]) <= Capacity /\ Len(input[c]) \in Nat
            /\ buffers[c] \in Seq(Instants) /\ Len(buffers[c]) <= Capacity
            /\ Len(buffers[c]) \in Nat
  BY <1>1, LenProperties DEF Queues
<1>4. CASE NothingMoves
  BY <1>3, <1>4 DEF NothingMoves
<1>5. ASSUME NEW G, Leave(G), input' = input
      PROVE  /\ input' \in [Cameras -> Seq(Instants)]
             /\ buffers' \in [Cameras -> Seq(Instants)]
             /\ \A c \in Cameras : Len(input'[c]) <= Capacity /\ Len(buffers'[c]) <= Capacity
  <2>1. ASSUME NEW c \in Cameras
        PROVE  Len(buffers'[c]) <= Capacity
    <3>1. CASE LosesOne(buffers[c], buffers'[c])
      <4>1. Len(buffers'[c]) = Len(buffers[c]) - 1
        BY <3>1 DEF LosesOne
      <4> QED
        BY <1>2, <1>3, <4>1
    <3>2. CASE buffers'[c] = buffers[c]
      BY <1>3, <3>2
    <3> QED
      BY <1>5, <3>1, <3>2 DEF Leave
  <2> QED
    BY <1>3, <1>5, <2>1 DEF Leave
<1>6. CASE BatchLeaves
  BY <1>5, <1>6 DEF BatchLeaves
<1>7. CASE OneLeaves
  BY <1>5, <1>7 DEF OneLeaves
<1>8. CASE RestLeaves
  <2>1. << >> \in Seq(Instants) /\ Len(<< >>) = 0
    BY EmptySeq
  <2> QED
    BY <1>2, <1>3, <1>8, <2>1 DEF RestLeaves
<1>9. ASSUME NEW c \in Cameras, DrainFrame(c)
      PROVE  /\ input' \in [Cameras -> Seq(Instants)]
             /\ buffers' \in [Cameras -> Seq(Instants)]
             /\ \A d \in Cameras : Len(input'[d]) <= Capacity /\ Len(buffers'[d]) <= Capacity
  <2>1. /\ Head(input[c]) \in Instants /\ Tail(input[c]) \in Seq(Instants)
        /\ Len(Tail(input[c])) = Len(input[c]) - 1
    BY <1>3, <1>9, Popped DEF DrainFrame
  <2> DEFINE kept == IF Len(buffers[c]) = Capacity THEN Tail(buffers[c]) ELSE buffers[c]
  <2>2. kept \in Seq(Instants) /\ Len(kept) < Capacity
    <3>1. CASE Len(buffers[c]) = Capacity
      <4>1. buffers[c] # << >>
        BY <1>2, <3>1, EmptySeq
      <4>2. Tail(buffers[c]) \in Seq(Instants) /\ Len(Tail(buffers[c])) = Len(buffers[c]) - 1
        BY <1>3, <4>1, Popped
      <4> QED
        BY <1>2, <3>1, <4>2
    <3>2. CASE Len(buffers[c]) # Capacity
      BY <1>2, <1>3, <3>2
    <3> QED
      BY <3>1, <3>2
  <2>3. /\ buffers' = [buffers EXCEPT ![c] = Append(kept, Head(input[c]))]
        /\ input' = [input EXCEPT ![c] = Tail(@)]
    BY <1>3, <1>9 DEF DrainFrame
  <2> HIDE DEF kept
  <2>4. /\ Append(kept, Head(input[c])) \in Seq(Instants)
        /\ Len(Append(kept, Head(input[c]))) = Len(kept) + 1 /\ Len(kept) \in Nat
    BY <2>1, <2>2, Appended
  <2>5. /\ \A d \in Cameras : buffers'[d] = IF d = c THEN Append(kept, Head(input[c])) ELSE buffers[d]
        /\ \A d \in Cameras : input'[d] = IF d = c THEN Tail(input[c]) ELSE input[d]
    BY <1>3, <2>3
  <2>6. input' \in [Cameras -> Seq(Instants)] /\ buffers' \in [Cameras -> Seq(Instants)]
    BY <1>3, <2>1, <2>3, <2>4
  <2>7. /\ Len(Append(kept, Head(input[c]))) <= Capacity
        /\ Len(Tail(input[c])) <= Capacity
    BY <1>2, <1>3, <2>1, <2>2, <2>4
  <2> QED
    BY <1>3, <2>5, <2>6, <2>7
<1>10. ASSUME NEW c \in Cameras, NEW t \in Instants, CameraSends(c, t)
       PROVE  /\ input' \in [Cameras -> Seq(Instants)]
              /\ buffers' \in [Cameras -> Seq(Instants)]
              /\ \A d \in Cameras : Len(input'[d]) <= Capacity /\ Len(buffers'[d]) <= Capacity
  <2>1. CASE Len(input[c]) < Capacity /\ input' = [input EXCEPT ![c] = Append(@, t)]
    <3>1. /\ Append(input[c], t) \in Seq(Instants)
          /\ Len(Append(input[c], t)) = Len(input[c]) + 1
      BY <1>3, Appended
    <3>2. \A d \in Cameras : input'[d] = IF d = c THEN Append(input[c], t) ELSE input[d]
      BY <1>3, <2>1
    <3>3. Len(Append(input[c], t)) <= Capacity
      BY <1>2, <1>3, <2>1, <3>1
    <3>4. input' \in [Cameras -> Seq(Instants)]
      BY <1>3, <2>1, <3>1
    <3>5. buffers' = buffers
      BY <1>10 DEF CameraSends
    <3> QED
      BY <1>3, <3>2, <3>3, <3>4, <3>5
  <2>2. CASE Len(input[c]) = Capacity /\ input' = [input EXCEPT ![c] = Append(Tail(@), t)]
    <3>1. input[c] # << >>
      BY <1>2, <2>2, EmptySeq
    <3>2. Tail(input[c]) \in Seq(Instants) /\ Len(Tail(input[c])) = Len(input[c]) - 1
      BY <1>3, <3>1, Popped
    <3>3. /\ Append(Tail(input[c]), t) \in Seq(Instants)
          /\ Len(Append(Tail(input[c]), t)) = Len(input[c])
      BY <1>3, <3>2, Appended
    <3>4. \A d \in Cameras : input'[d] = IF d = c THEN Append(Tail(input[c]), t) ELSE input[d]
      BY <1>3, <2>2
    <3>5. input' \in [Cameras -> Seq(Instants)]
      BY <1>3, <2>2, <3>3
    <3>6. buffers' = buffers
      BY <1>10 DEF CameraSends
    <3> QED
      BY <1>3, <3>3, <3>4, <3>5, <3>6
  <2> QED
    BY <1>10, <2>1, <2>2 DEF CameraSends
<1> QED
  BY <1>4, <1>6, <1>7, <1>8, <1>9, <1>10, StepKinds DEF Drains, Sends

LEMMA HistoryKept ==
    ASSUME Inv, [Next]_vars
    PROVE  History'
<1>1. setup \in Setups /\ Queues /\ batches \in Seq(Batches) /\ refused \in Nat /\ emitted \in Nat
      /\ discarded \subseteq Cameras \X Instants
  BY DEF Inv, Types, Counts, History
<1> SUFFICES batches' \in Seq(Batches) /\ discarded' \subseteq Cameras \X Instants
  BY SetupStays DEF History
<1>2. CASE NothingMoves \/ RestLeaves \/ Drains \/ Sends
  BY <1>1, <1>2 DEF NothingMoves, RestLeaves, Drains, DrainFrame, Sends, CameraSends, history
<1>3. CASE BatchLeaves
  <2>1. PICK G \in (SUBSET Cameras) \ {{}} : \E batch \in [G -> Instants], at \in {"check", "finish"} :
           SendBatch(batch, at)
    BY <1>3 DEF BatchLeaves
  <2>2. PICK batch \in [G -> Instants], at \in {"check", "finish"} : SendBatch(batch, at)
    BY <2>1
  <2>3. batch \in Batches
    BY DEF Batches
  <2>4. discarded' = discarded
    BY <1>3 DEF BatchLeaves
  <2> QED
    BY <1>1, <2>2, <2>3, <2>4, SendEffect
<1>4. CASE OneLeaves
  <2>1. PICK c \in Cameras : /\ buffers[c] # << >>
                             /\ discarded' = discarded \cup {<<c, buffers[c][1]>>}
    BY <1>4 DEF OneLeaves
  <2>2. buffers[c] \in Seq(Instants)
    BY <1>1 DEF Queues
  <2>3. Head(buffers[c]) = buffers[c][1] /\ Head(buffers[c]) \in Instants
    BY <2>1, <2>2, Popped
  <2>4. batches' = batches
    BY <1>4 DEF OneLeaves
  <2> QED
    BY <1>1, <2>1, <2>3, <2>4
<1> QED
  BY <1>2, <1>3, <1>4, StepKinds

LEMMA ProducersKept ==
    ASSUME Inv, [Next]_vars
    PROVE  Producers'
<1>1. /\ setup \in Setups /\ now \in Instants
      /\ lastSent \in [Cameras -> Instants \cup {-1}] /\ inClosed \in [Cameras -> BOOLEAN]
  BY DEF Inv, Types, Producers
<1>2. setup.maxTime \in Nat
  BY <1>1, Parameters
<1> SUFFICES /\ now' \in Instants
             /\ lastSent' \in [Cameras -> Instants \cup {-1}]
             /\ inClosed' \in [Cameras -> BOOLEAN]
  BY SetupStays DEF Producers
<1>3. CASE UNCHANGED <<now, lastSent, inClosed>>
  BY <1>1, <1>3
<1>4. CASE Tick
  BY <1>1, <1>2, <1>4 DEF Tick, Instants
<1>5. ASSUME NEW c \in Cameras, NEW t \in Instants, CameraSends(c, t)
      PROVE  /\ now' \in Instants
             /\ lastSent' \in [Cameras -> Instants \cup {-1}]
             /\ inClosed' \in [Cameras -> BOOLEAN]
  <2>1. lastSent' = [lastSent EXCEPT ![c] = t] /\ now' = now /\ inClosed' = inClosed
    BY <1>5 DEF CameraSends
  <2> QED
    BY <1>1, <2>1
<1>6. ASSUME NEW c \in Cameras, CameraEnds(c)
      PROVE  /\ now' \in Instants
             /\ lastSent' \in [Cameras -> Instants \cup {-1}]
             /\ inClosed' \in [Cameras -> BOOLEAN]
  <2>1. inClosed' = [inClosed EXCEPT ![c] = TRUE] /\ now' = now /\ lastSent' = lastSent
    BY <1>6 DEF CameraEnds
  <2> QED
    BY <1>1, <2>1
<1>7. ASSUME UNCHANGED vars \/ OutputCloses \/ Stop \/ Work
      PROVE  UNCHANGED <<now, lastSent, inClosed>>
  BY <1>7 DEF vars, producers, OutputCloses, Stop, Work, LoopTop, DrainFrame, DrainNext, Match,
     CheckInputs, EmitExpired, Finish
<1> QED
  BY <1>3, <1>4, <1>5, <1>6, <1>7 DEF Next

LEMMA FlagsKept ==
    ASSUME Inv, [Next]_vars
    PROVE  Flags'
<1>1. outClosed \in BOOLEAN /\ stopping \in BOOLEAN /\ flush \in BOOLEAN
  BY DEF Inv, Types, Flags
<1>2. outClosed' \in {TRUE, outClosed}
  BY DEF Next, vars, producers, Tick, CameraSends, CameraEnds, OutputCloses, Stop, Work,
     LoopTop, DrainFrame, DrainNext, Match, CheckInputs, EmitExpired, Finish
<1>3. stopping' \in {TRUE, stopping}
  BY DEF Next, vars, producers, Tick, CameraSends, CameraEnds, OutputCloses, Stop, Work,
     LoopTop, DrainFrame, DrainNext, Match, CheckInputs, EmitExpired, Finish
<1>4. flush' = flush \/ flush' \in BOOLEAN
  <2>1. CASE CheckInputs
    <3>1. flush' = (\A c \in Cameras : inClosed[c])
      BY <2>1 DEF CheckInputs
    <3>2. (\A c \in Cameras : inClosed[c]) \in BOOLEAN
      OBVIOUS
    <3> QED
      BY <3>1, <3>2
  <2>2. CASE ~CheckInputs
    BY <2>2 DEF Next, vars, producers, Tick, CameraSends, CameraEnds, OutputCloses, Stop, Work,
       LoopTop, DrainFrame, DrainNext, Match, EmitExpired, Finish
  <2> QED
    BY <2>1, <2>2
<1>5. flush' \in BOOLEAN
  BY <1>1, <1>4
<1>6. outClosed' \in BOOLEAN /\ stopping' \in BOOLEAN
  BY <1>1, <1>2, <1>3
<1> QED
  BY <1>5, <1>6 DEF Flags

LEMMA WorkerKept ==
    ASSUME Inv, [Next]_vars
    PROVE  Worker' /\ PartialIsAllowed'
<1>1. /\ setup \in Setups /\ pc \in Places /\ turn \in 1 .. setup.cameras + 1
      /\ pc = "partial" => setup.policy = "EmitPartial"
      /\ batches \in Seq(Batches) /\ refused \in Nat /\ emitted \in Nat
  BY DEF Inv, Types, Worker, PartialIsAllowed, History, Counts
<1>2. setup.cameras \in Nat /\ setup.cameras > 1
  BY <1>1, Parameters
<1> SUFFICES /\ pc' \in Places /\ turn' \in 1 .. setup.cameras + 1
             /\ pc' = "partial" => setup.policy = "EmitPartial"
  BY SetupStays DEF Worker, PartialIsAllowed
<1>3. pc' \in {pc, "top", "drain", "match", "check", "finish", "done"} \/ CheckInputs
  <2>1. CASE UNCHANGED vars \/ Tick \/ OutputCloses \/ Stop
    BY <2>1 DEF vars, Tick, OutputCloses, Stop
  <2>2. ASSUME NEW c \in Cameras, (\E t \in Instants : CameraSends(c, t)) \/ CameraEnds(c)
        PROVE  pc' = pc
    BY <2>2 DEF CameraSends, CameraEnds
  <2>3. CASE LoopTop \/ Finish
    BY <2>3 DEF LoopTop, Finish
  <2>4. ASSUME NEW c \in Cameras, DrainFrame(c) \/ DrainNext(c)
        PROVE  pc' \in {pc, "match", "drain"}
    BY <2>4 DEF DrainFrame, DrainNext
  <2>5. CASE Match
    BY <2>5 DEF Match, EmitMatch, DiscardOldest, SendBatch
  <2>6. CASE EmitExpired
    BY <2>6 DEF EmitExpired, EmitPartial, SendBatch
  <2> QED
    BY <2>1, <2>2, <2>3, <2>4, <2>5, <2>6 DEF Next, Work
<1>4. CheckInputs => pc' = IF setup.policy = "EmitPartial" THEN "partial" ELSE "finish"
  BY DEF CheckInputs
<1>5. pc' \in Places /\ (pc' = "partial" => setup.policy = "EmitPartial")
  BY <1>1, <1>3, <1>4 DEF Places
<1>6. turn' \in {turn, 1} \/ \E c \in Cameras : turn' = c + 1
  BY DEF Next, vars, Tick, CameraSends, CameraEnds, OutputCloses, Stop, Work,
     LoopTop, DrainFrame, DrainNext, Match, CheckInputs, EmitExpired, Finish
<1>7. turn' \in 1 .. setup.cameras + 1
  BY <1>1, <1>2, <1>6 DEF Cameras
<1> QED
  BY <1>5, <1>7

LEMMA LengthsAreSummed ==
    ASSUME setup \in Setups, Queues
    PROVE  /\ \A c \in Cameras : Len(buffers[c]) \in Nat
           /\ Buffered = SumFunctionOnSet([c \in Cameras |-> Len(buffers[c])], Cameras)
           /\ Buffered \in Nat
<1>1. \A c \in Cameras : Len(buffers[c]) \in Nat
  BY LenProperties DEF Queues
<1> DEFINE f == [c \in Cameras |-> Len(buffers[c])]
<1>2. DOMAIN f = Cameras /\ \A c \in Cameras : f[c] \in Nat
  BY <1>1
<1>3. IsFiniteSet(Cameras)
  BY Parameters
<1>4. Buffered = SumFunctionOnSet(f, Cameras)
  BY <1>2 DEF Buffered, SumFunction
<1>5. SumFunctionOnSet(f, Cameras) \in Nat
  <2> HIDE DEF f
  <2> QED
    BY <1>2, <1>3, SumIsNatural
<1> QED
  BY <1>1, <1>4, <1>5

LEMMA CountsKept ==
    ASSUME Inv, [Next]_vars
    PROVE  Counts'
<1>1. /\ setup \in Setups /\ Queues /\ batches \in Seq(Batches)
      /\ emitted \in Nat /\ dropped \in Nat /\ partial \in Nat /\ refused \in Nat
      /\ received \in [Cameras -> Nat]
  BY DEF Inv, Types, Counts, History
<1>2. Buffered \in Nat
  BY <1>1, LengthsAreSummed
<1> SUFFICES /\ emitted' \in Nat /\ dropped' \in Nat /\ partial' \in Nat /\ refused' \in Nat
             /\ received' \in [Cameras -> Nat]
  BY SetupStays DEF Counts
<1>3. dropped' \in Nat
  <2>1. dropped' \in {dropped, dropped + 1, dropped + Buffered}
    <3>1. CASE NothingMoves \/ BatchLeaves \/ OneLeaves \/ RestLeaves
      BY <3>1 DEF NothingMoves, BatchLeaves, OneLeaves, RestLeaves
    <3>2. CASE Drains
      BY <3>2 DEF Drains, DrainFrame
    <3>3. CASE Sends
      BY <3>3 DEF Sends, CameraSends, counters
    <3> QED
      BY <3>1, <3>2, <3>3, StepKinds
  <2> QED
    BY <1>1, <1>2, <2>1
<1>4. partial' \in Nat
  <2>1. partial' \in {partial, partial + 1}
    BY DEF Next, vars, Tick, CameraSends, CameraEnds, OutputCloses, Stop, Work, counters,
       LoopTop, DrainFrame, DrainNext, Match, CheckInputs, EmitExpired, EmitPartial, Finish
  <2> QED
    BY <1>1, <2>1
<1>5. emitted' \in Nat
  <2>1. emitted' \in {emitted, emitted + 1}
    BY DEF Next, vars, Tick, CameraSends, CameraEnds, OutputCloses, Stop, Work, counters,
       LoopTop, DrainFrame, DrainNext, Match, EmitMatch, DiscardOldest, CheckInputs,
       EmitExpired, EmitPartial, SendBatch, Finish
  <2> QED
    BY <1>1, <2>1
<1>6. refused' \in Nat
  <2>1. CASE BatchLeaves
    <3>1. PICK G \in (SUBSET Cameras) \ {{}} : \E batch \in [G -> Instants], at \in {"check", "finish"} :
             SendBatch(batch, at)
      BY <2>1 DEF BatchLeaves
    <3>2. PICK batch \in [G -> Instants], at \in {"check", "finish"} : SendBatch(batch, at)
      BY <3>1
    <3>3. batch \in Batches
      BY DEF Batches
    <3> QED
      BY <1>1, <3>2, <3>3, SendEffect
  <2>2. CASE NothingMoves \/ OneLeaves \/ RestLeaves
    BY <1>1, <2>2 DEF NothingMoves, OneLeaves, RestLeaves
  <2>3. CASE Drains \/ Sends
    BY <1>1, <2>3 DEF Drains, DrainFrame, Sends, CameraSends, history
  <2> QED
    BY <2>1, <2>2, <2>3, StepKinds
<1>7. received' \in [Cameras -> Nat]
  <2>1. CASE NothingMoves \/ BatchLeaves \/ OneLeaves \/ RestLeaves \/ Sends
    BY <1>1, <2>1 DEF NothingMoves, BatchLeaves, OneLeaves, RestLeaves, Sends, CameraSends
  <2>2. ASSUME NEW c \in Cameras, DrainFrame(c)
        PROVE  received' \in [Cameras -> Nat]
    <3>1. received' = [received EXCEPT ![c] = @ + 1]
      BY <2>2 DEF DrainFrame
    <3>2. received[c] + 1 \in Nat
      BY <1>1
    <3> QED
      BY <1>1, <3>1, <3>2
  <2> QED
    BY <2>1, <2>2, StepKinds DEF Drains
<1> QED
  BY <1>3, <1>4, <1>5, <1>6, <1>7

-----------------------------------------------------------------------------
(* The order of a camera's frames, and the frames given up.                 *)

\* Every frame of the new buffer and channel was there or is newer than all sent.
Known(b, q, last, x) ==
    \/ \E k \in 1 .. Len(b) : x = b[k]
    \/ \E k \in 1 .. Len(q) : x = q[k]
    \/ x > last

Follows(b, q, last, bb, qq, later) ==
    /\ later >= last
    /\ \A i \in 1 .. Len(bb) : Known(b, q, last, bb[i])
    /\ \A i \in 1 .. Len(qq) : Known(b, q, last, qq[i])

LEMMA NothingFollows ==
    ASSUME NEW b \in Seq(Nat), NEW q \in Seq(Nat), NEW last \in Int
    PROVE  Follows(b, q, last, b, q, last)
BY DEF Follows, Known

LEMMA FollowsOn ==
    ASSUME NEW b \in Seq(Nat), NEW q \in Seq(Nat), NEW last \in Int,
           NEW c \in Seq(Nat), NEW r \in Seq(Nat), NEW after \in Int,
           NEW d \in Seq(Nat), NEW s \in Seq(Nat), NEW end \in Int,
           Follows(b, q, last, c, r, after), Follows(c, r, after, d, s, end)
    PROVE  Follows(b, q, last, d, s, end)
<1>1. ASSUME NEW x \in Nat, Known(c, r, after, x)
      PROVE  Known(b, q, last, x)
  <2>1. ASSUME NEW k \in 1 .. Len(c), x = c[k]
        PROVE  Known(b, q, last, x)
    BY <2>1 DEF Follows
  <2>2. ASSUME NEW k \in 1 .. Len(r), x = r[k]
        PROVE  Known(b, q, last, x)
    BY <2>2 DEF Follows
  <2>3. CASE x > after
    <3>1. x > last
      BY <2>3 DEF Follows
    <3> QED
      BY <3>1 DEF Known
  <2>4. (\E k \in 1 .. Len(c) : x = c[k]) \/ (\E k \in 1 .. Len(r) : x = r[k]) \/ x > after
    BY <1>1 DEF Known
  <2> QED
    BY <2>1, <2>2, <2>3, <2>4
<1>2. /\ \A i \in 1 .. Len(d) : d[i] \in Nat
      /\ \A i \in 1 .. Len(s) : s[i] \in Nat
  BY ElementOfSeq
<1> QED
  BY <1>1, <1>2 DEF Follows

LEMMA PassedStays ==
    ASSUME NEW b \in Seq(Nat), NEW q \in Seq(Nat), NEW last \in Int,
           NEW c \in Seq(Nat), NEW r \in Seq(Nat), NEW after \in Int,
           Follows(b, q, last, c, r, after), NEW t \in Nat, Passed(b, q, last, t)
    PROVE  Passed(c, r, after, t)
<1>1. ASSUME NEW x \in Nat, Known(b, q, last, x)
      PROVE  x > t
  BY <1>1 DEF Known, Passed
<1>2. /\ \A i \in 1 .. Len(c) : c[i] \in Nat
      /\ \A i \in 1 .. Len(r) : r[i] \in Nat
  BY ElementOfSeq
<1> QED
  BY <1>1, <1>2 DEF Passed, Follows

LEMMA BufferLosesOne ==
    ASSUME NEW b \in Seq(Nat), NEW q \in Seq(Nat), NEW last \in Int, OrderOf(b, q, last),
           NEW c \in Seq(Nat), LosesOne(b, c)
    PROVE  OrderOf(c, q, last) /\ Follows(b, q, last, c, q, last)
<1>1. /\ \A j \in 1 .. Len(c) : \E i \in 1 .. Len(b) : c[j] = b[i]
      /\ Grows(c)
  BY LessIsOrdered DEF OrderOf
<1> QED
  BY <1>1 DEF OrderOf, Follows, Known

LEMMA ChannelLosesOne ==
    ASSUME NEW b \in Seq(Nat), NEW q \in Seq(Nat), NEW last \in Int, OrderOf(b, q, last),
           NEW r \in Seq(Nat), LosesOne(q, r)
    PROVE  OrderOf(b, r, last) /\ Follows(b, q, last, b, r, last)
<1>1. /\ \A j \in 1 .. Len(r) : \E i \in 1 .. Len(q) : r[j] = q[i]
      /\ Grows(r)
  BY LessIsOrdered DEF OrderOf
<1>2. OrderOf(b, r, last)
  BY <1>1 DEF OrderOf
<1>3. Follows(b, q, last, b, r, last)
  BY <1>1 DEF Follows, Known
<1> QED
  BY <1>2, <1>3

LEMMA GrowsByOne ==
    ASSUME NEW q \in Seq(Nat), NEW t \in Nat, Grows(q), \A i \in 1 .. Len(q) : q[i] < t
    PROVE  Grows(Append(q, t))
<1>1. /\ Len(q) \in Nat /\ Len(Append(q, t)) = Len(q) + 1
      /\ \A i \in 1 .. Len(q) : Append(q, t)[i] = q[i]
      /\ Append(q, t)[Len(q) + 1] = t
  BY Appended
<1> DEFINE r == Append(q, t)
<1> HIDE DEF r
<1>2. ASSUME NEW i \in 1 .. Len(q) + 1, NEW j \in 1 .. Len(q) + 1, i < j
      PROVE  r[i] < r[j]
  <2>1. i \in 1 .. Len(q) /\ r[i] = q[i]
    BY <1>1, <1>2 DEF r
  <2>2. CASE j \in 1 .. Len(q)
    BY <1>1, <1>2, <2>1, <2>2 DEF Grows, r
  <2>3. CASE j = Len(q) + 1
    BY <1>1, <2>1, <2>3 DEF r
  <2> QED
    BY <1>1, <2>2, <2>3
<1> QED
  BY <1>1, <1>2 DEF Grows, r

LEMMA FrameMoves ==
    ASSUME NEW b \in Seq(Nat), NEW q \in Seq(Nat), NEW last \in Int, OrderOf(b, q, last),
           q # << >>
    PROVE  /\ OrderOf(Append(b, Head(q)), Tail(q), last)
           /\ Follows(b, q, last, Append(b, Head(q)), Tail(q), last)
<1>1. /\ Len(q) \in Nat \ {0} /\ Head(q) = q[1] /\ Head(q) \in Nat
      /\ Tail(q) \in Seq(Nat) /\ Len(Tail(q)) = Len(q) - 1
      /\ \A i \in 1 .. Len(Tail(q)) : Tail(q)[i] = q[i + 1]
  BY Popped
<1>2. /\ Append(b, Head(q)) \in Seq(Nat)
      /\ Len(b) \in Nat /\ Len(Append(b, Head(q))) = Len(b) + 1
      /\ \A i \in 1 .. Len(b) : Append(b, Head(q))[i] = b[i]
      /\ Append(b, Head(q))[Len(b) + 1] = Head(q)
  BY <1>1, Appended
<1>3. OrderOf(b, Tail(q), last) /\ Follows(b, q, last, b, Tail(q), last)
  BY <1>1, TailLosesOne, ChannelLosesOne
<1>4. 1 \in 1 .. Len(q) /\ \A i \in 1 .. Len(b) : b[i] < Head(q)
  BY <1>1 DEF OrderOf
<1>5. Grows(Append(b, Head(q)))
  BY <1>1, <1>4, GrowsByOne DEF OrderOf
<1> DEFINE r == Tail(q)
           c == Append(b, Head(q))
<1>6. ASSUME NEW j \in 1 .. Len(r)
      PROVE  Head(q) < r[j]
  <2>1. j + 1 \in 1 .. Len(q) /\ 1 < j + 1 /\ 1 \in 1 .. Len(q)
    BY <1>1
  <2> QED
    BY <1>1, <2>1 DEF OrderOf, Grows
<1>7. Head(q) <= last
  BY <1>1, <1>4 DEF OrderOf
<1>8. ASSUME NEW i \in 1 .. Len(c)
      PROVE  i \in 1 .. Len(b) \/ i = Len(b) + 1
  BY <1>2
<1>9. /\ \A i \in 1 .. Len(b) : c[i] = b[i]
      /\ c[Len(b) + 1] = Head(q) /\ Head(q) = q[1]
  BY <1>1, <1>2
<1> HIDE DEF r, c
<1>10. ASSUME NEW i \in 1 .. Len(c)
       PROVE  c[i] <= last /\ (\A j \in 1 .. Len(r) : c[i] < r[j]) /\ Known(b, q, last, c[i])
  <2>1. CASE i \in 1 .. Len(b)
    BY <1>3, <1>9, <2>1 DEF OrderOf, Known, r
  <2>2. CASE i = Len(b) + 1
    <3>1. c[i] = Head(q) /\ c[i] = q[1]
      BY <1>9, <2>2
    <3> QED
      BY <1>4, <1>6, <1>7, <3>1 DEF Known
  <2> QED
    BY <1>8, <2>1, <2>2
<1>11. OrderOf(c, r, last)
  BY <1>3, <1>5, <1>10 DEF OrderOf, c, r
<1>12. Follows(b, q, last, c, r, last)
  BY <1>3, <1>10 DEF Follows, r
<1> QED
  BY <1>11, <1>12 DEF c, r

LEMMA FrameIsSent ==
    ASSUME NEW b \in Seq(Nat), NEW q \in Seq(Nat), NEW last \in Int, OrderOf(b, q, last),
           NEW t \in Nat, last < t
    PROVE  /\ OrderOf(b, Append(q, t), t)
           /\ Follows(b, q, last, b, Append(q, t), t)
<1>1. /\ Len(q) \in Nat /\ Len(Append(q, t)) = Len(q) + 1
      /\ \A i \in 1 .. Len(q) : Append(q, t)[i] = q[i]
      /\ Append(q, t)[Len(q) + 1] = t
  BY Appended
<1>2. /\ \A i \in 1 .. Len(b) : b[i] \in Nat
      /\ \A i \in 1 .. Len(q) : q[i] \in Nat
  BY ElementOfSeq
<1>3. \A i \in 1 .. Len(q) : q[i] < t
  BY <1>2 DEF OrderOf
<1>4. Grows(Append(q, t))
  BY <1>3, GrowsByOne DEF OrderOf
<1> DEFINE r == Append(q, t)
<1>5. \A i \in 1 .. Len(r) : i \in 1 .. Len(q) \/ i = Len(q) + 1
  BY <1>1
<1>6. (\A i \in 1 .. Len(q) : r[i] = q[i]) /\ r[Len(q) + 1] = t
  BY <1>1
<1> HIDE DEF r
<1>7. ASSUME NEW j \in 1 .. Len(r)
      PROVE  r[j] <= t /\ (\A i \in 1 .. Len(b) : b[i] < r[j]) /\ Known(b, q, last, r[j])
  <2>1. CASE j \in 1 .. Len(q)
    <3>1. r[j] = q[j] /\ q[j] \in Nat /\ q[j] < t /\ \A i \in 1 .. Len(b) : b[i] < q[j]
      BY <1>2, <1>3, <1>6, <2>1 DEF OrderOf
    <3>2. Known(b, q, last, r[j])
      BY <2>1, <3>1 DEF Known
    <3> QED
      BY <3>1, <3>2
  <2>2. CASE j = Len(q) + 1
    <3>1. r[j] = t
      BY <1>6, <2>2
    <3>2. \A i \in 1 .. Len(b) : b[i] < t
      BY <1>2 DEF OrderOf
    <3> QED
      BY <3>1, <3>2 DEF Known
  <2> QED
    BY <1>5, <2>1, <2>2
<1>8. \A i \in 1 .. Len(b) : b[i] <= t /\ Known(b, q, last, b[i])
  BY <1>2 DEF OrderOf, Known
<1>9. OrderOf(b, r, t)
  BY <1>4, <1>7, <1>8 DEF OrderOf, r
<1>10. Follows(b, q, last, b, r, t)
  BY <1>7, <1>8 DEF Follows
<1> QED
  BY <1>9, <1>10 DEF r

LEMMA CamerasGoOn ==
    ASSUME Inv, [Next]_vars
    PROVE  \A c \in Cameras :
              /\ OrderOf(buffers'[c], input'[c], lastSent'[c])
              /\ Follows(buffers[c], input[c], lastSent[c], buffers'[c], input'[c], lastSent'[c])
<1>1. setup \in Setups /\ Queues /\ Producers /\ InOrder
  BY DEF Inv, Types
<1>2. Queues' /\ Cameras' = Cameras /\ Instants' = Instants
  BY QueuesKept, SetupStays
<1>3. setup.maxTime \in Nat /\ Capacity \in Nat /\ Capacity > 0
  BY <1>1, Parameters
<1>4. /\ buffers \in [Cameras -> Seq(Instants)] /\ input \in [Cameras -> Seq(Instants)]
      /\ lastSent \in [Cameras -> Instants \cup {-1}]
      /\ buffers' \in [Cameras -> Seq(Instants)] /\ input' \in [Cameras -> Seq(Instants)]
  BY <1>1, <1>2 DEF Queues, Producers
<1>5. Seq(Instants) \subseteq Seq(Nat)
  <2>1. Instants \subseteq Nat
    BY <1>3 DEF Instants
  <2> QED
    BY <2>1, SeqMonotonic
<1>6. ASSUME NEW c \in Cameras
      PROVE  /\ OrderOf(buffers'[c], input'[c], lastSent'[c])
             /\ Follows(buffers[c], input[c], lastSent[c], buffers'[c], input'[c], lastSent'[c])
  <2>1. /\ buffers[c] \in Seq(Nat) /\ input[c] \in Seq(Nat)
        /\ buffers'[c] \in Seq(Nat) /\ input'[c] \in Seq(Nat)
    BY <1>4, <1>5
  <2>2. lastSent[c] \in Int
    BY <1>3, <1>4 DEF Instants
  <2>3. OrderOf(buffers[c], input[c], lastSent[c])
    BY <1>1 DEF InOrder
  <2>4. ASSUME buffers'[c] = buffers[c], input'[c] = input[c], lastSent'[c] = lastSent[c]
        PROVE  /\ OrderOf(buffers'[c], input'[c], lastSent'[c])
               /\ Follows(buffers[c], input[c], lastSent[c], buffers'[c], input'[c], lastSent'[c])
    BY <2>1, <2>2, <2>3, <2>4, NothingFollows
  <2>5. ASSUME NEW G, Leave(G), UNCHANGED <<input, lastSent>>
        PROVE  /\ OrderOf(buffers'[c], input'[c], lastSent'[c])
               /\ Follows(buffers[c], input[c], lastSent[c], buffers'[c], input'[c], lastSent'[c])
    <3>1. CASE LosesOne(buffers[c], buffers'[c])
      BY <2>1, <2>2, <2>3, <2>5, <3>1, BufferLosesOne
    <3>2. CASE buffers'[c] = buffers[c]
      BY <2>4, <2>5, <3>2
    <3> QED
      BY <2>5, <3>1, <3>2 DEF Leave
  <2>6. CASE NothingMoves
    BY <2>4, <2>6 DEF NothingMoves
  <2>7. CASE BatchLeaves
    BY <2>5, <2>7 DEF BatchLeaves
  <2>8. CASE OneLeaves
    BY <2>5, <2>8 DEF OneLeaves
  <2>9. CASE RestLeaves
    <3>1. buffers'[c] = << >> /\ input'[c] = input[c] /\ lastSent'[c] = lastSent[c]
      BY <2>9 DEF RestLeaves
    <3>2. Len(buffers'[c]) = 0
      BY <3>1, EmptySeq
    <3>3. Grows(buffers'[c])
      BY <3>2 DEF Grows
    <3> QED
      BY <2>1, <2>2, <2>3, <3>1, <3>2, <3>3, NothingFollows DEF OrderOf, Follows
  <2>10. ASSUME NEW e \in Cameras, DrainFrame(e)
         PROVE  /\ OrderOf(buffers'[c], input'[c], lastSent'[c])
                /\ Follows(buffers[c], input[c], lastSent[c], buffers'[c], input'[c], lastSent'[c])
    <3>1. lastSent' = lastSent
      BY <2>10 DEF DrainFrame, producers
    <3>2. CASE e # c
      <4>1. buffers'[c] = buffers[c] /\ input'[c] = input[c]
        BY <1>4, <2>10, <3>2 DEF DrainFrame
      <4> QED
        BY <2>4, <3>1, <4>1
    <3>3. CASE e = c
      <4>1. /\ buffers'[c] = Append(IF Len(buffers[c]) = Capacity THEN Tail(buffers[c]) ELSE buffers[c],
                                    Head(input[c]))
            /\ input'[c] = Tail(input[c]) /\ input[c] # << >>
        BY <1>4, <2>10, <3>3 DEF DrainFrame
      <4>2. CASE Len(buffers[c]) # Capacity
        <5>1. buffers'[c] = Append(buffers[c], Head(input[c]))
          BY <4>1, <4>2
        <5> QED
          BY <2>1, <2>2, <2>3, <3>1, <4>1, <5>1, FrameMoves
      <4>3. CASE Len(buffers[c]) = Capacity
        <5>1. buffers[c] # << >>
          BY <1>3, <4>3, EmptySeq
        <5>2. PICK b : b = Tail(buffers[c])
          OBVIOUS
        <5>3. b \in Seq(Nat) /\ LosesOne(buffers[c], b)
          BY <2>1, <5>1, <5>2, TailLosesOne
        <5>4. /\ OrderOf(b, input[c], lastSent[c])
              /\ Follows(buffers[c], input[c], lastSent[c], b, input[c], lastSent[c])
          BY <2>1, <2>2, <2>3, <5>3, BufferLosesOne
        <5>5. buffers'[c] = Append(b, Head(input[c]))
          BY <4>1, <4>3, <5>2
        <5>6. /\ OrderOf(buffers'[c], input'[c], lastSent[c])
              /\ Follows(b, input[c], lastSent[c], buffers'[c], input'[c], lastSent[c])
          BY <2>1, <2>2, <4>1, <5>3, <5>4, <5>5, FrameMoves
        <5>7. Follows(buffers[c], input[c], lastSent[c], buffers'[c], input'[c], lastSent[c])
          BY <2>1, <2>2, <5>3, <5>4, <5>6, FollowsOn
        <5> QED
          BY <3>1, <5>6, <5>7
      <4> QED
        BY <4>2, <4>3
    <3> QED
      BY <3>2, <3>3
  <2>11. ASSUME NEW e \in Cameras, NEW t \in Instants, CameraSends(e, t)
         PROVE  /\ OrderOf(buffers'[c], input'[c], lastSent'[c])
                /\ Follows(buffers[c], input[c], lastSent[c], buffers'[c], input'[c], lastSent'[c])
    <3>1. buffers' = buffers
      BY <2>11 DEF CameraSends
    <3>2. CASE e # c
      <4>1. lastSent'[c] = lastSent[c] /\ input'[c] = input[c]
        BY <1>4, <2>11, <3>2 DEF CameraSends
      <4> QED
        BY <2>4, <3>1, <4>1
    <3>3. CASE e = c
      <4>1. lastSent'[c] = t /\ lastSent[c] < t /\ t \in Nat
        BY <1>3, <1>4, <2>11, <3>3 DEF CameraSends, Instants
      <4>2. \/ input'[c] = Append(input[c], t)
            \/ Len(input[c]) = Capacity /\ input'[c] = Append(Tail(input[c]), t)
        BY <1>4, <2>11, <3>3 DEF CameraSends
      <4>3. CASE input'[c] = Append(input[c], t)
        BY <2>1, <2>2, <2>3, <3>1, <4>1, <4>3, FrameIsSent
      <4>4. CASE Len(input[c]) = Capacity /\ input'[c] = Append(Tail(input[c]), t)
        <5>1. input[c] # << >>
          BY <1>3, <4>4, EmptySeq
        <5>2. PICK q : q = Tail(input[c])
          OBVIOUS
        <5>3. q \in Seq(Nat) /\ LosesOne(input[c], q)
          BY <2>1, <5>1, <5>2, TailLosesOne
        <5>4. /\ OrderOf(buffers[c], q, lastSent[c])
              /\ Follows(buffers[c], input[c], lastSent[c], buffers[c], q, lastSent[c])
          BY <2>1, <2>2, <2>3, <5>3, ChannelLosesOne
        <5>5. /\ OrderOf(buffers[c], input'[c], t)
              /\ Follows(buffers[c], q, lastSent[c], buffers[c], input'[c], t)
          BY <2>1, <2>2, <4>1, <4>4, <5>2, <5>3, <5>4, FrameIsSent
        <5>6. Follows(buffers[c], input[c], lastSent[c], buffers[c], input'[c], t)
          <6>1. t \in Int
            BY <4>1
          <6> QED
            BY <2>1, <2>2, <5>3, <5>4, <5>5, <6>1, FollowsOn
        <5> QED
          BY <3>1, <4>1, <5>5, <5>6
      <4> QED
        BY <4>2, <4>3, <4>4
    <3> QED
      BY <3>2, <3>3
  <2> QED
    BY <2>6, <2>7, <2>8, <2>9, <2>10, <2>11, StepKinds DEF Drains, Sends
<1> QED
  BY <1>6

LEMMA InOrderKept ==
    ASSUME Inv, [Next]_vars
    PROVE  InOrder'
<1>1. Cameras' = Cameras
  BY SetupStays
<1> QED
  BY <1>1, CamerasGoOn DEF InOrder

LEMMA DiscardsFitKept ==
    ASSUME Inv, [Next]_vars
    PROVE  DiscardsFit'
<1>1. setup \in Setups /\ Queues /\ Producers /\ InOrder /\ DiscardsFit
      /\ discarded \subseteq Cameras \X Instants
  BY DEF Inv, Types, History
<1>2. Queues' /\ Producers' /\ Cameras' = Cameras /\ Instants' = Instants /\ Tolerance' = Tolerance
  BY QueuesKept, ProducersKept, SetupStays
<1>3. setup.maxTime \in Nat /\ Tolerance \in Nat
  BY <1>1, Parameters
<1>4. ASSUME NEW c \in Cameras
      PROVE  /\ buffers[c] \in Seq(Nat) /\ input[c] \in Seq(Nat) /\ lastSent[c] \in Int
             /\ buffers'[c] \in Seq(Nat) /\ input'[c] \in Seq(Nat) /\ lastSent'[c] \in Int
  <2>1. /\ buffers[c] \in Seq(Instants) /\ input[c] \in Seq(Instants)
        /\ buffers'[c] \in Seq(Instants) /\ input'[c] \in Seq(Instants)
        /\ lastSent[c] \in Instants \cup {-1} /\ lastSent'[c] \in Instants \cup {-1}
    BY <1>1, <1>2 DEF Queues, Producers
  <2>2. Instants \subseteq Nat
    BY <1>3 DEF Instants
  <2>3. lastSent[c] \in Int /\ lastSent'[c] \in Int
    BY <1>3, <2>1 DEF Instants
  <2> QED
    BY <2>1, <2>2, <2>3, SeqMonotonic
<1>5. ASSUME NEW c \in Cameras, NEW t \in Nat, Passed(buffers[c], input[c], lastSent[c], t)
      PROVE  Passed(buffers'[c], input'[c], lastSent'[c], t)
  BY <1>4, <1>5, CamerasGoOn, PassedStays
<1>6. ASSUME NEW f \in discarded
      PROVE  \E c \in Cameras : Passed(buffers'[c], input'[c], lastSent'[c], f[2] + Tolerance)
  <2>1. PICK c \in Cameras : Passed(buffers[c], input[c], lastSent[c], f[2] + Tolerance)
    BY <1>1 DEF DiscardsFit
  <2>2. f[2] \in Instants
    BY <1>1
  <2>3. f[2] + Tolerance \in Nat
    BY <1>3, <2>2 DEF Instants
  <2> QED
    BY <1>5, <2>1, <2>3
<1>7. CASE discarded' = discarded
  BY <1>2, <1>6, <1>7 DEF DiscardsFit
<1>8. CASE OneLeaves
  <2>1. PICK c \in Cameras :
           /\ buffers[c] # << >>
           /\ discarded' = discarded \cup {<<c, buffers[c][1]>>}
           /\ \E d \in Cameras \ {c} :
                /\ buffers[d] # << >>
                /\ \A i \in 1 .. Len(buffers[d]) : buffers[d][i] > buffers[c][1] + Tolerance
    BY <1>8 DEF OneLeaves
  <2>2. PICK d \in Cameras \ {c} :
           /\ buffers[d] # << >>
           /\ \A i \in 1 .. Len(buffers[d]) : buffers[d][i] > buffers[c][1] + Tolerance
    BY <2>1
  <2>3. Len(buffers[c]) \in Nat \ {0} /\ Len(buffers[d]) \in Nat \ {0}
    BY <1>4, <2>1, <2>2, Popped
  <2>4. 1 \in 1 .. Len(buffers[c]) /\ 1 \in 1 .. Len(buffers[d])
    BY <2>3
  <2>5. buffers[c][1] \in Nat /\ buffers[d][1] \in Nat
    BY <1>4, <2>4, ElementOfSeq
  <2> DEFINE t == buffers[c][1] + Tolerance
             first == buffers[d][1]
  <2>6. t \in Nat /\ first \in Nat /\ first > t
    BY <1>3, <2>2, <2>4, <2>5
  <2>7. OrderOf(buffers[d], input[d], lastSent[d])
    BY <1>1 DEF InOrder
  <2>8. first <= lastSent[d] /\ \A j \in 1 .. Len(input[d]) : first < input[d][j]
    BY <2>4, <2>7 DEF OrderOf
  <2>9. /\ lastSent[d] \in Int /\ \A j \in 1 .. Len(input[d]) : input[d][j] \in Nat
        /\ \A i \in 1 .. Len(buffers[d]) : buffers[d][i] > t
    BY <1>4, <2>2, ElementOfSeq
  <2> HIDE DEF t, first
  <2>10. Passed(buffers[d], input[d], lastSent[d], t)
    <3>1. lastSent[d] > t
      BY <2>6, <2>8, <2>9
    <3>2. ASSUME NEW j \in 1 .. Len(input[d]) PROVE input[d][j] > t
      <4>1. PICK x \in Nat : x = input[d][j] /\ first < x
        BY <2>8, <2>9
      <4> QED
        BY <2>6, <4>1
    <3> QED
      BY <2>9, <3>1, <3>2 DEF Passed
  <2>11. Passed(buffers'[d], input'[d], lastSent'[d], t)
    BY <1>5, <2>6, <2>10
  <2>12. \A f \in discarded' : f \in discarded \/ f[2] = buffers[c][1]
    BY <2>1
  <2>13. ASSUME NEW f \in discarded'
         PROVE  \E e \in Cameras : Passed(buffers'[e], input'[e], lastSent'[e], f[2] + Tolerance)
    BY <1>6, <2>11, <2>12 DEF t
  <2> QED
    BY <1>2, <2>13 DEF DiscardsFit
<1>9. CASE NothingMoves \/ BatchLeaves \/ RestLeaves
  BY <1>7, <1>9 DEF NothingMoves, BatchLeaves, RestLeaves
<1>10. CASE Drains \/ Sends
  BY <1>7, <1>10 DEF Drains, DrainFrame, Sends, CameraSends, history
<1> QED
  BY <1>8, <1>9, <1>10, StepKinds

-----------------------------------------------------------------------------
(* The batches, and the frames that add up.                                 *)

LEMMA BatchesFitKept ==
    ASSUME Inv, [Next]_vars
    PROVE  BatchesFit'
<1>1. /\ setup \in Setups /\ batches \in Seq(Batches) /\ refused \in Nat /\ emitted \in Nat
      /\ BatchesFit
  BY DEF Inv, Types, History, Counts
<1>2. setup' = setup /\ Cameras' = Cameras /\ Tolerance' = Tolerance
  BY SetupStays
<1> DEFINE Fits(b) == BatchIsClose(b) /\ (setup.policy = "DropBatch" => DOMAIN b = Cameras)
<1>3. \A i \in 1 .. Len(batches) : Fits(batches[i])
  BY <1>1 DEF BatchesFit
<1>4. SUFFICES \A i \in 1 .. Len(batches') : Fits(batches'[i])
  BY <1>2 DEF BatchesFit, BatchIsClose
<1>5. CASE batches' = batches
  <2> HIDE DEF Fits
  <2> QED
    BY <1>3, <1>5
<1>6. CASE BatchLeaves
  <2>1. PICK G \in (SUBSET Cameras) \ {{}} : \E batch \in [G -> Instants], at \in {"check", "finish"} :
           /\ BatchIsClose(batch)
           /\ setup.policy = "DropBatch" => G = Cameras
           /\ SendBatch(batch, at)
    BY <1>6 DEF BatchLeaves
  <2>2. PICK batch \in [G -> Instants], at \in {"check", "finish"} :
           /\ BatchIsClose(batch)
           /\ setup.policy = "DropBatch" => G = Cameras
           /\ SendBatch(batch, at)
    BY <2>1
  <2>3. batch \in Batches /\ DOMAIN batch = G
    BY DEF Batches
  <2>4. Fits(batch)
    BY <2>2, <2>3
  <2>5. \A i \in 1 .. Len(batches') :
           batches'[i] = batch \/ (i \in 1 .. Len(batches) /\ batches'[i] = batches[i])
    BY <1>1, <2>2, <2>3, SendIsCounted
  <2> HIDE DEF Fits
  <2> QED
    BY <1>3, <2>4, <2>5
<1>7. CASE NothingMoves \/ OneLeaves \/ RestLeaves
  BY <1>5, <1>7 DEF NothingMoves, OneLeaves, RestLeaves
<1>8. CASE Drains \/ Sends
  BY <1>5, <1>8 DEF Drains, DrainFrame, Sends, CameraSends, history
<1> QED
  BY <1>6, <1>7, <1>8, StepKinds

\* A group of cameras loses a frame each.
LEMMA LeaveIsCounted ==
    ASSUME setup \in Setups, setup' = setup, Queues, Queues', NEW G \in SUBSET Cameras, Leave(G)
    PROVE  Buffered' = Buffered - Cardinality(G) /\ Cardinality(G) \in Nat
<1>1. Cameras' = Cameras
  BY DEF Cameras
<1> DEFINE f == [c \in Cameras |-> Len(buffers[c])]
           e == [c \in Cameras |-> Len(buffers'[c])]
<1>2. IsFiniteSet(Cameras) /\ Cardinality(G) \in Nat
  BY Parameters, SubsetSizes
<1>3. Buffered = SumFunctionOnSet(f, Cameras)
  BY DEF Buffered, SumFunction
<1>4. Buffered' = SumFunctionOnSet(e, Cameras)
  BY <1>1 DEF Buffered, SumFunction
<1>5. ASSUME NEW c \in Cameras
      PROVE  f[c] \in Int /\ e[c] = IF c \in G THEN f[c] - 1 ELSE f[c]
  <2>1. buffers[c] \in Seq(Instants)
    BY DEF Queues
  <2>2. Len(buffers[c]) \in Nat
    BY <2>1, LenProperties
  <2>3. CASE c \in G
    <3>1. Len(buffers'[c]) = Len(buffers[c]) - 1
      BY <2>3 DEF Leave, LosesOne
    <3> QED
      BY <2>2, <2>3, <3>1
  <2>4. CASE c \notin G
    <3>1. buffers'[c] = buffers[c]
      BY <2>4 DEF Leave
    <3> QED
      BY <2>2, <2>4, <3>1
  <2> QED
    BY <2>3, <2>4
<1> HIDE DEF e, f
<1>6. SumFunctionOnSet(e, Cameras) = SumFunctionOnSet(f, Cameras) - Cardinality(G)
  BY <1>2, <1>5, SumLosesOnes
<1> QED
  BY <1>2, <1>3, <1>4, <1>6

LEMMA DrainIsCounted ==
    ASSUME setup \in Setups, setup' = setup, Queues, Queues',
           dropped \in Nat, received \in [Cameras -> Nat], NEW c \in Cameras, DrainFrame(c)
    PROVE  /\ SumFunction(received') = SumFunction(received) + 1
           /\ Buffered' + dropped' = Buffered + dropped + 1
           /\ SumFunction(received) \in Int /\ Buffered' \in Nat /\ dropped' \in Nat
<1>1. Cameras' = Cameras /\ IsFiniteSet(Cameras) /\ Capacity \in Nat /\ Capacity > 0
  BY Parameters DEF Cameras
<1>2. /\ SumFunction(received') = SumFunction(received) + 1
      /\ SumFunction(received) \in Int
  <2>1. received' = [received EXCEPT ![c] = @ + 1]
    BY DEF DrainFrame
  <2>2. received[c] \in Nat /\ received[c] + 1 \in Nat
    OBVIOUS
  <2>3. /\ DOMAIN received = Cameras /\ DOMAIN received' = Cameras
        /\ received'[c] = received[c] + 1
        /\ \A d \in Cameras : d # c => received'[d] = received[d]
        /\ \A d \in Cameras : received[d] \in Int /\ received'[d] \in Int
    BY <2>1, <2>2
  <2>4. PICK r : r = received'
    OBVIOUS
  <2>5. SumFunctionOnSet(r, Cameras) = SumFunctionOnSet(received, Cameras) + (r[c] - received[c])
    BY <1>1, <2>3, <2>4, SumChanges
  <2>6. SumFunctionOnSet(received, Cameras) \in Int
    BY <1>1, <2>3, SumTakesAny
  <2> QED
    BY <2>2, <2>3, <2>4, <2>5, <2>6 DEF SumFunction
<1>3. buffers[c] \in Seq(Instants) /\ Len(buffers[c]) \in Nat /\ Len(buffers[c]) <= Capacity
  BY LenProperties DEF Queues
<1>4. Head(input[c]) \in Instants
  <2>1. input[c] \in Seq(Instants) /\ input[c] # << >>
    BY DEF Queues, DrainFrame
  <2> QED
    BY <2>1, Popped
<1>5. /\ \A d \in Cameras : d # c => buffers'[d] = buffers[d]
      /\ \/ /\ Len(buffers[c]) = Capacity /\ dropped' = dropped + 1
            /\ buffers'[c] = Append(Tail(buffers[c]), Head(input[c]))
         \/ /\ Len(buffers[c]) # Capacity /\ dropped' = dropped
            /\ buffers'[c] = Append(buffers[c], Head(input[c]))
  BY DEF DrainFrame, Queues
<1>6. \/ Len(buffers'[c]) = Len(buffers[c]) /\ dropped' = dropped + 1
      \/ Len(buffers'[c]) = Len(buffers[c]) + 1 /\ dropped' = dropped
  <2>1. ASSUME Len(buffers[c]) = Capacity, buffers'[c] = Append(Tail(buffers[c]), Head(input[c]))
        PROVE  Len(buffers'[c]) = Len(buffers[c])
    <3>1. buffers[c] # << >>
      BY <1>1, <2>1, EmptySeq
    <3>2. Tail(buffers[c]) \in Seq(Instants) /\ Len(Tail(buffers[c])) = Len(buffers[c]) - 1
      BY <1>3, <3>1, Popped
    <3>3. Len(Append(Tail(buffers[c]), Head(input[c]))) = Len(Tail(buffers[c])) + 1
      BY <1>4, <3>2, Appended
    <3> QED
      BY <1>3, <2>1, <3>2, <3>3
  <2>2. ASSUME buffers'[c] = Append(buffers[c], Head(input[c]))
        PROVE  Len(buffers'[c]) = Len(buffers[c]) + 1
    BY <1>3, <1>4, <2>2, Appended
  <2> QED
    BY <1>5, <2>1, <2>2
<1> DEFINE f == [d \in Cameras |-> Len(buffers[d])]
           e == [d \in Cameras |-> Len(buffers'[d])]
<1>7. Buffered = SumFunctionOnSet(f, Cameras)
  BY DEF Buffered, SumFunction
<1>8. Buffered' = SumFunctionOnSet(e, Cameras)
  BY <1>1 DEF Buffered, SumFunction
<1>9. ASSUME NEW d \in Cameras
      PROVE  Len(buffers[d]) \in Nat /\ Len(buffers'[d]) \in Nat
  <2>1. buffers[d] \in Seq(Instants)
    BY DEF Queues
  <2>2. buffers'[d] \in Seq(Instants')
    BY <1>1 DEF Queues
  <2> QED
    BY <2>1, <2>2, LenProperties
<1>10. /\ \A d \in Cameras : f[d] \in Nat /\ e[d] \in Nat
       /\ \A d \in Cameras : d # c => e[d] = f[d]
       /\ f[c] = Len(buffers[c]) /\ e[c] = Len(buffers'[c])
  BY <1>5, <1>9
<1> HIDE DEF e, f
<1>11. SumFunctionOnSet(e, Cameras) = SumFunctionOnSet(f, Cameras) + (e[c] - f[c])
  <2>1. \A d \in Cameras : f[d] \in Int /\ e[d] \in Int
    BY <1>10
  <2>2. IsFiniteSet(Cameras)
    BY <1>1
  <2>3. \A d \in Cameras : d # c => e[d] = f[d]
    BY <1>10
  <2> QED
    BY <2>1, <2>2, <2>3, SumChanges
<1>12. SumFunctionOnSet(f, Cameras) \in Nat /\ SumFunctionOnSet(e, Cameras) \in Nat
  BY <1>1, <1>10, SumIsNatural
<1>13. Buffered' + dropped' = Buffered + dropped + 1 /\ dropped' \in Nat
  <2>0. f[c] \in Nat /\ e[c] \in Nat
    BY <1>10
  <2>1. (e[c] - f[c]) + dropped' = dropped + 1 /\ dropped' \in Nat
    <3>1. \/ e[c] = f[c] /\ dropped' = dropped + 1
          \/ e[c] = f[c] + 1 /\ dropped' = dropped
      BY <1>6, <1>10
    <3>2. dropped \in Nat
      OBVIOUS
    <3> QED
      BY <2>0, <3>1, <3>2
  <2>2. e[c] - f[c] \in Int
    BY <1>10
  <2>3. Buffered' = Buffered + (e[c] - f[c]) /\ Buffered \in Nat
    BY <1>7, <1>8, <1>11, <1>12
  <2> QED
    BY <2>1, <2>2, <2>3
<1> QED
  BY <1>2, <1>8, <1>12, <1>13

LEMMA FramesAddUpKept ==
    ASSUME Inv, [Next]_vars
    PROVE  FramesAddUp'
<1>1. /\ setup \in Setups /\ Queues /\ batches \in Seq(Batches) /\ FramesAddUp
      /\ dropped \in Nat /\ refused \in Nat /\ received \in [Cameras -> Nat]
  BY DEF Inv, Types, Counts, History
<1>0. dropped \in Int /\ refused \in Int
  BY <1>1
<1>2. Queues' /\ setup' = setup /\ Cameras' = Cameras
  BY QueuesKept, SetupStays
<1>3. SumFunction(received) = Buffered + dropped + refused + InBatches
  BY <1>1 DEF FramesAddUp, InBatches
<1>4. SUFFICES SumFunction(received') = Buffered' + dropped' + refused' + InBatches'
  BY DEF FramesAddUp, InBatches
<1>5. Buffered \in Nat
  BY <1>1, LengthsAreSummed
<1>6. InBatches \in Int
  <2>1. \A i \in DOMAIN batches : Cardinality(DOMAIN batches[i]) \in Nat
    BY <1>1, BatchSizes, ElementOfSeq, LenProperties
  <2> DEFINE f == [i \in DOMAIN batches |-> Cardinality(DOMAIN batches[i])]
  <2>2. DOMAIN f = DOMAIN batches /\ \A i \in DOMAIN batches : f[i] \in Int
    BY <2>1
  <2>3. DOMAIN batches = 1 .. Len(batches) /\ Len(batches) \in Int
    BY <1>1, LenProperties
  <2>4. IsFiniteSet(DOMAIN batches)
    BY <2>3, FS_Interval
  <2>5. InBatches = SumFunctionOnSet(f, DOMAIN batches)
    BY <2>2 DEF InBatches, SumFunction
  <2> HIDE DEF f
  <2> QED
    BY <2>2, <2>4, <2>5, SumTakesAny
<1>7. ASSUME buffers' = buffers
      PROVE  Buffered' = Buffered
  BY <1>2, <1>7 DEF Buffered
<1>8. ASSUME batches' = batches
      PROVE  InBatches' = InBatches
  BY <1>8 DEF InBatches
<1>9. CASE NothingMoves
  <2>1. Buffered' = Buffered /\ InBatches' = InBatches
    BY <1>7, <1>8, <1>9 DEF NothingMoves
  <2>2. dropped' = dropped /\ refused' = refused /\ received' = received
    BY <1>9 DEF NothingMoves
  <2> QED
    BY <1>3, <2>1, <2>2
<1>10. CASE Sends
  <2>1. Buffered' = Buffered /\ InBatches' = InBatches
    BY <1>7, <1>8, <1>10 DEF Sends, CameraSends, history
  <2>2. dropped' = dropped /\ refused' = refused /\ received' = received
    BY <1>10 DEF Sends, CameraSends, history, counters
  <2> QED
    BY <1>3, <2>1, <2>2
<1>11. CASE RestLeaves
  <2>1. InBatches' = InBatches /\ refused' = refused /\ received' = received
    BY <1>8, <1>11 DEF RestLeaves
  <2>2. dropped' = dropped + Buffered /\ \A c \in Cameras : buffers'[c] = << >>
    BY <1>11 DEF RestLeaves
  <2> DEFINE e == [c \in Cameras |-> Len(buffers'[c])]
  <2>3. Buffered' = SumFunctionOnSet(e, Cameras)
    BY <1>2 DEF Buffered, SumFunction
  <2>4. \A c \in Cameras : e[c] = 0
    BY <2>2, EmptySeq
  <2>5. IsFiniteSet(Cameras)
    BY <1>1, Parameters
  <2> HIDE DEF e
  <2>6. Buffered' = 0
    BY <2>3, <2>4, <2>5, SumOfZeros
  <2> QED
    BY <1>0, <1>3, <1>5, <1>6, <2>1, <2>2, <2>6
<1>12. CASE OneLeaves
  <2>1. PICK c \in Cameras : Leave({c})
    BY <1>12 DEF OneLeaves
  <2>2. {c} \in SUBSET Cameras /\ Cardinality({c}) = 1
    BY FS_Singleton
  <2>3. Buffered' = Buffered - Cardinality({c})
    BY <1>1, <1>2, <2>1, <2>2, LeaveIsCounted
  <2>4. /\ InBatches' = InBatches /\ refused' = refused /\ received' = received
        /\ dropped' = dropped + 1
    BY <1>8, <1>12 DEF OneLeaves
  <2> QED
    BY <1>0, <1>3, <1>5, <1>6, <2>2, <2>3, <2>4
<1>13. CASE BatchLeaves
  <2>1. PICK G \in (SUBSET Cameras) \ {{}} : \E batch \in [G -> Instants], at \in {"check", "finish"} :
           Leave(G) /\ SendBatch(batch, at)
    BY <1>13 DEF BatchLeaves
  <2>2. PICK batch \in [G -> Instants], at \in {"check", "finish"} :
           Leave(G) /\ SendBatch(batch, at)
    BY <2>1
  <2>3. batch \in Batches /\ DOMAIN batch = G
    BY DEF Batches
  <2>4. Buffered' = Buffered - Cardinality(G) /\ Cardinality(G) \in Nat
    BY <1>1, <1>2, <2>2, LeaveIsCounted
  <2>5. /\ refused' + InBatches' = refused + InBatches + Cardinality(G)
        /\ refused' \in Nat /\ InBatches' \in Int
    BY <1>1, <2>2, <2>3, SendIsCounted
  <2>6. dropped' = dropped /\ SumFunction(received') = SumFunction(received)
    BY <1>13 DEF BatchLeaves
  <2> QED
    BY <1>0, <1>3, <1>5, <1>6, <2>4, <2>5, <2>6
<1>14. ASSUME NEW c \in Cameras, DrainFrame(c)
       PROVE  SumFunction(received') = Buffered' + dropped' + refused' + InBatches'
  <2>1. InBatches' = InBatches /\ refused' = refused
    BY <1>8, <1>14 DEF DrainFrame, history
  <2>2. /\ SumFunction(received') = SumFunction(received) + 1
        /\ Buffered' + dropped' = Buffered + dropped + 1
        /\ SumFunction(received) \in Int /\ Buffered' \in Nat /\ dropped' \in Nat
    BY <1>1, <1>2, <1>14, DrainIsCounted
  <2>3. Buffered' + dropped' \in Int /\ Buffered + dropped \in Int
    BY <1>0, <1>5, <2>2
  <2> DEFINE sum == SumFunction(received)
             old == Buffered + dropped
             new == Buffered' + dropped'
             sent == InBatches
  <2>4. sum = old + refused + sent /\ new = old + 1
    BY <1>3, <2>2
  <2>5. old \in Int /\ new \in Int /\ sent \in Int
    BY <1>6, <2>3
  <2> HIDE DEF sum, old, new, sent
  <2>6. sum + 1 = new + refused + sent
    BY <1>0, <2>4, <2>5
  <2> QED
    BY <2>1, <2>2, <2>6 DEF sum, new, sent
<1> QED
  BY <1>9, <1>10, <1>11, <1>12, <1>13, <1>14, StepKinds DEF Drains

-----------------------------------------------------------------------------
(* The theorems.                                                            *)

LEMMA InitKept == Init => Inv
<1> SUFFICES ASSUME Init PROVE Inv
  OBVIOUS
<1>1. /\ setup.cameras \in Nat /\ setup.cameras > 1 /\ Capacity \in Nat /\ Capacity > 0
      /\ setup.maxTime \in Nat /\ IsFiniteSet(Cameras)
  BY Parameters DEF Init
<1>2. /\ << >> \in Seq(Instants) /\ Len(<< >>) = 0 /\ << >> \in Seq(Batches)
      /\ DOMAIN << >> = {}
  BY EmptySeq
<1>3. /\ \A c \in Cameras : buffers[c] = << >> /\ input[c] = << >> /\ received[c] = 0
      /\ buffers \in [Cameras -> Seq(Instants)] /\ input \in [Cameras -> Seq(Instants)]
      /\ DOMAIN received = Cameras
  BY <1>2 DEF Init
<1>4. Producers /\ Flags
  <2>1. 0 \in Instants
    BY <1>1 DEF Instants
  <2>2. lastSent \in [Cameras -> Instants \cup {-1}]
    BY DEF Init
  <2>3. inClosed \in [Cameras -> BOOLEAN]
    BY DEF Init
  <2> QED
    BY <2>1, <2>2, <2>3 DEF Init, Producers, Flags
<1>5. Queues
  BY <1>1, <1>2, <1>3 DEF Queues
<1>6. Worker /\ PartialIsAllowed
  BY <1>1 DEF Init, Worker, Places, PartialIsAllowed
<1>7. Counts
  BY <1>3 DEF Init, Counts
<1>8. History
  BY <1>2 DEF Init, History
<1>9. InOrder
  BY <1>2, <1>3 DEF InOrder, OrderOf, Grows
<1>10. BatchesFit /\ DiscardsFit
  BY <1>2 DEF Init, BatchesFit, DiscardsFit
<1>11. FramesAddUp
  <2>1. SumFunction(received) = 0
    BY <1>1, <1>3, SumOfZeros DEF SumFunction
  <2> DEFINE f == [c \in Cameras |-> Len(buffers[c])]
  <2>2. Buffered = SumFunctionOnSet(f, Cameras)
    BY DEF Buffered, SumFunction
  <2>3. \A c \in Cameras : f[c] = 0
    BY <1>2, <1>3
  <2> HIDE DEF f
  <2>4. Buffered = 0
    BY <1>1, <2>2, <2>3, SumOfZeros
  <2> DEFINE g == [i \in DOMAIN batches |-> Cardinality(DOMAIN batches[i])]
  <2>5. DOMAIN g = {}
    BY <1>2 DEF Init
  <2> HIDE DEF g
  <2>6. SumFunction(g) = 0
    BY <2>5, SumOfNothing DEF SumFunction
  <2>7. dropped = 0 /\ refused = 0
    BY DEF Init
  <2> QED
    BY <2>1, <2>4, <2>6, <2>7 DEF FramesAddUp, g
<1> QED
  BY <1>4, <1>5, <1>6, <1>7, <1>8, <1>9, <1>10, <1>11 DEF Init, Inv, Types

LEMMA NextKept == Inv /\ [Next]_vars => Inv'
<1> SUFFICES ASSUME Inv, [Next]_vars PROVE Inv'
  OBVIOUS
<1>1. (setup \in Setups)'
  BY SetupStays DEF Inv, Types
<1> QED
  BY <1>1, ProducersKept, FlagsKept, QueuesKept, WorkerKept, CountsKept, HistoryKept,
     InOrderKept, BatchesFitKept, DiscardsFitKept, FramesAddUpKept DEF Inv, Types

\* The inductive invariant: each camera's frames stay in the order it sent them,
\* in its buffer and behind it in its channel; the batches sent fit together;
\* every frame given up has a camera that is past it; and the counts agree.
THEOREM Kept == Spec => []Inv
<1>1. Init => Inv
  BY InitKept
<1>2. Inv /\ [Next]_vars => Inv'
  BY NextKept
<1> QED
  BY <1>1, <1>2, PTL DEF Spec

LEMMA TypesAreRight == Inv => TypeOK
<1> SUFFICES ASSUME Inv PROVE TypeOK
  OBVIOUS
<1>1. /\ setup \in Setups /\ Producers /\ Flags /\ Queues /\ Worker /\ Counts /\ History
  BY DEF Inv, Types
<1>2. \A i \in DOMAIN batches : \A c \in DOMAIN batches[i] : batches[i][c] \in Instants
  BY <1>1, BatchSizes, ElementOfSeq, LenProperties DEF History
<1>3. {outClosed, stopping, flush} \subseteq BOOLEAN
  BY <1>1 DEF Flags
<1>4. {emitted, dropped, partial} \subseteq Nat /\ refused \in Nat /\ received \in [Cameras -> Nat]
  BY <1>1 DEF Counts
<1>5. \A c \in Cameras : /\ input[c] \in Seq(Instants) /\ Len(input[c]) <= Capacity
                         /\ buffers[c] \in Seq(Instants) /\ Len(buffers[c]) <= Capacity
  BY <1>1 DEF Queues
<1>6. pc \in {"top", "drain", "match", "check", "partial", "finish", "done"}
      /\ turn \in 1 .. setup.cameras + 1
  BY <1>1 DEF Worker, Places
<1> QED
  BY <1>1, <1>2, <1>3, <1>4, <1>5, <1>6 DEF TypeOK, Producers, History

LEMMA BatchesAreClose == Inv => WithinTolerance
<1> SUFFICES ASSUME Inv PROVE WithinTolerance
  OBVIOUS
<1>1. setup \in Setups /\ batches \in Seq(Batches) /\ BatchesFit
  BY DEF Inv, Types, History
<1>2. setup.maxTime \in Nat /\ Tolerance \in Nat
  BY <1>1, Parameters
<1>3. DOMAIN batches = 1 .. Len(batches)
  BY <1>1, LenProperties
<1>4. ASSUME NEW i \in DOMAIN batches
      PROVE  Max({batches[i][c] : c \in DOMAIN batches[i]})
               - Min({batches[i][c] : c \in DOMAIN batches[i]}) <= Tolerance
  <2> DEFINE b == batches[i]
             times == {b[c] : c \in DOMAIN b}
  <2>1. b \in Batches
    BY <1>1, <1>3, ElementOfSeq
  <2>2. DOMAIN b # {} /\ \A c \in DOMAIN b : b[c] \in Instants
    BY <1>1, <2>1, BatchSizes
  <2>3. BatchIsClose(b)
    BY <1>1, <1>3 DEF BatchesFit
  <2> HIDE DEF b
  <2>4. times \in SUBSET (0 .. setup.maxTime) /\ times # {}
    BY <2>2 DEF Instants
  <2>5. Max(times) \in times /\ Min(times) \in times
    BY <1>2, <2>4, ExtremesExist
  <2>6. PICK c \in DOMAIN b : Max(times) = b[c]
    BY <2>5
  <2>7. PICK d \in DOMAIN b : Min(times) = b[d]
    BY <2>5
  <2>8. b[c] - b[d] <= Tolerance
    BY <2>3 DEF BatchIsClose
  <2> QED
    BY <2>6, <2>7, <2>8 DEF b
<1>5. ASSUME NEW i \in DOMAIN batches, setup.policy = "DropBatch"
      PROVE  DOMAIN batches[i] = Cameras
  BY <1>1, <1>3, <1>5 DEF BatchesFit
<1> QED
  BY <1>4, <1>5 DEF WithinTolerance

\* A batch joins frames within sync_tolerance only, one of every camera under
\* DropBatch, and every frame taken from a channel is in a buffer, in one batch or
\* in a counter, however many cameras there are and however long they run.
THEOREM BatchesStaySound == Spec => []BatchesAreSound
<1>1. Inv => BatchesAreSound
  BY TypesAreRight, BatchesAreClose DEF Inv, BatchesAreSound
<1> QED
  BY <1>1, Kept, PTL

\* A frame match() gives up had no match, neither then nor later: one camera has
\* only frames too late for it.
THEOREM DiscardStaysSafe == Spec => []DiscardIsSafe
<1>1. Inv => DiscardIsSafe
  <2> SUFFICES ASSUME Inv, NEW f \in discarded
               PROVE  \E c \in Cameras :
                         /\ lastSent[c] > f[2] + Tolerance
                         /\ \A t \in Range(buffers[c]) \cup Range(input[c]) : t > f[2] + Tolerance
    BY DEF DiscardIsSafe
  <2>1. PICK c \in Cameras : Passed(buffers[c], input[c], lastSent[c], f[2] + Tolerance)
    BY DEF Inv, DiscardsFit
  <2>2. buffers[c] \in Seq(Instants) /\ input[c] \in Seq(Instants)
    BY DEF Inv, Types, Queues
  <2>3. DOMAIN buffers[c] = 1 .. Len(buffers[c]) /\ DOMAIN input[c] = 1 .. Len(input[c])
    BY <2>2, LenProperties
  <2> QED
    BY <2>1, <2>3 DEF Passed, Range
<1> QED
  BY <1>1, Kept, PTL

-----------------------------------------------------------------------------
(* The threads of a camera. *)

ReaderPlaces == {"close", "quiesce", "shutdown", "backoff", "create", "createReader", "negotiate",
                 "accept", "request", "opened", "openFailed", "loop", "read", "send", "readFailed",
                 "fail", "end", "done"}
StopPlaces == {"requestStop", "close", "quiesce", "shutdown", "closeSamples", "stopDecode", "done"}
RunnerPlaces ==
    StopPlaces \cup {"await", "makeDecoder", "setHealthy", "spawnDecode", "watch", "join"}

PlacesAreKnown ==
    /\ cpc = [t \in Threads |-> cpc[t]]
    /\ cpc["reader"] \in ReaderPlaces
    /\ cpc["decoder"] \in {"none", "loop", "receive", "decode", "fail", "done"}
    /\ cpc["runner"] \in RunnerPlaces
    /\ cpc["control"] \in StopPlaces \cup {"none"}

CallbackStates == [at : {"none", "requested", "dispatched", "inside", "again"},
                   of : 0 .. MaxConnections]
SourceTables ==
    /\ callbacks \in [Connections -> CallbackStates]
    /\ taken \in [Threads -> 0 .. MaxConnections]
    /\ down \subseteq Connections
SourceFlags == closing \in BOOLEAN /\ asyncError \in BOOLEAN /\ crashed \in BOOLEAN
SourceNumbers ==
    /\ connection \in 0 .. MaxConnections /\ source \in 0 .. MaxConnections
    /\ reader \in 0 .. MaxConnections
    /\ queue \in 0 .. SourceQueueLimit /\ delivered \in 0 .. config.deliveries
SourceTypes == SourceTables /\ SourceFlags /\ SourceNumbers

StageFlags ==
    /\ samplesClosed \in BOOLEAN /\ stopReader \in BOOLEAN /\ stopDecode \in BOOLEAN
    /\ extentKnown \in BOOLEAN /\ healthy \in BOOLEAN /\ error \in BOOLEAN
    /\ commanded \in BOOLEAN /\ failedLate \in BOOLEAN
StageTypes ==
    /\ config \in Configurations
    /\ samples \in 0 .. SampleCapacity
    /\ opened \in {"no", "yes", "failed"}
    /\ StageFlags

\* The reader thread in open(), the close() at its beginning included.
Opening == {"close", "quiesce", "shutdown", "create", "createReader", "negotiate", "accept",
            "request", "opened", "openFailed"}

\* Without reconnection the device is opened once, and nobody stops the stage
\* before open() has kept its promise.
OpensOnce ==
    ~config.reconnect =>
        /\ cpc["reader"] # "backoff"
        /\ opened = "no" <=> cpc["reader"] \in Opening
        /\ opened = "no" => cpc["runner"] = "await" /\ cpc["control"] = "none"

\* What open() has made at each of its calls.
MadeSoFar ==
    ~config.reconnect =>
        /\ ~crashed
        /\ cpc["reader"] \in {"close", "quiesce", "shutdown", "create"} =>
               connection = 0 /\ source = 0 /\ reader = 0
        /\ cpc["reader"] = "createReader" => connection = 1 /\ source = 1
        /\ cpc["reader"] \in {"negotiate", "accept", "request"} => reader = 1
        /\ cpc["reader"] \in Opening \ {"opened"} => \A k \in Connections : callbacks[k] = Quiet
        /\ opened = "no" => down = {} /\ \A t \in Threads : taken[t] = 0

\* close() in a thread that stops the stage: closing_ stays set, and once the
\* interfaces are released no callback is inside.
ClosedForGood ==
    ~config.reconnect =>
        /\ \A t \in Stoppers :
               /\ cpc[t] \in {"quiesce", "shutdown", "closeSamples", "stopDecode", "join", "done"} => closing
               /\ cpc[t] \in {"shutdown", "closeSamples", "stopDecode", "join", "done"} =>
                      reader = 0 /\ source = 0 /\ Inside = {}
        /\ down # {} => closing /\ Inside = {}

CaptureInv ==
    /\ PlacesAreKnown /\ SourceTypes /\ StageTypes
    /\ OpensOnce /\ MadeSoFar /\ ClosedForGood

LEMMA CaptureInitial == CInit => CaptureInv
<1> SUFFICES ASSUME CInit
             PROVE  CaptureInv
  OBVIOUS
<1> USE CaptureAssumption DEF CInit, Threads, Stoppers
<1>1. PlacesAreKnown
  BY DEF PlacesAreKnown, ReaderPlaces, RunnerPlaces
<1>2. config \in Configurations /\ config.deliveries \in Nat
  OBVIOUS
<1>3. SourceTables
  BY DEF SourceTables, CallbackStates, Quiet
<1>4. SourceFlags /\ StageFlags
  BY Zenon DEF SourceFlags, StageFlags
<1>5. SourceNumbers
  <2>1. connection = 0 /\ source = 0 /\ reader = 0 /\ queue = 0 /\ delivered = 0
    BY Zenon
  <2> HIDE DEF CInit
  <2> QED
    BY <1>2, <2>1 DEF SourceNumbers, SourceQueueLimit
<1>8. StageTypes
  <2>1. samples = 0 /\ opened = "no"
    BY Zenon
  <2> HIDE DEF CInit
  <2> QED
    BY <1>2, <1>4, <2>1 DEF StageTypes
<1>6. cpc["reader"] = "close" /\ cpc["runner"] = "await" /\ cpc["control"] = "none"
  OBVIOUS
<1>7. OpensOnce /\ MadeSoFar /\ ClosedForGood
  BY <1>6 DEF OpensOnce, MadeSoFar, ClosedForGood, Opening
<1> QED
  BY <1>1, <1>3, <1>4, <1>5, <1>7, <1>8 DEF CaptureInv, SourceTypes

\* A step of one thread: the places of the others stay.
LEMMA OneThreadMoves ==
    ASSUME PlacesAreKnown, NEW t \in Threads, NEW l, Goto(t, l)
    PROVE  /\ cpc' = [x \in Threads |-> cpc'[x]]
           /\ cpc'[t] = l
           /\ \A x \in Threads \ {t} : cpc'[x] = cpc[x]
BY DEF PlacesAreKnown, Goto

\* What a step of a callback does to its slot.
LEMMA CallbackMoves ==
    ASSUME SourceTypes, NEW k \in Connections, CallbackStep(k)
    PROVE  \E c \in CallbackStates :
              /\ callbacks' = [callbacks EXCEPT ![k] = c]
              /\ callbacks[k].at # "none"
              /\ c.at = "inside" => callbacks[k].at = "dispatched" /\ ~closing
              /\ c.at = "again" => callbacks[k].at = "inside"
<1> USE DEF SourceTypes, SourceTables, SourceNumbers, CallbackStates
<1>1. callbacks[k].of \in 0 .. MaxConnections /\ callbacks[k] \in CallbackStates
  OBVIOUS
<1>2. Quiet \in CallbackStates /\ Quiet.at = "none"
  BY CaptureAssumption DEF Quiet
<1>3. CASE Dispatch(k)
  <2> WITNESS [callbacks[k] EXCEPT !.at = "dispatched"] \in CallbackStates
  <2> QED
    BY <1>1, <1>3 DEF Dispatch
<1>4. CASE Enter(k) /\ closing
  <2> USE <1>2
  <2> WITNESS Quiet \in CallbackStates
  <2> QED
    BY <1>2, <1>4 DEF Enter
<1>5. CASE Enter(k) /\ ~closing
  <2> WITNESS [callbacks[k] EXCEPT !.at = "inside"] \in CallbackStates
  <2> QED
    BY <1>1, <1>5 DEF Enter
<1>6. CASE OnSample(k)
  <2> WITNESS [callbacks[k] EXCEPT !.at = "again"] \in CallbackStates
  <2> QED
    BY <1>1, <1>6 DEF OnSample
<1>7. CASE RequestNext(k)
  <2> DEFINE c == IF closing \/ reader = 0 THEN Quiet ELSE [at |-> "requested", of |-> reader]
  <2>1. c \in CallbackStates /\ c.at \notin {"inside", "again"}
    BY <1>2
  <2>2. callbacks' = [callbacks EXCEPT ![k] = c] /\ callbacks[k].at = "again"
    BY <1>7 DEF RequestNext
  <2> QED
    BY <2>1, <2>2
<1> QED
  BY <1>3, <1>4, <1>5, <1>6, <1>7 DEF CallbackStep

LEMMA CallbackTypes ==
    ASSUME CaptureInv, NEW k \in Connections, CallbackStep(k), config' = config
    PROVE  PlacesAreKnown' /\ SourceTypes' /\ StageTypes'
<1> USE DEF CaptureInv
<1>1. PlacesAreKnown' /\ StageTypes'
  BY DEF PlacesAreKnown, StageTypes, StageFlags, stage, CallbackStep
<1>2. config.deliveries \in Nat
  BY CaptureAssumption DEF StageTypes
<1>3. UNCHANGED <<connection, source, reader, closing, taken, down, crashed>>
  BY DEF CallbackStep, Dispatch, Enter, OnSample, RequestNext
<1>4. SourceTables'
  BY <1>3, CallbackMoves DEF SourceTypes, SourceTables
<1>5. SourceFlags'
  BY <1>3 DEF SourceTypes, SourceFlags, CallbackStep, Dispatch, Enter, OnSample, RequestNext
<1>6. SourceNumbers'
  BY <1>2, <1>3 DEF SourceTypes, SourceNumbers, SourceQueueLimit, CallbackStep, Dispatch,
     Enter, OnSample, RequestNext
<1> QED
  BY <1>1, <1>4, <1>5, <1>6 DEF SourceTypes

\* A callback only moves itself, and once closing_ is set none comes in.
LEMMA CallbackSafe ==
    ASSUME CaptureInv, NEW k \in Connections, CallbackStep(k), config' = config
    PROVE  OpensOnce' /\ MadeSoFar' /\ ClosedForGood'
<1> USE DEF CaptureInv
<1>0. PICK c \in CallbackStates :
          /\ callbacks' = [callbacks EXCEPT ![k] = c]
          /\ callbacks[k].at # "none"
          /\ c.at = "inside" => callbacks[k].at = "dispatched" /\ ~closing
          /\ c.at = "again" => callbacks[k].at = "inside"
  BY CallbackMoves
<1>1. /\ UNCHANGED <<cpc, opened, connection, source, reader, closing, taken, down, crashed>>
      /\ callbacks[k] # Quiet
  BY <1>0 DEF CallbackStep, stage, Dispatch, Enter, OnSample, RequestNext, Quiet
<1>2. closing /\ Inside = {} => Inside' = {}
  BY <1>0 DEF SourceTypes, SourceTables, Inside
<1>3. OpensOnce'
  BY <1>1 DEF OpensOnce
<1>4. MadeSoFar'
  BY <1>1 DEF MadeSoFar
<1>5. ClosedForGood'
  BY <1>1, <1>2 DEF ClosedForGood
<1> QED
  BY <1>3, <1>4, <1>5

\* What a step of close() does.
LEMMA CloseTypes ==
    ASSUME CaptureInv, NEW t \in Threads \ {"decoder"}, Close(t), config' = config
    PROVE  PlacesAreKnown' /\ SourceTypes' /\ StageTypes'
<1> USE DEF CaptureInv
<1>1. StageTypes'
  BY DEF Close, StageTypes, StageFlags, stage
<1>2. PICK l : Goto(t, l) /\ l \in {"quiesce", "shutdown", AfterClose(t)}
  BY DEF Close, BeginClose, Release, ShutdownSource
<1>3. l \in {"quiesce", "shutdown"} \/ (t \in Stoppers /\ l = "closeSamples")
           \/ (t = "reader" /\ l \in {"create", "backoff"})
  BY <1>2 DEF AfterClose, Threads, Stoppers
<1>4. PlacesAreKnown'
  BY <1>2, <1>3, OneThreadMoves DEF PlacesAreKnown, ReaderPlaces, RunnerPlaces, StopPlaces,
     Threads, Stoppers
<1>5. 0 \in 0 .. MaxConnections /\ (0 .. MaxConnections) \ {0} = Connections
  BY CaptureAssumption DEF Connections
<1>6. SourceTables'
  <2> USE DEF SourceTypes, SourceTables, SourceNumbers
  <2>1. CASE BeginClose(t)
    BY <2>1 DEF BeginClose
  <2>2. CASE Release(t)
    BY <2>2 DEF Release
  <2>3. CASE ShutdownSource(t)
    <3>1. taken' \in [Threads -> 0 .. MaxConnections]
      BY <1>5, <2>3 DEF ShutdownSource
    <3>2. down' \subseteq Connections
      BY <1>5, <2>3 DEF ShutdownSource
    <3>3. callbacks' \in [Connections -> CallbackStates]
      BY <1>5, <2>3 DEF ShutdownSource, Quiet, CallbackStates
    <3> QED
      BY <3>1, <3>2, <3>3
  <2> QED
    BY <2>1, <2>2, <2>3 DEF Close
<1>7. SourceFlags' /\ SourceNumbers'
  BY <1>5 DEF Close, BeginClose, Release, ShutdownSource, SourceTypes, SourceFlags, SourceNumbers
<1> QED
  BY <1>1, <1>4, <1>6, <1>7 DEF SourceTypes

LEMMA NoneInside ==
    ASSUME SourceTypes, callbacks_inflight = 0
    PROVE  Inside = {}
<1>1. IsFiniteSet(Connections)
  BY FS_Interval, CaptureAssumption DEF Connections
<1>2. IsFiniteSet(Inside)
  BY <1>1, FS_Subset DEF Inside
<1> QED
  BY <1>2, FS_EmptySet DEF callbacks_inflight

LEMMA CloseSafe ==
    ASSUME CaptureInv, NEW t \in Threads \ {"decoder"}, Close(t), config' = config
    PROVE  OpensOnce' /\ MadeSoFar' /\ ClosedForGood'
<1> SUFFICES ASSUME ~config.reconnect
             PROVE  OpensOnce' /\ MadeSoFar' /\ ClosedForGood'
  BY DEF OpensOnce, MadeSoFar, ClosedForGood
<1> USE DEF CaptureInv
<1>1. UNCHANGED stage /\ cpc[t] \in {"close", "quiesce", "shutdown"}
  BY DEF Close, BeginClose, Release, ShutdownSource
<1>2. UNCHANGED <<connection, crashed>> /\ opened' = opened
  BY <1>1 DEF Close, BeginClose, Release, ShutdownSource, stage
<1>3. PICK l : Goto(t, l)
  BY DEF Close, BeginClose, Release, ShutdownSource
<1>4. cpc'[t] = l /\ \A x \in Threads \ {t} : cpc'[x] = cpc[x]
  BY <1>3, OneThreadMoves
<1>5. t = "reader" => /\ opened = "no" /\ connection = 0
                       /\ cpc["runner"] = "await" /\ cpc["control"] = "none"
  BY <1>1 DEF OpensOnce, MadeSoFar, Opening
<1>6. t # "reader" => t \in Stoppers /\ opened # "no" /\ cpc["reader"] \notin Opening
  BY <1>1 DEF OpensOnce, Threads, Stoppers
<1>7. CASE BeginClose(t)
  <2>1. /\ closing' = TRUE /\ Goto(t, "quiesce")
        /\ UNCHANGED <<source, reader, callbacks, taken, down>>
    BY <1>7 DEF BeginClose
  <2>2. cpc'[t] = "quiesce" /\ Inside' = Inside
    BY <2>1, OneThreadMoves DEF Inside
  <2> QED
    BY <1>1, <1>2, <1>4, <1>5, <1>6, <1>7, <2>1, <2>2
       DEF OpensOnce, MadeSoFar, ClosedForGood, Opening, Threads, Stoppers, BeginClose
<1>8. CASE Release(t)
  <2>1. /\ reader' = 0 /\ source' = 0 /\ taken' = [taken EXCEPT ![t] = source] /\ Goto(t, "shutdown")
        /\ UNCHANGED <<closing, callbacks, down>> /\ cpc[t] = "quiesce" /\ callbacks_inflight = 0
    BY <1>8 DEF Release
  <2>2. cpc'[t] = "shutdown" /\ Inside' = {}
    BY <2>1, OneThreadMoves, NoneInside DEF Inside
  <2>3. t = "reader" => \A x \in Threads : taken'[x] = 0
    BY <1>5, <2>1 DEF MadeSoFar, SourceTypes, SourceTables
  <2> QED
    BY <1>1, <1>2, <1>4, <1>5, <1>6, <2>1, <2>2, <2>3
       DEF OpensOnce, MadeSoFar, ClosedForGood, Opening, Threads, Stoppers
<1>9. CASE ShutdownSource(t)
  <2>1. /\ down' = down \cup ({taken[t]} \ {0}) /\ taken' = [taken EXCEPT ![t] = 0]
        /\ callbacks' = [k \in Connections |->
              IF callbacks[k].at = "requested" /\ callbacks[k].of = taken[t]
              THEN Quiet ELSE callbacks[k]]
        /\ Goto(t, AfterClose(t)) /\ cpc[t] = "shutdown"
        /\ UNCHANGED <<source, reader, closing>>
    BY <1>9 DEF ShutdownSource
  <2>2. cpc'[t] = AfterClose(t)
    BY <2>1, OneThreadMoves
  <2>3. Inside' = Inside
    BY <2>1 DEF Inside, Quiet
  <2>4. CASE t = "reader"
    <3>1. AfterClose(t) = "create" /\ down' = {} /\ \A x \in Threads : taken'[x] = 0
      BY <1>5, <2>1, <2>4 DEF AfterClose, Stoppers, MadeSoFar, SourceTypes, SourceTables
    <3>2. \A k \in Connections : callbacks'[k] = Quiet
      BY <1>5, <2>1, <2>4 DEF MadeSoFar, Opening
    <3> QED
      BY <1>1, <1>2, <1>4, <1>5, <2>1, <2>2, <2>3, <2>4, <3>1, <3>2
         DEF OpensOnce, MadeSoFar, ClosedForGood, Opening, Threads, Stoppers
  <2>5. CASE t # "reader"
    <3>1. AfterClose(t) = "closeSamples"
      BY <1>6, <2>5 DEF AfterClose
    <3>2. closing /\ reader = 0 /\ source = 0 /\ Inside = {}
      BY <1>6, <2>1, <2>5 DEF ClosedForGood
    <3> QED
      BY <1>1, <1>2, <1>4, <1>6, <2>1, <2>2, <2>3, <2>5, <3>1, <3>2
         DEF OpensOnce, MadeSoFar, ClosedForGood, Opening, Threads, Stoppers
  <2> QED
    BY <2>4, <2>5
<1> QED
  BY <1>7, <1>8, <1>9 DEF Close

\* A call of open(), in the reader thread.
LEMMA OpenTypes ==
    ASSUME CaptureInv, Open, config' = config
    PROVE  PlacesAreKnown' /\ SourceTypes' /\ StageTypes'
<1> USE DEF CaptureInv
<1>1. StageTypes'
  BY DEF Open, StageTypes, StageFlags, stage
<1>2. PICK l \in {"createReader", "negotiate", "accept", "request", "opened", "openFailed"} :
          Goto("reader", l)
  BY DEF Open, CreateSource, CreateReader, Negotiate, AcceptSamples, RequestFirst, Throws
<1>3. PlacesAreKnown'
  BY <1>2, OneThreadMoves DEF PlacesAreKnown, ReaderPlaces, Threads, Stoppers
<1>4. SourceTables'
  <2> USE DEF SourceTypes, SourceTables, SourceNumbers, CallbackStates
  <2>1. CASE RequestFirst
    BY <2>1 DEF RequestFirst
  <2>2. CASE ~RequestFirst
    BY <2>2 DEF Open, CreateSource, CreateReader, Negotiate, AcceptSamples
  <2> QED
    BY <2>1, <2>2
<1>5. SourceFlags'
  BY DEF Open, CreateSource, CreateReader, Negotiate, AcceptSamples, RequestFirst,
     SourceTypes, SourceFlags
<1>6. config.connections \in 1 .. MaxConnections
  BY CaptureAssumption DEF StageTypes
<1>7. SourceNumbers'
  BY <1>6, CaptureAssumption DEF Open, CreateSource, CreateReader, Negotiate, AcceptSamples,
     RequestFirst, SourceTypes, SourceNumbers, SourceQueueLimit
<1> QED
  BY <1>1, <1>3, <1>4, <1>5, <1>7 DEF SourceTypes

LEMMA OpenSafe ==
    ASSUME CaptureInv, Open, config' = config
    PROVE  OpensOnce' /\ MadeSoFar' /\ ClosedForGood'
<1> SUFFICES ASSUME ~config.reconnect
             PROVE  OpensOnce' /\ MadeSoFar' /\ ClosedForGood'
  BY DEF OpensOnce, MadeSoFar, ClosedForGood
<1> USE DEF CaptureInv
<1>1. /\ UNCHANGED stage /\ UNCHANGED <<taken, down>>
      /\ cpc["reader"] \in {"create", "createReader", "negotiate", "accept", "request"}
  BY DEF Open, CreateSource, CreateReader, Negotiate, AcceptSamples, RequestFirst, Opens
<1>2. opened = "no" /\ cpc["runner"] = "await" /\ cpc["control"] = "none" /\ opened' = "no"
  BY <1>1 DEF OpensOnce, Opening, stage
<1>3. PICK l \in {"createReader", "negotiate", "accept", "request", "opened", "openFailed"} :
          Goto("reader", l)
  BY DEF Open, CreateSource, CreateReader, Negotiate, AcceptSamples, RequestFirst, Throws
<1>4. /\ cpc'["reader"] = l
      /\ cpc'["runner"] = "await" /\ cpc'["control"] = "none"
  BY <1>2, <1>3, OneThreadMoves DEF Threads, Stoppers
<1>5. OpensOnce'
  BY <1>2, <1>4 DEF OpensOnce, Opening
<1>6. down' = {} /\ \A t \in Threads : taken'[t] = 0
  BY <1>1, <1>2 DEF MadeSoFar
<1>7. ClosedForGood'
  BY <1>4, <1>6 DEF ClosedForGood, Stoppers
<1>8. \A k \in Connections : callbacks[k] = Quiet
  BY <1>1 DEF MadeSoFar, Opening
<1>9. MadeSoFar'
  <2> USE DEF Opens, Throws
  <2>1. CASE CreateSource
    <3>1. /\ cpc["reader"] = "create" /\ UNCHANGED <<reader, callbacks, crashed>>
          /\ \/ l = "createReader" /\ connection' = connection + 1 /\ source' = connection + 1
             \/ l = "openFailed"
      BY <1>4, <2>1, OneThreadMoves DEF CreateSource, Threads
    <3>2. connection = 0
      BY <3>1 DEF MadeSoFar
    <3> QED
      BY <1>4, <1>6, <1>8, <3>1, <3>2 DEF MadeSoFar
  <2>2. CASE CreateReader
    <3>1. /\ cpc["reader"] = "createReader" /\ UNCHANGED <<callbacks, crashed>>
          /\ \/ l = "negotiate" /\ reader' = source
             \/ l = "openFailed"
      BY <1>4, <2>2, OneThreadMoves DEF CreateReader, Threads
    <3>2. source = 1
      BY <3>1 DEF MadeSoFar
    <3> QED
      BY <1>4, <1>6, <1>8, <3>1, <3>2 DEF MadeSoFar
  <2>3. CASE Negotiate
    <3>1. /\ cpc["reader"] = "negotiate" /\ UNCHANGED <<callbacks, reader>>
          /\ crashed' = (reader = 0) /\ l \in {"accept", "openFailed"}
      BY <1>4, <2>3, OneThreadMoves DEF Negotiate, Threads
    <3>2. reader = 1
      BY <3>1 DEF MadeSoFar
    <3>3. reader # 0
      BY <3>2
    <3>4. ~crashed'
      BY <3>1, <3>3, Zenon
    <3> QED
      BY <1>4, <1>6, <1>8, <3>1, <3>2, <3>4 DEF MadeSoFar
  <2>4. CASE AcceptSamples
    <3>1. /\ cpc["reader"] = "accept" /\ UNCHANGED <<callbacks, reader, crashed>>
          /\ l = "request"
      BY <1>4, <2>4, OneThreadMoves DEF AcceptSamples, Threads
    <3>2. reader = 1
      BY <3>1 DEF MadeSoFar
    <3> QED
      BY <1>4, <1>6, <1>8, <3>1, <3>2 DEF MadeSoFar
  <2>5. CASE RequestFirst
    <3>1. /\ cpc["reader"] = "request" /\ crashed' = (reader = 0)
          /\ \/ l = "opened"
             \/ l = "openFailed" /\ callbacks' = callbacks
      BY <1>4, <2>5, OneThreadMoves DEF RequestFirst, Threads
    <3>2. reader = 1
      BY <3>1 DEF MadeSoFar
    <3>3. reader # 0
      BY <3>2
    <3>4. ~crashed'
      BY <3>1, <3>3, Zenon
    <3> QED
      BY <1>4, <1>6, <1>8, <3>1, <3>2, <3>4 DEF MadeSoFar
  <2> QED
    BY <2>1, <2>2, <2>3, <2>4, <2>5 DEF Open
<1> QED
  BY <1>5, <1>7, <1>9

\* The steps of CaptureStage itself: they leave the source alone, but for the
\* queue that read() takes from.
ReaderStage == OpenReturns \/ OpenThrows \/ ReaderLoop \/ Read \/ SendSample \/ ReadFails \/ BackOff
                   \/ ReaderFails \/ ReaderEnds
DecoderStage == DecoderLoop \/ ReceiveSample \/ Decode \/ DecoderFails
RunnerStage == AwaitOpened \/ MakeDecoder \/ SetHealthy \/ SpawnDecode \/ Watch \/ JoinThreads
StopStage(t) == RequestStop(t) \/ CloseSamples(t) \/ StopDecode(t)

\* What such a step does to the source, to the promise and to the threads.
StageOnly ==
    /\ UNCHANGED <<connection, source, reader, closing, asyncError, callbacks, taken, down, delivered,
                   crashed>>
    /\ queue' \in {queue, queue - 1} /\ (queue' # queue => queue > 0)

LEMMA StageOnlyTypes ==
    ASSUME SourceTypes, StageOnly, config' = config
    PROVE  SourceTypes'
<1>1. SourceTables' /\ SourceFlags'
  BY DEF SourceTypes, SourceTables, SourceFlags, StageOnly
<1>2. SourceNumbers'
  BY DEF SourceTypes, SourceNumbers, StageOnly, SourceQueueLimit
<1> QED
  BY <1>1, <1>2 DEF SourceTypes

\* A step that moves a thread to a place outside of open() and close().
LEMMA StageOnlySafe ==
    ASSUME CaptureInv, StageOnly, config' = config, OpensOnce',
           ~config.reconnect =>
               /\ cpc'["reader"] = cpc["reader"] \/ cpc'["reader"] \notin Opening
               /\ opened' = opened \/ opened' # "no"
               /\ \A t \in Stoppers :
                     \/ cpc'[t] = cpc[t]
                     \/ cpc'[t] \notin {"quiesce", "shutdown", "closeSamples", "stopDecode",
                                         "join", "done"}
                     \/ cpc[t] \in {"closeSamples", "stopDecode", "join"}
    PROVE  MadeSoFar' /\ ClosedForGood'
<1> USE DEF CaptureInv
<1>1. Inside' = Inside
  BY DEF StageOnly, Inside
<1>2. MadeSoFar'
  BY DEF MadeSoFar, StageOnly, Opening
<1>3. ClosedForGood'
  BY <1>1 DEF ClosedForGood, StageOnly
<1> QED
  BY <1>2, <1>3

LEMMA ReaderStageSafe ==
    ASSUME CaptureInv, ReaderStage, config' = config
    PROVE  CaptureInv'
<1> USE DEF CaptureInv
<1>1. StageOnly
  BY DEF ReaderStage, OpenReturns, OpenThrows, ReaderLoop, Read, SendSample, ReadFails,
     BackOff, ReaderFails, ReaderEnds, mf, StageOnly, SourceTypes, SourceNumbers
<1>2. PICK l : /\ Goto("reader", l) /\ l \in ReaderPlaces
               /\ cpc["reader"] \in Opening => cpc["reader"] \in {"opened", "openFailed"}
               /\ ~config.reconnect => l \notin Opening \/ cpc["reader"] = "backoff"
               /\ l # "backoff"
  BY DEF ReaderStage, OpenReturns, OpenThrows, ReaderLoop, Read, SendSample, ReadFails,
     BackOff, ReaderFails, ReaderEnds, ReaderPlaces, Opening
<1>3. /\ cpc'["reader"] = l /\ cpc' = [x \in Threads |-> cpc'[x]]
      /\ cpc'["runner"] = cpc["runner"] /\ cpc'["control"] = cpc["control"]
      /\ cpc'["decoder"] = cpc["decoder"]
  BY <1>2, OneThreadMoves DEF Threads, Stoppers
<1>4. PlacesAreKnown'
  BY <1>2, <1>3 DEF PlacesAreKnown
<1>5. StageTypes'
  <2>1. samples' \in 0 .. SampleCapacity /\ opened' \in {"no", "yes", "failed"}
    BY CaptureAssumption DEF ReaderStage, OpenReturns, OpenThrows, ReaderLoop, Read,
       SendSample, ReadFails, BackOff, ReaderFails, ReaderEnds, stage, StageTypes, fail
  <2>2. StageFlags
    BY DEF StageTypes
  <2>3. failedLate' \in BOOLEAN
    <3>1. failedLate' = failedLate \/ failedLate' = (failedLate \/ Started)
      BY DEF ReaderStage, OpenReturns, OpenThrows, ReaderLoop, Read, SendSample, ReadFails,
         BackOff, ReaderFails, ReaderEnds, stage, fail
    <3> QED
      BY <2>2, <3>1, Zenon DEF StageFlags
  <2>4. StageFlags'
    BY <2>2, <2>3 DEF ReaderStage, OpenReturns, OpenThrows, ReaderLoop, Read, SendSample,
       ReadFails, BackOff, ReaderFails, ReaderEnds, stage, fail, StageFlags
  <2> QED
    BY <2>1, <2>4 DEF StageTypes
<1>6. /\ opened' = opened \/ opened' # "no"
      /\ cpc["reader"] \in {"opened", "openFailed"} => opened' # "no"
      /\ cpc["reader"] \notin {"opened", "openFailed"} => opened' = opened
  BY DEF ReaderStage, OpenReturns, OpenThrows, ReaderLoop, Read, SendSample, ReadFails,
     BackOff, ReaderFails, ReaderEnds, stage, fail
<1>7. OpensOnce'
  BY <1>2, <1>3, <1>6 DEF OpensOnce
<1>8. MadeSoFar' /\ ClosedForGood'
  BY <1>1, <1>2, <1>3, <1>6, <1>7, StageOnlySafe DEF OpensOnce, Stoppers
<1>9. SourceTypes'
  BY <1>1, StageOnlyTypes
<1> QED
  BY <1>4, <1>5, <1>7, <1>8, <1>9

LEMMA DecoderStageSafe ==
    ASSUME CaptureInv, DecoderStage, config' = config
    PROVE  CaptureInv'
<1> USE DEF CaptureInv
<1>1. StageOnly /\ opened' = opened
  BY DEF DecoderStage, DecoderLoop, ReceiveSample, Decode, DecoderFails, mf, stage, fail, StageOnly
<1>2. PICK l \in {"loop", "receive", "decode", "fail", "done"} : Goto("decoder", l)
  BY DEF DecoderStage, DecoderLoop, ReceiveSample, Decode, DecoderFails
<1>3. /\ cpc'["decoder"] = l /\ cpc' = [x \in Threads |-> cpc'[x]]
      /\ cpc'["runner"] = cpc["runner"] /\ cpc'["control"] = cpc["control"]
      /\ cpc'["reader"] = cpc["reader"]
  BY <1>2, OneThreadMoves DEF Threads, Stoppers
<1>4. PlacesAreKnown'
  BY <1>3 DEF PlacesAreKnown
<1>5. StageTypes'
  <2>1. samples' \in 0 .. SampleCapacity /\ opened' \in {"no", "yes", "failed"}
    BY CaptureAssumption DEF DecoderStage, DecoderLoop, ReceiveSample, Decode, DecoderFails,
       stage, StageTypes, fail
  <2>2. StageFlags
    BY DEF StageTypes
  <2>3. failedLate' \in BOOLEAN
    <3>1. failedLate' = failedLate \/ failedLate' = (failedLate \/ Started)
      BY DEF DecoderStage, DecoderLoop, ReceiveSample, Decode, DecoderFails, stage, fail
    <3> QED
      BY <2>2, <3>1, Zenon DEF StageFlags
  <2>4. StageFlags'
    BY <2>2, <2>3 DEF DecoderStage, DecoderLoop, ReceiveSample, Decode, DecoderFails, stage,
       fail, StageFlags
  <2> QED
    BY <2>1, <2>4 DEF StageTypes
<1>6. OpensOnce'
  BY <1>1, <1>3 DEF OpensOnce
<1>7. MadeSoFar' /\ ClosedForGood'
  BY <1>1, <1>3, <1>6, StageOnlySafe DEF Stoppers
<1>8. SourceTypes'
  BY <1>1, StageOnlyTypes
<1> QED
  BY <1>4, <1>5, <1>6, <1>7, <1>8

LEMMA RunnerStageSafe ==
    ASSUME CaptureInv, RunnerStage, config' = config
    PROVE  CaptureInv'
<1> USE DEF CaptureInv
<1>1. StageOnly /\ opened' = opened
  BY DEF RunnerStage, AwaitOpened, MakeDecoder, SetHealthy, SpawnDecode, Watch, JoinThreads,
     mf, stage, StageOnly
<1>2. /\ cpc' = [x \in Threads |-> cpc'[x]]
      /\ cpc'["reader"] = cpc["reader"] /\ cpc'["control"] = cpc["control"]
      /\ cpc'["decoder"] \in {cpc["decoder"], "loop"}
      /\ \/ cpc["runner"] = "await" /\ opened # "no"
         \/ cpc["runner"] \in {"makeDecoder", "setHealthy", "spawnDecode", "watch"}
         \/ cpc["runner"] = "join" /\ cpc'["runner"] = "done"
      /\ \/ cpc'["runner"] \in {"makeDecoder", "setHealthy", "spawnDecode", "watch", "requestStop"}
         \/ cpc["runner"] = "join" /\ cpc'["runner"] = "done"
  <2> USE DEF PlacesAreKnown, Goto, Threads, Stoppers
  <2>1. CASE AwaitOpened \/ MakeDecoder
    BY <2>1 DEF AwaitOpened, MakeDecoder
  <2>2. CASE SetHealthy \/ SpawnDecode
    BY <2>2 DEF SetHealthy, SpawnDecode
  <2>3. CASE Watch \/ JoinThreads
    BY <2>3 DEF Watch, JoinThreads
  <2> QED
    BY <2>1, <2>2, <2>3 DEF RunnerStage
<1>3. PlacesAreKnown'
  BY <1>2 DEF PlacesAreKnown, RunnerPlaces, StopPlaces
<1>4. StageTypes'
  BY DEF RunnerStage, AwaitOpened, MakeDecoder, SetHealthy, SpawnDecode, Watch, JoinThreads,
     stage, StageTypes, StageFlags
<1>5. OpensOnce'
  BY <1>1, <1>2 DEF OpensOnce
<1>6. MadeSoFar' /\ ClosedForGood'
  BY <1>1, <1>2, <1>5, StageOnlySafe DEF Stoppers
<1>7. SourceTypes'
  BY <1>1, StageOnlyTypes
<1> QED
  BY <1>3, <1>4, <1>5, <1>6, <1>7

LEMMA StopStageSafe ==
    ASSUME CaptureInv, NEW t \in Stoppers, StopStage(t), config' = config
    PROVE  CaptureInv'
<1> USE DEF CaptureInv
<1>1. StageOnly /\ opened' = opened
  BY DEF StopStage, RequestStop, CloseSamples, StopDecode, mf, stage, StageOnly
<1>2. PICK l : /\ Goto(t, l)
               /\ \/ cpc[t] = "requestStop" /\ l = "close"
                  \/ cpc[t] = "closeSamples" /\ l = "stopDecode"
                  \/ cpc[t] = "stopDecode" /\ l = IF t = "runner" THEN "join" ELSE "done"
  BY DEF StopStage, RequestStop, CloseSamples, StopDecode
<1>3. /\ cpc'[t] = l /\ cpc' = [x \in Threads |-> cpc'[x]]
      /\ \A x \in Threads \ {t} : cpc'[x] = cpc[x]
  BY <1>2, OneThreadMoves DEF Threads
<1>4. PlacesAreKnown'
  BY <1>2, <1>3 DEF PlacesAreKnown, RunnerPlaces, StopPlaces, Threads, Stoppers
<1>5. StageTypes'
  BY DEF StopStage, RequestStop, CloseSamples, StopDecode, stage, StageTypes, StageFlags
<1>6. OpensOnce'
  BY <1>1, <1>2, <1>3 DEF OpensOnce, Threads, Stoppers
<1>7. MadeSoFar' /\ ClosedForGood'
  BY <1>1, <1>2, <1>3, <1>6, StageOnlySafe DEF Threads, Stoppers
<1>8. SourceTypes'
  BY <1>1, StageOnlyTypes
<1> QED
  BY <1>4, <1>5, <1>6, <1>7, <1>8

LEMMA CommandSafe ==
    ASSUME CaptureInv, CommandStop, config' = config
    PROVE  CaptureInv'
<1> USE DEF CaptureInv
<1>1. /\ StageOnly /\ opened' = opened /\ Goto("control", "requestStop")
      /\ cpc["runner"] # "await"
  BY DEF CommandStop, mf, StageOnly, Started
<1>2. /\ cpc'["control"] = "requestStop" /\ cpc' = [x \in Threads |-> cpc'[x]]
      /\ \A x \in Threads \ {"control"} : cpc'[x] = cpc[x]
  BY <1>1, OneThreadMoves DEF Threads, Stoppers
<1>3. PlacesAreKnown'
  BY <1>2 DEF PlacesAreKnown, StopPlaces, Threads, Stoppers
<1>4. StageTypes'
  BY DEF CommandStop, StageTypes, StageFlags
<1>5. OpensOnce'
  BY <1>1, <1>2 DEF OpensOnce, Threads, Stoppers
<1>6. MadeSoFar' /\ ClosedForGood'
  BY <1>1, <1>2, <1>5, StageOnlySafe DEF Threads, Stoppers
<1>7. SourceTypes'
  BY <1>1, StageOnlyTypes
<1> QED
  BY <1>3, <1>4, <1>5, <1>6, <1>7

LEMMA CaptureStep == CaptureInv /\ [CNext]_captureVars => CaptureInv'
<1> SUFFICES ASSUME CaptureInv, [CNext]_captureVars
             PROVE  CaptureInv'
  OBVIOUS
<1>1. CASE UNCHANGED captureVars
  <2>1. UNCHANGED <<config, cpc>> /\ UNCHANGED mf /\ UNCHANGED stage
    BY <1>1 DEF captureVars
  <2>2. PlacesAreKnown' /\ SourceTypes' /\ StageTypes'
    BY <2>1 DEF CaptureInv, PlacesAreKnown, SourceTypes, SourceTables, SourceFlags,
       SourceNumbers, StageTypes, StageFlags, mf, stage
  <2>3. OpensOnce' /\ MadeSoFar' /\ ClosedForGood'
    BY <2>1 DEF CaptureInv, OpensOnce, MadeSoFar, ClosedForGood, mf, stage, Inside
  <2> QED
    BY <2>2, <2>3 DEF CaptureInv
<1>2. CASE CNext
  <2>1. config' = config
    BY <1>2 DEF CNext
  <2>2. ASSUME NEW k \in Connections, CallbackStep(k)
        PROVE  CaptureInv'
    BY <2>1, <2>2, CallbackTypes, CallbackSafe DEF CaptureInv
  <2>3. ASSUME NEW t \in Threads \ {"decoder"}, Close(t)
        PROVE  CaptureInv'
    BY <2>1, <2>3, CloseTypes, CloseSafe DEF CaptureInv
  <2>4. CASE Open
    BY <2>1, <2>4, OpenTypes, OpenSafe DEF CaptureInv
  <2>5. CASE ReaderStage
    BY <2>1, <2>5, ReaderStageSafe
  <2>6. CASE DecoderStage
    BY <2>1, <2>6, DecoderStageSafe
  <2>7. CASE RunnerStage
    BY <2>1, <2>7, RunnerStageSafe
  <2>8. ASSUME NEW t \in Stoppers, StopStage(t)
        PROVE  CaptureInv'
    BY <2>1, <2>8, StopStageSafe
  <2>9. CASE CommandStop
    BY <2>1, <2>9, CommandSafe
  <2>10. CASE ReaderStep
    BY <2>3, <2>4, <2>5, <2>10 DEF ReaderStep, ReaderStage, Threads
  <2>11. ASSUME NEW t \in Stoppers, StopStep(t)
         PROVE  CaptureInv'
    BY <2>3, <2>8, <2>11 DEF StopStep, StopStage, Threads, Stoppers
  <2>12. CASE DecoderStep
    BY <2>6, <2>12 DEF DecoderStep, DecoderStage
  <2>13. CASE RunnerStep
    BY <2>7, <2>11, <2>13 DEF RunnerStep, RunnerStage, Stoppers
  <2> QED
    BY <1>2, <2>2, <2>9, <2>10, <2>11, <2>12, <2>13 DEF CNext, Stoppers
<1> QED
  BY <1>1, <1>2

LEMMA CaptureIsSafe == CaptureInv => InterfacesAreSafe
<1> SUFFICES ASSUME CaptureInv
             PROVE  InterfacesAreSafe
  OBVIOUS
<1> USE DEF CaptureInv
<1>1. CTypeOK
  BY DEF CTypeOK, PlacesAreKnown, SourceTypes, SourceTables, SourceFlags, SourceNumbers,
     CallbackStates, StageTypes, StageFlags, ReaderPlaces
<1>2. InterfacesOutliveCallbacks
  BY DEF InterfacesOutliveCallbacks, ClosedForGood
<1>3. QuietAtEnd
  BY DEF QuietAtEnd, MadeSoFar, ClosedForGood, Stoppers
<1> QED
  BY <1>1, <1>2, <1>3 DEF InterfacesAreSafe

\* MediaFoundationSource::close(): however the reader, the callbacks, the runner
\* and the control thread meet, no callback is in the object when its interfaces
\* go, nothing is called through a null reader, and a stage that was joined has
\* closed its device for good (without reconnection, see InterfacesAreSafe).
THEOREM InterfacesStaySafe == CSpec => []InterfacesAreSafe
BY CaptureInitial, CaptureStep, CaptureIsSafe, PTL DEF CSpec

-----------------------------------------------------------------------------
(* The clock of a camera.  What fit() computes is a quotient of sums over    *)
(* the points; that it is positive needs that sums are linear, and           *)
(* Chebyshev's inequality: the arrivals grow with the time stamps, so the    *)
(* slope is not negative, and the line is at its end above its mean.         *)

\* Functions on numbers: the indices 1 .. n, in ascending order; and what
\* the functions of fit() are made of.
Ascends(f, n) == \A i, j \in 1 .. n : i < j => f[i] < f[j]
NeverFalls(f, n) == \A i, j \in 1 .. n : i < j => f[i] <= f[j]
Multiplies(p, f, e, S) == \A x \in S : p[x] = f[x] * e[x]
Centres(d, s, n, sum) == \A i \in 1 .. n : d[i] = n * s[i] - sum

\* Numbers sum up to their mean n times, so that the distances from it, scaled
\* by n, cancel out; the last of an ascending sequence is not below it.
LEMMA DistancesCancel ==
    ASSUME NEW n \in Nat \ {0}, NEW s, Integral(s, 1 .. n), Ascends(s, n),
           NEW d, Centres(d, s, n, SumFunctionOnSet(s, 1 .. n))
    PROVE  /\ SumFunctionOnSet(s, 1 .. n) \in Int
           /\ Integral(d, 1 .. n) /\ Ascends(d, n)
           /\ SumFunctionOnSet(d, 1 .. n) = 0
           /\ d[n] >= 0
<1> DEFINE ss == SumFunctionOnSet(s, 1 .. n)
           one == [i \in 1 .. n |-> 1]
           last == [i \in 1 .. n |-> s[n]]
<1>1. IsFiniteSet(1 .. n) /\ Cardinality(1 .. n) = n /\ n \in 1 .. n
  BY NaturalIndices
<1>2. ss \in Int
  BY <1>1, SumTakesAny DEF Integral
<1>3. Centres(d, s, n, ss) /\ SumFunctionOnSet(s, 1 .. n) = ss
  OBVIOUS
<1> HIDE DEF ss
<1>4. \A x \in Int : n * x - ss \in Int
  BY <1>2
<1>5. Integral(d, 1 .. n)
  BY <1>3, <1>4 DEF Integral, Centres
<1>6. Ascends(d, n)
  <2> SUFFICES ASSUME NEW i \in 1 .. n, NEW j \in 1 .. n, i < j
               PROVE  d[i] < d[j]
    BY DEF Ascends
  <2>1. s[i] \in Int /\ s[j] \in Int /\ s[i] < s[j]
    BY DEF Integral, Ascends
  <2>2. \A x, y \in Int : x < y => n * x < n * y
    OBVIOUS
  <2>3. n * s[i] < n * s[j] /\ n * s[i] \in Int /\ n * s[j] \in Int
    BY <2>1, <2>2
  <2>4. d[i] = n * s[i] - ss /\ d[j] = n * s[j] - ss
    BY <1>3 DEF Centres
  <2> QED
    BY <1>2, <2>3, <2>4
<1>7. SumFunctionOnSet(one, 1 .. n) = n
  <2>1. \A i \in 1 .. n : one[i] = 1
    OBVIOUS
  <2> HIDE DEF one
  <2>2. SumFunctionOnSet(one, 1 .. n) = n * 1
    BY <1>1, <2>1, SumOfConstant
  <2> QED
    BY <2>2
<1>8. SumFunctionOnSet(d, 1 .. n) = n * ss + (-ss) * n
  <2>1. Integral(one, 1 .. n) /\ \A i \in 1 .. n : one[i] = 1
    BY DEF Integral
  <2> HIDE DEF one
  <2>2. \A x \in Int : n * x - ss = n * x + (-ss) * 1
    BY <1>2
  <2>3. Combines(d, n, s, -ss, one, 1 .. n)
    BY <1>3, <2>1, <2>2 DEF Combines, Centres, Integral
  <2>4. n \in Int /\ -ss \in Int
    BY <1>2
  <2>5. SumFunctionOnSet(d, 1 .. n)
          = n * SumFunctionOnSet(s, 1 .. n) + (-ss) * SumFunctionOnSet(one, 1 .. n)
    BY <1>1, <2>1, <2>3, <2>4, SumIsLinear
  <2> QED
    BY <1>3, <1>7, <2>5
<1>9. n * ss + (-ss) * n = 0
  BY <1>2
<1>10. SumFunctionOnSet(last, 1 .. n) = n * s[n]
  <2>1. \A i \in 1 .. n : last[i] = s[n]
    OBVIOUS
  <2>2. s[n] \in Int
    BY <1>1 DEF Integral
  <2> HIDE DEF last
  <2> QED
    BY <1>1, <2>1, <2>2, SumOfConstant
<1>11. ss <= n * s[n]
  <2>1. \A i \in 1 .. n : s[i] \in Int /\ last[i] \in Int /\ s[i] <= last[i]
    <3> SUFFICES ASSUME NEW i \in 1 .. n PROVE s[i] <= s[n]
      BY <1>1 DEF Integral
    <3>1. i < n \/ i = n
      OBVIOUS
    <3> QED
      BY <1>1, <3>1 DEF Ascends, Integral
  <2> HIDE DEF last
  <2> QED
    BY <1>1, <1>3, <1>10, <2>1, SumIsMonotone
<1>12. d[n] >= 0
  <2>1. n * s[n] \in Int /\ d[n] = n * s[n] - ss
    BY <1>1, <1>3 DEF Integral, Centres
  <2> QED
    BY <1>1, <1>2, <1>11, <2>1
<1> QED
  BY <1>2, <1>3, <1>5, <1>6, <1>8, <1>9, <1>12

\* Chebyshev: distances that ascend and cancel out, weighted with numbers that
\* never fall, do not sum up to less than nothing.
LEMMA GrowTogether ==
    ASSUME NEW n \in Nat \ {0}, NEW d, NEW h, NEW p,
           Integral(d, 1 .. n), Integral(h, 1 .. n), Multiplies(p, d, h, 1 .. n),
           Ascends(d, n), NeverFalls(h, n),
           SumFunctionOnSet(d, 1 .. n) = 0, d[n] >= 0
    PROVE  SumFunctionOnSet(p, 1 .. n) \in Nat
<1>1. IsFiniteSet(1 .. n) /\ n \in 1 .. n
  BY NaturalIndices
<1>2. PICK k \in 1 .. n : d[k] >= 0 /\ \A i \in 1 .. n : d[i] >= 0 => k <= i
  <2> DEFINE Above == {i \in 1 .. n : d[i] >= 0}
  <2>1. Above \in SUBSET Nat /\ Above # {}
    BY <1>1
  <2>2. \E m \in Above : \A i \in Above : m <= i
    <3> HIDE DEF Above
    <3> QED
      BY <2>1, LeastExists
  <2> QED
    BY <2>2
<1>3. PICK w \in Int : w = h[k]
  BY DEF Integral
<1> DEFINE e == [i \in 1 .. n |-> d[i] * (h[i] - w)]
<1>4. \A i \in 1 .. n : e[i] \in Nat
  <2> SUFFICES ASSUME NEW i \in 1 .. n PROVE d[i] * (h[i] - w) \in Nat
    OBVIOUS
  <2>1. d[i] \in Int /\ h[i] \in Int /\ d[k] \in Int
    BY DEF Integral
  <2>2. \A x, y \in Int : (x >= 0 /\ y >= 0) \/ (x <= 0 /\ y <= 0) => x * y \in Nat
    OBVIOUS
  <2>3. CASE i < k
    <3>1. d[i] < 0 /\ h[i] <= w
      BY <1>2, <1>3, <2>1, <2>3 DEF NeverFalls
    <3> QED
      BY <2>1, <2>2, <3>1
  <2>4. CASE ~(i < k)
    <3>1. i = k \/ k < i
      BY <2>4
    <3>2. d[i] >= 0 /\ h[i] >= w
      BY <1>2, <1>3, <2>1, <3>1 DEF NeverFalls, Ascends
    <3> QED
      BY <2>1, <2>2, <3>2
  <2> QED
    BY <2>3, <2>4
<1>5. Integral(e, 1 .. n)
  BY <1>4 DEF Integral
<1>6. Combines(p, 1, e, w, d, 1 .. n)
  <2> SUFFICES ASSUME NEW i \in 1 .. n
               PROVE  p[i] = 1 * e[i] + w * d[i]
    BY DEF Combines
  <2>1. \A x, y, z \in Int : x * y = 1 * (x * (y - z)) + z * x
    OBVIOUS
  <2>2. e[i] = d[i] * (h[i] - w)
    OBVIOUS
  <2>3. d[i] \in Int /\ h[i] \in Int /\ p[i] = d[i] * h[i]
    BY DEF Integral, Multiplies
  <2> HIDE DEF e
  <2> QED
    BY <2>1, <2>2, <2>3
<1> HIDE DEF e
<1>7. SumFunctionOnSet(p, 1 .. n)
        = 1 * SumFunctionOnSet(e, 1 .. n) + w * SumFunctionOnSet(d, 1 .. n)
  BY <1>1, <1>5, <1>6, SumIsLinear
<1>8. SumFunctionOnSet(e, 1 .. n) \in Nat
  BY <1>1, <1>4, SumIsNatural
<1> QED
  BY <1>7, <1>8

LEMMA QuotientIsPositive ==
    ASSUME NEW a \in Int, NEW b \in Nat \ {0}, a >= b
    PROVE  a \div b \in Nat \ {0}
OBVIOUS

LEMMA TermsOfProducts ==
    ASSUME NEW x \in Int, NEW y \in Int, NEW n \in Int, NEW hs \in Int
    PROVE  /\ x * x \in Nat /\ (x # 0 => x * x # 0) /\ x * y \in Int
           /\ x * (n * y - hs) = n * (x * y) + (-hs) * x
OBVIOUS

\* The sums of fit(), for stamps s and arrivals h that grow together: the line
\* is not below one at its end.
LEMMA LineEndsPositive ==
    ASSUME NEW n \in Nat, n >= 2, NEW s, NEW h, NEW d, NEW dd, NEW dh,
           Integral(s, 1 .. n), Integral(h, 1 .. n), \A i \in 1 .. n : h[i] >= 1,
           Ascends(s, n), NeverFalls(h, n),
           Centres(d, s, n, SumFunctionOnSet(s, 1 .. n)), Multiplies(dd, d, d, 1 .. n),
           \A i \in 1 .. n : dh[i] = d[i] * (n * h[i] - SumFunctionOnSet(h, 1 .. n))
    PROVE  (SumFunctionOnSet(h, 1 .. n) * SumFunctionOnSet(dd, 1 .. n)
              + SumFunctionOnSet(dh, 1 .. n) * d[n])
           \div (n * SumFunctionOnSet(dd, 1 .. n)) \in Nat \ {0}
<1> DEFINE hs == SumFunctionOnSet(h, 1 .. n)
           variance == SumFunctionOnSet(dd, 1 .. n)
           covariance == SumFunctionOnSet(dh, 1 .. n)
           p == [i \in 1 .. n |-> d[i] * h[i]]
           one == [i \in 1 .. n |-> 1]
<1>1. /\ n \in Nat \ {0} /\ n \in 1 .. n /\ 1 \in 1 .. n
      /\ IsFiniteSet(1 .. n) /\ Cardinality(1 .. n) = n
  BY NaturalIndices
<1>2. hs \in Int
  BY <1>1, SumTakesAny DEF Integral
<1>3. /\ Integral(d, 1 .. n) /\ Ascends(d, n)
      /\ SumFunctionOnSet(d, 1 .. n) = 0 /\ d[n] >= 0
  BY <1>1, DistancesCancel
<1>4. d[n] \in Nat
  BY <1>1, <1>3 DEF Integral
<1>5. hs >= n
  <2>1. \A i \in 1 .. n : one[i] \in Int /\ h[i] \in Int /\ one[i] <= h[i] /\ one[i] = 1
    BY DEF Integral
  <2> HIDE DEF one
  <2>2. SumFunctionOnSet(one, 1 .. n) = n * 1
    <3>1. 1 \in Int /\ \A i \in 1 .. n : one[i] = 1
      BY <2>1
    <3>2. SumFunctionOnSet(one, 1 .. n) = Cardinality(1 .. n) * 1
      BY <1>1, <3>1, SumOfConstant
    <3> QED
      BY <1>1, <3>2
  <2>3. SumFunctionOnSet(one, 1 .. n) <= hs
    BY <1>1, <2>1, SumIsMonotone
  <2> QED
    BY <1>1, <2>2, <2>3
<1>6. variance \in Nat \ {0}
  <2>1. \A i \in 1 .. n : dd[i] \in Nat /\ (d[i] # 0 => dd[i] # 0)
    BY <1>3, TermsOfProducts DEF Multiplies, Integral
  <2>2. d[1] < d[n] /\ d[1] \in Int
    BY <1>1, <1>3 DEF Ascends, Integral
  <2>3. PICK i \in 1 .. n : dd[i] # 0
    BY <1>1, <1>4, <2>1, <2>2
  <2> QED
    BY <1>1, <2>1, <2>3, SumIsPositive
<1>7. covariance \in Nat
  <2>1. Multiplies(p, d, h, 1 .. n) /\ Integral(p, 1 .. n)
    BY <1>3, TermsOfProducts DEF Multiplies, Integral
  <2> HIDE DEF p
  <2>2. SumFunctionOnSet(p, 1 .. n) \in Nat
    BY <1>1, <1>3, <2>1, GrowTogether
  <2>3. Combines(dh, n, p, -hs, d, 1 .. n)
    <3> SUFFICES ASSUME NEW i \in 1 .. n
                 PROVE  dh[i] = n * p[i] + (-hs) * d[i]
      BY DEF Combines
    <3>1. d[i] \in Int /\ h[i] \in Int /\ n \in Int /\ p[i] = d[i] * h[i]
      BY <1>1, <1>3, <2>1 DEF Integral, Multiplies
    <3>2. dh[i] = d[i] * (n * h[i] - hs)
      OBVIOUS
    <3> HIDE DEF hs
    <3>3. d[i] * (n * h[i] - hs) = n * (d[i] * h[i]) + (-hs) * d[i]
      BY <1>2, <3>1, TermsOfProducts
    <3> QED
      BY <3>1, <3>2, <3>3
  <2> HIDE DEF hs
  <2>4. n \in Int /\ -hs \in Int
    BY <1>1, <1>2
  <2>5. covariance = n * SumFunctionOnSet(p, 1 .. n) + (-hs) * SumFunctionOnSet(d, 1 .. n)
    BY <1>1, <1>3, <2>1, <2>3, <2>4, SumIsLinear
  <2> HIDE DEF covariance
  <2> QED
    BY <1>1, <1>3, <2>2, <2>4, <2>5
<1> HIDE DEF hs, variance, covariance
<1>8. \A x, y, z \in Nat : y >= x => y * z >= x * z /\ y * z \in Nat /\ x * z \in Nat
  OBVIOUS
<1>9. hs * variance >= n * variance /\ n * variance \in Nat \ {0} /\ hs * variance \in Nat
  <2>1. n * variance # 0
    BY <1>1, <1>6
  <2> QED
    BY <1>1, <1>2, <1>5, <1>6, <1>8, <2>1
<1>10. covariance * d[n] \in Nat
  BY <1>4, <1>7
<1>11. (hs * variance + covariance * d[n]) \div (n * variance) \in Nat \ {0}
  <2>1. PICK b \in Nat \ {0} : b = n * variance
    BY <1>9
  <2>2. PICK above \in Nat : above = hs * variance
    BY <1>9
  <2>3. PICK rise \in Nat : rise = covariance * d[n]
    BY <1>10
  <2>4. above >= b
    BY <1>9, <2>1, <2>2
  <2>5. above + rise \in Int /\ above + rise >= b
    BY <2>4
  <2>6. (above + rise) \div b \in Nat \ {0}
    BY <2>5, QuotientIsPositive
  <2> QED
    BY <2>1, <2>2, <2>3, <2>6
<1> QED
  BY <1>11 DEF hs, variance, covariance

\* fit() dates the newest of its points after the epoch of the clock.
LEMMA FitIsPositive ==
    ASSUME NEW ps, Len(ps) \in Nat \ {0},
           \A i \in 1 .. Len(ps) : ps[i].source \in Nat \ {0} /\ ps[i].host \in Nat \ {0},
           \A i, j \in 1 .. Len(ps) :
              i < j => ps[i].source < ps[j].source /\ ps[i].host <= ps[j].host
    PROVE  Fit(ps, ps[Len(ps)].source) \in Nat \ {0}
<1> DEFINE n == Len(ps)
           s == [i \in 1 .. n |-> ps[i].source]
           h == [i \in 1 .. n |-> ps[i].host]
           ss == SumFunctionOnSet(s, 1 .. n)
           hs == SumFunctionOnSet(h, 1 .. n)
           d == [i \in 1 .. n |-> n * ps[i].source - ss]
           dd == [i \in 1 .. n |-> (n * ps[i].source - ss) * (n * ps[i].source - ss)]
           dh == [i \in 1 .. n |-> (n * ps[i].source - ss) * (n * ps[i].host - hs)]
           variance == SumFunctionOnSet(dd, 1 .. n)
           covariance == SumFunctionOnSet(dh, 1 .. n)
<1>1. CASE n < 2
  <2>1. Fit(ps, ps[Len(ps)].source) = ps[Len(ps)].source /\ Len(ps) \in 1 .. Len(ps)
    BY <1>1 DEF Fit
  <2> QED
    BY <2>1
<1>2. CASE n >= 2
  <2>1. Fit(ps, ps[Len(ps)].source)
          = (hs * variance + covariance * (n * ps[n].source - ss)) \div (n * variance)
    <3>1. /\ Sum(s) = ss /\ Sum(h) = hs /\ Sum(dd) = variance /\ Sum(dh) = covariance
      BY Zenon DEF Sum, SumFunction
    <3>2. ~(n < 2)
      BY <1>2
    <3> HIDE DEF ss, hs, variance, covariance
    <3> QED
      BY <3>1, <3>2, Zenon DEF Fit
  <2>2. n \in Nat /\ n \in 1 .. n
    BY <1>2
  <2>3. /\ Integral(s, 1 .. n) /\ Integral(h, 1 .. n) /\ \A i \in 1 .. n : h[i] >= 1
        /\ Ascends(s, n) /\ NeverFalls(h, n)
    BY DEF Integral, Ascends, NeverFalls
  <2>4. d[n] = n * ps[n].source - ss
    BY <2>2
  <2>5. /\ Centres(d, s, n, SumFunctionOnSet(s, 1 .. n)) /\ Multiplies(dd, d, d, 1 .. n)
        /\ \A i \in 1 .. n : dh[i] = d[i] * (n * h[i] - SumFunctionOnSet(h, 1 .. n))
    BY DEF Centres, Multiplies
  <2> HIDE DEF s, h, d, dd, dh, n
  <2>6. (hs * variance + covariance * d[n]) \div (n * variance) \in Nat \ {0}
    BY <1>2, <2>2, <2>3, <2>5, LineEndsPositive
  <2> QED
    BY <2>1, <2>4, <2>6 DEF n
<1>3. n < 2 \/ n >= 2
  OBVIOUS
<1> QED
  BY <1>1, <1>2, <1>3

\* The inductive invariant of the clock.
Stamp == Nat \ {0}
Samples == [source : Stamp, host : Stamp, of : Nat, discontinuity : BOOLEAN]
Points == [source : Stamp, host : Stamp, of : Nat, estimate : Stamp]

ClockTypes ==
    /\ link \in 1 .. Len(Openings) /\ ticks \in Nat /\ arrival \in Nat
    /\ waiting \in Seq(Samples) /\ resetAsked \in BOOLEAN
    /\ points \in Seq(Points) /\ lastEstimate \in Nat /\ stolen \in BOOLEAN

\* The samples of the channel are in the order of their arrival.
SamplesInOrder(arrivals, latest, present) ==
    /\ \A i \in 1 .. Len(arrivals) : arrivals[i].host <= latest /\ arrivals[i].of <= present
    /\ \A i, j \in 1 .. Len(arrivals) :
         i < j => arrivals[i].host <= arrivals[j].host /\ arrivals[i].of <= arrivals[j].of

\* So are the points of the fit; its last estimate is the latest.
PointsInOrder(ps, latest) ==
    /\ \A i \in 1 .. Len(ps) : ps[i].estimate <= latest
    /\ \A i, j \in 1 .. Len(ps) :
         i < j => /\ ps[i].source < ps[j].source
                  /\ ps[i].host <= ps[j].host
                  /\ ps[i].estimate < ps[j].estimate

\* The points have come before the samples of the channel, and those before
\* now.
PointsCameFirst(ps, arrivals, latest) ==
    \A i \in 1 .. Len(ps) :
        /\ ps[i].host <= latest
        /\ \A j \in 1 .. Len(arrivals) : ps[i].host <= arrivals[j].host

\* Once the request of a reconnection is answered nothing of an old connection
\* is left, unless a sample of it took the request.
AllOf(items, present) == \A i \in 1 .. Len(items) : items[i].of = present
RequestIsAnswered ==
    ~stolen /\ ~resetAsked => AllOf(waiting, link) /\ AllOf(points, link)

ClockInv ==
    /\ ClockTypes /\ SamplesInOrder(waiting, arrival, link)
    /\ PointsInOrder(points, lastEstimate) /\ PointsCameFirst(points, waiting, arrival)
    /\ RequestIsAnswered /\ FitIsOfOneConnection

LEMMA ClockInitial == ClockInit => ClockInv
<1> SUFFICES ASSUME ClockInit PROVE ClockInv
  OBVIOUS
<1> USE ClockAssumption DEF ClockInit
<1>1. /\ Len(Openings) \in Nat \ {0} /\ Openings[1] \in Nat
      /\ Len(<<>>) = 0 /\ 1 .. 0 = {}
  BY EmptySeq, LenProperties, ElementOfSeq
<1>2. ClockTypes
  <2>1. <<>> \in Seq(Samples) /\ <<>> \in Seq(Points)
    BY EmptySeq
  <2>2. /\ link \in 1 .. Len(Openings) /\ ticks \in Nat /\ arrival \in Nat
        /\ waiting \in Seq(Samples) /\ points \in Seq(Points) /\ lastEstimate \in Nat
    BY <1>1, <2>1
  <2>3. resetAsked \in BOOLEAN /\ stolen \in BOOLEAN
    OBVIOUS
  <2> QED
    BY <2>2, <2>3, Zenon DEF ClockTypes
<1>3. /\ SamplesInOrder(waiting, arrival, link) /\ PointsInOrder(points, lastEstimate)
      /\ PointsCameFirst(points, waiting, arrival)
      /\ RequestIsAnswered /\ FitIsOfOneConnection
  BY <1>1 DEF SamplesInOrder, PointsInOrder, PointsCameFirst, RequestIsAnswered, AllOf,
              FitIsOfOneConnection
<1> QED
  BY <1>2, <1>3 DEF ClockInv

\* r is q without its first k items, and then e.
FollowedBy(q, e, k, r) ==
    /\ Len(r) \in Nat \ {0} /\ Len(r) = Len(q) + 1 - k /\ r[Len(r)] = e
    /\ \A i \in 1 .. Len(r) - 1 : i + k \in 1 .. Len(q) /\ r[i] = q[i + k]

\* What a channel or a window of n items keeps when one more comes.
KeepsNewest(q, e, n, r) ==
    r = IF Len(Append(q, e)) > n THEN Tail(Append(q, e)) ELSE Append(q, e)

LEMMA NewestKept ==
    ASSUME NEW S, NEW q \in Seq(S), NEW e \in S, NEW n \in Nat \ {0}, NEW r,
           KeepsNewest(q, e, n, r)
    PROVE  r \in Seq(S) /\ \E k \in {0, 1} : FollowedBy(q, e, k, r)
<1> DEFINE a == Append(q, e)
<1>1. /\ a \in Seq(S) /\ Len(q) \in Nat /\ Len(a) = Len(q) + 1
      /\ \A i \in 1 .. Len(q) : a[i] = q[i]
      /\ a[Len(q) + 1] = e
  BY Appended
<1> HIDE DEF a
<1>2. CASE Len(a) > n
  <2>1. a # <<>>
    BY <1>1, EmptySeq
  <2>2. /\ Tail(a) \in Seq(S) /\ Len(Tail(a)) = Len(a) - 1
        /\ \A i \in 1 .. Len(Tail(a)) : Tail(a)[i] = a[i + 1]
    BY <1>1, <2>1, Popped
  <2>3. r = Tail(a)
    BY <1>2 DEF a, KeepsNewest
  <2>4. FollowedBy(q, e, 1, r)
    <3>1. Len(r) = Len(q) /\ Len(q) \in Nat \ {0}
      BY <1>1, <1>2, <2>2, <2>3
    <3>2. r[Len(r)] = e
      BY <1>1, <2>2, <2>3, <3>1
    <3>3. ASSUME NEW i \in 1 .. Len(r) - 1
          PROVE  i + 1 \in 1 .. Len(q) /\ r[i] = q[i + 1]
      BY <1>1, <2>2, <2>3, <3>1
    <3> QED
      BY <3>1, <3>2, <3>3 DEF FollowedBy
  <2> QED
    BY <2>2, <2>3, <2>4
<1>3. CASE ~(Len(a) > n)
  <2>1. r = a
    BY <1>3 DEF a, KeepsNewest
  <2>2. FollowedBy(q, e, 0, r)
    BY <1>1, <2>1 DEF FollowedBy
  <2> QED
    BY <1>1, <2>1, <2>2
<1> QED
  BY <1>2, <1>3

LEMMA AtMostIsTransitive ==
    \A x, y, z \in Nat : x <= y /\ y <= z => x <= z
  OBVIOUS

LEMMA ArriveKeeps == ClockInv /\ Arrive => ClockInv'
<1> SUFFICES ASSUME ClockInv, Arrive PROVE ClockInv'
  OBVIOUS
<1>0. Openings \in Seq(Nat) /\ QueueCapacity \in Nat \ {0} /\ Jitter \in Nat
  BY ClockAssumption
<1>1. /\ ClockTypes /\ SamplesInOrder(waiting, arrival, link)
      /\ PointsInOrder(points, lastEstimate) /\ PointsCameFirst(points, waiting, arrival)
      /\ RequestIsAnswered /\ FitIsOfOneConnection
  BY DEF ClockInv
<1>2. PICK delay \in 0 .. Jitter, discontinuity \in BOOLEAN :
         /\ arrival' = Openings[link] + 2 * ticks' + delay
         /\ arrival' >= arrival
         /\ LET sample == [source |-> 2 * ticks', host |-> arrival', of |-> link,
                           discontinuity |-> discontinuity]
                longer == Append(waiting, sample)
            IN waiting' = IF Len(longer) > QueueCapacity THEN Tail(longer) ELSE longer
  BY DEF Arrive
<1>3. /\ ticks' = ticks + 1 /\ link' = link /\ resetAsked' = resetAsked /\ points' = points
      /\ lastEstimate' = lastEstimate /\ stolen' = stolen
  BY DEF Arrive
<1>4. PICK sample : sample = [source |-> 2 * ticks', host |-> arrival', of |-> link,
                              discontinuity |-> discontinuity]
  OBVIOUS
<1>5. arrival' = Openings[link] + 2 * ticks' + delay /\ arrival' >= arrival
  BY <1>2
<1>6. KeepsNewest(waiting, sample, QueueCapacity, waiting')
  BY <1>2, <1>4 DEF KeepsNewest
<1>7. /\ link \in Nat /\ ticks \in Nat /\ arrival \in Nat /\ ticks' \in Nat
      /\ arrival' \in Nat \ {0} /\ 2 * ticks' \in Nat \ {0} /\ arrival <= arrival'
  <2>1. link \in 1 .. Len(Openings) /\ link \in Nat /\ ticks \in Nat /\ arrival \in Nat
    BY <1>0, <1>1, LenProperties DEF ClockTypes
  <2>2. Openings[link] \in Nat
    BY <1>0, <2>1, ElementOfSeq
  <2>3. PICK base \in Nat, many \in Nat \ {0} : base = Openings[link] /\ many = ticks'
    BY <1>3, <2>1, <2>2
  <2>4. delay \in Nat
    BY <1>0
  <2>5. 2 * many \in Nat \ {0} /\ base + 2 * many + delay \in Nat \ {0}
    BY <2>4
  <2>6. arrival' = base + 2 * many + delay /\ 2 * ticks' = 2 * many
    BY <1>5, <2>3
  <2>7. arrival' \in Nat \ {0} /\ 2 * ticks' \in Nat \ {0}
    BY <2>5, <2>6, Zenon
  <2>8. arrival <= arrival'
    BY <1>5, <2>1, <2>7
  <2> QED
    BY <2>1, <2>3, <2>7, <2>8
<1>8. sample \in Samples /\ sample.host = arrival' /\ sample.of = link
  BY <1>4, <1>7 DEF Samples, Stamp
<1>9. waiting \in Seq(Samples) /\ Len(waiting) \in Nat
  BY <1>1, LenProperties DEF ClockTypes
<1>10. waiting' \in Seq(Samples) /\ \E k \in {0, 1} : FollowedBy(waiting, sample, k, waiting')
  BY <1>0, <1>6, <1>8, <1>9, NewestKept
<1>11. PICK k \in {0, 1} : FollowedBy(waiting, sample, k, waiting')
  BY <1>10
<1>12. /\ Len(waiting') \in Nat
       /\ \A i \in 1 .. Len(waiting') :
            \/ waiting'[i] = sample /\ i = Len(waiting')
            \/ /\ i < Len(waiting')
               /\ i + k \in 1 .. Len(waiting) /\ waiting'[i] = waiting[i + k]
  BY <1>11 DEF FollowedBy
<1>13. \A i \in 1 .. Len(waiting) : waiting[i].host \in Nat /\ waiting[i].of \in Nat
  <2>1. \A i \in 1 .. Len(waiting) : waiting[i] \in Samples
    BY <1>9, ElementOfSeq
  <2> QED
    BY <2>1 DEF Samples, Stamp
<1>14. ClockTypes'
  BY <1>1, <1>3, <1>7, <1>10 DEF ClockTypes
<1>15. SamplesInOrder(waiting, arrival, link)'
  <2>1. ASSUME NEW i \in 1 .. Len(waiting')
        PROVE  waiting'[i].host <= arrival' /\ waiting'[i].of <= link'
    <3>1. CASE waiting'[i] = sample
      BY <1>3, <1>7, <1>8, <3>1
    <3>2. CASE i + k \in 1 .. Len(waiting) /\ waiting'[i] = waiting[i + k]
      <4>1. waiting[i + k].host <= arrival /\ waiting[i + k].of <= link
        BY <1>1, <3>2 DEF SamplesInOrder
      <4>2. waiting[i + k].host \in Nat
        BY <1>13, <3>2
      <4>3. waiting[i + k].host <= arrival'
        BY <1>7, <4>1, <4>2, AtMostIsTransitive, Zenon
      <4> QED
        BY <1>3, <3>2, <4>1, <4>3
    <3> QED
      BY <1>12, <3>1, <3>2
  <2>2. ASSUME NEW i \in 1 .. Len(waiting'), NEW j \in 1 .. Len(waiting'), i < j
        PROVE  waiting'[i].host <= waiting'[j].host /\ waiting'[i].of <= waiting'[j].of
    <3>1. i + k \in 1 .. Len(waiting) /\ waiting'[i] = waiting[i + k]
      BY <1>12, <2>2
    <3>2. CASE waiting'[j] = sample
      BY <1>3, <1>8, <2>1, <3>2
    <3>3. CASE j + k \in 1 .. Len(waiting) /\ waiting'[j] = waiting[j + k]
      BY <1>1, <2>2, <3>1, <3>3 DEF SamplesInOrder
    <3> QED
      BY <1>12, <3>2, <3>3
  <2> QED
    BY <2>1, <2>2 DEF SamplesInOrder
<1>16. PointsInOrder(points, lastEstimate)' /\ FitIsOfOneConnection'
  BY <1>1, <1>3 DEF PointsInOrder, FitIsOfOneConnection
<1>17. PointsCameFirst(points, waiting, arrival)'
  <2>1. points' = points /\ Len(points') = Len(points)
    BY <1>3
  <2> SUFFICES ASSUME NEW i \in 1 .. Len(points)
               PROVE  /\ points[i].host <= arrival'
                      /\ \A j \in 1 .. Len(waiting') : points[i].host <= waiting'[j].host
    BY <2>1 DEF PointsCameFirst
  <2>2. points[i].host \in Nat /\ points[i].host <= arrival
    <3>1. points[i] \in Points
      BY <1>1, ElementOfSeq DEF ClockTypes
    <3> QED
      BY <1>1, <3>1 DEF PointsCameFirst, Points, Stamp
  <2>3. points[i].host <= arrival'
    BY <1>7, <2>2
  <2>4. ASSUME NEW j \in 1 .. Len(waiting') PROVE points[i].host <= waiting'[j].host
    <3>1. CASE waiting'[j] = sample
      BY <1>8, <2>3, <3>1
    <3>2. CASE j + k \in 1 .. Len(waiting) /\ waiting'[j] = waiting[j + k]
      BY <1>1, <3>2 DEF PointsCameFirst
    <3> QED
      BY <1>12, <3>1, <3>2
  <2> QED
    BY <2>3, <2>4
<1>18. RequestIsAnswered'
  <2> SUFFICES ASSUME ~stolen, ~resetAsked PROVE AllOf(waiting', link) /\ AllOf(points, link)
    BY <1>3 DEF RequestIsAnswered
  <2>1. AllOf(waiting, link) /\ AllOf(points, link)
    BY <1>1 DEF RequestIsAnswered
  <2> QED
    BY <1>8, <1>12, <2>1 DEF AllOf
<1> QED
  BY <1>14, <1>15, <1>16, <1>17, <1>18 DEF ClockInv

LEMMA ReconnectKeeps == ClockInv /\ Reconnect => ClockInv'
<1> SUFFICES ASSUME ClockInv, Reconnect PROVE ClockInv'
  OBVIOUS
<1> USE ClockAssumption
<1>1. /\ ClockTypes /\ SamplesInOrder(waiting, arrival, link)
      /\ PointsInOrder(points, lastEstimate) /\ PointsCameFirst(points, waiting, arrival)
      /\ RequestIsAnswered /\ FitIsOfOneConnection
  BY DEF ClockInv
<1>2. /\ link < Len(Openings) /\ arrival <= Openings[link + 1]
      /\ link' = link + 1 /\ ticks' = 0 /\ arrival' = Openings[link + 1] /\ resetAsked' = TRUE
      /\ waiting' = waiting /\ points' = points
      /\ lastEstimate' = lastEstimate /\ stolen' = stolen
  BY DEF Reconnect
<1>3. /\ link \in Nat /\ arrival \in Nat /\ arrival' \in Nat /\ link' \in 1 .. Len(Openings)
  <2>1. link \in 1 .. Len(Openings) /\ arrival \in Nat /\ Len(Openings) \in Nat
    BY <1>1, LenProperties DEF ClockTypes
  <2>2. link + 1 \in 1 .. Len(Openings)
    BY <1>2, <2>1
  <2> QED
    BY <1>2, <2>1, <2>2, ElementOfSeq
<1>4. ClockTypes'
  BY <1>1, <1>2, <1>3 DEF ClockTypes
<1>5. /\ \A i \in 1 .. Len(waiting) : waiting[i].host \in Nat /\ waiting[i].of \in Nat
      /\ \A i \in 1 .. Len(points) : points[i].host \in Nat
  <2>1. /\ \A i \in 1 .. Len(waiting) : waiting[i] \in Samples
        /\ \A i \in 1 .. Len(points) : points[i] \in Points
    BY <1>1, ElementOfSeq DEF ClockTypes
  <2> QED
    BY <2>1 DEF Samples, Points, Stamp
<1>6. SamplesInOrder(waiting, arrival, link)'
  <2>1. arrival <= arrival' /\ link <= link'
    BY <1>2, <1>3
  <2>2. \A i \in 1 .. Len(waiting) : waiting[i].host <= arrival' /\ waiting[i].of <= link'
    <3> SUFFICES ASSUME NEW i \in 1 .. Len(waiting)
                 PROVE  waiting[i].host <= arrival' /\ waiting[i].of <= link'
      OBVIOUS
    <3>1. waiting[i].host <= arrival /\ waiting[i].of <= link
      BY <1>1 DEF SamplesInOrder
    <3>2. waiting[i].host \in Nat /\ waiting[i].of \in Nat /\ link' \in Nat
      BY <1>2, <1>3, <1>5
    <3>3. waiting[i].host <= arrival'
      BY <1>3, <2>1, <3>1, <3>2, AtMostIsTransitive, Zenon
    <3>4. waiting[i].of <= link'
      BY <1>3, <2>1, <3>1, <3>2, AtMostIsTransitive, Zenon
    <3> QED
      BY <3>3, <3>4
  <2>3. SamplesInOrder(waiting, arrival', link')
    BY <1>1, <2>2 DEF SamplesInOrder
  <2> QED
    BY <1>2, <2>3
<1>7. PointsCameFirst(points, waiting, arrival)'
  <2>1. ASSUME NEW i \in 1 .. Len(points) PROVE points[i].host <= arrival'
    <3>1. PICK x \in Nat : x = points[i].host /\ x <= arrival
      BY <1>1, <1>5 DEF PointsCameFirst
    <3>2. arrival <= arrival'
      BY <1>2
    <3> QED
      BY <1>3, <3>1, <3>2
  <2>2. PointsCameFirst(points, waiting, arrival')
    BY <1>1, <2>1 DEF PointsCameFirst
  <2> QED
    BY <1>2, <2>2
<1>8. PointsInOrder(points, lastEstimate)' /\ RequestIsAnswered' /\ FitIsOfOneConnection'
  BY <1>1, <1>2 DEF PointsInOrder, RequestIsAnswered, FitIsOfOneConnection
<1> QED
  BY <1>4, <1>6, <1>7, <1>8 DEF ClockInv

\* What a fit is of: the points kept, and the sample that is dated.
Keeps(kept, sample) ==
    \/ kept = <<>>
    \/ kept = points /\ (points = <<>> \/ points[Len(points)].source < sample.source)

\* The fit is of samples in order, so that it dates the frame after the epoch.
LEMMA FitOfTheNewest ==
    ASSUME ClockInv, waiting # <<>>, NEW sample, sample = waiting[1],
           NEW kept, Keeps(kept, sample)
    PROVE  Fit(LatestPoints(Append(kept, [source |-> sample.source, host |-> sample.host])),
               sample.source) \in Stamp
<1> USE ClockAssumption
<1>1. ClockTypes /\ PointsInOrder(points, lastEstimate) /\ PointsCameFirst(points, waiting, arrival)
  BY DEF ClockInv
<1> DEFINE Dates == [source : Stamp, host : Stamp]
           dated == [source |-> sample.source, host |-> sample.host]
           Plain(p) == [source |-> p.source, host |-> p.host]
           ps == LatestPoints(Append(kept, dated))
<1>2. /\ Len(waiting) \in Nat \ {0} /\ sample \in Samples
  <2>1. waiting \in Seq(Samples)
    BY <1>1 DEF ClockTypes
  <2> QED
    BY <2>1, Popped
<1>3. dated \in Dates /\ dated.source = sample.source /\ dated.host = sample.host
  BY <1>2 DEF Samples
<1>4. /\ kept \in Seq(Points) /\ Len(kept) \in Nat
      /\ \A i \in 1 .. Len(kept) :
            /\ kept[i] \in Points
            /\ kept[i].source < sample.source /\ kept[i].host <= sample.host
      /\ \A i, j \in 1 .. Len(kept) :
            i < j => kept[i].source < kept[j].source /\ kept[i].host <= kept[j].host
  <2>1. CASE kept = <<>>
    <3>1. <<>> \in Seq(Points) /\ Len(<<>>) = 0 /\ 1 .. 0 = {}
      BY EmptySeq
    <3> QED
      BY <2>1, <3>1
  <2>2. CASE kept # <<>>
    <3>1. /\ kept = points /\ points[Len(points)].source < sample.source
          /\ points \in Seq(Points) /\ Len(points) \in Nat \ {0}
      <4>1. points \in Seq(Points)
        BY <1>1 DEF ClockTypes
      <4> QED
        BY <2>2, <4>1, EmptySeq, LenProperties DEF Keeps
    <3>2. \A i \in 1 .. Len(points) : points[i] \in Points
      BY <3>1, ElementOfSeq
    <3>3. \A i, j \in 1 .. Len(points) :
             i < j => points[i].source < points[j].source /\ points[i].host <= points[j].host
      BY <1>1 DEF PointsInOrder
    <3>4. ASSUME NEW i \in 1 .. Len(points)
          PROVE  points[i].source < sample.source /\ points[i].host <= sample.host
      <4>1. i = Len(points) \/ (i < Len(points) /\ points[i].source < points[Len(points)].source)
        BY <3>1, <3>3
      <4>2. /\ points[i].source \in Nat /\ points[Len(points)].source \in Nat
            /\ sample.source \in Nat
        <5>1. points[i] \in Points /\ points[Len(points)] \in Points
          BY <3>1, <3>2
        <5> QED
          BY <1>2, <5>1 DEF Points, Samples, Stamp
      <4>3. points[i].host <= waiting[1].host
        BY <1>1, <1>2 DEF PointsCameFirst
      <4> QED
        BY <3>1, <4>1, <4>2, <4>3
    <3> QED
      BY <3>1, <3>2, <3>3, <3>4
  <2> QED
    BY <2>1, <2>2
<1>5. PICK pick : pick = ps
  OBVIOUS
<1>6. KeepsNewest(kept, dated, Window, pick)
  BY <1>5 DEF LatestPoints, KeepsNewest
<1>7. PICK Items : kept \in Seq(Items) /\ dated \in Items
  <2>1. kept \in Seq(Points \cup Dates) /\ dated \in Points \cup Dates
    BY <1>3, <1>4
  <2> QED
    BY <2>1
<1> HIDE DEF dated, ps, Dates
<1>8. PICK k \in {0, 1} : FollowedBy(kept, dated, k, pick)
  BY <1>6, <1>7, NewestKept
<1>9. /\ Len(pick) \in Nat \ {0} /\ pick[Len(pick)] = dated
      /\ \A i \in 1 .. Len(pick) : i = Len(pick) \/ i < Len(pick)
      /\ \A i \in 1 .. Len(pick) : i < Len(pick) => i + k \in 1 .. Len(kept) /\ pick[i] = kept[i + k]
  BY <1>8 DEF FollowedBy
<1>10. \A i \in 1 .. Len(pick) : pick[i].source \in Nat \ {0} /\ pick[i].host \in Nat \ {0}
  <2>1. dated.source \in Stamp /\ dated.host \in Stamp
    BY <1>3 DEF Dates
  <2>2. \A p \in Points : p.source \in Stamp /\ p.host \in Stamp
    BY DEF Points
  <2> QED
    BY <1>4, <1>9, <2>1, <2>2 DEF Stamp
<1>11. ASSUME NEW i \in 1 .. Len(pick), NEW j \in 1 .. Len(pick), i < j
       PROVE  pick[i].source < pick[j].source /\ pick[i].host <= pick[j].host
  <2>1. i + k \in 1 .. Len(kept) /\ pick[i] = kept[i + k]
    BY <1>9, <1>11
  <2>2. CASE j = Len(pick)
    BY <1>3, <1>4, <1>9, <2>1, <2>2
  <2>3. CASE j < Len(pick)
    <3>1. j + k \in 1 .. Len(kept) /\ pick[j] = kept[j + k]
      BY <1>9, <2>3
    <3>2. i + k < j + k
      <4>1. i \in Int /\ j \in Int /\ k \in Int /\ i < j
        BY <1>11
      <4> QED
        BY <4>1
    <3> QED
      BY <1>4, <2>1, <3>1, <3>2
  <2> QED
    BY <1>9, <2>2, <2>3
<1>12. Fit(pick, pick[Len(pick)].source) \in Nat \ {0}
  BY <1>9, <1>10, <1>11, FitIsPositive
<1> QED
  BY <1>3, <1>5, <1>9, <1>12 DEF ps, dated, Stamp

LEMMA ObserveKeeps == ClockInv /\ Observe => ClockInv'
<1> SUFFICES ASSUME ClockInv, Observe PROVE ClockInv'
  OBVIOUS
<1> USE ClockAssumption
<1>1. /\ ClockTypes /\ SamplesInOrder(waiting, arrival, link)
      /\ PointsInOrder(points, lastEstimate) /\ PointsCameFirst(points, waiting, arrival)
      /\ RequestIsAnswered /\ FitIsOfOneConnection
  BY DEF ClockInv
<1> DEFINE Asked(sample) == ~sample.discontinuity /\ resetAsked
           Resets(sample) ==
             \/ sample.discontinuity \/ Asked(sample)
             \/ points # <<>> /\ sample.source <= points[Len(points)].source
           KeptPoints(sample) == IF Resets(sample) THEN <<>> ELSE points
           Fitted(sample) ==
             Fit(LatestPoints(Append(KeptPoints(sample), [source |-> sample.source, host |-> sample.host])),
                 sample.source)
           Dated(sample, estimate) ==
             [source |-> sample.source, host |-> sample.host, of |-> sample.of, estimate |-> estimate]
<1>2. /\ waiting # <<>> /\ waiting' = Tail(waiting)
      /\ link' = link /\ ticks' = ticks /\ arrival' = arrival
  BY DEF Observe
<1>3. PICK sample : sample = Head(waiting)
  OBVIOUS
<1>4. PICK kept : kept = KeptPoints(sample)
  OBVIOUS
<1>5. PICK fitted : fitted = Fitted(sample)
  OBVIOUS
<1>6. PICK estimate : estimate = NotBefore(fitted, IF Resets(sample) THEN 0 ELSE lastEstimate)
  OBVIOUS
<1>7. PICK point : point = Dated(sample, estimate)
  OBVIOUS
<1>8. /\ points' = LatestPoints(Append(kept, point)) /\ lastEstimate' = estimate
      /\ resetAsked' = (resetAsked /\ sample.discontinuity)
      /\ stolen' = \/ sample.of # link /\ (Asked(sample) \/ stolen)
                   \/ stolen /\ ~Resets(sample)
  BY <1>3, <1>4, <1>5, <1>6, <1>7, Zenon DEF Observe
<1>9. /\ Len(waiting) \in Nat \ {0} /\ sample = waiting[1] /\ sample \in Samples
      /\ waiting' \in Seq(Samples) /\ Len(waiting') = Len(waiting) - 1
      /\ \A i \in 1 .. Len(waiting') : waiting'[i] = waiting[i + 1] /\ i + 1 \in 1 .. Len(waiting)
  <2>1. waiting \in Seq(Samples)
    BY <1>1 DEF ClockTypes
  <2>2. /\ Len(waiting) \in Nat \ {0} /\ sample = waiting[1] /\ sample \in Samples
        /\ waiting' \in Seq(Samples) /\ Len(waiting') = Len(waiting) - 1
        /\ \A i \in 1 .. Len(waiting') : waiting'[i] = waiting[i + 1]
    BY <1>2, <1>3, <2>1, Popped
  <2>3. \A i \in 1 .. Len(waiting') : i + 1 \in 1 .. Len(waiting)
    BY <2>2
  <2> QED
    BY <2>2, <2>3
<1>10. /\ points \in Seq(Points) /\ Len(points) \in Nat
       /\ \A i \in 1 .. Len(points) : points[i] \in Points
       /\ (points # <<>> => Len(points) \in 1 .. Len(points))
  <2>1. points \in Seq(Points)
    BY <1>1 DEF ClockTypes
  <2> QED
    BY <2>1, ElementOfSeq, EmptySeq, LenProperties
<1>11. Keeps(kept, sample)
  <2>1. CASE Resets(sample)
    BY <1>4, <2>1 DEF Keeps
  <2>2. CASE ~Resets(sample)
    <3>1. kept = points /\ (points = <<>> \/ ~(sample.source <= points[Len(points)].source))
      BY <1>4, <2>2
    <3>2. sample.source \in Nat /\ (points # <<>> => points[Len(points)].source \in Nat)
      BY <1>9, <1>10 DEF Samples, Points, Stamp
    <3> QED
      BY <3>1, <3>2 DEF Keeps
  <2> QED
    BY <2>1, <2>2
<1>12. fitted \in Stamp
  <2>1. fitted = Fit(LatestPoints(Append(kept, [source |-> sample.source, host |-> sample.host])),
                     sample.source)
    BY <1>4, <1>5
  <2>2. Fit(LatestPoints(Append(kept, [source |-> sample.source, host |-> sample.host])),
            sample.source) \in Stamp
    BY <1>2, <1>9, <1>11, FitOfTheNewest
  <2> QED
    BY <2>1, <2>2
<1> HIDE DEF Fitted
<1>13. kept = <<>> \/ (kept = points /\ ~Resets(sample))
  <2>1. CASE Resets(sample)
    BY <1>4, <2>1
  <2>2. CASE ~Resets(sample)
    BY <1>4, <2>2
  <2> QED
    BY <2>1, <2>2
<1>14. estimate \in Stamp /\ (~Resets(sample) => lastEstimate < estimate)
  <2>1. lastEstimate \in Nat
    BY <1>1 DEF ClockTypes
  <2>2. CASE Resets(sample)
    BY <1>6, <1>12, <2>2 DEF NotBefore, Stamp
  <2>3. CASE ~Resets(sample)
    <3>1. estimate = IF lastEstimate # 0 /\ fitted <= lastEstimate THEN lastEstimate + 1 ELSE fitted
      BY <1>6, <2>3 DEF NotBefore
    <3> HIDE DEF Resets
    <3> QED
      BY <1>12, <2>1, <3>1 DEF Stamp
  <2> QED
    BY <2>2, <2>3
<1> HIDE DEF KeptPoints
<1>15. /\ point \in Points /\ point.source = sample.source /\ point.host = sample.host
       /\ point.of = sample.of /\ point.estimate = estimate
  <2>1. sample.source \in Stamp /\ sample.host \in Stamp /\ sample.of \in Nat
    BY <1>9 DEF Samples
  <2> QED
    BY <1>7, <1>14, <2>1 DEF Points
<1> HIDE DEF Dated
<1>16. /\ kept \in Seq(Points) /\ Len(kept) \in Nat
       /\ \A i \in 1 .. Len(kept) : kept = points /\ i \in 1 .. Len(points) /\ ~Resets(sample)
  <2>1. CASE kept = <<>>
    <3>1. <<>> \in Seq(Points) /\ Len(<<>>) = 0 /\ 1 .. 0 = {}
      BY EmptySeq
    <3> HIDE DEF Resets
    <3> QED
      BY <2>1, <3>1
  <2>2. CASE kept = points /\ ~Resets(sample)
    <3> HIDE DEF Resets
    <3> QED
      BY <1>10, <2>2
  <2> QED
    BY <1>13, <2>1, <2>2
<1>17. KeepsNewest(kept, point, Window, points')
  BY <1>8 DEF LatestPoints, KeepsNewest
<1>18. points' \in Seq(Points) /\ \E k \in {0, 1} : FollowedBy(kept, point, k, points')
  BY <1>15, <1>16, <1>17, NewestKept
<1>19. PICK k \in {0, 1} : FollowedBy(kept, point, k, points')
  BY <1>18
<1>20. /\ Len(points') \in Nat \ {0} /\ points'[Len(points')] = point
       /\ \A i \in 1 .. Len(points') : i = Len(points') \/ i < Len(points')
       /\ \A i \in 1 .. Len(points') :
            i < Len(points') => i + k \in 1 .. Len(kept) /\ points'[i] = kept[i + k]
  BY <1>19 DEF FollowedBy
\* The items of the new fit before the last are points of the old one.
<1>21. \A i \in 1 .. Len(points') :
          i < Len(points') =>
            i + k \in 1 .. Len(points) /\ points'[i] = points[i + k] /\ ~Resets(sample)
  <2> HIDE DEF Resets
  <2> QED
    BY <1>16, <1>20
<1>22. /\ \A i \in 1 .. Len(waiting) : waiting[i].host \in Nat /\ waiting[i].of \in Nat
       /\ \A i \in 1 .. Len(points) :
             points[i].source \in Nat /\ points[i].host \in Nat /\ points[i].estimate \in Nat
       /\ sample.source \in Nat /\ sample.host \in Nat /\ sample.of \in Nat
  <2>1. \A i \in 1 .. Len(waiting) : waiting[i] \in Samples
    BY <1>1, ElementOfSeq DEF ClockTypes
  <2> QED
    BY <1>9, <1>10, <2>1 DEF Samples, Points, Stamp
<1>23. ClockTypes'
  <2>1. resetAsked' \in BOOLEAN /\ stolen' \in BOOLEAN
    BY <1>8, Zenon
  <2>2. /\ link \in 1 .. Len(Openings) /\ ticks \in Nat /\ arrival \in Nat
    BY <1>1 DEF ClockTypes
  <2>3. /\ link' \in 1 .. Len(Openings)' /\ ticks' \in Nat /\ arrival' \in Nat
        /\ waiting' \in Seq(Samples) /\ points' \in Seq(Points) /\ lastEstimate' \in Nat
    BY <1>2, <1>8, <1>9, <1>14, <1>18, <2>2 DEF Stamp
  <2> QED
    BY <2>1, <2>3, Zenon DEF ClockTypes
<1>24. SamplesInOrder(waiting, arrival, link)'
  BY <1>1, <1>2, <1>9 DEF SamplesInOrder
<1>25. PointsInOrder(points, lastEstimate)'
  <2>1. ASSUME NEW i \in 1 .. Len(points') PROVE points'[i].estimate <= lastEstimate'
    <3>1. CASE i = Len(points')
      BY <1>8, <1>14, <1>15, <1>20, <3>1 DEF Stamp
    <3>2. CASE i < Len(points')
      <4>1. i + k \in 1 .. Len(points) /\ points'[i] = points[i + k] /\ lastEstimate < estimate
        BY <1>14, <1>21, <3>2
      <4>2. points[i + k].estimate <= lastEstimate /\ points[i + k].estimate \in Nat
        BY <1>1, <1>22, <4>1 DEF PointsInOrder
      <4>3. lastEstimate \in Nat
        BY <1>1 DEF ClockTypes
      <4> QED
        BY <1>8, <1>14, <4>1, <4>2, <4>3 DEF Stamp
    <3> QED
      BY <1>20, <3>1, <3>2
  <2>2. ASSUME NEW i \in 1 .. Len(points'), NEW j \in 1 .. Len(points'), i < j
        PROVE  /\ points'[i].source < points'[j].source
               /\ points'[i].host <= points'[j].host
               /\ points'[i].estimate < points'[j].estimate
    <3>1. i < Len(points')
      BY <1>20, <2>2
    <3>2. i + k \in 1 .. Len(points) /\ points'[i] = points[i + k] /\ ~Resets(sample)
      BY <1>21, <3>1
    <3>3. CASE j = Len(points')
      <4>1. points[i + k].estimate < estimate
        <5>1. points[i + k].estimate <= lastEstimate /\ lastEstimate < estimate
          BY <1>1, <1>14, <3>2 DEF PointsInOrder
        <5>2. lastEstimate \in Nat
          BY <1>1 DEF ClockTypes
        <5>3. points[i + k].estimate \in Nat /\ estimate \in Nat
          BY <1>14, <1>22, <3>2 DEF Stamp
        <5> HIDE DEF Resets
        <5> QED
          BY <5>1, <5>2, <5>3
      <4>2. points[i + k].host <= sample.host
        BY <1>1, <1>9, <3>2 DEF PointsCameFirst
      <4>3. points[i + k].source < sample.source
        <5>1. points # <<>> /\ Len(points) \in 1 .. Len(points)
          BY <1>10, <3>2, EmptySeq
        <5>2. points[Len(points)].source < sample.source
          <6>1. ~(sample.source <= points[Len(points)].source)
            BY <3>2, <5>1
          <6>2. points[Len(points)].source \in Nat /\ sample.source \in Nat
            BY <1>22, <5>1
          <6> HIDE DEF Resets
          <6> QED
            BY <6>1, <6>2
        <5>3. i + k = Len(points) \/ (points[i + k].source < points[Len(points)].source)
          <6>1. i + k = Len(points) \/ i + k < Len(points)
            BY <1>10, <3>2
          <6> QED
            BY <1>1, <3>2, <5>1, <6>1 DEF PointsInOrder
        <5>4. /\ points[i + k].source \in Nat /\ points[Len(points)].source \in Nat
              /\ sample.source \in Nat
          BY <1>22, <3>2, <5>1
        <5>5. PICK x, y, z \in Nat :
                 x = points[i + k].source /\ y = points[Len(points)].source /\ z = sample.source
          BY <5>4
        <5>6. y < z /\ (x = y \/ x < y)
          BY <5>2, <5>3, <5>5
        <5> HIDE DEF Resets
        <5> QED
          BY <5>5, <5>6
      <4> QED
        BY <1>15, <1>20, <3>2, <3>3, <4>1, <4>2, <4>3
    <3>4. CASE j < Len(points')
      <4>1. j + k \in 1 .. Len(points) /\ points'[j] = points[j + k] /\ i + k < j + k
        BY <1>21, <2>2, <3>4
      <4> QED
        BY <1>1, <3>2, <4>1 DEF PointsInOrder
    <3> QED
      BY <1>20, <3>3, <3>4
  <2> HIDE DEF Resets
  <2> QED
    BY <2>1, <2>2 DEF PointsInOrder
<1>26. PointsCameFirst(points, waiting, arrival)'
  <2> SUFFICES ASSUME NEW i \in 1 .. Len(points')
               PROVE  /\ points'[i].host <= arrival'
                      /\ \A j \in 1 .. Len(waiting') : points'[i].host <= waiting'[j].host
    BY DEF PointsCameFirst
  <2>1. CASE i = Len(points')
    <3>1. points'[i].host = waiting[1].host /\ 1 \in 1 .. Len(waiting)
      BY <1>9, <1>15, <1>20, <2>1
    <3>2. waiting[1].host <= arrival
      BY <1>1, <3>1 DEF SamplesInOrder
    <3>3. ASSUME NEW j \in 1 .. Len(waiting') PROVE waiting[1].host <= waiting'[j].host
      <4>1. 1 < j + 1 /\ j + 1 \in 1 .. Len(waiting) /\ waiting'[j] = waiting[j + 1]
        BY <1>9
      <4> QED
        BY <1>1, <3>1, <4>1 DEF SamplesInOrder
    <3> QED
      BY <1>2, <3>1, <3>2, <3>3
  <2>2. CASE i < Len(points')
    <3>1. i + k \in 1 .. Len(points) /\ points'[i] = points[i + k]
      BY <1>21, <2>2
    <3> QED
      BY <1>1, <1>2, <1>9, <3>1 DEF PointsCameFirst
  <2> QED
    BY <1>20, <2>1, <2>2
\* All that is left is of the present connection once a sample of it is dated
\* and no request waits, unless an old sample has taken it.
<1>27. ASSUME ~stolen', ~Resets(sample)
       PROVE  ~stolen /\ ~resetAsked /\ AllOf(waiting, link) /\ AllOf(points, link)
  <2>1. ~resetAsked
    BY <1>27
  <2>2. ~stolen
    BY <1>8, <1>27
  <2> QED
    BY <1>1, <2>1, <2>2 DEF RequestIsAnswered
<1>28. RequestIsAnswered'
  <2> SUFFICES ASSUME ~stolen', ~resetAsked'
               PROVE  AllOf(waiting', link) /\ AllOf(points', link)
    BY <1>2 DEF RequestIsAnswered
  <2>1. sample.of = link
    <3>1. CASE stolen \/ Asked(sample)
      BY <1>8, <3>1
    <3>2. CASE ~stolen /\ ~Asked(sample)
      <4>1. ~resetAsked
        BY <1>8, <3>2
      <4>2. AllOf(waiting, link)
        BY <1>1, <3>2, <4>1 DEF RequestIsAnswered
      <4> QED
        BY <1>9, <4>2 DEF AllOf
    <3> QED
      BY <3>1, <3>2
  <2>2. AllOf(waiting', link)
    <3> SUFFICES ASSUME NEW i \in 1 .. Len(waiting') PROVE waiting'[i].of = link
      BY DEF AllOf
    <3>1. /\ 1 < i + 1 /\ 1 \in 1 .. Len(waiting) /\ i + 1 \in 1 .. Len(waiting)
          /\ waiting'[i] = waiting[i + 1]
      BY <1>9
    <3>2. link <= waiting[i + 1].of /\ waiting[i + 1].of <= link
      BY <1>1, <1>9, <2>1, <3>1 DEF SamplesInOrder
    <3>3. link \in Nat /\ waiting[i + 1].of \in Nat
      BY <1>22, <2>1, <3>1
    <3> QED
      BY <3>1, <3>2, <3>3
  <2>3. AllOf(points', link)
    <3> SUFFICES ASSUME NEW i \in 1 .. Len(points') PROVE points'[i].of = link
      BY DEF AllOf
    <3>1. CASE i = Len(points')
      BY <1>15, <1>20, <2>1, <3>1
    <3>2. CASE i < Len(points')
      <4>1. i + k \in 1 .. Len(points) /\ points'[i] = points[i + k] /\ ~Resets(sample)
        BY <1>21, <3>2
      <4>2. AllOf(points, link)
        BY <1>27, <4>1
      <4> QED
        BY <4>1, <4>2 DEF AllOf
    <3> QED
      BY <1>20, <3>1, <3>2
  <2> QED
    BY <2>2, <2>3
<1>29. FitIsOfOneConnection'
  <2> SUFFICES ASSUME ~stolen', NEW i \in 1 .. Len(points')
               PROVE  points'[i].of = points'[1].of
    BY DEF FitIsOfOneConnection
  <2>1. CASE Len(points') = 1
    BY <2>1
  <2>2. CASE Len(points') # 1
    <3>1. 1 \in 1 .. Len(points') /\ 1 < Len(points')
      <4>1. PICK m \in Nat \ {0} : m = Len(points')
        BY <1>20
      <4>2. m # 1
        BY <2>2, <4>1
      <4>3. 1 \in 1 .. m /\ 1 < m
        BY <4>2
      <4> HIDE DEF Resets
      <4> QED
        BY <4>1, <4>3
    <3>2. ~Resets(sample)
      BY <1>21, <3>1
    <3>3. AllOf(waiting, link) /\ AllOf(points, link)
      BY <1>27, <3>2
    <3>4. point.of = link
      BY <1>9, <1>15, <3>3 DEF AllOf
    <3>5. ASSUME NEW j \in 1 .. Len(points') PROVE points'[j].of = link
      <4> HIDE DEF Resets
      <4>1. CASE j = Len(points')
        BY <1>20, <3>4, <4>1
      <4>2. CASE j < Len(points')
        <5>1. j + k \in 1 .. Len(points) /\ points'[j] = points[j + k]
          BY <1>21, <4>2
        <5> QED
          BY <3>3, <5>1 DEF AllOf
      <4> QED
        BY <1>20, <4>1, <4>2
    <3> QED
      BY <3>1, <3>5
  <2> QED
    BY <2>1, <2>2
<1> QED
  BY <1>23, <1>24, <1>25, <1>26, <1>28, <1>29 DEF ClockInv

LEMMA ClockStep == ClockInv /\ [ClockNext]_clockVars => ClockInv'
<1> SUFFICES ASSUME ClockInv, [ClockNext]_clockVars PROVE ClockInv'
  OBVIOUS
<1>1. CASE Arrive
  BY <1>1, ArriveKeeps
<1>2. CASE Reconnect
  BY <1>2, ReconnectKeeps
<1>3. CASE Observe
  BY <1>3, ObserveKeeps
<1>4. CASE UNCHANGED clockVars
  BY <1>4 DEF clockVars, ClockInv, ClockTypes, SamplesInOrder, PointsInOrder, PointsCameFirst,
              RequestIsAnswered, AllOf, FitIsOfOneConnection
<1> QED
  BY <1>1, <1>2, <1>3, <1>4 DEF ClockNext

\* The dates of a fit grow, whatever the delays and the samples that are lost,
\* and it is of samples of one connection unless one of an old connection took
\* the request to reset (CaptureClock.cpp, observe and fit).
THEOREM DatesGrow == ClockSpec => [](EstimatesGrow /\ FitIsOfOneConnection)
<1>1. ClockInv => EstimatesGrow /\ FitIsOfOneConnection
  <2> SUFFICES ASSUME ClockInv PROVE EstimatesGrow /\ FitIsOfOneConnection
    OBVIOUS
  <2>1. points \in Seq(Points) /\ PointsInOrder(points, lastEstimate) /\ FitIsOfOneConnection
    BY DEF ClockInv, ClockTypes
  <2>2. Len(points) \in Nat
    BY <2>1, LenProperties
  <2>3. ASSUME NEW i \in 1 .. Len(points) - 1
        PROVE  points[i].estimate < points[i + 1].estimate
    <3>1. i \in 1 .. Len(points) /\ i + 1 \in 1 .. Len(points) /\ i < i + 1
      BY <2>2
    <3> QED
      BY <2>1, <3>1 DEF PointsInOrder
  <2> QED
    BY <2>1, <2>3 DEF EstimatesGrow
<1> QED
  BY <1>1, ClockInitial, ClockStep, PTL DEF ClockSpec
==============================================================================
