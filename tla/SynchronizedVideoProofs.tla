---------------------- MODULE SynchronizedVideoProofs -----------------------
(* Proofs about SynchronizedVideo and its file readers, for every number of *)
(* cameras and batches, every files, pools and capacity of the channel.     *)
EXTENDS SynchronizedVideo, DataTheorems

\* The cameras are gone through one by one, from the first to the last.
LEMMA CamerasInOrder ==
    /\ Cameras \subseteq Nat
    /\ FirstCamera \in Cameras /\ \A c \in Cameras : FirstCamera <= c
    /\ LastCamera \in Cameras /\ \A c \in Cameras : c <= LastCamera
    /\ \A c \in Cameras : c # LastCamera => c + 1 \in Cameras
<1> DEFINE n == Cardinality(Cameras)
<1>1. n \in Nat /\ Cameras = 1 .. n /\ Cameras # {}
  BY CamerasAssumption, FS_CardinalityType
<1> HIDE DEF n
<1>2. 1 \in Cameras /\ n \in Cameras
  BY <1>1
<1>3. /\ \A c \in Cameras : 1 <= c /\ n >= c
      /\ \A c, d \in Cameras : c <= d /\ d <= c => c = d
      /\ \A c, d \in Cameras : c >= d /\ d >= c => c = d
  BY <1>1
<1>4. FirstCamera = 1
  BY <1>2, <1>3 DEF FirstCamera
<1>5. LastCamera = n
  BY <1>2, <1>3 DEF LastCamera
<1> QED
  BY <1>1, <1>2, <1>4, <1>5

-----------------------------------------------------------------------------
(* The readers.  What a reader has returned and what its decoder keeps are  *)
(* the video packets it has submitted, and it returns nothing only when     *)
(* these are all of the file.                                               *)

Frames == Nat \X Nat
Readers == [pass : Nat, next : Nat, inside : Seq(Nat), eof : BOOLEAN, flushed : BOOLEAN,
            last : Int, count : Nat]
FrameResults == [is : {"frame"}, time : Int, frame : Frames]
Results == FrameResults \cup {Pending, Nothing, Thrown}

FilesOK ==
    \A c \in Cameras : files[c].packets \in Seq(BOOLEAN \X (Nat \cup {Missing}))

ReadersTypeOK ==
    /\ reader \in [Cameras -> Readers]
    /\ result \in [Cameras -> Results]

Submitted(c) == {k \in VideoPackets(files[c]) : k < reader[c].next}

ReaderFits(c) ==
    /\ \A i \in 1 .. Len(reader[c].inside) : reader[c].inside[i] \in VideoPackets(files[c])
    /\ reader[c].count + Len(reader[c].inside) = Cardinality(Submitted(c))
    /\ reader[c].eof => Submitted(c) = VideoPackets(files[c])
    /\ reader[c].flushed => reader[c].eof
    /\ result[c] = Nothing => Drained(reader[c])

LEMMA VideoPacketsFinite ==
    ASSUME FilesOK, NEW c \in Cameras
    PROVE  /\ VideoPackets(files[c]) \subseteq 1 .. Len(files[c].packets)
           /\ Len(files[c].packets) \in Nat
           /\ IsFiniteSet(VideoPackets(files[c]))
           /\ \A k \in VideoPackets(files[c]) : files[c].packets[k][2] \in Int
<1> DEFINE q == files[c].packets
<1>1. q \in Seq(BOOLEAN \X (Nat \cup {Missing}))
  BY DEF FilesOK
<1> HIDE DEF q
<1>2. Len(q) \in Nat /\ DOMAIN q = 1 .. Len(q)
  BY <1>1, LenProperties
<1>3. VideoPackets(files[c]) \subseteq 1 .. Len(q)
  BY <1>2 DEF VideoPackets, q
<1>4. IsFiniteSet(1 .. Len(q))
  BY <1>2, FS_Interval
<1>5. IsFiniteSet(VideoPackets(files[c]))
  BY <1>3, <1>4, FS_Subset
<1>6. ASSUME NEW k \in 1 .. Len(q)
      PROVE  q[k][2] \in Int
  <2>1. q[k] \in BOOLEAN \X (Nat \cup {Missing})
    BY <1>1, <1>6, ElementOfSeq
  <2> QED
    BY <2>1 DEF Missing
<1> QED
  BY <1>2, <1>3, <1>5, <1>6 DEF q

\* A fresh reader has returned nothing.
LEMMA OpenedFits ==
    ASSUME FilesOK, NEW pass \in Nat
    PROVE  /\ Opened(pass) \in Readers
           /\ Opened(pass).pass = pass /\ Opened(pass).count = 0
           /\ Opened(pass).inside = << >> /\ Opened(pass).next = 1
           /\ ~Opened(pass).eof /\ ~Opened(pass).flushed
<1>1. << >> \in Seq(Nat) /\ 1 \in Nat /\ 0 \in Int /\ 0 \in Nat
  BY EmptySeq
<1> QED
  BY <1>1 DEF Opened, Readers

LEMMA FreshReaderFits ==
    ASSUME FilesOK, NEW c \in Cameras, NEW pass \in Nat,
           files' = files, reader'[c] = Opened(pass), result'[c] = Pending
    PROVE  ReaderFits(c)'
<1>1. Submitted(c)' = {}
  BY OpenedFits, VideoPacketsFinite DEF Submitted
<1>2. Cardinality({}) = 0 /\ Len(<< >>) = 0
  BY FS_EmptySet, EmptySeq
<1> QED
  BY <1>1, <1>2, OpenedFits DEF ReaderFits, Pending, Nothing

\* The packet that is submitted is the next one of the video stream.
LEMMA SubmissionFits ==
    ASSUME FilesOK, ReadersTypeOK, NEW c \in Cameras, ReaderFits(c), files' = files,
           result[c] = Pending, Submit(c)
    PROVE  /\ reader'[c] \in Readers /\ ReaderFits(c)'
           /\ reader' = [reader EXCEPT ![c] = reader'[c]] /\ result' = result
           /\ reader'[c].pass = reader[c].pass /\ reader'[c].count = reader[c].count
<1> DEFINE r == reader[c]
           all == VideoPackets(files[c])
           ahead == {k \in all : k >= r.next}
<1>1. r \in Readers /\ result' = result
  BY DEF ReadersTypeOK, Submit
<1>2. all \subseteq Nat /\ IsFiniteSet(all) /\ (\A k \in all : k <= Len(files[c].packets))
      /\ Len(files[c].packets) \in Nat
  BY VideoPacketsFinite
<1>3. CASE ahead = {}
  <2> DEFINE s == [r EXCEPT !.next = Len(files[c].packets) + 1, !.eof = TRUE]
  <2>1. reader' = [reader EXCEPT ![c] = s]
    BY <1>3 DEF Submit
  <2>2. /\ s \in Readers /\ s.pass = r.pass /\ s.count = r.count /\ s.inside = r.inside
        /\ s.next = Len(files[c].packets) + 1 /\ s.flushed = r.flushed /\ s.eof
    <3>1. Len(files[c].packets) + 1 \in Nat
      BY <1>2
    <3> QED
      BY <1>1, <3>1 DEF Readers
  <2> HIDE DEF s
  <2>3. reader'[c] = s
    BY <2>1 DEF ReadersTypeOK
  <2>4. Submitted(c)' = all
    BY <1>2, <2>2, <2>3 DEF Submitted
  <2>5. Submitted(c) = all
    BY <1>1, <1>2, <1>3 DEF Submitted, Readers
  <2>6. ReaderFits(c)'
    BY <1>1, <2>2, <2>3, <2>4, <2>5 DEF ReaderFits, Pending, Nothing
  <2> QED
    BY <1>1, <2>1, <2>2, <2>3, <2>6
<1>4. CASE ahead # {}
  <2> DEFINE packet == CHOOSE k \in ahead : \A l \in ahead : k <= l
             s == [r EXCEPT !.next = packet + 1, !.inside = Append(@, packet)]
  <2>1. packet \in ahead /\ \A l \in ahead : packet <= l
    <3>1. \E k \in ahead : \A l \in ahead : k <= l
      BY <1>2, <1>4, LeastExists
    <3> QED
      BY <3>1
  <2>2. reader' = [reader EXCEPT ![c] = s]
    BY <1>4 DEF Submit
  <2>3. r.inside \in Seq(Nat) /\ packet \in Nat /\ r.next \in Nat
    BY <1>1, <1>2, <2>1 DEF Readers
  <2> HIDE DEF packet
  <2>4. /\ Append(r.inside, packet) \in Seq(Nat)
        /\ Len(r.inside) \in Nat /\ Len(Append(r.inside, packet)) = Len(r.inside) + 1
        /\ \A i \in 1 .. Len(r.inside) : Append(r.inside, packet)[i] = r.inside[i]
        /\ Append(r.inside, packet)[Len(r.inside) + 1] = packet
    BY <2>3, Appended
  <2>5. /\ s \in Readers /\ s.pass = r.pass /\ s.count = r.count
        /\ s.inside = Append(r.inside, packet)
        /\ s.next = packet + 1 /\ s.flushed = r.flushed /\ s.eof = r.eof
    <3>1. packet + 1 \in Nat
      BY <2>3
    <3> QED
      BY <1>1, <2>4, <3>1 DEF Readers
  <2> HIDE DEF s
  <2>6. reader'[c] = s
    BY <2>2 DEF ReadersTypeOK
  <2>7. Submitted(c)' = Submitted(c) \cup {packet} /\ packet \notin Submitted(c)
    <3>1. packet \in all /\ packet >= r.next
      BY <2>1
    <3>2. \A k \in all : k < packet + 1 <=> k < r.next \/ k = packet
      BY <1>2, <2>1, <2>3
    <3>3. Submitted(c)' = {k \in all : k < packet + 1}
      BY <2>5, <2>6 DEF Submitted
    <3>4. Submitted(c) = {k \in all : k < r.next} /\ ~(packet < r.next)
      BY <2>3, <3>1 DEF Submitted
    <3> QED
      BY <3>1, <3>2, <3>3, <3>4
  <2>8. IsFiniteSet(Submitted(c))
    BY <1>2, FS_Subset DEF Submitted
  <2>9. Cardinality(Submitted(c)') = Cardinality(Submitted(c)) + 1
    BY <2>7, <2>8, FS_AddElement
  <2>10. ~r.eof
    BY DEF Submit
  <2>11. r.count \in Nat /\ Cardinality(Submitted(c)) \in Nat
    BY <1>1, <2>8, FS_CardinalityType DEF Readers
  <2>12. \A i \in 1 .. Len(s.inside) : s.inside[i] \in all
    <3> SUFFICES ASSUME NEW i \in 1 .. Len(r.inside) + 1
                 PROVE  s.inside[i] \in all
      BY <2>4, <2>5
    <3>1. i \in 1 .. Len(r.inside) \/ i = Len(r.inside) + 1
      BY <2>4
    <3> QED
      BY <2>1, <2>4, <2>5, <3>1 DEF ReaderFits
  <2>13. s.count + Len(s.inside) = Cardinality(Submitted(c)')
    <3>1. PICK n, k, l \in Nat :
             n = r.count /\ k = Cardinality(Submitted(c)) /\ l = Len(r.inside)
      BY <2>4, <2>11
    <3>2. n + l = k /\ s.count = n /\ Len(s.inside) = l + 1 /\ Cardinality(Submitted(c)') = k + 1
      BY <2>4, <2>5, <2>9, <3>1 DEF ReaderFits
    <3>3. n + (l + 1) = k + 1
      BY <3>2
    <3> QED
      BY <3>2, <3>3, Zenon
  <2>14. ReaderFits(c)'
    <3>1. ~s.eof /\ ~s.flushed
      BY <2>5, <2>10 DEF ReaderFits
    <3>2. result'[c] # Nothing
      BY <1>1 DEF Pending, Nothing
    <3>3. VideoPackets(files[c])' = all /\ reader'[c] = s
      BY <2>6
    <3> HIDE DEF r, all, ahead
    <3> QED
      BY <2>12, <2>13, <3>1, <3>2, <3>3 DEF ReaderFits
  <2> QED
    BY <1>1, <2>2, <2>5, <2>6, <2>14
<1> QED
  BY <1>3, <1>4


LEMMA FrameFits ==
    ASSUME FilesOK, ReadersTypeOK, NEW c \in Cameras, ReaderFits(c), files' = files,
           ReceiveFrame(c)
    PROVE  /\ ReaderFits(c)'
           /\ reader' = [reader EXCEPT ![c] = reader'[c]]
           /\ result' = [result EXCEPT ![c] = result'[c]]
           /\ \/ result'[c] = Thrown /\ reader' = reader
              \/ /\ result'[c] \in FrameResults /\ reader'[c] \in Readers
                 /\ reader'[c].pass = reader[c].pass
                 /\ reader'[c].count = reader[c].count + 1
                 /\ result'[c].frame = <<reader'[c].pass, reader'[c].count>>
<1> DEFINE r == reader[c]
           packet == Head(r.inside)
           time == PresentationTime(r, files[c].packets[packet][2])
           got == [is |-> "frame", time |-> time, frame |-> <<r.pass, r.count + 1>>]
           s == [r EXCEPT !.inside = Tail(@), !.last = time, !.count = @ + 1]
<1>1. r \in Readers /\ r.inside # << >>
  BY DEF ReadersTypeOK, ReceiveFrame, CanReceive
<1>2. r.inside \in Seq(Nat) /\ r.count \in Nat /\ r.pass \in Nat /\ r.last \in Int
  BY <1>1 DEF Readers
<1>3. CASE packet = files[c].broken \/ ~Convertible(files[c])
  <2>1. result' = [result EXCEPT ![c] = Thrown] /\ reader' = reader
    BY <1>3 DEF ReceiveFrame
  <2>2. result'[c] = Thrown
    BY <2>1 DEF ReadersTypeOK
  <2>3. ReaderFits(c)'
    BY <2>1, <2>2 DEF ReaderFits, Submitted, Thrown, Nothing
  <2>4. reader = [reader EXCEPT ![c] = reader[c]]
    BY DEF ReadersTypeOK
  <2> QED
    BY <2>1, <2>2, <2>3, <2>4
<1>4. CASE ~(packet = files[c].broken \/ ~Convertible(files[c]))
  <2>1. result' = [result EXCEPT ![c] = got] /\ reader' = [reader EXCEPT ![c] = s]
    BY <1>4 DEF ReceiveFrame
  <2>2. /\ Len(r.inside) \in Nat \ {0}
        /\ Tail(r.inside) \in Seq(Nat) /\ Len(Tail(r.inside)) = Len(r.inside) - 1
        /\ \A i \in 1 .. Len(Tail(r.inside)) : Tail(r.inside)[i] = r.inside[i + 1]
        /\ packet = r.inside[1]
    BY <1>1, <1>2, Popped
  <2>3. packet \in VideoPackets(files[c])
    BY <2>2 DEF ReaderFits
  <2>4. time \in Int
    <3>1. files[c].packets[packet][2] \in Int
      BY <2>3, VideoPacketsFinite
    <3>2. Interval \in Int
      BY IntervalAssumption
    <3> HIDE DEF packet
    <3> QED
      BY <1>2, <3>1, <3>2 DEF PresentationTime
  <2> HIDE DEF time
  <2>5. r.count + 1 \in Nat
    BY <1>2
  <2>6. got \in FrameResults /\ got.frame = <<r.pass, r.count + 1>> /\ got.is = "frame"
    BY <1>2, <2>4, <2>5 DEF FrameResults, Frames
  <2>7. /\ s \in Readers /\ s.pass = r.pass /\ s.count = r.count + 1
        /\ s.inside = Tail(r.inside) /\ s.next = r.next
        /\ s.flushed = r.flushed /\ s.eof = r.eof
    BY <1>1, <2>2, <2>4, <2>5 DEF Readers
  <2> HIDE DEF got, s
  <2>8. reader'[c] = s /\ result'[c] = got
    BY <2>1 DEF ReadersTypeOK
  <2>9. \A i \in 1 .. Len(s.inside) : s.inside[i] \in VideoPackets(files[c])
    <3> SUFFICES ASSUME NEW i \in 1 .. Len(r.inside) - 1
                 PROVE  r.inside[i + 1] \in VideoPackets(files[c])
      BY <2>2, <2>7
    <3>1. i + 1 \in 1 .. Len(r.inside)
      BY <2>2
    <3> QED
      BY <3>1 DEF ReaderFits
  <2>10. s.count + Len(s.inside) = r.count + Len(r.inside)
    BY <1>2, <2>2, <2>7
  <2>11. Submitted(c)' = Submitted(c)
    BY <2>7, <2>8 DEF Submitted
  <2>12. got # Nothing
    BY <2>6 DEF Nothing
  <2>13. ReaderFits(c)'
    BY <2>7, <2>8, <2>9, <2>10, <2>11, <2>12 DEF ReaderFits
  <2> QED
    BY <2>1, <2>6, <2>7, <2>8, <2>13
<1> QED
  BY <1>3, <1>4

\* One turn of read_next(): a frame, an exception, the end, or not yet.
LEMMA ReadEffect ==
    ASSUME FilesOK, ReadersTypeOK, NEW c \in Cameras, ReaderFits(c), files' = files,
           ReadNext(c)
    PROVE  /\ ReaderFits(c)'
           /\ result[c] = Pending
           /\ reader' = [reader EXCEPT ![c] = reader'[c]]
           /\ result' = [result EXCEPT ![c] = result'[c]]
           /\ reader'[c] \in Readers /\ reader'[c].pass = reader[c].pass
           /\ \/ /\ result'[c] \in {Pending, Nothing, Thrown}
                 /\ reader'[c].count = reader[c].count
              \/ /\ result'[c] \in FrameResults
                 /\ reader'[c].count = reader[c].count + 1
                 /\ result'[c].frame = <<reader'[c].pass, reader'[c].count>>
<1>1. result[c] = Pending /\ reader[c] \in Readers
      /\ reader = [reader EXCEPT ![c] = reader[c]]
      /\ result = [result EXCEPT ![c] = result[c]]
  BY DEF ReadNext, ReadersTypeOK
<1>2. CASE ReceiveFrame(c)
  BY <1>1, <1>2, FrameFits
<1>3. CASE ReadNothing(c)
  <2>1. reader' = reader /\ result' = [result EXCEPT ![c] = Nothing] /\ Drained(reader[c])
    BY <1>3 DEF ReadNothing
  <2>2. result'[c] = Nothing
    BY <2>1 DEF ReadersTypeOK
  <2>3. ReaderFits(c)'
    BY <2>1, <2>2 DEF ReaderFits, Submitted
  <2> QED
    BY <1>1, <2>1, <2>2, <2>3
<1>4. CASE Flush(c)
  <2> DEFINE s == [reader[c] EXCEPT !.flushed = TRUE]
  <2>1. reader' = [reader EXCEPT ![c] = s] /\ result' = result /\ reader[c].eof
    BY <1>4 DEF Flush
  <2>2. /\ s \in Readers /\ s.pass = reader[c].pass /\ s.count = reader[c].count
        /\ s.inside = reader[c].inside /\ s.next = reader[c].next /\ s.eof = reader[c].eof
    BY <1>1 DEF Readers
  <2> HIDE DEF s
  <2>3. reader'[c] = s
    BY <2>1 DEF ReadersTypeOK
  <2>4. Submitted(c)' = Submitted(c)
    BY <2>2, <2>3 DEF Submitted
  <2>5. result'[c] # Nothing
    BY <1>1, <2>1 DEF Pending, Nothing
  <2>6. reader'[c].flushed => reader'[c].eof
    <3>1. reader'[c].eof
      BY <2>1, <2>2, <2>3
    <3> QED
      BY <3>1
  <2>7. reader'[c].eof => Submitted(c)' = VideoPackets(files[c])
    BY <2>1, <2>4 DEF ReaderFits
  <2>8. ReaderFits(c)'
    BY <2>2, <2>3, <2>4, <2>5, <2>6, <2>7 DEF ReaderFits
  <2> QED
    BY <1>1, <2>1, <2>2, <2>3, <2>8
<1>5. CASE Submit(c)
  BY <1>1, <1>5, SubmissionFits
<1> QED
  BY <1>2, <1>3, <1>4, <1>5 DEF ReadNext

-----------------------------------------------------------------------------
(* The inductive invariant.                                                 *)

Batches == [index : Nat, time : Int, slot : [Cameras -> 1 .. setup.pool],
            frame : [Cameras -> Frames]]
SentBatches == [time : Int, frame : [Cameras -> Frames]]

Fixed == setup \in Setups /\ files = setup.files

Flags == stopRequested \in BOOLEAN /\ healthy \in BOOLEAN /\ closed \in BOOLEAN

Places ==
    /\ vpc \in {"acquire", "acquireTurned", "read", "decoded", "built", "send", "failed", "done"}
    /\ camera \in Cameras
    /\ raw \in [Cameras -> Slots] /\ turned \in [Cameras -> Slots]
    /\ batchIndex \in Nat /\ previousTime \in Int
    /\ memory \in [Kinds -> [Cameras -> [1 .. setup.pool -> Frames \cup {<< >>}]]]

Holders ==
    /\ batch \in Batches \cup {None} /\ channel \in Seq(Batches)
    /\ staged \in Batches \cup {None} /\ latest \in Batches \cup {None}
    /\ observed \in Batches \cup {None} /\ calibrating \in Batches \cup {None}

Counts == Len(channel) <= ChannelCapacity /\ batchIndex = Len(sent) /\ sent \in Seq(SentBatches)

\* The buffers of the cameras are leased one after the other, and kept until
\* the batch is sent.
Has(c) == raw[c] # 0 /\ (c \in setup.rotated => turned[c] # 0)
BuffersAreHeld ==
    /\ vpc = "acquire" => \A c \in Cameras : c < camera => Has(c)
    /\ vpc = "acquireTurned" => raw[camera] # 0 /\ \A c \in Cameras : c < camera => Has(c)
    /\ vpc \in {"read", "decoded", "built", "send"} => \A c \in Cameras : Has(c)
    /\ vpc \in {"built", "send"} => batch # None

\* Until the batch is built nobody else refers to the slots it will have.
Preparing == {"acquire", "acquireTurned", "read", "decoded"}
Mine(c) == IF c \in setup.rotated THEN turned[c] ELSE raw[c]
SlotsAreMine ==
    vpc \in Preparing =>
        batch = None /\ \A c \in Cameras : \A p \in Packets : p.slot[c] # Mine(c)

\* The cameras are read one after the other, and a frame that was converted on
\* the GPU is in the slot of its camera.
Read(c) == result[c] = Nothing \/ result[c] \in FrameResults
ReadInOrder ==
    /\ vpc \in {"acquire", "acquireTurned"} => \A c \in Cameras : result[c] = Pending
    /\ vpc = "read" => \A c \in Cameras : IF c < camera THEN Read(c) ELSE result[c] = Pending
    /\ vpc = "decoded" => \A c \in Cameras : Read(c)
    /\ vpc \in {"built", "send"} =>
         \A c \in Cameras : result[c] \in FrameResults /\ batch.frame[c] = result[c].frame
DecodedIsThere ==
    vpc \in {"read", "decoded"} =>
        \A c \in Cameras : result[c] \in FrameResults /\ OnGpu(files[c]) =>
            memory["raw"][c][raw[c]] = result[c].frame

\* The time of the batch that is built is later than the one of the last that
\* was sent.
LastTime == sent[Len(sent)].time
TimesGoOn ==
    /\ vpc \in Preparing /\ sent # << >> => LastTime = previousTime
    /\ vpc \in {"built", "send"} =>
         batch.time = previousTime /\ (sent # << >> => LastTime < previousTime)

\* All readers are at the same frame of the same pass, but for the ones that
\* have been read in this round.
Round(c) == IF result[c] \in FrameResults THEN reader[c].count - 1 ELSE reader[c].count
Lockstep ==
    /\ \A c, d \in Cameras : reader[c].pass = reader[d].pass
    /\ \A c, d \in Cameras : Round(c) = Round(d)
    /\ \A c \in Cameras : result[c] \in FrameResults =>
         result[c].frame = <<reader[c].pass, reader[c].count>>
FirstPass ==
    ~setup.loop =>
      /\ \A c \in Cameras : reader[c].pass = 1 /\ Round(c) = Len(sent)
      /\ \A k \in 1 .. Len(sent) : \A c \in Cameras : sent[k].frame[c] = <<1, k>>
SentTogether ==
    \A k \in 1 .. Len(sent) : \A c, d \in Cameras : sent[k].frame[c] = sent[k].frame[d]
ReadersFit == \A c \in Cameras : ReaderFits(c)

\* A run that ends well without having been stopped has read all the files.
Reasons ==
    /\ closed => vpc = "done" \/ stopRequested
    /\ vpc = "done" /\ healthy /\ ~stopRequested =>
         ~setup.loop /\ \A c \in Cameras : result[c] = Nothing

Types == Fixed /\ Flags /\ Places /\ Holders /\ Counts /\ ReadersTypeOK
Inv == /\ Types
       /\ BuffersAreHeld /\ SlotsAreMine /\ HeldFramesAreIntact
       /\ ReadInOrder /\ DecodedIsThere
       /\ TimesIncrease /\ TimesGoOn
       /\ ReadersFit /\ Lockstep /\ FirstPass /\ SentTogether
       /\ Reasons

-----------------------------------------------------------------------------
(* The kinds of steps.                                                      *)

Finished == ~setup.loop /\ \A c \in Cameras : result[c] = Nothing

\* run() ends, well only if it was stopped or has read all the files.
Ends ==
    /\ vpc' = "done" /\ batch' = None /\ closed' = TRUE
    /\ raw' = [c \in Cameras |-> 0] /\ turned' = [c \in Cameras |-> 0]
    /\ healthy' \in BOOLEAN /\ (healthy' /\ ~stopRequested => Finished)
    /\ UNCHANGED <<files, readerVars, setup, stopRequested, channel, holderVars, sent,
                   camera, batchIndex, previousTime, memory>>

\* Another pass over the files.
Restart ==
    /\ vpc = "decoded" /\ setup.loop
    /\ reader' = [c \in Cameras |-> Opened(reader[c].pass + 1)]
    /\ result' = [c \in Cameras |-> Pending]
    /\ NextTurn
    /\ UNCHANGED <<files, setup, batchIndex, previousTime, healthy, memory, closed,
                   stopRequested, channel, holderVars, sent>>

SendBatch ==
    /\ vpc = "send" /\ ~closed /\ Len(channel) < ChannelCapacity
    /\ channel' = Append(channel, batch)
    /\ sent' = Append(sent, [time |-> batch.time, frame |-> batch.frame])
    /\ batchIndex' = batchIndex + 1
    /\ result' = [c \in Cameras |-> Pending]
    /\ NextTurn
    /\ UNCHANGED <<files, reader, setup, previousTime, healthy, memory, closed,
                   stopRequested, holderVars>>

\* A step of the others, which can only let go of packets.
Elsewhere ==
    /\ UNCHANGED otherVars
    /\ Packets' \subseteq Packets
    /\ channel' \in Seq(Batches) /\ Len(channel') <= Len(channel)
    /\ staged' \in Batches \cup {None} /\ latest' \in Batches \cup {None}
    /\ observed' \in Batches \cup {None} /\ calibrating' \in Batches \cup {None}
    /\ stopRequested' \in BOOLEAN /\ closed' \in BOOLEAN
    /\ stopRequested => stopRequested'
    /\ closed' => closed \/ stopRequested'

LEMMA SetupFits ==
    ASSUME Fixed
    PROVE  /\ setup.pool \in Nat \ {0} /\ setup.rotated \subseteq Cameras
           /\ setup.loop \in BOOLEAN /\ FilesOK
BY SetupsAssumption DEF Fixed, FilesOK

LEMMA NoneIsNoBatch == None \notin Batches
BY DEF None, Batches

\* Who refers to a packet.
LEMMA PacketsHeld ==
    ASSUME Holders
    PROVE  /\ \A p : p \in Packets <=>
                /\ p # None
                /\ \/ p \in {batch, staged, latest, observed, calibrating}
                   \/ \E k \in 1 .. Len(channel) : p = channel[k]
           /\ \A p \in Packets : p \in Batches
           /\ Len(channel) \in Nat
<1>1. DOMAIN channel = 1 .. Len(channel) /\ Len(channel) \in Nat
      /\ \A k \in 1 .. Len(channel) : channel[k] \in Batches
  BY ElementOfSeq, LenProperties DEF Holders
<1> QED
  BY <1>1 DEF Packets, Holders

\* A batch has a slot of the pool and a frame for each camera.
LEMMA BatchFields ==
    ASSUME NEW p \in Batches, NEW c \in Cameras, setup.pool \in Nat
    PROVE  p.slot[c] \in 1 .. setup.pool /\ p.slot[c] # 0 /\ p.frame[c] \in Frames
<1>1. p.slot \in [Cameras -> 1 .. setup.pool] /\ p.frame \in [Cameras -> Frames]
  BY DEF Batches
<1>2. p.slot[c] \in 1 .. setup.pool
  BY <1>1
<1> QED
  BY <1>1, <1>2

LEMMA StillStep ==
    ASSUME Types, UNCHANGED otherVars, UNCHANGED <<channel, staged, latest, observed, calibrating>>,
           stopRequested' \in BOOLEAN, closed' \in BOOLEAN,
           stopRequested => stopRequested', closed' => closed \/ stopRequested'
    PROVE  Elsewhere
<1>1. Packets' = Packets
  BY DEF Packets, otherVars, workerVars
<1>2. Len(channel) \in Nat
  BY LenProperties DEF Types, Holders
<1> QED
  BY <1>1, <1>2 DEF Elsewhere, Types, Holders

LEMMA TapLetsGo ==
    ASSUME Types, Tap
    PROVE  Elsewhere
<1>1. /\ channel \in Seq(Batches) /\ channel # << >> /\ channel' = Tail(channel)
      /\ staged' = Head(channel) /\ observed' = Head(channel)
      /\ latest' = latest /\ calibrating' = calibrating /\ batch' = batch
  BY DEF Types, Holders, Tap, otherVars, workerVars
<1>2. /\ Len(channel) \in Nat \ {0}
      /\ Head(channel) = channel[1] /\ Head(channel) \in Batches
      /\ Tail(channel) \in Seq(Batches)
      /\ Len(Tail(channel)) = Len(channel) - 1
      /\ \A i \in 1 .. Len(Tail(channel)) : Tail(channel)[i] = channel[i + 1]
  BY <1>1, Popped
<1>3. Packets' \subseteq Packets
  <2>1. DOMAIN channel' = 1 .. Len(channel') /\ DOMAIN channel = 1 .. Len(channel)
    BY <1>1, <1>2, LenProperties
  <2>2. ASSUME NEW k \in DOMAIN channel'
        PROVE  \E l \in DOMAIN channel : channel'[k] = channel[l]
    <3>1. k + 1 \in DOMAIN channel /\ channel'[k] = channel[k + 1]
      BY <1>1, <1>2, <2>1
    <3> QED
      BY <3>1
  <2>3. 1 \in DOMAIN channel /\ staged' = channel[1] /\ observed' = channel[1]
    BY <1>1, <1>2, <2>1
  <2> QED
    BY <1>1, <2>2, <2>3 DEF Packets
<1>4. UNCHANGED otherVars /\ stopRequested' = stopRequested /\ closed' = closed
  BY DEF Tap
<1>5. Len(channel') <= Len(channel)
  BY <1>1, <1>2
<1>6. /\ staged' \in Batches \cup {None} /\ latest' \in Batches \cup {None}
      /\ observed' \in Batches \cup {None} /\ calibrating' \in Batches \cup {None}
  BY <1>1, <1>2 DEF Types, Holders
<1> QED
  BY <1>1, <1>2, <1>3, <1>4, <1>5, <1>6 DEF Elsewhere, Types, Flags

LEMMA PublishLetsGo ==
    ASSUME Types, Publish
    PROVE  Elsewhere
<1>1. Packets' \subseteq Packets
  BY DEF Publish, Packets, otherVars, workerVars
<1>2. Len(channel) \in Nat
  BY LenProperties DEF Types, Holders
<1> QED
  BY <1>1, <1>2 DEF Elsewhere, Publish, Types, Flags, Holders

LEMMA CalibrateLetsGo ==
    ASSUME Types, Calibrate \/ CalibrationEnds
    PROVE  Elsewhere
<1>1. Packets' \subseteq Packets
  BY DEF Calibrate, CalibrationEnds, Packets, otherVars, workerVars
<1>2. Len(channel) \in Nat
  BY LenProperties DEF Types, Holders
<1> QED
  BY <1>1, <1>2 DEF Elsewhere, Calibrate, CalibrationEnds, Types, Flags, Holders

\* However run() ends, it says so when a file was cut.
LEMMA EndsForAReason ==
    ASSUME Types, Reasons, NEW ok \in BOOLEAN, End(ok), ok /\ ~stopRequested => Finished,
           UNCHANGED <<files, readerVars, setup, stopRequested, channel, holderVars, sent>>
    PROVE  Ends
<1>1. healthy' = ok
  BY DEF End
<1>2. healthy' \in BOOLEAN /\ (healthy' /\ ~stopRequested => Finished)
  BY <1>1
<1> QED
  BY <1>2 DEF End, Ends

LEMMA StepKinds ==
    ASSUME Inv, [Next]_vars
    PROVE  \/ Ends \/ Restart \/ SendBatch \/ Elsewhere
           \/ Acquire \/ AcquireTurned \/ Decode \/ Build \/ PassStopCheck
<1>1. Types /\ Reasons /\ healthy \in BOOLEAN /\ closed \in BOOLEAN /\ stopRequested \in BOOLEAN
  BY DEF Inv, Types, Flags
<1>2. setup.loop \in BOOLEAN
  BY <1>1, SetupFits DEF Types
<1>3. CASE SeeStop
  <2>1. stopRequested /\ End(healthy)
    BY <1>3 DEF SeeStop
  <2>2. UNCHANGED <<files, readerVars, setup, stopRequested, channel, holderVars, sent>>
    BY <1>3 DEF SeeStop
  <2>3. healthy /\ ~stopRequested => Finished
    BY <2>1
  <2> QED
    BY <1>1, <2>1, <2>2, <2>3, EndsForAReason
<1>4. CASE Fail
  BY <1>1, <1>4, EndsForAReason DEF Fail
<1>5. CASE AllEnded
  <2>1. /\ vpc = "decoded" /\ Ended = Cameras
        /\ UNCHANGED <<files, setup, stopRequested, channel, holderVars, sent>>
    BY <1>5 DEF AllEnded
  <2>2. \A c \in Cameras : result[c] = Nothing
    BY <2>1 DEF Ended
  <2>3. CASE ~setup.loop
    <3>1. End(healthy) /\ UNCHANGED readerVars
      BY <1>5, <2>3 DEF AllEnded
    <3>2. healthy /\ ~stopRequested => Finished
      BY <2>2, <2>3 DEF Finished
    <3> QED
      BY <1>1, <2>1, <3>1, <3>2, EndsForAReason
  <2>4. CASE setup.loop /\ End(FALSE) /\ UNCHANGED readerVars
    BY <1>1, <2>1, <2>4, EndsForAReason
  <2>5. CASE setup.loop /\ ~(End(FALSE) /\ UNCHANGED readerVars)
    BY <1>5, <2>1, <2>5 DEF AllEnded, Restart
  <2> QED
    BY <1>2, <2>3, <2>4, <2>5
<1>6. CASE SomeEnded
  BY <1>1, <1>6, EndsForAReason DEF SomeEnded
<1>7. CASE Send
  <2>1. /\ vpc = "send" /\ UNCHANGED <<files, reader, setup, stopRequested, holderVars>>
    BY <1>7 DEF Send
  <2>2. CASE closed /\ End(healthy) /\ UNCHANGED <<channel, sent, result>>
    <3>1. stopRequested
      BY <1>1, <2>1, <2>2 DEF Reasons
    <3>2. healthy /\ ~stopRequested => Finished
      BY <3>1
    <3>3. UNCHANGED <<files, readerVars, setup, stopRequested, channel, holderVars, sent>>
      BY <2>1, <2>2 DEF readerVars
    <3> QED
      BY <1>1, <2>2, <3>2, <3>3, EndsForAReason
  <2>3. CASE ~(closed /\ End(healthy) /\ UNCHANGED <<channel, sent, result>>)
    BY <1>7, <2>1, <2>3 DEF Send, SendBatch
  <2> QED
    BY <2>2, <2>3
<1>8. CASE StopProducing
  <2>1. stopRequested' /\ UNCHANGED <<otherVars, channel, closed, holderVars>>
    BY <1>8 DEF StopProducing
  <2>2. stopRequested' \in BOOLEAN
    BY <1>8 DEF StopProducing
  <2>3. closed' = closed
    BY <2>1
  <2>4. closed' \in BOOLEAN /\ (closed' => closed \/ stopRequested')
    BY <1>1, <2>3
  <2> QED
    BY <1>1, <2>1, <2>2, <2>4, StillStep DEF holderVars
<1>9. CASE CloseOutput
  <2>1. /\ stopRequested /\ stopRequested' = stopRequested /\ closed' = TRUE
        /\ UNCHANGED <<otherVars, channel, holderVars>>
    BY <1>9 DEF CloseOutput
  <2>2. stopRequested' /\ stopRequested' \in BOOLEAN /\ closed' \in BOOLEAN
    BY <1>1, <2>1
  <2> QED
    BY <1>1, <2>1, <2>2, StillStep DEF holderVars
<1>10. CASE UNCHANGED vars
  <2>1. /\ UNCHANGED <<otherVars, channel, holderVars>>
        /\ stopRequested' = stopRequested /\ closed' = closed
    BY <1>10 DEF vars, otherVars
  <2>2. /\ stopRequested' \in BOOLEAN /\ closed' \in BOOLEAN
        /\ stopRequested => stopRequested'
        /\ closed' => closed \/ stopRequested'
    BY <1>1, <2>1
  <2> QED
    BY <1>1, <2>1, <2>2, StillStep DEF holderVars
<1> QED
  BY <1>1, <1>3, <1>4, <1>5, <1>6, <1>7, <1>8, <1>9, <1>10,
     TapLetsGo, PublishLetsGo, CalibrateLetsGo DEF Next, Worker

-----------------------------------------------------------------------------
(* What the steps of the worker do.                                         *)

\* A slot that is acquired was free.
LEMMA AcquiredIsFree ==
    ASSUME Fixed, NEW kind, NEW c, FreeSlots(kind, c) # {}
    PROVE  /\ Acquired(kind, c) \in 1 .. setup.pool
           /\ Acquired(kind, c) \notin Leased(kind, c)
<1>1. FreeSlots(kind, c) \in SUBSET Nat
  BY SetupFits DEF FreeSlots
<1>2. \E s \in FreeSlots(kind, c) : \A t \in FreeSlots(kind, c) : s <= t
  BY <1>1, LeastExists
<1>3. Acquired(kind, c) \in FreeSlots(kind, c)
  BY <1>2 DEF Acquired
<1> QED
  BY <1>3 DEF FreeSlots

LEMMA CameraMoves ==
    ASSUME camera \in Cameras, NEW place, NEW nextPlace, NextCamera(place, nextPlace)
    PROVE  /\ camera' \in Cameras
           /\ \/ vpc' = nextPlace /\ camera' = FirstCamera /\ \A c \in Cameras : c <= camera
              \/ vpc' = place /\ \A c \in Cameras : c < camera' <=> c <= camera
<1>1. CASE camera = LastCamera
  BY <1>1, CamerasInOrder DEF NextCamera
<1>2. CASE camera # LastCamera
  BY <1>2, CamerasInOrder DEF NextCamera
<1> QED
  BY <1>1, <1>2

DecodeOutcome ==
    \/ /\ vpc' = "failed" /\ result'[camera] = Thrown
       /\ camera' = camera /\ memory' = memory /\ reader'[camera].count = reader[camera].count
    \/ /\ vpc' = "read" /\ result'[camera] = Pending
       /\ camera' = camera /\ memory' = memory /\ reader'[camera].count = reader[camera].count
    \/ /\ NextCamera("read", "decoded") /\ result'[camera] = Nothing
       /\ memory' = memory /\ reader'[camera].count = reader[camera].count
    \/ /\ NextCamera("read", "decoded") /\ result'[camera] \in FrameResults
       /\ reader'[camera].count = reader[camera].count + 1
       /\ result'[camera].frame = <<reader'[camera].pass, reader'[camera].count>>
       /\ memory' = IF OnGpu(files[camera])
                      THEN [memory EXCEPT !["raw"][camera][raw[camera]] = result'[camera].frame]
                      ELSE memory

LEMMA DecodeEffect ==
    ASSUME Inv, Decode
    PROVE  /\ vpc = "read" /\ result[camera] = Pending
           /\ reader' = [reader EXCEPT ![camera] = reader'[camera]]
           /\ result' = [result EXCEPT ![camera] = result'[camera]]
           /\ reader'[camera] \in Readers /\ result'[camera] \in Results
           /\ reader'[camera].pass = reader[camera].pass
           /\ \A c \in Cameras : c = camera => ReaderFits(c)'
           /\ raw[camera] \in 1 .. setup.pool
           /\ DecodeOutcome
<1>1. camera \in Cameras /\ FilesOK /\ ReadersTypeOK /\ ReaderFits(camera) /\ setup.pool \in Nat
  BY SetupFits DEF Inv, Types, Places, ReadersFit
<1>2. vpc = "read" /\ files' = files /\ ReadNext(camera)
  BY DEF Decode
<1>3. raw[camera] \in 1 .. setup.pool
  <2>1. raw[camera] # 0 /\ raw[camera] \in 0 .. setup.pool
    BY <1>1, <1>2 DEF Inv, BuffersAreHeld, Has, Types, Places, Slots
  <2> QED
    BY <1>1, <2>1
<1>4. /\ \A c \in Cameras : c = camera => ReaderFits(c)'
      /\ result[camera] = Pending
      /\ reader' = [reader EXCEPT ![camera] = reader'[camera]]
      /\ result' = [result EXCEPT ![camera] = result'[camera]]
      /\ reader'[camera] \in Readers /\ reader'[camera].pass = reader[camera].pass
      /\ \/ /\ result'[camera] \in {Pending, Nothing, Thrown}
            /\ reader'[camera].count = reader[camera].count
         \/ /\ result'[camera] \in FrameResults
            /\ reader'[camera].count = reader[camera].count + 1
            /\ result'[camera].frame = <<reader'[camera].pass, reader'[camera].count>>
  <2>1. PICK c \in Cameras : c = camera
    BY <1>1
  <2>2. ReaderFits(c) /\ ReadNext(c)
    BY <1>1, <1>2, <2>1
  <2> QED
    BY <1>1, <1>2, <2>1, <2>2, ReadEffect
<1>5. CASE result'[camera] \in {Pending, Nothing, Thrown} /\ reader'[camera].count = reader[camera].count
  <2>1. result'[camera].is # "frame" /\ Pending # Nothing /\ Pending # Thrown /\ Nothing # Thrown
    BY <1>5 DEF Pending, Nothing, Thrown
  <2>2. memory' = memory
    BY <2>1 DEF Decode
  <2>3. DecodeOutcome
    BY <1>5, <2>1, <2>2 DEF Decode, DecodeOutcome
  <2> QED
    BY <1>2, <1>3, <1>4, <1>5, <2>3 DEF Results
<1>6. CASE /\ result'[camera] \in FrameResults
           /\ reader'[camera].count = reader[camera].count + 1
           /\ result'[camera].frame = <<reader'[camera].pass, reader'[camera].count>>
  <2>1. result'[camera].is = "frame"
    BY <1>6 DEF FrameResults
  <2>2. result'[camera] # Pending /\ result'[camera] # Thrown
    BY <2>1 DEF Pending, Thrown
  <2>3. NextCamera("read", "decoded")
    BY <2>2 DEF Decode
  <2>4. memory' = IF OnGpu(files[camera])
                    THEN [memory EXCEPT !["raw"][camera][raw[camera]] = result'[camera].frame]
                    ELSE memory
    BY <2>1 DEF Decode
  <2>5. DecodeOutcome
    BY <1>6, <2>3, <2>4 DEF DecodeOutcome
  <2> QED
    BY <1>2, <1>3, <1>4, <1>6, <2>5 DEF Results
<1> QED
  BY <1>4, <1>5, <1>6

\* The memory of the slot a frame was decoded to, and the rest of the memory.
LEMMA MemoryWritten ==
    ASSUME Types, NEW c \in Cameras, NEW s \in 1 .. setup.pool, NEW f \in Frames,
           memory' = [memory EXCEPT !["raw"][c][s] = f]
    PROVE  /\ memory' \in [Kinds -> [Cameras -> [1 .. setup.pool -> Frames \cup {<< >>}]]]
           /\ memory'["turned"] = memory["turned"]
           /\ \A d \in Cameras : d # c => memory'["raw"][d] = memory["raw"][d]
           /\ memory'["raw"][c][s] = f
           /\ \A t \in 1 .. setup.pool : t # s => memory'["raw"][c][t] = memory["raw"][c][t]
<1>1. memory \in [Kinds -> [Cameras -> [1 .. setup.pool -> Frames \cup {<< >>}]]]
  BY DEF Types, Places
<1>2. "raw" \in Kinds /\ "turned" \in Kinds /\ "raw" # "turned"
  BY DEF Kinds
<1>3. [memory["raw"][c] EXCEPT ![s] = f] \in [1 .. setup.pool -> Frames \cup {<< >>}]
  BY <1>1, <1>2
<1>4. [memory["raw"] EXCEPT ![c] = [memory["raw"][c] EXCEPT ![s] = f]]
        \in [Cameras -> [1 .. setup.pool -> Frames \cup {<< >>}]]
  BY <1>1, <1>2, <1>3
<1>5. memory' = [memory EXCEPT !["raw"] = [memory["raw"] EXCEPT ![c] = [memory["raw"][c] EXCEPT ![s] = f]]]
  OBVIOUS
<1>6. memory'["raw"] = [memory["raw"] EXCEPT ![c] = [memory["raw"][c] EXCEPT ![s] = f]]
  BY <1>1, <1>2, <1>5
<1>7. memory'["raw"][c] = [memory["raw"][c] EXCEPT ![s] = f]
  BY <1>1, <1>2, <1>6
<1> QED
  BY <1>1, <1>2, <1>4, <1>5, <1>6, <1>7

\* What Build writes: nothing but the slots of the new batch, and the first
\* buffers of the cameras that are mounted turned.
BuiltFrame(c) == IF Uploaded(c) THEN result[c].frame ELSE memory["raw"][c][raw[c]]

LEMMA BuildEffect ==
    ASSUME Inv, Build
    PROVE  /\ \A c \in Cameras : result[c] \in FrameResults /\ BuiltFrame(c) = result[c].frame
           /\ memory' \in [Kinds -> [Cameras -> [1 .. setup.pool -> Frames \cup {<< >>}]]]
           /\ batch' \in Batches /\ batch'.time = SourceTime
           /\ \A c \in Cameras :
                /\ batch'.slot[c] = Mine(c) /\ batch'.frame[c] = result[c].frame
                /\ Mine(c) \in 1 .. setup.pool
                /\ memory'[Kind(c)][c][Mine(c)] = result[c].frame
                /\ \A s \in 1 .. setup.pool :
                     s # Mine(c) => memory'[Kind(c)][c][s] = memory[Kind(c)][c][s]
           /\ SourceTime \in Int
<1>1. /\ setup.pool \in Nat \ {0} /\ FilesOK /\ ReadersTypeOK /\ setup.rotated \subseteq Cameras
      /\ memory \in [Kinds -> [Cameras -> [1 .. setup.pool -> Frames \cup {<< >>}]]]
      /\ raw \in [Cameras -> 0 .. setup.pool] /\ turned \in [Cameras -> 0 .. setup.pool]
      /\ previousTime \in Int /\ batchIndex \in Nat
  BY SetupFits DEF Inv, Types, Places, Slots
<1>2. vpc = "decoded" /\ Ended = {}
  BY DEF Build
<1>3. \A c \in Cameras : Read(c) /\ Has(c)
  BY <1>2 DEF Inv, ReadInOrder, BuffersAreHeld
<1>4. \A c \in Cameras : result[c] \in FrameResults
  BY <1>2, <1>3 DEF Read, Ended
<1>5. \A c \in Cameras : BuiltFrame(c) = result[c].frame
  BY <1>2, <1>4 DEF Inv, DecodedIsThere, BuiltFrame, Uploaded
<1>6. \A c \in Cameras : result[c].frame \in Frames /\ result[c].time \in Int
  BY <1>4 DEF FrameResults
<1>7. \A c \in Cameras : raw[c] \in 1 .. setup.pool /\ (c \in setup.rotated => turned[c] \in 1 .. setup.pool)
  <2> SUFFICES ASSUME NEW c \in Cameras
               PROVE  raw[c] \in 1 .. setup.pool /\ (c \in setup.rotated => turned[c] \in 1 .. setup.pool)
    OBVIOUS
  <2>1. raw[c] \in 0 .. setup.pool /\ turned[c] \in 0 .. setup.pool
    BY <1>1
  <2> QED
    BY <1>1, <1>3, <2>1 DEF Has
<1>8. SourceTime \in Int
  <2>1. Interval \in Int /\ FirstCamera \in Cameras
    BY IntervalAssumption, CamerasInOrder
  <2> QED
    BY <1>1, <1>6, <2>1 DEF SourceTime
<1> DEFINE space == [1 .. setup.pool -> Frames \cup {<< >>}]
           written(k, c) == IF k = "raw" THEN [memory[k][c] EXCEPT ![raw[c]] = BuiltFrame(c)]
                            ELSE IF c \in setup.rotated THEN [memory[k][c] EXCEPT ![turned[c]] = BuiltFrame(c)]
                            ELSE memory[k][c]
<1>9. memory' = [k \in Kinds |-> [c \in Cameras |-> written(k, c)]]
  BY DEF Build, BuiltFrame
<1>10. ASSUME NEW k \in Kinds, NEW c \in Cameras
       PROVE  written(k, c) \in space
  <2>1. memory[k][c] \in space /\ BuiltFrame(c) \in Frames
    BY <1>1, <1>5, <1>6
  <2> QED
    BY <2>1
<1>11. /\ "raw" \in Kinds /\ "turned" \in Kinds
       /\ \A c \in Cameras : Kind(c) \in Kinds /\ Mine(c) \in 1 .. setup.pool
  BY <1>7 DEF Kinds, Kind, Mine
<1>12. ASSUME NEW c \in Cameras
       PROVE  /\ memory'[Kind(c)][c][Mine(c)] = result[c].frame
              /\ \A s \in 1 .. setup.pool :
                   s # Mine(c) => memory'[Kind(c)][c][s] = memory[Kind(c)][c][s]
  <2>1. memory'[Kind(c)][c] = written(Kind(c), c)
    BY <1>9, <1>11
  <2>2. written(Kind(c), c) = [memory[Kind(c)][c] EXCEPT ![Mine(c)] = BuiltFrame(c)]
    BY DEF Kind, Mine
  <2>3. memory[Kind(c)][c] \in space
    BY <1>1, <1>11
  <2> HIDE DEF written
  <2> QED
    BY <1>5, <1>11, <2>1, <2>2, <2>3
<1>13. memory' \in [Kinds -> [Cameras -> space]]
  <2> HIDE DEF written, space
  <2> QED
    BY <1>9, <1>10
<1> DEFINE slots == [c \in Cameras |-> IF c \in setup.rotated THEN turned[c] ELSE raw[c]]
           frames == [c \in Cameras |-> result[c].frame]
<1>14. batch' = [index |-> batchIndex, time |-> SourceTime, slot |-> slots, frame |-> frames]
  BY DEF Build
<1>15. slots \in [Cameras -> 1 .. setup.pool] /\ frames \in [Cameras -> Frames]
  BY <1>6, <1>7
<1>16. \A c \in Cameras : slots[c] = Mine(c) /\ frames[c] = result[c].frame
  BY DEF Mine
<1> HIDE DEF slots, frames, written
<1>17. batch' \in Batches /\ batch'.time = SourceTime /\ batch'.slot = slots /\ batch'.frame = frames
  BY <1>1, <1>8, <1>14, <1>15 DEF Batches
<1> QED
  BY <1>4, <1>5, <1>8, <1>11, <1>12, <1>13, <1>16, <1>17

-----------------------------------------------------------------------------
(* The types are kept.                                                      *)

LEMMA FixedStays ==
    ASSUME Inv, [Next]_vars
    PROVE  /\ setup' = setup /\ files' = files /\ Batches' = Batches /\ Fixed'
           /\ setup.pool \in Nat \ {0} /\ setup.loop \in BOOLEAN
           /\ setup.rotated \subseteq Cameras /\ FilesOK
<1>1. setup' = setup /\ files' = files
  BY StepKinds DEF Ends, Restart, SendBatch, Elsewhere, otherVars, Acquire, AcquireTurned,
     Decode, Build, PassStopCheck
<1>2. Batches' = Batches
  BY <1>1 DEF Batches
<1>3. Fixed
  BY DEF Inv, Types
<1>4. Fixed'
  BY <1>1, <1>3 DEF Fixed
<1> QED
  BY <1>1, <1>2, <1>3, <1>4, SetupFits

LEMMA FlagsKept ==
    ASSUME Inv, [Next]_vars
    PROVE  Flags'
<1>1. Flags
  BY DEF Inv, Types
<1>2. CASE Ends
  <2>1. closed' \in BOOLEAN /\ healthy' \in BOOLEAN
    BY <1>2 DEF Ends
  <2>2. stopRequested' = stopRequested
    BY <1>2 DEF Ends
  <2> QED
    BY <1>1, <2>1, <2>2 DEF Flags
<1>3. CASE Elsewhere
  <2>1. closed' \in BOOLEAN /\ stopRequested' \in BOOLEAN
    BY <1>3 DEF Elsewhere
  <2>2. healthy' = healthy
    BY <1>3 DEF Elsewhere, otherVars, workerVars
  <2> QED
    BY <1>1, <2>1, <2>2 DEF Flags
<1>4. CASE Restart \/ SendBatch \/ Acquire \/ AcquireTurned \/ Decode \/ Build \/ PassStopCheck
  <2>1. UNCHANGED <<stopRequested, healthy, closed>>
    BY <1>4 DEF Restart, SendBatch, Acquire, AcquireTurned, Decode, Build, PassStopCheck
  <2>2. stopRequested' = stopRequested /\ healthy' = healthy /\ closed' = closed
    BY <2>1
  <2> QED
    BY <1>1, <2>2 DEF Flags
<1> QED
  BY <1>2, <1>3, <1>4, StepKinds

LEMMA PlacesKept ==
    ASSUME Inv, [Next]_vars
    PROVE  Places'
<1>1. Places /\ setup.pool \in Nat \ {0} /\ setup' = setup
  BY FixedStays DEF Inv, Types
<1>2. 0 \in Slots /\ Slots' = Slots /\ (1 .. setup.pool) \subseteq Slots
  BY <1>1 DEF Slots
<1>3. [c \in Cameras |-> 0] \in [Cameras -> Slots] /\ FirstCamera \in Cameras
  BY <1>2, CamerasInOrder
<1>4. CASE Ends
  BY <1>1, <1>2, <1>3, <1>4 DEF Ends, Places
<1>5. CASE Restart
  BY <1>1, <1>2, <1>3, <1>5 DEF Restart, NextTurn, Places
<1>6. CASE SendBatch
  BY <1>1, <1>2, <1>3, <1>6 DEF SendBatch, NextTurn, Places
<1>7. CASE Elsewhere
  BY <1>1, <1>2, <1>7 DEF Elsewhere, otherVars, workerVars, Places
<1>8. CASE Acquire
  <2>1. Acquired("raw", camera) \in Slots
    BY <1>2, <1>8, AcquiredIsFree DEF Acquire, Inv, Types
  <2>2. raw' \in [Cameras -> Slots]
    BY <1>1, <1>8, <2>1 DEF Acquire, Places
  <2>3. camera' \in Cameras /\ vpc' \in {"acquire", "acquireTurned", "read"}
    BY <1>1, <1>8, CameraMoves DEF Acquire, Places
  <2> QED
    BY <1>1, <1>2, <1>8, <2>2, <2>3 DEF Acquire, Places
<1>9. CASE AcquireTurned
  <2>1. Acquired("turned", camera) \in Slots
    BY <1>2, <1>9, AcquiredIsFree DEF AcquireTurned, Inv, Types
  <2>2. turned' \in [Cameras -> Slots]
    BY <1>1, <1>9, <2>1 DEF AcquireTurned, Places
  <2>3. camera' \in Cameras /\ vpc' \in {"acquire", "read"}
    BY <1>1, <1>9, CameraMoves DEF AcquireTurned, Places
  <2> QED
    BY <1>1, <1>2, <1>9, <2>2, <2>3 DEF AcquireTurned, Places
<1>10. CASE Decode
  <2>1. camera \in Cameras /\ raw[camera] \in 1 .. setup.pool /\ DecodeOutcome
    BY <1>1, <1>10, DecodeEffect DEF Places
  <2>2. camera' \in Cameras /\ vpc' \in {"failed", "read", "decoded"}
    BY <2>1, CameraMoves DEF DecodeOutcome
  <2>3. memory' \in [Kinds -> [Cameras -> [1 .. setup.pool -> Frames \cup {<< >>}]]]
    <3>1. CASE memory' = memory
      BY <1>1, <3>1 DEF Places
    <3>2. CASE memory' # memory
      <4>1. result'[camera] \in FrameResults
            /\ memory' = [memory EXCEPT !["raw"][camera][raw[camera]] = result'[camera].frame]
        BY <2>1, <3>2 DEF DecodeOutcome
      <4>2. result'[camera].frame \in Frames
        BY <4>1 DEF FrameResults
      <4> QED
        BY <2>1, <4>1, <4>2, MemoryWritten DEF Inv
    <3> QED
      BY <3>1, <3>2
  <2> QED
    BY <1>1, <1>2, <1>10, <2>2, <2>3 DEF Decode, Places
<1>11. CASE Build
  BY <1>1, <1>2, <1>11, BuildEffect DEF Build, Places
<1>12. CASE PassStopCheck
  BY <1>1, <1>2, <1>12 DEF PassStopCheck, Places
<1> QED
  BY <1>4, <1>5, <1>6, <1>7, <1>8, <1>9, <1>10, <1>11, <1>12, StepKinds

LEMMA HoldersKept ==
    ASSUME Inv, [Next]_vars
    PROVE  Holders'
<1>1. Holders /\ Batches' = Batches
  BY FixedStays DEF Inv, Types
<1>2. CASE Ends
  BY <1>1, <1>2 DEF Ends, holderVars, Holders
<1>3. CASE Restart
  BY <1>1, <1>3 DEF Restart, NextTurn, holderVars, Holders
<1>4. CASE SendBatch
  <2>1. batch \in Batches
    BY <1>4 DEF SendBatch, Inv, BuffersAreHeld, Types, Holders
  <2>2. channel' \in Seq(Batches)
    BY <1>1, <1>4, <2>1, Appended DEF SendBatch, Holders
  <2> QED
    BY <1>1, <1>4, <2>2 DEF SendBatch, NextTurn, holderVars, Holders
<1>5. CASE Elsewhere
  BY <1>1, <1>5 DEF Elsewhere, otherVars, workerVars, Holders
<1>6. CASE Acquire \/ AcquireTurned \/ Decode \/ PassStopCheck
  BY <1>1, <1>6 DEF Acquire, AcquireTurned, Decode, PassStopCheck, holderVars, Holders
<1>7. CASE Build
  BY <1>1, <1>7, BuildEffect DEF Build, holderVars, Holders
<1> QED
  BY <1>2, <1>3, <1>4, <1>5, <1>6, <1>7, StepKinds

LEMMA CountsKept ==
    ASSUME Inv, [Next]_vars
    PROVE  Counts'
<1>1. Counts /\ Len(channel) \in Nat /\ ChannelCapacity \in Nat
  BY ChannelAssumption, LenProperties DEF Inv, Types, Holders
<1>2. CASE SendBatch
  <2>1. batch \in Batches /\ channel \in Seq(Batches)
    BY <1>2 DEF SendBatch, Inv, BuffersAreHeld, Types, Holders
  <2> DEFINE item == [time |-> batch.time, frame |-> batch.frame]
  <2>2. item \in SentBatches
    BY <2>1 DEF Batches, SentBatches
  <2> HIDE DEF item
  <2>3. sent' = Append(sent, item) /\ channel' = Append(channel, batch) /\ batchIndex' = batchIndex + 1
        /\ Len(channel) < ChannelCapacity
    BY <1>2 DEF SendBatch, item
  <2>4. sent' \in Seq(SentBatches) /\ Len(sent') = Len(sent) + 1
    BY <1>1, <2>2, <2>3, Appended DEF Counts
  <2>5. Len(channel') = Len(channel) + 1
    BY <2>1, <2>3, Appended
  <2> QED
    BY <1>1, <2>3, <2>4, <2>5 DEF Counts
<1>3. CASE Elsewhere
  <2>1. Len(channel') \in Nat /\ Len(channel') <= Len(channel)
    BY <1>3, LenProperties DEF Elsewhere
  <2> QED
    BY <1>1, <1>3, <2>1 DEF Elsewhere, otherVars, workerVars, Counts
<1>4. CASE Ends \/ Restart \/ Acquire \/ AcquireTurned \/ Decode \/ Build \/ PassStopCheck
  BY <1>1, <1>4 DEF Ends, Restart, Acquire, AcquireTurned, Decode, Build, PassStopCheck, Counts
<1> QED
  BY <1>2, <1>3, <1>4, StepKinds

LEMMA ReadersTypeKept ==
    ASSUME Inv, [Next]_vars
    PROVE  ReadersTypeOK'
<1>1. ReadersTypeOK /\ camera \in Cameras /\ FilesOK
  BY FixedStays DEF Inv, Types, Places
<1>2. [c \in Cameras |-> Pending] \in [Cameras -> Results]
  BY DEF Results
<1>3. CASE Restart
  <2>1. \A c \in Cameras : reader[c].pass + 1 \in Nat
    BY <1>1 DEF ReadersTypeOK, Readers
  <2>2. \A c \in Cameras : Opened(reader[c].pass + 1) \in Readers
    BY <1>1, <2>1, OpenedFits
  <2> QED
    BY <1>2, <1>3, <2>2 DEF Restart, ReadersTypeOK
<1>4. CASE SendBatch
  BY <1>1, <1>2, <1>4 DEF SendBatch, ReadersTypeOK
<1>5. CASE Decode
  BY <1>1, <1>5, DecodeEffect DEF ReadersTypeOK
<1>6. CASE Ends \/ Elsewhere \/ Acquire \/ AcquireTurned \/ Build \/ PassStopCheck
  <2>1. reader' = reader /\ result' = result
    BY <1>6 DEF Ends, Elsewhere, otherVars, Acquire, AcquireTurned, Build, PassStopCheck, readerVars
  <2> QED
    BY <1>1, <2>1 DEF ReadersTypeOK
<1> QED
  BY <1>3, <1>4, <1>5, <1>6, StepKinds

LEMMA TypesKept ==
    ASSUME Inv, [Next]_vars
    PROVE  Types'
BY FixedStays, FlagsKept, PlacesKept, HoldersKept, CountsKept, ReadersTypeKept DEF Types

-----------------------------------------------------------------------------
(* The buffers, and the packets that refer to them.                         *)

LEMMA BuffersStayHeld ==
    ASSUME Inv, [Next]_vars
    PROVE  BuffersAreHeld'
<1>1. /\ BuffersAreHeld /\ setup' = setup /\ setup.pool \in Nat \ {0} /\ camera \in Cameras
      /\ raw \in [Cameras -> Slots] /\ turned \in [Cameras -> Slots]
  BY FixedStays DEF Inv, Types, Places
<1>2. Cameras \subseteq Nat
  BY CamerasInOrder
<1>3. CASE Ends
  BY <1>3 DEF Ends, BuffersAreHeld
<1>4. CASE Restart \/ SendBatch
  <2>1. vpc' = "acquire" /\ camera' = FirstCamera
    BY <1>4 DEF Restart, SendBatch, NextTurn
  <2>2. \A c \in Cameras : ~(c < FirstCamera)
    BY <1>2, CamerasInOrder
  <2> QED
    BY <2>1, <2>2 DEF BuffersAreHeld
<1>5. CASE Elsewhere
  BY <1>1, <1>5 DEF Elsewhere, otherVars, workerVars, BuffersAreHeld, Has
<1>6. CASE Acquire
  <2>1. /\ vpc = "acquire" /\ raw' = [raw EXCEPT ![camera] = Acquired("raw", camera)]
        /\ turned' = turned
    BY <1>6 DEF Acquire
  <2>2. raw'[camera] # 0
    <3>1. Acquired("raw", camera) \in 1 .. setup.pool
      BY <1>6, AcquiredIsFree DEF Acquire, Inv, Types
    <3> QED
      BY <1>1, <2>1, <3>1
  <2>3. \A c \in Cameras : c < camera => Has(c)'
    BY <1>1, <1>2, <2>1 DEF BuffersAreHeld, Has
  <2>4. CASE camera \in setup.rotated
    <3>1. vpc' = "acquireTurned" /\ camera' = camera
      BY <1>6, <2>4 DEF Acquire
    <3>2. \A c \in Cameras : c < camera' => Has(c)'
      BY <2>3, <3>1
    <3> QED
      BY <2>2, <3>1, <3>2 DEF BuffersAreHeld
  <2>5. CASE camera \notin setup.rotated
    <3>1. NextCamera("acquire", "read")
      BY <1>6, <2>5 DEF Acquire
    <3>2. \A c \in Cameras : c <= camera => Has(c)'
      <4> SUFFICES ASSUME NEW c \in Cameras, c <= camera
                   PROVE  Has(c)'
        OBVIOUS
      <4>1. CASE c = camera
        BY <1>1, <2>2, <2>5, <4>1 DEF Has
      <4>2. CASE c # camera
        BY <1>1, <1>2, <2>3, <4>2
      <4> QED
        BY <4>1, <4>2
    <3>3. \/ vpc' = "read" /\ \A c \in Cameras : c <= camera
          \/ vpc' = "acquire" /\ \A c \in Cameras : c < camera' <=> c <= camera
      BY <1>1, <3>1, CameraMoves
    <3> QED
      BY <3>2, <3>3 DEF BuffersAreHeld
  <2> QED
    BY <2>4, <2>5
<1>7. CASE AcquireTurned
  <2>1. /\ vpc = "acquireTurned" /\ turned' = [turned EXCEPT ![camera] = Acquired("turned", camera)]
        /\ raw' = raw /\ NextCamera("acquire", "read")
    BY <1>7 DEF AcquireTurned
  <2>2. turned'[camera] # 0
    <3>1. Acquired("turned", camera) \in 1 .. setup.pool
      BY <1>7, AcquiredIsFree DEF AcquireTurned, Inv, Types
    <3> QED
      BY <1>1, <2>1, <3>1
  <2>3. \A c \in Cameras : c <= camera => Has(c)'
    <3> SUFFICES ASSUME NEW c \in Cameras, c <= camera
                 PROVE  Has(c)'
      OBVIOUS
    <3>1. CASE c = camera
      BY <1>1, <2>1, <2>2, <3>1 DEF BuffersAreHeld, Has
    <3>2. CASE c # camera
      BY <1>1, <1>2, <2>1, <3>2 DEF BuffersAreHeld, Has
    <3> QED
      BY <3>1, <3>2
  <2>4. \/ vpc' = "read" /\ \A c \in Cameras : c <= camera
        \/ vpc' = "acquire" /\ \A c \in Cameras : c < camera' <=> c <= camera
    BY <1>1, <2>1, CameraMoves
  <2> QED
    BY <2>3, <2>4 DEF BuffersAreHeld
<1>8. CASE Decode
  <2>1. vpc = "read" /\ raw' = raw /\ turned' = turned
    BY <1>8 DEF Decode
  <2>2. vpc' \in {"failed", "read", "decoded"}
    BY <1>1, <1>8, DecodeEffect, CameraMoves DEF DecodeOutcome
  <2> QED
    BY <1>1, <2>1, <2>2 DEF BuffersAreHeld, Has
<1>9. CASE Build
  <2>1. batch' # None
    BY <1>9, BuildEffect, NoneIsNoBatch
  <2>2. vpc = "decoded" /\ vpc' = "built" /\ raw' = raw /\ turned' = turned
    BY <1>9 DEF Build
  <2> QED
    BY <1>1, <2>1, <2>2 DEF BuffersAreHeld, Has
<1>10. CASE PassStopCheck
  BY <1>1, <1>10 DEF PassStopCheck, BuffersAreHeld, Has
<1> QED
  BY <1>3, <1>4, <1>5, <1>6, <1>7, <1>8, <1>9, <1>10, StepKinds

\* Only Build makes a packet.
LEMMA PacketsComeFromBuild ==
    ASSUME Inv, [Next]_vars
    PROVE  /\ Build => Packets' \subseteq Packets \cup {batch'}
           /\ ~Build => Packets' \subseteq Packets
<1>1. Build => Packets' \subseteq Packets \cup {batch'}
  BY DEF Build, Packets, holderVars
<1>2. CASE Ends \/ Restart
  BY <1>1, <1>2 DEF Ends, Restart, NextTurn, Packets, holderVars
<1>3. CASE SendBatch
  <2>1. batch \in Batches /\ channel \in Seq(Batches)
    BY <1>3 DEF SendBatch, Inv, BuffersAreHeld, Types, Holders
  <2>2. channel' = Append(channel, batch) /\ batch' = None
    BY <1>3 DEF SendBatch, NextTurn
  <2>3. /\ Len(channel) \in Nat /\ Len(channel') = Len(channel) + 1 /\ channel' \in Seq(Batches)
        /\ \A i \in 1 .. Len(channel) : channel'[i] = channel[i]
        /\ channel'[Len(channel) + 1] = batch
    BY <2>1, <2>2, Appended
  <2>4. DOMAIN channel = 1 .. Len(channel) /\ DOMAIN channel' = 1 .. Len(channel')
    BY <2>1, <2>3, LenProperties
  <2>5. ASSUME NEW k \in DOMAIN channel'
        PROVE  channel'[k] = batch \/ \E l \in DOMAIN channel : channel'[k] = channel[l]
    <3>1. k \in 1 .. Len(channel) \/ k = Len(channel) + 1
      BY <2>3, <2>4
    <3> QED
      BY <2>3, <2>4, <3>1
  <2>6. UNCHANGED holderVars
    BY <1>3 DEF SendBatch
  <2> QED
    BY <1>1, <2>2, <2>5, <2>6 DEF Packets, holderVars
<1>4. CASE Elsewhere
  BY <1>1, <1>4 DEF Elsewhere
<1>5. CASE Acquire \/ AcquireTurned \/ Decode \/ PassStopCheck
  BY <1>1, <1>5 DEF Acquire, AcquireTurned, Decode, PassStopCheck, Packets, holderVars
<1> QED
  BY <1>1, <1>2, <1>3, <1>4, <1>5, StepKinds

LEMMA SlotsStayMine ==
    ASSUME Inv, [Next]_vars
    PROVE  SlotsAreMine'
<1>1. /\ SlotsAreMine /\ setup' = setup /\ setup.pool \in Nat \ {0} /\ camera \in Cameras
      /\ raw \in [Cameras -> Slots] /\ turned \in [Cameras -> Slots]
      /\ \A p \in Packets : p \in Batches
  BY FixedStays, PacketsHeld DEF Inv, Types, Places
<1>2. ~Build => Packets' \subseteq Packets
  BY PacketsComeFromBuild
<1>3. CASE Ends
  BY <1>3 DEF Ends, SlotsAreMine, Preparing
<1>4. CASE Restart \/ SendBatch
  <2>1. /\ batch' = None /\ raw' = [c \in Cameras |-> 0] /\ turned' = [c \in Cameras |-> 0]
        /\ ~Build
    BY <1>4 DEF Restart, SendBatch, NextTurn, Build
  <2>2. \A c \in Cameras : Mine(c)' = 0
    BY <2>1 DEF Mine
  <2>3. \A c \in Cameras : \A p \in Packets : p.slot[c] # 0
    BY <1>1, BatchFields
  <2> QED
    BY <1>2, <2>1, <2>2, <2>3 DEF SlotsAreMine
<1>5. CASE Elsewhere
  <2>1. Packets' \subseteq Packets /\ raw' = raw /\ turned' = turned /\ vpc' = vpc /\ batch' = batch
    BY <1>5 DEF Elsewhere, otherVars, workerVars
  <2>2. \A c \in Cameras : Mine(c)' = Mine(c)
    BY <1>1, <2>1 DEF Mine
  <2> QED
    BY <1>1, <2>1, <2>2 DEF SlotsAreMine
<1>6. CASE Acquire
  <2>1. /\ vpc = "acquire" /\ batch' = batch /\ turned' = turned
        /\ raw' = [raw EXCEPT ![camera] = Acquired("raw", camera)]
        /\ Acquired("raw", camera) \notin Leased("raw", camera)
    BY <1>6, AcquiredIsFree DEF Acquire, Inv, Types
  <2>2. Packets' \subseteq Packets /\ batch' = None
    BY <1>1, <1>2, <2>1 DEF Build, SlotsAreMine, Preparing
  <2>3. ASSUME NEW c \in Cameras, NEW p \in Packets
        PROVE  p.slot[c] # Mine(c)'
    <3>1. CASE c = camera /\ c \notin setup.rotated
      <4>1. Mine(c)' = Acquired("raw", camera)
        BY <1>1, <2>1, <3>1 DEF Mine
      <4>2. Kind(camera) = "raw"
        BY <3>1 DEF Kind
      <4>3. p.slot[camera] \in Leased("raw", camera)
        BY <4>2 DEF Leased
      <4> QED
        BY <2>1, <3>1, <4>1, <4>3
    <3>2. CASE ~(c = camera /\ c \notin setup.rotated)
      <4>1. Mine(c)' = Mine(c)
        BY <1>1, <2>1, <3>2 DEF Mine
      <4> QED
        BY <1>1, <2>1, <4>1 DEF SlotsAreMine, Preparing
    <3> QED
      BY <3>1, <3>2
  <2> QED
    BY <2>2, <2>3 DEF SlotsAreMine
<1>7. CASE AcquireTurned
  <2>1. /\ vpc = "acquireTurned" /\ batch' = batch /\ raw' = raw
        /\ turned' = [turned EXCEPT ![camera] = Acquired("turned", camera)]
        /\ Acquired("turned", camera) \notin Leased("turned", camera)
    BY <1>7, AcquiredIsFree DEF AcquireTurned, Inv, Types
  <2>2. Packets' \subseteq Packets /\ batch' = None
    BY <1>1, <1>2, <2>1 DEF Build, SlotsAreMine, Preparing
  <2>3. ASSUME NEW c \in Cameras, NEW p \in Packets
        PROVE  p.slot[c] # Mine(c)'
    <3>1. CASE c = camera /\ c \in setup.rotated
      <4>1. Mine(c)' = Acquired("turned", camera)
        BY <1>1, <2>1, <3>1 DEF Mine
      <4>2. Kind(camera) = "turned"
        BY <3>1 DEF Kind
      <4>3. p.slot[camera] \in Leased("turned", camera)
        BY <4>2 DEF Leased
      <4> QED
        BY <2>1, <3>1, <4>1, <4>3
    <3>2. CASE ~(c = camera /\ c \in setup.rotated)
      <4>1. Mine(c)' = Mine(c)
        BY <1>1, <2>1, <3>2 DEF Mine
      <4> QED
        BY <1>1, <2>1, <4>1 DEF SlotsAreMine, Preparing
    <3> QED
      BY <3>1, <3>2
  <2> QED
    BY <2>2, <2>3 DEF SlotsAreMine
<1>8. CASE Decode
  <2>1. vpc = "read" /\ raw' = raw /\ turned' = turned /\ batch' = batch
    BY <1>8 DEF Decode
  <2>2. Packets' \subseteq Packets
    BY <1>2, <2>1, <1>8 DEF Build
  <2>3. \A c \in Cameras : Mine(c)' = Mine(c)
    BY <1>1, <2>1 DEF Mine
  <2> QED
    BY <1>1, <2>1, <2>2, <2>3 DEF SlotsAreMine, Preparing
<1>9. CASE Build \/ PassStopCheck
  BY <1>9 DEF Build, PassStopCheck, SlotsAreMine, Preparing
<1> QED
  BY <1>3, <1>4, <1>5, <1>6, <1>7, <1>8, <1>9, StepKinds

LEMMA FramesStayIntact ==
    ASSUME Inv, [Next]_vars
    PROVE  HeldFramesAreIntact'
<1>1. /\ HeldFramesAreIntact /\ setup' = setup /\ setup.pool \in Nat \ {0} /\ camera \in Cameras
      /\ \A p \in Packets : p \in Batches
      /\ \A c \in Cameras : Kind(c)' = Kind(c)
  BY FixedStays, PacketsHeld DEF Inv, Types, Places, Kind
<1>2. CASE Build
  <2>1. Packets' \subseteq Packets \cup {batch'} /\ vpc = "decoded"
    BY <1>2, PacketsComeFromBuild DEF Build
  <2>2. ASSUME NEW p \in Packets, NEW c \in Cameras
        PROVE  memory'[Kind(c)][c][p.slot[c]] = p.frame[c]
    <3>1. p.slot[c] # Mine(c) /\ p.slot[c] \in 1 .. setup.pool
      BY <1>1, <2>1, BatchFields DEF Inv, SlotsAreMine, Preparing
    <3>2. memory'[Kind(c)][c][p.slot[c]] = memory[Kind(c)][c][p.slot[c]]
      BY <1>2, <3>1, BuildEffect
    <3> QED
      BY <1>1, <3>2 DEF HeldFramesAreIntact
  <2>3. \A c \in Cameras : memory'[Kind(c)][c][batch'.slot[c]] = batch'.frame[c]
    BY <1>2, BuildEffect
  <2> QED
    BY <1>1, <2>1, <2>2, <2>3 DEF HeldFramesAreIntact
<1>3. CASE Decode /\ memory' # memory
  <2>1. Packets' \subseteq Packets /\ vpc = "read" /\ setup.pool \in Nat
    BY <1>1, <1>3, PacketsComeFromBuild DEF Build, Decode
  <2>2. /\ raw[camera] \in 1 .. setup.pool /\ result'[camera] \in FrameResults
        /\ memory' = [memory EXCEPT !["raw"][camera][raw[camera]] = result'[camera].frame]
    BY <1>3, DecodeEffect DEF DecodeOutcome
  <2>3. result'[camera].frame \in Frames
    BY <2>2 DEF FrameResults
  <2>4. /\ memory'["turned"] = memory["turned"]
        /\ \A d \in Cameras : d # camera => memory'["raw"][d] = memory["raw"][d]
        /\ \A t \in 1 .. setup.pool : t # raw[camera] => memory'["raw"][camera][t] = memory["raw"][camera][t]
    BY <1>1, <2>2, <2>3, MemoryWritten DEF Inv
  <2>5. ASSUME NEW p \in Packets, NEW c \in Cameras
        PROVE  memory'[Kind(c)][c][p.slot[c]] = p.frame[c]
    <3>1. p.slot[c] # Mine(c) /\ p.slot[c] \in 1 .. setup.pool
      BY <1>1, <2>1, BatchFields DEF Inv, SlotsAreMine, Preparing
    <3>2. memory'[Kind(c)][c][p.slot[c]] = memory[Kind(c)][c][p.slot[c]]
      <4>1. CASE c \in setup.rotated
        BY <2>4, <4>1 DEF Kind
      <4>2. CASE c \notin setup.rotated /\ c # camera
        BY <2>4, <4>2 DEF Kind
      <4>3. CASE c \notin setup.rotated /\ c = camera
        BY <2>4, <3>1, <4>3 DEF Kind, Mine
      <4> QED
        BY <4>1, <4>2, <4>3
    <3> QED
      BY <1>1, <3>2 DEF HeldFramesAreIntact
  <2> QED
    BY <1>1, <2>1, <2>5 DEF HeldFramesAreIntact
<1>4. CASE ~Build /\ memory' = memory
  <2>1. Packets' \subseteq Packets
    BY <1>4, PacketsComeFromBuild
  <2> QED
    BY <1>1, <1>4, <2>1 DEF HeldFramesAreIntact
<1>5. memory' = memory \/ Build \/ Decode
  BY StepKinds DEF Ends, Restart, SendBatch, Elsewhere, otherVars, workerVars, Acquire, AcquireTurned,
     PassStopCheck
<1> QED
  BY <1>2, <1>3, <1>4, <1>5

-----------------------------------------------------------------------------
(* The cameras are read in order.                                           *)

LEMMA NoFrameResults ==
    Pending \notin FrameResults /\ Nothing \notin FrameResults /\ Thrown \notin FrameResults
BY DEF Pending, Nothing, Thrown, FrameResults

LEMMA ReadStaysInOrder ==
    ASSUME Inv, [Next]_vars
    PROVE  ReadInOrder'
<1>1. /\ ReadInOrder /\ setup' = setup /\ camera \in Cameras /\ Cameras \subseteq Nat
      /\ result \in [Cameras -> Results]
  BY FixedStays, CamerasInOrder DEF Inv, Types, Places, ReadersTypeOK
<1>2. CASE Ends
  BY <1>2 DEF Ends, ReadInOrder
<1>3. CASE Restart \/ SendBatch
  <2>1. vpc' = "acquire" /\ result' = [c \in Cameras |-> Pending]
    BY <1>3 DEF Restart, SendBatch, NextTurn
  <2> QED
    BY <2>1 DEF ReadInOrder
<1>4. CASE Elsewhere
  BY <1>1, <1>4 DEF Elsewhere, otherVars, readerVars, workerVars, ReadInOrder, Read
<1>5. CASE Acquire \/ AcquireTurned
  <2>1. vpc \in {"acquire", "acquireTurned"} /\ result' = result
    BY <1>5 DEF Acquire, AcquireTurned, readerVars
  <2>2. \/ vpc' \in {"acquire", "acquireTurned"}
        \/ vpc' = "read" /\ camera' = FirstCamera
    BY <1>1, <1>5, CameraMoves DEF Acquire, AcquireTurned
  <2>3. \A c \in Cameras : ~(c < FirstCamera)
    BY <1>1, CamerasInOrder
  <2> QED
    BY <1>1, <2>1, <2>2, <2>3 DEF ReadInOrder
<1>6. CASE Decode
  <2>1. /\ vpc = "read" /\ DecodeOutcome
        /\ result' = [result EXCEPT ![camera] = result'[camera]]
    BY <1>6, DecodeEffect
  <2>2. \A c \in Cameras : c # camera => result'[c] = result[c]
    BY <1>1, <2>1
  <2>3. \A c \in Cameras : IF c < camera THEN Read(c) ELSE result[c] = Pending
    BY <1>1, <2>1 DEF ReadInOrder
  <2>4. CASE vpc' = "failed"
    BY <2>4 DEF ReadInOrder
  <2>5. CASE vpc' = "read" /\ result'[camera] = Pending /\ camera' = camera
    <3>1. \A c \in Cameras : IF c < camera' THEN Read(c)' ELSE result'[c] = Pending
      BY <1>1, <2>2, <2>3, <2>5 DEF Read
    <3> QED
      BY <2>5, <3>1 DEF ReadInOrder
  <2>6. CASE NextCamera("read", "decoded") /\ (result'[camera] = Nothing \/ result'[camera] \in FrameResults)
    <3>1. \A c \in Cameras : c <= camera => Read(c)'
      <4> SUFFICES ASSUME NEW c \in Cameras, c <= camera
                   PROVE  Read(c)'
        OBVIOUS
      <4>1. CASE c = camera
        BY <2>6, <4>1 DEF Read
      <4>2. CASE c # camera
        BY <1>1, <2>2, <2>3, <4>2 DEF Read
      <4> QED
        BY <4>1, <4>2
    <3>2. \A c \in Cameras : ~(c <= camera) => result'[c] = Pending
      BY <1>1, <2>2, <2>3
    <3>3. \/ vpc' = "decoded" /\ \A c \in Cameras : c <= camera
          \/ vpc' = "read" /\ \A c \in Cameras : c < camera' <=> c <= camera
      BY <1>1, <2>6, CameraMoves
    <3> QED
      BY <3>1, <3>2, <3>3 DEF ReadInOrder
  <2> QED
    BY <2>1, <2>4, <2>5, <2>6 DEF DecodeOutcome
<1>7. CASE Build
  <2>1. vpc' = "built" /\ result' = result
    BY <1>7 DEF Build, readerVars
  <2> QED
    BY <1>7, <2>1, BuildEffect DEF ReadInOrder
<1>8. CASE PassStopCheck
  BY <1>1, <1>8 DEF PassStopCheck, readerVars, ReadInOrder
<1> QED
  BY <1>2, <1>3, <1>4, <1>5, <1>6, <1>7, <1>8, StepKinds

LEMMA DecodedStaysThere ==
    ASSUME Inv, [Next]_vars
    PROVE  DecodedIsThere'
<1>1. /\ DecodedIsThere /\ files' = files /\ setup.pool \in Nat \ {0} /\ camera \in Cameras
      /\ result \in [Cameras -> Results]
  BY FixedStays DEF Inv, Types, Places, ReadersTypeOK
<1>2. CASE Elsewhere
  BY <1>1, <1>2 DEF Elsewhere, otherVars, readerVars, workerVars, DecodedIsThere
<1>3. CASE Acquire \/ AcquireTurned
  <2>1. vpc \in {"acquire", "acquireTurned"} /\ result' = result
    BY <1>3 DEF Acquire, AcquireTurned, readerVars
  <2>2. \A c \in Cameras : result'[c] \notin FrameResults
    BY <2>1, NoFrameResults DEF Inv, ReadInOrder
  <2> QED
    BY <2>2 DEF DecodedIsThere
<1>4. CASE Decode
  <2>1. /\ vpc = "read" /\ DecodeOutcome /\ raw[camera] \in 1 .. setup.pool
        /\ result' = [result EXCEPT ![camera] = result'[camera]]
    BY <1>4, DecodeEffect
  <2>2. raw' = raw
    BY <1>4 DEF Decode
  <2>3. \A c \in Cameras : c # camera => result'[c] = result[c]
    BY <1>1, <2>1
  <2>4. CASE memory' = memory /\ ~(result'[camera] \in FrameResults /\ OnGpu(files[camera]))
    BY <1>1, <2>1, <2>2, <2>3, <2>4 DEF DecodedIsThere
  <2>5. CASE /\ result'[camera] \in FrameResults
             /\ memory' = [memory EXCEPT !["raw"][camera][raw[camera]] = result'[camera].frame]
    <3>1. result'[camera].frame \in Frames
      BY <2>5 DEF FrameResults
    <3>2. /\ \A d \in Cameras : d # camera => memory'["raw"][d] = memory["raw"][d]
          /\ memory'["raw"][camera][raw[camera]] = result'[camera].frame
      <4>1. Types /\ camera \in Cameras /\ raw[camera] \in 1 .. setup.pool
        BY <1>1, <2>1 DEF Inv
      <4>2. memory' = [memory EXCEPT !["raw"][camera][raw[camera]] = result'[camera].frame]
        BY <2>5
      <4>3. \A d \in Cameras : d # camera => memory'["raw"][d] = memory["raw"][d]
        BY <3>1, <4>1, <4>2, MemoryWritten
      <4>4. memory'["raw"][camera][raw[camera]] = result'[camera].frame
        <5> DEFINE f == result'[camera].frame
                   buffer == [memory["raw"][camera] EXCEPT ![raw[camera]] = f]
        <5>1. /\ memory["raw"] \in [Cameras -> [1 .. setup.pool -> Frames \cup {<< >>}]]
              /\ memory["raw"][camera] \in [1 .. setup.pool -> Frames \cup {<< >>}]
              /\ memory'["raw"] = [memory["raw"] EXCEPT ![camera] = buffer]
          BY <4>1, <4>2 DEF Types, Places, Kinds
        <5>2. buffer[raw[camera]] = f
          BY <4>1, <5>1
        <5> HIDE DEF buffer, f
        <5>3. memory'["raw"][camera] = buffer
          BY <4>1, <5>1
        <5> QED
          BY <5>2, <5>3 DEF f
      <4> QED
        BY <4>3, <4>4
    <3> QED
      BY <1>1, <2>1, <2>2, <2>3, <3>2 DEF DecodedIsThere
  <2> QED
    BY <2>1, <2>4, <2>5, NoFrameResults DEF DecodeOutcome
<1>5. CASE Ends \/ Restart \/ SendBatch \/ Build \/ PassStopCheck
  BY <1>5 DEF Ends, Restart, SendBatch, NextTurn, Build, PassStopCheck, DecodedIsThere
<1> QED
  BY <1>2, <1>3, <1>4, <1>5, StepKinds

-----------------------------------------------------------------------------
(* The times of the batches.                                                *)

\* What is sent is added behind what was sent before.
LEMMA SentGrows ==
    ASSUME Inv, SendBatch
    PROVE  /\ Len(sent) \in Nat /\ Len(sent') = Len(sent) + 1
           /\ \A k \in 1 .. Len(sent) : sent'[k] = sent[k]
           /\ sent'[Len(sent) + 1].time = batch.time
           /\ sent'[Len(sent) + 1].frame = batch.frame
<1> DEFINE item == [time |-> batch.time, frame |-> batch.frame]
<1>1. batch \in Batches /\ sent \in Seq(SentBatches)
  BY DEF SendBatch, Inv, BuffersAreHeld, Types, Holders, Counts
<1>2. item \in SentBatches /\ item.time = batch.time /\ item.frame = batch.frame
  BY <1>1 DEF Batches, SentBatches
<1>3. sent' = Append(sent, item)
  BY DEF SendBatch
<1> HIDE DEF item
<1>4. /\ Len(sent) \in Nat /\ Len(Append(sent, item)) = Len(sent) + 1
      /\ \A i \in 1 .. Len(sent) : Append(sent, item)[i] = sent[i]
      /\ Append(sent, item)[Len(sent) + 1] = item
  BY <1>1, <1>2, Appended
<1> QED
  BY <1>2, <1>3, <1>4

LEMMA SentTyped ==
    ASSUME Inv
    PROVE  /\ Len(sent) \in Nat
           /\ \A k \in 1 .. Len(sent) : sent[k].time \in Int
           /\ sent # << >> <=> Len(sent) # 0
<1>1. sent \in Seq(SentBatches)
  BY DEF Inv, Types, Counts
<1>2. \A k \in 1 .. Len(sent) : sent[k] \in SentBatches
  BY <1>1, ElementOfSeq
<1> QED
  BY <1>1, <1>2, EmptySeq, LenProperties DEF SentBatches

LEMMA TimesKeepIncreasing ==
    ASSUME Inv, [Next]_vars
    PROVE  TimesIncrease' /\ TimesGoOn'
<1>1. /\ TimesIncrease /\ TimesGoOn /\ previousTime \in Int
      /\ batchIndex = Len(sent) /\ Len(sent) \in Nat
      /\ \A k \in 1 .. Len(sent) : sent[k].time \in Int
      /\ sent # << >> <=> Len(sent) # 0
  BY SentTyped DEF Inv, Types, Places, Counts
<1>2. CASE SendBatch
  <2>1. /\ Len(sent') = Len(sent) + 1
        /\ \A k \in 1 .. Len(sent) : sent'[k] = sent[k]
        /\ sent'[Len(sent) + 1].time = batch.time
    BY <1>2, SentGrows
  <2>2. /\ batch.time = previousTime /\ (sent # << >> => LastTime < previousTime)
        /\ vpc' = "acquire" /\ previousTime' = previousTime
    BY <1>1, <1>2 DEF SendBatch, NextTurn, TimesGoOn
  <2>3. TimesIncrease'
    <3> SUFFICES ASSUME NEW k \in 1 .. Len(sent') - 1
                 PROVE  sent'[k].time < sent'[k + 1].time
      BY DEF TimesIncrease
    <3>1. CASE k < Len(sent)
      <4>1. k \in 1 .. Len(sent) - 1 /\ k \in 1 .. Len(sent) /\ k + 1 \in 1 .. Len(sent)
        BY <1>1, <2>1, <3>1
      <4> QED
        BY <1>1, <2>1, <4>1 DEF TimesIncrease
    <3>2. CASE k = Len(sent)
      <4>1. k \in 1 .. Len(sent) /\ sent # << >>
        BY <1>1, <2>1, <3>2
      <4> QED
        BY <2>1, <2>2, <3>2, <4>1 DEF LastTime
    <3> QED
      BY <1>1, <2>1, <3>1, <3>2
  <2>4. LastTime' = previousTime'
    BY <2>1, <2>2 DEF LastTime
  <2> QED
    BY <2>2, <2>3, <2>4 DEF TimesGoOn, Preparing
<1>3. CASE Build
  <2>1. /\ vpc = "decoded" /\ vpc' = "built" /\ sent' = sent /\ previousTime' = SourceTime
        /\ batch'.time = SourceTime /\ SourceTime \in Int
    BY <1>3, BuildEffect DEF Build
  <2>2. sent # << >> => LastTime = previousTime
    BY <1>1, <2>1 DEF TimesGoOn, Preparing
  <2>3. batchIndex # 0 => previousTime < SourceTime
    <3>1. Interval \in Nat \ {0} /\ FirstCamera \in Cameras
      BY IntervalAssumption, CamerasInOrder
    <3>2. result[FirstCamera].time \in Int
      BY <1>3, <3>1, BuildEffect DEF FrameResults
    <3> QED
      BY <1>1, <3>1, <3>2 DEF SourceTime
  <2>4. sent # << >> => LastTime < SourceTime
    BY <1>1, <2>2, <2>3
  <2>5. TimesIncrease'
    BY <1>1, <2>1 DEF TimesIncrease
  <2>6. LastTime' = LastTime
    BY <2>1 DEF LastTime
  <2> QED
    BY <2>1, <2>4, <2>5, <2>6 DEF TimesGoOn, Preparing
<1>4. CASE ~SendBatch /\ ~Build
  <2>1. sent' = sent /\ previousTime' = previousTime
    BY <1>4, StepKinds DEF Ends, Restart, Elsewhere, otherVars, workerVars, Acquire, AcquireTurned,
       Decode, PassStopCheck
  <2>2. TimesIncrease' /\ LastTime' = LastTime
    BY <1>1, <2>1 DEF TimesIncrease, LastTime
  <2>3. CASE Ends
    BY <2>2, <2>3 DEF Ends, TimesGoOn, Preparing
  <2>4. CASE Elsewhere
    BY <1>1, <2>1, <2>2, <2>4 DEF Elsewhere, otherVars, workerVars, TimesGoOn
  <2>5. CASE Restart \/ Acquire \/ AcquireTurned
    <3>1. vpc \in Preparing /\ vpc' \in Preparing
      BY <2>5, PlacesKept, CameraMoves DEF Restart, NextTurn, Acquire, AcquireTurned, Preparing,
         Inv, Types, Places
    <3> QED
      BY <1>1, <2>1, <2>2, <3>1 DEF TimesGoOn, Preparing
  <2>6. CASE Decode
    <3>1. vpc = "read" /\ vpc' \in {"failed", "read", "decoded"}
      BY <2>6, DecodeEffect, CameraMoves DEF DecodeOutcome, Inv, Types, Places
    <3> QED
      BY <1>1, <2>1, <2>2, <3>1 DEF TimesGoOn, Preparing
  <2>7. CASE PassStopCheck
    BY <1>1, <2>1, <2>2, <2>7 DEF PassStopCheck, TimesGoOn, Preparing
  <2> QED
    BY <1>4, <2>3, <2>4, <2>5, <2>6, <2>7, StepKinds
<1> QED
  BY <1>2, <1>3, <1>4

-----------------------------------------------------------------------------
(* The frames of a batch have the same number.                              *)

LEMMA ReadersStayFit ==
    ASSUME Inv, [Next]_vars
    PROVE  ReadersFit'
<1>1. /\ ReadersFit /\ files' = files /\ FilesOK /\ ReadersTypeOK /\ camera \in Cameras
  BY FixedStays DEF Inv, Types, Places
<1>2. CASE Restart
  <2>1. \A c \in Cameras : reader'[c] = Opened(reader[c].pass + 1) /\ result'[c] = Pending
                           /\ reader[c].pass + 1 \in Nat
    BY <1>1, <1>2 DEF Restart, ReadersTypeOK, Readers
  <2> QED
    BY <1>1, <2>1, FreshReaderFits DEF ReadersFit
<1>3. CASE SendBatch
  <2>1. reader' = reader /\ \A c \in Cameras : result'[c] = Pending
    BY <1>3 DEF SendBatch
  <2>2. Pending # Nothing
    BY DEF Pending, Nothing
  <2> QED
    BY <1>1, <2>1, <2>2 DEF ReadersFit, ReaderFits, Submitted
<1>4. CASE Decode
  <2>1. /\ reader' = [reader EXCEPT ![camera] = reader'[camera]]
        /\ result' = [result EXCEPT ![camera] = result'[camera]]
        /\ \A c \in Cameras : c = camera => ReaderFits(c)'
    BY <1>4, DecodeEffect
  <2>2. ASSUME NEW c \in Cameras, c # camera
        PROVE  ReaderFits(c)'
    <3>1. reader'[c] = reader[c] /\ result'[c] = result[c]
      BY <1>1, <2>1, <2>2 DEF ReadersTypeOK
    <3>2. Submitted(c)' = Submitted(c) /\ ReaderFits(c)
      BY <1>1, <3>1 DEF Submitted, ReadersFit
    <3> QED
      BY <1>1, <3>1, <3>2 DEF ReaderFits
  <2> QED
    BY <2>1, <2>2 DEF ReadersFit
<1>5. CASE Ends \/ Elsewhere \/ Acquire \/ AcquireTurned \/ Build \/ PassStopCheck
  <2>1. reader' = reader /\ result' = result
    BY <1>5 DEF Ends, Elsewhere, otherVars, Acquire, AcquireTurned, Build, PassStopCheck, readerVars
  <2> QED
    BY <1>1, <2>1 DEF ReadersFit, ReaderFits, Submitted
<1> QED
  BY <1>2, <1>3, <1>4, <1>5, StepKinds

LEMMA RoundTyped ==
    ASSUME ReadersTypeOK, NEW c \in Cameras
    PROVE  reader[c].count \in Nat /\ reader[c].pass \in Nat /\ Round(c) \in Int
BY DEF ReadersTypeOK, Readers, Round

\* A frame that is read belongs to the round its camera was at.
LEMMA RoundGoesOn ==
    ASSUME Inv, Decode, NEW c \in Cameras
    PROVE  /\ reader'[c].pass = reader[c].pass /\ Round(c)' = Round(c)
           /\ result'[c] \in FrameResults => result'[c].frame = <<reader'[c].pass, reader'[c].count>>
<1>1. ReadersTypeOK /\ camera \in Cameras
  BY DEF Inv, Types, Places
<1>2. /\ result[camera] = Pending /\ DecodeOutcome
      /\ reader' = [reader EXCEPT ![camera] = reader'[camera]]
      /\ result' = [result EXCEPT ![camera] = result'[camera]]
      /\ reader'[camera].pass = reader[camera].pass
  BY DecodeEffect
<1>3. CASE c # camera
  <2>1. reader'[c] = reader[c] /\ result'[c] = result[c]
    BY <1>1, <1>2, <1>3 DEF ReadersTypeOK
  <2> QED
    BY <2>1 DEF Inv, Lockstep, Round
<1>4. CASE c = camera
  <2>1. Round(c) = reader[c].count /\ reader[c].count \in Nat
    BY <1>1, <1>2, <1>4, NoFrameResults, RoundTyped DEF Round
  <2>2. CASE result'[c] \notin FrameResults
    <3>1. reader'[c].count = reader[c].count
      BY <1>2, <1>4, <2>2 DEF DecodeOutcome
    <3> QED
      BY <1>2, <1>4, <2>1, <2>2, <3>1 DEF Round
  <2>3. CASE result'[c] \in FrameResults
    <3>1. /\ reader'[c].count = reader[c].count + 1
          /\ result'[c].frame = <<reader'[c].pass, reader'[c].count>>
      BY <1>2, <1>4, <2>3, NoFrameResults DEF DecodeOutcome
    <3>2. Round(c)' = reader'[c].count - 1
      BY <2>3 DEF Round
    <3> QED
      BY <1>2, <1>4, <2>1, <3>1, <3>2
  <2> QED
    BY <2>2, <2>3
<1> QED
  BY <1>3, <1>4

\* The frames of a batch that is sent are all those of the round.
LEMMA SentIsARound ==
    ASSUME Inv, SendBatch
    PROVE  \A c \in Cameras :
             /\ Round(c)' = Round(c) + 1 /\ reader'[c] = reader[c] /\ Round(c) = reader[c].count - 1
             /\ result'[c] = Pending
             /\ sent'[Len(sent) + 1].frame[c] = <<reader[c].pass, reader[c].count>>
<1> SUFFICES ASSUME NEW c \in Cameras
             PROVE  /\ Round(c)' = Round(c) + 1 /\ reader'[c] = reader[c]
                    /\ Round(c) = reader[c].count - 1
                    /\ result'[c] = Pending
                    /\ sent'[Len(sent) + 1].frame[c] = <<reader[c].pass, reader[c].count>>
  OBVIOUS
<1>1. vpc = "send" /\ reader' = reader /\ result'[c] = Pending
  BY DEF SendBatch
<1>2. result[c] \in FrameResults /\ batch.frame[c] = result[c].frame
  BY <1>1 DEF Inv, ReadInOrder
<1>3. result[c].frame = <<reader[c].pass, reader[c].count>>
  BY <1>2 DEF Inv, Lockstep
<1>4. reader[c].count \in Nat
  BY RoundTyped DEF Inv, Types
<1>5. Round(c) = reader[c].count - 1
  BY <1>2 DEF Round
<1>6. Round(c)' = reader[c].count
  BY <1>1, NoFrameResults DEF Round
<1> QED
  BY <1>1, <1>2, <1>3, <1>4, <1>5, <1>6, SentGrows

LEMMA StaysInLockstep ==
    ASSUME Inv, [Next]_vars
    PROVE  Lockstep'
<1>1. Lockstep /\ ReadersTypeOK /\ FilesOK
  BY FixedStays DEF Inv, Types
<1>2. CASE Restart
  <2>1. ASSUME NEW c \in Cameras
        PROVE  /\ reader'[c].pass = reader[c].pass + 1 /\ Round(c)' = 0
               /\ result'[c] \notin FrameResults
    <3>1. reader'[c] = Opened(reader[c].pass + 1) /\ result'[c] = Pending
          /\ reader[c].pass + 1 \in Nat
      BY <1>1, <1>2, RoundTyped DEF Restart
    <3> QED
      BY <1>1, <3>1, OpenedFits, NoFrameResults DEF Round
  <2> QED
    BY <1>1, <2>1 DEF Lockstep
<1>3. CASE SendBatch
  BY <1>1, <1>3, SentIsARound, NoFrameResults DEF Lockstep
<1>4. CASE Decode
  BY <1>1, <1>4, RoundGoesOn DEF Lockstep
<1>5. CASE Ends \/ Elsewhere \/ Acquire \/ AcquireTurned \/ Build \/ PassStopCheck
  <2>1. reader' = reader /\ result' = result
    BY <1>5 DEF Ends, Elsewhere, otherVars, Acquire, AcquireTurned, Build, PassStopCheck, readerVars
  <2> QED
    BY <1>1, <2>1 DEF Lockstep, Round
<1> QED
  BY <1>2, <1>3, <1>4, <1>5, StepKinds

LEMMA BatchesStayTogether ==
    ASSUME Inv, [Next]_vars
    PROVE  FirstPass' /\ SentTogether'
<1>1. /\ FirstPass /\ SentTogether /\ Lockstep /\ ReadersTypeOK /\ Len(sent) \in Nat
      /\ setup' = setup /\ setup.loop \in BOOLEAN
  BY FixedStays, SentTyped DEF Inv, Types
<1>2. CASE SendBatch
  <2>1. /\ Len(sent') = Len(sent) + 1
        /\ \A k \in 1 .. Len(sent) : sent'[k] = sent[k]
    BY <1>2, SentGrows
  <2>2. \A c \in Cameras :
             /\ Round(c)' = Round(c) + 1 /\ reader'[c] = reader[c] /\ Round(c) = reader[c].count - 1
             /\ sent'[Len(sent) + 1].frame[c] = <<reader[c].pass, reader[c].count>>
    BY <1>2, SentIsARound
  <2>3. \A c, d \in Cameras : reader[c].pass = reader[d].pass /\ reader[c].count = reader[d].count
    <3> SUFFICES ASSUME NEW c \in Cameras, NEW d \in Cameras
                 PROVE  reader[c].pass = reader[d].pass /\ reader[c].count = reader[d].count
      OBVIOUS
    <3>1. reader[c].count \in Nat /\ reader[d].count \in Nat
      BY <1>1, RoundTyped
    <3>2. reader[c].count - 1 = reader[d].count - 1
      BY <1>1, <2>2 DEF Lockstep
    <3> QED
      BY <1>1, <3>1, <3>2 DEF Lockstep
  <2>4. ASSUME NEW k \in 1 .. Len(sent')
        PROVE  k \in 1 .. Len(sent) \/ k = Len(sent) + 1
    BY <1>1, <2>1
  <2>5. SentTogether'
    BY <1>1, <2>1, <2>2, <2>3, <2>4 DEF SentTogether
  <2>6. CASE ~setup.loop
    <3>1. \A c \in Cameras : reader'[c].pass = 1 /\ Round(c)' = Len(sent')
      BY <1>1, <2>1, <2>2, <2>6 DEF FirstPass
    <3>2. \A c \in Cameras : reader[c].pass = 1 /\ reader[c].count = Len(sent) + 1
      <4> SUFFICES ASSUME NEW c \in Cameras
                   PROVE  reader[c].pass = 1 /\ reader[c].count = Len(sent) + 1
        OBVIOUS
      <4>1. reader[c].count \in Nat /\ reader[c].count - 1 = Len(sent) /\ reader[c].pass = 1
        BY <1>1, <2>2, <2>6, RoundTyped DEF FirstPass
      <4> QED
        BY <1>1, <4>1
    <3>3. \A k \in 1 .. Len(sent') : \A c \in Cameras : sent'[k].frame[c] = <<1, k>>
      BY <1>1, <2>1, <2>2, <2>4, <2>6, <3>2 DEF FirstPass
    <3> QED
      BY <2>5, <3>1, <3>3 DEF FirstPass
  <2>7. CASE setup.loop
    BY <1>1, <2>5, <2>7 DEF FirstPass
  <2> QED
    BY <1>1, <2>6, <2>7
<1>3. CASE Restart
  <2>1. setup'.loop /\ sent' = sent
    BY <1>1, <1>3 DEF Restart
  <2> QED
    BY <1>1, <2>1 DEF FirstPass, SentTogether
<1>4. CASE Decode
  <2>1. sent' = sent /\ \A c \in Cameras : reader'[c].pass = reader[c].pass /\ Round(c)' = Round(c)
    BY <1>4, RoundGoesOn DEF Decode
  <2> QED
    BY <1>1, <2>1 DEF FirstPass, SentTogether
<1>5. CASE Ends \/ Elsewhere \/ Acquire \/ AcquireTurned \/ Build \/ PassStopCheck
  <2>1. reader' = reader /\ result' = result /\ sent' = sent
    BY <1>5 DEF Ends, Elsewhere, otherVars, Acquire, AcquireTurned, Build, PassStopCheck, readerVars
  <2>2. \A c \in Cameras : Round(c)' = Round(c)
    BY <2>1 DEF Round
  <2> QED
    BY <1>1, <2>1, <2>2 DEF FirstPass, SentTogether
<1> QED
  BY <1>2, <1>3, <1>4, <1>5, StepKinds

LEMMA ReasonsStay ==
    ASSUME Inv, [Next]_vars
    PROVE  Reasons'
<1>1. Reasons /\ setup' = setup
  BY FixedStays DEF Inv
<1>2. CASE Ends
  <2>1. vpc' = "done" /\ result' = result /\ stopRequested' = stopRequested
    BY <1>2 DEF Ends, readerVars
  <2>2. healthy' /\ ~stopRequested' => Finished
    BY <1>2, <2>1 DEF Ends
  <2>3. Finished => ~setup'.loop /\ \A c \in Cameras : result'[c] = Nothing
    BY <1>1, <2>1 DEF Finished
  <2> QED
    BY <2>1, <2>2, <2>3 DEF Reasons
<1>3. CASE Elsewhere
  <2>1. /\ vpc' = vpc /\ result' = result /\ healthy' = healthy
        /\ stopRequested => stopRequested'
        /\ closed' => closed \/ stopRequested'
    BY <1>3 DEF Elsewhere, otherVars, readerVars, workerVars
  <2>2. closed' => vpc' = "done" \/ stopRequested'
    BY <1>1, <2>1 DEF Reasons
  <2>3. vpc' = "done" /\ healthy' /\ ~stopRequested' => vpc = "done" /\ healthy /\ ~stopRequested
    BY <2>1
  <2>4. vpc' = "done" /\ healthy' /\ ~stopRequested' => ~setup'.loop /\ \A c \in Cameras : result'[c] = Nothing
    BY <1>1, <2>1, <2>3 DEF Reasons
  <2> QED
    BY <2>2, <2>4 DEF Reasons
<1>4. CASE Restart \/ SendBatch \/ Acquire \/ AcquireTurned \/ Decode \/ Build \/ PassStopCheck
  <2>1. vpc # "done" /\ closed' = closed /\ stopRequested' = stopRequested
    BY <1>4 DEF Restart, SendBatch, Acquire, AcquireTurned, Decode, Build, PassStopCheck
  <2>2. closed' => stopRequested'
    BY <1>1, <2>1 DEF Reasons
  <2>3. vpc' # "done"
    <3>1. CASE Decode
      BY <3>1, DecodeEffect, CameraMoves DEF DecodeOutcome, Inv, Types, Places
    <3>2. CASE Acquire \/ AcquireTurned
      BY <3>2, CameraMoves DEF Acquire, AcquireTurned, Inv, Types, Places
    <3> QED
      BY <1>4, <3>1, <3>2 DEF Restart, SendBatch, NextTurn, Build, PassStopCheck
  <2> QED
    BY <2>2, <2>3 DEF Reasons
<1> QED
  BY <1>2, <1>3, <1>4, StepKinds

-----------------------------------------------------------------------------
(* The theorems.                                                            *)

LEMMA InitialTypes ==
    ASSUME Init
    PROVE  Types
<1>1. /\ setup \in Setups /\ files = setup.files
      /\ channel = << >> /\ sent = << >> /\ batch = None
      /\ staged = None /\ latest = None /\ observed = None /\ calibrating = None
      /\ vpc = "acquire" /\ camera = FirstCamera
      /\ batchIndex = 0 /\ previousTime = -1
  BY DEF Init
<1>2. Fixed /\ FilesOK /\ setup.pool \in Nat \ {0}
  BY <1>1, SetupFits DEF Fixed
<1>3. Flags
  <2>1. stopRequested = FALSE /\ healthy = TRUE /\ closed = FALSE
    BY DEF Init
  <2> QED
    BY <2>1 DEF Flags
<1>4. Places
  <2>1. raw \in [Cameras -> Slots] /\ turned \in [Cameras -> Slots]
    <3>1. 0 \in Slots
      BY <1>2 DEF Slots
    <3> QED
      BY <3>1 DEF Init
  <2>2. memory = [k \in Kinds |-> [c \in Cameras |-> [s \in 1 .. setup.pool |-> << >>]]]
    BY DEF Init
  <2> QED
    BY <1>1, <2>1, <2>2, CamerasInOrder DEF Places
<1>5. Holders
  BY <1>1, EmptySeq DEF Holders
<1>6. Counts
  BY <1>1, EmptySeq, ChannelAssumption DEF Counts
<1>7. ReadersTypeOK
  <2>1. Opened(1) \in Readers /\ Pending \in Results
    BY <1>2, OpenedFits DEF Results
  <2>2. reader = [c \in Cameras |-> Opened(1)] /\ result = [c \in Cameras |-> Pending]
    BY DEF Init
  <2> QED
    BY <2>1, <2>2 DEF ReadersTypeOK
<1> QED
  BY <1>2, <1>3, <1>4, <1>5, <1>6, <1>7 DEF Types

LEMMA InitialInv ==
    ASSUME Init
    PROVE  Inv
<1>1. Types /\ FilesOK
  BY InitialTypes, SetupFits DEF Types
<1>2. /\ vpc = "acquire" /\ camera = FirstCamera /\ channel = << >> /\ sent = << >>
      /\ batch = None /\ staged = None /\ latest = None /\ observed = None /\ calibrating = None
      /\ \A c \in Cameras : result[c] = Pending /\ reader[c] = Opened(1)
  BY DEF Init
<1>3. BuffersAreHeld
  <2>1. Cameras \subseteq Nat /\ FirstCamera \in Cameras /\ \A c \in Cameras : FirstCamera <= c
    BY CamerasInOrder
  <2>2. ASSUME NEW c \in Cameras
        PROVE  ~(c < camera)
    <3>1. c \in Nat /\ camera \in Nat /\ camera <= c
      BY <1>2, <2>1
    <3> QED
      BY <3>1
  <2> QED
    BY <1>2, <2>2 DEF BuffersAreHeld
<1>4. Packets = {}
  BY <1>2, EmptySeq DEF Packets
<1>5. SlotsAreMine /\ HeldFramesAreIntact
  BY <1>2, <1>4 DEF SlotsAreMine, HeldFramesAreIntact
<1>6. ReadInOrder /\ DecodedIsThere
  BY <1>2 DEF ReadInOrder, DecodedIsThere
<1>7. Len(sent) = 0 /\ 1 .. Len(sent) = {} /\ 1 .. Len(sent) - 1 = {}
  BY <1>2, EmptySeq
<1>8. TimesIncrease /\ TimesGoOn
  BY <1>2, <1>7 DEF TimesIncrease, TimesGoOn
<1>9. ReadersFit
  <2> SUFFICES ASSUME NEW c \in Cameras
               PROVE  ReaderFits(c)
    BY DEF ReadersFit
  <2>1. reader[c] = Opened(1) /\ result[c] = Pending
    BY <1>2
  <2>2. Submitted(c) = {}
    BY <1>1, <2>1, OpenedFits, VideoPacketsFinite DEF Submitted
  <2>3. Cardinality({}) = 0 /\ Len(<< >>) = 0
    BY FS_EmptySet, EmptySeq
  <2> QED
    BY <1>1, <2>1, <2>2, <2>3, OpenedFits DEF ReaderFits, Pending, Nothing
<1>10. \A c \in Cameras : reader[c].pass = 1 /\ Round(c) = 0 /\ result[c] \notin FrameResults
  <2>1. Opened(1).pass = 1 /\ Opened(1).count = 0
    BY <1>1, OpenedFits
  <2> QED
    BY <1>2, <2>1, NoFrameResults DEF Round
<1>11. Lockstep /\ FirstPass /\ SentTogether
  BY <1>7, <1>10 DEF Lockstep, FirstPass, SentTogether
<1>12. Reasons
  <2>1. closed = FALSE
    BY DEF Init
  <2> QED
    BY <1>2, <2>1 DEF Reasons
<1> QED
  BY <1>1, <1>3, <1>5, <1>6, <1>8, <1>9, <1>11, <1>12 DEF Inv

LEMMA InvKept ==
    ASSUME Inv, [Next]_vars
    PROVE  Inv'
BY TypesKept, BuffersStayHeld, SlotsStayMine, FramesStayIntact, ReadStaysInOrder,
   DecodedStaysThere, TimesKeepIncreasing, ReadersStayFit, StaysInLockstep,
   BatchesStayTogether, ReasonsStay DEF Inv

\* The invariant holds in every state of the stage.
THEOREM Kept == Spec => []Inv
<1>1. Init => Inv
  BY InitialInv
<1>2. Inv /\ [Next]_vars => Inv'
  BY InvKept
<1> QED
  BY <1>1, <1>2, PTL DEF Spec

\* A slot of the frame pool is not written again while somebody holds a packet
\* with it (FramePool.cpp, the leases of SynchronizedVideoStage::Impl::run).
THEOREM FramesAreKept == Spec => []FramesAreSound
<1>1. Inv => FramesAreSound
  BY DEF Inv, Types, Flags, Places, Counts, TypeOK, FramesAreSound
<1> QED
  BY <1>1, Kept, PTL

\* The capture times of the batches grow strictly (the source time rule of
\* SynchronizedVideoStage::Impl::run).
THEOREM TimesGrow == Spec => []TimesIncrease
<1>1. Inv => TimesIncrease
  BY DEF Inv
<1> QED
  BY <1>1, Kept, PTL

\* A run that was left alone and ends well has sent all frames of all files,
\* those with the same number together (the end of the loop of
\* SynchronizedVideoStage::Impl::run, the flush of VideoFileReader::read_next).
THEOREM NothingIsCut == Spec => []EveryFrameOrAnError
<1>1. ASSUME Inv
      PROVE  EveryFrameOrAnError
  <2>1. /\ SentTogether /\ ReadersTypeOK /\ ReadersFit /\ FirstPass /\ FilesOK
        /\ Len(sent) \in Nat /\ sent \in Seq(SentBatches)
    BY <1>1, SentTyped, SetupFits DEF Inv, Types, Counts
  <2>2. DOMAIN sent = 1 .. Len(sent)
    BY <2>1, LenProperties
  <2>3. ASSUME vpc = "done", healthy, ~stopRequested, NEW c \in Cameras
        PROVE  {sent[k].frame[c] : k \in DOMAIN sent}
                 = {<<1, n>> : n \in 1 .. Cardinality(VideoPackets(files[c]))}
    <3>1. ~setup.loop /\ result[c] = Nothing
      BY <1>1, <2>3 DEF Inv, Reasons
    <3>2. reader[c].flushed /\ reader[c].inside = << >> /\ reader[c].eof
          /\ Submitted(c) = VideoPackets(files[c])
          /\ reader[c].count + Len(reader[c].inside) = Cardinality(Submitted(c))
      BY <2>1, <3>1 DEF ReadersFit, ReaderFits, Drained
    <3>3. Round(c) = reader[c].count /\ reader[c].count \in Nat
      BY <2>1, <3>1, NoFrameResults, RoundTyped DEF Round
    <3>4. Len(sent) = Cardinality(VideoPackets(files[c]))
      <4>1. Len(reader[c].inside) = 0
        BY <3>2, EmptySeq
      <4>2. Round(c) = Len(sent)
        BY <2>1, <3>1 DEF FirstPass
      <4> QED
        BY <3>2, <3>3, <4>1, <4>2
    <3>5. \A k \in 1 .. Len(sent) : sent[k].frame[c] = <<1, k>>
      BY <2>1, <3>1 DEF FirstPass
    <3> QED
      BY <2>2, <3>4, <3>5
  <2> QED
    BY <2>1, <2>2, <2>3 DEF SentTogether, EveryFrameOrAnError
<1> QED
  BY <1>1, Kept, PTL

=============================================================================
