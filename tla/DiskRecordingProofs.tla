------------------------ MODULE DiskRecordingProofs -------------------------
(* Proofs about DiskRecording and its writers, for every set of cameras and *)
(* destinations, every capacity of the queue and of the encoders, and any   *)
(* number of packets and commands.                                          *)
EXTENDS DiskRecording, DataTheorems

-----------------------------------------------------------------------------
(* Types, one part per group of variables *)

Entries == [kind : {"packet"}, packet : Packets] \cup [kind : Operations, by : Callers]
Records == [state : {"none", "null", "open"}, to : Destinations \cup {0},
            held : Seq(Packets), muxed : Seq(Packets), accepted : Nat, last : Nat \cup {-1}]
DiskFiles == [state : {"absent", "partial", "final"}, content : Seq(Packets)]

FlagsTypeOK ==
    /\ inputClosed \in BOOLEAN /\ queueClosed \in BOOLEAN
    /\ running \in BOOLEAN /\ accepting \in BOOLEAN
    /\ failed \in BOOLEAN /\ gauge \in BOOLEAN
    /\ stopping \in {"no", "begin", "coordinator", "preview", "worker", "gauge", "done"}
QueueTypeOK ==
    /\ mutex \in Callers \cup {"free", "coordinator"}
    /\ queue \in Seq(Entries) /\ Len(queue) <= DiskCapacity
    /\ coordinator \in {"receive", "lock", "send", "done"}
    /\ arrived \in 0 .. MaxPackets
    /\ coordinator \in {"lock", "send"} => arrived \in Packets
    /\ admitted \in Seq(Packets)
WorkerTypeOK ==
    /\ worker \in {"receive", "write", "fail", "fail2", "done"}
    /\ packet \in 0 .. MaxPackets /\ (worker = "write" => packet \in Packets)
    /\ todo \subseteq Cameras
    /\ broken \in BOOLEAN
    /\ destination \in Destinations
    /\ writers \in [Cameras -> Records]
    /\ files \in [Destinations -> [Cameras -> DiskFiles]]
CallersTypeOK ==
    /\ op \in [Callers -> Operations \cup {"none"}]
    /\ pc \in [Callers -> {"idle", "lock", "send", "await", "gauge"}]
    /\ answer \in [Callers -> Results]
    /\ commands \in 0 .. MaxCommands
    /\ \A t \in Callers : pc[t] # "idle" => op[t] \in Operations

TypeParts == FlagsTypeOK /\ QueueTypeOK /\ WorkerTypeOK /\ CallersTypeOK

LEMMA EntryKinds ==
    ASSUME NEW e \in Entries
    PROVE  /\ e.kind \in Operations \cup {"packet"}
           /\ e.kind = "packet" => e.packet \in Packets
           /\ e.kind # "packet" => e.kind \in Operations /\ e.by \in Callers
BY DEF Entries, Operations

LEMMA PartsImplyType == TypeParts => TypeOK
<1> SUFFICES ASSUME TypeParts
             PROVE  TypeOK
  OBVIOUS
<1>1. {inputClosed, running, accepting, failed, gauge, queueClosed, broken} \subseteq BOOLEAN
  BY DEF TypeParts, FlagsTypeOK, WorkerTypeOK
<1>2. \A i \in 1 .. Len(queue) : queue[i].kind \in Operations \cup {"packet"}
  <2>1. \A i \in 1 .. Len(queue) : queue[i] \in Entries
    BY DEF TypeParts, QueueTypeOK
  <2> QED
    BY <2>1, EntryKinds
<1>3. \A c \in Cameras :
          /\ writers[c].state \in {"none", "null", "open"}
          /\ \A d \in Destinations : files[d][c].state \in {"absent", "partial", "final"}
  BY DEF TypeParts, WorkerTypeOK, Records, DiskFiles
<1> QED
  BY <1>1, <1>2, <1>3
     DEF TypeOK, TypeParts, FlagsTypeOK, QueueTypeOK, WorkerTypeOK, CallersTypeOK

LEMMA FlagsTypeStep ==
    ASSUME TypeParts, [Next]_vars
    PROVE  FlagsTypeOK'
<1> USE DEF TypeParts, FlagsTypeOK, flags
<1>1. CASE CoordinatorStep
  BY <1>1 DEF CoordinatorStep
<1>2. CASE InputEnds \/ UNCHANGED vars
  BY <1>2 DEF InputEnds, vars
<1>3. CASE WorkerStep
  BY <1>3
     DEF WorkerStep, WorkerTakesPacket, WorkerOpens, WorkerWrites, WorkerBreaks,
         WorkerMarksFailed, WorkerStarts, WorkerStops, WorkerConfigures, WorkerEnds
<1>4. CASE CommandStep
  <2>1. UNCHANGED <<running, inputClosed, queueClosed, stopping>>
    BY <1>4 DEF CommandStep, Call, CallerStep, Lock, SendCommand, Answered, Return
  <2>2. ASSUME NEW o \in Operations, Call(o)
        PROVE  UNCHANGED <<accepting, failed, gauge>>
    BY <2>2 DEF Call
  <2>3. ASSUME NEW t \in Callers, CallerStep(t)
        PROVE  accepting' \in BOOLEAN /\ failed' \in BOOLEAN /\ gauge' \in BOOLEAN
    <3>1. CASE Lock(t)
      BY <3>1 DEF Lock
    <3>2. CASE SendCommand(t)
      BY <3>2 DEF SendCommand
    <3>3. CASE Answered(t)
      BY <3>3 DEF Answered
    <3>4. CASE Return(t)
      BY <3>4 DEF Return
    <3> QED
      BY <2>3, <3>1, <3>2, <3>3, <3>4 DEF CallerStep
  <2> QED
    BY <1>4, <2>1, <2>2, <2>3 DEF CommandStep
<1>5. CASE Stop
  BY <1>5 DEF Stop, StopStep
<1> QED
  BY <1>1, <1>2, <1>3, <1>4, <1>5 DEF Next

LEMMA QueueTypeStep ==
    ASSUME TypeParts, [Next]_vars
    PROVE  QueueTypeOK'
<1> USE DEF TypeParts, QueueTypeOK, Full
<1>1. CASE CoordinatorStep
  <2>1. CASE CoordinatorReceives
    <3>1. arrived + 1 \in Packets /\ arrived + 1 \in 0 .. MaxPackets
      BY <2>1, DiskAssumption DEF CoordinatorReceives, Packets
    <3> QED
      BY <2>1, <3>1 DEF CoordinatorReceives
  <2>2. CASE CoordinatorEnds
    BY <2>2 DEF CoordinatorEnds
  <2>3. CASE CoordinatorLocks
    <3>1. Append(admitted, arrived) \in Seq(Packets)
      BY <2>3, Appended DEF CoordinatorLocks
    <3> QED
      BY <2>3, <3>1 DEF CoordinatorLocks
  <2>4. CASE CoordinatorSends
    <3> DEFINE e == [kind |-> "packet", packet |-> arrived]
    <3>1. e \in Entries
      BY <2>4 DEF CoordinatorSends, Entries
    <3>2. /\ Append(queue, e) \in Seq(Entries)
          /\ Len(queue) \in Nat /\ Len(Append(queue, e)) = Len(queue) + 1
      BY <3>1, Appended
    <3>3. queue' \in Seq(Entries) /\ Len(queue') <= DiskCapacity
      BY <2>4, <3>2, DiskAssumption DEF CoordinatorSends
    <3> QED
      BY <2>4, <3>3 DEF CoordinatorSends
  <2> QED
    BY <1>1, <2>1, <2>2, <2>3, <2>4 DEF CoordinatorStep
<1>2. CASE InputEnds \/ UNCHANGED vars \/ Stop
  BY <1>2 DEF InputEnds, vars, Stop
<1>3. CASE WorkerStep
  <2>1. queue' = queue \/ (queue # <<>> /\ queue' = Tail(queue))
    BY <1>3
       DEF WorkerStep, WorkerTakesPacket, WorkerOpens, WorkerWrites, WorkerBreaks,
           WorkerMarksFailed, WorkerStarts, WorkerStops, WorkerConfigures, WorkerEnds, Work
  <2>2. ASSUME queue # <<>>
        PROVE  Tail(queue) \in Seq(Entries) /\ Len(Tail(queue)) <= DiskCapacity
    <3>1. Tail(queue) \in Seq(Entries) /\ Len(Tail(queue)) = Len(queue) - 1 /\ Len(queue) \in Nat
      BY <2>2, Popped
    <3> QED
      BY <3>1, DiskAssumption
  <2>3. queue' \in Seq(Entries) /\ Len(queue') <= DiskCapacity
    BY <2>1, <2>2
  <2> QED
    BY <1>3, <2>3 DEF WorkerStep
<1>4. CASE CommandStep
  <2>1. ASSUME NEW t \in Callers, SendCommand(t)
        PROVE  queue' \in Seq(Entries) /\ Len(queue') <= DiskCapacity /\ admitted' \in Seq(Packets)
    <3> DEFINE e == [kind |-> op[t], by |-> t]
    <3>1. e \in Entries
      BY <2>1 DEF SendCommand, At, CallersTypeOK, Entries
    <3>2. /\ Append(queue, e) \in Seq(Entries)
          /\ Len(queue) \in Nat /\ Len(Append(queue, e)) = Len(queue) + 1
      BY <3>1, Appended
    <3>3. <<>> \in Seq(Packets)
      BY EmptySeq
    <3>4. CASE queueClosed
      BY <2>1, <3>4 DEF SendCommand
    <3>5. CASE ~queueClosed
      <4>1. queue' = Append(queue, e) /\ ~(Len(queue) >= DiskCapacity)
        BY <2>1, <3>5 DEF SendCommand
      <4>2. Len(queue') <= DiskCapacity
        BY <3>2, <4>1, DiskAssumption
      <4> QED
        BY <2>1, <3>2, <3>3, <4>1, <4>2 DEF SendCommand
    <3> QED
      BY <3>4, <3>5
  <2>2. CASE \E o \in Operations : Call(o)
    BY <1>4, <2>2 DEF CommandStep, Call
  <2>3. ASSUME NEW t \in Callers, CallerStep(t)
        PROVE  QueueTypeOK'
    <3>1. UNCHANGED <<coordinator, arrived>> /\ mutex' \in {mutex, t, "free"}
      BY <1>4, <2>3 DEF CommandStep, CallerStep, Lock, SendCommand, Answered, Return
    <3>2. UNCHANGED <<queue, admitted>> \/ SendCommand(t)
      BY <2>3 DEF CallerStep, Lock, Answered, Return
    <3> QED
      BY <2>1, <3>1, <3>2
  <2> QED
    BY <1>4, <2>2, <2>3 DEF CommandStep
<1> QED
  BY <1>1, <1>2, <1>3, <1>4 DEF Next

LEMMA CallersTypeStep ==
    ASSUME TypeParts, [Next]_vars
    PROVE  CallersTypeOK'
<1> USE DEF TypeParts, CallersTypeOK
<1>1. CASE CoordinatorStep \/ InputEnds \/ UNCHANGED vars
  BY <1>1 DEF CoordinatorStep, InputEnds, vars, callerVars
<1>2. CASE WorkerStep
  <2>1. UNCHANGED <<op, pc, commands>>
    BY <1>2 DEF WorkerStep
  <2>2. UNCHANGED answer
        \/ \E t \in Callers, r \in Results : answer' = [answer EXCEPT ![t] = r]
    <3>1. CASE WorkerTakesPacket \/ WorkerOpens \/ WorkerWrites \/ WorkerBreaks
               \/ WorkerMarksFailed \/ WorkerEnds
      BY <3>1
         DEF WorkerTakesPacket, WorkerOpens, WorkerWrites, WorkerBreaks, WorkerMarksFailed,
             WorkerEnds
    <3>2. CASE WorkerStarts \/ WorkerStops \/ WorkerConfigures
      <4>1. queue # <<>> /\ Head(queue).kind \in Operations
        BY <3>2 DEF WorkerStarts, WorkerStops, WorkerConfigures, Work, Operations
      <4>2. Head(queue) \in Entries
        BY <4>1, Popped DEF QueueTypeOK
      <4>3. Head(queue).by \in Callers
        BY <4>1, <4>2, EntryKinds DEF Operations
      <4>4. \E r \in Results : answer' = [answer EXCEPT ![Head(queue).by] = r]
        BY <3>2 DEF WorkerStarts, WorkerStops, WorkerConfigures, Fulfil, Results
      <4> QED
        BY <4>3, <4>4
    <3> QED
      BY <1>2, <3>1, <3>2 DEF WorkerStep
  <2>3. answer' \in [Callers -> Results]
    BY <2>2
  <2> QED
    BY <2>1, <2>3
<1>3. CASE CommandStep
  <2>1. ASSUME NEW o \in Operations, Call(o)
        PROVE  CallersTypeOK'
    <3>1. commands' \in 0 .. MaxCommands
      BY <2>1, DiskAssumption DEF Call
    <3>2. /\ op' \in [Callers -> Operations \cup {"none"}]
          /\ pc' \in [Callers -> {"idle", "lock", "send", "await", "gauge"}]
          /\ UNCHANGED answer
      BY <2>1 DEF Call, Goto, Callers
    <3>3. \A t \in Callers : pc'[t] # "idle" => op'[t] \in Operations
      BY <2>1 DEF Call, Goto, Callers
    <3> QED
      BY <3>1, <3>2, <3>3
  <2>2. ASSUME NEW t \in Callers, CallerStep(t)
        PROVE  CallersTypeOK'
    <3>1. CASE Lock(t)
      BY <3>1 DEF Lock, Goto, At
    <3>2. CASE SendCommand(t)
      BY <3>2 DEF SendCommand, Goto, At, Results
    <3>3. CASE Answered(t)
      BY <3>3 DEF Answered, Goto, At
    <3>4. CASE Return(t)
      BY <3>4 DEF Return, Goto, Results
    <3> QED
      BY <2>2, <3>1, <3>2, <3>3, <3>4 DEF CallerStep
  <2> QED
    BY <1>3, <2>1, <2>2 DEF CommandStep
<1>4. CASE Stop
  BY <1>4 DEF Stop, StopStep, Goto, Callers, Operations
<1> QED
  BY <1>1, <1>2, <1>3, <1>4 DEF Next


-----------------------------------------------------------------------------
(* The encoder gives out what it holds in the order it got it, and loses    *)
(* frames only as they come in.                                             *)

Content(w) == w.muxed \o w.held

LEMMA Regrouped ==
    \A s, t, u \in Seq(Packets) : (s \o t) \o u = s \o (t \o u)
BY ConcatAssociative

LEMMA ContentIsSequence ==
    ASSUME NEW w \in Records
    PROVE  /\ w.muxed \in Seq(Packets) /\ w.held \in Seq(Packets)
           /\ Content(w) \in Seq(Packets)
           /\ Len(w.held) \in Nat /\ Len(w.muxed) \in Nat
           /\ Len(Content(w)) = Len(w.muxed) + Len(w.held)
<1>1. w.muxed \in Seq(Packets) /\ w.held \in Seq(Packets)
  BY DEF Records
<1> QED
  BY <1>1, ConcatProperties, LenProperties DEF Content

LEMMA EmittedKeeps ==
    ASSUME NEW w \in Records, NEW n \in 0 .. Len(w.held)
    PROVE  /\ Emitted(w, n) \in Records
           /\ Emitted(w, n).state = w.state /\ Emitted(w, n).to = w.to
           /\ Emitted(w, n).accepted = w.accepted /\ Emitted(w, n).last = w.last
           /\ Content(Emitted(w, n)) = Content(w)
           /\ n = Len(w.held) => Emitted(w, n).muxed = Content(w)
<1> DEFINE out == SubSeq(w.held, 1, n)
           rest == SubSeq(w.held, n + 1, Len(w.held))
<1>1. w.muxed \in Seq(Packets) /\ w.held \in Seq(Packets) /\ Len(w.held) \in Nat
  BY ContentIsSequence
<1>2. \A i \in 1 .. Len(w.held) : w.held[i] \in Packets
  BY <1>1, ElementOfSeq
<1>3. out \in Seq(Packets) /\ rest \in Seq(Packets)
  <2>1. \A i \in 1 .. n : w.held[i] \in Packets
    BY <1>1, <1>2
  <2>2. \A i \in n + 1 .. Len(w.held) : w.held[i] \in Packets
    BY <1>1, <1>2
  <2> QED
    BY <1>1, <2>1, <2>2, SubSeqProperties
<1>4. out \o rest = w.held
  <2>1. SubSeq(w.held, 1, n) \o SubSeq(w.held, n + 1, Len(w.held)) = SubSeq(w.held, 1, Len(w.held))
    <3>1. /\ 1 \in 1 .. Len(w.held) + 1
          /\ n \in 1 - 1 .. Len(w.held)
          /\ Len(w.held) \in n .. Len(w.held)
      BY <1>1
    <3> QED
      BY <1>1, <3>1, ConcatAdjacentSubSeq
  <2> QED
    BY <1>1, <2>1, SubSeqFull
<1>5. w.muxed \o out \in Seq(Packets) /\ (w.muxed \o out) \o rest = w.muxed \o w.held
  <2> HIDE DEF out, rest
  <2>1. w.muxed \o out \in Seq(Packets)
    BY <1>1, <1>3, ConcatProperties
  <2>2. (w.muxed \o out) \o rest = w.muxed \o (out \o rest)
    BY <1>1, <1>3, Regrouped
  <2> QED
    BY <1>4, <2>1, <2>2
<1>6. /\ Emitted(w, n).held = rest /\ Emitted(w, n).muxed = w.muxed \o out
      /\ Emitted(w, n).state = w.state /\ Emitted(w, n).to = w.to
      /\ Emitted(w, n).accepted = w.accepted /\ Emitted(w, n).last = w.last
  BY DEF Emitted, Records
<1>7. Emitted(w, n) \in Records
  <2> HIDE DEF out, rest
  <2>1. Emitted(w, n) = [w EXCEPT !.held = rest, !.muxed = w.muxed \o out]
    BY DEF Emitted, Records, out, rest
  <2> QED
    BY <1>3, <1>5, <2>1 DEF Records
<1>8. n = Len(w.held) => out = w.held
  BY <1>1, SubSeqFull
<1> QED
  BY <1>5, <1>6, <1>7, <1>8 DEF Content

LEMMA SentKeeps ==
    ASSUME NEW w \in Records, NEW frame \in Packets, NEW s \in Sent(w, frame)
    PROVE  /\ s \in Records
           /\ s.state = w.state /\ s.to = w.to /\ s.accepted = w.accepted
           /\ Content(s) = Content(w) \/ Content(s) = Append(Content(w), frame)
<1> DEFINE room == IF Len(w.held) < EncoderDepth THEN {w}
                   ELSE {Emitted(w, n) : n \in 1 .. EncoderDepth}
<1>1. PICK r \in room : s = r \/ s = [r EXCEPT !.held = Append(@, frame)]
  BY DEF Sent
<1>2. /\ r \in Records /\ r.state = w.state /\ r.to = w.to /\ r.accepted = w.accepted
      /\ Content(r) = Content(w)
  <2>1. CASE Len(w.held) < EncoderDepth
    BY <1>1, <2>1
  <2>2. CASE ~(Len(w.held) < EncoderDepth)
    <3>1. PICK n \in 1 .. EncoderDepth : r = Emitted(w, n)
      BY <1>1, <2>2
    <3>2. n \in 0 .. Len(w.held)
      BY <2>2, ContentIsSequence, WriterAssumption
    <3> QED
      BY <3>1, <3>2, EmittedKeeps
  <2> QED
    BY <2>1, <2>2
<1>3. CASE s = r
  BY <1>2, <1>3
<1>4. CASE s = [r EXCEPT !.held = Append(@, frame)]
  <2>1. r.muxed \in Seq(Packets) /\ r.held \in Seq(Packets)
    BY <1>2, ContentIsSequence
  <2>2. Append(r.held, frame) \in Seq(Packets)
    BY <2>1, AppendProperties
  <2>3. /\ s \in Records /\ s.held = Append(r.held, frame) /\ s.muxed = r.muxed
        /\ s.state = r.state /\ s.to = r.to /\ s.accepted = r.accepted
    BY <1>2, <1>4, <2>2 DEF Records
  <2>4. <<frame>> \in Seq(Packets)
    OBVIOUS
  <2>5. r.muxed \o Append(r.held, frame) = Append(r.muxed \o r.held, frame)
    <3>1. Append(r.held, frame) = r.held \o <<frame>>
      BY <2>1, AppendIsConcat
    <3>2. r.muxed \o r.held \in Seq(Packets)
      BY <2>1, ConcatProperties
    <3>3. Append(r.muxed \o r.held, frame) = (r.muxed \o r.held) \o <<frame>>
      BY <3>2, AppendIsConcat
    <3>4. (r.muxed \o r.held) \o <<frame>> = r.muxed \o (r.held \o <<frame>>)
      BY <2>1, <2>4, Regrouped
    <3> QED
      BY <3>1, <3>3, <3>4
  <2> QED
    BY <1>2, <2>3, <2>5 DEF Content
<1> QED
  BY <1>1, <1>3, <1>4

\* One write: the frame is counted, and is the last of the content or lost.
LEMMA WriteEffect ==
    ASSUME WorkerTypeOK, NEW c \in Cameras, NEW frame \in Packets, Write(c, frame)
    PROVE  \E r \in Records :
              /\ writers' = [writers EXCEPT ![c] = r]
              /\ writers[c].state = "open" /\ r.state = "open" /\ r.to = writers[c].to
              /\ r.accepted = writers[c].accepted + 1
              /\ \/ Content(r) = Content(writers[c])
                 \/ Content(r) = Append(Content(writers[c]), frame)
<1>1. writers[c] \in Records
  BY DEF WorkerTypeOK
<1>2. PICK s \in Sent(writers[c], frame) : \E w \in Drained(s) :
          writers' = [writers EXCEPT ![c] = [w EXCEPT !.accepted = @ + 1, !.last = Time[frame]]]
  BY DEF Write
<1>3. PICK w \in Drained(s) :
          writers' = [writers EXCEPT ![c] = [w EXCEPT !.accepted = @ + 1, !.last = Time[frame]]]
  BY <1>2
<1>4. /\ s \in Records /\ s.state = writers[c].state /\ s.to = writers[c].to
      /\ s.accepted = writers[c].accepted
      /\ \/ Content(s) = Content(writers[c])
         \/ Content(s) = Append(Content(writers[c]), frame)
  BY <1>1, <1>2, SentKeeps
<1>5. PICK n \in 0 .. Len(s.held) : w = Emitted(s, n)
  BY <1>3 DEF Drained
<1>6. /\ w \in Records /\ w.state = s.state /\ w.to = s.to /\ w.accepted = s.accepted
      /\ Content(w) = Content(s)
  BY <1>4, <1>5, EmittedKeeps
<1> DEFINE r == [w EXCEPT !.accepted = @ + 1, !.last = Time[frame]]
<1>7. Time[frame] \in Nat
  BY DiskAssumption DEF Packets
<1>8. /\ r \in Records /\ r.state = w.state /\ r.to = w.to /\ r.accepted = w.accepted + 1
      /\ r.held = w.held /\ r.muxed = w.muxed
  <2>1. w.accepted + 1 \in Nat
    BY <1>6 DEF Records
  <2> QED
    BY <1>6, <1>7, <2>1 DEF Records
<1>9. Content(r) = Content(w)
  BY <1>8 DEF Content
<1>10. writers[c].state = "open"
  BY DEF Write
<1> QED
  BY <1>3, <1>4, <1>6, <1>8, <1>9, <1>10


LEMMA NoWriterIsRecord ==
    /\ NoWriter \in Records
    /\ \A d \in Destinations :
          LET w == [NoWriter EXCEPT !.state = "open", !.to = d] IN
          /\ w \in Records /\ w.state = "open" /\ w.to = d /\ w.accepted = 0
          /\ Content(w) = <<>>
    /\ NoWriter.state = "none" /\ NoWriter.accepted = 0
    /\ Content(NoWriter) = <<>>
<1>1. <<>> \in Seq(Packets) /\ <<>> \o <<>> = <<>>
  BY EmptySeq, ConcatEmptySeq
<1>2. -1 \in Nat \cup {-1} /\ 0 \in Nat
  OBVIOUS
<1>3. NoWriter \in Records
  BY <1>1, <1>2 DEF NoWriter, Records
<1>4. ASSUME NEW d \in Destinations
      PROVE  LET w == [NoWriter EXCEPT !.state = "open", !.to = d] IN
             /\ w \in Records /\ w.state = "open" /\ w.to = d /\ w.accepted = 0
             /\ Content(w) = <<>>
  <2> DEFINE w == [NoWriter EXCEPT !.state = "open", !.to = d]
  <2>1. /\ w \in Records /\ w.state = "open" /\ w.to = d /\ w.accepted = 0
        /\ w.held = <<>> /\ w.muxed = <<>>
    BY <1>1, <1>2 DEF NoWriter, Records
  <2> QED
    BY <1>1, <2>1 DEF Content
<1> QED
  BY <1>1, <1>3, <1>4 DEF NoWriter, Content

LEMMA PartialFiles ==
    ASSUME WorkerTypeOK, NEW c \in Cameras, Partial(destination, c)
    PROVE  /\ files' \in [Destinations -> [Cameras -> DiskFiles]]
           /\ \A d \in Destinations, b \in Cameras :
                 files'[d][b] = IF d = destination /\ b = c
                                THEN [files[d][b] EXCEPT !.state = "partial"]
                                ELSE files[d][b]
<1> DEFINE file == [files[destination][c] EXCEPT !.state = "partial"]
<1>1. file \in DiskFiles
  <2>1. files[destination][c] \in DiskFiles
    BY DEF WorkerTypeOK
  <2> QED
    BY <2>1 DEF DiskFiles
<1>2. files' = [files EXCEPT ![destination] = [files[destination] EXCEPT ![c] = file]]
  BY DEF Partial, WorkerTypeOK
<1> HIDE DEF file
<1>3. files[destination] \in [Cameras -> DiskFiles]
  BY DEF WorkerTypeOK
<1>4. [files[destination] EXCEPT ![c] = file] \in [Cameras -> DiskFiles]
  BY <1>1, <1>3
<1>5. files' \in [Destinations -> [Cameras -> DiskFiles]]
  BY <1>2, <1>4 DEF WorkerTypeOK
<1>6. \A d \in Destinations, b \in Cameras :
          files'[d][b] = IF d = destination /\ b = c THEN file ELSE files[d][b]
  BY <1>2, <1>3 DEF WorkerTypeOK
<1> QED
  BY <1>5, <1>6 DEF file

\* What a constructor does: the writer is there and its file is partial, or
\* the map has an entry without a writer and the file may have been created.
LEMMA OpenEffect ==
    ASSUME WorkerTypeOK, NEW c \in Cameras, Open(destination, c)
    PROVE  /\ writers[c].state = "none" /\ files[destination][c].state = "absent"
           /\ writers' = [writers EXCEPT ![c] =
                            [NoWriter EXCEPT !.state = "open", !.to = destination]]
           /\ Partial(destination, c)
           /\ writers' \in [Cameras -> Records]
           /\ files' \in [Destinations -> [Cameras -> DiskFiles]]
<1>1. /\ writers[c].state = "none" /\ files[destination][c].state = "absent"
      /\ writers' = [writers EXCEPT ![c] =
                       [NoWriter EXCEPT !.state = "open", !.to = destination]]
      /\ Partial(destination, c)
  BY DEF Open, Vacant
<1>2. [NoWriter EXCEPT !.state = "open", !.to = destination] \in Records
  BY NoWriterIsRecord DEF WorkerTypeOK
<1>3. writers' \in [Cameras -> Records]
  BY <1>1, <1>2 DEF WorkerTypeOK
<1>4. files' \in [Destinations -> [Cameras -> DiskFiles]]
  BY <1>1, PartialFiles
<1> QED
  BY <1>1, <1>3, <1>4

LEMMA ThrowEffect ==
    ASSUME WorkerTypeOK, NEW c \in Cameras, OpenThrows(destination, c) \/ WriteThrows(c)
    PROVE  /\ \/ UNCHANGED files
              \/ files[destination][c].state = "absent" /\ Partial(destination, c)
           /\ \/ UNCHANGED <<writers, files>>
              \/ /\ writers[c].state = "none"
                 /\ writers' = [writers EXCEPT ![c].state = "null"]
           /\ writers' \in [Cameras -> Records]
           /\ files' \in [Destinations -> [Cameras -> DiskFiles]]
<1>1. CASE WriteThrows(c)
  BY <1>1 DEF WriteThrows, WorkerTypeOK
<1>2. CASE OpenThrows(destination, c)
  <2>1. /\ writers[c].state = "none" /\ writers' = [writers EXCEPT ![c].state = "null"]
        /\ \/ UNCHANGED files
           \/ files[destination][c].state = "absent" /\ Partial(destination, c)
    BY <1>2 DEF OpenThrows, Vacant
  <2>2. writers' \in [Cameras -> Records]
    <3>1. writers[c] \in Records
      BY DEF WorkerTypeOK
    <3>2. [writers[c] EXCEPT !.state = "null"] \in Records
      BY <3>1 DEF Records
    <3>3. writers' = [writers EXCEPT ![c] = [writers[c] EXCEPT !.state = "null"]]
      BY <2>1
    <3> QED
      BY <3>2, <3>3 DEF WorkerTypeOK
  <2>3. files' \in [Destinations -> [Cameras -> DiskFiles]]
    BY <2>1, PartialFiles DEF WorkerTypeOK
  <2> QED
    BY <2>1, <2>2, <2>3
<1> QED
  BY <1>1, <1>2

LEMMA FinalizedEffect ==
    ASSUME WorkerTypeOK, NEW S \in SUBSET Cameras, Finalized(S)
    PROVE  /\ files' \in [Destinations -> [Cameras -> DiskFiles]]
           /\ \A d \in Destinations, c \in Cameras :
                 files'[d][c] = IF c \in S /\ writers[c].to = d
                                THEN [state |-> "final", content |-> Content(writers[c])]
                                ELSE files[d][c]
<1>1. \A c \in Cameras : Flushed(writers[c]).muxed = Content(writers[c])
                         /\ Content(writers[c]) \in Seq(Packets)
  <2> SUFFICES ASSUME NEW c \in Cameras
               PROVE  Flushed(writers[c]).muxed = Content(writers[c])
                      /\ Content(writers[c]) \in Seq(Packets)
    OBVIOUS
  <2>1. writers[c] \in Records
    BY DEF WorkerTypeOK
  <2>2. Len(writers[c].held) \in 0 .. Len(writers[c].held)
    BY <2>1, ContentIsSequence
  <2> QED
    BY <2>1, <2>2, EmittedKeeps, ContentIsSequence DEF Flushed
<1>2. \A d \in Destinations, c \in Cameras :
         files'[d][c] = IF c \in S /\ writers[c].to = d
                        THEN [state |-> "final", content |-> Content(writers[c])]
                        ELSE files[d][c]
  BY <1>1 DEF Finalized
<1>3. files' = [d \in Destinations |-> [c \in Cameras |-> files'[d][c]]]
  BY DEF Finalized
<1>4. \A d \in Destinations, c \in Cameras : files'[d][c] \in DiskFiles
  <2> SUFFICES ASSUME NEW d \in Destinations, NEW c \in Cameras
               PROVE  files'[d][c] \in DiskFiles
    OBVIOUS
  <2>1. files[d][c] \in DiskFiles
    BY DEF WorkerTypeOK
  <2>2. [state |-> "final", content |-> Content(writers[c])] \in DiskFiles
    BY <1>1 DEF DiskFiles
  <2> QED
    BY <1>2, <2>1, <2>2
<1> QED
  BY <1>2, <1>3, <1>4

LEMMA StopEffect ==
    ASSUME WorkerTypeOK, WorkerStops
    PROVE  \/ UNCHANGED files
           \/ /\ ~broken
              /\ \E S \in SUBSET Used : Finalized(S)
<1>1. ASSUME NEW S, S = Used \/ (\E before \in SUBSET Used, bad \in Used :
                                     S = before \/ S = before \cup {bad})
      PROVE  S \in SUBSET Used
  BY <1>1
<1>2. CASE ~broken /\ FinalizeAll
  BY <1>2 DEF FinalizeAll
<1>3. CASE IF broken \/ Used = {} THEN UNCHANGED files ELSE FinalizeSome
  BY <1>1, <1>3 DEF FinalizeSome
<1> QED
  BY <1>2, <1>3 DEF WorkerStops

LEMMA WorkerTypeStep ==
    ASSUME TypeParts, [Next]_vars
    PROVE  WorkerTypeOK'
<1> USE DEF TypeParts
<1>1. CASE CoordinatorStep \/ InputEnds \/ CommandStep \/ Stop \/ UNCHANGED vars
  BY <1>1 DEF CoordinatorStep, InputEnds, CommandStep, Stop, workerVars, vars, WorkerTypeOK
<1>2. ASSUME Clear
      PROVE  writers' \in [Cameras -> Records]
  BY <1>2, NoWriterIsRecord DEF Clear
<1>3. CASE WorkerTakesPacket
  <2>1. queue # <<>> /\ Head(queue).kind = "packet"
    BY <1>3 DEF WorkerTakesPacket, Work
  <2>2. Head(queue).packet \in Packets
    BY <2>1, Popped, EntryKinds DEF QueueTypeOK
  <2>3. Packets \subseteq 0 .. MaxPackets
    BY DEF Packets
  <2> QED
    BY <1>3, <2>2, <2>3 DEF WorkerTakesPacket, WorkerTypeOK
<1>4. CASE WorkerOpens
  <2>1. PICK c \in Cameras : Open(destination, c)
    BY <1>4 DEF WorkerOpens
  <2>2. /\ writers' \in [Cameras -> Records]
        /\ files' \in [Destinations -> [Cameras -> DiskFiles]]
    BY <2>1, OpenEffect
  <2> QED
    BY <1>4, <2>2 DEF WorkerOpens, WorkerTypeOK
<1>5. CASE WorkerWrites
  <2>1. PICK c \in Cameras : worker = "write" /\ Write(c, packet) /\ todo' = todo \ {c}
    BY <1>5 DEF WorkerWrites, Turn
  <2>2. packet \in Packets
    BY <2>1 DEF WorkerTypeOK
  <2>3. writers' \in [Cameras -> Records]
    BY <2>1, <2>2, WriteEffect DEF WorkerTypeOK
  <2>4. UNCHANGED files
    BY <2>1 DEF Write
  <2>5. 0 \in 0 .. MaxPackets
    BY DiskAssumption
  <2> QED
    BY <1>5, <2>1, <2>2, <2>3, <2>4, <2>5 DEF WorkerWrites, WorkerTypeOK
<1>6. CASE WorkerBreaks
  <2>1. PICK c \in Cameras : OpenThrows(destination, c) \/ WriteThrows(c)
    BY <1>6 DEF WorkerBreaks
  <2>2. /\ writers' \in [Cameras -> Records]
        /\ files' \in [Destinations -> [Cameras -> DiskFiles]]
    BY <2>1, ThrowEffect
  <2>3. 0 \in 0 .. MaxPackets
    BY DiskAssumption
  <2> QED
    BY <1>6, <2>2, <2>3 DEF WorkerBreaks, WorkerTypeOK
<1>7. CASE WorkerMarksFailed
  BY <1>7 DEF WorkerMarksFailed, WorkerTypeOK
<1>8. CASE WorkerStarts \/ WorkerEnds
  BY <1>2, <1>8 DEF WorkerStarts, WorkerEnds, WorkerTypeOK
<1>9. CASE WorkerStops
  <2>1. files' \in [Destinations -> [Cameras -> DiskFiles]]
    BY <1>9, StopEffect, FinalizedEffect DEF Used, WorkerTypeOK
  <2> QED
    BY <1>2, <1>9, <2>1 DEF WorkerStops, WorkerTypeOK
<1>10. CASE WorkerConfigures
  BY <1>10 DEF WorkerConfigures, WorkerTypeOK
<1> QED
  BY <1>1, <1>3, <1>4, <1>5, <1>6, <1>7, <1>8, <1>9, <1>10 DEF Next, WorkerStep

LEMMA TypeStep ==
    ASSUME TypeParts, [Next]_vars
    PROVE  TypeParts'
BY FlagsTypeStep, QueueTypeStep, WorkerTypeStep, CallersTypeStep DEF TypeParts

LEMMA TypeStart == Init => TypeParts
<1> SUFFICES ASSUME Init
             PROVE  TypeParts
  OBVIOUS
<1>1. FlagsTypeOK
  BY DEF Init, FlagsTypeOK
<1>2. QueueTypeOK
  <2>1. <<>> \in Seq(Entries) /\ <<>> \in Seq(Packets) /\ Len(<<>>) = 0
    BY EmptySeq
  <2>2. 0 <= DiskCapacity /\ 0 \in 0 .. MaxPackets
    BY DiskAssumption
  <2> QED
    BY <2>1, <2>2 DEF Init, QueueTypeOK
<1>3. WorkerTypeOK
  <2>1. 0 \in 0 .. MaxPackets /\ destination \in Destinations
    BY DiskAssumption, WriterAssumption DEF Init
  <2>2. NoFile \in DiskFiles
    BY EmptySeq DEF NoFile, DiskFiles
  <2>3. /\ writers \in [Cameras -> Records]
        /\ files \in [Destinations -> [Cameras -> DiskFiles]]
    BY <2>2, NoWriterIsRecord DEF Init, WritersInit
  <2> QED
    BY <2>1, <2>3 DEF Init, WorkerTypeOK
<1>4. CallersTypeOK
  <2>1. 0 \in 0 .. MaxCommands
    BY DiskAssumption
  <2> QED
    BY <2>1 DEF Init, CallersTypeOK, Results
<1> QED
  BY <1>1, <1>2, <1>3, <1>4 DEF TypeParts


-----------------------------------------------------------------------------
(* The submission mutex.  A command travels with the mutex in its caller's  *)
(* hand, so it is the last entry of the queue until it is answered.         *)

Submitting == {"send", "await", "gauge"}

MutexIsHeld ==
    /\ \A t \in Callers : mutex = t <=> pc[t] \in Submitting
    /\ mutex = "coordinator" <=> coordinator = "send"

AnswersAreFresh ==
    \A t \in Callers :
        /\ answer[t] # "none" => pc[t] \in {"await", "gauge"}
        /\ pc[t] = "gauge" => answer[t] # "none"

RunnerIsFree == stopping = "no" => pc["runner"] = "idle"

CommandsAreLast ==
    \A i \in 1 .. Len(queue) :
        queue[i].kind # "packet" =>
            LET t == queue[i].by IN
            /\ i = Len(queue)
            /\ pc[t] = "await" /\ answer[t] = "none" /\ op[t] = queue[i].kind

Protocol == MutexIsHeld /\ AnswersAreFresh /\ RunnerIsFree /\ CommandsAreLast

LEMMA NobodyElse ==
    ASSUME MutexIsHeld, TypeParts, NEW t \in Callers, pc[t] \in Submitting
    PROVE  /\ mutex = t /\ coordinator # "send"
           /\ \A s \in Callers : pc[s] \in Submitting => s = t
BY DEF MutexIsHeld, Callers

\* The command at the head of the queue is all there is in it.
LEMMA CommandTaken ==
    ASSUME TypeParts, Protocol, queue # <<>>, Head(queue).kind # "packet"
    PROVE  /\ Len(queue) = 1 /\ Tail(queue) = <<>>
           /\ Head(queue).by \in Callers
           /\ mutex = Head(queue).by /\ coordinator # "send"
           /\ pc[Head(queue).by] = "await" /\ answer[Head(queue).by] = "none"
           /\ op[Head(queue).by] = Head(queue).kind
<1> DEFINE t == Head(queue).by
<1>1. /\ queue \in Seq(Entries) /\ Len(queue) \in Nat \ {0}
      /\ Head(queue) = queue[1] /\ Head(queue) \in Entries
      /\ Tail(queue) \in Seq(Entries) /\ Len(Tail(queue)) = Len(queue) - 1
  BY Popped DEF TypeParts, QueueTypeOK
<1>2. 1 = Len(queue) /\ pc[t] = "await" /\ answer[t] = "none" /\ op[t] = Head(queue).kind
  <2>1. 1 \in 1 .. Len(queue)
    BY <1>1
  <2> QED
    BY <1>1, <2>1 DEF Protocol, CommandsAreLast
<1>3. t \in Callers
  BY <1>1, EntryKinds
<1>4. Tail(queue) = <<>>
  <2>1. Len(queue) - 1 = 0
    BY <1>2
  <2>2. Len(Tail(queue)) = 0
    BY <1>1, <2>1, Zenon
  <2> QED
    BY <1>1, <2>2, EmptySeq
<1>5. mutex = t /\ coordinator # "send"
  BY <1>2, <1>3, NobodyElse DEF Protocol, Submitting
<1> QED
  BY <1>2, <1>3, <1>4, <1>5

\* What the worker does to the queue and to the answers.
LEMMA WorkerOnQueue ==
    ASSUME TypeParts, Protocol, WorkerStep
    PROVE  \/ UNCHANGED <<queue, answer>>
           \/ /\ worker = "receive" /\ queue # <<>> /\ Head(queue).kind = "packet"
              /\ queue' = Tail(queue) /\ UNCHANGED answer
           \/ /\ worker = "receive" /\ queue # <<>> /\ Head(queue).kind # "packet"
              /\ queue' = <<>>
              /\ \E r \in Results \ {"none"} : answer' = [answer EXCEPT ![Head(queue).by] = r]
<1>1. CASE WorkerTakesPacket
  BY <1>1 DEF WorkerTakesPacket, Work
<1>2. CASE WorkerOpens \/ WorkerWrites \/ WorkerBreaks \/ WorkerMarksFailed \/ WorkerEnds
  BY <1>2 DEF WorkerOpens, WorkerWrites, WorkerBreaks, WorkerMarksFailed, WorkerEnds
<1>3. CASE WorkerStarts \/ WorkerStops \/ WorkerConfigures
  <2>1. /\ worker = "receive" /\ queue # <<>> /\ Head(queue).kind # "packet"
        /\ queue' = Tail(queue)
    BY <1>3 DEF WorkerStarts, WorkerStops, WorkerConfigures, Work
  <2>2. \E r \in Results \ {"none"} : answer' = [answer EXCEPT ![Head(queue).by] = r]
    BY <1>3 DEF WorkerStarts, WorkerStops, WorkerConfigures, Fulfil, Results
  <2> QED
    BY <2>1, <2>2, CommandTaken
<1> QED
  BY <1>1, <1>2, <1>3 DEF WorkerStep

\* A new entry goes behind packets only.
LEMMA CommandsStayLast ==
    ASSUME TypeParts, NEW e \in Entries, queue' = Append(queue, e),
           \A i \in 1 .. Len(queue) : queue[i].kind = "packet",
           e.kind # "packet" =>
               pc'[e.by] = "await" /\ answer'[e.by] = "none" /\ op'[e.by] = e.kind
    PROVE  CommandsAreLast'
<1> DEFINE n == Len(queue)
<1>1. /\ n \in Nat /\ Len(queue') = n + 1 /\ queue'[n + 1] = e
      /\ \A i \in 1 .. n : queue'[i] = queue[i]
  BY Appended DEF TypeParts, QueueTypeOK
<1>2. \A i \in 1 .. n + 1 : i \in 1 .. n \/ i = n + 1
  BY <1>1
<1> QED
  BY <1>1, <1>2 DEF CommandsAreLast

LEMMA ProtocolStep ==
    ASSUME TypeParts, Protocol, [Next]_vars
    PROVE  Protocol'
<1> USE DEF Protocol
<1>1. CASE CoordinatorStep
  <2>1. UNCHANGED <<op, pc, answer, stopping>>
    BY <1>1 DEF CoordinatorStep, callerVars
  <2>2. MutexIsHeld'
    BY <1>1, <2>1
       DEF CoordinatorStep, CoordinatorReceives, CoordinatorEnds, CoordinatorLocks,
           CoordinatorSends, MutexIsHeld, Callers
  <2>3. CommandsAreLast'
    <3>1. CASE UNCHANGED queue
      BY <2>1, <3>1 DEF CommandsAreLast
    <3>2. CASE queue' # queue
      <4> DEFINE e == [kind |-> "packet", packet |-> arrived]
      <4>1. coordinator = "send" /\ queue' = Append(queue, e)
        BY <1>1, <3>2
           DEF CoordinatorStep, CoordinatorReceives, CoordinatorEnds, CoordinatorLocks,
               CoordinatorSends
      <4>2. e \in Entries /\ e.kind = "packet"
        BY <4>1 DEF TypeParts, QueueTypeOK, Entries
      <4>3. \A i \in 1 .. Len(queue) : queue[i].kind = "packet"
        <5> SUFFICES ASSUME NEW i \in 1 .. Len(queue), queue[i].kind # "packet"
                     PROVE  FALSE
          OBVIOUS
        <5>1. queue[i].by \in Callers /\ pc[queue[i].by] = "await"
          BY EntryKinds DEF TypeParts, QueueTypeOK, CommandsAreLast
        <5> QED
          BY <4>1, <5>1, NobodyElse DEF Submitting
      <4> QED
        BY <4>1, <4>2, <4>3, CommandsStayLast
    <3> QED
      BY <3>1, <3>2
  <2> QED
    BY <2>1, <2>2, <2>3 DEF AnswersAreFresh, RunnerIsFree
<1>2. CASE InputEnds \/ UNCHANGED vars
  <2>1. UNCHANGED <<op, pc, answer, stopping, queue, mutex, coordinator>>
    BY <1>2 DEF InputEnds, vars, callerVars
  <2> QED
    BY <2>1 DEF MutexIsHeld, AnswersAreFresh, RunnerIsFree, CommandsAreLast
<1>3. CASE WorkerStep
  <2>1. UNCHANGED <<op, pc, stopping, mutex, coordinator>>
    BY <1>3 DEF WorkerStep
  <2>2. MutexIsHeld' /\ RunnerIsFree'
    BY <2>1 DEF MutexIsHeld, RunnerIsFree
  <2>3. CASE UNCHANGED <<queue, answer>>
    BY <2>1, <2>2, <2>3 DEF AnswersAreFresh, CommandsAreLast
  <2>4. CASE queue # <<>> /\ queue' = Tail(queue) /\ UNCHANGED answer
    <3> DEFINE n == Len(queue)
    <3>1. /\ n \in Nat \ {0} /\ Len(queue') = n - 1
          /\ \A i \in 1 .. n - 1 : queue'[i] = queue[i + 1]
      BY <2>4, Popped DEF TypeParts, QueueTypeOK
    <3>2. \A i \in 1 .. n - 1 : i + 1 \in 1 .. n /\ (i + 1 = n => i = n - 1)
      BY <3>1
    <3>3. CommandsAreLast'
      <4> SUFFICES ASSUME NEW i \in 1 .. Len(queue'), queue'[i].kind # "packet"
                   PROVE  /\ i = Len(queue')
                          /\ pc'[queue'[i].by] = "await" /\ answer'[queue'[i].by] = "none"
                          /\ op'[queue'[i].by] = queue'[i].kind
        BY DEF CommandsAreLast
      <4>1. i \in 1 .. n - 1 /\ queue'[i] = queue[i + 1]
        BY <3>1
      <4> HIDE DEF n
      <4>2. i + 1 = n /\ i = n - 1
        BY <3>2, <4>1 DEF CommandsAreLast, n
      <4>3. /\ pc[queue[i + 1].by] = "await" /\ answer[queue[i + 1].by] = "none"
            /\ op[queue[i + 1].by] = queue[i + 1].kind
        BY <3>2, <4>1 DEF CommandsAreLast, n
      <4> QED
        BY <2>1, <2>4, <3>1, <4>1, <4>2, <4>3
    <3> QED
      BY <2>1, <2>2, <2>4, <3>3 DEF AnswersAreFresh
  <2>5. CASE /\ queue # <<>> /\ Head(queue).kind # "packet" /\ queue' = <<>>
             /\ \E r \in Results \ {"none"} : answer' = [answer EXCEPT ![Head(queue).by] = r]
    <3>1. Head(queue).by \in Callers /\ pc[Head(queue).by] = "await"
      BY <2>5, CommandTaken
    <3>2. AnswersAreFresh'
      BY <2>1, <2>5, <3>1 DEF AnswersAreFresh, TypeParts, CallersTypeOK
    <3>3. Len(queue') = 0
      BY <2>5, EmptySeq
    <3> QED
      BY <2>2, <3>2, <3>3 DEF CommandsAreLast
  <2> QED
    BY <1>3, <2>3, <2>4, <2>5, WorkerOnQueue
<1>4. CASE CommandStep
  <2>1. UNCHANGED <<stopping, coordinator>>
    BY <1>4 DEF CommandStep, Call, CallerStep, Lock, SendCommand, Answered, Return
  <2>2. ASSUME NEW o \in Operations, Call(o)
        PROVE  Protocol'
    <3>1. /\ pc["control"] = "idle" /\ UNCHANGED <<mutex, queue, answer>>
          /\ pc' = pc \/ pc' = [pc EXCEPT !["control"] = "lock"]
          /\ op' = op \/ op' = [op EXCEPT !["control"] = o]
      BY <2>2 DEF Call, At, Goto
    <3>2. /\ \A t \in Callers \ {"control"} : pc'[t] = pc[t] /\ op'[t] = op[t]
          /\ pc'["control"] \in {"idle", "lock"}
      BY <3>1 DEF TypeParts, CallersTypeOK, Callers
    <3>3. MutexIsHeld' /\ AnswersAreFresh'
      BY <2>1, <3>1, <3>2 DEF MutexIsHeld, AnswersAreFresh, Submitting
    <3>4. RunnerIsFree'
      BY <2>1, <3>2 DEF RunnerIsFree, Callers
    <3>5. CommandsAreLast'
      <4>1. \A i \in 1 .. Len(queue) : queue[i].kind # "packet" => queue[i].by \in Callers
        BY EntryKinds DEF TypeParts, QueueTypeOK
      <4> QED
        BY <3>1, <3>2, <4>1 DEF CommandsAreLast
    <3> QED
      BY <3>3, <3>4, <3>5
  <2>3. ASSUME NEW t \in Callers, CallerStep(t)
        PROVE  Protocol'
    <3>1. /\ \A s \in Callers \ {t} :
                pc'[s] = pc[s] /\ op'[s] = op[s] /\ answer'[s] = answer[s]
          /\ pc[t] \in {"lock"} \cup Submitting
      BY <2>3
         DEF CallerStep, Lock, SendCommand, Answered, Return, At, Goto, Submitting, TypeParts,
             CallersTypeOK
    <3>2. RunnerIsFree'
      BY <2>1, <3>1 DEF RunnerIsFree, Submitting, Callers
    <3>3. pc[t] = "lock" \/ mutex = t
      BY <3>1 DEF MutexIsHeld
    <3>4. MutexIsHeld'
      BY <2>1, <2>3, <3>1, <3>3
         DEF CallerStep, Lock, SendCommand, Answered, Return, At, Goto, MutexIsHeld, Submitting,
             Callers, TypeParts, CallersTypeOK
    <3>5. AnswersAreFresh'
      BY <2>3, <3>1
         DEF CallerStep, Lock, SendCommand, Answered, Return, At, Goto, AnswersAreFresh,
             TypeParts, CallersTypeOK
    <3>6. \A i \in 1 .. Len(queue) :
             queue[i].kind # "packet" => queue[i].by \in Callers
      BY EntryKinds DEF TypeParts, QueueTypeOK
    <3>7. CASE UNCHANGED queue
      <4>1. pc[t] # "await" \/ answer[t] # "none"
        BY <2>3, <3>7, Appended
           DEF CallerStep, Lock, SendCommand, Answered, Return, At, TypeParts, QueueTypeOK
      <4>2. CommandsAreLast'
        BY <3>1, <3>6, <3>7, <4>1 DEF CommandsAreLast
      <4> QED
        BY <3>2, <3>4, <3>5, <4>2
    <3>8. CASE queue' # queue
      <4> DEFINE e == [kind |-> op[t], by |-> t]
      <4>1. /\ pc[t] = "send" /\ queue' = Append(queue, e)
            /\ pc'[t] = "await" /\ answer'[t] = "none" /\ UNCHANGED op
        BY <2>3, <3>8
           DEF CallerStep, Lock, SendCommand, Answered, Return, At, Goto, TypeParts, CallersTypeOK
      <4>2. e \in Entries
        BY <4>1 DEF TypeParts, CallersTypeOK, Entries
      <4>3. \A i \in 1 .. Len(queue) : queue[i].kind = "packet"
        BY <3>6, <4>1, NobodyElse DEF CommandsAreLast, Submitting
      <4>4. CommandsAreLast'
        BY <4>1, <4>2, <4>3, CommandsStayLast
      <4> QED
        BY <3>2, <3>4, <3>5, <4>4
    <3> QED
      BY <3>7, <3>8
  <2> QED
    BY <1>4, <2>2, <2>3 DEF CommandStep
<1>5. CASE Stop
  <2>1. UNCHANGED <<mutex, queue, coordinator, answer>>
    BY <1>5 DEF Stop
  <2>2. \/ UNCHANGED <<pc, op>> /\ stopping' # "no"
        \/ /\ stopping = "no" /\ stopping' = "begin"
           /\ pc' = [pc EXCEPT !["runner"] = "lock"] /\ op' = [op EXCEPT !["runner"] = "stop"]
    BY <1>5 DEF Stop, StopStep, Goto
  <2>3. CASE UNCHANGED <<pc, op>> /\ stopping' # "no"
    BY <2>1, <2>3 DEF MutexIsHeld, AnswersAreFresh, RunnerIsFree, CommandsAreLast
  <2>4. CASE /\ stopping = "no" /\ stopping' = "begin"
             /\ pc' = [pc EXCEPT !["runner"] = "lock"] /\ op' = [op EXCEPT !["runner"] = "stop"]
    <3>1. pc["runner"] = "idle"
      BY <2>4 DEF RunnerIsFree
    <3>2. /\ \A t \in Callers \ {"runner"} : pc'[t] = pc[t] /\ op'[t] = op[t]
          /\ pc'["runner"] = "lock"
      BY <2>4 DEF TypeParts, CallersTypeOK, Callers
    <3>3. MutexIsHeld' /\ AnswersAreFresh' /\ RunnerIsFree'
      BY <2>1, <2>4, <3>1, <3>2 DEF MutexIsHeld, AnswersAreFresh, RunnerIsFree, Submitting
    <3>4. \A i \in 1 .. Len(queue) : queue[i].kind # "packet" => queue[i].by \in Callers
      BY EntryKinds DEF TypeParts, QueueTypeOK
    <3>5. CommandsAreLast'
      BY <2>1, <3>1, <3>2, <3>4 DEF CommandsAreLast
    <3> QED
      BY <3>3, <3>5
  <2> QED
    BY <2>2, <2>3, <2>4
<1> QED
  BY <1>1, <1>2, <1>3, <1>4, <1>5 DEF Next


-----------------------------------------------------------------------------
(* stop() closes the queue behind the coordinator's back only.              *)

Ending ==
    /\ running <=> stopping \in {"no", "begin"}
    /\ queueClosed <=> stopping \in {"worker", "gauge", "done"}
    /\ queueClosed \/ stopping = "preview" => coordinator = "done"

LEMMA EndingStep ==
    ASSUME TypeParts, Ending, [Next]_vars
    PROVE  Ending'
<1> USE DEF Ending, flags
<1>1. CASE CoordinatorStep
  <2>1. UNCHANGED <<running, queueClosed, stopping>> /\ coordinator # "done"
    BY <1>1
       DEF CoordinatorStep, CoordinatorReceives, CoordinatorEnds, CoordinatorLocks,
           CoordinatorSends
  <2> QED
    BY <2>1
<1>2. CASE InputEnds \/ WorkerStep \/ CommandStep \/ UNCHANGED vars
  <2>1. UNCHANGED <<running, queueClosed, stopping, coordinator>>
    BY <1>2
       DEF InputEnds, WorkerStep, CommandStep, vars, Call, CallerStep, Lock, SendCommand,
           Answered, Return
  <2> QED
    BY <2>1
<1>3. CASE Stop
  <2>1. UNCHANGED coordinator
    BY <1>3 DEF Stop
  <2> QED
    BY <1>3, <2>1 DEF Stop, StopStep
<1> QED
  BY <1>1, <1>2, <1>3 DEF Next

-----------------------------------------------------------------------------
(* When a command has been applied, the worker waits with nothing to do     *)
(* until the caller lets go of the mutex: what the caller does then is as   *)
(* good as done by the worker itself.                                       *)

AppliedLeavesNothing ==
    \A t \in Callers : answer[t] = "Applied" =>
        /\ queue = <<>> /\ worker \in {"receive", "done"}
        /\ op[t] = "start" => ~broken

LEMMA IdleWorker ==
    ASSUME queue = <<>>, worker \in {"receive", "done"}, WorkerStep
    PROVE  /\ WorkerEnds /\ UNCHANGED <<queue, files, destination, answer>>
           /\ worker' = "done" /\ broken' = broken
BY DEF WorkerStep, WorkerTakesPacket, WorkerOpens, WorkerWrites, WorkerBreaks, Turn,
       WorkerMarksFailed, WorkerStarts, WorkerStops, WorkerConfigures, Work, WorkerEnds

\* Only the caller with the mutex has an answer.
LEMMA AnswerIsMine ==
    ASSUME TypeParts, Protocol, NEW t \in Callers, answer[t] # "none"
    PROVE  /\ pc[t] \in {"await", "gauge"} /\ mutex = t /\ coordinator # "send"
           /\ \A s \in Callers : pc[s] \in Submitting => s = t
BY NobodyElse DEF Protocol, AnswersAreFresh, Submitting

LEMMA AppliedStep ==
    ASSUME TypeParts, Protocol, AppliedLeavesNothing, [Next]_vars
    PROVE  AppliedLeavesNothing'
<1> SUFFICES ASSUME NEW t \in Callers, answer'[t] = "Applied"
             PROVE  /\ queue' = <<>> /\ worker' \in {"receive", "done"}
                    /\ op'[t] = "start" => ~broken'
  BY DEF AppliedLeavesNothing
<1>1. CASE answer[t] = "Applied"
  <2>1. /\ pc[t] \in {"await", "gauge"} /\ coordinator # "send"
        /\ \A s \in Callers : pc[s] \in Submitting => s = t
    BY <1>1, AnswerIsMine
  <2>2. queue = <<>> /\ worker \in {"receive", "done"} /\ (op[t] = "start" => ~broken)
    BY <1>1 DEF AppliedLeavesNothing
  <2>3. CASE WorkerStep
    <3>1. queue' = <<>> /\ worker' = "done" /\ broken' = broken
      BY <2>2, <2>3, IdleWorker
    <3>2. op' = op
      BY <2>3 DEF WorkerStep
    <3> QED
      BY <2>2, <3>1, <3>2
  <2>4. CASE CoordinatorStep \/ InputEnds \/ Stop \/ CommandStep \/ UNCHANGED vars
    <3>1. UNCHANGED workerVars
      BY <2>4 DEF CoordinatorStep, InputEnds, Stop, CommandStep, vars
    <3>2. worker' = worker /\ broken' = broken
      BY <3>1 DEF workerVars
    <3>3. queue' = queue
      <4>1. CASE CommandStep
        BY <4>1, <2>1
           DEF CommandStep, Call, CallerStep, Lock, SendCommand, Answered, Return, At, Submitting
      <4> QED
        BY <2>1, <2>4, <4>1
           DEF CoordinatorStep, CoordinatorReceives, CoordinatorEnds, CoordinatorLocks,
               CoordinatorSends, InputEnds, Stop, vars
    <3>4. op'[t] = "start" => op[t] = "start"
      <4>1. CASE CommandStep
        BY <4>1, <2>1
           DEF CommandStep, Call, CallerStep, Lock, SendCommand, Answered, Return, At, TypeParts,
               CallersTypeOK, Callers
      <4>2. CASE Stop
        BY <4>2 DEF Stop, StopStep, TypeParts, CallersTypeOK
      <4> QED
        BY <2>4, <4>1, <4>2 DEF CoordinatorStep, InputEnds, vars, callerVars
    <3> QED
      BY <2>2, <3>2, <3>3, <3>4
  <2> QED
    BY <2>3, <2>4 DEF Next
<1>2. CASE answer[t] # "Applied"
  <2>1. CASE WorkerStep
    <3>1. queue # <<>> /\ Head(queue).kind # "packet" /\ worker = "receive" /\ queue' = <<>>
      BY <1>2, <2>1, WorkerOnQueue
    <3>2. /\ WorkerStarts \/ WorkerStops \/ WorkerConfigures
          /\ worker' = worker
      BY <2>1, <3>1
         DEF WorkerStep, WorkerTakesPacket, WorkerOpens, WorkerWrites, WorkerBreaks, Turn,
             WorkerMarksFailed, WorkerStarts, WorkerStops, WorkerConfigures, Work, WorkerEnds
    <3>3. t = Head(queue).by
      BY <1>2, <3>2 DEF WorkerStarts, WorkerStops, WorkerConfigures, Fulfil, TypeParts, CallersTypeOK
    <3>4. op'[t] = "start" => WorkerStarts
      <4>1. op[t] = Head(queue).kind /\ op' = op
        BY <2>1, <3>1, <3>3, CommandTaken DEF WorkerStep
      <4> QED
        BY <3>2, <4>1 DEF WorkerStops, WorkerConfigures, Work
    <3>5. WorkerStarts => ~broken'
      BY DEF WorkerStarts
    <3> QED
      BY <3>1, <3>2, <3>4, <3>5
  <2>2. CASE CoordinatorStep \/ InputEnds \/ Stop \/ UNCHANGED vars
    BY <1>2, <2>2 DEF CoordinatorStep, InputEnds, Stop, vars, callerVars
  <2>3. CASE CommandStep
    BY <1>2, <2>3
       DEF CommandStep, Call, CallerStep, Lock, SendCommand, Answered, Return, TypeParts,
           CallersTypeOK
  <2> QED
    BY <2>1, <2>2, <2>3 DEF Next
<1> QED
  BY <1>1, <1>2


-----------------------------------------------------------------------------
(* A failure ends admission, and is remembered until a start or a stop.     *)

StartDone(t) == op[t] = "start" /\ pc[t] = "await" /\ answer[t] = "Applied"

Failures ==
    /\ worker \in {"fail", "fail2"} => broken
    /\ worker = "write" => ~broken
    /\ accepting => ~broken
    /\ failed => broken \/ \E t \in Callers : StartDone(t)
    /\ \A t \in Callers :
          pc[t] \in Submitting /\ accepting =>
              op[t] = "start" /\ pc[t] = "gauge" /\ answer[t] = "Applied"

\* What a step of the worker does to admission and to the flags of a failure.
LEMMA WorkerOnFlags ==
    ASSUME TypeParts, Protocol, Failures, WorkerStep
    PROVE  /\ accepting' => accepting /\ ~broken'
           /\ failed' => failed \/ broken'
           /\ worker' \in {"fail", "fail2"} => broken'
           /\ worker' = "write" => ~broken'
           /\ broken => broken' \/ WorkerStarts
           /\ broken /\ ~broken' =>
                 Head(queue).by \in Callers /\ pc[Head(queue).by] = "await"
                 /\ answer'[Head(queue).by] = "Applied"
                 /\ op[Head(queue).by] = "start"
<1> USE DEF Failures
<1>1. CASE WorkerTakesPacket \/ WorkerConfigures \/ WorkerEnds \/ WorkerStops
  <2>1. /\ accepting' = accepting /\ failed' = failed /\ broken' = broken
        /\ worker' \in {"write", worker, "done"} /\ (worker' = "write" => ~broken)
    BY <1>1 DEF WorkerTakesPacket, WorkerConfigures, WorkerEnds, WorkerStops, Work
  <2> QED
    BY <2>1
<1>2. CASE WorkerOpens \/ WorkerWrites
  <2>1. /\ accepting' = accepting /\ failed' = failed /\ broken' = broken
        /\ worker = "write" /\ worker' \in {"write", "receive"}
    BY <1>2 DEF WorkerOpens, WorkerWrites, Turn
  <2> QED
    BY <2>1
<1>3. CASE WorkerBreaks
  <2>1. broken' /\ ~accepting' /\ worker' = "fail" /\ failed' = failed
    BY <1>3 DEF WorkerBreaks
  <2> QED
    BY <2>1
<1>4. CASE WorkerMarksFailed
  <2>1. /\ broken /\ broken' = broken /\ accepting' = accepting
        /\ worker' \in {"fail2", "receive"}
    BY <1>4 DEF WorkerMarksFailed
  <2> QED
    BY <2>1
<1>5. CASE WorkerStarts
  <2>1. /\ worker = "receive" /\ worker' = worker /\ ~broken'
        /\ accepting' = accepting /\ failed' = failed
    BY <1>5 DEF WorkerStarts, Work
  <2>2. /\ queue # <<>> /\ Head(queue).kind = "start"
        /\ answer' = [answer EXCEPT ![Head(queue).by] = "Applied"]
    BY <1>5 DEF WorkerStarts, Work, Fulfil
  <2>3. /\ Head(queue).by \in Callers /\ pc[Head(queue).by] = "await"
        /\ op[Head(queue).by] = "start"
    BY <2>2, CommandTaken
  <2>4. answer'[Head(queue).by] = "Applied"
    BY <2>2, <2>3 DEF TypeParts, CallersTypeOK
  <2> QED
    BY <1>5, <2>1, <2>3, <2>4
<1> QED
  BY <1>1, <1>2, <1>3, <1>4, <1>5 DEF WorkerStep

LEMMA FailuresStep ==
    ASSUME TypeParts, Protocol, AppliedLeavesNothing, Failures, [Next]_vars
    PROVE  Failures'
<1>1. CASE CoordinatorStep \/ InputEnds \/ UNCHANGED vars
  <2>1. UNCHANGED <<workerVars, flags, callerVars>>
    BY <1>1 DEF CoordinatorStep, InputEnds, vars
  <2>2. /\ worker' = worker /\ broken' = broken /\ accepting' = accepting /\ failed' = failed
        /\ op' = op /\ pc' = pc /\ answer' = answer
    BY <2>1 DEF workerVars, flags, callerVars
  <2> QED
    BY <2>2 DEF Failures, StartDone
<1>2. CASE WorkerStep
  <2>1. op' = op /\ pc' = pc
    BY <1>2 DEF WorkerStep
  <2>2. \A t \in Callers : StartDone(t) => StartDone(t)'
    <3> SUFFICES ASSUME NEW t \in Callers, StartDone(t)
                 PROVE  StartDone(t)'
      OBVIOUS
    <3>1. queue = <<>> /\ worker \in {"receive", "done"}
      BY DEF StartDone, AppliedLeavesNothing
    <3> QED
      BY <1>2, <2>1, <3>1, IdleWorker DEF StartDone
  <2>3. broken /\ ~broken' => \E t \in Callers : StartDone(t)'
    BY <1>2, <2>1, WorkerOnFlags DEF StartDone
  <2>4. failed' => broken' \/ \E t \in Callers : StartDone(t)'
    BY <1>2, <2>2, <2>3, WorkerOnFlags DEF Failures
  <2>5. \A t \in Callers : answer[t] = "Applied" => answer'[t] = "Applied"
    <3> SUFFICES ASSUME NEW t \in Callers, answer[t] = "Applied"
                 PROVE  answer'[t] = "Applied"
      OBVIOUS
    <3> QED
      BY <1>2, IdleWorker DEF AppliedLeavesNothing
  <2> QED
    BY <1>2, <2>1, <2>4, <2>5, WorkerOnFlags DEF Failures
<1>3. CASE CommandStep
  <2>1. worker' = worker /\ broken' = broken
    BY <1>3 DEF CommandStep, workerVars
  <2>2. ASSUME NEW o \in Operations, Call(o)
        PROVE  Failures'
    <3>1. /\ accepting' = accepting /\ failed' = failed /\ answer' = answer
          /\ pc["control"] = "idle"
          /\ \A t \in Callers \ {"control"} : pc'[t] = pc[t] /\ op'[t] = op[t]
          /\ pc'["control"] \in {"idle", "lock"}
      BY <2>2 DEF Call, At, Goto, TypeParts, CallersTypeOK, Callers
    <3> QED
      BY <2>1, <3>1 DEF Failures, StartDone, Submitting
  <2>3. ASSUME NEW t \in Callers, CallerStep(t)
        PROVE  Failures'
    <3>1. /\ \A s \in Callers \ {t} :
                pc'[s] = pc[s] /\ op'[s] = op[s] /\ answer'[s] = answer[s]
          /\ pc[t] \in {"lock"} \cup Submitting
      BY <2>3
         DEF CallerStep, Lock, SendCommand, Answered, Return, At, Goto, Submitting, TypeParts,
             CallersTypeOK
    <3>2. \A s \in Callers \ {t} : pc[s] \notin Submitting
      BY <2>3, <3>1 DEF Protocol, MutexIsHeld, CallerStep, Lock, SendCommand, Answered, Return, At,
                        Submitting, Callers
    <3>3. CASE Lock(t)
      <4>1. pc[t] = "lock" /\ failed' = failed /\ (accepting' => accepting)
        BY <3>3 DEF Lock, At
      <4>2. \A s \in Callers : ~StartDone(s)
        BY <3>2, <4>1 DEF StartDone, Submitting
      <4>3. pc'[t] \in Submitting => ~accepting'
        <5>1. Permitted(op[t]) \/ pc'[t] = "idle"
          BY <3>3 DEF Lock, Goto, TypeParts, CallersTypeOK
        <5>2. CASE Permitted(op[t])
          <6>1. op[t] \in Operations /\ accepting' = (accepting /\ op[t] # "stop")
            BY <3>3, <4>1, <5>2 DEF Lock, TypeParts, CallersTypeOK
          <6>2. op[t] # "stop" => ~accepting
            BY <5>2, <6>1 DEF Permitted, Operations
          <6> QED
            BY <6>1, <6>2
        <5> QED
          BY <5>1, <5>2 DEF Submitting
      <4> QED
        BY <2>1, <3>1, <3>2, <4>1, <4>2, <4>3 DEF Failures
    <3>4. CASE SendCommand(t)
      <4>1. pc[t] = "send" /\ failed' = failed /\ accepting' = accepting
        BY <3>4 DEF SendCommand, At
      <4>2. ~accepting /\ \A s \in Callers : ~StartDone(s)
        BY <3>2, <4>1 DEF StartDone, Submitting, Failures
      <4> QED
        BY <2>1, <4>1, <4>2 DEF Failures
    <3>5. CASE Answered(t)
      <4>1. /\ pc[t] = "await" /\ pc'[t] = "gauge" /\ op' = op /\ answer' = answer
            /\ ~accepting
        BY <3>5 DEF Answered, At, Goto, TypeParts, CallersTypeOK, Failures, Submitting
      <4>2. CASE op[t] = "start" /\ answer[t] = "Applied"
        <5>1. ~failed' /\ ~broken
          BY <3>5, <4>2 DEF Answered, AppliedLeavesNothing
        <5> QED
          BY <2>1, <3>1, <3>2, <4>1, <4>2, <5>1 DEF Failures, Submitting
      <4>3. CASE ~(op[t] = "start" /\ answer[t] = "Applied")
        <5>1. (failed' => failed) /\ ~accepting'
          BY <3>5, <4>1, <4>3 DEF Answered
        <5>2. \A s \in Callers : ~StartDone(s)
          BY <3>2, <4>3 DEF StartDone, Submitting
        <5> QED
          BY <2>1, <4>1, <5>1, <5>2 DEF Failures
      <4> QED
        BY <4>2, <4>3
    <3>6. CASE Return(t)
      <4>1. pc[t] = "gauge" /\ pc'[t] = "idle" /\ failed' = failed /\ accepting' = accepting
        BY <3>6 DEF Return, At, Goto, TypeParts, CallersTypeOK
      <4>2. \A s \in Callers : ~StartDone(s)
        BY <3>2, <4>1 DEF StartDone, Submitting
      <4> QED
        BY <2>1, <3>1, <3>2, <4>1, <4>2 DEF Failures, Submitting
    <3> QED
      BY <2>3, <3>3, <3>4, <3>5, <3>6 DEF CallerStep
  <2> QED
    BY <1>3, <2>2, <2>3 DEF CommandStep
<1>4. CASE Stop
  <2>1. /\ worker' = worker /\ broken' = broken /\ answer' = answer
        /\ failed' = failed /\ (accepting' => accepting)
    BY <1>4 DEF Stop, StopStep, workerVars, flags
  <2>2. /\ \A t \in Callers \ {"runner"} : pc'[t] = pc[t] /\ op'[t] = op[t]
        /\ \/ pc'["runner"] = pc["runner"] /\ op'["runner"] = op["runner"]
           \/ pc["runner"] = "idle" /\ pc'["runner"] = "lock"
    BY <1>4
       DEF Stop, StopStep, Goto, Protocol, RunnerIsFree, TypeParts, CallersTypeOK, Callers
  <2> QED
    BY <2>1, <2>2 DEF Failures, StartDone, Submitting
<1> QED
  BY <1>1, <1>2, <1>3, <1>4 DEF Next


-----------------------------------------------------------------------------
(* The metric.  A command that neither stops nor has started a recording    *)
(* runs while nothing is admitted, and finds the metric off.                *)

MetricFollows ==
    running =>
        /\ GaugeTellsAdmission
        /\ \A t \in Callers : pc[t] \in Submitting =>
              /\ op[t] = "start" /\ answer[t] = "Applied" /\ pc[t] = "gauge" => accepting
              /\ op[t] # "stop" /\ ~(op[t] = "start" /\ answer[t] = "Applied") =>
                    ~accepting /\ (worker \notin {"fail", "fail2"} => ~gauge)

\* The worker's side: a failure ends admission at once, and the metric is off
\* when the failure has been dealt with.
LEMMA WorkerOnMetric ==
    ASSUME TypeParts, Failures, WorkerStep
    PROVE  /\ running' = running
           /\ worker' \notin {"fail", "fail2"} =>
                 /\ accepting' = accepting
                 /\ \/ worker \notin {"fail", "fail2"} /\ gauge' = gauge
                    \/ ~accepting /\ ~gauge'
           /\ accepting' => accepting
<1>1. running' = running
  BY DEF WorkerStep
<1>2. CASE WorkerBreaks
  BY <1>1, <1>2 DEF WorkerBreaks
<1>3. CASE WorkerMarksFailed
  <2>1. accepting' = accepting /\ ~accepting /\ (worker' \notin {"fail", "fail2"} => ~gauge')
    BY <1>3 DEF WorkerMarksFailed, Failures
  <2> QED
    BY <1>1, <2>1
<1>4. CASE WorkerTakesPacket \/ WorkerOpens \/ WorkerWrites \/ WorkerStarts \/ WorkerStops
           \/ WorkerConfigures \/ WorkerEnds
  <2>1. accepting' = accepting /\ gauge' = gauge /\ worker \in {"receive", "write"}
    BY <1>4
       DEF WorkerTakesPacket, WorkerOpens, WorkerWrites, WorkerStarts, WorkerStops, Turn, Work,
           WorkerConfigures, WorkerEnds
  <2> QED
    BY <1>1, <2>1
<1> QED
  BY <1>2, <1>3, <1>4 DEF WorkerStep

LEMMA MetricStep ==
    ASSUME TypeParts, Protocol, Ending, AppliedLeavesNothing, Failures, MetricFollows, [Next]_vars
    PROVE  MetricFollows'
<1> SUFFICES ASSUME running'
             PROVE  MetricFollows'
  BY DEF MetricFollows
<1> USE DEF GaugeTellsAdmission
<1>1. CASE CoordinatorStep \/ InputEnds \/ UNCHANGED vars
  <2>1. UNCHANGED <<workerVars, flags, callerVars>>
    BY <1>1 DEF CoordinatorStep, InputEnds, vars
  <2>2. /\ worker' = worker /\ accepting' = accepting /\ gauge' = gauge /\ running' = running
        /\ op' = op /\ pc' = pc /\ answer' = answer
    BY <2>1 DEF workerVars, flags, callerVars
  <2> QED
    BY <2>2 DEF MetricFollows
<1>2. CASE WorkerStep
  <2>1. op' = op /\ pc' = pc /\ running
    BY <1>2 DEF WorkerStep
  <2>2. \A t \in Callers : answer[t] = "Applied" =>
            /\ answer'[t] = "Applied" /\ accepting' = accepting
    <3> SUFFICES ASSUME NEW t \in Callers, answer[t] = "Applied"
                 PROVE  answer'[t] = "Applied" /\ accepting' = accepting
      OBVIOUS
    <3> QED
      BY <1>2, IdleWorker DEF AppliedLeavesNothing, WorkerEnds
  <2>3. \A t \in Callers : pc[t] = "gauge" => answer'[t] = answer[t]
    <3> SUFFICES ASSUME NEW t \in Callers, pc[t] = "gauge"
                 PROVE  answer'[t] = answer[t]
      OBVIOUS
    <3>1. \/ answer' = answer
          \/ /\ queue # <<>> /\ Head(queue).kind # "packet"
             /\ \E r \in Results : answer' = [answer EXCEPT ![Head(queue).by] = r]
      BY <1>2, WorkerOnQueue
    <3>2. queue # <<>> /\ Head(queue).kind # "packet" =>
              Head(queue).by \in Callers /\ pc[Head(queue).by] = "await"
      BY CommandTaken
    <3> QED
      BY <3>1, <3>2 DEF TypeParts, CallersTypeOK
  <2>4. GaugeTellsAdmission'
    <3> SUFFICES ASSUME \A t \in Callers : pc[t] \in {"idle", "lock"},
                        worker' \notin {"fail", "fail2"}
                 PROVE  gauge' = accepting'
      BY <2>1
    <3>1. accepting' = accepting
      BY <1>2, WorkerOnMetric
    <3>2. CASE worker \notin {"fail", "fail2"} /\ gauge' = gauge
      <4>1. gauge = accepting
        BY <2>1, <3>2 DEF MetricFollows
      <4> QED
        BY <3>1, <3>2, <4>1
    <3>3. CASE ~accepting /\ ~gauge'
      <4>1. accepting = FALSE /\ gauge' = FALSE
        BY <3>3, FlagsTypeStep DEF TypeParts, FlagsTypeOK
      <4> QED
        BY <3>1, <4>1
    <3> QED
      BY <1>2, <3>2, <3>3, WorkerOnMetric
  <2>5. ASSUME NEW t \in Callers, pc[t] \in Submitting
        PROVE  /\ op[t] = "start" /\ answer'[t] = "Applied" /\ pc[t] = "gauge" => accepting'
               /\ op[t] # "stop" /\ ~(op[t] = "start" /\ answer'[t] = "Applied") =>
                     ~accepting' /\ (worker' \notin {"fail", "fail2"} => ~gauge')
    <3>1. ASSUME op[t] = "start", answer'[t] = "Applied", pc[t] = "gauge"
          PROVE  accepting'
      BY <2>1, <2>2, <2>3, <2>5, <3>1 DEF MetricFollows
    <3>2. ASSUME op[t] # "stop", ~(op[t] = "start" /\ answer'[t] = "Applied")
          PROVE  ~accepting' /\ (worker' \notin {"fail", "fail2"} => ~gauge')
      <4>1. ~accepting /\ (worker \notin {"fail", "fail2"} => ~gauge)
        BY <2>1, <2>2, <2>5, <3>2 DEF MetricFollows
      <4> QED
        BY <1>2, <4>1, WorkerOnMetric
    <3> QED
      BY <3>1, <3>2
  <2> QED
    BY <2>1, <2>4, <2>5 DEF MetricFollows
<1>3. CASE CommandStep
  <2>1. worker' = worker /\ running
    BY <1>3 DEF CommandStep, workerVars
  <2>2. ASSUME NEW o \in Operations, Call(o)
        PROVE  MetricFollows'
    <3>1. /\ accepting' = accepting /\ gauge' = gauge /\ answer' = answer
          /\ pc["control"] = "idle"
          /\ \A t \in Callers \ {"control"} : pc'[t] = pc[t] /\ op'[t] = op[t]
          /\ pc'["control"] \in {"idle", "lock"}
      BY <2>2 DEF Call, At, Goto, TypeParts, CallersTypeOK, Callers
    <3>2. \A t \in Callers : pc'[t] \in {"idle", "lock"} => pc[t] \in {"idle", "lock"}
      BY <3>1
    <3>3. \A t \in Callers : pc'[t] \in Submitting => pc[t] \in Submitting /\ t # "control"
      BY <3>1 DEF Submitting
    <3> QED
      BY <2>1, <3>1, <3>2, <3>3 DEF MetricFollows
  <2>3. ASSUME NEW t \in Callers, CallerStep(t)
        PROVE  MetricFollows'
    <3>1. /\ \A s \in Callers \ {t} :
                pc'[s] = pc[s] /\ op'[s] = op[s] /\ answer'[s] = answer[s]
          /\ pc[t] \in {"lock"} \cup Submitting
      BY <2>3
         DEF CallerStep, Lock, SendCommand, Answered, Return, At, Goto, Submitting, TypeParts,
             CallersTypeOK
    <3>2. \A s \in Callers \ {t} : pc[s] \notin Submitting
      BY <2>3, <3>1 DEF Protocol, MutexIsHeld, CallerStep, Lock, SendCommand, Answered, Return, At,
                        Submitting, Callers
    <3>3. \A s \in Callers \ {t} : pc[s] \in {"idle", "lock"} /\ pc'[s] \in {"idle", "lock"}
      BY <3>1, <3>2 DEF Submitting, TypeParts, CallersTypeOK
    <3>4. CASE Lock(t)
      <4>1. pc[t] = "lock" /\ gauge' = gauge
        BY <3>4 DEF Lock, At
      <4>2. worker \notin {"fail", "fail2"} => gauge = accepting
        BY <2>1, <3>3, <4>1 DEF MetricFollows
      <4>3. CASE Permitted(op[t])
        <5>1. /\ pc'[t] = "send" /\ op' = op
              /\ accepting' = (accepting /\ op[t] # "stop")
          BY <3>4, <4>3 DEF Lock, Goto, TypeParts, CallersTypeOK
        <5>2. op[t] # "stop" => ~accepting
          BY <4>1, <4>3 DEF Permitted, Operations, TypeParts, CallersTypeOK
        <5> QED
          BY <2>1, <3>3, <4>1, <4>2, <5>1, <5>2 DEF MetricFollows, Submitting
      <4>4. CASE ~Permitted(op[t])
        <5>1. pc'[t] = "idle" /\ accepting' = accepting
          BY <3>4, <4>4 DEF Lock, Goto, TypeParts, CallersTypeOK
        <5> QED
          BY <2>1, <3>3, <4>1, <4>2, <5>1 DEF MetricFollows, Submitting
      <4> QED
        BY <4>3, <4>4
    <3>5. CASE SendCommand(t)
      <4>1. /\ pc[t] = "send" /\ pc'[t] = "await" /\ op' = op
            /\ accepting' = accepting /\ gauge' = gauge
        BY <3>5 DEF SendCommand, At, Goto, TypeParts, CallersTypeOK
      <4>2. answer[t] = "none"
        BY <4>1 DEF Protocol, AnswersAreFresh
      <4>3. op[t] # "stop" => ~accepting /\ (worker \notin {"fail", "fail2"} => ~gauge)
        BY <2>1, <4>1, <4>2 DEF MetricFollows, Submitting
      <4> QED
        BY <2>1, <3>3, <4>1, <4>3 DEF MetricFollows, Submitting
    <3>6. CASE Answered(t)
      <4>1. /\ pc[t] = "await" /\ pc'[t] = "gauge" /\ op' = op /\ answer' = answer
            /\ gauge' = gauge
        BY <3>6 DEF Answered, At, Goto, TypeParts, CallersTypeOK
      <4>2. op[t] = "start" /\ answer[t] = "Applied" => accepting'
        BY <3>6 DEF Answered
      <4>3. ~(op[t] = "start" /\ answer[t] = "Applied") => accepting' = accepting
        BY <3>6 DEF Answered
      <4>4. op[t] # "stop" /\ ~(op[t] = "start" /\ answer[t] = "Applied") =>
                ~accepting /\ (worker \notin {"fail", "fail2"} => ~gauge)
        BY <2>1, <4>1 DEF MetricFollows, Submitting
      <4> QED
        BY <2>1, <3>3, <4>1, <4>2, <4>3, <4>4 DEF MetricFollows, Submitting
    <3>7. CASE Return(t)
      <4>1. pc[t] = "gauge" /\ pc'[t] = "idle" /\ accepting' = accepting
        BY <3>7 DEF Return, At, Goto, TypeParts, CallersTypeOK
      <4>2. worker \notin {"fail", "fail2"} => gauge' = accepting
        <5>1. CASE op[t] = "stop"
          <6>1. ~accepting /\ gauge' = FALSE
            BY <3>7, <4>1, <5>1 DEF Return, Failures, Submitting
          <6>2. accepting \in BOOLEAN
            BY DEF TypeParts, FlagsTypeOK
          <6>3. accepting = FALSE
            BY <6>1, <6>2
          <6> QED
            BY <6>1, <6>3
        <5>2. CASE op[t] = "start" /\ answer[t] = "Applied"
          <6>1. accepting /\ gauge' = TRUE
            BY <2>1, <3>7, <4>1, <5>2 DEF Return, MetricFollows, Submitting
          <6>2. accepting \in BOOLEAN
            BY DEF TypeParts, FlagsTypeOK
          <6>3. accepting = TRUE
            BY <6>1, <6>2
          <6> QED
            BY <6>1, <6>3
        <5>3. CASE op[t] # "stop" /\ ~(op[t] = "start" /\ answer[t] = "Applied")
          <6>1. gauge' = gauge
            BY <3>7, <5>3 DEF Return
          <6>2. ~accepting /\ (worker \notin {"fail", "fail2"} => ~gauge)
            BY <2>1, <4>1, <5>3 DEF MetricFollows, Submitting
          <6>3. accepting \in BOOLEAN /\ gauge \in BOOLEAN
            BY DEF TypeParts, FlagsTypeOK
          <6> QED
            BY <6>1, <6>2, <6>3
        <5> QED
          BY <5>1, <5>2, <5>3
      <4> QED
        BY <2>1, <3>3, <4>1, <4>2 DEF MetricFollows, Submitting
    <3> QED
      BY <2>3, <3>4, <3>5, <3>6, <3>7 DEF CallerStep
  <2> QED
    BY <1>3, <2>2, <2>3 DEF CommandStep
<1>4. CASE Stop
  <2>1. stopping = "no" /\ running
    <3>1. \/ stopping = "no" /\ running' = running
          \/ running' = FALSE
          \/ stopping \notin {"no", "begin"} /\ running' = running
      BY <1>4 DEF Stop, StopStep, flags
    <3> QED
      BY <3>1 DEF Ending
  <2>2. worker' = worker /\ answer' = answer
    BY <1>4 DEF Stop, workerVars
  <2>3. accepting' = accepting /\ gauge' = gauge
    BY <1>4, <2>1 DEF Stop, StopStep, flags
  <2>4. /\ \A t \in Callers \ {"runner"} : pc'[t] = pc[t] /\ op'[t] = op[t]
        /\ \/ pc'["runner"] = pc["runner"] /\ op'["runner"] = op["runner"]
           \/ pc["runner"] = "idle" /\ pc'["runner"] = "lock"
    BY <1>4
       DEF Stop, StopStep, Goto, Protocol, RunnerIsFree, TypeParts, CallersTypeOK, Callers
  <2>5. \A t \in Callers : pc'[t] \in {"idle", "lock"} => pc[t] \in {"idle", "lock"}
    BY <2>4
  <2>6. \A t \in Callers : pc'[t] \in Submitting => pc'[t] = pc[t] /\ op'[t] = op[t]
    BY <2>4 DEF Submitting
  <2> QED
    BY <2>1, <2>2, <2>3, <2>5, <2>6 DEF MetricFollows
<1> QED
  BY <1>1, <1>2, <1>3, <1>4 DEF Next


-----------------------------------------------------------------------------
(* A writer that is open writes to the partial file of its camera in the    *)
(* destination of the worker, and has taken a frame unless it is its turn.  *)

WriterFits(c) ==
    /\ ~broken => writers[c].state # "null"
    /\ writers[c].state = "open" =>
          writers[c].to = destination /\ files[destination][c].state = "partial"
    /\ writers[c].state # "open" =>
          writers[c].accepted = 0 /\ Content(writers[c]) = <<>>
    /\ writers[c].state = "open" /\ writers[c].accepted = 0 /\ ~broken =>
          worker = "write" /\ c \in todo

WritersFit == \A c \in Cameras : WriterFits(c)

LEMMA ClearedFit ==
    ASSUME Clear
    PROVE  WritersFit'
<1>1. \A c \in Cameras : writers'[c] = NoWriter
  BY DEF Clear
<1> QED
  BY <1>1, NoWriterIsRecord DEF WritersFit, WriterFits

LEMMA WritersFitStep ==
    ASSUME TypeParts, Protocol, Failures, WritersFit, [Next]_vars
    PROVE  WritersFit'
<1>1. CASE CoordinatorStep \/ InputEnds \/ CommandStep \/ Stop \/ UNCHANGED vars
  <2>1. UNCHANGED workerVars
    BY <1>1 DEF CoordinatorStep, InputEnds, Stop, CommandStep, vars
  <2> QED
    BY <2>1 DEF workerVars, WritersFit, WriterFits
<1>2. CASE WorkerTakesPacket
  <2>1. /\ worker = "receive" /\ broken' = broken
        /\ UNCHANGED <<destination, writers, files>>
        /\ ~broken => worker' = "write" /\ todo' = Cameras
    BY <1>2 DEF WorkerTakesPacket, Work
  <2> QED
    BY <2>1 DEF WritersFit, WriterFits
<1>3. CASE WorkerOpens
  <2>1. PICK c \in Cameras : Turn(c) /\ Open(destination, c)
    BY <1>3 DEF WorkerOpens
  <2> DEFINE w == [NoWriter EXCEPT !.state = "open", !.to = destination]
  <2>2. /\ writers' = [writers EXCEPT ![c] = w]
        /\ Partial(destination, c)
        /\ worker' = worker /\ worker = "write" /\ c \in todo /\ todo' = todo
        /\ broken' = broken /\ destination' = destination
    BY <1>3, <2>1, OpenEffect DEF TypeParts, WorkerOpens, Turn
  <2>3. w.state = "open" /\ w.to = destination
    BY NoWriterIsRecord DEF TypeParts, WorkerTypeOK
  <2> HIDE DEF w
  <2>4. files[destination][c] \in DiskFiles /\ destination \in Destinations
    BY DEF TypeParts, WorkerTypeOK
  <2>5. files'[destination][c].state = "partial"
    BY <2>2, <2>4, PartialFiles DEF TypeParts, DiskFiles
  <2>6. WriterFits(c)'
    BY <2>2, <2>3, <2>5 DEF WriterFits, TypeParts, WorkerTypeOK
  <2>7. ASSUME NEW b \in Cameras \ {c}
        PROVE  WriterFits(b)'
    <3>1. /\ writers'[b] = writers[b]
          /\ files'[destination][b] = files[destination][b]
      BY <2>2, <2>4, PartialFiles DEF TypeParts, WorkerTypeOK
    <3> QED
      BY <2>2, <3>1 DEF WritersFit, WriterFits
  <2> QED
    BY <2>6, <2>7 DEF WritersFit
<1>4. CASE WorkerWrites
  <2>1. PICK c \in Cameras : Turn(c) /\ Write(c, packet) /\ todo' = todo \ {c}
    BY <1>4 DEF WorkerWrites
  <2>2. packet \in Packets
    BY <2>1 DEF TypeParts, WorkerTypeOK, Turn
  <2>3. PICK r \in Records :
            /\ writers' = [writers EXCEPT ![c] = r]
            /\ writers[c].state = "open" /\ r.state = "open" /\ r.to = writers[c].to
            /\ r.accepted = writers[c].accepted + 1
    BY <2>1, <2>2, WriteEffect DEF TypeParts
  <2>4. /\ broken' = broken /\ destination' = destination /\ files' = files
        /\ worker' = IF todo' = {} THEN "receive" ELSE "write"
    BY <1>4, <2>1 DEF WorkerWrites, Write
  <2>5. writers[c] \in Records
    BY DEF TypeParts, WorkerTypeOK
  <2>6. writers[c].accepted \in Nat
    BY <2>5 DEF Records
  <2>7. r.accepted # 0
    BY <2>3, <2>6
  <2>8. WriterFits(c)'
    BY <2>3, <2>4, <2>7 DEF WritersFit, WriterFits, TypeParts, WorkerTypeOK
  <2>9. ASSUME NEW b \in Cameras \ {c}
        PROVE  WriterFits(b)'
    <3>1. writers'[b] = writers[b]
      BY <2>3 DEF TypeParts, WorkerTypeOK
    <3>2. b \in todo => b \in todo' /\ worker' = "write"
      BY <2>1, <2>4
    <3> QED
      BY <2>4, <3>1, <3>2 DEF WritersFit, WriterFits
  <2> QED
    BY <2>8, <2>9 DEF WritersFit
<1>5. CASE WorkerBreaks
  <2>1. PICK c \in Cameras : OpenThrows(destination, c) \/ WriteThrows(c)
    BY <1>5 DEF WorkerBreaks
  <2>2. broken' /\ destination' = destination
    BY <1>5 DEF WorkerBreaks
  <2>3. \A b \in Cameras : files[destination][b].state = "partial" =>
                               files'[destination][b].state = "partial"
    BY <2>1, ThrowEffect, PartialFiles DEF TypeParts, WorkerTypeOK
  <2>4. ASSUME NEW b \in Cameras
        PROVE  \/ writers'[b] = writers[b]
               \/ /\ writers[b].state # "open" /\ writers'[b].state # "open"
                  /\ writers'[b].accepted = writers[b].accepted
                  /\ Content(writers'[b]) = Content(writers[b])
    <3>1. CASE UNCHANGED writers
      BY <3>1
    <3>2. CASE writers[c].state = "none" /\ writers' = [writers EXCEPT ![c].state = "null"]
      <4>1. CASE b # c
        BY <3>2, <4>1 DEF TypeParts, WorkerTypeOK
      <4>2. CASE b = c
        <5>1. writers[c] \in Records /\ writers'[c] = [writers[c] EXCEPT !.state = "null"]
          BY <3>2 DEF TypeParts, WorkerTypeOK
        <5>2. /\ writers'[c].state = "null" /\ writers'[c].accepted = writers[c].accepted
              /\ writers'[c].held = writers[c].held /\ writers'[c].muxed = writers[c].muxed
          BY <5>1 DEF Records
        <5>3. Content(writers'[c]) = Content(writers[c])
          BY <5>2 DEF Content
        <5> QED
          BY <3>2, <4>2, <5>2, <5>3
      <4> QED
        BY <4>1, <4>2
    <3> QED
      BY <2>1, <3>1, <3>2, ThrowEffect DEF TypeParts
  <2> QED
    BY <2>2, <2>3, <2>4 DEF WritersFit, WriterFits
<1>6. CASE WorkerMarksFailed
  <2>1. /\ UNCHANGED <<destination, writers, files>> /\ broken' = broken /\ broken
    BY <1>6 DEF WorkerMarksFailed, Failures
  <2> QED
    BY <2>1 DEF WritersFit, WriterFits
<1>7. CASE WorkerStarts \/ WorkerStops \/ WorkerEnds
  BY <1>7, ClearedFit DEF WorkerStarts, WorkerStops, WorkerEnds
<1>8. CASE WorkerConfigures
  <2>1. /\ UNCHANGED <<worker, todo, writers, files>> /\ broken' = broken
        /\ destination' = destination \/ Used = {}
    BY <1>8 DEF WorkerConfigures
  <2>2. destination' = destination \/ \A c \in Cameras : writers[c].state # "open"
    BY <2>1 DEF Used
  <2> QED
    BY <2>1, <2>2 DEF WritersFit, WriterFits
<1> QED
  BY <1>1, <1>2, <1>3, <1>4, <1>5, <1>6, <1>7, <1>8 DEF Next, WorkerStep


-----------------------------------------------------------------------------
(* No packet is lost on its way.  While a recording is under way, what was  *)
(* admitted is what the worker has taken, followed by what is queued and by *)
(* what the coordinator has in hand; every writer has been given all that   *)
(* was taken, but for the packet being written, and if its encoder has lost *)
(* nothing it has them all in their order.                                  *)

StopUnder(t) ==
    op[t] = "stop" /\ (pc[t] = "send" \/ (pc[t] = "await" /\ answer[t] = "none"))

Recording ==
    /\ ~broken /\ worker # "done"
    /\ accepting \/ \E t \in Callers : StopUnder(t) \/ StartDone(t)

\* The packets in a queue whose last entry may be a command.
Queued ==
    IF queue # <<>> /\ queue[Len(queue)].kind # "packet" THEN Len(queue) - 1 ELSE Len(queue)

InHand == IF coordinator = "send" THEN 1 ELSE 0

Taken == Len(admitted) - Queued - InHand

InOrder ==
    /\ Taken \in Nat
    /\ \A i \in 1 .. Queued : queue[i].packet = admitted[Taken + i]
    /\ coordinator = "send" => admitted[Len(admitted)] = arrived

Due(c) == IF worker = "write" /\ c \in todo THEN Taken - 1 ELSE Taken

WriterIsComplete(c) ==
    /\ writers[c].accepted = Due(c)
    /\ Len(Content(writers[c])) <= Due(c)
    /\ Len(Content(writers[c])) = Due(c) =>
          \A i \in 1 .. Due(c) : Content(writers[c])[i] = admitted[i]

Written ==
    /\ worker = "write" => Taken > 0 /\ packet = admitted[Taken]
    /\ \A c \in Cameras : WriterIsComplete(c)

NothingIsLost == Recording => InOrder /\ Written

FreshStart ==
    \A t \in Callers :
        op[t] = "start" /\ pc[t] = "await" /\ answer[t] = "none" => admitted = <<>>

LEMMA Counts ==
    ASSUME TypeParts
    PROVE  /\ Len(queue) \in Nat /\ Len(admitted) \in Nat
           /\ Queued \in 0 .. Len(queue) /\ InHand \in 0 .. 1
           /\ Taken \in Int /\ Taken + Queued + InHand = Len(admitted)
           /\ queue = <<>> => Queued = 0
<1>1. /\ Len(queue) \in Nat /\ Len(admitted) \in Nat
      /\ queue = <<>> <=> Len(queue) = 0
  BY EmptySeq, LenProperties DEF TypeParts, QueueTypeOK
<1>2. Queued \in 0 .. Len(queue) /\ InHand \in 0 .. 1 /\ (queue = <<>> => Queued = 0)
  BY <1>1 DEF Queued, InHand
<1> QED
  BY <1>1, <1>2 DEF Taken

LEMMA OnlyPackets ==
    ASSUME TypeParts, \A i \in 1 .. Len(queue) : queue[i].kind = "packet"
    PROVE  Queued = Len(queue)
<1>1. Len(queue) \in Nat /\ (queue = <<>> <=> Len(queue) = 0)
  BY EmptySeq, LenProperties DEF TypeParts, QueueTypeOK
<1>2. queue # <<>> => Len(queue) \in 1 .. Len(queue)
  BY <1>1
<1> QED
  BY <1>2 DEF Queued

\* Without a caller in await there are only packets in the queue.
LEMMA NoCommandQueued ==
    ASSUME TypeParts, Protocol,
           \A t \in Callers : pc[t] # "await" \/ answer[t] # "none"
    PROVE  \A i \in 1 .. Len(queue) : queue[i].kind = "packet"
<1>1. \A i \in 1 .. Len(queue) : queue[i].kind # "packet" => queue[i].by \in Callers
  BY EntryKinds DEF TypeParts, QueueTypeOK
<1> QED
  BY <1>1 DEF Protocol, CommandsAreLast

LEMMA EntryQueued ==
    ASSUME TypeParts, NEW e \in Entries, queue' = Append(queue, e),
           \A i \in 1 .. Len(queue) : queue[i].kind = "packet"
    PROVE  /\ Queued' = IF e.kind = "packet" THEN Queued + 1 ELSE Queued
           /\ \A i \in 1 .. Queued : queue'[i] = queue[i]
           /\ e.kind = "packet" => queue'[Queued + 1] = e
<1>1. Queued = Len(queue)
  BY OnlyPackets
<1>2. /\ Len(queue) \in Nat /\ Len(queue') = Len(queue) + 1 /\ queue'[Len(queue) + 1] = e
      /\ \A i \in 1 .. Len(queue) : queue'[i] = queue[i]
      /\ queue' \in Seq(Entries)
  BY Appended DEF TypeParts, QueueTypeOK
<1>3. queue' # <<>>
  BY <1>2, EmptySeq
<1>4. Queued' = IF e.kind # "packet" THEN Len(queue') - 1 ELSE Len(queue')
  BY <1>2, <1>3 DEF Queued
<1> QED
  BY <1>1, <1>2, <1>4

LEMMA PacketTaken ==
    ASSUME TypeParts, queue # <<>>, Head(queue).kind = "packet", queue' = Tail(queue)
    PROVE  /\ Queued \in Nat \ {0} /\ Queued' = Queued - 1
           /\ \A i \in 1 .. Queued - 1 : queue'[i] = queue[i + 1]
           /\ Head(queue) = queue[1]
<1> DEFINE n == Len(queue)
<1>1. /\ n \in Nat \ {0} /\ Head(queue) = queue[1]
      /\ queue' \in Seq(Entries) /\ Len(queue') = n - 1
      /\ \A i \in 1 .. n - 1 : queue'[i] = queue[i + 1]
  BY Popped DEF TypeParts, QueueTypeOK
<1> HIDE DEF n
<1>2. queue[n].kind # "packet" => n > 1
  BY <1>1
<1>3. Queued = IF queue[n].kind # "packet" THEN n - 1 ELSE n
  BY DEF Queued, n
<1>4. Queued \in Nat \ {0}
  BY <1>1, <1>2, <1>3
<1>5. CASE n = 1
  <2>1. queue' = <<>>
    BY <1>1, <1>5, EmptySeq
  <2>2. Queued' = 0
    BY <2>1, EmptySeq DEF Queued
  <2> QED
    BY <1>1, <1>2, <1>3, <1>4, <1>5, <2>2
<1>6. CASE n # 1
  <2>1. n - 1 \in 1 .. n - 1 /\ n - 1 \in Nat \ {0}
    BY <1>1, <1>6
  <2>2. queue'[n - 1] = queue[n]
    BY <1>1, <2>1
  <2>3. queue' # <<>> /\ queue'[Len(queue')] = queue[n]
    BY <1>1, <2>1, <2>2, EmptySeq
  <2>4. Queued' = IF queue[n].kind # "packet" THEN Len(queue') - 1 ELSE Len(queue')
    BY <2>3 DEF Queued
  <2> QED
    BY <1>1, <1>3, <1>4, <2>4
<1> QED
  BY <1>5, <1>6


LEMMA FreshStartStep ==
    ASSUME TypeParts, Protocol, Failures, FreshStart, [Next]_vars
    PROVE  FreshStart'
<1> SUFFICES ASSUME NEW t \in Callers, op'[t] = "start", pc'[t] = "await", answer'[t] = "none"
             PROVE  admitted' = <<>>
  BY DEF FreshStart
<1>1. CASE CoordinatorStep
  <2>1. op[t] = "start" /\ pc[t] = "await" /\ answer[t] = "none"
    BY <1>1 DEF CoordinatorStep, callerVars
  <2>2. mutex = t
    BY <2>1, NobodyElse DEF Protocol, Submitting
  <2>3. admitted' = admitted
    BY <1>1, <2>2
       DEF CoordinatorStep, CoordinatorReceives, CoordinatorEnds, CoordinatorLocks,
           CoordinatorSends, Callers
  <2> QED
    BY <2>1, <2>3 DEF FreshStart
<1>2. CASE InputEnds \/ UNCHANGED vars \/ Stop
  <2>1. admitted' = admitted /\ answer' = answer
    BY <1>2 DEF InputEnds, vars, Stop, callerVars
  <2>2. op[t] = "start" /\ pc[t] = "await"
    BY <1>2 DEF InputEnds, vars, Stop, StopStep, Goto, callerVars, TypeParts, CallersTypeOK
  <2> QED
    BY <2>1, <2>2 DEF FreshStart
<1>3. CASE WorkerStep
  <2>1. op' = op /\ pc' = pc /\ admitted' = admitted
    BY <1>3 DEF WorkerStep
  <2>2. answer[t] = "none"
    <3>1. \/ answer' = answer
          \/ /\ queue # <<>> /\ Head(queue).kind # "packet"
             /\ \E r \in Results \ {"none"} : answer' = [answer EXCEPT ![Head(queue).by] = r]
      BY <1>3, WorkerOnQueue
    <3> QED
      BY <3>1 DEF TypeParts, CallersTypeOK
  <2> QED
    BY <2>1, <2>2 DEF FreshStart
<1>4. CASE CommandStep
  <2>1. ASSUME NEW o \in Operations, Call(o)
        PROVE  admitted' = <<>>
    <3>1. admitted' = admitted /\ answer' = answer /\ pc["control"] = "idle"
      BY <2>1 DEF Call, At
    <3>2. op[t] = "start" /\ pc[t] = "await"
      BY <2>1 DEF Call, Goto, At, TypeParts, CallersTypeOK
    <3> QED
      BY <3>1, <3>2 DEF FreshStart
  <2>2. ASSUME NEW s \in Callers, CallerStep(s)
        PROVE  admitted' = <<>>
    <3>1. CASE SendCommand(s)
      <4>1. pc[s] = "send" /\ op' = op /\ pc' = [pc EXCEPT ![s] = "await"]
        BY <3>1 DEF SendCommand, At, Goto
      <4>2. pc[t] \in Submitting
        BY <4>1 DEF Submitting, TypeParts, CallersTypeOK
      <4>3. s = t
        BY <4>1, <4>2, NobodyElse DEF Protocol, Submitting
      <4> QED
        BY <3>1, <4>1, <4>3 DEF SendCommand, TypeParts, CallersTypeOK
    <3>2. CASE Lock(s) \/ Answered(s) \/ Return(s)
      <4>1. admitted' = admitted
        BY <3>2 DEF Lock, Answered, Return
      <4>2. op[t] = "start" /\ pc[t] = "await" /\ answer[t] = "none"
        BY <3>2 DEF Lock, Answered, Return, At, Goto, TypeParts, CallersTypeOK
      <4> QED
        BY <4>1, <4>2 DEF FreshStart
    <3> QED
      BY <2>2, <3>1, <3>2 DEF CallerStep
  <2> QED
    BY <1>4, <2>1, <2>2 DEF CommandStep
<1> QED
  BY <1>1, <1>2, <1>3, <1>4 DEF Next

\* What a caller does while a recording is under way touches neither the
\* worker nor what was admitted; at most it queues a stop.
LEMMA CallerInRecording ==
    ASSUME TypeParts, Protocol, AppliedLeavesNothing, Failures, CommandStep, Recording'
    PROVE  /\ Recording /\ UNCHANGED workerVars /\ coordinator' = coordinator
           /\ admitted' = admitted /\ arrived' = arrived
           /\ \/ queue' = queue
              \/ \E t \in Callers :
                    /\ pc[t] = "send" /\ answer[t] = "none"
                    /\ queue' = Append(queue, [kind |-> "stop", by |-> t])
<1>1. /\ UNCHANGED workerVars /\ worker' = worker /\ broken' = broken
      /\ coordinator' = coordinator /\ arrived' = arrived
  BY DEF CommandStep, workerVars
<1>2. ~broken /\ worker # "done"
  BY <1>1 DEF Recording
<1>3. PICK u \in Callers \cup {"nobody"} : accepting' \/ (u \in Callers /\ (StopUnder(u)' \/ StartDone(u)'))
  BY DEF Recording
<1>4. ASSUME NEW o \in Operations, Call(o)
      PROVE  Recording /\ admitted' = admitted /\ queue' = queue
  <2>1. /\ admitted' = admitted /\ queue' = queue /\ accepting' = accepting /\ answer' = answer
        /\ pc["control"] = "idle"
        /\ \A t \in Callers \ {"control"} : pc'[t] = pc[t] /\ op'[t] = op[t]
        /\ pc'["control"] \in {"idle", "lock"}
    BY <1>4 DEF Call, At, Goto, TypeParts, CallersTypeOK, Callers
  <2> QED
    BY <1>2, <1>3, <2>1 DEF Recording, StopUnder, StartDone
<1>5. ASSUME NEW t \in Callers, CallerStep(t)
      PROVE  /\ Recording /\ admitted' = admitted
             /\ \/ queue' = queue
                \/ /\ pc[t] = "send" /\ answer[t] = "none"
                   /\ queue' = Append(queue, [kind |-> "stop", by |-> t])
  <2>1. /\ \A s \in Callers \ {t} :
              pc'[s] = pc[s] /\ op'[s] = op[s] /\ answer'[s] = answer[s]
        /\ pc[t] \in {"lock"} \cup Submitting
    BY <1>5
       DEF CallerStep, Lock, SendCommand, Answered, Return, At, Goto, Submitting, TypeParts,
           CallersTypeOK
  <2>2. \A s \in Callers \ {t} : pc[s] \notin Submitting
    BY <1>5, <2>1 DEF Protocol, MutexIsHeld, CallerStep, Lock, SendCommand, Answered, Return, At,
                      Submitting, Callers
  <2>3. accepting' \/ StopUnder(t)' \/ StartDone(t)'
    BY <1>3, <2>1, <2>2 DEF StopUnder, StartDone, Submitting
  <2>4. CASE Lock(t)
    <3>1. /\ pc[t] = "lock" /\ admitted' = admitted /\ queue' = queue
          /\ (accepting' => accepting)
      BY <2>4 DEF Lock, At
    <3>2. ~failed
      BY <1>2, <2>2, <3>1 DEF Failures, StartDone, Submitting
    <3>3. accepting
      <4>1. CASE Permitted(op[t])
        <5>1. pc'[t] = "send" /\ op' = op
          BY <2>4, <4>1 DEF Lock, Goto, TypeParts, CallersTypeOK
        <5>2. op[t] = "stop" => accepting
          BY <3>2, <4>1 DEF Permitted
        <5> QED
          BY <2>3, <3>1, <5>1, <5>2 DEF StopUnder, StartDone
      <4>2. CASE ~Permitted(op[t])
        <5>1. pc'[t] = "idle"
          BY <2>4, <4>2 DEF Lock, Goto, TypeParts, CallersTypeOK
        <5> QED
          BY <2>3, <3>1, <5>1 DEF StopUnder, StartDone
      <4> QED
        BY <4>1, <4>2
    <3> QED
      BY <1>2, <3>1, <3>3 DEF Recording
  <2>5. CASE SendCommand(t)
    <3>1. pc[t] = "send" /\ accepting' = accepting /\ op' = op
      BY <2>5 DEF SendCommand, At
    <3>2. ~accepting /\ answer[t] = "none"
      BY <3>1 DEF Failures, Protocol, AnswersAreFresh, Submitting
    <3>3. answer'[t] \in {"none", "Rejected"}
      BY <2>5 DEF SendCommand, TypeParts, CallersTypeOK
    <3>4. StopUnder(t)'
      BY <2>3, <3>1, <3>2, <3>3 DEF StartDone
    <3>5. op[t] = "stop" /\ answer'[t] = "none"
      BY <2>5, <3>1, <3>4 DEF StopUnder, SendCommand, Goto, TypeParts, CallersTypeOK
    <3>6. ~queueClosed
      BY <2>5, <3>5 DEF SendCommand, TypeParts, CallersTypeOK
    <3>7. admitted' = admitted /\ queue' = Append(queue, [kind |-> "stop", by |-> t])
      BY <2>5, <3>5, <3>6 DEF SendCommand
    <3> QED
      BY <1>2, <3>1, <3>2, <3>5, <3>7 DEF Recording, StopUnder
  <2>6. CASE Answered(t)
    <3>1. /\ pc[t] = "await" /\ pc'[t] = "gauge" /\ op' = op /\ answer' = answer
          /\ admitted' = admitted /\ queue' = queue
      BY <2>6 DEF Answered, At, Goto, TypeParts, CallersTypeOK
    <3>2. accepting'
      BY <2>3, <3>1 DEF StopUnder, StartDone
    <3>3. accepting \/ StartDone(t)
      BY <2>6, <3>1, <3>2 DEF Answered, StartDone
    <3> QED
      BY <1>2, <3>1, <3>3 DEF Recording
  <2>7. CASE Return(t)
    <3>1. /\ pc'[t] = "idle" /\ accepting' = accepting /\ admitted' = admitted /\ queue' = queue
      BY <2>7 DEF Return, Goto, TypeParts, CallersTypeOK
    <3>2. accepting
      BY <2>3, <3>1 DEF StopUnder, StartDone
    <3> QED
      BY <1>2, <3>1, <3>2 DEF Recording
  <2> QED
    BY <1>5, <2>4, <2>5, <2>6, <2>7 DEF CallerStep
<1> QED
  BY <1>1, <1>4, <1>5 DEF CommandStep

\* The steps of the worker a recording survives, and the one it begins with.
LEMMA WorkerInRecording ==
    ASSUME TypeParts, Protocol, AppliedLeavesNothing, Failures, WorkerStep, Recording'
    PROVE  WorkerStarts
           \/ (Recording /\ (WorkerTakesPacket \/ WorkerOpens \/ WorkerWrites))
<1>1. ~broken' /\ worker' # "done" /\ op' = op /\ pc' = pc
  BY DEF Recording, WorkerStep
<1>2. ~WorkerBreaks /\ ~WorkerEnds /\ ~WorkerMarksFailed
  BY <1>1 DEF WorkerBreaks, WorkerEnds, WorkerMarksFailed, Failures
<1>3. ~WorkerStops /\ ~WorkerConfigures
  <2> SUFFICES ASSUME WorkerStops \/ WorkerConfigures
               PROVE  FALSE
    OBVIOUS
  <2> DEFINE t == Head(queue).by
  <2>1. queue # <<>> /\ Head(queue).kind \in {"stop", "configure"} /\ accepting' = accepting
    BY DEF WorkerStops, WorkerConfigures, Work
  <2>2. /\ t \in Callers /\ pc[t] = "await" /\ op[t] \in {"stop", "configure"}
        /\ answer[t] = "none"
    BY <2>1, CommandTaken
  <2>3. answer'[t] # "none"
    BY <2>2 DEF WorkerStops, WorkerConfigures, Fulfil, TypeParts, CallersTypeOK
  <2>4. ~accepting
    BY <2>2 DEF Failures, Submitting
  <2>5. \A s \in Callers : pc[s] \in Submitting => s = t
    BY <2>2, NobodyElse DEF Protocol, Submitting
  <2>6. \A s \in Callers : ~StopUnder(s)' /\ ~StartDone(s)'
    BY <1>1, <2>2, <2>3, <2>5 DEF StopUnder, StartDone, Submitting
  <2> QED
    BY <2>1, <2>4, <2>6 DEF Recording
<1>4. CASE WorkerTakesPacket \/ WorkerOpens \/ WorkerWrites
  <2>1. /\ broken' = broken /\ accepting' = accepting /\ answer' = answer
        /\ worker \in {"receive", "write"}
    BY <1>4 DEF WorkerTakesPacket, WorkerOpens, WorkerWrites, Turn, Work
  <2> QED
    BY <1>1, <1>4, <2>1 DEF Recording, StopUnder, StartDone
<1> QED
  BY <1>2, <1>3, <1>4 DEF WorkerStep


\* What was taken stays written when more is admitted.
LEMMA WrittenStays ==
    ASSUME TypeParts, InOrder, Written, UNCHANGED workerVars, Taken' = Taken,
           \A i \in 1 .. Len(admitted) : admitted'[i] = admitted[i]
    PROVE  Written'
<1>1. /\ worker' = worker /\ todo' = todo /\ packet' = packet /\ writers' = writers
  BY DEF workerVars
<1>2. Taken \in 0 .. Len(admitted)
  BY Counts DEF InOrder
<1>3. worker = "write" => Taken > 0 /\ packet = admitted[Taken]
  BY DEF Written
<1>4. worker' = "write" => Taken' > 0 /\ packet' = admitted'[Taken']
  BY <1>1, <1>2, <1>3
<1>5. ASSUME NEW c \in Cameras
      PROVE  WriterIsComplete(c)'
  <2>1. Due(c)' = Due(c) /\ Due(c) <= Len(admitted) /\ Due(c) \in Int
    BY <1>1, <1>2 DEF Due
  <2>2. WriterIsComplete(c)
    BY DEF Written
  <2>3. \A i \in 1 .. Due(c) : admitted'[i] = admitted[i]
    <3> SUFFICES ASSUME NEW i \in 1 .. Due(c)
                 PROVE  admitted'[i] = admitted[i]
      OBVIOUS
    <3>1. i \in 1 .. Len(admitted)
      BY <2>1, Counts
    <3> QED
      BY <3>1
  <2> QED
    BY <1>1, <2>1, <2>2, <2>3 DEF WriterIsComplete
<1> QED
  BY <1>4, <1>5 DEF Written

LEMMA CoordinatorLosesNothing ==
    ASSUME TypeParts, Protocol, Ending, Failures, NothingIsLost, CoordinatorStep, Recording',
           TypeParts'
    PROVE  InOrder' /\ Written'
<1>1. /\ UNCHANGED <<workerVars, flags, callerVars>> /\ queueClosed' = queueClosed
  BY DEF CoordinatorStep
<1>2. Recording
  BY <1>1 DEF Recording, StopUnder, StartDone, workerVars, flags, callerVars
<1>3. InOrder /\ Written
  BY <1>2 DEF NothingIsLost
<1>4. CASE CoordinatorReceives \/ CoordinatorEnds
  <2>1. /\ queue' = queue /\ admitted' = admitted
        /\ coordinator # "send" /\ coordinator' # "send"
    BY <1>4 DEF CoordinatorReceives, CoordinatorEnds
  <2>2. Queued' = Queued /\ Taken' = Taken
    BY <2>1 DEF Queued, InHand, Taken
  <2>3. InOrder'
    BY <1>3, <2>1, <2>2 DEF InOrder
  <2> QED
    BY <1>1, <1>3, <2>1, <2>2, <2>3, WrittenStays
<1>5. CASE CoordinatorLocks
  <2>1. queue' = queue /\ Queued' = Queued /\ arrived' = arrived /\ coordinator = "lock"
    BY <1>5 DEF CoordinatorLocks, Queued
  <2>2. CASE accepting
    <3>1. admitted' = Append(admitted, arrived) /\ coordinator' = "send"
      BY <1>5, <2>2 DEF CoordinatorLocks
    <3>2. admitted \in Seq(Packets) /\ arrived \in Packets
      BY <2>1 DEF TypeParts, QueueTypeOK
    <3>3. /\ Len(admitted) \in Nat /\ Len(admitted') = Len(admitted) + 1
          /\ \A i \in 1 .. Len(admitted) : admitted'[i] = admitted[i]
          /\ admitted'[Len(admitted) + 1] = arrived
      BY <3>1, <3>2, Appended
    <3>4. InHand = 0 /\ InHand' = 1
      BY <2>1, <3>1 DEF InHand
    <3>5. Taken' = Taken
      BY <2>1, <3>3, <3>4, Counts DEF Taken
    <3>6. \A i \in 1 .. Queued : Taken + i \in 1 .. Len(admitted)
      BY <1>3, <3>4, Counts DEF InOrder
    <3>7. InOrder'
      BY <1>3, <2>1, <3>3, <3>5, <3>6 DEF InOrder
    <3> QED
      BY <1>1, <1>3, <3>3, <3>5, <3>7, WrittenStays
  <2>3. CASE ~accepting
    <3>1. admitted' = admitted /\ coordinator' = "receive"
      BY <1>5, <2>3 DEF CoordinatorLocks
    <3>2. Taken' = Taken
      BY <2>1, <3>1 DEF InHand, Taken
    <3>3. InOrder'
      BY <1>3, <2>1, <3>1, <3>2 DEF InOrder
    <3> QED
      BY <1>1, <1>3, <3>1, <3>2, <3>3, WrittenStays
  <2> QED
    BY <2>2, <2>3
<1>6. CASE CoordinatorSends
  <2> DEFINE e == [kind |-> "packet", packet |-> arrived]
  <2>1. coordinator = "send" /\ coordinator' = "receive" /\ admitted' = admitted
    BY <1>6 DEF CoordinatorSends
  <2>2. queue' = Append(queue, e)
    BY <1>6, <2>1 DEF CoordinatorSends, Ending
  <2>3. e \in Entries /\ e.kind = "packet" /\ e.packet = arrived
    BY <2>1 DEF TypeParts, QueueTypeOK, Entries
  <2>4. \A t \in Callers : pc[t] # "await"
    BY <2>1, NobodyElse DEF Protocol, Submitting
  <2>5. \A i \in 1 .. Len(queue) : queue[i].kind = "packet"
    BY <2>4, NoCommandQueued
  <2> HIDE DEF e
  <2>6. /\ Queued' = Queued + 1
        /\ \A i \in 1 .. Queued : queue'[i] = queue[i]
        /\ queue'[Queued + 1] = e
    BY <2>2, <2>3, <2>5, EntryQueued
  <2>7. InHand = 1 /\ InHand' = 0
    BY <2>1 DEF InHand
  <2>8. Taken' = Taken
    BY <2>1, <2>6, <2>7, Counts DEF Taken
  <2>9. Taken + (Queued + 1) = Len(admitted) /\ Queued \in Nat
    BY <2>7, Counts
  <2>10. \A i \in 1 .. Queued' : queue'[i].packet = admitted'[Taken' + i]
    <3> SUFFICES ASSUME NEW i \in 1 .. Queued + 1
                 PROVE  queue'[i].packet = admitted[Taken + i]
      BY <2>1, <2>6, <2>8
    <3>1. CASE i = Queued + 1
      BY <1>3, <2>1, <2>3, <2>6, <2>9, <3>1 DEF InOrder
    <3>2. CASE i # Queued + 1
      <4>1. i \in 1 .. Queued
        BY <2>9, <3>2
      <4> QED
        BY <1>3, <2>6, <4>1 DEF InOrder
    <3> QED
      BY <3>1, <3>2
  <2>11. InOrder'
    BY <1>3, <2>1, <2>8, <2>10 DEF InOrder
  <2> QED
    BY <1>1, <1>3, <2>1, <2>8, <2>11, WrittenStays
<1> QED
  BY <1>4, <1>5, <1>6 DEF CoordinatorStep

LEMMA CallerLosesNothing ==
    ASSUME TypeParts, Protocol, AppliedLeavesNothing, Failures, NothingIsLost, CommandStep,
           Recording', TypeParts'
    PROVE  InOrder' /\ Written'
<1>1. /\ Recording /\ UNCHANGED workerVars /\ coordinator' = coordinator
      /\ admitted' = admitted /\ arrived' = arrived
  BY CallerInRecording
<1>2. InOrder /\ Written
  BY <1>1 DEF NothingIsLost
<1>3. Queued' = Queued /\ \A i \in 1 .. Queued : queue'[i] = queue[i]
  <2>1. CASE queue' = queue
    BY <2>1 DEF Queued
  <2>2. ASSUME NEW t \in Callers, pc[t] = "send", answer[t] = "none",
               queue' = Append(queue, [kind |-> "stop", by |-> t])
        PROVE  Queued' = Queued /\ \A i \in 1 .. Queued : queue'[i] = queue[i]
    <3> DEFINE e == [kind |-> "stop", by |-> t]
    <3>1. e \in Entries /\ e.kind # "packet"
      BY DEF Entries, Operations
    <3>2. \A s \in Callers : pc[s] # "await"
      BY <2>2, NobodyElse DEF Protocol, Submitting
    <3>3. \A i \in 1 .. Len(queue) : queue[i].kind = "packet"
      BY <3>2, NoCommandQueued
    <3> HIDE DEF e
    <3>4. queue' = Append(queue, e)
      BY <2>2 DEF e
    <3> QED
      BY <3>1, <3>3, <3>4, EntryQueued
  <2> QED
    BY <2>1, <2>2, CallerInRecording
<1>4. Taken' = Taken
  BY <1>1, <1>3 DEF Taken, InHand
<1>5. InOrder'
  BY <1>1, <1>2, <1>3, <1>4 DEF InOrder
<1> QED
  BY <1>1, <1>2, <1>4, <1>5, WrittenStays


\* One more frame behind what a writer has: complete so far, complete with it.
LEMMA OneMore ==
    ASSUME NEW s \in Seq(Packets), NEW k \in Seq(Packets), NEW n \in Nat \ {0},
           n <= Len(admitted), admitted \in Seq(Packets),
           Len(s) <= n - 1,
           Len(s) = n - 1 => \A i \in 1 .. n - 1 : s[i] = admitted[i],
           k = s \/ k = Append(s, admitted[n])
    PROVE  /\ Len(k) <= n
           /\ Len(k) = n => \A i \in 1 .. n : k[i] = admitted[i]
<1>1. Len(s) \in Nat
  BY LenProperties
<1>2. CASE k = s
  BY <1>1, <1>2
<1>3. CASE k = Append(s, admitted[n])
  <2>1. admitted[n] \in Packets
    BY ElementOfSeq, LenProperties
  <2>2. /\ Len(k) = Len(s) + 1 /\ k[Len(s) + 1] = admitted[n]
        /\ \A i \in 1 .. Len(s) : k[i] = s[i]
    BY <1>3, <2>1, Appended
  <2>3. ASSUME Len(k) = n, NEW i \in 1 .. n
        PROVE  k[i] = admitted[i]
    <3>1. Len(s) = n - 1
      BY <1>1, <2>2, <2>3
    <3>2. i \in 1 .. n - 1 \/ i = n
      BY <2>3
    <3> QED
      BY <2>2, <3>1, <3>2
  <2> QED
    BY <1>1, <2>2, <2>3
<1> QED
  BY <1>2, <1>3

LEMMA WorkerLosesNothing ==
    ASSUME TypeParts, Protocol, AppliedLeavesNothing, Failures, WritersFit, FreshStart,
           NothingIsLost, WorkerStep, Recording', TypeParts'
    PROVE  InOrder' /\ Written'
<1>1. /\ admitted' = admitted /\ arrived' = arrived /\ coordinator' = coordinator
      /\ InHand' = InHand
  BY DEF WorkerStep, InHand
<1>2. CASE WorkerStarts
  <2>1. queue # <<>> /\ Head(queue).kind = "start" /\ worker = "receive" /\ worker' = worker
        /\ Clear
    BY <1>2 DEF WorkerStarts, Work
  <2>2. /\ queue' = <<>> /\ Head(queue).by \in Callers /\ coordinator # "send"
        /\ pc[Head(queue).by] = "await" /\ answer[Head(queue).by] = "none"
        /\ op[Head(queue).by] = "start"
    BY <1>2, <2>1, CommandTaken DEF WorkerStarts, Work
  <2>3. admitted = <<>>
    BY <2>2 DEF FreshStart
  <2>4. Queued' = 0 /\ InHand' = 0 /\ Len(admitted') = 0 /\ Taken' = 0
    <3>1. Queued' = 0
      BY <2>2, EmptySeq DEF Queued
    <3>2. InHand' = 0
      BY <1>1, <2>2 DEF InHand
    <3>3. Len(admitted') = 0
      BY <1>1, <2>3, EmptySeq
    <3> QED
      BY <3>1, <3>2, <3>3 DEF Taken
  <2>5. InOrder'
    BY <1>1, <2>2, <2>4 DEF InOrder
  <2>6. ASSUME NEW c \in Cameras
        PROVE  WriterIsComplete(c)'
    <3>1. writers'[c] = NoWriter /\ Due(c)' = 0
      BY <2>1, <2>4 DEF Clear, Due
    <3>2. writers'[c].accepted = 0 /\ Len(Content(writers'[c])) = 0
      BY <3>1, NoWriterIsRecord, EmptySeq
    <3> QED
      BY <3>1, <3>2 DEF WriterIsComplete
  <2> QED
    BY <2>1, <2>5, <2>6 DEF Written
<1>3. ASSUME Recording
      PROVE  /\ InOrder /\ Written /\ ~broken
             /\ Taken \in Nat /\ Taken <= Len(admitted) /\ Len(admitted) \in Nat
  BY <1>3, Counts DEF NothingIsLost, Recording, InOrder
<1>4. CASE Recording /\ WorkerTakesPacket
  <2>1. /\ worker = "receive" /\ queue # <<>> /\ Head(queue).kind = "packet"
        /\ queue' = Tail(queue) /\ writers' = writers
        /\ worker' = "write" /\ packet' = Head(queue).packet /\ todo' = Cameras
    BY <1>3, <1>4 DEF WorkerTakesPacket, Work
  <2>2. /\ Queued \in Nat \ {0} /\ Queued' = Queued - 1
        /\ \A i \in 1 .. Queued - 1 : queue'[i] = queue[i + 1]
        /\ Head(queue) = queue[1]
    BY <2>1, PacketTaken
  <2>3. Taken' = Taken + 1
    BY <1>1, <1>3, <1>4, <2>2, Counts DEF Taken
  <2>4. \A i \in 1 .. Queued : queue[i].packet = admitted[Taken + i]
    BY <1>3, <1>4 DEF InOrder
  <2>5. packet' = admitted'[Taken']
    <3>1. 1 \in 1 .. Queued
      BY <2>2
    <3> QED
      BY <1>1, <2>1, <2>2, <2>3, <2>4, <3>1
  <2>6. \A i \in 1 .. Queued' : queue'[i].packet = admitted'[Taken' + i]
    <3> SUFFICES ASSUME NEW i \in 1 .. Queued - 1
                 PROVE  queue'[i].packet = admitted[(Taken + 1) + i]
      BY <1>1, <2>2, <2>3
    <3>1. i + 1 \in 1 .. Queued /\ Taken + (i + 1) = (Taken + 1) + i
      BY <1>3, <1>4, <2>2
    <3> QED
      BY <2>2, <2>4, <3>1
  <2>7. InOrder'
    BY <1>1, <1>3, <1>4, <2>3, <2>6 DEF InOrder
  <2>8. ASSUME NEW c \in Cameras
        PROVE  WriterIsComplete(c)'
    <3>1. Due(c) = Taken /\ Due(c)' = Taken
      BY <1>3, <1>4, <2>1, <2>3 DEF Due
    <3>2. WriterIsComplete(c)
      BY <1>3, <1>4 DEF Written
    <3> QED
      BY <1>1, <2>1, <3>1, <3>2 DEF WriterIsComplete
  <2> QED
    BY <1>3, <1>4, <2>3, <2>5, <2>7, <2>8 DEF Written
<1>5. ASSUME Recording, queue' = queue
      PROVE  Queued' = Queued /\ Taken' = Taken /\ InOrder'
  <2>1. Queued' = Queued
    BY <1>5 DEF Queued
  <2>2. Taken' = Taken
    BY <1>1, <2>1 DEF Taken
  <2> QED
    BY <1>1, <1>3, <1>5, <2>1, <2>2 DEF InOrder
<1>6. CASE Recording /\ WorkerOpens
  <2>1. PICK c \in Cameras : Turn(c) /\ Open(destination, c)
    BY <1>6 DEF WorkerOpens
  <2> DEFINE w == [NoWriter EXCEPT !.state = "open", !.to = destination]
  <2>2. /\ writers[c].state = "none" /\ writers' = [writers EXCEPT ![c] = w]
        /\ worker' = worker /\ todo' = todo /\ packet' = packet /\ queue' = queue
    BY <1>6, <2>1, OpenEffect DEF TypeParts, WorkerOpens
  <2>3. w.accepted = 0 /\ Content(w) = <<>>
    BY NoWriterIsRecord DEF TypeParts, WorkerTypeOK
  <2> HIDE DEF w
  <2>4. Taken' = Taken /\ InOrder'
    BY <1>5, <1>6, <2>2
  <2>5. writers[c].accepted = 0 /\ Content(writers[c]) = <<>>
    BY <2>2 DEF WritersFit, WriterFits
  <2>6. ASSUME NEW b \in Cameras
        PROVE  WriterIsComplete(b)'
    <3>1. /\ writers'[b].accepted = writers[b].accepted
          /\ Content(writers'[b]) = Content(writers[b])
      BY <2>2, <2>3, <2>5 DEF TypeParts, WorkerTypeOK
    <3>2. Due(b)' = Due(b)
      BY <2>2, <2>4 DEF Due
    <3>3. WriterIsComplete(b)
      BY <1>3, <1>6 DEF Written
    <3> QED
      BY <1>1, <3>1, <3>2, <3>3 DEF WriterIsComplete
  <2> QED
    BY <1>1, <1>3, <1>6, <2>2, <2>4, <2>6 DEF Written
<1>7. CASE Recording /\ WorkerWrites
  <2>1. PICK c \in Cameras : Turn(c) /\ Write(c, packet) /\ todo' = todo \ {c}
    BY <1>7 DEF WorkerWrites
  <2>2. worker = "write" /\ c \in todo /\ packet \in Packets /\ todo \subseteq Cameras
    BY <2>1 DEF Turn, TypeParts, WorkerTypeOK
  <2>3. /\ queue' = queue
        /\ worker' = IF todo' = {} THEN "receive" ELSE "write"
        /\ packet' = IF todo' = {} THEN 0 ELSE packet
    BY <1>7 DEF WorkerWrites
  <2>4. PICK r \in Records :
            /\ writers' = [writers EXCEPT ![c] = r]
            /\ r.accepted = writers[c].accepted + 1
            /\ \/ Content(r) = Content(writers[c])
               \/ Content(r) = Append(Content(writers[c]), packet)
    BY <2>1, <2>2, WriteEffect DEF TypeParts
  <2>5. Taken' = Taken /\ InOrder'
    BY <1>5, <1>7, <2>3
  <2>6. Taken > 0 /\ packet = admitted[Taken]
    BY <1>3, <1>7, <2>2 DEF Written
  <2>7. \A b \in Cameras : WriterIsComplete(b)
    BY <1>3, <1>7 DEF Written
  <2>8. WriterIsComplete(c)'
    <3>1. Due(c) = Taken - 1 /\ Due(c)' = Taken
      BY <2>1, <2>2, <2>5 DEF Due
    <3>2. /\ writers[c].accepted = Taken - 1
          /\ Len(Content(writers[c])) <= Taken - 1
          /\ Len(Content(writers[c])) = Taken - 1 =>
                \A i \in 1 .. Taken - 1 : Content(writers[c])[i] = admitted[i]
      BY <2>7, <3>1 DEF WriterIsComplete
    <3>3. writers'[c] = r
      BY <2>4 DEF TypeParts, WorkerTypeOK
    <3>4. writers[c] \in Records
      BY DEF TypeParts, WorkerTypeOK
    <3>5. /\ Content(writers[c]) \in Seq(Packets) /\ Content(r) \in Seq(Packets)
      BY <2>4, <3>4, ContentIsSequence
    <3>6. /\ Taken \in Nat \ {0} /\ Taken <= Len(admitted) /\ admitted \in Seq(Packets)
      BY <1>3, <1>7, <2>6 DEF TypeParts, QueueTypeOK
    <3>7. /\ Len(Content(r)) <= Taken
          /\ Len(Content(r)) = Taken => \A i \in 1 .. Taken : Content(r)[i] = admitted[i]
      BY <2>4, <2>6, <3>2, <3>5, <3>6, OneMore
    <3>8. r.accepted = Taken
      BY <2>4, <3>2, <3>6
    <3> QED
      BY <1>1, <3>1, <3>3, <3>7, <3>8 DEF WriterIsComplete
  <2>9. ASSUME NEW b \in Cameras \ {c}
        PROVE  WriterIsComplete(b)'
    <3>1. writers'[b] = writers[b]
      BY <2>4 DEF TypeParts, WorkerTypeOK
    <3>2. Due(b)' = Due(b)
      BY <2>1, <2>2, <2>3, <2>5 DEF Due
    <3> QED
      BY <1>1, <2>7, <3>1, <3>2 DEF WriterIsComplete
  <2>10. worker' = "write" => packet' = packet
    BY <2>3
  <2> QED
    BY <1>1, <2>5, <2>6, <2>8, <2>9, <2>10 DEF Written
<1> QED
  BY <1>2, <1>4, <1>6, <1>7, WorkerInRecording

LEMMA NothingIsLostStep ==
    ASSUME TypeParts, Protocol, Ending, AppliedLeavesNothing, Failures, WritersFit, FreshStart,
           NothingIsLost, [Next]_vars, TypeParts'
    PROVE  NothingIsLost'
<1> SUFFICES ASSUME Recording'
             PROVE  InOrder' /\ Written'
  BY DEF NothingIsLost
<1>1. CASE CoordinatorStep
  BY <1>1, CoordinatorLosesNothing
<1>2. CASE WorkerStep
  BY <1>2, WorkerLosesNothing
<1>3. CASE CommandStep
  BY <1>3, CallerLosesNothing
<1>4. CASE InputEnds \/ Stop \/ UNCHANGED vars
  <2>1. /\ UNCHANGED workerVars /\ answer' = answer /\ (accepting' => accepting)
        /\ coordinator' = coordinator /\ admitted' = admitted /\ queue' = queue
        /\ arrived' = arrived
    BY <1>4 DEF InputEnds, Stop, StopStep, vars, flags, callerVars
  <2>2. \A t \in Callers : pc'[t] \in Submitting => pc'[t] = pc[t] /\ op'[t] = op[t]
    BY <1>4
       DEF InputEnds, Stop, StopStep, Goto, vars, callerVars, Submitting, TypeParts, CallersTypeOK
  <2>3. Recording
    BY <2>1, <2>2 DEF Recording, StopUnder, StartDone, Submitting, workerVars
  <2>4. Queued' = Queued /\ Taken' = Taken
    BY <2>1 DEF Queued, Taken, InHand
  <2>5. InOrder /\ Written
    BY <2>3 DEF NothingIsLost
  <2>6. InOrder'
    BY <2>1, <2>4, <2>5 DEF InOrder
  <2> QED
    BY <2>1, <2>4, <2>5, <2>6, WrittenStays
<1> QED
  BY <1>1, <1>2, <1>3, <1>4 DEF Next


-----------------------------------------------------------------------------
(* A stop that is answered with Applied has put everything that was         *)
(* admitted into the file of every camera, and nobody touches the files, or *)
(* admits a packet, before the caller has its answer.                       *)

Complete ==
    \A c \in Cameras : files[destination][c] = [state |-> "final", content |-> admitted]

FinalStays ==
    \A t \in Callers : op[t] = "stop" /\ pc[t] = "await" /\ answer[t] = "Applied" => Complete

LEMMA StopCompletes ==
    ASSUME TypeParts, Protocol, WritersFit, NothingIsLost, WorkerStops,
           NEW t \in Callers, answer[t] # "Applied", answer'[t] = "Applied"
    PROVE  \A c \in Cameras :
              files'[destination][c] = [state |-> "final", content |-> admitted]
<1>1. worker = "receive" /\ queue # <<>> /\ Head(queue).kind = "stop"
  BY DEF WorkerStops, Work
<1>2. /\ Len(queue) = 1 /\ coordinator # "send"
      /\ Head(queue).by \in Callers /\ pc[Head(queue).by] = "await"
      /\ answer[Head(queue).by] = "none" /\ op[Head(queue).by] = "stop"
  BY <1>1, CommandTaken
<1>3. ~broken /\ Used # {} /\ FinalizeAll /\ t = Head(queue).by
  BY <1>2 DEF WorkerStops, Fulfil, TypeParts, CallersTypeOK
<1>4. Recording
  BY <1>1, <1>2, <1>3 DEF Recording, StopUnder
<1>5. InOrder /\ Written
  BY <1>4 DEF NothingIsLost
<1>6. Taken = Len(admitted) /\ Len(admitted) \in Nat
  <2>1. queue[Len(queue)].kind # "packet"
    BY <1>1, <1>2, Popped DEF TypeParts, QueueTypeOK
  <2>2. Queued = 0
    BY <1>1, <1>2, <2>1 DEF Queued
  <2>3. InHand = 0
    BY <1>2 DEF InHand
  <2> QED
    BY <2>2, <2>3, Counts
<1>7. \A c \in Cameras : Due(c) = Len(admitted) /\ writers[c].accepted = Len(admitted)
  BY <1>1, <1>5, <1>6 DEF Due, Written, WriterIsComplete
<1>8. \A c \in Cameras : writers[c] \in Records
  BY DEF TypeParts, WorkerTypeOK
<1>9. Len(admitted) # 0
  <2>1. PICK c \in Cameras : writers[c].state # "none"
    BY <1>3 DEF Used
  <2>2. writers[c].state = "open"
    BY <1>3, <1>8, <2>1 DEF WritersFit, WriterFits, Records
  <2> QED
    BY <1>1, <1>3, <1>7, <2>2 DEF WritersFit, WriterFits
<1>10. \A c \in Cameras : writers[c].state = "open" /\ writers[c].to = destination /\ c \in Used
  BY <1>7, <1>9 DEF WritersFit, WriterFits, Used
<1>11. ASSUME NEW c \in Cameras
       PROVE  Content(writers[c]) = admitted
  <2>1. Len(writers[c].held) \in 0 .. Len(writers[c].held)
    BY <1>8, ContentIsSequence
  <2>2. Flushed(writers[c]).muxed = Content(writers[c])
    BY <1>8, <2>1, EmittedKeeps DEF Flushed
  <2>3. Len(Content(writers[c])) = Len(admitted)
    BY <1>3, <1>7, <1>10, <2>2 DEF FinalizeAll, Accounts
  <2>4. \A i \in 1 .. Len(admitted) : Content(writers[c])[i] = admitted[i]
    BY <1>5, <1>7, <2>3 DEF Written, WriterIsComplete
  <2>5. Content(writers[c]) \in Seq(Packets) /\ admitted \in Seq(Packets)
    BY <1>8, ContentIsSequence DEF TypeParts, QueueTypeOK
  <2> QED
    BY <2>3, <2>4, <2>5, SeqEqual
<1>12. Used \in SUBSET Cameras /\ Finalized(Used) /\ destination \in Destinations
  BY <1>3 DEF Used, FinalizeAll, TypeParts, WorkerTypeOK
<1>13. \A c \in Cameras :
          files'[destination][c] = [state |-> "final", content |-> Content(writers[c])]
  BY <1>10, <1>12, FinalizedEffect DEF TypeParts
<1> QED
  BY <1>11, <1>13

\* While an answer waits for its caller nothing happens to what it speaks of.
LEMMA AnswerIsStable ==
    ASSUME TypeParts, Protocol, AppliedLeavesNothing, [Next]_vars,
           NEW t \in Callers, answer[t] = "Applied", pc[t] = "await"
    PROVE  UNCHANGED <<files, destination, admitted>>
<1>1. /\ mutex = t /\ coordinator # "send"
      /\ \A s \in Callers : pc[s] \in Submitting => s = t
  BY AnswerIsMine
<1>2. CASE WorkerStep
  <2>1. UNCHANGED <<files, destination>>
    BY <1>2, IdleWorker DEF AppliedLeavesNothing
  <2> QED
    BY <1>2, <2>1 DEF WorkerStep
<1>3. CASE CoordinatorStep
  <2>1. admitted' = admitted
    BY <1>1, <1>3
       DEF CoordinatorStep, CoordinatorReceives, CoordinatorEnds, CoordinatorLocks,
           CoordinatorSends, Callers
  <2> QED
    BY <1>3, <2>1 DEF CoordinatorStep, workerVars
<1>4. CASE CommandStep
  <2>1. \A s \in Callers : ~SendCommand(s)
    BY <1>1 DEF SendCommand, At, Submitting
  <2>2. admitted' = admitted
    BY <1>4, <2>1 DEF CommandStep, Call, CallerStep, Lock, Answered, Return
  <2> QED
    BY <1>4, <2>2 DEF CommandStep, workerVars
<1>5. CASE InputEnds \/ Stop \/ UNCHANGED vars
  BY <1>5 DEF InputEnds, Stop, vars, workerVars
<1> QED
  BY <1>2, <1>3, <1>4, <1>5 DEF Next

\* Answers to a caller in await come from the worker.
LEMMA AnsweredByWorker ==
    ASSUME TypeParts, [Next]_vars, NEW t \in Callers, pc[t] = "await",
           answer[t] # "Applied", answer'[t] = "Applied"
    PROVE  WorkerStep
<1>1. CASE CommandStep
  BY <1>1
     DEF CommandStep, Call, CallerStep, Lock, SendCommand, Answered, Return, At, TypeParts,
         CallersTypeOK
<1>2. CASE CoordinatorStep \/ InputEnds \/ Stop \/ UNCHANGED vars
  BY <1>2 DEF CoordinatorStep, InputEnds, Stop, vars, callerVars
<1> QED
  BY <1>1, <1>2 DEF Next

LEMMA StopIsComplete ==
    ASSUME TypeParts, Protocol, AppliedLeavesNothing, WritersFit, NothingIsLost, FinalStays,
           [Next]_vars,
           NEW t \in Callers, op[t] = "stop", pc[t] = "await", answer'[t] = "Applied"
    PROVE  /\ \A c \in Cameras :
                 files'[destination][c] = [state |-> "final", content |-> admitted]
           /\ destination' = destination /\ admitted' = admitted
<1>1. CASE answer[t] = "Applied"
  BY <1>1, AnswerIsStable DEF FinalStays, Complete
<1>2. CASE answer[t] # "Applied"
  <2>1. WorkerStep
    BY <1>2, AnsweredByWorker
  <2>2. /\ queue # <<>> /\ Head(queue).kind # "packet"
        /\ \E r \in Results : answer' = [answer EXCEPT ![Head(queue).by] = r]
    BY <1>2, <2>1, WorkerOnQueue
  <2>3. t = Head(queue).by /\ Head(queue).kind = "stop"
    BY <1>2, <2>2, CommandTaken DEF TypeParts, CallersTypeOK
  <2>4. WorkerStops
    BY <1>2, <2>1, <2>3
       DEF WorkerStep, WorkerTakesPacket, WorkerOpens, WorkerWrites, WorkerBreaks, WorkerEnds,
           WorkerMarksFailed, WorkerStarts, WorkerConfigures, Work
  <2>5. destination' = destination /\ admitted' = admitted
    BY <2>1, <2>4 DEF WorkerStops, WorkerStep
  <2> QED
    BY <1>2, <2>4, <2>5, StopCompletes
<1> QED
  BY <1>1, <1>2

LEMMA FinalStaysStep ==
    ASSUME TypeParts, Protocol, AppliedLeavesNothing, WritersFit, NothingIsLost, FinalStays,
           [Next]_vars
    PROVE  FinalStays'
<1> SUFFICES ASSUME NEW t \in Callers, op'[t] = "stop", pc'[t] = "await", answer'[t] = "Applied"
             PROVE  Complete'
  BY DEF FinalStays
<1>1. op[t] = "stop" /\ pc[t] = "await"
  <2>1. CASE CommandStep
    BY <2>1
       DEF CommandStep, Call, CallerStep, Lock, SendCommand, Answered, Return, At, Goto,
           TypeParts, CallersTypeOK
  <2>2. CASE Stop
    BY <2>2 DEF Stop, StopStep, Goto, TypeParts, CallersTypeOK
  <2> QED
    BY <2>1, <2>2
       DEF Next, CoordinatorStep, InputEnds, WorkerStep, vars, callerVars
<1> QED
  BY <1>1, StopIsComplete DEF Complete

\* Files: only what is partial is finished, and only for a writer that has it
\* open; only what is absent is created.
LEMMA FilesStep ==
    ASSUME TypeParts, WritersFit, [Next]_vars, NEW d \in Destinations, NEW c \in Cameras
    PROVE  /\ files[d][c].state = "final" => files'[d][c] = files[d][c]
           /\ files[d][c].state = "partial" /\ Used = {} => files'[d][c] = files[d][c]
<1>1. CASE UNCHANGED files
  BY <1>1
<1>2. CASE \E b \in Cameras : files[destination][b].state = "absent" /\ Partial(destination, b)
  <2>1. PICK b \in Cameras : files[destination][b].state = "absent" /\ Partial(destination, b)
    BY <1>2
  <2>2. files'[d][c] = IF d = destination /\ c = b THEN [files[d][c] EXCEPT !.state = "partial"]
                                                ELSE files[d][c]
    BY <2>1, PartialFiles DEF TypeParts
  <2>3. files'[d][c] = files[d][c] \/ files[d][c].state = "absent"
    BY <2>1, <2>2
  <2> QED
    BY <2>3
<1>3. CASE ~broken /\ \E S \in SUBSET Used : Finalized(S)
  <2>1. PICK S \in SUBSET Used : Finalized(S)
    BY <1>3
  <2>2. S \in SUBSET Cameras
    BY <2>1 DEF Used
  <2>3. files'[d][c] = IF c \in S /\ writers[c].to = d
                       THEN [state |-> "final", content |-> Content(writers[c])]
                       ELSE files[d][c]
    BY <2>1, <2>2, FinalizedEffect DEF TypeParts
  <2>4. ASSUME c \in S, writers[c].to = d
        PROVE  files[d][c].state = "partial" /\ Used # {}
    <3>1. writers[c].state # "none" /\ Used # {} /\ writers[c] \in Records
      BY <2>1, <2>4 DEF Used, TypeParts, WorkerTypeOK
    <3>2. writers[c].state = "open"
      BY <1>3, <3>1 DEF WritersFit, WriterFits, Records
    <3> QED
      BY <2>4, <3>1, <3>2 DEF WritersFit, WriterFits
  <2> QED
    BY <2>3, <2>4
<1>4. CASE WorkerStep
  <2>1. CASE WorkerOpens
    BY <1>2, <2>1, OpenEffect DEF WorkerOpens, TypeParts
  <2>2. CASE WorkerBreaks
    BY <1>1, <1>2, <2>2, ThrowEffect DEF WorkerBreaks, TypeParts
  <2>3. CASE WorkerStops
    BY <1>1, <1>3, <2>3, StopEffect DEF TypeParts
  <2>4. CASE WorkerTakesPacket \/ WorkerWrites \/ WorkerMarksFailed \/ WorkerStarts
             \/ WorkerConfigures \/ WorkerEnds
    BY <1>1, <2>4
       DEF WorkerTakesPacket, WorkerWrites, Write, WorkerMarksFailed, WorkerStarts,
           WorkerConfigures, WorkerEnds
  <2> QED
    BY <1>4, <2>1, <2>2, <2>3, <2>4 DEF WorkerStep
<1>5. CASE CoordinatorStep \/ InputEnds \/ CommandStep \/ Stop \/ UNCHANGED vars
  <2>1. UNCHANGED files
    BY <1>5 DEF CoordinatorStep, InputEnds, CommandStep, Stop, vars, workerVars
  <2> QED
    BY <1>1, <2>1
<1> QED
  BY <1>4, <1>5 DEF Next

-----------------------------------------------------------------------------
(* The invariant and the theorems *)

Inv ==
    /\ TypeParts /\ Protocol /\ Ending
    /\ AppliedLeavesNothing /\ Failures /\ MetricFollows
    /\ WritersFit /\ FreshStart /\ NothingIsLost /\ FinalStays

LEMMA InvStart == Init => Inv
<1> SUFFICES ASSUME Init
             PROVE  Inv
  OBVIOUS
<1>1. TypeParts
  BY TypeStart
<1>2. /\ \A t \in Callers : pc[t] = "idle" /\ answer[t] = "none" /\ op[t] = "none"
      /\ queue = <<>> /\ coordinator = "receive" /\ mutex = "free" /\ worker = "receive"
      /\ stopping = "no" /\ running = TRUE /\ ~queueClosed
      /\ ~accepting /\ ~failed /\ ~broken /\ accepting = FALSE /\ gauge = FALSE
  BY DEF Init
<1>3. Protocol
  <2>1. Len(queue) = 0
    BY <1>2, EmptySeq
  <2> QED
    BY <1>2, <2>1
       DEF Protocol, MutexIsHeld, AnswersAreFresh, RunnerIsFree, CommandsAreLast, Submitting,
           Callers
<1>4. Ending
  BY <1>2 DEF Ending
<1>5. AppliedLeavesNothing /\ Failures /\ MetricFollows /\ FreshStart /\ FinalStays
  BY <1>2
     DEF AppliedLeavesNothing, Failures, MetricFollows, FreshStart, FinalStays, Submitting,
         GaugeTellsAdmission
<1>6. WritersFit
  <2>1. \A c \in Cameras : writers[c] = NoWriter
    BY DEF Init, WritersInit
  <2> QED
    BY <2>1, NoWriterIsRecord DEF WritersFit, WriterFits
<1>7. NothingIsLost
  BY <1>2 DEF NothingIsLost, Recording, StopUnder, StartDone
<1> QED
  BY <1>1, <1>3, <1>4, <1>5, <1>6, <1>7 DEF Inv

LEMMA InvStep ==
    ASSUME Inv, [Next]_vars
    PROVE  Inv'
<1> USE DEF Inv
<1>1. TypeParts'
  BY TypeStep
<1>2. Protocol' /\ Ending'
  BY ProtocolStep, EndingStep
<1>3. AppliedLeavesNothing' /\ Failures' /\ MetricFollows'
  BY AppliedStep, FailuresStep, MetricStep
<1>4. WritersFit' /\ FreshStart'
  BY WritersFitStep, FreshStartStep
<1>5. NothingIsLost' /\ FinalStays'
  BY <1>1, NothingIsLostStep, FinalStaysStep
<1> QED
  BY <1>1, <1>2, <1>3, <1>4, <1>5

\* The worker, the coordinator and both callers keep to the protocol of the
\* submission mutex; what the parts of the invariant say holds always.
THEOREM Kept == Spec => []Inv
BY InvStart, InvStep, PTL DEF Spec

\* Between commands and failures the metric iris_output_recording_active tells
\* whether packets are admitted, and every variable has its type.
THEOREM Told == Spec => []RecordingIsTold
<1>1. Inv => RecordingIsTold
  <2> SUFFICES ASSUME Inv
               PROVE  RecordingIsTold
    OBVIOUS
  <2>1. TypeOK
    BY PartsImplyType DEF Inv
  <2>2. GaugeTellsAdmission
    BY DEF Inv, MetricFollows, GaugeTellsAdmission
  <2> QED
    BY <2>1, <2>2 DEF RecordingIsTold
<1> QED
  BY <1>1, Kept, PTL

\* A stop_recording() that finalize_writers() answers with Applied has left, in
\* the file of every camera, the packets of the recording: all of them, in
\* order, and no other.
THEOREM NeverDropsAFrame == Spec => FinalizedIsComplete
<1> DEFINE Done == \A t \in Callers :
              op[t] = "stop" /\ pc[t] = "await" /\ answer'[t] = "Applied" =>
                  \A c \in Cameras :
                      files'[destination][c] = [state |-> "final", content |-> admitted]
<1>1. Inv /\ [Next]_vars => [Done]_vars
  <2> SUFFICES ASSUME Inv, [Next]_vars
               PROVE  Done
    OBVIOUS
  <2> QED
    BY StopIsComplete DEF Inv
<1> QED
  BY <1>1, Kept, PTL DEF Spec, FinalizedIsComplete

\* No step changes a file that has its final name, and none but those of a
\* recording under way changes a partial one.
THEOREM RecordingsAreKept == Spec => FilesAreKept
<1> DEFINE Stay == \A d \in Destinations, c \in Cameras :
              /\ files[d][c].state = "final" => files'[d][c] = files[d][c]
              /\ files[d][c].state = "partial" /\ Used = {} => files'[d][c] = files[d][c]
<1>1. Inv /\ [Next]_vars => [Stay]_vars
  <2> SUFFICES ASSUME Inv, [Next]_vars
               PROVE  Stay
    OBVIOUS
  <2> QED
    BY FilesStep DEF Inv
<1> QED
  BY <1>1, Kept, PTL DEF Spec, FilesAreKept

=============================================================================
