-------------------------- MODULE VideoFileReader --------------------------
(***************************************************************************)
(* VideoFileReader: one video file, demultiplexed and decoded by FFmpeg.   *)
(* read_next() returns the next frame or nothing at the end.  A step of    *)
(* this module is one turn of its loop, for one reader; it sets result and *)
(* leaves it to SynchronizedVideo to call the readers one after the other. *)
(*                                                                         *)
(* FFmpeg is external: avcodec_receive_frame() returns the frames of the   *)
(* packets in order, but keeps the last `delay` of them back until it is   *)
(* flushed.  Times are small integers relative to the start of the stream; *)
(* Missing is AV_NOPTS_VALUE.                                              *)
(***************************************************************************)
EXTENDS Integers, Sequences

CONSTANTS Cameras,    \* the files, one per camera
          Interval    \* frame_interval_, the nominal distance of two frames

ASSUME IntervalAssumption == Interval \in Nat \ {0}

VARIABLES files,      \* the files, fixed: see File below
          reader,     \* the state of each VideoFileReader
          result      \* what read_next() returned: Pending while it runs

\* A file is a record of
\*   packets   what av_read_frame() returns: <<is it of the video stream, its pts>>
\*   delay     frames the decoder keeps back
\*   hardware  the CUDA decoder can be opened
\*   surface   what it decodes to: "nv12", another surface, or "software"
\*   broken    the packet whose submission or conversion throws, 0: none
readerVars == <<reader, result>>

Missing == -1
Pending == [is |-> "pending"]
Nothing == [is |-> "nothing"]
Thrown  == [is |-> "thrown"]

VideoPackets(file) == {k \in DOMAIN file.packets : file.packets[k][1]}

\* Impl: a fresh reader of a file.  pass counts the readers a camera has had.
Opened(pass) == [pass |-> pass, next |-> 1, inside |-> << >>, eof |-> FALSE,
                 flushed |-> FALSE, last |-> 0, count |-> 0]

\* What the frames are: open_hardware_decoder() falls back to the software
\* decoder, and select_hardware_format() to its first software format.
Surface(file) == IF file.hardware THEN file.surface ELSE "software"

\* convert_frame(): an NV12 surface is converted on the GPU, straight into the
\* destination; anything else is converted on the CPU and left to the caller.
OnGpu(file) == Surface(file) = "nv12"

\* convert_to_bgr(): the pixel formats the CPU conversion knows; an NVDEC
\* surface of ten bits, for example, is not one of them.
Convertible(file) == OnGpu(file) \/ Surface(file) \in {"software", "yuv420p"}

\* The time stamp rule of convert_frame().
PresentationTime(r, pts) ==
    IF pts = Missing \/ (pts <= r.last /\ r.count # 0) THEN r.last + Interval ELSE pts

\* avcodec_receive_frame() has nothing more to say.
Drained(r) == r.flushed /\ r.inside = << >>

CanReceive(c) ==
    reader[c].inside # << >> /\ (reader[c].flushed \/ Len(reader[c].inside) > files[c].delay)

\* A frame is received and converted; a packet that cannot be decoded or
\* converted (a new resolution, an unsupported pixel format) throws.
ReceiveFrame(c) ==
    LET r == reader[c]
        packet == Head(r.inside)
        time == PresentationTime(r, files[c].packets[packet][2])
    IN /\ CanReceive(c) /\ ~(Drained(r))
       /\ IF packet = files[c].broken \/ ~Convertible(files[c])
            THEN result' = [result EXCEPT ![c] = Thrown] /\ UNCHANGED reader
            ELSE /\ result' = [result EXCEPT ![c] = [is |-> "frame", time |-> time, frame |-> <<r.pass, r.count + 1>>]]
                 /\ reader' = [reader EXCEPT ![c] = [r EXCEPT !.inside = Tail(@), !.last = time,
                                                              !.count = @ + 1]]

\* AVERROR_EOF, or EAGAIN after the flush.
ReadNothing(c) ==
    /\ Drained(reader[c])
    /\ result' = [result EXCEPT ![c] = Nothing]
    /\ UNCHANGED reader

\* EAGAIN after the last packet of the file: the decoder is flushed, once.
Flush(c) ==
    /\ ~CanReceive(c) /\ ~Drained(reader[c]) /\ reader[c].eof
    /\ reader' = [reader EXCEPT ![c].flushed = TRUE]
    /\ UNCHANGED result

\* EAGAIN before: packets are read up to the next one of the video stream, and
\* that one is submitted.
Submit(c) ==
    LET r == reader[c]
        ahead == {k \in VideoPackets(files[c]) : k >= r.next}
    IN /\ ~CanReceive(c) /\ ~Drained(r) /\ ~r.eof
       /\ IF ahead = {}
            THEN reader' = [reader EXCEPT ![c] = [r EXCEPT !.next = Len(files[c].packets) + 1, !.eof = TRUE]]
            ELSE LET packet == CHOOSE k \in ahead : \A l \in ahead : k <= l
                 IN reader' = [reader EXCEPT ![c] = [r EXCEPT !.next = packet + 1,
                                                              !.inside = Append(@, packet)]]
       /\ UNCHANGED result

\* One turn of the loop of read_next().
ReadNext(c) ==
    /\ result[c] = Pending
    /\ ReceiveFrame(c) \/ ReadNothing(c) \/ Flush(c) \/ Submit(c)
=============================================================================
