------------------------------ MODULE Mp4Writer ------------------------------
(***************************************************************************)
(* iris::output::disk::GpuMp4Writer (src/stages/output/disk): the writers  *)
(* of one recording, one per camera, each with its pool of NV12 surfaces,  *)
(* its NVENC encoder and its partial file.  Only the disk worker of        *)
(* OutputStage (DiskRecording) calls them.                                 *)
(*                                                                         *)
(* The encoder is external: it keeps up to EncoderDepth frames, and the    *)
(* surface of each, until it gives their packets out, and it may lose a    *)
(* frame.  A frame is the number of its packet; its time stamp is in whole *)
(* microseconds, the unit of the PTS.  Bitrates, sizes and pixels are left *)
(* out: a frame or a destination they make invalid is one that throws.     *)
(***************************************************************************)
EXTENDS Integers, Sequences

CONSTANTS Cameras,      \* the cameras of a packet
          Destinations, \* paths a recording may be given
          Time,         \* capture time of every packet
          Surfaces,     \* DiskOutputConfig::surface_count
          EncoderDepth  \* frames the encoder keeps at most

ASSUME WriterAssumption ==
    /\ Surfaces \in Nat \ {0}
    /\ EncoderDepth \in Nat \ {0}
    /\ Destinations # {}

VARIABLES writers, \* of run_disk, with accepted_frames
          files    \* destination and camera -> what is on the disk

NoWriter == [state |-> "none", to |-> 0, held |-> <<>>, muxed |-> <<>>, accepted |-> 0, last |-> -1]
NoFile == [state |-> "absent", content |-> <<>>]

WritersInit ==
    /\ writers = [c \in Cameras |-> NoWriter]
    /\ files = [d \in Destinations |-> [c \in Cameras |-> NoFile]]

Partial(d, c) == files' = [files EXCEPT ![d][c].state = "partial"]

\* writers.clear(): what was not renamed stays a partial file.
Clear == writers' = [c \in Cameras |-> NoWriter]

Used == {c \in Cameras : writers[c].state # "none"}

-----------------------------------------------------------------------------
(* The constructor *)

\* Mutant: what is on the disk is not looked at.
OverwritesAnything(d, c) == TRUE

Vacant(d, c) == files[d][c].state = "absent"

Open(d, c) ==
    /\ writers[c].state = "none" /\ Vacant(d, c)
    /\ writers' = [writers EXCEPT ![c] = [NoWriter EXCEPT !.state = "open", !.to = d]]
    /\ Partial(d, c)

\* It throws: the map keeps an entry without a writer, and a failure behind
\* avio_open leaves an empty partial file.
OpenThrows(d, c) ==
    /\ writers[c].state = "none"
    /\ writers' = [writers EXCEPT ![c].state = "null"]
    /\ \/ UNCHANGED files
       \/ Vacant(d, c) /\ Partial(d, c)

-----------------------------------------------------------------------------
(* write *)

Emitted(w, n) ==
    [w EXCEPT !.held = SubSeq(@, n + 1, Len(@)), !.muxed = @ \o SubSeq(w.held, 1, n)]

\* avcodec_send_frame: a full encoder answers EAGAIN, and gives at least one
\* packet out before the frame is sent again.
Sent(w, frame) ==
    LET room == IF Len(w.held) < EncoderDepth THEN {w}
                ELSE {Emitted(w, n) : n \in 1 .. EncoderDepth}
    IN  {[r EXCEPT !.held = Append(@, frame)] : r \in room} \cup room

\* drain(false) takes what the encoder is ready to give.
Drained(w) == {Emitted(w, n) : n \in 0 .. Len(w.held)}

Increasing(w, frame) == Time[frame] > w.last

\* acquire() waits for a surface; every frame in the encoder has one.
SurfaceFree(w) == Len(w.held) < Surfaces

Write(c, frame) ==
    /\ writers[c].state = "open" /\ SurfaceFree(writers[c])
    /\ Increasing(writers[c], frame)
    /\ \E s \in Sent(writers[c], frame) : \E w \in Drained(s) :
          writers' = [writers EXCEPT ![c] = [w EXCEPT !.accepted = @ + 1, !.last = Time[frame]]]
    /\ UNCHANGED files

\* A bad frame, a time stamp that does not increase, a failure of CUDA, of the
\* encoder or of the disk.
WriteThrows(c) ==
    /\ writers[c].state = "open" /\ SurfaceFree(writers[c])
    /\ UNCHANGED <<writers, files>>

-----------------------------------------------------------------------------
(* finalize, for the writers one after the other *)

Flushed(w) == Emitted(w, Len(w.held))

\* Mutant: nobody counts what the encoder has given out.
AccountsAnyway(w) == TRUE

\* The accounting of run_disk, after finalize().
Accounts(w) == Len(Flushed(w).muxed) = w.accepted

Finalized(S) ==
    files' = [d \in Destinations |-> [c \in Cameras |->
                IF c \in S /\ writers[c].to = d
                THEN [state |-> "final", content |-> Flushed(writers[c]).muxed]
                ELSE files[d][c]]]

\* All writers are finalized and add up.
FinalizeAll ==
    /\ \A c \in Used : Accounts(writers[c])
    /\ Finalized(Used)

\* The loop ends at one camera: its finalize() throws, or it has renamed the
\* file when the numbers do not agree.  The files of the cameras before it
\* have their final names.
FinalizeSome ==
    \E before \in SUBSET Used, bad \in Used :
        /\ bad \notin before /\ \A c \in before : Accounts(writers[c])
        /\ \/ Finalized(before)
           \/ ~Accounts(writers[bad]) /\ Finalized(before \cup {bad})
=============================================================================
