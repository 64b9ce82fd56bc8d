------------------------------ MODULE RestApi -------------------------------
(***************************************************************************)
(* RestApiServer (src/api): an accepting thread, one detached session per  *)
(* client, and the endpoint that writes a synchronized batch of frames to  *)
(* a directory (POST /capture/snapshot) with the packets of                *)
(* SnapshotBatchSource.  stop() waits for the sessions.                    *)
(*                                                                         *)
(* A request is "bad" (refused before anything is done), a "query" of the  *)
(* runtime's state, a "command" for the control thread, which RuntimeControl *)
(* answers, or a "snapshot" of the cameras of a rig.  A packet is its      *)
(* number; bodies, JSON and images are left out.  A directory holds        *)
(* nothing, is empty, or holds what a session or somebody else put there.  *)
(***************************************************************************)
EXTENDS Integers, Sequences, FiniteSets

CONSTANTS Clients,       \* each connects once
          Requests,      \* client -> requests it may send
          Destinations,  \* absolute paths
          PacketKinds,       \* what a packet may be: of which rig, and aligned in time
          MaxSessions,   \* sessions at a time, 32 in the code
          MaxBatches     \* bound: packets the output stage publishes

\* A request goes to one of the handlers, and a snapshot has a destination.
ASSUME RequestsAssumption ==
    \A c \in Clients : \A r \in Requests[c] :
        /\ r.kind \in {"bad", "query", "command", "snapshot"}
        /\ r.kind = "snapshot" => r.to \in Destinations

VARIABLES
    stopping,           \* stop(): no, join, sessions, asleep, done
    accepting,          \* the accepting thread runs
    activeSessions,     \* active_sessions_
    pc, request, answer,\* sessions
    batches,            \* SnapshotBatchSource: generation_ is the length
    observed, taken,    \* wait_for_cameras of each session
    before,             \* history: generation_ when the request came
    pending, directory, \* the staging directory of a session; the destinations
    running,            \* the pipeline is in state Running
    executing           \* the client whose command is executed, or NoClient

apiVars == <<stopping, accepting, activeSessions, pc, request, answer, batches, observed, taken, before,
             pending, directory, running, executing>>

NoClient == 0
NoRequest == [kind |-> "none", rig |-> 0, to |-> 0]
Absent == [by |-> NoClient, packet |-> -2]
Empty == [by |-> NoClient, packet |-> -1]
Foreign == [by |-> NoClient, packet |-> 0]

PInit ==
    /\ stopping = "no" /\ accepting = TRUE /\ activeSessions = 0
    /\ pc = [c \in Clients |-> "away"]
    /\ request = [c \in Clients |-> NoRequest]
    /\ answer = [c \in Clients |-> "none"]
    /\ batches = <<>>
    /\ observed = [c \in Clients |-> 0] /\ taken = [c \in Clients |-> 0] /\ before = [c \in Clients |-> 0]
    /\ pending = [c \in Clients |-> "absent"]
    /\ directory \in [Destinations -> {Absent, Empty, Foreign}]
    /\ running = TRUE /\ executing = NoClient

server == <<stopping, accepting, activeSessions>>
files == <<pending, directory>>
waiting == <<batches, observed, taken>>
runtime == <<running, executing>>

At(c, l) == pc[c] = l
Goto(c, l) == pc' = [pc EXCEPT ![c] = l]
Answer(c, a) == answer' = [answer EXCEPT ![c] = a] /\ Goto(c, "respond")

-----------------------------------------------------------------------------
(* The accepting thread and stop() *)

\* A client over the limit, or without a thread, is closed.
Accept(c) ==
    /\ accepting /\ stopping = "no" /\ At(c, "away")
    /\ \/ activeSessions < MaxSessions /\ activeSessions' = activeSessions + 1 /\ Goto(c, "read")
       \/ Goto(c, "gone") /\ UNCHANGED activeSessions
    /\ UNCHANGED <<stopping, accepting, request, answer, before, waiting, files, runtime>>

\* The closed acceptor fails, and running_ ends the loop.
AcceptEnds ==
    /\ accepting /\ stopping = "join"
    /\ accepting' = FALSE
    /\ UNCHANGED <<stopping, activeSessions, pc, request, answer, before, waiting, files, runtime>>

Drain ==
    /\ stopping = "sessions"
    /\ stopping' = IF activeSessions = 0 THEN "done" ELSE "asleep"

StopStep ==
    /\ \/ stopping = "no" /\ stopping' = "join"
       \/ stopping = "join" /\ ~accepting /\ stopping' = "sessions"
       \/ Drain
    /\ UNCHANGED <<accepting, activeSessions, pc, request, answer, before, waiting, files, runtime>>

\* notify_all, after the unlock.
Notify(c) ==
    /\ At(c, "notify") /\ Goto(c, "gone")
    /\ stopping' = IF stopping = "asleep" THEN "sessions" ELSE stopping

\* http::write, synchronous too: it waits for a client that does not read.
Respond(c) ==
    /\ At(c, "respond") /\ Goto(c, "leave")
    /\ UNCHANGED <<server, request, answer, before, waiting, files, runtime>>

\* The session's variables are gone with its stack.
Leave(c) ==
    /\ \/ At(c, "leave") /\ activeSessions' = activeSessions - 1 /\ Goto(c, "notify") /\ UNCHANGED stopping
       \/ Notify(c) /\ UNCHANGED activeSessions
    /\ request' = [request EXCEPT ![c] = NoRequest] /\ answer' = [answer EXCEPT ![c] = "none"]
    /\ observed' = [observed EXCEPT ![c] = 0] /\ taken' = [taken EXCEPT ![c] = 0]
    /\ before' = [before EXCEPT ![c] = 0]
    /\ UNCHANGED <<accepting, batches, files, runtime>>

-----------------------------------------------------------------------------
(* A session *)

\* The request comes; a silent client keeps its session for ever: the five
\* seconds of expires_after have no effect on a synchronous read.
Read(c) ==
    /\ At(c, "read")
    /\ \E r \in Requests[c] :
          /\ request' = [request EXCEPT ![c] = r]
          /\ Goto(c, r.kind)
    /\ before' = [before EXCEPT ![c] = Len(batches)]
    /\ UNCHANGED <<server, answer, waiting, files, runtime>>

\* The client goes away, or what it sends is no request.
ReadFails(c) ==
    /\ At(c, "read") /\ Goto(c, "leave")
    /\ UNCHANGED <<server, request, answer, before, waiting, files, runtime>>

Refuse(c) ==
    /\ At(c, "bad") /\ Answer(c, "rejected")
    /\ UNCHANGED <<server, request, before, waiting, files, runtime>>

\* runtime_.snapshot() waits for the command that is executed.
SnapshotFree == executing = NoClient

Query(c) ==
    /\ At(c, "query") /\ SnapshotFree
    /\ Answer(c, "ok")
    /\ UNCHANGED <<server, request, before, waiting, files, runtime>>

\* runtime_.execute(): one command at a time, which may start or stop the
\* pipeline.
Execute(c) ==
    /\ At(c, "command") /\ executing = NoClient
    /\ executing' = c /\ Goto(c, "result")
    /\ UNCHANGED <<server, request, answer, before, waiting, files, running>>

\* The command comes back, unless it hangs (RuntimeControl says in what).
CommandReturns(c) ==
    /\ At(c, "result")
    /\ executing' = NoClient /\ running' \in BOOLEAN
    /\ \E a \in {"ok", "rejected", "failed"} : Answer(c, a)
    /\ UNCHANGED <<server, request, before, waiting, files>>

-----------------------------------------------------------------------------
(* SnapshotBatchSource *)

PublishBatch ==
    /\ Len(batches) < MaxBatches
    /\ \E packet \in PacketKinds : batches' = Append(batches, packet)
    /\ UNCHANGED <<server, pc, request, answer, before, observed, taken, files, runtime>>

Latest == batches[Len(batches)]

\* The pipeline runs: wait_for_cameras is entered.
Snapshot(c) ==
    /\ At(c, "snapshot") /\ SnapshotFree
    /\ IF running
       THEN Goto(c, "wait") /\ observed' = [observed EXCEPT ![c] = Len(batches)] /\ UNCHANGED answer
       ELSE Answer(c, "rejected") /\ UNCHANGED observed
    /\ UNCHANGED <<server, request, before, batches, taken, files, runtime>>

New(c) == Len(batches) > observed[c]

Wait(c) ==
    /\ At(c, "wait") /\ New(c)
    /\ observed' = [observed EXCEPT ![c] = Len(batches)]
    /\ IF Latest.rig = request[c].rig
       THEN Goto(c, "skew") /\ taken' = [taken EXCEPT ![c] = Len(batches)]
       ELSE UNCHANGED <<pc, taken>>
    /\ UNCHANGED <<server, request, answer, before, batches, files, runtime>>

\* Five seconds have passed.
WaitTimesOut(c) ==
    /\ At(c, "wait") /\ ~New(c)
    /\ Answer(c, "failed")
    /\ UNCHANGED <<server, request, before, waiting, files, runtime>>

-----------------------------------------------------------------------------
(* The batch is written *)

To(c) == directory[request[c].to]
SetTo(c, content) == directory' = [directory EXCEPT ![request[c].to] = content]
Stage(c, s) == pending' = [pending EXCEPT ![c] = s]

CheckSkew(c) ==
    /\ At(c, "skew")
    /\ IF batches[taken[c]].aligned THEN Goto(c, "exists") /\ UNCHANGED answer ELSE Answer(c, "rejected")
    /\ UNCHANGED <<server, request, before, waiting, files, runtime>>

Occupied(d) == d \notin {Absent, Empty}

\* Mutant: whatever is there by now goes with the directory (remove_all).
RemoveEverything(c) ==
    /\ At(c, "remove")
    /\ Goto(c, "stage") /\ SetTo(c, Absent) /\ UNCHANGED answer

\* remove() takes an empty directory only.
RemoveDirectory(c) ==
    /\ At(c, "remove")
    /\ IF Occupied(To(c)) THEN Answer(c, "rejected") /\ UNCHANGED directory
                          ELSE Goto(c, "stage") /\ SetTo(c, Absent) /\ UNCHANGED answer

\* Only here a relative destination, or one whose parents cannot be made, is
\* refused.  Then exists, is_directory and is_empty, remove: three steps another
\* session may come between.  A directory that is gone is none, or is_empty()
\* throws, which nobody answers.
Reserve(c) ==
    /\ \/ At(c, "exists") /\ Answer(c, "rejected") /\ UNCHANGED directory
       \/ /\ At(c, "exists")
          /\ Goto(c, IF To(c) = Absent THEN "stage" ELSE "empty") /\ UNCHANGED <<answer, directory>>
       \/ /\ At(c, "empty") /\ To(c) = Absent
          /\ \/ Answer(c, "rejected")
             \/ Goto(c, "leave") /\ UNCHANGED answer
          /\ UNCHANGED directory
       \/ /\ At(c, "empty") /\ To(c) # Absent
          /\ IF Occupied(To(c)) THEN Answer(c, "rejected") ELSE Goto(c, "remove") /\ UNCHANGED answer
          /\ UNCHANGED directory
       \/ RemoveDirectory(c)
    /\ UNCHANGED <<server, request, before, waiting, pending, runtime>>

CreatePending(c) ==
    /\ At(c, "stage")
    /\ \/ Goto(c, "write") /\ Stage(c, "empty") /\ UNCHANGED answer
       \/ Answer(c, "failed") /\ UNCHANGED pending
    /\ UNCHANGED <<server, request, before, waiting, directory, runtime>>

\* The images and pose.json; the copy from the GPU or the disk may fail.
WriteBatch(c) ==
    /\ At(c, "write")
    /\ \/ Goto(c, "commit") /\ Stage(c, "written")
       \/ Goto(c, "cleanup") /\ UNCHANGED pending
    /\ UNCHANGED <<server, request, answer, before, waiting, directory, runtime>>

\* rename: it fails on what is not empty, on Windows on any directory.
Commit(c) ==
    /\ At(c, "commit")
    /\ \/ /\ ~Occupied(To(c))
          /\ SetTo(c, [by |-> c, packet |-> taken[c]]) /\ Stage(c, "absent")
          /\ Answer(c, "ok")
       \/ Goto(c, "cleanup") /\ UNCHANGED <<answer, files>>
    /\ UNCHANGED <<server, request, before, waiting, runtime>>

\* remove_all(pending), which is taken to succeed.
Cleanup(c) ==
    /\ At(c, "cleanup")
    /\ Stage(c, "absent") /\ Answer(c, "failed")
    /\ UNCHANGED <<server, request, before, waiting, directory, runtime>>

Handle(c) ==
    \/ Refuse(c) \/ Query(c) \/ Execute(c) \/ Snapshot(c) \/ Wait(c) \/ WaitTimesOut(c) \/ CheckSkew(c)
    \/ Reserve(c) \/ CreatePending(c) \/ WriteBatch(c) \/ Commit(c) \/ Cleanup(c)

PNext ==
    \/ \E c \in Clients :
          Accept(c) \/ Read(c) \/ ReadFails(c) \/ Handle(c) \/ CommandReturns(c) \/ Respond(c) \/ Leave(c)
    \/ AcceptEnds \/ StopStep \/ PublishBatch

\* Threads go on; a client need neither send anything nor read, a command need
\* not come back, and nobody need call stop().
PFairness ==
    /\ \A c \in Clients : WF_apiVars(Handle(c)) /\ WF_apiVars(Leave(c))
    /\ WF_apiVars(AcceptEnds) /\ WF_apiVars(stopping # "no" /\ StopStep)

PSpec == PInit /\ [][PNext]_apiVars /\ PFairness

-----------------------------------------------------------------------------
(* Properties *)

\* A snapshot that is answered with "ok" is whole and new: its directory holds
\* the batch this session took, of exactly the cameras of the request and
\* published after it came ("the next synchronized ... batch").  Nothing that is
\* in a directory is ever replaced, neither by a session with the same
\* destination nor otherwise, and a session leaves no staging directory behind.
SnapshotsAreWhole ==
    [][/\ \A c \in Clients :
            /\ At(c, "commit") /\ answer'[c] = "ok" =>
                  /\ directory'[request[c].to] = [by |-> c, packet |-> taken[c]]
                  /\ batches[taken[c]].rig = request[c].rig /\ taken[c] > before[c]
                  /\ pending[c] = "written"
            /\ pc'[c] = "gone" => pending'[c] = "absent"
       /\ \A d \in Destinations : Occupied(directory[d]) => directory'[d] = directory[d]]_apiVars

\* stop() returns, unless a session waits for ever: for a client that says
\* nothing or does not read, or for a command that does not come back, its own
\* or the one that holds the lock snapshot() takes.
StopReturns ==
    (stopping # "no") ~> (stopping = "done" \/ executing # NoClient
                            \/ \E c \in Clients : At(c, "read") \/ At(c, "respond"))
=============================================================================
