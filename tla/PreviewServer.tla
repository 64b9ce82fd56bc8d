--------------------------- MODULE PreviewServer ---------------------------
(***************************************************************************)
(* The preview HTTP server: PreviewHttpServer.cpp.  An accept thread gives *)
(* every connection a session thread; a session waits on one condition     *)
(* variable for a newer pose event, JPEG image or H.264 access unit and    *)
(* writes it to its client.  stop() ends all of them.                      *)
(*                                                                         *)
(* One camera is modelled: what a session keeps is per camera and the      *)
(* cameras do not meet in it.  A client connects once; one that comes back *)
(* is another member of Clients.                                           *)
(***************************************************************************)
EXTENDS Naturals, Sequences, FiniteSets, SequencesExt

CONSTANTS Clients,      \* connections
          RingLimit,    \* access units kept for clients that lag (128 in the code)
          PendingLimit  \* access units sent to a client at a time (2 in the code)

ASSUME PreviewLimits == RingLimit \in Nat \ {0} /\ PendingLimit \in Nat \ {0}

\* Whoever the accept thread has accepted is not one of its states.
ASSUME PreviewClients ==
  IsFiniteSet(Clients) /\ \A c \in Clients : c \notin {"off", "listening", "ended"}

VARIABLES
  phase,      \* progress of the server object: none, open and the steps of stop()
  acceptor,   \* the accept thread: off, listening, ended, or the client it has accepted
  joining,    \* the session threads that stop() has taken
  client,     \* each client: away, active, silent (neither sends nor reads), gone
  session,    \* where each session thread is
  asks,       \* bound: what the clients of a behaviour may ask for
  kind,       \* what the client asked for
  seen,       \* the generation a session has handled
  out,        \* what a session is about to write
  got,        \* the last thing written to the client, as a sequence of at most one
  count,      \* event_clients_, mjpeg_clients_ and h264_clients_
  event,      \* latest_event_ and event_generation_
  frame,      \* the newest JPEG image of the camera, 0 before there is one
  ring,       \* h264_packets_
  generation, \* generation_
  stream      \* last_sequence and awaiting_keyframe of each H.264 session

serverVars == <<phase, acceptor, joining, client, session, asks, kind, seen, out, got,
                count, event, frame, ring, generation, stream>>

Kinds == {"events", "mjpeg", "stream"}

Running == phase = "open"

\* A session that has evaluated its predicate and is about to sleep owns mutex_: what the
\* mutex protects does not change, and a notification does not reach the session.  (What
\* sessions do under the mutex does not change what other sessions see, so that they need
\* not exclude each other here.)
MutexFree == \A c \in Clients : session[c] # "deciding"

\* changed_.notify_all()
NotifyAll(s) == [c \in Clients |-> IF s[c] = "asleep" THEN "woken" ELSE s[c]]

NewStream == [last |-> 0, awaiting |-> FALSE]

Fresh ==
  /\ acceptor = "off"
  /\ joining = {}
  /\ session = [c \in Clients |-> "none"]
  /\ kind = [c \in Clients |-> "none"]
  /\ seen = [c \in Clients |-> 0]
  /\ out = [c \in Clients |-> <<>>]
  /\ got = [c \in Clients |-> <<>>]
  /\ count = [k \in Kinds |-> 0]
  /\ event = [value |-> [sequence |-> 0], generation |-> 0]
  /\ frame = 0
  /\ ring = <<>>
  /\ generation = 0
  /\ stream = [c \in Clients |-> NewStream]

ServerInit == phase = "none" /\ Fresh

----------------------------------------------------------------------------
(* Clients.                                                                *)

Connect(c) ==
  /\ client[c] = "away"
  /\ phase = "open"
  /\ client' \in {[client EXCEPT ![c] = "active"], [client EXCEPT ![c] = "silent"]}
  /\ session' = [session EXCEPT ![c] = "queued"]
  /\ UNCHANGED <<phase, acceptor, joining, asks, kind, seen, out, got, count, event,
                 frame, ring, generation, stream>>

\* A client goes away, or stops reading from now on.
Leave(c) ==
  /\ client[c] \in {"active", "silent"}
  /\ client' \in {[client EXCEPT ![c] = "gone"], [client EXCEPT ![c] = "silent"]}
  /\ UNCHANGED <<phase, acceptor, joining, session, asks, kind, seen, out, got, count, event,
                 frame, ring, generation, stream>>

----------------------------------------------------------------------------
(* start() and stop().  The acceptor and the sockets are those of Windows:  *)
(* closing the acceptor fails the accept() another thread is blocked in.    *)

Open ==
  /\ phase = "none"
  /\ phase' = "open"
  /\ acceptor' = "listening"
  /\ joining' = {}
  /\ session' = [c \in Clients |-> "none"]
  /\ count' = [k \in Kinds |-> 0]
  /\ event' = [value |-> [sequence |-> 0], generation |-> 0]
  /\ frame' = 0
  /\ ring' = <<>>
  /\ generation' = 0
  /\ UNCHANGED <<client, asks, kind, seen, out, got, stream>>

\* running_ is cleared, and then changed_ notified, without mutex_.
ClearRunning ==
  /\ phase = "open"
  /\ phase' = "closing"
  /\ UNCHANGED <<acceptor, joining, client, session, asks, kind, seen, out, got, count, event,
                 frame, ring, generation, stream>>

\* Mutant: stop() closes the acceptor and notifies nobody.
CloseAcceptorSilently ==
  /\ phase = "closing"
  /\ phase' = "accept"
  /\ session' = [c \in Clients |-> IF session[c] = "queued" /\ acceptor # c THEN "none" ELSE session[c]]
  /\ client' = [c \in Clients |-> IF session[c] = "queued" /\ acceptor # c THEN "gone" ELSE client[c]]
  /\ UNCHANGED <<acceptor, joining, asks, kind, seen, out, got, count, event, frame, ring,
                 generation, stream>>

CloseAcceptor ==
  /\ phase = "closing"
  /\ phase' = "accept"
  /\ session' = [c \in Clients |-> IF session[c] = "queued" /\ acceptor # c THEN "none" ELSE NotifyAll(session)[c]]
  /\ client' = [c \in Clients |-> IF session[c] = "queued" /\ acceptor # c THEN "gone" ELSE client[c]]
  /\ UNCHANGED <<acceptor, joining, asks, kind, seen, out, got, count, event, frame,
                 ring, generation, stream>>

\* Mutant: the session threads are taken before the accept thread has been joined.
TakeSessionsEarly ==
  /\ phase = "accept"
  /\ phase' = "sessions"
  /\ joining' = {c \in Clients : session[c] \notin {"none", "queued"}}
  /\ UNCHANGED <<acceptor, client, session, asks, kind, seen, out, got, count, event, frame,
                 ring, generation, stream>>

TakeSessions ==
  /\ phase = "accept"
  /\ acceptor = "ended"
  /\ phase' = "sessions"
  /\ joining' = {c \in Clients : session[c] \notin {"none", "queued"}}
  /\ UNCHANGED <<acceptor, client, session, asks, kind, seen, out, got, count, event, frame,
                 ring, generation, stream>>

\* The server object may be destroyed from here on.
JoinSessions ==
  /\ phase = "sessions"
  /\ \A c \in joining : session[c] = "ended"
  /\ phase' = "none"
  /\ UNCHANGED <<acceptor, joining, client, session, asks, kind, seen, out, got, count, event,
                 frame, ring, generation, stream>>

----------------------------------------------------------------------------
(* The accept thread.                                                      *)

Accept ==
  /\ acceptor = "listening"
  /\ \/ /\ phase \in {"open", "closing"}
        /\ \E c \in Clients : session[c] = "queued" /\ acceptor' = c
     \/ /\ phase \notin {"open", "closing"}
        /\ acceptor' = "ended"
  /\ UNCHANGED <<phase, joining, client, session, asks, kind, seen, out, got, count, event,
                 frame, ring, generation, stream>>

AddSession ==
  /\ acceptor \in Clients
  /\ session' = [session EXCEPT ![acceptor] = "request"]
  /\ acceptor' = IF Running THEN "listening" ELSE "ended"
  /\ UNCHANGED <<phase, joining, client, asks, kind, seen, out, got, count, event, frame, ring,
                 generation, stream>>

----------------------------------------------------------------------------
(* What the transports hand over.  The mutex is held for the update and     *)
(* released before the notification; as the waiters evaluate their          *)
(* predicates under the mutex, the two are one step.                        *)

\* Mutant: events are published without a notification.
PublishEventSilently(value) ==
  /\ MutexFree
  /\ event' = [value |-> value, generation |-> event.generation + 1]
  /\ UNCHANGED <<phase, acceptor, joining, client, session, asks, kind, seen, out, got, count,
                 frame, ring, generation, stream>>

PublishEvent(value) ==
  /\ MutexFree
  /\ event' = [value |-> value, generation |-> event.generation + 1]
  /\ session' = NotifyAll(session)
  /\ UNCHANGED <<phase, acceptor, joining, client, asks, kind, seen, out, got, count, frame, ring,
                 generation, stream>>

SetFrame(value) ==
  /\ MutexFree
  /\ frame' = value
  /\ generation' = generation + 1
  /\ session' = NotifyAll(session)
  /\ UNCHANGED <<phase, acceptor, joining, client, asks, kind, seen, out, got, count, event, ring,
                 stream>>

PublishUnit(unit) ==
  /\ MutexFree
  /\ ring' = IF Len(ring) = RingLimit THEN Append(Tail(ring), unit) ELSE Append(ring, unit)
  /\ generation' = generation + 1
  /\ session' = NotifyAll(session)
  /\ UNCHANGED <<phase, acceptor, joining, client, asks, kind, seen, out, got, count, event, frame,
                 stream>>

----------------------------------------------------------------------------
(* Sessions.                                                               *)

SessionEnds(c) == session' = [session EXCEPT ![c] = "ended"]

\* The Guard of a session gives its place back on every way out.
CloseSession(c) ==
  /\ SessionEnds(c)
  /\ count' = [count EXCEPT ![kind[c]] = @ - 1]
  /\ client' = [client EXCEPT ![c] = "gone"]

\* http::read() has no time limit.
ReadRequest(c) ==
  /\ session[c] = "request"
  /\ \/ /\ client[c] = "gone"
        /\ SessionEnds(c)
        /\ UNCHANGED <<client, kind, count, seen>>
     \/ /\ client[c] = "active"                 \* anything else: 404
        /\ SessionEnds(c)
        /\ client' = [client EXCEPT ![c] = "gone"]
        /\ UNCHANGED <<kind, count, seen>>
     \/ /\ client[c] = "active"
        /\ \E k \in {"events", "mjpeg"} \cap asks :
              /\ kind' = [kind EXCEPT ![c] = k]
              /\ count' = [count EXCEPT ![k] = @ + 1]
        /\ session' = [session EXCEPT ![c] = "loop"]
        /\ seen' = [seen EXCEPT ![c] = 0]
        /\ UNCHANGED client
     \/ /\ client[c] = "active"
        /\ "stream" \in asks
        /\ kind' = [kind EXCEPT ![c] = "stream"]
        /\ session' = [session EXCEPT ![c] = "hello"]
        /\ UNCHANGED <<client, count, seen>>
  /\ UNCHANGED <<phase, acceptor, joining, asks, out, got, event, frame, ring, generation, stream>>

\* ws.read() of the hello has no time limit either; a malformed one ends the session.
ReadHello(c) ==
  /\ session[c] = "hello"
  /\ client[c] \in {"active", "gone"}
  /\ \/ client[c] = "active" /\ session' = [session EXCEPT ![c] = "config"] /\ UNCHANGED client
     \/ SessionEnds(c) /\ client' = [client EXCEPT ![c] = "gone"]
  /\ UNCHANGED <<phase, acceptor, joining, asks, kind, seen, out, got, count, event, frame, ring,
                 generation, stream>>

\* The wait for the encoders' configuration ends after two seconds at the latest.
\* There is one H.264 client at a time.
OpenStream(c) ==
  /\ session[c] = "config"
  /\ IF client[c] = "gone" \/ count["stream"] # 0
     THEN /\ SessionEnds(c)
          /\ client' = [client EXCEPT ![c] = "gone"]
          /\ UNCHANGED <<count, seen, stream>>
     ELSE /\ session' = [session EXCEPT ![c] = "loop"]
          /\ count' = [count EXCEPT !["stream"] = @ + 1]
          /\ seen' = [seen EXCEPT ![c] = 0]
          /\ stream' = [stream EXCEPT ![c] = NewStream]
          /\ UNCHANGED client
  /\ UNCHANGED <<phase, acceptor, joining, asks, kind, out, got, event, frame, ring, generation>>

\* One access unit of the ring offered to the session: the units of the camera that
\* are new, from a key frame on.  When PendingLimit units are pending the oldest is
\* erased and the stream waits for a key frame.  s is the state of the loop.
Offer(s, unit) ==
  LET key     == unit.key
      start   == s.last = 0 /\ ~key
      broken  == unit.disc /\ ~key
      full    == Len(s.pending) >= PendingLimit
      pending == IF full THEN Tail(s.pending) ELSE s.pending
  IN CASE s.last # 0 /\ unit.seq <= s.last -> s
       [] s.awaiting /\ ~key               -> s
       [] start \/ broken                  -> [s EXCEPT !.awaiting = TRUE]
       [] full /\ ~key                     -> [last |-> unit.seq, awaiting |-> TRUE, pending |-> pending]
       [] OTHER -> [last |-> unit.seq, awaiting |-> FALSE,
                    pending |-> Append(pending, [unit EXCEPT !.disc = @ \/ full])]

Selected(c) ==
  FoldLeft(Offer, [last |-> stream[c].last, awaiting |-> stream[c].awaiting, pending |-> <<>>], ring)

Changed(c) == seen[c] # IF kind[c] = "events" THEN event.generation ELSE generation

\* The body of a session's loop, up to the first write.
Work(c) ==
  /\ session' = [session EXCEPT ![c] = "write"]
  /\ seen' = [seen EXCEPT ![c] = IF kind[c] = "events" THEN event.generation ELSE generation]
  /\ \/ /\ kind[c] = "events"
        /\ out' = [out EXCEPT ![c] = <<event.value>>]
        /\ UNCHANGED stream
     \/ /\ kind[c] = "mjpeg"
        /\ out' = [out EXCEPT ![c] = IF frame = 0 THEN <<>> ELSE <<frame>>]
        /\ UNCHANGED stream
     \/ /\ kind[c] = "stream"
        /\ out' = [out EXCEPT ![c] = Selected(c).pending]
        /\ stream' = [stream EXCEPT ![c] = [last |-> Selected(c).last, awaiting |-> Selected(c).awaiting]]
  /\ UNCHANGED <<client, count>>

Decide(c) ==
  /\ session' = [session EXCEPT ![c] = "deciding"]
  /\ UNCHANGED <<client, count, seen, out, stream>>

\* while (running_): the predicate of the wait is evaluated under mutex_.  An H.264
\* session also ends when its reader thread has seen the client go.
Loop(c) ==
  /\ session[c] = "loop"
  /\ \/ ~Running /\ CloseSession(c) /\ UNCHANGED <<seen, out, stream>>
     \/ kind[c] = "stream" /\ client[c] = "gone" /\ CloseSession(c) /\ UNCHANGED <<seen, out, stream>>
     \/ Running /\ Changed(c) /\ Work(c)
     \/ Running /\ ~Changed(c) /\ Decide(c)
  /\ UNCHANGED <<phase, acceptor, joining, asks, kind, got, event, frame, ring, generation>>

\* The wait gives the mutex up and sleeps; no notification comes after that of stop().
Sleep(c) ==
  /\ session[c] = "deciding"
  /\ session' = [session EXCEPT ![c] = IF phase \in {"open", "closing"} THEN "asleep" ELSE "stranded"]
  /\ UNCHANGED <<phase, acceptor, joining, client, asks, kind, seen, out, got, count, event, frame,
                 ring, generation, stream>>

\* A notified session evaluates its predicate again.
Wake(c) ==
  /\ session[c] = "woken"
  /\ \/ ~Running /\ kind[c] = "events" /\ CloseSession(c) /\ UNCHANGED <<seen, out, stream>>
     \/ ~Running /\ kind[c] # "events" /\ Work(c)
     \/ Running /\ Changed(c) /\ Work(c)
     \/ Running /\ ~Changed(c) /\ Decide(c)
  /\ UNCHANGED <<phase, acceptor, joining, asks, kind, got, event, frame, ring, generation>>

\* Only the waits of image and H.264 sessions end by themselves, after one second;
\* they then send the image again, or a ping.
TimeOut(c) ==
  /\ session[c] \in {"asleep", "stranded"}
  /\ kind[c] # "events"
  /\ Work(c)
  /\ UNCHANGED <<phase, acceptor, joining, asks, kind, got, event, frame, ring, generation>>

\* Writes have no time limit: they wait for the client.
Write(c) ==
  /\ session[c] = "write"
  /\ \/ /\ out[c] = <<>>
        /\ session' = [session EXCEPT ![c] = "loop"]
        /\ UNCHANGED <<client, out, got, count>>
     \/ /\ out[c] # <<>>
        /\ client[c] = "active"
        /\ got' = [got EXCEPT ![c] = <<Head(out[c])>>]
        /\ out' = [out EXCEPT ![c] = Tail(@)]
        /\ session' = [session EXCEPT ![c] = IF Len(out[c]) = 1 THEN "loop" ELSE "write"]
        /\ UNCHANGED <<client, count>>
     \/ /\ client[c] = "gone"
        /\ out[c] # <<>> \/ kind[c] = "stream"       \* the ping fails
        /\ CloseSession(c)
        /\ out' = [out EXCEPT ![c] = <<>>]
        /\ UNCHANGED got
  /\ UNCHANGED <<phase, acceptor, joining, asks, kind, seen, event, frame, ring, generation, stream>>

SessionStep(c) ==
  ReadRequest(c) \/ ReadHello(c) \/ OpenStream(c) \/ Loop(c) \/ Sleep(c) \/ Wake(c) \/ TimeOut(c) \/ Write(c)

=============================================================================
