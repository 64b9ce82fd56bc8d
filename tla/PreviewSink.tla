---------------------------- MODULE PreviewSink ----------------------------
(***************************************************************************)
(* The preview of a running pipeline: PreviewSink.cpp and                  *)
(* H264Transport.cpp on top of PreviewServer.  The coordinator of the      *)
(* output stage publishes packets; a worker per transport takes them from  *)
(* its own bounded queue and hands them to shared memory or to the server. *)
(* The control thread starts and reconfigures the sink, the pipeline       *)
(* thread stops it.                                                        *)
(***************************************************************************)
EXTENDS PreviewServer

CONSTANTS Settings,        \* configurations: the sets of transports that are enabled
          QueueCapacity,   \* of each transport's queue
          KeyInterval,     \* gop_size: access units from one key frame to the next
          MaxPackets,      \* bound: frame sequences are 1..MaxPackets
          Scenarios        \* bounds: first configuration, clients that connect, what they
                           \* ask for, packets published, calls of configure_preview

Workers == {"memory", "events", "mjpeg", "stream"}
Network == {"mjpeg", "stream"}     \* the workers that come and go with the server

ASSUME SinkSettings == Settings \subseteq SUBSET Workers
ASSUME SinkLimits == /\ QueueCapacity \in Nat \ {0} /\ KeyInterval \in Nat \ {0}
                     /\ MaxPackets \in Nat
ASSUME SinkScenarios ==
  Scenarios \subseteq [setting : Settings, clients : SUBSET Clients, kinds : SUBSET Kinds,
                       packets : 0..MaxPackets, configures : Nat]

VARIABLES
  config,     \* the enabled transports
  running,    \* PreviewSink::Impl::running
  control,    \* where the control thread is
  stopper,    \* where the thread that stops the sink is
  holder,     \* who has server, mjpeg and h264: the sink, a thread that stops them, nobody
  left,       \* packets and calls of configure_preview that may still come
  published,  \* the sequences of the packets published so far
  queue, worker, \* of each transport: its queue and where its thread is
  closed,     \* queues that are closed
  force,      \* force_keyframe
  encoded,    \* access units made by the encoder
  lastEvent,  \* last_frame_sequence of the event worker
  memory,     \* the shared memory: sequence lock, packet sequence, payload
  reader      \* an external reader of the shared memory

sinkVars == <<config, running, control, stopper, holder, left, published, queue, worker,
              closed, force, encoded, lastEvent, memory, reader>>
lifeVars == <<config, running, control, stopper, holder, left>>
flowVars == <<published, queue, worker, closed, force, encoded, lastEvent, memory, reader>>
vars == <<serverVars, sinkVars>>

\* config.http.enabled: pose events are published whenever there is a server.
HasServer(setting) == "events" \in setting

Init ==
  /\ ServerInit
  /\ \E s \in Scenarios :
        /\ config = s.setting
        /\ client = [c \in Clients |-> IF c \in s.clients THEN "away" ELSE "gone"]
        /\ asks = s.kinds
        /\ left = [packets |-> s.packets, configures |-> s.configures]
  /\ running = FALSE
  /\ control = "start" /\ stopper = "waiting" /\ holder = "nobody"
  /\ published = {}
  /\ queue = [w \in Workers |-> <<>>]
  /\ worker = [w \in Workers |-> "off"]
  /\ closed = {}
  /\ force = FALSE /\ encoded = 0 /\ lastEvent = 0
  /\ memory = [lock |-> 0, sequence |-> 0, payload |-> 0]
  /\ reader = [at |-> "idle", lock |-> 0, sequence |-> 0, payload |-> 0]

\* The memory worker keeps the sink's lock while it writes a packet.
LockFree == worker["memory"] \notin {"header", "payload"}

----------------------------------------------------------------------------
(* start(), configure_preview() and stop().                                *)

Start ==
  /\ control = "start"
  /\ running' = TRUE
  /\ control' \in {"network", "failed"}        \* the mapping cannot be created
  /\ UNCHANGED <<serverVars, config, stopper, holder, left, flowVars>>

\* The worker threads of the transports that have been started, with new queues.
StartTransports(started) ==
  /\ worker' = [w \in Workers |-> IF w \in Network
                                   THEN IF w \in started THEN "idle" ELSE "off"
                                   ELSE worker[w]]
  /\ queue' = [w \in Workers |-> IF w \in Network THEN <<>> ELSE queue[w]]
  /\ closed' = closed \ Network
  /\ force' = FALSE /\ encoded' = 0
  /\ UNCHANGED <<published, lastEvent, memory, reader>>

\* start_network(): the sink's lock is held.  It throws when listen() fails, which leaves a
\* server that is not running, or when a transport cannot be started, which leaves the running
\* server and the transport started before.
StartNetwork ==
  /\ control \in {"network", "reopen"}
  /\ LockFree
  /\ \/ /\ ~HasServer(config)
        /\ control' = IF control = "network" THEN "threads" ELSE "idle"
        /\ UNCHANGED <<serverVars, holder, flowVars>>
     \/ /\ HasServer(config)
        /\ Open
        /\ holder' = "sink"
        /\ control' = IF control = "network" THEN "threads" ELSE "idle"
        /\ StartTransports(Network \cap config)
     \/ /\ HasServer(config)
        /\ holder' = "sink"
        /\ control' = IF control = "network" THEN "failed" ELSE "idle"
        /\ \/ UNCHANGED serverVars /\ StartTransports({})
           \/ /\ Network \cap config # {}
              /\ Open
              /\ \/ StartTransports({})
                 \/ "mjpeg" \in config /\ StartTransports({"stream"} \cap config)
  /\ UNCHANGED <<config, running, stopper, left>>

StartThreads ==
  /\ control = "threads"
  /\ control' = "idle"
  /\ worker' = [worker EXCEPT !["memory"] = "idle", !["events"] = "idle"]
  /\ UNCHANGED <<serverVars, config, running, stopper, holder, left, published, queue,
                 closed, force, encoded, lastEvent, memory, reader>>

\* stop_network(): the transports are moved out under the lock and stopped outside it.
TakeNetwork(thread) ==
  /\ LockFree
  /\ holder' = IF holder = "sink" THEN thread ELSE holder
  /\ closed' = IF holder = "sink" THEN closed \cup Network ELSE closed

\* MjpegTransport::stop() and H264Transport::stop() close their queue and join their worker;
\* then the server is stopped, step by step, if it is running.
NetworkDown(thread) ==
  /\ holder = thread
  /\ \A w \in Network : worker[w] \in {"off", "ended"}
  /\ \/ (ClearRunning \/ CloseAcceptor \/ TakeSessions) /\ UNCHANGED holder
     \/ JoinSessions /\ holder' = "nobody"
     \/ phase = "none" /\ holder' = "nobody" /\ UNCHANGED serverVars
  /\ UNCHANGED <<config, running, control, stopper, left, flowVars>>

Configure ==
  /\ control = "idle"
  /\ stopper # "destroyed"
  /\ left.configures > 0
  /\ left' = [left EXCEPT !.configures = @ - 1]
  /\ IF running
     THEN TakeNetwork("control") /\ control' = "closing"
     ELSE control' = "storing" /\ UNCHANGED <<holder, closed>>
  /\ UNCHANGED <<serverVars, config, running, stopper, published, queue, worker, force,
                 encoded, lastEvent, memory, reader>>

StoreConfig ==
  /\ control \in {"closing", "storing"}
  /\ holder # "control"
  /\ LockFree
  /\ config' \in {c \in Settings : "memory" \in c <=> "memory" \in config}
  /\ control' = IF running THEN "reopen" ELSE "idle"
  /\ UNCHANGED <<serverVars, running, stopper, holder, left, flowVars>>

\* The pipeline thread stops a sink that has been started, or that failed to start.
Stop ==
  /\ stopper = "waiting"
  /\ control \notin {"start", "network", "threads"}
  /\ stopper' = "joining"
  /\ running' = FALSE
  /\ closed' = IF running THEN closed \cup {"memory", "events"} ELSE closed
  /\ UNCHANGED <<serverVars, config, control, holder, left, published, queue, worker,
                 force, encoded, lastEvent, memory, reader>>

StopNetwork ==
  /\ \/ stopper = "joining" /\ \A w \in {"memory", "events"} : worker[w] \in {"off", "ended"}
     \/ stopper = "destroy"
  /\ TakeNetwork("stopper")
  /\ stopper' = IF stopper = "joining" THEN "closing" ELSE "destroying"
  /\ UNCHANGED <<serverVars, config, running, control, left, published, queue, worker,
                 force, encoded, lastEvent, memory, reader>>

Stopped ==
  /\ stopper \in {"closing", "destroying"}
  /\ holder # "stopper"
  /\ stopper' = IF stopper = "closing" THEN "stopped" ELSE "destroyed"
  /\ UNCHANGED <<serverVars, config, running, control, holder, left, flowVars>>

\* The control thread destroys the pipeline when it is in no call: the destructor
\* calls stop() once more.
Destroy ==
  /\ stopper = "stopped"
  /\ control \in {"idle", "failed"}
  /\ stopper' = "destroy"
  /\ UNCHANGED <<serverVars, config, running, control, holder, left, flowVars>>

----------------------------------------------------------------------------
(* Packets.                                                                *)

\* Channel::send with DropOldest.
Put(q, item) == IF Len(q) >= QueueCapacity THEN Append(Tail(q), item) ELSE Append(q, item)

Receivers ==
  {w \in {"memory"} : "memory" \in config} \cup
  IF holder = "sink" THEN {"events"} \cup {w \in Network : worker[w] # "off"} ELSE {}

\* publish() by the coordinator, which runs once start() has succeeded and is joined before
\* stop().  The sequence of a packet is that of its frames: the synchronizer may emit them out
\* of order.
Publish ==
  /\ running /\ stopper = "waiting" /\ control \notin {"start", "network", "threads", "failed"}
  /\ LockFree
  /\ left.packets > 0
  /\ left' = [left EXCEPT !.packets = @ - 1]
  /\ \E sequence \in 1..MaxPackets \ published :
        /\ published' = published \cup {sequence}
        /\ queue' = [w \in Workers |-> IF w \in Receivers \ closed THEN Put(queue[w], sequence) ELSE queue[w]]
  /\ force' = (force \/ ("stream" \in Receivers /\ Len(queue["stream"]) >= QueueCapacity))
  /\ UNCHANGED <<serverVars, config, running, control, stopper, holder, worker, closed,
                 encoded, lastEvent, memory, reader>>

Receives(w) ==
  /\ worker[w] = "idle"
  /\ queue[w] # <<>>
  /\ queue' = [queue EXCEPT ![w] = Tail(@)]

ReceiveEnds(w) ==
  /\ worker[w] = "idle"
  /\ queue[w] = <<>> /\ w \in closed
  /\ worker' = [worker EXCEPT ![w] = "ended"]
  /\ UNCHANGED <<serverVars, lifeVars, published, queue, closed, force, encoded, lastEvent, memory, reader>>

\* A pose event carries the sequence of its packet; the poses are left out.
PoseEvent(sequence) == [sequence |-> sequence]

\* Mutant: the event worker publishes whatever comes.
MakeAnyEvent ==
  /\ LockFree
  /\ Receives("events")
  /\ IF holder = "sink" THEN PublishEvent(PoseEvent(Head(queue["events"]))) ELSE UNCHANGED serverVars
  /\ UNCHANGED <<lifeVars, published, worker, closed, force, encoded, lastEvent, memory, reader>>

\* The event worker: packets that are not newer than the last are left out.
MakeEvent ==
  /\ LockFree
  /\ Receives("events")
  /\ LET sequence == Head(queue["events"])
     IN IF holder = "sink" /\ sequence > lastEvent
        THEN PublishEvent(PoseEvent(sequence)) /\ lastEvent' = sequence
        ELSE UNCHANGED <<serverVars, lastEvent>>
  /\ UNCHANGED <<lifeVars, published, worker, closed, force, encoded, memory, reader>>

\* An image is skipped because of the frame rate, or fails to encode, or is handed over.
MakeImage ==
  /\ Receives("mjpeg")
  /\ SetFrame(Head(queue["mjpeg"])) \/ UNCHANGED serverVars
  /\ UNCHANGED <<lifeVars, published, worker, closed, force, encoded, lastEvent, memory, reader>>

\* The encoder makes a key frame first, on request and every KeyInterval frames; the other
\* frames refer to the one encoded before them.
AccessUnit(sequence) ==
  [seq |-> sequence, id |-> encoded, disc |-> FALSE, key |-> force \/ encoded % KeyInterval = 0]

\* A frame that fails takes the request for a key frame with it.
MakeUnit ==
  /\ Receives("stream")
  /\ force' = FALSE
  /\ \/ /\ PublishUnit(AccessUnit(Head(queue["stream"])))
        /\ encoded' = encoded + 1
     \/ UNCHANGED <<serverVars, encoded>>
  /\ UNCHANGED <<lifeVars, published, worker, closed, lastEvent, memory, reader>>

\* Mutant: the sequence lock is even while the packet is copied.
WriteHeaderUnlocked ==
  /\ Receives("memory")
  /\ IF "memory" \in config
     THEN /\ worker' = [worker EXCEPT !["memory"] = "header"]
          /\ memory' = [memory EXCEPT !.sequence = Head(queue["memory"])]
     ELSE UNCHANGED <<worker, memory>>
  /\ UNCHANGED <<serverVars, lifeVars, published, closed, force, encoded, lastEvent, reader>>

\* Mapping::write(): the lock is odd while the packet is copied.
WriteHeader ==
  /\ Receives("memory")
  /\ IF "memory" \in config
     THEN /\ worker' = [worker EXCEPT !["memory"] = "header"]
          /\ memory' = [memory EXCEPT !.lock = @ + 1, !.sequence = Head(queue["memory"])]
     ELSE UNCHANGED <<worker, memory>>
  /\ UNCHANGED <<serverVars, lifeVars, published, closed, force, encoded, lastEvent, reader>>

WritePayload ==
  /\ worker["memory"] = "header"
  /\ worker' = [worker EXCEPT !["memory"] = "payload"]
  /\ memory' = [memory EXCEPT !.payload = memory.sequence]
  /\ UNCHANGED <<serverVars, lifeVars, published, queue, closed, force, encoded, lastEvent, reader>>

WriteDone ==
  /\ worker["memory"] = "payload"
  /\ worker' = [worker EXCEPT !["memory"] = "idle"]
  /\ memory' = [memory EXCEPT !.lock = @ + 1]
  /\ UNCHANGED <<serverVars, lifeVars, published, queue, closed, force, encoded, lastEvent, reader>>

\* A reader does what docs/preview-sink.md asks of it.
ReaderStep ==
  /\ \/ reader.at \in {"idle", "valid"} /\ memory.lock % 2 = 0
        /\ reader' = [at |-> "sequence", lock |-> memory.lock, sequence |-> 0, payload |-> 0]
     \/ reader.at = "sequence" /\ reader' = [reader EXCEPT !.at = "payload", !.sequence = memory.sequence]
     \/ reader.at = "payload" /\ reader' = [reader EXCEPT !.at = "check", !.payload = memory.payload]
     \/ reader.at = "check"
        /\ reader' = [reader EXCEPT !.at = IF memory.lock = reader.lock THEN "valid" ELSE "idle"]
  /\ "memory" \in config
  /\ UNCHANGED <<serverVars, lifeVars, published, queue, worker, closed, force, encoded,
                 lastEvent, memory>>

----------------------------------------------------------------------------
SinkStep == Start \/ StartNetwork \/ StartThreads \/ StoreConfig \/ StopNetwork \/ Stopped \/ Destroy

DownStep == NetworkDown("control") \/ NetworkDown("stopper")

WorkerStep(w) ==
  \/ ReceiveEnds(w)
  \/ w = "events" /\ MakeEvent
  \/ w = "mjpeg" /\ MakeImage
  \/ w = "stream" /\ MakeUnit
  \/ w = "memory" /\ (WriteHeader \/ WritePayload \/ WriteDone)

ServerStep ==
  /\ \/ Accept \/ AddSession
     \/ \E c \in Clients : Connect(c) \/ Leave(c) \/ SessionStep(c)
  /\ UNCHANGED sinkVars

Next ==
  \/ SinkStep \/ DownStep \/ Configure \/ Stop \/ Publish \/ ReaderStep \/ ServerStep
  \/ \E w \in Workers : WorkerStep(w)

\* Every thread keeps running, and a worker that keeps asking for a mutex gets
\* it.  Nothing is assumed of the clients, of the packets or of the calls.
Fairness ==
  /\ WF_vars(SinkStep) /\ WF_vars(DownStep)
  /\ WF_vars((Accept \/ AddSession) /\ UNCHANGED sinkVars)
  /\ \A w \in Workers : SF_vars(WorkerStep(w))
  /\ \A c \in Clients : WF_vars(SessionStep(c) /\ UNCHANGED sinkVars)

Spec == Init /\ [][Next]_vars
FairSpec == Spec /\ Fairness

----------------------------------------------------------------------------
Values == 0..MaxPackets
Units == [seq : Values, id : 0..MaxPackets, key : BOOLEAN, disc : BOOLEAN]
SessionStates == {"none", "queued", "request", "hello", "config", "loop", "deciding", "asleep",
                  "stranded", "woken", "write", "ended"}
Served == {"loop", "deciding", "asleep", "stranded", "woken", "write"}
Live == {"request", "hello", "config"} \cup Served

\* Types, with the limits the code sets: the queues, the ring and what a client is sent at
\* a time are bounded whatever the clients do, and there is one H.264 client at a time.
TypeOK ==
  /\ phase \in {"none", "open", "closing", "accept", "sessions"}
  /\ acceptor \in {"off", "listening", "ended"} \cup Clients
  /\ joining \subseteq Clients
  /\ client \in [Clients -> {"away", "active", "silent", "gone"}]
  /\ session \in [Clients -> SessionStates]
  /\ \A c \in Clients : /\ kind[c] \in Kinds \cup {"none"}
                         /\ Len(out[c]) <= PendingLimit /\ Len(got[c]) <= 1
                         /\ kind[c] = "stream" => Range(out[c] \o got[c]) \subseteq Units
  /\ \A k \in Kinds : count[k] = Cardinality({c \in Clients : kind[c] = k /\ session[c] \in Served})
  /\ count["stream"] <= 1
  /\ Len(ring) <= RingLimit /\ Range(ring) \subseteq Units
  /\ config \in Settings /\ running \in BOOLEAN /\ force \in BOOLEAN
  /\ holder \in {"nobody", "sink", "control", "stopper"}
  /\ \A w \in Workers : Len(queue[w]) <= QueueCapacity /\ Range(queue[w]) \subseteq Values

\* No thread outlives the server or the sink it works on: when stop() of the server has
\* returned no accept or session thread runs, and when the sink is destroyed nothing is left
\* of it, although a reconfiguration may have started a new server while it was stopping.
NothingOutlivesTheSink ==
  /\ phase = "none" => /\ acceptor \in {"off", "ended"}
                       /\ \A c \in Clients : session[c] \notin Live
  /\ stopper = "destroyed" => /\ holder = "nobody" /\ phase = "none"
                              /\ \A w \in Workers : worker[w] \in {"off", "ended"}

\* Queues and counters of the server are within their limits, at most one client
\* has the H.264 stream, and nothing outlives the server or the sink.
SinkIsSound == TypeOK /\ NothingOutlivesTheSink

\* What a reader of the shared memory takes for a packet is one packet.
ReadersSeeWholePackets == reader.at = "valid" => reader.sequence = reader.payload

\* The pose events a client sees never go back, although packets may be published out of order.
EventsNeverGoBack ==
  [][\A c \in Clients : kind[c] = "events" /\ got[c] # <<>> /\ got'[c] # got[c]
                           => got'[c][1].sequence > got[c][1].sequence]_vars

\* A client that keeps reading gets the newest pose event.
Listening(c) == kind[c] = "events" /\ session[c] \in Live /\ client[c] = "active" /\ phase = "open"
NewestEventArrives ==
  \A c \in Clients : Listening(c) /\ event.generation # 0
                       ~> ~Listening(c) \/ got[c] = <<event.value>>

\* stop() returns, unless a session thread waits for its client without a time limit, or
\* sleeps because stop() cleared running_ and notified between its look at running_ and its
\* wait.
HeldByClient(c) == session[c] \in {"request", "hello", "write"} /\ client[c] = "silent"
WakeupLost(c) == session[c] = "stranded" /\ kind[c] = "events"
Held == \E c \in Clients : HeldByClient(c) \/ WakeupLost(c)
StopEndsUnlessHeld == stopper = "joining" ~> (stopper = "stopped" \/ []Held)

=============================================================================
