------------------------- MODULE PreviewSinkProofs -------------------------
(* Proofs about PreviewSink, for every set of clients, limits of the server, *)
(* transports, number of packets and scenario.                               *)
EXTENDS PreviewSink, DataTheorems

-----------------------------------------------------------------------------
(* The inductive invariant.                                                  *)

\* What is in the buffers of a session of each kind; the buffers of a client that has
\* asked for nothing yet are empty.
Content(k) ==
  CASE k = "events" -> [sequence : Values]
    [] k = "mjpeg"  -> Values
    [] k = "stream" -> Units
    [] OTHER        -> {}

ServerTypes ==
  /\ phase \in {"none", "open", "closing", "accept", "sessions"}
  /\ acceptor \in {"off", "listening", "ended"} \cup Clients
  /\ joining \subseteq Clients
  /\ client \in [Clients -> {"away", "active", "silent", "gone"}]
  /\ session \in [Clients -> SessionStates]
  /\ kind \in [Clients -> Kinds \cup {"none"}]
  /\ seen \in [Clients -> Nat]
  /\ event \in [value : [sequence : Values], generation : Nat]
  /\ frame \in Values
  /\ generation \in Nat
  /\ ring \in Seq(Units) /\ Len(ring) <= RingLimit
  /\ stream \in [Clients -> [last : Values, awaiting : BOOLEAN]]

SinkTypes ==
  /\ config \in Settings /\ running \in BOOLEAN /\ force \in BOOLEAN
  /\ control \in {"start", "network", "failed", "threads", "idle", "closing", "storing", "reopen"}
  /\ stopper \in {"waiting", "joining", "closing", "stopped", "destroy", "destroying", "destroyed"}
  /\ holder \in {"nobody", "sink", "control", "stopper"}
  /\ queue \in [Workers -> Seq(Values)] /\ \A w \in Workers : Len(queue[w]) <= QueueCapacity
  /\ worker \in [Workers -> {"off", "idle", "header", "payload", "ended"}]
  /\ closed \subseteq Workers
  /\ published \subseteq 1..MaxPackets
  /\ encoded \in Nat /\ lastEvent \in Values
  /\ memory \in [lock : Nat, sequence : Values, payload : Values]
  /\ reader \in [at : {"idle", "sequence", "payload", "check", "valid"}, lock : Nat,
                 sequence : Values, payload : Values]

\* A session that nobody has answered yet has no kind, and one that serves has its own.
KindsAreKnown ==
  \A c \in Clients :
    /\ client[c] = "away" \/ session[c] \in {"queued", "request"} => kind[c] = "none"
    /\ session[c] \in {"hello", "config"} => kind[c] = "stream"
    /\ session[c] \in Served => kind[c] \in Kinds

\* What a session has still to write, and what its client got, is of its kind.
BuffersFit ==
  /\ DOMAIN out = Clients /\ DOMAIN got = Clients
  /\ \A c \in Clients : /\ out[c] \in Seq(Content(kind[c])) /\ Len(out[c]) <= PendingLimit
                         /\ got[c] \in Seq(Content(kind[c])) /\ Len(got[c]) <= 1

Serving(k) == {c \in Clients : kind[c] = k /\ session[c] \in Served}
PlacesAreCounted ==
  count = [k \in Kinds |-> Cardinality(Serving(k))] /\ count["stream"] <= 1

\* The encoder has made no more access units than packets were published.
UnitsAreCounted == encoded + Len(queue["stream"]) <= Cardinality(published)

\* stop() of the server ends the accept thread, then the sessions, and none is left over.
ServerEnds ==
  /\ phase = "none" => acceptor \in {"off", "ended"}
  /\ phase = "sessions" => acceptor = "ended"
  /\ acceptor \in Clients => session[acceptor] = "queued"
  /\ \A c \in Clients :
       /\ phase \notin {"open", "closing"} /\ session[c] = "queued" => acceptor = c
       /\ phase = "sessions" => session[c] = "none" \/ c \in joining
       /\ phase = "none" => session[c] \in {"none", "ended"}

\* Who has the server, and which threads may run at each stage of start() and stop().
OwnersAgree ==
  /\ holder = "nobody" => phase = "none"
  /\ holder = "sink" => phase \in {"none", "open"}
  /\ holder = "control" => control = "closing"
  /\ holder = "stopper" => stopper \in {"closing", "destroying"}
  /\ control \in {"start", "network", "reopen"} => holder = "nobody"
  /\ control = "closing" => holder # "sink"
  /\ control = "storing" => ~running
  /\ holder = "nobody" => \A w \in Network : worker[w] \in {"off", "ended"}
  /\ control \in {"start", "network", "threads", "failed"} =>
       worker["memory"] = "off" /\ worker["events"] = "off"
  /\ stopper # "waiting" => control \notin {"start", "network", "threads"} /\ ~running
  /\ stopper \notin {"waiting", "joining"} =>
       \A w \in {"memory", "events"} : worker[w] \in {"off", "ended"}
  /\ stopper \in {"destroy", "destroying", "destroyed"} => control \in {"idle", "storing", "failed"}
  /\ stopper \in {"destroying", "destroyed"} => holder \in {"stopper", "nobody"}
  /\ stopper = "destroyed" => holder = "nobody"

\* The lock is odd exactly while a packet is copied; otherwise the memory holds one packet.
WriterLocks ==
  /\ memory.lock % 2 = 1 <=> worker["memory"] \in {"header", "payload"}
  /\ worker["memory"] # "header" => memory.payload = memory.sequence

\* As long as the lock is what the reader has seen, what it has read is what is there.
ReaderFollows ==
  /\ reader.lock <= memory.lock /\ reader.lock % 2 = 0
  /\ reader.lock = memory.lock =>
       /\ reader.at \in {"payload", "check"} => reader.sequence = memory.sequence
       /\ reader.at = "check" => reader.payload = memory.payload
  /\ ReadersSeeWholePackets

\* An event of this sequence was made before the newest, or is the newest, which the
\* session has then seen.
Behind(c, sequence) ==
  /\ sequence <= event.value.sequence
  /\ seen[c] # event.generation => sequence < event.value.sequence

EventsInOrder ==
  /\ event.value.sequence <= lastEvent
  /\ \A c \in Clients : kind[c] = "events" /\ session[c] \in Served =>
       /\ seen[c] <= event.generation
       /\ got[c] # <<>> => Behind(c, got[c][1].sequence)
       /\ out[c] # <<>> => session[c] = "write" /\ Len(out[c]) = 1 /\ Behind(c, out[c][1].sequence)
       /\ got[c] # <<>> /\ out[c] # <<>> => got[c][1].sequence < out[c][1].sequence

Inv ==
  /\ ServerTypes /\ SinkTypes
  /\ KindsAreKnown /\ BuffersFit /\ PlacesAreCounted /\ UnitsAreCounted
  /\ ServerEnds /\ OwnersAgree /\ WriterLocks /\ ReaderFollows /\ EventsInOrder

-----------------------------------------------------------------------------
(* What Offer selects for a session.  Selected is a fold, a recursive        *)
(* function on the sets of positions of the ring that takes the greatest one *)
(* out; where one would use an induction, the lemmas take the least size of  *)
(* a counterexample.                                                         *)

LEMMA GreatestIsThere ==
  ASSUME NEW n \in Nat, NEW S \in SUBSET (1..n), S # {}
  PROVE  Max(S) \in S
<1> DEFINE D == {n - x : x \in S}
<1>1. D \in SUBSET Nat /\ D # {}
  <2>1. \A x \in S : x \in Int /\ x <= n
    OBVIOUS
  <2>2. \A x \in S : n - x \in Nat
    BY <2>1
  <2> QED
    BY <2>2
<1>2. PICK m \in D : \A d \in D : m <= d
  BY <1>1, LeastExists
<1>3. PICK x \in S : m = n - x
  BY <1>2
<1>4. \A y \in S : x >= y
  <2> SUFFICES ASSUME NEW y \in S PROVE x >= y
    OBVIOUS
  <2>1. m <= n - y
    BY <1>2
  <2> QED
    BY <1>3, <2>1
<1> QED
  BY <1>4 DEF Max

\* The state of a session's loop before, between and after the offers.
States == [last : Values, awaiting : BOOLEAN,
           pending : {p \in Seq(Units) : Len(p) <= PendingLimit}]

LEMMA OfferFits ==
  ASSUME NEW s \in States, NEW unit \in Units
  PROVE  Offer(s, unit) \in States
<1> DEFINE full == Len(s.pending) >= PendingLimit
           pending == IF full THEN Tail(s.pending) ELSE s.pending
           marked == [unit EXCEPT !.disc = @ \/ full]
<1>1. /\ s.last \in Values /\ s.awaiting \in BOOLEAN
      /\ s.pending \in Seq(Units) /\ Len(s.pending) <= PendingLimit
  BY DEF States
<1>2. PendingLimit \in Nat \ {0} /\ Len(s.pending) \in Nat
  BY <1>1, PreviewLimits
<1>3. pending \in Seq(Units) /\ Len(pending) < PendingLimit
  <2>1. CASE full
    <3>1. s.pending # <<>>
      BY <1>2, <2>1
    <3>2. Tail(s.pending) \in Seq(Units) /\ Len(Tail(s.pending)) = Len(s.pending) - 1
      BY <1>1, <3>1
    <3> QED
      BY <1>1, <1>2, <2>1, <3>2
  <2>2. CASE ~full
    BY <1>1, <1>2, <2>2
  <2> QED
    BY <2>1, <2>2
<1>4. marked \in Units /\ unit.seq \in Values
  BY DEF Units
<1> HIDE DEF marked, pending
<1>5. Append(pending, marked) \in Seq(Units) /\ Len(Append(pending, marked)) <= PendingLimit
  BY <1>2, <1>3, <1>4
<1>6. [s EXCEPT !.awaiting = TRUE] \in States
  BY DEF States
<1>7. [last |-> unit.seq, awaiting |-> TRUE, pending |-> pending] \in States
  BY <1>2, <1>3, <1>4 DEF States
<1>8. [last |-> unit.seq, awaiting |-> FALSE, pending |-> Append(pending, marked)] \in States
  BY <1>4, <1>5 DEF States
<1>9. Offer(s, unit) \in {s, [s EXCEPT !.awaiting = TRUE],
                          [last |-> unit.seq, awaiting |-> TRUE, pending |-> pending],
                          [last |-> unit.seq, awaiting |-> FALSE, pending |-> Append(pending, marked)]}
  BY Zenon DEF Offer, pending, marked
<1> QED
  BY <1>6, <1>7, <1>8, <1>9

OfferStep(base, r, g, s) == IF s = {} THEN base ELSE Offer(g[s \ {Max(s)}], r[Max(s)])

\* g offers the units at any set of positions of r, and the same for up to n positions.
Offers(base, r, g) == g = [s \in SUBSET DOMAIN r |-> OfferStep(base, r, g, s)]
Small(S, n) == {s \in SUBSET S : Cardinality(s) <= n}
OffersUpTo(base, r, g, n) == g = [s \in Small(DOMAIN r, n) |-> OfferStep(base, r, g, s)]

LEMMA PositionSets ==
  ASSUME NEW S, NEW r \in Seq(S), NEW s \in SUBSET DOMAIN r
  PROVE  /\ Cardinality(s) \in Nat /\ Cardinality(s) <= Len(r)
         /\ s # {} => /\ Cardinality(s) # 0 /\ Max(s) \in s /\ r[Max(s)] \in S
                      /\ s \ {Max(s)} \in SUBSET DOMAIN r
                      /\ Cardinality(s \ {Max(s)}) = Cardinality(s) - 1
<1>1. DOMAIN r = 1..Len(r) /\ Len(r) \in Nat
  OBVIOUS
<1>2. IsFiniteSet(DOMAIN r) /\ Cardinality(DOMAIN r) = Len(r)
  <2>1. PICK n \in Nat : Len(r) = n
    BY <1>1
  <2>2. IsFiniteSet(1..n) /\ Cardinality(1..n) = n
    BY FS_Interval
  <2> QED
    BY <1>1, <2>1, <2>2
<1>3. IsFiniteSet(s) /\ Cardinality(s) <= Cardinality(DOMAIN r) /\ Cardinality(s) \in Nat
  BY <1>2, FS_Subset, FS_CardinalityType
<1>4. ASSUME s # {}
      PROVE  /\ Cardinality(s) # 0 /\ Max(s) \in s /\ r[Max(s)] \in S
             /\ s \ {Max(s)} \in SUBSET DOMAIN r
             /\ Cardinality(s \ {Max(s)}) = Cardinality(s) - 1
  <2>1. Max(s) \in s
    BY <1>1, <1>4, GreatestIsThere
  <2>2. Cardinality(s) # 0
    BY <1>3, <1>4, FS_EmptySet
  <2>3. r[Max(s)] \in S
    BY <1>1, <2>1
  <2>4. Cardinality(s \ {Max(s)}) = Cardinality(s) - 1
    BY <1>3, <2>1, FS_RemoveElement
  <2> QED
    BY <2>1, <2>2, <2>3, <2>4
<1> QED
  BY <1>2, <1>3, <1>4

LEMMA OffersExist ==
  ASSUME NEW base, NEW S, NEW r \in Seq(S)
  PROVE  \E g : Offers(base, r, g)
<1> DEFINE Missed == {n \in Nat : ~\E g : OffersUpTo(base, r, g, n)}
<1>1. 0 \notin Missed
  <2> DEFINE h == [s \in Small(DOMAIN r, 0) |-> base]
  <2>1. \A s \in Small(DOMAIN r, 0) : OfferStep(base, r, h, s) = base
    BY PositionSets DEF Small, OfferStep
  <2>2. OffersUpTo(base, r, h, 0)
    BY <2>1 DEF OffersUpTo
  <2> QED
    BY <2>2
<1>2. ASSUME NEW n \in Nat, NEW h, OffersUpTo(base, r, h, n)
      PROVE  \E g : OffersUpTo(base, r, g, n + 1)
  <2> DEFINE g == [s \in Small(DOMAIN r, n + 1) |-> OfferStep(base, r, h, s)]
  <2>1. ASSUME NEW s \in Small(DOMAIN r, n + 1)
        PROVE  OfferStep(base, r, g, s) = OfferStep(base, r, h, s)
    <3>1. CASE s = {}
      BY <3>1 DEF OfferStep
    <3>2. CASE s # {}
      <4> DEFINE t == s \ {Max(s)}
      <4>1. s \in SUBSET DOMAIN r /\ Cardinality(s) <= n + 1
        BY DEF Small
      <4>2. t \in SUBSET DOMAIN r /\ Cardinality(t) = Cardinality(s) - 1 /\ Cardinality(s) \in Nat
        BY <3>2, <4>1, PositionSets
      <4>3. t \in Small(DOMAIN r, n) /\ t \in Small(DOMAIN r, n + 1)
        BY <4>1, <4>2 DEF Small
      <4> HIDE DEF t
      <4>4. g[t] = OfferStep(base, r, h, t)
        BY <4>3
      <4>5. h[t] = OfferStep(base, r, h, t)
        BY <1>2, <4>3 DEF OffersUpTo
      <4> QED
        BY <3>2, <4>4, <4>5 DEF OfferStep, t
    <3> QED
      BY <3>1, <3>2
  <2>2. OffersUpTo(base, r, g, n + 1)
    BY <2>1 DEF OffersUpTo
  <2> QED
    BY <2>2
<1>3. Missed = {}
  <2> SUFFICES ASSUME Missed # {} PROVE FALSE
    OBVIOUS
  <2>1. PICK m \in Missed : \A n \in Missed : m <= n
    BY LeastExists
  <2>2. m \in Nat /\ m # 0 /\ ~\E g : OffersUpTo(base, r, g, m)
    BY <1>1, <2>1
  <2>3. m - 1 \in Nat /\ m - 1 \notin Missed /\ (m - 1) + 1 = m
    BY <2>1, <2>2
  <2>4. \E g : OffersUpTo(base, r, g, (m - 1) + 1)
    BY <1>2, <2>3
  <2> QED
    BY <2>2, <2>3, <2>4
<1>4. PICK g : OffersUpTo(base, r, g, Len(r))
  <2>1. PICK n \in Nat : Len(r) = n
    OBVIOUS
  <2>2. \E g : OffersUpTo(base, r, g, n)
    BY <1>3
  <2> QED
    BY <2>1, <2>2
<1>5. Small(DOMAIN r, Len(r)) = SUBSET DOMAIN r
  BY PositionSets DEF Small
<1> QED
  BY <1>4, <1>5 DEF OffersUpTo, Offers

LEMMA OffersFit ==
  ASSUME NEW base \in States, NEW r \in Seq(Units), NEW g, Offers(base, r, g)
  PROVE  \A s \in SUBSET DOMAIN r : g[s] \in States
<1> DEFINE Odd == {Cardinality(s) : s \in {t \in SUBSET DOMAIN r : g[t] \notin States}}
<1>1. Odd \in SUBSET Nat
  BY PositionSets
<1>2. Odd = {}
  <2> SUFFICES ASSUME Odd # {} PROVE FALSE
    OBVIOUS
  <2>1. PICK m \in Odd : \A n \in Odd : m <= n
    BY <1>1, LeastExists
  <2>2. PICK s \in SUBSET DOMAIN r : g[s] \notin States /\ Cardinality(s) = m
    BY <2>1
  <2> HIDE DEF Odd
  <2>3. g[s] = OfferStep(base, r, g, s)
    BY DEF Offers
  <2>4. s # {}
    BY <2>2, <2>3 DEF OfferStep
  <2> DEFINE t == s \ {Max(s)}
  <2>5. /\ t \in SUBSET DOMAIN r /\ r[Max(s)] \in Units
        /\ Cardinality(t) = m - 1 /\ m \in Nat
    BY <2>2, <2>4, PositionSets
  <2>6. g[s] = Offer(g[t], r[Max(s)])
    BY <2>3, <2>4 DEF OfferStep
  <2> HIDE DEF t
  <2>7. g[t] \notin States
    BY <2>2, <2>5, <2>6, OfferFits
  <2>8. m - 1 \in Odd
    BY <2>5, <2>7 DEF Odd
  <2> QED
    BY <2>1, <2>5, <2>8
<1> QED
  BY <1>2

LEMMA SelectedFits ==
  ASSUME NEW c \in Clients, ring \in Seq(Units), stream[c] \in [last : Values, awaiting : BOOLEAN]
  PROVE  Selected(c) \in States
<1> DEFINE base == [last |-> stream[c].last, awaiting |-> stream[c].awaiting, pending |-> <<>>]
           g == CHOOSE g : Offers(base, ring, g)
<1>1. base \in States
  BY PreviewLimits DEF States
<1>2. Offers(base, ring, g)
  BY OffersExist
<1>3. Selected(c) = g[DOMAIN ring]
  BY Zenon DEF Selected, FoldLeft, MapThenFoldSet, Offers, OfferStep
<1> HIDE DEF base, g
<1> QED
  BY <1>1, <1>2, <1>3, OffersFit

-----------------------------------------------------------------------------
(* What a step does to the server.  The invariants about its sessions look at *)
(* these shapes and not at the actions.                                       *)

SharedByAll == <<phase, acceptor, joining, asks, event, frame, ring, generation>>

\* A session ends before it has served anybody.
Refuses(c) ==
  /\ session[c] \in {"request", "hello", "config"}
  /\ session' = [session EXCEPT ![c] = "ended"]
  /\ client' \in {client, [client EXCEPT ![c] = "gone"]}
  /\ UNCHANGED <<kind, count, seen, out, got, stream>>

\* It begins to serve events or images.
Begins(c) ==
  /\ session[c] = "request" /\ client[c] = "active"
  /\ session' = [session EXCEPT ![c] = "loop"]
  /\ \E k \in {"events", "mjpeg"} : /\ kind' = [kind EXCEPT ![c] = k]
                                     /\ count' = [count EXCEPT ![k] = @ + 1]
  /\ seen' = [seen EXCEPT ![c] = 0]
  /\ UNCHANGED <<client, out, got, stream>>

\* It is on its way to serve the stream, and does.
Greets(c) ==
  /\ \/ session[c] = "request" /\ client[c] = "active"
        /\ kind' = [kind EXCEPT ![c] = "stream"]
        /\ session' = [session EXCEPT ![c] = "hello"]
     \/ session[c] = "hello" /\ UNCHANGED kind
        /\ session' = [session EXCEPT ![c] = "config"]
  /\ UNCHANGED <<client, count, seen, out, got, stream>>

Streams(c) ==
  /\ session[c] = "config" /\ count["stream"] = 0
  /\ session' = [session EXCEPT ![c] = "loop"]
  /\ count' = [count EXCEPT !["stream"] = @ + 1]
  /\ seen' = [seen EXCEPT ![c] = 0]
  /\ stream' = [stream EXCEPT ![c] = NewStream]
  /\ UNCHANGED <<client, kind, out, got>>

\* It goes round its loop, ...
Turns(c) ==
  /\ session[c] \in Served
  /\ session[c] = "write" => out[c] = <<>>
  /\ \E s \in {"loop", "deciding", "asleep", "stranded"} : session' = [session EXCEPT ![c] = s]
  /\ UNCHANGED <<client, kind, count, seen, out, got, stream>>

\* takes what is new, writes it, ...
Works(c) ==
  /\ session[c] \in Served
  /\ kind[c] = "events" => seen[c] # event.generation
  /\ Work(c)
  /\ UNCHANGED <<kind, got>>

Writes(c) ==
  /\ session[c] = "write" /\ out[c] # <<>>
  /\ got' = [got EXCEPT ![c] = <<Head(out[c])>>]
  /\ out' = [out EXCEPT ![c] = Tail(@)]
  /\ session' = [session EXCEPT ![c] = IF Len(out[c]) = 1 THEN "loop" ELSE "write"]
  /\ UNCHANGED <<client, kind, count, seen, stream>>

\* and ends.
Closes(c) ==
  /\ session[c] \in Served
  /\ CloseSession(c)
  /\ out' \in {out, [out EXCEPT ![c] = <<>>]}
  /\ UNCHANGED <<kind, seen, got, stream>>

SessionMove(c) ==
  /\ \/ Refuses(c) \/ Begins(c) \/ Greets(c) \/ Streams(c)
     \/ Turns(c) \/ Works(c) \/ Writes(c) \/ Closes(c)
  /\ UNCHANGED SharedByAll

LEMMA SessionMoves ==
  ASSUME NEW c \in Clients, SessionStep(c)
  PROVE  SessionMove(c)
<1> USE DEF SharedByAll
<1>1. CASE ReadRequest(c)
  <2>1. UNCHANGED SharedByAll /\ session[c] = "request" /\ UNCHANGED <<out, got, stream>>
    BY <1>1 DEF ReadRequest
  <2>2. Refuses(c) \/ Begins(c) \/ Greets(c)
    BY <1>1, <2>1 DEF ReadRequest, Refuses, Begins, Greets, SessionEnds
  <2> QED
    BY <2>1, <2>2 DEF SessionMove
<1>2. CASE ReadHello(c)
  BY <1>2 DEF ReadHello, SessionEnds, Refuses, Greets, SessionMove
<1>3. CASE OpenStream(c)
  BY <1>3 DEF OpenStream, SessionEnds, Refuses, Streams, SessionMove
<1>4. CASE Loop(c)
  <2>1. session[c] = "loop" /\ UNCHANGED SharedByAll /\ UNCHANGED <<kind, got>>
    BY <1>4 DEF Loop
  <2>2. session[c] \in Served
    BY <2>1 DEF Served
  <2>3. ASSUME CloseSession(c), UNCHANGED <<seen, out, stream>> PROVE Closes(c)
    BY <2>1, <2>2, <2>3 DEF Closes
  <2>4. ASSUME Changed(c), Work(c) PROVE Works(c)
    BY <2>1, <2>2, <2>4 DEF Works, Changed
  <2>5. ASSUME Decide(c) PROVE Turns(c)
    BY <2>1, <2>2, <2>5 DEF Turns, Decide
  <2> QED
    BY <1>4, <2>1, <2>3, <2>4, <2>5 DEF Loop, SessionMove
<1>5. CASE Sleep(c)
  BY <1>5 DEF Sleep, Turns, Served, SessionMove
<1>6. CASE Wake(c)
  <2>1. session[c] = "woken" /\ UNCHANGED SharedByAll /\ UNCHANGED <<kind, got>>
    BY <1>6 DEF Wake
  <2>2. session[c] \in Served
    BY <2>1 DEF Served
  <2>3. ASSUME CloseSession(c), UNCHANGED <<seen, out, stream>> PROVE Closes(c)
    BY <2>1, <2>2, <2>3 DEF Closes
  <2>4. ASSUME Changed(c) \/ kind[c] # "events", Work(c) PROVE Works(c)
    BY <2>1, <2>2, <2>4 DEF Works, Changed
  <2>5. ASSUME Decide(c) PROVE Turns(c)
    BY <2>1, <2>2, <2>5 DEF Turns, Decide
  <2> QED
    BY <1>6, <2>1, <2>3, <2>4, <2>5 DEF Wake, SessionMove
<1>7. CASE TimeOut(c)
  BY <1>7 DEF TimeOut, Works, Served, SessionMove
<1>8. CASE Write(c)
  <2>1. session[c] = "write" /\ UNCHANGED SharedByAll /\ UNCHANGED <<kind, seen, stream>>
    BY <1>8 DEF Write
  <2>2. session[c] \in Served
    BY <2>1 DEF Served
  <2>3. ASSUME out[c] = <<>>, session' = [session EXCEPT ![c] = "loop"],
               UNCHANGED <<client, out, got, count>>
        PROVE  Turns(c)
    BY <2>1, <2>2, <2>3 DEF Turns
  <2>4. ASSUME CloseSession(c), out' = [out EXCEPT ![c] = <<>>], UNCHANGED got
        PROVE  Closes(c)
    BY <2>1, <2>2, <2>4 DEF Closes
  <2>5. ASSUME out[c] # <<>>, got' = [got EXCEPT ![c] = <<Head(out[c])>>],
               out' = [out EXCEPT ![c] = Tail(@)],
               session' = [session EXCEPT ![c] = IF Len(out[c]) = 1 THEN "loop" ELSE "write"],
               UNCHANGED <<client, count>>
        PROVE  Writes(c)
    BY <2>1, <2>5 DEF Writes
  <2> QED
    BY <1>8, <2>1, <2>3, <2>4, <2>5 DEF Write, SessionMove
<1> QED
  BY <1>1, <1>2, <1>3, <1>4, <1>5, <1>6, <1>7, <1>8 DEF SessionStep

\* A worker hands an event, an image or an access unit over, and who sleeps is notified.
NewContent ==
  \/ /\ \E sequence \in Values : /\ sequence > lastEvent /\ lastEvent' = sequence
                                  /\ event' = [value |-> PoseEvent(sequence), generation |-> event.generation + 1]
     /\ UNCHANGED <<frame, ring, generation>>
  \/ /\ frame' \in Values
     /\ generation' = generation + 1
     /\ UNCHANGED <<event, lastEvent, ring>>
  \/ /\ \E unit \in Units :
          ring' = IF Len(ring) = RingLimit THEN Append(Tail(ring), unit) ELSE Append(ring, unit)
     /\ generation' = generation + 1
     /\ UNCHANGED <<event, lastEvent, frame>>

Hands ==
  /\ NewContent
  /\ session' = NotifyAll(session)
  /\ UNCHANGED <<phase, acceptor, joining, client, asks, kind, seen, out, got, count, stream>>

ServerMove ==
  \/ UNCHANGED <<serverVars, lastEvent>>
  \/ /\ \/ Open \/ ClearRunning \/ CloseAcceptor \/ TakeSessions \/ JoinSessions
        \/ Accept \/ AddSession
        \/ \E c \in Clients : Connect(c) \/ Leave(c) \/ SessionMove(c)
     /\ UNCHANGED lastEvent
  \/ Hands

LEMMA HeadsFit ==
  ASSUME SinkTypes, NEW w \in Workers, queue[w] # <<>>
  PROVE  /\ Head(queue[w]) \in Values /\ Tail(queue[w]) \in Seq(Values)
         /\ Len(Tail(queue[w])) = Len(queue[w]) - 1 /\ Len(queue[w]) \in Nat
<1>1. queue[w] \in Seq(Values)
  BY DEF SinkTypes
<1> QED
  BY <1>1

LEMMA PublishedFit ==
  ASSUME SinkTypes
  PROVE  /\ IsFiniteSet(published) /\ Cardinality(published) \in Nat
         /\ Cardinality(published) <= MaxPackets
<1>1. IsFiniteSet(1..MaxPackets) /\ Cardinality(1..MaxPackets) = MaxPackets
  BY SinkLimits, FS_Interval
<1>2. published \in SUBSET (1..MaxPackets)
  BY DEF SinkTypes
<1>3. IsFiniteSet(published) /\ Cardinality(published) <= Cardinality(1..MaxPackets)
  BY <1>1, <1>2, FS_Subset
<1> QED
  BY <1>1, <1>3, FS_CardinalityType

LEMMA ServerMoves ==
  ASSUME SinkTypes, UnitsAreCounted, Next
  PROVE  ServerMove
<1> USE DEF flowVars, lifeVars, sinkVars
<1>1. CASE SinkStep
  <2>1. CASE StartNetwork
    <3>1. UNCHANGED lastEvent
      BY <2>1 DEF StartNetwork, StartTransports
    <3>2. UNCHANGED serverVars \/ Open
      BY <2>1 DEF StartNetwork
    <3> QED
      BY <3>1, <3>2 DEF ServerMove
  <2>2. CASE Start \/ StartThreads \/ StoreConfig \/ StopNetwork \/ Stopped \/ Destroy
    BY <2>2 DEF Start, StartThreads, StoreConfig, StopNetwork, Stopped, Destroy, ServerMove
  <2> QED
    BY <1>1, <2>1, <2>2 DEF SinkStep
<1>2. CASE DownStep
  BY <1>2 DEF DownStep, NetworkDown, ServerMove
<1>3. CASE Configure \/ Stop \/ Publish \/ ReaderStep
  BY <1>3 DEF Configure, Stop, Publish, ReaderStep, ServerMove
<1>4. CASE ServerStep
  <2>1. UNCHANGED lastEvent
    BY <1>4 DEF ServerStep
  <2> QED
    BY <1>4, <2>1, SessionMoves DEF ServerStep, ServerMove
<1>5. ASSUME NEW w \in Workers, WorkerStep(w)
      PROVE  ServerMove
  <2>1. CASE ReceiveEnds(w)
    BY <2>1 DEF ReceiveEnds, ServerMove
  <2>2. CASE MakeEvent
    <3> DEFINE sequence == Head(queue["events"])
    <3>1. sequence \in Values
      BY <2>2, HeadsFit DEF MakeEvent, Receives, Workers
    <3>2. CASE holder = "sink" /\ sequence > lastEvent
      <4>1. PublishEvent(PoseEvent(sequence)) /\ lastEvent' = sequence
        BY <2>2, <3>2 DEF MakeEvent
      <4> HIDE DEF sequence
      <4>2. Hands
        BY <3>1, <3>2, <4>1 DEF PublishEvent, Hands, NewContent
      <4> QED
        BY <4>2 DEF ServerMove
    <3>3. CASE ~(holder = "sink" /\ sequence > lastEvent)
      BY <2>2, <3>3 DEF MakeEvent, ServerMove
    <3> QED
      BY <3>2, <3>3
  <2>3. CASE MakeImage
    <3>1. Head(queue["mjpeg"]) \in Values /\ UNCHANGED lastEvent
      BY <2>3, HeadsFit DEF MakeImage, Receives, Workers
    <3>2. CASE SetFrame(Head(queue["mjpeg"]))
      BY <3>1, <3>2 DEF SetFrame, Hands, NewContent, ServerMove
    <3>3. CASE UNCHANGED serverVars
      BY <3>1, <3>3 DEF ServerMove
    <3> QED
      BY <2>3, <3>2, <3>3 DEF MakeImage
  <2>4. CASE MakeUnit
    <3> DEFINE unit == AccessUnit(Head(queue["stream"]))
    <3>1. /\ Head(queue["stream"]) \in Values /\ Len(queue["stream"]) \in Nat /\ Len(queue["stream"]) # 0
          /\ UNCHANGED lastEvent
      BY <2>4, HeadsFit DEF MakeUnit, Receives, Workers, SinkTypes
    <3>2. encoded \in 0..MaxPackets
      BY <3>1, PublishedFit, SinkLimits DEF UnitsAreCounted, SinkTypes
    <3>3. (force \/ encoded % KeyInterval = 0) \in BOOLEAN
      OBVIOUS
    <3>4. unit \in Units
      BY <3>1, <3>2, <3>3 DEF AccessUnit, Units
    <3> HIDE DEF unit
    <3>5. CASE PublishUnit(unit)
      BY <3>1, <3>4, <3>5 DEF PublishUnit, Hands, NewContent, ServerMove
    <3>6. CASE UNCHANGED serverVars
      BY <3>1, <3>6 DEF ServerMove
    <3> QED
      BY <2>4, <3>5, <3>6 DEF MakeUnit, unit
  <2>5. CASE WriteHeader \/ WritePayload \/ WriteDone
    BY <2>5 DEF WriteHeader, WritePayload, WriteDone, ServerMove
  <2> QED
    BY <1>5, <2>1, <2>2, <2>3, <2>4, <2>5 DEF WorkerStep
<1> QED
  BY <1>1, <1>2, <1>3, <1>4, <1>5 DEF Next

-----------------------------------------------------------------------------
(* The server keeps its types, its sessions their kinds and contents.        *)

LEMMA StatesOfSessions == Served \subseteq SessionStates /\ Live \subseteq SessionStates
BY DEF Served, Live, SessionStates

LEMMA NotifiedSessions ==
  ASSUME ServerTypes
  PROVE  /\ NotifyAll(session) \in [Clients -> SessionStates]
         /\ \A c \in Clients :
              /\ NotifyAll(session)[c] # session[c] => session[c] = "asleep" /\ NotifyAll(session)[c] = "woken"
              /\ NotifyAll(session)[c] \in Served <=> session[c] \in Served
BY DEF ServerTypes, NotifyAll, SessionStates, Served

LEMMA RingFits ==
  ASSUME ServerTypes, NEW unit \in Units, NEW r,
         r = IF Len(ring) = RingLimit THEN Append(Tail(ring), unit) ELSE Append(ring, unit)
  PROVE  r \in Seq(Units) /\ Len(r) <= RingLimit
<1>1. ring \in Seq(Units) /\ Len(ring) <= RingLimit /\ RingLimit \in Nat \ {0} /\ Len(ring) \in Nat
  BY PreviewLimits DEF ServerTypes
<1>2. CASE Len(ring) = RingLimit
  <2>1. ring # <<>>
    BY <1>1, <1>2
  <2>2. Tail(ring) \in Seq(Units) /\ Len(Tail(ring)) = Len(ring) - 1
    BY <1>1, <2>1
  <2>3. r = Append(Tail(ring), unit)
    BY <1>2
  <2> QED
    BY <1>1, <1>2, <2>2, <2>3
<1>3. CASE Len(ring) # RingLimit
  BY <1>1, <1>3
<1> QED
  BY <1>2, <1>3

LEMMA ServerTypesStep ==
  ASSUME Inv, ServerMove
  PROVE  ServerTypes'
<1> USE DEF ServerTypes, SessionStates
<1>1. ServerTypes /\ 0 \in Values /\ MaxPackets \in Nat
  BY SinkLimits DEF Inv, Values
<1>2. CASE UNCHANGED <<serverVars, lastEvent>>
  BY <1>1, <1>2 DEF serverVars
<1>3. CASE Open
  <2>1. <<>> \in Seq(Units) /\ Len(<<>>) <= RingLimit
    BY PreviewLimits
  <2> QED
    BY <1>1, <1>3, <2>1 DEF Open
<1>4. CASE ClearRunning \/ TakeSessions \/ JoinSessions
  BY <1>1, <1>4 DEF ClearRunning, TakeSessions, JoinSessions
<1>5. CASE CloseAcceptor
  BY <1>1, <1>5 DEF CloseAcceptor, NotifyAll
<1>6. CASE Accept
  BY <1>1, <1>6 DEF Accept
<1>7. CASE AddSession
  BY <1>1, <1>7 DEF AddSession
<1>8. CASE Hands
  <2>1. session' \in [Clients -> SessionStates]
    BY <1>1, <1>8, NotifiedSessions DEF Hands
  <2>2. /\ event' \in [value : [sequence : Values], generation : Nat] /\ frame' \in Values
        /\ generation' \in Nat
    BY <1>1, <1>8 DEF Hands, NewContent, PoseEvent
  <2>3. ring' \in Seq(Units) /\ Len(ring') <= RingLimit
    <3>1. CASE UNCHANGED ring
      BY <1>1, <3>1
    <3>2. CASE \E unit \in Units :
                 ring' = IF Len(ring) = RingLimit THEN Append(Tail(ring), unit) ELSE Append(ring, unit)
      <4>1. PICK unit \in Units :
                 ring' = IF Len(ring) = RingLimit THEN Append(Tail(ring), unit) ELSE Append(ring, unit)
        BY <3>2
      <4>2. PICK r : r = IF Len(ring) = RingLimit THEN Append(Tail(ring), unit) ELSE Append(ring, unit)
        OBVIOUS
      <4> QED
        BY <1>1, <4>1, <4>2, RingFits
    <3> QED
      BY <1>8, <3>1, <3>2 DEF Hands, NewContent
  <2> QED
    BY <1>1, <1>8, <2>1, <2>2, <2>3 DEF Hands
<1>9. ASSUME NEW c \in Clients, Connect(c) \/ Leave(c)
      PROVE  ServerTypes'
  BY <1>1, <1>9 DEF Connect, Leave
<1>10. ASSUME NEW c \in Clients, SessionMove(c)
       PROVE  ServerTypes'
  <2>1. UNCHANGED <<phase, acceptor, joining, event, frame, ring, generation>>
    BY <1>10 DEF SessionMove, SharedByAll
  <2>2. /\ client' \in [Clients -> {"away", "active", "silent", "gone"}]
        /\ session' \in [Clients -> SessionStates] /\ seen' \in [Clients -> Nat]
        /\ kind' \in [Clients -> Kinds \cup {"none"}]
        /\ stream' \in [Clients -> [last : Values, awaiting : BOOLEAN]]
    <3>1. CASE Refuses(c)
      BY <1>1, <3>1 DEF Refuses
    <3>6. CASE Turns(c)
      BY <1>1, <3>6 DEF Turns
    <3>7. CASE Writes(c)
      BY <1>1, <3>7 DEF Writes
    <3>2. CASE Begins(c)
      BY <1>1, <3>2 DEF Begins, Kinds
    <3>8. CASE Greets(c)
      BY <1>1, <3>8 DEF Greets, Kinds
    <3>3. CASE Streams(c)
      BY <1>1, <3>3 DEF Streams, NewStream
    <3>4. CASE Closes(c)
      BY <1>1, <3>4 DEF Closes, CloseSession, SessionEnds
    <3>5. CASE Works(c)
      <4>1. UNCHANGED <<client, kind>> /\ session' = [session EXCEPT ![c] = "write"]
        BY <3>5 DEF Works, Work
      <4>2. seen' \in [Clients -> Nat]
        BY <1>1, <3>5 DEF Works, Work
      <4>3. Selected(c) \in States
        BY <1>1, SelectedFits
      <4>4. stream' \in [Clients -> [last : Values, awaiting : BOOLEAN]]
        BY <1>1, <3>5, <4>3 DEF Works, Work, States
      <4> QED
        BY <1>1, <4>1, <4>2, <4>4
    <3> QED
      BY <1>10, <3>1, <3>2, <3>3, <3>4, <3>5, <3>6, <3>7, <3>8 DEF SessionMove
  <2> QED
    BY <1>1, <2>1, <2>2
<1> QED
  BY <1>2, <1>3, <1>4, <1>5, <1>6, <1>7, <1>8, <1>9, <1>10 DEF ServerMove

LEMMA KindsStep ==
  ASSUME Inv, ServerMove
  PROVE  KindsAreKnown'
<1> SUFFICES ASSUME NEW d \in Clients
             PROVE  /\ client'[d] = "away" \/ session'[d] \in {"queued", "request"} => kind'[d] = "none"
                    /\ session'[d] \in {"hello", "config"} => kind'[d] = "stream"
                    /\ session'[d] \in Served => kind'[d] \in Kinds
  BY DEF KindsAreKnown
<1>1. /\ client[d] = "away" \/ session[d] \in {"queued", "request"} => kind[d] = "none"
      /\ session[d] \in {"hello", "config"} => kind[d] = "stream"
      /\ session[d] \in Served => kind[d] \in Kinds
  BY DEF Inv, KindsAreKnown
<1>2. /\ client \in [Clients -> {"away", "active", "silent", "gone"}]
      /\ session \in [Clients -> SessionStates] /\ kind \in [Clients -> Kinds \cup {"none"}]
  BY DEF Inv, ServerTypes
<1>3. CASE UNCHANGED <<client, session, kind>>
  BY <1>1, <1>3
<1>4. CASE Open
  BY <1>1, <1>4 DEF Open, Served
<1>5. CASE CloseAcceptor
  BY <1>1, <1>2, <1>5 DEF CloseAcceptor, NotifyAll, Served
<1>6. CASE AddSession
  <2>1. acceptor \in Clients /\ session[acceptor] = "queued"
    BY <1>6 DEF AddSession, Inv, ServerEnds
  <2> QED
    BY <1>1, <1>2, <1>6, <2>1 DEF AddSession, Served
<1>7. CASE Hands
  BY <1>1, <1>2, <1>7 DEF Hands, NotifyAll, Served
<1>8. ASSUME NEW c \in Clients, Connect(c) \/ Leave(c)
      PROVE  /\ client'[d] = "away" \/ session'[d] \in {"queued", "request"} => kind'[d] = "none"
             /\ session'[d] \in {"hello", "config"} => kind'[d] = "stream"
             /\ session'[d] \in Served => kind'[d] \in Kinds
  BY <1>1, <1>2, <1>8 DEF Connect, Leave, Served
<1>9. ASSUME NEW c \in Clients, SessionMove(c)
      PROVE  /\ client'[d] = "away" \/ session'[d] \in {"queued", "request"} => kind'[d] = "none"
             /\ session'[d] \in {"hello", "config"} => kind'[d] = "stream"
             /\ session'[d] \in Served => kind'[d] \in Kinds
  <2>1. CASE Refuses(c)
    BY <1>1, <1>2, <2>1 DEF Refuses, Served
  <2>2. CASE Begins(c)
    BY <1>1, <1>2, <2>2 DEF Begins, Served, Kinds
  <2>6. CASE Greets(c)
    BY <1>1, <1>2, <2>6 DEF Greets, Served, Kinds
  <2>7. CASE Streams(c)
    BY <1>1, <1>2, <2>7 DEF Streams, Served, Kinds
  <2>3. CASE Turns(c) \/ Writes(c)
    BY <1>1, <1>2, <2>3 DEF Turns, Writes, Served
  <2>4. CASE Works(c)
    BY <1>1, <1>2, <2>4 DEF Works, Work, Served
  <2>5. CASE Closes(c)
    BY <1>1, <1>2, <2>5 DEF Closes, CloseSession, SessionEnds, Served
  <2> QED
    BY <1>9, <2>1, <2>2, <2>3, <2>4, <2>5, <2>6, <2>7 DEF SessionMove
<1> QED
  BY <1>3, <1>4, <1>5, <1>6, <1>7, <1>8, <1>9
     DEF ServerMove, serverVars, ClearRunning, TakeSessions, JoinSessions, Accept

LEMMA NothingYet ==
  ASSUME NEW s \in Seq(Content("none"))
  PROVE  s = <<>>
<1>1. Content("none") = {}
  BY DEF Content
<1>2. s \in Seq({})
  BY <1>1
<1>3. Len(s) = 0
  BY <1>2
<1> QED
  BY <1>2, <1>3

LEMMA NoContent ==
  ASSUME NEW k
  PROVE  <<>> \in Seq(Content(k)) /\ Len(<<>>) = 0
OBVIOUS

LEMMA BuffersStep ==
  ASSUME Inv, ServerMove
  PROVE  BuffersFit'
<1> DEFINE Fits(k, o, g) == /\ o \in Seq(Content(k)) /\ Len(o) <= PendingLimit
                            /\ g \in Seq(Content(k)) /\ Len(g) <= 1
<1>6. DOMAIN out = Clients /\ DOMAIN got = Clients
  BY DEF Inv, BuffersFit
<1>7. DOMAIN out' = Clients /\ DOMAIN got' = Clients
  BY <1>6
     DEF ServerMove, serverVars, Open, ClearRunning, CloseAcceptor, TakeSessions, JoinSessions,
         Accept, AddSession, Hands, Connect, Leave, SessionMove, Refuses, Begins, Greets, Streams,
         Turns, Works, Work, Writes, Closes
<1> SUFFICES ASSUME NEW d \in Clients
             PROVE  Fits(kind'[d], out'[d], got'[d])
  BY <1>7 DEF BuffersFit, Content
<1>1. Fits(kind[d], out[d], got[d])
  BY DEF Inv, BuffersFit
<1> HIDE DEF Fits
<1>2. PendingLimit \in Nat \ {0} /\ kind \in [Clients -> Kinds \cup {"none"}]
  BY PreviewLimits DEF Inv, ServerTypes
<1>3. CASE UNCHANGED <<kind, out, got>>
  BY <1>1, <1>3
<1>4. ASSUME NEW c \in Clients, Connect(c) \/ Leave(c)
      PROVE  Fits(kind'[d], out'[d], got'[d])
  BY <1>3, <1>4 DEF Connect, Leave
<1>5. ASSUME NEW c \in Clients, SessionMove(c)
      PROVE  Fits(kind'[d], out'[d], got'[d])
  <2>1. CASE Refuses(c) \/ Streams(c) \/ Turns(c)
    BY <1>3, <2>1 DEF Refuses, Streams, Turns
  <2>2. ASSUME kind[c] = "none", UNCHANGED <<out, got>>,
               \A e \in Clients : e # c => kind'[e] = kind[e]
        PROVE  Fits(kind'[d], out'[d], got'[d])
    <3>1. CASE d = c
      <4>1. out[c] = <<>> /\ got[c] = <<>>
        BY <1>1, <2>2, <3>1, NothingYet DEF Fits
      <4>2. PICK k : k = kind'[d]
        OBVIOUS
      <4>3. Fits(k, <<>>, <<>>)
        BY <1>2, NoContent DEF Fits
      <4> QED
        BY <2>2, <3>1, <4>1, <4>2, <4>3
    <3>2. CASE d # c
      BY <1>1, <2>2, <3>2
    <3> QED
      BY <3>1, <3>2
  <2>3. CASE Begins(c)
    <3>1. kind[c] = "none"
      BY <2>3 DEF Begins, Inv, KindsAreKnown
    <3>2. UNCHANGED <<out, got>> /\ \A e \in Clients : e # c => kind'[e] = kind[e]
      BY <1>2, <2>3 DEF Begins
    <3> QED
      BY <2>2, <3>1, <3>2
  <2>4. CASE Greets(c)
    <3>1. CASE session[c] = "hello"
      BY <1>3, <2>4, <3>1 DEF Greets
    <3>2. CASE session[c] = "request"
      <4>1. kind[c] = "none"
        BY <3>2 DEF Inv, KindsAreKnown
      <4>2. UNCHANGED <<out, got>> /\ \A e \in Clients : e # c => kind'[e] = kind[e]
        BY <1>2, <2>4, <3>2 DEF Greets
      <4> QED
        BY <2>2, <4>1, <4>2
    <3> QED
      BY <2>4, <3>1, <3>2 DEF Greets
  <2>5. CASE Works(c)
    <3>1. UNCHANGED <<kind, got>>
      BY <2>5 DEF Works
    <3>2. CASE d # c
      <4>1. out'[d] = out[d]
        BY <1>6, <2>5, <3>2 DEF Works, Work
      <4> QED
        BY <1>1, <3>1, <4>1
    <3>3. CASE d = c
      <4> SUFFICES out'[c] \in Seq(Content(kind[c])) /\ Len(out'[c]) <= PendingLimit
        BY <1>1, <3>1, <3>3 DEF Fits
      <4>1. CASE kind[c] = "events"
        <5>1. event.value \in Content("events")
          BY DEF Inv, ServerTypes, Content
        <5>2. out'[c] = <<event.value>>
          BY <1>6, <2>5, <4>1 DEF Works, Work
        <5> QED
          BY <1>2, <4>1, <5>1, <5>2
      <4>2. CASE kind[c] = "mjpeg"
        <5>1. frame \in Content("mjpeg")
          BY DEF Inv, ServerTypes, Content
        <5>2. out'[c] = <<frame>> \/ out'[c] = <<>>
          BY <1>6, <2>5, <4>2 DEF Works, Work
        <5>3. <<>> \in Seq(Content("mjpeg")) /\ Len(<<>>) = 0
          BY NoContent
        <5>4. <<frame>> \in Seq(Content("mjpeg")) /\ Len(<<frame>>) = 1
          BY <5>1
        <5>5. CASE out'[c] = <<frame>>
          BY <1>2, <4>2, <5>4, <5>5
        <5>6. CASE out'[c] = <<>>
          <6>1. 0 <= PendingLimit
            BY <1>2
          <6> QED
            BY <4>2, <5>3, <5>6, <6>1
        <5> QED
          BY <5>2, <5>5, <5>6
      <4>3. CASE kind[c] = "stream"
        <5>1. Selected(c) \in States
          BY SelectedFits DEF Inv, ServerTypes
        <5>2. out'[c] = Selected(c).pending /\ Content("stream") = Units
          BY <1>6, <2>5, <4>3 DEF Works, Work, Content
        <5> QED
          BY <4>3, <5>1, <5>2 DEF States
      <4> QED
        BY <2>5, <4>1, <4>2, <4>3 DEF Works, Work
    <3> QED
      BY <3>2, <3>3
  <2>6. CASE Writes(c)
    <3>1. UNCHANGED kind
      BY <2>6 DEF Writes
    <3>2. CASE d # c
      BY <1>1, <1>6, <2>6, <3>1, <3>2 DEF Writes
    <3>3. CASE d = c
      <4>1. PICK o : o = out[c]
        OBVIOUS
      <4>2. PICK S : S = Content(kind[c])
        OBVIOUS
      <4>3. o \in Seq(S) /\ o # <<>> /\ Len(o) <= PendingLimit
        BY <1>1, <2>6, <3>3, <4>1, <4>2 DEF Fits, Writes
      <4>4. Tail(o) \in Seq(S) /\ Len(Tail(o)) <= PendingLimit /\ <<Head(o)>> \in Seq(S) /\ Len(<<Head(o)>>) = 1
        <5>1. Tail(o) \in Seq(S) /\ Len(Tail(o)) = Len(o) - 1 /\ Head(o) \in S /\ Len(o) \in Nat
          BY <4>3
        <5> QED
          BY <1>2, <4>3, <5>1
      <4>5. out'[c] = Tail(o) /\ got'[c] = <<Head(o)>>
        BY <1>6, <2>6, <4>1 DEF Writes
      <4>6. Fits(kind[c], Tail(o), <<Head(o)>>)
        BY <4>2, <4>4 DEF Fits
      <4> QED
        BY <3>1, <3>3, <4>5, <4>6
    <3> QED
      BY <3>2, <3>3
  <2>7. CASE Closes(c)
    <3>1. UNCHANGED <<kind, got>> /\ (out'[d] = out[d] \/ out'[d] = <<>>)
      BY <1>6, <2>7 DEF Closes
    <3>2. PICK k : k = kind[d]
      OBVIOUS
    <3>3. Fits(k, <<>>, got[d])
      BY <1>1, <1>2, <3>2, NoContent DEF Fits
    <3> QED
      BY <1>1, <3>1, <3>2, <3>3
  <2> QED
    BY <1>5, <2>1, <2>3, <2>4, <2>5, <2>6, <2>7 DEF SessionMove
<1> QED
  BY <1>3, <1>4, <1>5
     DEF ServerMove, serverVars, Open, ClearRunning, CloseAcceptor, TakeSessions, JoinSessions,
         Accept, AddSession, Hands

-----------------------------------------------------------------------------
(* The places: a session takes one when it begins to serve and gives it back *)
(* when it stops.                                                            *)

LEMMA ServingIsFinite ==
  ASSUME NEW k
  PROVE  IsFiniteSet(Serving(k)) /\ Cardinality(Serving(k)) \in Nat
BY PreviewClients, FS_Subset, FS_CardinalityType DEF Serving

LEMMA PlacesStay ==
  ASSUME PlacesAreCounted, UNCHANGED count,
         \A c \in Clients, k \in Kinds :
           kind'[c] = k /\ session'[c] \in Served <=> kind[c] = k /\ session[c] \in Served
  PROVE  PlacesAreCounted'
<1>1. \A k \in Kinds : Serving(k)' = Serving(k)
  BY DEF Serving
<1> QED
  BY <1>1 DEF PlacesAreCounted

LEMMA PlaceTaken ==
  ASSUME PlacesAreCounted, NEW c \in Clients, NEW k \in Kinds,
         session[c] \notin Served, session'[c] \in Served, kind'[c] = k,
         \A d \in Clients : d # c => kind'[d] = kind[d] /\ session'[d] = session[d],
         count' = [count EXCEPT ![k] = @ + 1],
         k = "stream" => count["stream"] = 0
  PROVE  PlacesAreCounted'
<1>1. ASSUME NEW j \in Kinds, j # k PROVE Serving(j)' = Serving(j)
  BY <1>1 DEF Serving
<1>2. Serving(k)' = Serving(k) \cup {c} /\ c \notin Serving(k)
  BY DEF Serving
<1>3. Cardinality(Serving(k) \cup {c}) = Cardinality(Serving(k)) + 1
  BY <1>2, ServingIsFinite, FS_AddElement
<1>4. count' = [j \in Kinds |-> Cardinality(Serving(j)')]
  BY <1>1, <1>2, <1>3 DEF PlacesAreCounted
<1>5. count'["stream"] <= 1
  BY DEF PlacesAreCounted, Kinds
<1> QED
  BY <1>4, <1>5 DEF PlacesAreCounted

LEMMA PlaceGivenBack ==
  ASSUME PlacesAreCounted, NEW c \in Clients, kind[c] \in Kinds,
         session[c] \in Served, session'[c] \notin Served, UNCHANGED kind,
         \A d \in Clients : d # c => session'[d] = session[d],
         count' = [count EXCEPT ![kind[c]] = @ - 1]
  PROVE  PlacesAreCounted'
<1> DEFINE k == kind[c]
<1>1. ASSUME NEW j \in Kinds, j # k PROVE Serving(j)' = Serving(j)
  BY <1>1 DEF Serving
<1>2. Serving(k)' = Serving(k) \ {c} /\ c \in Serving(k)
  BY DEF Serving
<1>3. Cardinality(Serving(k) \ {c}) = Cardinality(Serving(k)) - 1
  BY <1>2, ServingIsFinite, FS_RemoveElement
<1>4. count' = [j \in Kinds |-> Cardinality(Serving(j)')]
  BY <1>1, <1>2, <1>3 DEF PlacesAreCounted
<1>5. count'["stream"] <= 1
  <2>1. count["stream"] \in Nat /\ count["stream"] <= 1 /\ DOMAIN count = Kinds /\ "stream" \in Kinds
    BY ServingIsFinite DEF PlacesAreCounted, Kinds
  <2> QED
    BY <2>1
<1> QED
  BY <1>4, <1>5 DEF PlacesAreCounted

LEMMA PlacesStep ==
  ASSUME Inv, ServerMove
  PROVE  PlacesAreCounted'
<1>1. /\ PlacesAreCounted /\ session \in [Clients -> SessionStates]
      /\ kind \in [Clients -> Kinds \cup {"none"}]
  BY DEF Inv, ServerTypes
<1>2. CASE UNCHANGED <<count, kind, session>>
  BY <1>1, <1>2, PlacesStay
<1>3. CASE Open
  <2>1. \A k \in Kinds : Serving(k)' = {}
    BY <1>3 DEF Open, Serving, Served
  <2>2. Cardinality({}) = 0
    BY FS_EmptySet
  <2>3. count' = [k \in Kinds |-> 0] /\ "stream" \in Kinds
    BY <1>3 DEF Open, Kinds
  <2>4. count' = [k \in Kinds |-> Cardinality(Serving(k)')]
    BY <2>1, <2>2, <2>3
  <2>5. count'["stream"] <= 1
    BY <2>3
  <2> QED
    BY <2>4, <2>5 DEF PlacesAreCounted
<1>4. CASE CloseAcceptor
  BY <1>1, <1>4, PlacesStay DEF CloseAcceptor, NotifyAll, Served
<1>5. CASE AddSession
  <2>1. acceptor \in Clients /\ session[acceptor] = "queued"
    BY <1>5 DEF AddSession, Inv, ServerEnds
  <2> QED
    BY <1>1, <1>5, <2>1, PlacesStay DEF AddSession, Served
<1>6. CASE Hands
  BY <1>1, <1>6, PlacesStay DEF Hands, NotifyAll, Served
<1>7. ASSUME NEW c \in Clients, Connect(c)
      PROVE  PlacesAreCounted'
  <2>1. kind[c] = "none" /\ kind' = kind /\ UNCHANGED count
    BY <1>7 DEF Connect, Inv, KindsAreKnown
  <2>2. "none" \notin Kinds
    BY DEF Kinds
  <2> QED
    BY <1>1, <1>7, <2>1, <2>2, PlacesStay DEF Connect
<1>8. ASSUME NEW c \in Clients, Leave(c)
      PROVE  PlacesAreCounted'
  BY <1>2, <1>8 DEF Leave
<1>9. ASSUME NEW c \in Clients, SessionMove(c)
      PROVE  PlacesAreCounted'
  <2>1. CASE Refuses(c)
    BY <1>1, <2>1, PlacesStay DEF Refuses, Served
  <2>2. CASE Begins(c)
    <3>1. PICK k \in {"events", "mjpeg"} : /\ kind' = [kind EXCEPT ![c] = k]
                                            /\ count' = [count EXCEPT ![k] = @ + 1]
      BY <2>2 DEF Begins
    <3>2. /\ session[c] \notin Served /\ session'[c] \in Served /\ kind'[c] = k /\ k \in Kinds
          /\ \A d \in Clients : d # c => kind'[d] = kind[d] /\ session'[d] = session[d]
      BY <1>1, <2>2, <3>1 DEF Begins, Served, Kinds
    <3> QED
      BY <1>1, <3>1, <3>2, PlaceTaken
  <2>3. CASE Greets(c)
    BY <1>1, <2>3, PlacesStay DEF Greets, Served
  <2>4. CASE Streams(c)
    <3>1. /\ session[c] \notin Served /\ session'[c] \in Served /\ kind'[c] = "stream" /\ "stream" \in Kinds
          /\ \A d \in Clients : d # c => kind'[d] = kind[d] /\ session'[d] = session[d]
      BY <1>1, <2>4 DEF Streams, Served, Kinds, Inv, KindsAreKnown
    <3> QED
      BY <1>1, <2>4, <3>1, PlaceTaken DEF Streams
  <2>5. CASE Turns(c)
    BY <1>1, <2>5, PlacesStay DEF Turns, Served
  <2>6. CASE Works(c)
    BY <1>1, <2>6, PlacesStay DEF Works, Work, Served
  <2>7. CASE Writes(c)
    BY <1>1, <2>7, PlacesStay DEF Writes, Served
  <2>8. CASE Closes(c)
    <3>1. /\ session[c] \in Served /\ session'[c] \notin Served /\ kind[c] \in Kinds /\ UNCHANGED kind
          /\ \A d \in Clients : d # c => session'[d] = session[d]
      BY <1>1, <2>8 DEF Closes, CloseSession, SessionEnds, Served, Inv, KindsAreKnown
    <3> QED
      BY <1>1, <2>8, <3>1, PlaceGivenBack DEF Closes, CloseSession
  <2> QED
    BY <1>9, <2>1, <2>2, <2>3, <2>4, <2>5, <2>6, <2>7, <2>8 DEF SessionMove
<1> QED
  BY <1>2, <1>3, <1>4, <1>5, <1>6, <1>7, <1>8, <1>9
     DEF ServerMove, serverVars, ClearRunning, TakeSessions, JoinSessions, Accept

-----------------------------------------------------------------------------
(* stop() of the server leaves no thread, and events stay in order.          *)

LEMMA EndsStep ==
  ASSUME Inv, ServerMove
  PROVE  ServerEnds'
<1>1. /\ ServerEnds
      /\ phase \in {"none", "open", "closing", "accept", "sessions"}
      /\ acceptor \in {"off", "listening", "ended"} \cup Clients
      /\ session \in [Clients -> SessionStates] /\ joining \subseteq Clients
      /\ \A c \in Clients : c \notin {"off", "listening", "ended"}
  BY PreviewClients DEF Inv, ServerTypes
<1> USE DEF ServerEnds
<1>2. CASE UNCHANGED <<phase, acceptor, joining, session>>
  BY <1>1, <1>2
<1>3. CASE Open
  BY <1>1, <1>3 DEF Open
<1>4. CASE ClearRunning
  BY <1>1, <1>4 DEF ClearRunning
<1>5. CASE CloseAcceptor
  BY <1>1, <1>5 DEF CloseAcceptor, NotifyAll
<1>6. CASE TakeSessions
  BY <1>1, <1>6 DEF TakeSessions
<1>7. CASE JoinSessions
  BY <1>1, <1>7 DEF JoinSessions
<1>8. CASE Accept
  BY <1>1, <1>8 DEF Accept
<1>9. CASE AddSession
  BY <1>1, <1>9 DEF AddSession, Running
<1>10. CASE Hands
  BY <1>1, <1>10 DEF Hands, NotifyAll
<1>11. ASSUME NEW c \in Clients, Connect(c)
       PROVE  ServerEnds'
  BY <1>1, <1>11 DEF Connect
<1>12. ASSUME NEW c \in Clients, Leave(c)
       PROVE  ServerEnds'
  BY <1>2, <1>12 DEF Leave
<1>13. ASSUME NEW c \in Clients, SessionMove(c)
       PROVE  ServerEnds'
  <2>1. UNCHANGED <<phase, acceptor, joining>>
    BY <1>13 DEF SessionMove, SharedByAll
  <2>2. /\ session[c] \notin {"none", "queued", "ended"}
        /\ session'[c] # "queued"
        /\ \A d \in Clients : d # c => session'[d] = session[d]
    <3>1. CASE Refuses(c) \/ Begins(c) \/ Streams(c)
      BY <1>1, <3>1 DEF Refuses, Begins, Streams
    <3>2. CASE Greets(c)
      BY <1>1, <3>2 DEF Greets
    <3>3. CASE Turns(c)
      BY <1>1, <3>3 DEF Turns, Served
    <3>4. CASE Works(c)
      BY <1>1, <3>4 DEF Works, Work, Served
    <3>5. CASE Writes(c)
      BY <1>1, <3>5 DEF Writes
    <3>6. CASE Closes(c)
      BY <1>1, <3>6 DEF Closes, CloseSession, SessionEnds, Served
    <3> QED
      BY <1>13, <3>1, <3>2, <3>3, <3>4, <3>5, <3>6 DEF SessionMove
  <2> QED
    BY <1>1, <2>1, <2>2
<1> QED
  BY <1>2, <1>3, <1>4, <1>5, <1>6, <1>7, <1>8, <1>9, <1>10, <1>11, <1>12, <1>13
     DEF ServerMove, serverVars

\* What EventsInOrder says of one session.
InOrder(c) ==
  kind[c] = "events" /\ session[c] \in Served =>
    /\ seen[c] <= event.generation
    /\ got[c] # <<>> => Behind(c, got[c][1].sequence)
    /\ out[c] # <<>> => session[c] = "write" /\ Len(out[c]) = 1 /\ Behind(c, out[c][1].sequence)
    /\ got[c] # <<>> /\ out[c] # <<>> => got[c][1].sequence < out[c][1].sequence

LEMMA FirstItem ==
  ASSUME NEW S, NEW s \in Seq(S), s # <<>>
  PROVE  /\ s[1] \in S /\ Head(s) = s[1]
         /\ Len(s) = 1 => Tail(s) = <<>>
<1>1. Len(s) \in Nat /\ Len(s) # 0
  OBVIOUS
<1>2. s[1] \in S /\ Head(s) = s[1]
  BY <1>1
<1>3. ASSUME Len(s) = 1 PROVE Tail(s) = <<>>
  <2>1. PICK t : t = Tail(s)
    OBVIOUS
  <2>2. t \in Seq(S) /\ Len(t) = 0
    BY <1>3, <2>1
  <2>3. t = <<>>
    BY <2>2
  <2> QED
    BY <2>1, <2>3
<1> QED
  BY <1>2, <1>3

LEMMA EventBuffers ==
  ASSUME Inv, NEW c \in Clients, kind[c] = "events"
  PROVE  /\ out[c] \in Seq([sequence : Values]) /\ got[c] \in Seq([sequence : Values])
         /\ Len(got[c]) <= 1 /\ seen[c] \in Nat
         /\ got[c] # <<>> => got[c][1].sequence \in Int
         /\ out[c] # <<>> => out[c][1].sequence \in Int /\ Head(out[c]) = out[c][1]
         /\ out[c] # <<>> /\ Len(out[c]) = 1 => Tail(out[c]) = <<>>
<1>1. /\ out[c] \in Seq([sequence : Values]) /\ got[c] \in Seq([sequence : Values])
      /\ Len(got[c]) <= 1 /\ seen[c] \in Nat
  BY DEF Inv, BuffersFit, Content, ServerTypes
<1>2. ASSUME NEW s \in Seq([sequence : Values]), s # <<>>
      PROVE  s[1].sequence \in Int /\ Head(s) = s[1] /\ (Len(s) = 1 => Tail(s) = <<>>)
  <2>1. s[1] \in [sequence : Values] /\ Head(s) = s[1]
    BY <1>2, FirstItem
  <2>2. Len(s) = 1 => Tail(s) = <<>>
    BY <1>2, FirstItem
  <2> QED
    BY <2>1, <2>2 DEF Values
<1> QED
  BY <1>1, <1>2

LEMMA EventsStep ==
  ASSUME Inv, ServerMove
  PROVE  EventsInOrder'
<1>1. /\ event.value.sequence <= lastEvent /\ event \in [value : [sequence : Values], generation : Nat]
      /\ lastEvent \in Values /\ event.value.sequence \in Int /\ event.generation \in Nat
      /\ lastEvent \in Int
  BY DEF Inv, EventsInOrder, ServerTypes, SinkTypes, Values
<1>2. \A c \in Clients : InOrder(c)
  BY DEF Inv, EventsInOrder, InOrder
<1>3. /\ session \in [Clients -> SessionStates] /\ seen \in [Clients -> Nat]
      /\ kind \in [Clients -> Kinds \cup {"none"}] /\ DOMAIN out = Clients /\ DOMAIN got = Clients
  BY DEF Inv, ServerTypes, BuffersFit
<1>4. event'.value.sequence <= lastEvent'
  <2>1. CASE UNCHANGED <<event, lastEvent>>
    BY <1>1, <2>1
  <2>2. CASE Open /\ UNCHANGED lastEvent
    BY <1>1, <2>2 DEF Open, Values
  <2>3. CASE Hands
    BY <1>1, <2>3 DEF Hands, NewContent, PoseEvent, Values
  <2> QED
    BY <2>1, <2>2, <2>3
       DEF ServerMove, serverVars, ClearRunning, CloseAcceptor, TakeSessions, JoinSessions,
           Accept, AddSession, Connect, Leave, SessionMove, SharedByAll
<1> SUFFICES ASSUME NEW d \in Clients PROVE InOrder(d)'
  BY <1>4 DEF EventsInOrder, InOrder
<1>5. InOrder(d)
  BY <1>2
<1>6. CASE /\ UNCHANGED <<event, seen, out, got>> /\ kind'[d] = kind[d]
           /\ session'[d] \in Served => session[d] \in Served
           /\ session[d] = "write" /\ session'[d] \in Served => session'[d] = "write" \/ out[d] = <<>>
  BY <1>5, <1>6 DEF InOrder, Behind
<1>7. CASE session'[d] \notin Served
  BY <1>7 DEF InOrder
<1>8. CASE Hands
  <2>1. /\ session'[d] \in Served => session[d] \in Served
        /\ session[d] = "write" => session'[d] = "write"
        /\ UNCHANGED <<seen, out, got, kind>>
    BY <1>3, <1>8 DEF Hands, NotifyAll, Served
  <2>2. CASE UNCHANGED event
    BY <1>6, <2>1, <2>2
  <2>3. CASE \E sequence \in Values :
               /\ sequence > lastEvent
               /\ event' = [value |-> PoseEvent(sequence), generation |-> event.generation + 1]
    <3>1. PICK sequence \in Values :
               /\ sequence > lastEvent
               /\ event' = [value |-> PoseEvent(sequence), generation |-> event.generation + 1]
      BY <2>3
    <3>2. /\ event'.value.sequence = sequence /\ event'.generation = event.generation + 1
          /\ sequence \in Int /\ event.value.sequence < sequence
      BY <1>1, <3>1 DEF PoseEvent, Values
    <3> SUFFICES ASSUME kind[d] = "events", session'[d] \in Served
                 PROVE  InOrder(d)'
      BY <2>1 DEF InOrder
    <3>3. /\ seen[d] \in Nat
          /\ got[d] # <<>> => got[d][1].sequence \in Int
          /\ out[d] # <<>> => out[d][1].sequence \in Int
      BY EventBuffers
    <3> QED
      BY <1>1, <1>5, <2>1, <3>2, <3>3 DEF InOrder, Behind
  <2> QED
    BY <1>8, <2>2, <2>3 DEF Hands, NewContent
<1>9. ASSUME NEW c \in Clients, SessionMove(c)
      PROVE  InOrder(d)'
  <2>1. UNCHANGED event
    BY <1>9 DEF SessionMove, SharedByAll
  <2>2. CASE Refuses(c)
    BY <1>3, <1>6, <2>1, <2>2 DEF Refuses, Served
  <2>3. CASE Greets(c)
    BY <1>3, <1>6, <1>7, <2>1, <2>3 DEF Greets, Served
  <2>4. CASE Turns(c)
    BY <1>3, <1>6, <2>1, <2>4 DEF Turns, Served
  <2>5. CASE Closes(c)
    <3>1. CASE d = c
      BY <1>3, <1>7, <2>5, <3>1 DEF Closes, CloseSession, SessionEnds, Served
    <3>2. CASE d # c
      <4>1. /\ kind'[d] = kind[d] /\ seen'[d] = seen[d] /\ out'[d] = out[d] /\ got'[d] = got[d]
            /\ session'[d] = session[d]
        BY <1>3, <2>5, <3>2 DEF Closes, CloseSession, SessionEnds
      <4> QED
        BY <1>5, <2>1, <4>1 DEF InOrder, Behind
    <3> QED
      BY <3>1, <3>2
  <2>6. CASE Begins(c) \/ Streams(c)
    <3>1. CASE d = c
      <4>1. CASE Streams(c)
        <5>1. kind'[d] = "stream"
          BY <3>1, <4>1 DEF Streams, Inv, KindsAreKnown
        <5> QED
          BY <5>1 DEF InOrder
      <4>2. CASE Begins(c)
        <5>1. kind[c] = "none" /\ UNCHANGED <<out, got>> /\ seen'[c] = 0
          BY <1>3, <4>2 DEF Begins, Inv, KindsAreKnown
        <5>2. out[c] \in Seq(Content("none")) /\ got[c] \in Seq(Content("none"))
          BY <5>1 DEF Inv, BuffersFit
        <5>3. out'[c] = <<>> /\ got'[c] = <<>>
          BY <5>1, <5>2, NothingYet
        <5> QED
          BY <1>1, <2>1, <3>1, <5>1, <5>3 DEF InOrder
      <4> QED
        BY <2>6, <4>1, <4>2
    <3>2. CASE d # c
      <4>1. /\ kind'[d] = kind[d] /\ seen'[d] = seen[d] /\ out'[d] = out[d] /\ got'[d] = got[d]
            /\ session'[d] = session[d]
        BY <1>3, <2>6, <3>2 DEF Begins, Streams
      <4> QED
        BY <1>5, <2>1, <4>1 DEF InOrder, Behind
    <3> QED
      BY <3>1, <3>2
  <2>7. CASE Works(c)
    <3>1. CASE d = c
      <4> SUFFICES ASSUME kind[c] = "events" PROVE InOrder(c)'
        BY <2>7, <3>1 DEF Works, InOrder
      <4>1. /\ out'[c] = <<event.value>> /\ got'[c] = got[c] /\ seen'[c] = event.generation
            /\ session'[c] = "write" /\ session[c] \in Served /\ seen[c] # event.generation
        BY <1>3, <2>7 DEF Works, Work
      <4>2. got[c] # <<>> => got[c][1].sequence < event.value.sequence
        BY <1>2, <4>1 DEF InOrder, Behind
      <4>3. got[c] # <<>> => got[c][1].sequence \in Int
        BY EventBuffers
      <4> QED
        BY <1>1, <2>1, <4>1, <4>2, <4>3 DEF InOrder, Behind
    <3>2. CASE d # c
      <4>1. /\ kind'[d] = kind[d] /\ seen'[d] = seen[d] /\ out'[d] = out[d] /\ got'[d] = got[d]
            /\ session'[d] = session[d]
        BY <1>3, <2>7, <3>2 DEF Works, Work
      <4> QED
        BY <1>5, <2>1, <4>1 DEF InOrder, Behind
    <3> QED
      BY <3>1, <3>2
  <2>8. CASE Writes(c)
    <3>1. CASE d = c
      <4> SUFFICES ASSUME kind[c] = "events" PROVE InOrder(c)'
        BY <2>8, <3>1 DEF Writes, InOrder
      <4>1. session[c] \in Served /\ out[c] # <<>> /\ Len(out[c]) = 1
        BY <1>2, <2>8 DEF Writes, InOrder, Served
      <4>2. Tail(out[c]) = <<>> /\ Head(out[c]) = out[c][1]
        BY <4>1, EventBuffers
      <4>3. /\ out'[c] = <<>> /\ got'[c] = <<out[c][1]>> /\ seen'[c] = seen[c]
        BY <1>3, <2>8, <4>2 DEF Writes
      <4>4. seen[c] <= event.generation /\ Behind(c, out[c][1].sequence)
        BY <1>2, <4>1 DEF InOrder
      <4> QED
        BY <2>1, <4>3, <4>4 DEF InOrder, Behind
    <3>2. CASE d # c
      <4>1. /\ kind'[d] = kind[d] /\ seen'[d] = seen[d] /\ out'[d] = out[d] /\ got'[d] = got[d]
            /\ session'[d] = session[d]
        BY <1>3, <2>8, <3>2 DEF Writes
      <4> QED
        BY <1>5, <2>1, <4>1 DEF InOrder, Behind
    <3> QED
      BY <3>1, <3>2
  <2> QED
    BY <1>9, <2>2, <2>3, <2>4, <2>5, <2>6, <2>7, <2>8 DEF SessionMove
<1>10. CASE UNCHANGED <<serverVars, lastEvent>> \/ ClearRunning \/ TakeSessions \/ JoinSessions \/ Accept
  BY <1>6, <1>10 DEF serverVars, ClearRunning, TakeSessions, JoinSessions, Accept
<1>11. CASE Open
  BY <1>7, <1>11 DEF Open, Served
<1>12. CASE CloseAcceptor
  BY <1>3, <1>6, <1>12 DEF CloseAcceptor, NotifyAll, Served
<1>13. CASE AddSession
  BY <1>3, <1>6, <1>13 DEF AddSession, Served
<1>14. ASSUME NEW c \in Clients, Connect(c) \/ Leave(c)
       PROVE  InOrder(d)'
  BY <1>3, <1>6, <1>14 DEF Connect, Leave, Served
<1> QED
  BY <1>8, <1>9, <1>10, <1>11, <1>12, <1>13, <1>14 DEF ServerMove

-----------------------------------------------------------------------------
(* The sink: its types, who owns the server, and what was published.         *)

LEMMA PutFits ==
  ASSUME NEW q \in Seq(Values), Len(q) <= QueueCapacity, NEW item \in Values
  PROVE  /\ Put(q, item) \in Seq(Values) /\ Len(Put(q, item)) <= QueueCapacity
         /\ Len(Put(q, item)) <= Len(q) + 1
<1>1. QueueCapacity \in Nat \ {0} /\ Len(q) \in Nat
  BY SinkLimits
<1>2. CASE Len(q) >= QueueCapacity
  <2>1. q # <<>> /\ Put(q, item) = Append(Tail(q), item)
    BY <1>1, <1>2 DEF Put
  <2>2. Tail(q) \in Seq(Values) /\ Len(Tail(q)) = Len(q) - 1
    BY <2>1
  <2>3. Append(Tail(q), item) \in Seq(Values) /\ Len(Append(Tail(q), item)) = Len(Tail(q)) + 1
    BY <2>2
  <2> QED
    BY <1>1, <2>1, <2>2, <2>3
<1>3. CASE ~(Len(q) >= QueueCapacity)
  <2>1. Put(q, item) = Append(q, item)
    BY <1>3 DEF Put
  <2>2. Append(q, item) \in Seq(Values) /\ Len(Append(q, item)) = Len(q) + 1
    OBVIOUS
  <2> QED
    BY <1>1, <1>3, <2>1, <2>2
<1> QED
  BY <1>2, <1>3

\* What a worker has taken leaves its queue shorter, and the others as they are.
LEMMA ReceivesFits ==
  ASSUME SinkTypes, NEW w \in Workers, Receives(w)
  PROVE  /\ queue' \in [Workers -> Seq(Values)] /\ \A x \in Workers : Len(queue'[x]) <= QueueCapacity
         /\ Head(queue[w]) \in Values
         /\ \A x \in Workers : Len(queue'[x]) <= Len(queue[x])
         /\ Len(queue'[w]) = Len(queue[w]) - 1
         /\ \A x \in Workers : Len(queue[x]) \in Nat
<1>1. queue[w] # <<>> /\ queue' = [queue EXCEPT ![w] = Tail(@)]
  BY DEF Receives
<1>2. /\ Head(queue[w]) \in Values /\ Tail(queue[w]) \in Seq(Values)
      /\ Len(Tail(queue[w])) = Len(queue[w]) - 1
  BY <1>1, HeadsFit
<1>3. /\ queue \in [Workers -> Seq(Values)] /\ \A x \in Workers : Len(queue[x]) <= QueueCapacity
      /\ \A x \in Workers : Len(queue[x]) \in Nat
  BY DEF SinkTypes
<1>4. \A x \in Workers : queue'[x] = IF x = w THEN Tail(queue[w]) ELSE queue[x]
  BY <1>1, <1>3
<1>5. queue' \in [Workers -> Seq(Values)]
  BY <1>1, <1>2, <1>3
<1>6. QueueCapacity \in Nat
  BY SinkLimits
<1>7. Len(queue'[w]) = Len(queue[w]) - 1
  BY <1>2, <1>4
<1>8. \A x \in Workers : Len(queue'[x]) <= Len(queue[x])
  <2>1. \A x \in Workers : x # w => queue'[x] = queue[x]
    BY <1>4
  <2>2. Len(queue'[w]) <= Len(queue[w])
    BY <1>3, <1>7
  <2>3. \A x \in Workers : x # w => Len(queue'[x]) <= Len(queue[x])
    BY <1>3, <2>1
  <2> QED
    BY <2>2, <2>3
<1>9. \A x \in Workers : Len(queue'[x]) <= QueueCapacity
  <2> SUFFICES ASSUME NEW x \in Workers PROVE Len(queue'[x]) <= QueueCapacity
    OBVIOUS
  <2>1. Len(queue'[x]) <= Len(queue[x]) /\ Len(queue[x]) <= QueueCapacity /\ Len(queue[x]) \in Nat
    BY <1>3, <1>8
  <2>2. Len(queue'[x]) \in Nat
    BY <1>5
  <2> QED
    BY <1>6, <2>1, <2>2
<1> QED
  BY <1>2, <1>3, <1>5, <1>7, <1>8, <1>9

LEMMA PublishFits ==
  ASSUME SinkTypes, Publish
  PROVE  \E sequence \in 1..MaxPackets \ published :
           /\ published' = published \cup {sequence}
           /\ queue' \in [Workers -> Seq(Values)]
           /\ \A w \in Workers : /\ Len(queue'[w]) <= QueueCapacity
                                  /\ Len(queue'[w]) <= Len(queue[w]) + 1
<1>1. PICK sequence \in 1..MaxPackets \ published :
         /\ published' = published \cup {sequence}
         /\ queue' = [w \in Workers |-> IF w \in Receivers \ closed THEN Put(queue[w], sequence) ELSE queue[w]]
  BY DEF Publish
<1>2. sequence \in Values
  BY DEF Values
<1>3. \A w \in Workers : queue[w] \in Seq(Values) /\ Len(queue[w]) <= QueueCapacity /\ Len(queue[w]) \in Nat
  BY DEF SinkTypes
<1>4. \A w \in Workers : /\ Put(queue[w], sequence) \in Seq(Values) /\ Len(Put(queue[w], sequence)) <= QueueCapacity
                         /\ Len(Put(queue[w], sequence)) <= Len(queue[w]) + 1
  BY <1>2, <1>3, PutFits
<1>5. \A w \in Workers : queue'[w] = Put(queue[w], sequence) \/ queue'[w] = queue[w]
  BY <1>1
<1>6. queue' \in [Workers -> Seq(Values)]
  BY <1>1, <1>3, <1>4
<1>7. \A w \in Workers : Len(queue'[w]) <= QueueCapacity /\ Len(queue'[w]) <= Len(queue[w]) + 1
  BY <1>3, <1>4, <1>5
<1> QED
  BY <1>1, <1>6, <1>7

LEMMA EmptyQueuesFit ==
  ASSUME SinkTypes,
         queue' = [w \in Workers |-> IF w \in Network THEN <<>> ELSE queue[w]]
  PROVE  /\ queue' \in [Workers -> Seq(Values)] /\ \A w \in Workers : Len(queue'[w]) <= QueueCapacity
         /\ Len(queue'["stream"]) = 0
<1>1. <<>> \in Seq(Values) /\ Len(<<>>) = 0 /\ QueueCapacity \in Nat
  BY SinkLimits
<1>2. \A w \in Workers : queue[w] \in Seq(Values) /\ Len(queue[w]) <= QueueCapacity
  BY DEF SinkTypes
<1>3. queue' \in [Workers -> Seq(Values)]
  BY <1>1, <1>2
<1>4. \A w \in Workers : queue'[w] = <<>> \/ queue'[w] = queue[w]
  OBVIOUS
<1>5. \A w \in Workers : Len(queue'[w]) <= QueueCapacity
  BY <1>1, <1>2, <1>4
<1>6. queue'["stream"] = <<>>
  BY DEF Workers, Network
<1> QED
  BY <1>1, <1>3, <1>5, <1>6

LEMMA MemoryFits ==
  ASSUME NEW m \in [lock : Nat, sequence : Values, payload : Values], NEW item \in Values
  PROVE  /\ [m EXCEPT !.lock = @ + 1, !.sequence = item] \in [lock : Nat, sequence : Values, payload : Values]
         /\ [m EXCEPT !.payload = item] \in [lock : Nat, sequence : Values, payload : Values]
         /\ [m EXCEPT !.lock = @ + 1] \in [lock : Nat, sequence : Values, payload : Values]
<1>1. m.lock + 1 \in Nat
  OBVIOUS
<1> QED
  BY <1>1

LEMMA SinkTypesStep ==
  ASSUME Inv, Next
  PROVE  SinkTypes'
<1>1. SinkTypes
  BY DEF Inv
<1> USE DEF SinkTypes, Workers, Network, flowVars, lifeVars, sinkVars
<1>2. 0 \in Values /\ 1..MaxPackets \subseteq Values
  BY SinkLimits DEF Values
<1>3. CASE StartNetwork
  <2>1. ASSUME holder' = "sink", NEW started, StartTransports(started)
        PROVE  SinkTypes'
    <3> USE <2>1 DEF StartTransports
    <3>1. queue' \in [Workers -> Seq(Values)] /\ \A w \in Workers : Len(queue'[w]) <= QueueCapacity
      BY <1>1, <2>1, EmptyQueuesFit
    <3>2. worker' \in [Workers -> {"off", "idle", "header", "payload", "ended"}]
      BY <1>1, <2>1
    <3>3. /\ control' \in {"threads", "idle", "failed"}
          /\ UNCHANGED <<config, running, stopper, published, lastEvent, memory, reader>>
          /\ force' = FALSE /\ encoded' = 0 /\ closed' \subseteq closed
      BY <1>3, <2>1 DEF StartNetwork
    <3> HIDE <2>1 DEF StartTransports
    <3> QED
      BY <1>1, <2>1, <3>1, <3>2, <3>3
  <2>2. CASE UNCHANGED flowVars /\ UNCHANGED holder
    BY <1>1, <1>3, <2>2 DEF StartNetwork
  <2> QED
    BY <1>3, <2>1, <2>2 DEF StartNetwork
<1>4. CASE Start \/ StartThreads \/ StoreConfig
  <2>1. /\ UNCHANGED <<closed, queue, published, force, encoded, lastEvent, memory, reader>>
        /\ UNCHANGED <<stopper, holder>> /\ running' \in {running, TRUE}
        /\ control' \in {"network", "failed", "idle", "reopen"}
    BY <1>4 DEF Start, StartThreads, StoreConfig
  <2>2. config' \in Settings
    BY <1>1, <1>4 DEF Start, StartThreads, StoreConfig
  <2>3. worker' \in [Workers -> {"off", "idle", "header", "payload", "ended"}]
    <3>1. UNCHANGED worker \/ worker' = [worker EXCEPT !["memory"] = "idle", !["events"] = "idle"]
      BY <1>4 DEF Start, StartThreads, StoreConfig
    <3> QED
      BY <1>1, <3>1
  <2>4. running' \in BOOLEAN
    BY <1>1, <2>1
  <2> HIDE DEF Workers, Network, flowVars, lifeVars, sinkVars
  <2> QED
    BY <1>1, <2>1, <2>2, <2>3, <2>4
<1>5. CASE StopNetwork \/ Stopped \/ Destroy
  <2>1. /\ UNCHANGED <<queue, worker, published, force, encoded, lastEvent, memory, reader>>
        /\ UNCHANGED <<config, running, control>> /\ closed' \in {closed, closed \cup Network}
        /\ holder' \in {holder, "stopper"}
        /\ stopper' \in {"closing", "destroying", "stopped", "destroyed", "destroy"}
    BY <1>5 DEF StopNetwork, Stopped, Destroy, TakeNetwork
  <2>2. closed' \subseteq Workers
    BY <1>1, <2>1
  <2> HIDE DEF Workers, Network, flowVars, lifeVars, sinkVars
  <2> QED
    BY <1>1, <2>1, <2>2
<1>6. CASE DownStep
  <2>1. /\ UNCHANGED <<queue, worker, published, force, encoded, lastEvent, memory, reader>>
        /\ UNCHANGED <<config, running, control, stopper, closed>>
        /\ holder' \in {holder, "nobody"}
    BY <1>6 DEF DownStep, NetworkDown
  <2> QED
    BY <1>1, <2>1
<1>7. CASE Configure \/ Stop
  <2>1. /\ UNCHANGED <<queue, worker, published, force, encoded, lastEvent, memory, reader>>
        /\ UNCHANGED config /\ running' \in {running, FALSE}
        /\ closed' \in {closed, closed \cup Network, closed \cup {"memory", "events"}}
        /\ holder' \in {holder, "control"}
        /\ stopper' \in {stopper, "joining"} /\ control' \in {control, "closing", "storing"}
    BY <1>7 DEF Configure, Stop, TakeNetwork
  <2>2. closed' \subseteq Workers
    BY <1>1, <2>1
  <2>3. running' \in BOOLEAN
    BY <1>1, <2>1
  <2> HIDE DEF Workers, Network, flowVars, lifeVars, sinkVars
  <2> QED
    BY <1>1, <2>1, <2>2, <2>3
<1>8. CASE Publish
  <2>1. PICK sequence \in 1..MaxPackets \ published :
           /\ published' = published \cup {sequence}
           /\ queue' \in [Workers -> Seq(Values)]
           /\ \A w \in Workers : /\ Len(queue'[w]) <= QueueCapacity
                                  /\ Len(queue'[w]) <= Len(queue[w]) + 1
    BY <1>1, <1>8, PublishFits
  <2>2. published' \subseteq 1..MaxPackets
    BY <1>1, <2>1
  <2>3. force' \in BOOLEAN
    BY <1>1, <1>8 DEF Publish
  <2> QED
    BY <1>1, <1>8, <2>1, <2>2, <2>3 DEF Publish
<1>9. CASE ReaderStep
  <2>1. reader' \in [at : {"idle", "sequence", "payload", "check", "valid"}, lock : Nat,
                     sequence : Values, payload : Values]
    <3>1. memory.lock \in Nat /\ memory.sequence \in Values /\ memory.payload \in Values
      BY <1>1
    <3>2. CASE reader' = [at |-> "sequence", lock |-> memory.lock, sequence |-> 0, payload |-> 0]
      BY <1>2, <3>1, <3>2
    <3>3. CASE reader' = [reader EXCEPT !.at = "payload", !.sequence = memory.sequence]
      BY <1>1, <3>1, <3>3
    <3>4. CASE reader' = [reader EXCEPT !.at = "check", !.payload = memory.payload]
      BY <1>1, <3>1, <3>4
    <3>5. CASE reader' = [reader EXCEPT !.at = IF memory.lock = reader.lock THEN "valid" ELSE "idle"]
      BY <1>1, <3>5
    <3> QED
      BY <1>9, <3>2, <3>3, <3>4, <3>5 DEF ReaderStep
  <2> QED
    BY <1>1, <1>9, <2>1 DEF ReaderStep
<1>10. CASE ServerStep
  BY <1>1, <1>10 DEF ServerStep
<1>11. ASSUME NEW w \in Workers, WorkerStep(w)
       PROVE  SinkTypes'
  <2>1. CASE ReceiveEnds(w)
    BY <1>1, <2>1 DEF ReceiveEnds
  <2>2. CASE MakeEvent
    <3>1. /\ queue' \in [Workers -> Seq(Values)] /\ \A x \in Workers : Len(queue'[x]) <= QueueCapacity
          /\ Head(queue["events"]) \in Values
      BY <1>1, <2>2, ReceivesFits DEF MakeEvent
    <3>2. lastEvent' \in Values
      BY <1>1, <2>2, <3>1 DEF MakeEvent
    <3> QED
      BY <1>1, <2>2, <3>1, <3>2 DEF MakeEvent
  <2>3. CASE MakeImage
    <3>1. queue' \in [Workers -> Seq(Values)] /\ \A x \in Workers : Len(queue'[x]) <= QueueCapacity
      BY <1>1, <2>3, ReceivesFits DEF MakeImage
    <3> QED
      BY <1>1, <2>3, <3>1 DEF MakeImage
  <2>4. CASE MakeUnit
    <3>1. queue' \in [Workers -> Seq(Values)] /\ \A x \in Workers : Len(queue'[x]) <= QueueCapacity
      BY <1>1, <2>4, ReceivesFits DEF MakeUnit
    <3>2. encoded' \in Nat /\ force' = FALSE
      BY <1>1, <2>4 DEF MakeUnit
    <3>3. UNCHANGED <<config, running, control, stopper, holder, worker, closed, published, lastEvent,
                      memory, reader>>
      BY <2>4 DEF MakeUnit
    <3> HIDE DEF Workers, Network, flowVars, lifeVars, sinkVars
    <3>4. /\ config' \in Settings /\ running' \in BOOLEAN /\ force' \in BOOLEAN
          /\ control' \in {"start", "network", "failed", "threads", "idle", "closing", "storing", "reopen"}
          /\ stopper' \in {"waiting", "joining", "closing", "stopped", "destroy", "destroying", "destroyed"}
          /\ holder' \in {"nobody", "sink", "control", "stopper"}
          /\ closed' \subseteq Workers /\ published' \subseteq 1..MaxPackets
      BY <1>1, <3>2, <3>3
    <3>5. /\ worker' \in [Workers -> {"off", "idle", "header", "payload", "ended"}] /\ lastEvent' \in Values
          /\ memory' \in [lock : Nat, sequence : Values, payload : Values]
          /\ reader' \in [at : {"idle", "sequence", "payload", "check", "valid"}, lock : Nat,
                         sequence : Values, payload : Values]
      BY <1>1, <3>3
    <3> QED
      BY <3>1, <3>2, <3>4, <3>5
  <2>5. CASE WriteHeader
    <3>1. /\ queue' \in [Workers -> Seq(Values)] /\ \A x \in Workers : Len(queue'[x]) <= QueueCapacity
          /\ Head(queue["memory"]) \in Values
      BY <1>1, <2>5, ReceivesFits DEF WriteHeader
    <3>2. memory' \in [lock : Nat, sequence : Values, payload : Values]
      <4>1. CASE memory' = [memory EXCEPT !.lock = @ + 1, !.sequence = Head(queue["memory"])]
        BY <1>1, <3>1, <4>1, MemoryFits
      <4>2. CASE UNCHANGED memory
        BY <1>1, <4>2
      <4> QED
        BY <2>5, <4>1, <4>2 DEF WriteHeader
    <3>3. worker' \in [Workers -> {"off", "idle", "header", "payload", "ended"}]
      BY <1>1, <2>5 DEF WriteHeader
    <3> QED
      BY <1>1, <2>5, <3>1, <3>2, <3>3 DEF WriteHeader
  <2>6. CASE WritePayload
    <3>1. memory.sequence \in Values
      BY <1>1
    <3>2. memory' \in [lock : Nat, sequence : Values, payload : Values]
      BY <1>1, <2>6, <3>1, MemoryFits DEF WritePayload
    <3> QED
      BY <1>1, <2>6, <3>2 DEF WritePayload
  <2>7. CASE WriteDone
    <3>1. memory' \in [lock : Nat, sequence : Values, payload : Values]
      BY <1>1, <1>2, <2>7, MemoryFits DEF WriteDone
    <3> QED
      BY <1>1, <2>7, <3>1 DEF WriteDone
  <2> QED
    BY <1>11, <2>1, <2>2, <2>3, <2>4, <2>5, <2>6, <2>7 DEF WorkerStep
<1> QED
  BY <1>3, <1>4, <1>5, <1>6, <1>7, <1>8, <1>9, <1>10, <1>11 DEF Next, SinkStep

LEMMA UnitsStep ==
  ASSUME Inv, Next
  PROVE  UnitsAreCounted'
<1>1. /\ encoded + Len(queue["stream"]) <= Cardinality(published) /\ encoded \in Nat
      /\ Len(queue["stream"]) \in Nat /\ Cardinality(published) \in Nat /\ IsFiniteSet(published)
      /\ SinkTypes /\ "stream" \in Workers
  BY PublishedFit DEF Inv, UnitsAreCounted, SinkTypes, Workers
<1> USE DEF flowVars, lifeVars, sinkVars
<1>2. CASE UNCHANGED <<encoded, published>> /\ Len(queue'["stream"]) <= Len(queue["stream"])
           /\ Len(queue'["stream"]) \in Nat
  BY <1>1, <1>2 DEF UnitsAreCounted
<1>3. CASE UNCHANGED <<encoded, published, queue>>
  BY <1>1, <1>2, <1>3
<1>4. CASE StartNetwork
  <2>1. ASSUME NEW started, StartTransports(started)
        PROVE  UnitsAreCounted'
    <3> USE <2>1 DEF StartTransports
    <3>1. Len(queue'["stream"]) = 0
      BY <1>1, <2>1, EmptyQueuesFit
    <3> QED
      BY <1>1, <2>1, <3>1 DEF UnitsAreCounted
  <2>2. CASE UNCHANGED flowVars
    BY <1>3, <2>2
  <2> QED
    BY <1>4, <2>1, <2>2 DEF StartNetwork
<1>5. CASE Publish
  <2>1. PICK sequence \in 1..MaxPackets \ published :
           /\ published' = published \cup {sequence}
           /\ queue' \in [Workers -> Seq(Values)]
           /\ \A w \in Workers : /\ Len(queue'[w]) <= QueueCapacity
                                  /\ Len(queue'[w]) <= Len(queue[w]) + 1
    BY <1>1, <1>5, PublishFits
  <2>2. Cardinality(published') = Cardinality(published) + 1
    BY <1>1, <2>1, FS_AddElement
  <2>3. Len(queue'["stream"]) <= Len(queue["stream"]) + 1 /\ Len(queue'["stream"]) \in Nat
    BY <1>1, <2>1
  <2>4. encoded' = encoded
    BY <1>5 DEF Publish
  <2> QED
    BY <1>1, <2>2, <2>3, <2>4 DEF UnitsAreCounted
<1>6. ASSUME NEW w \in Workers, WorkerStep(w)
      PROVE  UnitsAreCounted'
  <2>1. CASE ReceiveEnds(w) \/ WritePayload \/ WriteDone
    BY <1>3, <2>1 DEF ReceiveEnds, WritePayload, WriteDone
  <2>2. ASSUME NEW x \in Workers, Receives(x), UNCHANGED <<encoded, published>>
        PROVE  UnitsAreCounted'
    <3>1. Len(queue'["stream"]) <= Len(queue["stream"]) /\ Len(queue'["stream"]) \in Nat
      BY <1>1, <2>2, ReceivesFits
    <3> QED
      BY <1>2, <2>2, <3>1
  <2>3. CASE MakeEvent \/ MakeImage \/ WriteHeader
    BY <2>2, <2>3 DEF MakeEvent, MakeImage, WriteHeader, Workers
  <2>4. CASE MakeUnit
    <3>1. Len(queue'["stream"]) = Len(queue["stream"]) - 1 /\ UNCHANGED published
      BY <1>1, <2>4, ReceivesFits DEF MakeUnit
    <3>2. encoded' = encoded \/ encoded' = encoded + 1
      BY <2>4 DEF MakeUnit
    <3> QED
      BY <1>1, <3>1, <3>2 DEF UnitsAreCounted
  <2> QED
    BY <1>6, <2>1, <2>3, <2>4 DEF WorkerStep
<1>7. CASE Start \/ StartThreads \/ StoreConfig \/ StopNetwork \/ Stopped \/ Destroy \/ DownStep
           \/ Configure \/ Stop \/ ReaderStep \/ ServerStep
  BY <1>3, <1>7 DEF Start, StartThreads, StoreConfig, StopNetwork, Stopped, Destroy, DownStep,
                    NetworkDown, Configure, Stop, ReaderStep, ServerStep
<1> QED
  BY <1>4, <1>5, <1>6, <1>7 DEF Next, SinkStep

LEMMA OwnersStep ==
  ASSUME Inv, Next
  PROVE  OwnersAgree'
<1>1. OwnersAgree /\ SinkTypes /\ phase \in {"none", "open", "closing", "accept", "sessions"}
  BY DEF Inv, ServerTypes
<1>2. /\ worker \in [Workers -> {"off", "idle", "header", "payload", "ended"}]
      /\ control \in {"start", "network", "failed", "threads", "idle", "closing", "storing", "reopen"}
      /\ stopper \in {"waiting", "joining", "closing", "stopped", "destroy", "destroying", "destroyed"}
      /\ holder \in {"nobody", "sink", "control", "stopper"} /\ running \in BOOLEAN
  BY <1>1 DEF SinkTypes
<1> USE DEF OwnersAgree, Workers, Network, flowVars, lifeVars, sinkVars, serverVars
<1>3. CASE Start
  BY <1>1, <1>2, <1>3 DEF Start
<1>4. CASE StartNetwork
  <2>1. /\ control \in {"network", "reopen"} /\ control' \in {"threads", "idle", "failed"}
        /\ control = "reopen" => control' = "idle"
        /\ UNCHANGED <<running, stopper>>
    BY <1>4 DEF StartNetwork
  <2>2. holder = "nobody" /\ phase = "none"
    BY <1>1, <2>1
  <2>3. \/ UNCHANGED <<holder, worker, phase>>
        \/ /\ holder' = "sink" /\ phase' \in {"none", "open"}
           /\ worker'["memory"] = worker["memory"] /\ worker'["events"] = worker["events"]
    <3>1. ASSUME NEW started, StartTransports(started)
          PROVE  worker'["memory"] = worker["memory"] /\ worker'["events"] = worker["events"]
      BY <3>1 DEF StartTransports
    <3>2. UNCHANGED serverVars \/ Open => phase' \in {"none", "open"}
      BY <2>2 DEF Open
    <3> QED
      BY <1>4, <2>2, <3>1, <3>2 DEF StartNetwork
  <2>4. CASE UNCHANGED <<holder, worker, phase>>
    BY <1>1, <1>2, <2>1, <2>2, <2>4
  <2>5. CASE /\ holder' = "sink" /\ phase' \in {"none", "open"}
             /\ worker'["memory"] = worker["memory"] /\ worker'["events"] = worker["events"]
    BY <1>1, <1>2, <2>1, <2>2, <2>5
  <2> QED
    BY <2>3, <2>4, <2>5
<1>5. CASE StartThreads
  BY <1>1, <1>2, <1>5 DEF StartThreads
<1>6. CASE StoreConfig
  BY <1>1, <1>2, <1>6 DEF StoreConfig
<1>7. CASE StopNetwork
  BY <1>1, <1>2, <1>7 DEF StopNetwork, TakeNetwork
<1>8. CASE Stopped
  BY <1>1, <1>2, <1>8 DEF Stopped
<1>9. CASE Destroy
  BY <1>1, <1>2, <1>9 DEF Destroy
<1>10. ASSUME NEW thread \in {"control", "stopper"}, NetworkDown(thread)
       PROVE  OwnersAgree'
  <2>1. holder = thread /\ UNCHANGED <<control, stopper, running, worker>>
    BY <1>10 DEF NetworkDown
  <2>2. CASE JoinSessions /\ holder' = "nobody"
    BY <1>1, <1>2, <1>10, <2>1, <2>2 DEF NetworkDown, JoinSessions
  <2>3. CASE (ClearRunning \/ CloseAcceptor \/ TakeSessions) /\ UNCHANGED holder
    <3>1. phase # "none" /\ phase' # "none"
      BY <2>3 DEF ClearRunning, CloseAcceptor, TakeSessions
    <3> QED
      BY <1>1, <1>2, <2>1, <2>3, <3>1
  <2>4. CASE phase = "none" /\ holder' = "nobody" /\ UNCHANGED serverVars
    BY <1>1, <1>2, <1>10, <2>1, <2>4 DEF NetworkDown
  <2> QED
    BY <1>10, <2>2, <2>3, <2>4 DEF NetworkDown
<1>11. CASE Configure
  BY <1>1, <1>2, <1>11 DEF Configure, TakeNetwork
<1>12. CASE Stop
  BY <1>1, <1>2, <1>12 DEF Stop
<1>13. CASE UNCHANGED <<phase, lifeVars, worker>>
  BY <1>1, <1>13
<1>14. CASE Publish
  BY <1>1, <1>2, <1>14 DEF Publish
<1>15. CASE ReaderStep
  BY <1>13, <1>15 DEF ReaderStep
<1>16. CASE ServerStep
  BY <1>13, <1>16, SessionMoves DEF ServerStep, Accept, AddSession, Connect, Leave, SessionMove, SharedByAll
<1>17. ASSUME NEW w \in Workers, WorkerStep(w)
       PROVE  OwnersAgree'
  <2>1. UNCHANGED phase /\ UNCHANGED lifeVars
    BY <1>17 DEF WorkerStep, ReceiveEnds, MakeEvent, MakeImage, MakeUnit, WriteHeader, WritePayload,
                 WriteDone, PublishEvent, SetFrame, PublishUnit
  <2>2. /\ worker' \in [Workers -> {"off", "idle", "header", "payload", "ended"}]
        /\ \A x \in Workers : worker'[x] = worker[x] \/ (worker[x] \notin {"off", "ended"})
    BY <1>1, <1>2, <1>17 DEF WorkerStep, ReceiveEnds, MakeEvent, MakeImage, MakeUnit, WriteHeader,
                     WritePayload, WriteDone, Receives
  <2> QED
    BY <1>1, <1>2, <2>1, <2>2
<1> QED
  BY <1>3, <1>4, <1>5, <1>6, <1>7, <1>8, <1>9, <1>10, <1>11, <1>12, <1>14, <1>15, <1>16, <1>17
     DEF Next, SinkStep, DownStep

LEMMA LocksStep ==
  ASSUME Inv, Next
  PROVE  WriterLocks' /\ ReaderFollows'
<1>1. /\ WriterLocks /\ ReaderFollows
      /\ worker \in [Workers -> {"off", "idle", "header", "payload", "ended"}]
      /\ memory \in [lock : Nat, sequence : Values, payload : Values]
      /\ reader \in [at : {"idle", "sequence", "payload", "check", "valid"}, lock : Nat,
                     sequence : Values, payload : Values]
  BY DEF Inv, SinkTypes
<1>2. memory.lock \in Nat /\ reader.lock \in Nat
  BY <1>1
<1> USE DEF flowVars, lifeVars, sinkVars
<1>3. CASE UNCHANGED <<memory, reader>> /\ worker'["memory"] = worker["memory"]
  BY <1>1, <1>3 DEF WriterLocks, ReaderFollows, ReadersSeeWholePackets
<1>4. CASE /\ UNCHANGED <<memory, reader>>
           /\ worker["memory"] \notin {"header", "payload"} /\ worker'["memory"] \notin {"header", "payload"}
  BY <1>1, <1>4 DEF WriterLocks, ReaderFollows, ReadersSeeWholePackets
<1>5. CASE StartNetwork
  <2>1. UNCHANGED <<memory, reader>> /\ worker'["memory"] = worker["memory"]
    BY <1>1, <1>5 DEF StartNetwork, StartTransports, Network, Workers
  <2> QED
    BY <1>3, <2>1
<1>6. CASE StartThreads
  <2>1. worker["memory"] = "off"
    BY <1>6 DEF StartThreads, Inv, OwnersAgree
  <2> QED
    BY <1>1, <1>4, <1>6, <2>1 DEF StartThreads, Workers
<1>7. CASE Start \/ StoreConfig \/ StopNetwork \/ Stopped \/ Destroy \/ DownStep
           \/ Configure \/ Stop \/ Publish \/ ServerStep
  BY <1>3, <1>7 DEF Start, StoreConfig, StopNetwork, Stopped, Destroy, DownStep,
                    NetworkDown, Configure, Stop, Publish, ServerStep
<1>8. CASE ReaderStep
  <2>1. UNCHANGED <<worker, memory>>
    BY <1>8 DEF ReaderStep
  <2>2. WriterLocks'
    BY <1>1, <2>1 DEF WriterLocks
  <2>3. memory.lock % 2 = 0 => memory.payload = memory.sequence
    BY <1>1, <1>2 DEF WriterLocks
  <2>4. CASE /\ memory.lock % 2 = 0
             /\ reader' = [at |-> "sequence", lock |-> memory.lock, sequence |-> 0, payload |-> 0]
    BY <1>2, <2>1, <2>2, <2>4 DEF ReaderFollows, ReadersSeeWholePackets
  <2>5. CASE reader' = [reader EXCEPT !.at = "payload", !.sequence = memory.sequence]
    BY <1>1, <1>2, <2>1, <2>2, <2>5 DEF ReaderFollows, ReadersSeeWholePackets
  <2>6. CASE /\ reader.at = "payload"
             /\ reader' = [reader EXCEPT !.at = "check", !.payload = memory.payload]
    BY <1>1, <1>2, <2>1, <2>2, <2>6 DEF ReaderFollows, ReadersSeeWholePackets
  <2>7. CASE /\ reader.at = "check"
             /\ reader' = [reader EXCEPT !.at = IF memory.lock = reader.lock THEN "valid" ELSE "idle"]
    BY <1>1, <1>2, <2>1, <2>2, <2>3, <2>7 DEF ReaderFollows, ReadersSeeWholePackets
  <2> QED
    BY <1>8, <2>4, <2>5, <2>6, <2>7 DEF ReaderStep
<1>9. ASSUME NEW w \in Workers, WorkerStep(w)
      PROVE  WriterLocks' /\ ReaderFollows'
  <2>1. CASE ReceiveEnds(w)
    BY <1>1, <1>3, <1>4, <2>1 DEF ReceiveEnds, Workers
  <2>2. CASE MakeEvent \/ MakeImage \/ MakeUnit
    BY <1>3, <2>2 DEF MakeEvent, MakeImage, MakeUnit
  <2>3. CASE WriteHeader
    <3>1. CASE "memory" \in config
      <4>1. /\ worker["memory"] = "idle" /\ worker'["memory"] = "header" /\ UNCHANGED reader
            /\ memory'.lock = memory.lock + 1
        BY <1>1, <2>3, <3>1 DEF WriteHeader, Receives, Workers
      <4>2. memory.lock % 2 # 1 /\ (memory.lock + 1) % 2 = 1
        BY <1>1, <1>2, <4>1 DEF WriterLocks
      <4>3. WriterLocks'
        BY <4>1, <4>2 DEF WriterLocks
      <4>4. reader.lock <= memory'.lock /\ reader.lock # memory'.lock
        BY <1>1, <1>2, <4>1 DEF ReaderFollows
      <4> QED
        BY <1>1, <4>1, <4>3, <4>4 DEF ReaderFollows, ReadersSeeWholePackets
    <3>2. CASE "memory" \notin config
      BY <1>3, <2>3, <3>2 DEF WriteHeader
    <3> QED
      BY <3>1, <3>2
  <2>4. CASE WritePayload
    <3>1. /\ worker["memory"] = "header" /\ worker'["memory"] = "payload" /\ UNCHANGED reader
          /\ memory'.lock = memory.lock /\ memory'.payload = memory.sequence
          /\ memory'.sequence = memory.sequence
      BY <1>1, <2>4 DEF WritePayload, Workers
    <3>2. memory.lock % 2 = 1
      BY <1>1, <3>1 DEF WriterLocks
    <3>3. WriterLocks'
      BY <3>1, <3>2 DEF WriterLocks
    <3>4. reader.lock # memory.lock
      BY <1>1, <3>2 DEF ReaderFollows
    <3> QED
      BY <1>1, <3>1, <3>3, <3>4 DEF ReaderFollows, ReadersSeeWholePackets
  <2>5. CASE WriteDone
    <3>1. /\ worker["memory"] = "payload" /\ worker'["memory"] = "idle" /\ UNCHANGED reader
          /\ memory'.lock = memory.lock + 1 /\ memory'.payload = memory.payload
          /\ memory'.sequence = memory.sequence
      BY <1>1, <2>5 DEF WriteDone, Workers
    <3>2. memory.lock % 2 = 1 /\ (memory.lock + 1) % 2 # 1
      BY <1>1, <1>2, <3>1 DEF WriterLocks
    <3>3. WriterLocks'
      BY <1>1, <3>1, <3>2 DEF WriterLocks
    <3>4. reader.lock <= memory'.lock /\ reader.lock # memory'.lock
      BY <1>1, <1>2, <3>1 DEF ReaderFollows
    <3> QED
      BY <1>1, <3>1, <3>3, <3>4 DEF ReaderFollows, ReadersSeeWholePackets
  <2> QED
    BY <1>9, <2>1, <2>2, <2>3, <2>4, <2>5 DEF WorkerStep
<1> QED
  BY <1>5, <1>6, <1>7, <1>8, <1>9 DEF Next, SinkStep

-----------------------------------------------------------------------------
(* The theorems.                                                             *)

LEMMA InvHoldsAtFirst ==
  ASSUME Init
  PROVE  Inv
<1> USE DEF Init, ServerInit, Fresh
<1>1. 0 \in Values /\ MaxPackets \in Nat /\ QueueCapacity \in Nat /\ RingLimit \in Nat /\ PendingLimit \in Nat
  BY SinkLimits, PreviewLimits DEF Values
<1>2. <<>> \in Seq(Units) /\ <<>> \in Seq(Values) /\ Len(<<>>) = 0
  OBVIOUS
<1>3. client \in [Clients -> {"away", "active", "silent", "gone"}] /\ config \in Settings
  BY SinkScenarios
<1>4. ServerTypes
  BY <1>1, <1>2, <1>3 DEF ServerTypes, SessionStates, NewStream
<1>5. SinkTypes
  <2>1. queue \in [Workers -> Seq(Values)] /\ \A w \in Workers : Len(queue[w]) <= QueueCapacity
    BY <1>1, <1>2
  <2> QED
    BY <1>1, <1>3, <2>1 DEF SinkTypes
<1>6. KindsAreKnown
  BY DEF KindsAreKnown, Served
<1>7. BuffersFit
  BY <1>1, NoContent DEF BuffersFit
<1>8. PlacesAreCounted
  <2>1. \A k \in Kinds : Serving(k) = {}
    BY DEF Serving, Served
  <2>2. count = [k \in Kinds |-> Cardinality(Serving(k))]
    BY <2>1, FS_EmptySet
  <2>3. count["stream"] <= 1
    BY DEF Kinds
  <2> QED
    BY <2>2, <2>3 DEF PlacesAreCounted
<1>9. UnitsAreCounted
  <2>1. Len(queue["stream"]) = 0 /\ Cardinality(published) = 0
    BY FS_EmptySet DEF Workers
  <2> QED
    BY <2>1 DEF UnitsAreCounted
<1>10. ServerEnds
  BY PreviewClients DEF ServerEnds
<1>11. OwnersAgree
  BY DEF OwnersAgree, Workers, Network
<1>12. WriterLocks /\ ReaderFollows
  BY DEF WriterLocks, ReaderFollows, ReadersSeeWholePackets, Workers
<1>13. EventsInOrder
  BY DEF EventsInOrder, Served
<1> QED
  BY <1>4, <1>5, <1>6, <1>7, <1>8, <1>9, <1>10, <1>11, <1>12, <1>13 DEF Inv

LEMMA InvIsKept ==
  ASSUME Inv, [Next]_vars
  PROVE  Inv'
<1>1. CASE Next
  <2>1. ServerMove
    BY <1>1, ServerMoves DEF Inv
  <2> QED
    BY <1>1, <2>1, ServerTypesStep, SinkTypesStep, KindsStep, BuffersStep, PlacesStep, UnitsStep,
       EndsStep, OwnersStep, LocksStep, EventsStep DEF Inv
<1>2. CASE UNCHANGED vars
  <2> USE <1>2 DEF vars, serverVars, sinkVars, Inv
  <2>1. ServerTypes' /\ SinkTypes' /\ KindsAreKnown' /\ UnitsAreCounted'
    BY DEF ServerTypes, SinkTypes, KindsAreKnown, UnitsAreCounted
  <2>2. BuffersFit'
    BY DEF BuffersFit, Content
  <2>3. PlacesAreCounted'
    BY PlacesStay
  <2>4. ServerEnds' /\ OwnersAgree'
    BY DEF ServerEnds, OwnersAgree
  <2>5. WriterLocks' /\ ReaderFollows'
    BY DEF WriterLocks, ReaderFollows, ReadersSeeWholePackets
  <2>6. EventsInOrder'
    BY DEF EventsInOrder, Behind
  <2> QED
    BY <2>1, <2>2, <2>3, <2>4, <2>5, <2>6
<1> QED
  BY <1>1, <1>2

\* The inductive invariant: the types, the places and buffers of the sessions, who
\* owns the server during start(), configure_preview() and stop(), the sequence lock,
\* and the order of the events.
THEOREM Kept == Spec => []Inv
<1>1. Init => Inv
  BY InvHoldsAtFirst
<1>2. Inv /\ [Next]_vars => Inv'
  BY InvIsKept
<1> QED
  BY <1>1, <1>2, PTL DEF Spec

LEMMA UnitsInRange ==
  ASSUME NEW s \in Seq(Units), NEW t \in Seq(Units)
  PROVE  Range(s \o t) \subseteq Units
<1>1. s \o t \in Seq(Units)
  OBVIOUS
<1>2. PICK r \in Seq(Units) : r = s \o t
  BY <1>1
<1>3. Range(r) \subseteq Units
  BY DEF Range
<1> QED
  BY <1>2, <1>3

LEMMA InvIsSound ==
  ASSUME Inv
  PROVE  SinkIsSound
<1>1. TypeOK
  <2>1. \A c \in Clients : /\ kind[c] \in Kinds \cup {"none"}
                           /\ Len(out[c]) <= PendingLimit /\ Len(got[c]) <= 1
    BY DEF Inv, ServerTypes, BuffersFit
  <2>2. ASSUME NEW c \in Clients, kind[c] = "stream"
        PROVE  Range(out[c] \o got[c]) \subseteq Units
    <3>1. out[c] \in Seq(Units) /\ got[c] \in Seq(Units)
      BY <2>2 DEF Inv, BuffersFit, Content
    <3> QED
      BY <3>1, UnitsInRange
  <2>3. \A k \in Kinds : count[k] = Cardinality({c \in Clients : kind[c] = k /\ session[c] \in Served})
    BY DEF Inv, PlacesAreCounted, Serving
  <2>4. count["stream"] <= 1
    BY DEF Inv, PlacesAreCounted
  <2>5. Len(ring) <= RingLimit /\ Range(ring) \subseteq Units
    BY DEF Inv, ServerTypes, Range
  <2>6. \A w \in Workers : Len(queue[w]) <= QueueCapacity /\ Range(queue[w]) \subseteq Values
    <3>1. \A w \in Workers : queue[w] \in Seq(Values) /\ Len(queue[w]) <= QueueCapacity
      BY DEF Inv, SinkTypes
    <3> QED
      BY <3>1 DEF Range
  <2>7. /\ phase \in {"none", "open", "closing", "accept", "sessions"}
        /\ acceptor \in {"off", "listening", "ended"} \cup Clients
        /\ joining \subseteq Clients
        /\ client \in [Clients -> {"away", "active", "silent", "gone"}]
        /\ session \in [Clients -> SessionStates]
    BY DEF Inv, ServerTypes
  <2>8. /\ config \in Settings /\ running \in BOOLEAN /\ force \in BOOLEAN
        /\ holder \in {"nobody", "sink", "control", "stopper"}
    BY DEF Inv, SinkTypes
  <2> QED
    BY <2>1, <2>2, <2>3, <2>4, <2>5, <2>6, <2>7, <2>8 DEF TypeOK
<1>2. ASSUME phase = "none"
      PROVE  /\ acceptor \in {"off", "ended"}
             /\ \A c \in Clients : session[c] \notin Live
  BY <1>2 DEF Inv, ServerEnds, Live, Served
<1>3. ASSUME stopper = "destroyed"
      PROVE  /\ holder = "nobody" /\ phase = "none"
             /\ \A w \in Workers : worker[w] \in {"off", "ended"}
  BY <1>3 DEF Inv, OwnersAgree, Workers, Network
<1> QED
  BY <1>1, <1>2, <1>3 DEF SinkIsSound, NothingOutlivesTheSink

\* Whatever the clients do, queues, ring and what a client is sent at a time stay within
\* their limits, one client at most has the H.264 stream, and no thread outlives the
\* server or the sink, even when a reconfiguration meets stop().
THEOREM NothingOutlives == Spec => []SinkIsSound
BY Kept, InvIsSound, PTL

\* The sequence lock of the shared memory works: what a reader takes for a packet is one.
THEOREM WholePackets == Spec => []ReadersSeeWholePackets
<1>1. Inv => ReadersSeeWholePackets
  BY DEF Inv, ReaderFollows
<1> QED
  BY <1>1, Kept, PTL

LEMMA GotMoves ==
  ASSUME Inv, ServerMove, NEW c \in Clients, kind[c] = "events", got[c] # <<>>, got'[c] # got[c]
  PROVE  got'[c][1].sequence > got[c][1].sequence
<1>1. DOMAIN got = Clients
  BY DEF Inv, BuffersFit
<1>2. PICK d \in Clients : Writes(d)
  BY DEF ServerMove, serverVars, Open, ClearRunning, CloseAcceptor, TakeSessions, JoinSessions,
         Accept, AddSession, Hands, Connect, Leave, SessionMove, Refuses, Begins, Greets, Streams,
         Turns, Works, Closes
<1>3. c = d
  BY <1>1, <1>2 DEF Writes
<1>4. session[c] \in Served /\ out[c] # <<>> /\ got'[c] = <<Head(out[c])>>
  BY <1>1, <1>2, <1>3 DEF Writes, Served
<1>5. got[c][1].sequence < out[c][1].sequence
  BY <1>4 DEF Inv, EventsInOrder
<1>6. Head(out[c]) = out[c][1] /\ out[c][1].sequence \in Int /\ got[c][1].sequence \in Int
  BY <1>4, EventBuffers
<1> QED
  BY <1>4, <1>5, <1>6

\* Although packets may be published out of order, and servers come and go, the pose
\* events that a client gets never go back.
THEOREM EventsGoForward == Spec => EventsNeverGoBack
<1>1. ASSUME Inv, Next
      PROVE  \A c \in Clients : kind[c] = "events" /\ got[c] # <<>> /\ got'[c] # got[c]
                                  => got'[c][1].sequence > got[c][1].sequence
  <2>1. ServerMove
    BY <1>1, ServerMoves DEF Inv
  <2> QED
    BY <1>1, <2>1, GotMoves
<1>2. Inv /\ [Next]_vars => [\A c \in Clients : kind[c] = "events" /\ got[c] # <<>> /\ got'[c] # got[c]
                                => got'[c][1].sequence > got[c][1].sequence]_vars
  BY <1>1
<1> QED
  BY <1>2, Kept, PTL DEF EventsNeverGoBack, Spec

=============================================================================
