---------------------------- MODULE CaptureClock ----------------------------
(***************************************************************************)
(* The clock of a live camera (src/stages/capture/timing/CaptureClock.cpp) *)
(* between the two threads of its CaptureStage: the reader thread stamps a *)
(* sample with its arrival and reconnects, the decode thread fits the      *)
(* arrivals against the time stamps of the stream and dates the frame.     *)
(*                                                                         *)
(* Times are small integers and the fit is exact; the code computes it in  *)
(* double.  A stream counts from its opening, and a sample arrives within  *)
(* Jitter of its capture.                                                  *)
(***************************************************************************)
EXTENDS Integers, Sequences, Functions

CONSTANTS Window,           \* window_
          QueueCapacity,    \* sample_queue_capacity, drop oldest
          Jitter,           \* bound: largest delay of a sample
          Openings,         \* bound: steady_clock at the opening of each connection
          Ticks             \* bound: samples of a connection

ASSUME ClockAssumption ==
    /\ Window \in Nat \ {0} /\ QueueCapacity \in Nat \ {0}
    /\ Openings \in Seq(Nat) /\ Openings # <<>>
    /\ Jitter \in Nat /\ Ticks \in Nat

VARIABLES link,             \* the number of the connection the reader has
          ticks,            \* samples it has sent
          arrival,          \* host_arrival of the last of them
          waiting,          \* the sample channel
          resetAsked,       \* reset_clock_after_reconnect
          points,           \* points_; "of" and "estimate" are history
          lastEstimate,     \* last_estimate_, 0 for none
          stolen            \* history: a sample of an old connection took the request, and
                            \* no reset came with one of the present connection since

clockVars == <<link, ticks, arrival, waiting, resetAsked, points, lastEstimate, stolen>>

ClockInit ==
    /\ link = 1 /\ ticks = 0 /\ arrival = Openings[1]
    /\ waiting = <<>> /\ resetAsked = FALSE
    /\ points = <<>> /\ lastEstimate = 0 /\ stolen = FALSE

\* read() and the send to a channel that keeps the newest sample: the arrival
\* is a little after the capture, and never before the last one.
Arrive ==
    /\ ticks < Ticks
    /\ ticks' = ticks + 1
    /\ \E delay \in 0 .. Jitter, discontinuity \in BOOLEAN :
         /\ arrival' = Openings[link] + 2 * ticks' + delay
         /\ arrival' >= arrival
         /\ LET sample == [source |-> 2 * ticks', host |-> arrival', of |-> link,
                           discontinuity |-> discontinuity]
                queue == Append(waiting, sample)
            IN waiting' = IF Len(queue) > QueueCapacity THEN Tail(queue) ELSE queue
    /\ UNCHANGED <<link, resetAsked, points, lastEstimate, stolen>>

\* The reader has lost the camera and opened it again.
Reconnect ==
    /\ link < Len(Openings) /\ arrival <= Openings[link + 1]
    /\ link' = link + 1
    /\ ticks' = 0 /\ arrival' = Openings[link']
    /\ resetAsked' = TRUE
    /\ UNCHANGED <<waiting, points, lastEstimate, stolen>>

Sum(values) == SumFunction(values)

\* fit(): the least squares line through the points, at a time of the stream.
\* A single point leaves the slope 1 and the offset 0 of a reset.
Fit(ps, source) ==
    LET n  == Len(ps)
        ss == Sum([i \in 1 .. n |-> ps[i].source])
        hs == Sum([i \in 1 .. n |-> ps[i].host])
        variance   == Sum([i \in 1 .. n |-> (n * ps[i].source - ss) * (n * ps[i].source - ss)])
        covariance == Sum([i \in 1 .. n |-> (n * ps[i].source - ss) * (n * ps[i].host - hs)])
    IN IF n < 2 THEN source
       ELSE (hs * variance + covariance * (n * source - ss)) \div (n * variance)

\* Mutant: the fit alone dates the frame, which may be before the last one.
FitAlone(estimate, previous) == estimate

\* An estimate is later than the one before it, which a reset forgets.
NotBefore(estimate, previous) ==
    IF previous # 0 /\ estimate <= previous THEN previous + 1 ELSE estimate

LatestPoints(ps) == IF Len(ps) > Window THEN Tail(ps) ELSE ps

\* decode_loop takes a sample and observe() dates it.  The request of the
\* reader is consumed by whatever sample comes next, unless that one is
\* discontinuous by itself.
Observe ==
    /\ waiting # <<>>
    /\ LET sample == Head(waiting)
           asked  == ~sample.discontinuity /\ resetAsked
           reset  == \/ sample.discontinuity \/ asked
                     \/ points # <<>> /\ sample.source <= points[Len(points)].source
           kept   == IF reset THEN <<>> ELSE points
           dated  == [source |-> sample.source, host |-> sample.host]
           fitted == Fit(LatestPoints(Append(kept, dated)), sample.source)
           estimate == NotBefore(fitted, IF reset THEN 0 ELSE lastEstimate)
       IN /\ points' = LatestPoints(Append(kept, [source |-> sample.source, host |-> sample.host,
                                                  of |-> sample.of, estimate |-> estimate]))
          /\ lastEstimate' = estimate
          /\ resetAsked' = (resetAsked /\ sample.discontinuity)
          /\ stolen' = \/ sample.of # link /\ (asked \/ stolen)
                       \/ stolen /\ ~reset
    /\ waiting' = Tail(waiting)
    /\ UNCHANGED <<link, ticks, arrival>>

ClockNext == Arrive \/ Reconnect \/ Observe
ClockSpec == ClockInit /\ [][ClockNext]_clockVars

-----------------------------------------------------------------------------
\* Frames are dated in the time of the host, which the synchronizer compares
\* between cameras: the estimates of a fit grow, also when a sample of the old
\* connection has taken the request to reset.
EstimatesGrow ==
    \A i \in 1 .. Len(points) - 1 : points[i].estimate < points[i + 1].estimate

\* But for that case, which is the code's, a fit is one of samples of one
\* connection.
FitIsOfOneConnection ==
    ~stolen => \A i \in 1 .. Len(points) : points[i].of = points[1].of

\* From the second on the estimates are as near to the arrivals as the delays
\* allow; the first after a reset is the time stamp of the stream as it is.
NearTheArrivals ==
    ~stolen /\ Len(points) >= 2 =>
        LET error == lastEstimate - points[Len(points)].host
        IN error \in -2 * Jitter .. 2 * Jitter

EstimatesFollowTheHost == EstimatesGrow /\ FitIsOfOneConnection /\ NearTheArrivals
=============================================================================
