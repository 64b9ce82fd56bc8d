----------------------------- MODULE LiveCapture -----------------------------
(***************************************************************************)
(* One live camera: iris::CaptureStage (stages/capture/CaptureStage.cpp)   *)
(* and the MediaFoundationSource it owns.                                  *)
(*                                                                         *)
(* The reader thread opens the device, takes the samples the Media         *)
(* Foundation callback has queued, and reconnects after an error.  The     *)
(* decode thread turns samples into frames.  The runner (the pipeline      *)
(* thread) starts the stage, watches healthy and stops and joins it; the   *)
(* control thread may stop production at the same time.                    *)
(*                                                                         *)
(* open() works on source_ and reader_ without the mutex that close()      *)
(* takes, so its calls into Media Foundation are steps of their own, and   *)
(* a call through a reader that close() has released ends the process      *)
(* (crashed).  Media Foundation is external: a request is answered by at   *)
(* most one callback, which may be late.                                   *)
(***************************************************************************)
EXTENDS Naturals, FiniteSets

CONSTANTS Configurations,   \* the configurations explored, each with its bounds
          SampleCapacity,   \* sample_queue_capacity of CaptureConfig
          MaxConnections    \* bound: times a device is opened in any of them

\* reconnect and overflow are those of CaptureConfig; connections bounds the
\* times the device is opened, deliveries the samples it delivers.
ASSUME CaptureAssumption ==
    /\ MaxConnections \in Nat \ {0}
    /\ SampleCapacity \in Nat \ {0}
    /\ Configurations \subseteq [reconnect : BOOLEAN,
                                  overflow : {"Block", "DropOldest", "DropNewest"},
                                  connections : 1 .. MaxConnections,
                                  deliveries : Nat]

Connections == 1 .. MaxConnections
Stoppers == {"control", "runner"}
Threads == Stoppers \cup {"reader", "decoder"}
SourceQueueLimit == 2

VARIABLES
    config,         \* the configuration of the camera, const
    cpc,            \* where each thread is
    \* MediaFoundationSource
    connection,     \* connections opened so far
    source, reader, \* source_, reader_: a connection, 0 for null
    closing,        \* closing_
    asyncError,     \* async_error_
    queue,          \* the number of samples in queue_
    callbacks,      \* the callbacks MF owes or runs, by request slot
    taken,          \* source moved out of source_ by each thread in close()
    down,           \* history: connections whose source was shut down
    delivered,      \* samples delivered so far
    crashed,        \* a null reader was dereferenced
    \* CaptureStage
    samples, samplesClosed, \* samples: how many, and closed_
    opened,         \* the promise of the reader thread
    stopReader, stopDecode, \* stop_requested of the two threads
    extentKnown,    \* decoder_extent is set
    healthy, error, \* healthy, error
    commanded,      \* production_stop_requested_ of the pipeline
    failedLate      \* history: a thread failed after start() had returned

mf == <<connection, source, reader, closing, asyncError, queue, callbacks, taken, down,
        delivered, crashed>>
stage == <<samples, samplesClosed, opened, stopReader, stopDecode, extentKnown, healthy,
           error, commanded, failedLate>>
captureVars == <<config, cpc, mf, stage>>

Quiet == [at |-> "none", of |-> 0]

CInit ==
    /\ config \in Configurations
    /\ cpc = [t \in Threads |->
               CASE t = "runner" -> "await" [] t = "reader" -> "close" [] OTHER -> "none"]
    /\ connection = 0 /\ source = 0 /\ reader = 0
    /\ closing = FALSE /\ asyncError = FALSE /\ queue = 0
    /\ callbacks = [k \in Connections |-> Quiet]
    /\ taken = [t \in Threads |-> 0]
    /\ down = {} /\ delivered = 0 /\ crashed = FALSE
    /\ samples = 0 /\ samplesClosed = FALSE
    /\ opened = "no"
    /\ stopReader = FALSE /\ stopDecode = FALSE
    /\ extentKnown = FALSE /\ healthy = FALSE /\ error = FALSE
    /\ commanded = FALSE /\ failedLate = FALSE

Goto(t, l) == cpc' = [cpc EXCEPT ![t] = l]

-----------------------------------------------------------------------------
(* MediaFoundationSource: the callback *)

Inside == {k \in Connections : callbacks[k].at \in {"inside", "again"}}
callbacks_inflight == Cardinality(Inside)

\* Media Foundation calls OnReadSample.
Dispatch(k) ==
    /\ callbacks[k].at = "requested"
    /\ callbacks' = [callbacks EXCEPT ![k].at = "dispatched"]
    /\ UNCHANGED <<connection, source, reader, closing, asyncError, queue, taken, down,
                   delivered, crashed>>

\* OnReadSample up to the increment of callbacks_inflight_.
Enter(k) ==
    /\ callbacks[k].at = "dispatched"
    /\ callbacks' = [callbacks EXCEPT ![k] =
           IF closing THEN Quiet ELSE [@ EXCEPT !.at = "inside"]]
    /\ UNCHANGED <<connection, source, reader, closing, asyncError, queue, taken, down,
                   delivered, crashed>>

\* on_sample: an error, nothing to keep, or a sample.
OnSample(k) ==
    /\ callbacks[k].at = "inside"
    /\ callbacks' = [callbacks EXCEPT ![k].at = "again"]
    /\ \/ asyncError' = TRUE /\ UNCHANGED <<queue, delivered>>
       \/ UNCHANGED <<asyncError, queue, delivered>>
       \/ /\ delivered < config.deliveries
          /\ delivered' = delivered + 1
          /\ queue' = IF closing \/ queue = SourceQueueLimit THEN queue ELSE queue + 1
          /\ UNCHANGED asyncError
    /\ UNCHANGED <<connection, source, reader, closing, taken, down, crashed>>

\* The next sample is requested from the reader of the moment, and the
\* callback leaves.
RequestNext(k) ==
    /\ callbacks[k].at = "again"
    /\ callbacks' = [callbacks EXCEPT ![k] =
           IF closing \/ reader = 0 THEN Quiet ELSE [at |-> "requested", of |-> reader]]
    /\ UNCHANGED <<connection, source, reader, closing, asyncError, queue, taken, down,
                   delivered, crashed>>

CallbackStep(k) ==
    /\ ~crashed
    /\ Dispatch(k) \/ Enter(k) \/ OnSample(k) \/ RequestNext(k)
    /\ UNCHANGED <<cpc, stage>>

-----------------------------------------------------------------------------
(* MediaFoundationSource::close(), in whichever thread calls it *)

AfterClose(t) ==
    IF t \in Stoppers THEN "closeSamples" ELSE IF connection = 0 THEN "create" ELSE "backoff"

BeginClose(t) ==
    /\ cpc[t] = "close"
    /\ closing' = TRUE
    /\ Goto(t, "quiesce")
    /\ UNCHANGED <<connection, source, reader, asyncError, queue, callbacks, taken, down,
                   delivered, crashed>>

\* Mutant: the interfaces are released while a callback is using them.
ReleaseAtOnce(t) ==
    /\ cpc[t] = "quiesce"
    /\ reader' = 0
    /\ source' = 0 /\ taken' = [taken EXCEPT ![t] = source]
    /\ Goto(t, "shutdown")
    /\ UNCHANGED <<connection, closing, asyncError, queue, callbacks, down, delivered, crashed>>

\* Waits until no callback is inside, then releases the interfaces.
Release(t) ==
    /\ cpc[t] = "quiesce" /\ callbacks_inflight = 0
    /\ reader' = 0
    /\ source' = 0 /\ taken' = [taken EXCEPT ![t] = source]
    /\ Goto(t, "shutdown")
    /\ UNCHANGED <<connection, closing, asyncError, queue, callbacks, down, delivered, crashed>>

\* source->Shutdown(); a request nobody has answered is answered no more.
ShutdownSource(t) ==
    /\ cpc[t] = "shutdown"
    /\ down' = down \cup ({taken[t]} \ {0})
    /\ taken' = [taken EXCEPT ![t] = 0]
    /\ callbacks' = [k \in Connections |->
           IF callbacks[k].at = "requested" /\ callbacks[k].of = taken[t]
           THEN Quiet ELSE callbacks[k]]
    /\ Goto(t, AfterClose(t))
    /\ UNCHANGED <<connection, source, reader, closing, asyncError, queue, delivered, crashed>>

Close(t) == (BeginClose(t) \/ Release(t) \/ ShutdownSource(t)) /\ UNCHANGED stage

-----------------------------------------------------------------------------
(* MediaFoundationSource::open(), in the reader thread.  A call that fails *)
(* throws.  (Its close() comes after the one of the reconnection and has   *)
(* nothing left to do then.)                                               *)

Opens(l) == cpc["reader"] = l

Throws == Goto("reader", "openFailed")

CreateSource ==
    /\ Opens("create")
    /\ \/ /\ connection < config.connections
          /\ connection' = connection + 1
          /\ source' = connection + 1
          /\ Goto("reader", "createReader")
       \/ Throws /\ UNCHANGED <<connection, source>>
    /\ UNCHANGED <<reader, closing, asyncError, queue, callbacks, taken, down, delivered, crashed>>

CreateReader ==
    /\ Opens("createReader")
    /\ \/ /\ source # 0
          /\ reader' = source
          /\ Goto("reader", "negotiate")
       \/ Throws /\ UNCHANGED reader
    /\ UNCHANGED <<connection, source, closing, asyncError, queue, callbacks, taken, down,
                   delivered, crashed>>

\* The native media types are enumerated and one is selected through reader_.
Negotiate ==
    /\ Opens("negotiate")
    /\ \/ Goto("reader", "accept")
       \/ Throws
    /\ crashed' = (reader = 0)
    /\ UNCHANGED <<connection, source, reader, closing, asyncError, queue, callbacks, taken,
                   down, delivered>>

AcceptSamples ==
    /\ Opens("accept")
    /\ queue' = 0 /\ asyncError' = FALSE /\ closing' = FALSE
    /\ Goto("reader", "request")
    /\ UNCHANGED <<connection, source, reader, callbacks, taken, down, delivered, crashed>>

\* The first ReadSample.
RequestFirst ==
    /\ Opens("request")
    /\ crashed' = (reader = 0)
    /\ \/ /\ callbacks' = IF reader = 0 THEN callbacks
                          ELSE [callbacks EXCEPT ![connection] =
                                  [at |-> "requested", of |-> reader]]
          /\ Goto("reader", "opened")
       \/ Throws /\ UNCHANGED callbacks
    /\ UNCHANGED <<connection, source, reader, closing, asyncError, queue, taken, down, delivered>>

Open ==
    /\ CreateSource \/ CreateReader \/ Negotiate \/ AcceptSamples \/ RequestFirst
    /\ UNCHANGED stage

-----------------------------------------------------------------------------
(* CaptureStage: the reader thread *)

Started == cpc["runner"] \notin {"await", "makeDecoder", "setHealthy", "spawnDecode"}

\* Mutant: the failure is kept for wait(), the stage stays healthy.
FailQuietly ==
    /\ error' = TRUE /\ samplesClosed' = TRUE
    /\ failedLate' = (failedLate \/ Started)
    /\ UNCHANGED healthy

fail ==
    /\ error' = TRUE /\ healthy' = FALSE /\ samplesClosed' = TRUE
    /\ failedLate' = (failedLate \/ Started)

\* open() has returned: to start() the first time, else to the reconnection,
\* which compares the extent with the decoder's.
OpenReturns ==
    /\ cpc["reader"] = "opened"
    /\ \/ /\ opened = "no"
          /\ opened' = "yes"
          /\ Goto("reader", "loop")
       \/ /\ opened = "yes" /\ extentKnown
          /\ Goto("reader", "loop")
          /\ UNCHANGED opened
       \/ /\ opened = "yes"
          /\ Goto("reader", "fail")
          /\ UNCHANGED opened
    /\ UNCHANGED <<mf, samples, samplesClosed, stopReader, stopDecode, extentKnown, healthy,
                   error, commanded, failedLate>>

OpenThrows ==
    /\ cpc["reader"] = "openFailed"
    /\ opened' = IF opened = "no" THEN "failed" ELSE opened
    /\ Goto("reader", "fail")
    /\ UNCHANGED <<mf, samples, samplesClosed, stopReader, stopDecode, extentKnown, healthy,
                   error, commanded, failedLate>>

ReaderLoop ==
    /\ cpc["reader"] = "loop"
    /\ Goto("reader", IF stopReader THEN "end" ELSE "read")
    /\ UNCHANGED <<mf, stage>>

\* source.read(): a sample, nothing because the source is closing, or an error.
Read ==
    /\ cpc["reader"] = "read"
    /\ closing \/ asyncError \/ queue > 0
    /\ IF asyncError THEN Goto("reader", "readFailed") /\ UNCHANGED queue
       ELSE IF queue = 0 THEN Goto("reader", "loop") /\ UNCHANGED queue
       ELSE Goto("reader", "send") /\ queue' = queue - 1
    /\ UNCHANGED <<connection, source, reader, closing, asyncError, callbacks, taken,
                   down, delivered, crashed, stage>>

\* samples->send(), which waits for room when the overflow policy is Block.
SendSample ==
    /\ cpc["reader"] = "send"
    /\ \/ /\ samplesClosed
          /\ Goto("reader", "end")
          /\ UNCHANGED samples
       \/ /\ ~samplesClosed
          /\ config.overflow = "Block" => samples < SampleCapacity
          /\ samples' = IF samples < SampleCapacity THEN samples + 1 ELSE samples
          /\ Goto("reader", "loop")
    /\ UNCHANGED <<mf, samplesClosed, opened, stopReader, stopDecode, extentKnown, healthy,
                   error, commanded, failedLate>>

ReadFails ==
    /\ cpc["reader"] = "readFailed"
    /\ Goto("reader", IF stopReader THEN "end" ELSE IF config.reconnect THEN "close" ELSE "fail")
    /\ UNCHANGED <<mf, stage>>

\* After 100 ms the device is opened again, unless a stop was requested.
BackOff ==
    /\ cpc["reader"] = "backoff"
    /\ Goto("reader", IF stopReader THEN "end" ELSE "create")
    /\ UNCHANGED <<mf, stage>>

ReaderFails ==
    /\ cpc["reader"] = "fail"
    /\ fail
    /\ Goto("reader", "end")
    /\ UNCHANGED <<mf, samples, opened, stopReader, stopDecode, extentKnown, commanded>>

ReaderEnds ==
    /\ cpc["reader"] = "end"
    /\ samplesClosed' = TRUE
    /\ Goto("reader", "done")
    /\ UNCHANGED <<mf, samples, opened, stopReader, stopDecode, extentKnown, healthy, error,
                   commanded, failedLate>>

ReaderStep ==
    /\ ~crashed
    /\ \/ Close("reader") \/ Open
       \/ OpenReturns \/ OpenThrows \/ ReaderLoop \/ Read \/ SendSample \/ ReadFails
       \/ BackOff \/ ReaderFails \/ ReaderEnds

-----------------------------------------------------------------------------
(* CaptureStage: the decode thread *)

DecoderLoop ==
    /\ cpc["decoder"] = "loop"
    /\ Goto("decoder", IF stopDecode THEN "done" ELSE "receive")
    /\ UNCHANGED <<mf, stage>>

ReceiveSample ==
    /\ cpc["decoder"] = "receive"
    /\ \/ /\ samples > 0
          /\ samples' = samples - 1
          /\ Goto("decoder", "decode")
       \/ /\ samples = 0 /\ samplesClosed
          /\ Goto("decoder", "done")
          /\ UNCHANGED samples
    /\ UNCHANGED <<mf, samplesClosed, opened, stopReader, stopDecode, extentKnown, healthy,
                   error, commanded, failedLate>>

\* decode() gives a frame, gives none,
\* or throws.  The output is a drop-oldest channel: send() returns, and a
\* closed one ends the loop.
Decode ==
    /\ cpc["decoder"] = "decode"
    /\ \E l \in {"loop", "fail", "done"} : Goto("decoder", l)
    /\ UNCHANGED <<mf, stage>>

DecoderFails ==
    /\ cpc["decoder"] = "fail"
    /\ fail
    /\ Goto("decoder", "done")
    /\ UNCHANGED <<mf, samples, opened, stopReader, stopDecode, extentKnown, commanded>>

DecoderStep ==
    /\ ~crashed
    /\ DecoderLoop \/ ReceiveSample \/ Decode \/ DecoderFails

-----------------------------------------------------------------------------
(* CaptureStage::start() and, if it throws, Pipeline's cleanup *)

AwaitOpened ==
    /\ cpc["runner"] = "await" /\ opened # "no"
    /\ Goto("runner", IF opened = "yes" THEN "makeDecoder" ELSE "requestStop")
    /\ UNCHANGED <<mf, stage>>

MakeDecoder ==
    /\ cpc["runner"] = "makeDecoder"
    /\ \/ extentKnown' = TRUE /\ Goto("runner", "setHealthy")
       \/ Goto("runner", "requestStop") /\ UNCHANGED extentKnown
    /\ UNCHANGED <<mf, samples, samplesClosed, opened, stopReader, stopDecode, healthy, error,
                   commanded, failedLate>>

SetHealthy ==
    /\ cpc["runner"] = "setHealthy"
    /\ healthy' = TRUE
    /\ Goto("runner", "spawnDecode")
    /\ UNCHANGED <<mf, samples, samplesClosed, opened, stopReader, stopDecode, extentKnown,
                   error, commanded, failedLate>>

SpawnDecode ==
    /\ cpc["runner"] = "spawnDecode"
    /\ cpc' = [cpc EXCEPT !["runner"] = "watch", !["decoder"] = "loop"]
    /\ UNCHANGED <<mf, stage>>

\* Pipeline::wait(): until the stage is no longer healthy or is told to stop.
Watch ==
    /\ cpc["runner"] = "watch"
    /\ ~healthy \/ commanded
    /\ Goto("runner", "requestStop")
    /\ UNCHANGED <<mf, stage>>

-----------------------------------------------------------------------------
(* stop_producing(), in the runner and in the control thread, and wait() *)

\* The control thread stops a pipeline that is running.
CommandStop ==
    /\ ~crashed
    /\ cpc["control"] = "none" /\ Started
    /\ commanded' = TRUE
    /\ Goto("control", "requestStop")
    /\ UNCHANGED <<mf, samples, samplesClosed, opened, stopReader, stopDecode, extentKnown,
                   healthy, error, failedLate>>

\* Mutant: the source is left open.
RequestStopOnly(t) ==
    /\ cpc[t] = "requestStop"
    /\ stopReader' = TRUE
    /\ Goto(t, "closeSamples")
    /\ UNCHANGED <<mf, samples, samplesClosed, opened, stopDecode, extentKnown, healthy, error,
                   commanded, failedLate>>

RequestStop(t) ==
    /\ cpc[t] = "requestStop"
    /\ stopReader' = TRUE
    /\ Goto(t, "close")
    /\ UNCHANGED <<mf, samples, samplesClosed, opened, stopDecode, extentKnown, healthy, error,
                   commanded, failedLate>>

CloseSamples(t) ==
    /\ cpc[t] = "closeSamples"
    /\ samplesClosed' = TRUE
    /\ Goto(t, "stopDecode")
    /\ UNCHANGED <<mf, samples, opened, stopReader, stopDecode, extentKnown, healthy, error,
                   commanded, failedLate>>

StopDecode(t) ==
    /\ cpc[t] = "stopDecode"
    /\ stopDecode' = TRUE
    /\ Goto(t, IF t = "runner" THEN "join" ELSE "done")
    /\ UNCHANGED <<mf, samples, samplesClosed, opened, stopReader, extentKnown, healthy, error,
                   commanded, failedLate>>

\* wait(): the reader, then the decode thread if there is one.
JoinThreads ==
    /\ cpc["runner"] = "join"
    /\ cpc["reader"] = "done" /\ cpc["decoder"] \in {"none", "done"}
    /\ healthy' = FALSE
    /\ Goto("runner", "done")
    /\ UNCHANGED <<mf, samples, samplesClosed, opened, stopReader, stopDecode, extentKnown,
                   error, commanded, failedLate>>

StopStep(t) ==
    /\ ~crashed
    /\ RequestStop(t) \/ Close(t) \/ CloseSamples(t) \/ StopDecode(t)

RunnerStep ==
    /\ ~crashed
    /\ \/ AwaitOpened \/ MakeDecoder \/ SetHealthy \/ SpawnDecode \/ Watch
       \/ StopStep("runner") \/ JoinThreads

-----------------------------------------------------------------------------

CNext ==
    /\ UNCHANGED config
    /\ \/ \E k \in Connections : CallbackStep(k)
       \/ ReaderStep \/ DecoderStep \/ RunnerStep
       \/ CommandStop \/ StopStep("control")

CSpec == CInit /\ [][CNext]_captureVars

\* Threads are scheduled and a callback that is running leaves; the device
\* owes no samples and nobody has to stop the stage.
Fairness ==
    /\ WF_captureVars(ReaderStep /\ UNCHANGED config)
    /\ WF_captureVars(DecoderStep /\ UNCHANGED config)
    /\ WF_captureVars(RunnerStep /\ UNCHANGED config)
    /\ WF_captureVars(StopStep("control") /\ UNCHANGED config)
    /\ \A k \in Connections : WF_captureVars(CallbackStep(k) /\ ~Dispatch(k) /\ UNCHANGED config)

-----------------------------------------------------------------------------
(* Properties *)

\* Every variable has its type.
CTypeOK ==
    /\ cpc["reader"] \in {"close", "quiesce", "shutdown", "backoff", "create", "createReader",
                         "negotiate", "accept", "request", "opened", "openFailed", "loop",
                         "read", "send", "readFailed", "fail", "end", "done"}
    /\ cpc["decoder"] \in {"none", "loop", "receive", "decode", "fail", "done"}
    /\ {connection, source, reader} \subseteq 0 .. MaxConnections
    /\ queue \in 0 .. SourceQueueLimit
    /\ callbacks \in [Connections -> [at : {"none", "requested", "dispatched", "inside", "again"},
                                      of : 0 .. MaxConnections]]
    /\ taken \in [Threads -> 0 .. MaxConnections]
    /\ down \subseteq Connections
    /\ delivered \in 0 .. config.deliveries
    /\ samples \in 0 .. SampleCapacity
    /\ opened \in {"no", "yes", "failed"}
    /\ {closing, asyncError, crashed, samplesClosed, stopReader, stopDecode, extentKnown,
        healthy, error, commanded, failedLate} \subseteq BOOLEAN

\* The comment of callbacks_inflight_: the COM interfaces are kept alive until
\* every callback has left the object.  (With reconnection a call to open()
\* that is under way may publish a reader behind close().)
InterfacesOutliveCallbacks ==
    ~config.reconnect => \A k \in Inside : callbacks[k].of \notin down

\* When the stage has been stopped and joined, by one thread or by two at the
\* same time, the device is closed, no callback is in the object and none will
\* get in; and no step used a reader that was gone.  (Without reconnection,
\* for the same reason.)
QuietAtEnd ==
    ~config.reconnect =>
        /\ ~crashed
        /\ cpc["runner"] = "done" => reader = 0 /\ source = 0 /\ closing /\ Inside = {}

\* The interfaces of Media Foundation are used only while they exist, and none
\* is left when the stage has stopped.
InterfacesAreSafe == CTypeOK /\ InterfacesOutliveCallbacks /\ QuietAtEnd

\* An open() that was under way has cleared closing_ while close() waits for
\* the callbacks: those of the new connection now come in, and close() has to
\* find a moment between two of them.  Or the reader it was using is gone.
ReopenedBehindStop == crashed \/ (cpc["runner"] = "quiesce" /\ ~closing)

\* stop_producing() wakes both threads wherever they wait, so wait() gets
\* through its joins, during a reconnection and with a full channel as well.
StopReturns ==
    (cpc["runner"] = "requestStop") ~> (cpc["runner"] = "done" \/ ReopenedBehindStop)

\* A camera that fails after start() has returned ends the run: the runner
\* sees that the stage is not healthy.  (One that fails before start() sets
\* healthy is reported healthy from then on.)
LateFailureEndsRun == failedLate ~> (cpc["runner"] = "done" \/ ReopenedBehindStop)

\* Whoever stops the stage gets it back, and a camera that fails ends the run.
RunEnds == StopReturns /\ LateFailureEndsRun
=============================================================================
