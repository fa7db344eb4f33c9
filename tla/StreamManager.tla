--------------------------- MODULE StreamManager ---------------------------
(***************************************************************************)
(* The life of the engine's streams: StreamManager.Start / startStream /    *)
(* Stop (internal/manager/manager.go), the health registry they keep        *)
(* (internal/manager/health.go), the shared Kafka writer they close         *)
(* (internal/output/kafka.go) and the signal path of cmd/engine/main.go.    *)
(*                                                                          *)
(* Threads: main (mpc), the goroutine that runs Start (spc, next), and one  *)
(* goroutine per launched stream (wpc), which runs startStream and, inside  *)
(* it, DecoderWorker.Run.  The frames themselves are in DecoderWorker.tla;  *)
(* here a running worker checks its context, waits for a frame, writes it.  *)
(***************************************************************************)
EXTENDS Integers, FiniteSets

CONSTANTS
    N,                    \* number of entries of cfg.Streams when Start ranges over it
    StreamID,             \* the ids a configuration can give
    IdOf,                 \* IdOf[l]: cfg.Streams[l-1].ID (config.Load accepts duplicates)
    OwnTopic,             \* entries with an OutputTopic of their own, not the prefix
    MaxConcurrentStarts   \* capacity of the semaphore channel, unvalidated

Launch   == 1..N
NoWorker == 0

ASSUME ConfigAssumption ==
    /\ N \in Nat
    /\ MaxConcurrentStarts \in Nat
    /\ IdOf \in [Launch -> StreamID]
    /\ OwnTopic \subseteq Launch

VARIABLES
    mpc,        \* main: serving, cancelled, stopping, closing, stopped, exited
    spc,        \* Start: select, returned
    next,       \* the entry Start's range loop is at
    sem,        \* len(sem)
    wpc,        \* wpc[l]: where the goroutine of entry l is
    workers,    \* StreamManager.workers: id -> the entry whose worker it holds
    health,     \* keys of HealthMonitor.streams
    cancelled,  \* entries whose worker context is cancelled
    toStop,     \* ids Stop's range loop has still to visit
    writer,     \* the shared writer: open, closing, closed
    late,       \* history: entries whose worker was registered after Stop returned
    panicked    \* a send on the closed producer channel killed the process

mainVars  == <<mpc, toStop, writer>>
startVars == <<spc, next>>
vars == <<mpc, spc, next, sem, wpc, workers, health, cancelled, toStop, writer, late, panicked>>

\* Stop holds m.mu from its Lock to its deferred Unlock.
MuHeldByStop == mpc \in {"stopping", "closing"}
CtxDone      == mpc # "serving"
Ended        == panicked \/ mpc = "exited"

PC       == {"idle", "build", "register", "health", "loop", "read", "write", "sending", "returned"}
InFlight == {l \in Launch : wpc[l] \notin {"idle", "returned"}}
Running  == {l \in Launch : wpc[l] \in {"health", "loop", "read", "write", "sending"}}
Shared   == Launch \ OwnTopic
Registered == {id \in StreamID : workers[id] # NoWorker}

TypeOK ==
    /\ mpc \in {"serving", "cancelled", "stopping", "closing", "stopped", "exited"}
    /\ spc \in {"select", "returned"}
    /\ next \in 1..(N + 1)
    /\ sem \in 0..MaxConcurrentStarts
    /\ wpc \in [Launch -> PC]
    /\ workers \in [StreamID -> Launch \cup {NoWorker}]
    /\ health \subseteq StreamID
    /\ cancelled \subseteq Launch
    /\ toStop \subseteq StreamID
    /\ writer \in {"open", "closing", "closed"}
    /\ late \subseteq Launch
    /\ panicked \in BOOLEAN

Init ==
    /\ mpc = "serving" /\ spc = "select" /\ next = 1 /\ sem = 0
    /\ wpc = [l \in Launch |-> "idle"]
    /\ workers = [id \in StreamID |-> NoWorker]
    /\ health = {} /\ cancelled = {} /\ toStop = {}
    /\ writer = "open" /\ late = {} /\ panicked = FALSE

Goto(l, label) == wpc' = [wpc EXCEPT ![l] = label]

\* The goroutine of l ends: the deferred <-sem gives its slot back.
Release(l) == Goto(l, "returned") /\ sem' = sem - 1
-----------------------------------------------------------------------------
(* Start: for each entry, select between ctx.Done() and sem <- struct{}{}.  *)

\* Fault variant: a plain send on the semaphore, without the ctx.Done() case.
StartNeverCancelled == FALSE /\ UNCHANGED vars

StartCancelled ==
    /\ spc = "select" /\ next <= N /\ CtxDone
    /\ spc' = "returned"
    /\ UNCHANGED <<mainVars, next, sem, wpc, workers, health, cancelled, late, panicked>>

\* Fault variant: no semaphore.
LaunchStreamUnbounded ==
    /\ spc = "select" /\ next <= N
    /\ sem' = sem + 1 /\ next' = next + 1 /\ Goto(next, "build")
    /\ UNCHANGED <<mainVars, spc, workers, health, cancelled, late, panicked>>

LaunchStream ==
    /\ spc = "select" /\ next <= N /\ sem < MaxConcurrentStarts
    /\ sem' = sem + 1 /\ next' = next + 1 /\ Goto(next, "build")
    /\ UNCHANGED <<mainVars, spc, workers, health, cancelled, late, panicked>>

StartReturns ==
    /\ spc = "select" /\ next > N
    /\ spc' = "returned"
    /\ UNCHANGED <<mainVars, next, sem, wpc, workers, health, cancelled, late, panicked>>
-----------------------------------------------------------------------------
(* startStream, in the goroutine of entry l.                                *)

BuildStream(l) ==
    /\ wpc[l] = "build"
    /\ Goto(l, "register")
    /\ UNCHANGED <<mainVars, startVars, sem, workers, health, cancelled, late, panicked>>

\* Fault variant: the early return forgets the slot.
BuildFailsKeepsSlot(l) ==
    /\ wpc[l] = "build" /\ l \in OwnTopic
    /\ Goto(l, "returned")
    /\ UNCHANGED <<mainVars, startVars, sem, workers, health, cancelled, late, panicked>>

\* The stream's own NewKafkaWriter fails (brokers unreachable): early return.
BuildFails(l) ==
    /\ wpc[l] = "build" /\ l \in OwnTopic
    /\ Release(l)
    /\ UNCHANGED <<mainVars, startVars, workers, health, cancelled, late, panicked>>

\* Fault variant: the map is written without taking m.mu.
RegisterWorkerUnlocked(l) ==
    /\ wpc[l] = "register"
    /\ workers' = [workers EXCEPT ![IdOf[l]] = l]
    /\ late' = IF mpc = "stopped" THEN late \cup {l} ELSE late
    /\ Goto(l, "health")
    /\ UNCHANGED <<mainVars, startVars, sem, health, cancelled, panicked>>

\* m.workers[cfg.ID] = worker under m.mu; an entry with the same id is replaced.
RegisterWorker(l) ==
    /\ wpc[l] = "register" /\ ~MuHeldByStop
    /\ workers' = [workers EXCEPT ![IdOf[l]] = l]
    /\ late' = IF mpc = "stopped" THEN late \cup {l} ELSE late
    /\ Goto(l, "health")
    /\ UNCHANGED <<mainVars, startVars, sem, health, cancelled, panicked>>

\* m.health.Register has a lock of its own: Stop's Unregister may come first.
RegisterHealth(l) ==
    /\ wpc[l] = "health"
    /\ health' = health \cup {IdOf[l]}
    /\ Goto(l, "loop")
    /\ UNCHANGED <<mainVars, startVars, sem, workers, cancelled, late, panicked>>
-----------------------------------------------------------------------------
(* DecoderWorker.Run as its manager sees it.                                *)

\* A ctx.Done() check of Run or readLoop fires: Run returns nil, defer w.cancel().
RunReturns(l) ==
    /\ wpc[l] = "loop" /\ l \in cancelled
    /\ Release(l)
    /\ cancelled' = cancelled \cup {l}
    /\ UNCHANGED <<mainVars, startVars, workers, health, late, panicked>>

\* Fault variant: the context is not checked before the next read.
AwaitFrameUnchecked(l) ==
    /\ wpc[l] = "loop"
    /\ Goto(l, "read")
    /\ UNCHANGED <<mainVars, startVars, sem, workers, health, cancelled, late, panicked>>

\* The checks pass: the worker blocks in the spawn, the backoff or ReadFrame.
AwaitFrame(l) ==
    /\ wpc[l] = "loop" /\ l \notin cancelled
    /\ Goto(l, "read")
    /\ UNCHANGED <<mainVars, startVars, sem, workers, health, cancelled, late, panicked>>

\* cmd.StdoutPipe fails: Run returns the error.
RunFails(l) ==
    /\ wpc[l] = "read"
    /\ Release(l)
    /\ cancelled' = cancelled \cup {l}
    /\ UNCHANGED <<mainVars, startVars, workers, health, late, panicked>>

\* The frame was dropped by a filter, or ffmpeg died and was waited for.
NoFrame(l) ==
    /\ wpc[l] = "read"
    /\ Goto(l, "loop")
    /\ UNCHANGED <<mainVars, startVars, sem, workers, health, cancelled, late, panicked>>

FrameReady(l) ==
    /\ wpc[l] = "read"
    /\ Goto(l, "write")
    /\ UNCHANGED <<mainVars, startVars, sem, workers, health, cancelled, late, panicked>>

\* KafkaWriter.Write hands the message to the producer.
BeginWrite(l) ==
    /\ wpc[l] = "write" /\ (l \in OwnTopic \/ writer = "open")
    /\ Goto(l, "sending")
    /\ UNCHANGED <<mainVars, startVars, sem, workers, health, cancelled, late, panicked>>

\* The producer is shutting down: SendMessage returns an error, which is logged.
WriteRefused(l) ==
    /\ wpc[l] = "write" /\ l \in Shared /\ writer = "closing"
    /\ Goto(l, "loop")
    /\ UNCHANGED <<mainVars, startVars, sem, workers, health, cancelled, late, panicked>>

\* The producer's input channel is closed: the send panics and the process dies.
WritePanics(l) ==
    /\ wpc[l] = "write" /\ l \in Shared /\ writer = "closed"
    /\ panicked' = TRUE
    /\ UNCHANGED <<mainVars, startVars, sem, wpc, workers, health, cancelled, late>>

\* Acknowledged or failed for good; an error is only logged.
FinishWrite(l) ==
    /\ wpc[l] = "sending"
    /\ Goto(l, "loop")
    /\ UNCHANGED <<mainVars, startVars, sem, workers, health, cancelled, late, panicked>>
-----------------------------------------------------------------------------
(* main after the signal, and Stop.                                         *)

\* <-sigCh, then cancel().
Signal ==
    /\ mpc = "serving"
    /\ mpc' = "cancelled"
    /\ UNCHANGED <<startVars, sem, wpc, workers, health, cancelled, toStop, writer, late, panicked>>

\* Fault variant: Stop ranges over the health registry, which lags behind the map.
StopLockByHealth ==
    /\ mpc = "cancelled"
    /\ mpc' = "stopping" /\ toStop' = health
    /\ UNCHANGED <<startVars, sem, wpc, workers, health, cancelled, writer, late, panicked>>

StopLock ==
    /\ mpc = "cancelled"
    /\ mpc' = "stopping" /\ toStop' = Registered
    /\ UNCHANGED <<startVars, sem, wpc, workers, health, cancelled, writer, late, panicked>>

\* One iteration of the range over the map (any order): worker.Stop(), health.Unregister(id).
StopWorker(id) ==
    /\ mpc = "stopping" /\ id \in toStop
    /\ toStop' = toStop \ {id}
    /\ cancelled' = cancelled \cup {workers[id]}
    /\ health' = health \ {id}
    /\ UNCHANGED <<mpc, startVars, sem, wpc, workers, writer, late, panicked>>

\* Fault variant: the writer is closed before the workers are told to stop.
BeginCloseEarly ==
    /\ mpc = "stopping"
    /\ mpc' = "closing" /\ writer' = "closing"
    /\ UNCHANGED <<startVars, sem, wpc, workers, health, cancelled, toStop, late, panicked>>

BeginClose ==
    /\ mpc = "stopping" /\ toStop = {}
    /\ mpc' = "closing" /\ writer' = "closing"
    /\ UNCHANGED <<startVars, sem, wpc, workers, health, cancelled, toStop, late, panicked>>

\* Fault variant: Stop waits, still holding m.mu, for every goroutine to end.
FinishCloseAfterAll ==
    /\ mpc = "closing" /\ InFlight = {}
    /\ mpc' = "stopped" /\ writer' = "closed"
    /\ UNCHANGED <<startVars, sem, wpc, workers, health, cancelled, toStop, late, panicked>>

\* Close returns once nothing is in flight; Stop returns and unlocks.
FinishClose ==
    /\ mpc = "closing" /\ \A l \in Shared : wpc[l] # "sending"
    /\ mpc' = "stopped" /\ writer' = "closed"
    /\ UNCHANGED <<startVars, sem, wpc, workers, health, cancelled, toStop, late, panicked>>

\* server.Shutdown returns (10 s at most) and main returns: every goroutine dies.
Exit ==
    /\ mpc = "stopped"
    /\ mpc' = "exited"
    /\ UNCHANGED <<startVars, sem, wpc, workers, health, cancelled, toStop, writer, late, panicked>>
-----------------------------------------------------------------------------
StartStep == StartCancelled \/ LaunchStream \/ StartReturns

LeaveRead(l) == RunFails(l) \/ NoFrame(l) \/ FrameReady(l)

StreamStep(l) ==
    \/ BuildStream(l) \/ BuildFails(l) \/ RegisterWorker(l) \/ RegisterHealth(l)
    \/ RunReturns(l) \/ AwaitFrame(l) \/ LeaveRead(l)
    \/ BeginWrite(l) \/ WriteRefused(l) \/ WritePanics(l) \/ FinishWrite(l)

StopStep == StopLock \/ (\E id \in StreamID : StopWorker(id)) \/ BeginClose \/ FinishClose

Step ==
    /\ ~Ended
    /\ \/ StartStep
       \/ \E l \in Launch : StreamStep(l)
       \/ Signal \/ StopStep \/ Exit

\* The process is gone; the stutter keeps its end from being taken for a deadlock.
Terminated == Ended /\ UNCHANGED vars

Next == Step \/ Terminated

(***************************************************************************)
(* Runnable goroutines run.  A worker blocked in ReadFrame on a silent      *)
(* camera may block for ever, but not once its context is cancelled: the    *)
(* context kills ffmpeg, which ends the pipe.  Signals need not come, and   *)
(* nothing relies on main's exit to end a goroutine.                        *)
(***************************************************************************)
Fairness ==
    /\ WF_vars(~Ended /\ StartStep)
    /\ WF_vars(~Ended /\ StopStep)
    /\ \A l \in Launch :
        /\ WF_vars(~Ended /\ wpc[l] # "read" /\ StreamStep(l))
        /\ WF_vars(~Ended /\ l \in cancelled /\ LeaveRead(l))

Spec     == Init /\ [][Next]_vars
FairSpec == Spec /\ Fairness
-----------------------------------------------------------------------------
(* Safety.                                                                  *)

\* The semaphore counts exactly the goroutines launched and not yet ended,
\* whichever of startStream's and Run's returns they take (manager.go:54), so at
\* most MaxConcurrentStarts streams are ever in flight.
SlotsAreAccounted == sem = Cardinality(InFlight)

\* While Stop holds m.mu, every worker whose id it has visited is cancelled and
\* stays the one in the map: no registration slips in behind the range loop.
StopPassIsComplete ==
    MuHeldByStop => \A id \in Registered \ toStop : workers[id] \in cancelled

\* A worker that Stop left running was registered only after Stop had returned
\* (manager.go:96 waiting for main.go:119) or had lost its place in the map to
\* the worker of another entry with its id (manager.go:97): there is no third way.
\* When Stop returns nothing is late, so no registration after it can serve as the
\* explanation.
UnstoppedIsExplained ==
    mpc \in {"stopped", "exited"} =>
        \A l \in Running \ (cancelled \cup late) :
            workers[IdOf[l]] \in Launch \ {l}

\* Stop closes the shared writer only when every worker in the map has been
\* told to stop (manager.go:122-130), and never reopens it.
CloseComesLast ==
    [][/\ writer = "open" /\ writer' # "open" => \A id \in Registered : workers[id] \in cancelled
       /\ writer = "closed" => writer' = "closed"]_vars
-----------------------------------------------------------------------------
(* Liveness, under FairSpec.                                                *)

\* After the signal Start's loop returns even when no slot is ever given back:
\* the select has the ctx.Done() case (manager.go:47-51).
StartReturnsAfterCancel == CtxDone ~> (spc = "returned" \/ Ended)

\* After the signal Stop gets m.mu, visits every worker, closes the writer and
\* returns, whatever the workers are doing (manager.go:118-131).
StopReturns == CtxDone ~> (mpc \in {"stopped", "exited"} \/ panicked)

\* A worker whose context is cancelled leaves Run, wherever it was (worker.go:56-60,
\* 91-95), unless the process ends first.
CancelledReturns == \A l \in Launch : l \in cancelled ~> (wpc[l] = "returned" \/ Ended)

\* What keeps an entry from being launched, while the engine serves, is nothing but
\* MaxConcurrentStarts streams that stay in flight for ever: a stream that ends, by
\* whichever return, makes room for the next (manager.go:46-59, 63-115).
OnlyStreamsHoldUpStart ==
    \A l \in Launch :
        \/ <>(wpc[l] # "idle" \/ CtxDone)
        \/ <>[](Cardinality(InFlight) = MaxConcurrentStarts)
-----------------------------------------------------------------------------
(* What the design document says and the code does not do.                  *)

\* Design 2026-07-10, line 85: on SIGTERM the engine signals the streams, waits for
\* them to finish and exits.  Stop waits for none and does not know those that have
\* yet to register: such a stream registers once Stop has closed the shared producer,
\* is never cancelled, and its first frame is sent on the closed channel, so that the
\* process dies.  A stopped worker that is past its context check can do the same.
ShutdownDoesNotPanic == ~panicked

\* Design 2026-07-10, line 83: max_concurrent_starts bounds how many streams start
\* at the same time.  The slot is kept for the worker's whole life, so the entries
\* beyond the first MaxConcurrentStarts never start.
EveryStreamStarts == \A l \in Launch : <>(wpc[l] # "idle" \/ CtxDone)
=============================================================================
