--------------------------- MODULE DecoderWorker ---------------------------
(***************************************************************************)
(* One stream's worker: DecoderWorker.Run, readLoop and processFrame        *)
(* (internal/decoder/worker.go) with the ffmpeg child process it spawns     *)
(* under its context, the pipe between them, the backoff counter            *)
(* (reconnect.go) and the synchronous output writer.                        *)
(*                                                                          *)
(* Actors: the worker goroutine (pc), the child process (ffmpeg, pipe),     *)
(* os/exec's goroutine that kills the child when the context is done, and   *)
(* the manager that calls Stop.                                             *)
(***************************************************************************)
EXTENDS Integers, Sequences

CONSTANTS
    MaxFrames,         \* bound: frames the camera ever delivers
    MaxAttempt,        \* bound: where the attempt counter stops counting
    PipeCap            \* whole frames the OS pipe holds

ASSUME BoundAssumption ==
    MaxFrames \in Nat /\ MaxAttempt \in Nat \ {0} /\ PipeCap \in Nat \ {0}

VARIABLES
    pc,                \* where the goroutine is; see PC
    ctxDone,           \* w.ctx is cancelled
    ffmpeg,            \* the child: none, running, exited (not waited for yet)
    pipe,              \* whole frames in the pipe
    attempt,           \* backoff.attempt
    seqNum,            \* w.seqNum
    published          \* sequence numbers the output writer took, in order

procVars == <<ffmpeg, pipe>>
vars == <<pc, ctxDone, ffmpeg, pipe, attempt, seqNum, published>>

PC == {"loop", "spawn", "fork", "backoff", "check", "read", "process", "write", "wait", "returned"}

TypeOK ==
    /\ pc \in PC
    /\ ctxDone \in BOOLEAN
    /\ ffmpeg \in {"none", "running", "exited"}
    /\ pipe \in 0..PipeCap
    /\ attempt \in 0..MaxAttempt
    /\ seqNum \in 0..MaxFrames
    /\ published \in Seq(1..MaxFrames)

Init ==
    /\ pc = "loop" /\ ctxDone = FALSE
    /\ ffmpeg = "none" /\ pipe = 0 /\ attempt = 0
    /\ seqNum = 0 /\ published = <<>>

Goto(from, to) == pc = from /\ pc' = to
-----------------------------------------------------------------------------
(* Run.                                                                     *)

\* The select at the head of the loop: ctx.Done(), so Run returns nil.
RunReturns ==
    /\ ctxDone /\ Goto("loop", "returned")
    /\ UNCHANGED <<ctxDone, procVars, attempt, seqNum, published>>

RunContinues ==
    /\ ~ctxDone /\ Goto("loop", "spawn")
    /\ UNCHANGED <<ctxDone, procVars, attempt, seqNum, published>>

\* cmd.StdoutPipe fails: Run returns the error; defer w.cancel().
PipeFails ==
    /\ Goto("spawn", "returned") /\ ctxDone' = TRUE
    /\ UNCHANGED <<procVars, attempt, seqNum, published>>

\* cmd.Start looks at the context, and only later forks.
StartChecks ==
    /\ ~ctxDone /\ Goto("spawn", "fork")
    /\ UNCHANGED <<ctxDone, procVars, attempt, seqNum, published>>

\* cmd.Start fails: no ffmpeg binary or the context is done, or else the fork fails.
\* backoff.Sleep counts and sleeps.
StartFails ==
    /\ Goto("spawn", "backoff") \/ Goto("fork", "backoff")
    /\ attempt' = IF attempt < MaxAttempt THEN attempt + 1 ELSE attempt
    /\ UNCHANGED <<ctxDone, procVars, seqNum, published>>

\* The sleep ends; the context does not shorten it.
BackoffEnds ==
    /\ Goto("backoff", "loop")
    /\ UNCHANGED <<ctxDone, procVars, attempt, seqNum, published>>

\* Fault variant: each ffmpeg numbers its frames from one.
StartResetsSeqNum ==
    /\ Goto("fork", "check")
    /\ ffmpeg' = "running" /\ attempt' = 0 /\ seqNum' = 0
    /\ UNCHANGED <<ctxDone, pipe, published>>

\* The child is forked, also when Stop came since the check: then the context kills it.
StartSucceeds ==
    /\ Goto("fork", "check")
    /\ ffmpeg' = "running" /\ attempt' = 0
    /\ UNCHANGED <<ctxDone, pipe, seqNum, published>>

\* cmd.Wait returns once the child has exited, and closes our end of the pipe.
WaitReturns ==
    /\ ffmpeg = "exited" /\ Goto("wait", "loop")
    /\ ffmpeg' = "none" /\ pipe' = 0
    /\ UNCHANGED <<ctxDone, attempt, seqNum, published>>
-----------------------------------------------------------------------------
(* readLoop and processFrame.                                               *)

CheckStops ==
    /\ ctxDone /\ Goto("check", "wait")
    /\ UNCHANGED <<ctxDone, procVars, attempt, seqNum, published>>

\* Fault variant: readLoop only checks the context when it starts.
CheckAlwaysPasses ==
    /\ Goto("check", "read")
    /\ UNCHANGED <<ctxDone, procVars, attempt, seqNum, published>>

CheckPasses ==
    /\ ~ctxDone /\ Goto("check", "read")
    /\ UNCHANGED <<ctxDone, procVars, attempt, seqNum, published>>

\* Fault variant: the frame is not numbered.
ReadFrameUnnumbered ==
    /\ pipe > 0 /\ Goto("read", "process")
    /\ pipe' = pipe - 1
    /\ UNCHANGED <<ctxDone, ffmpeg, attempt, seqNum, published>>

\* io.ReadFull gets a whole frame, also one the child wrote before it died;
\* processFrame numbers it.
ReadFrame ==
    /\ pipe > 0 /\ Goto("read", "process")
    /\ pipe' = pipe - 1 /\ seqNum' = seqNum + 1
    /\ UNCHANGED <<ctxDone, ffmpeg, attempt, published>>

\* Fault variant: a read error goes straight round Run's loop, past cmd.Wait.
ReadFailsSkipsWait ==
    /\ ffmpeg = "exited" /\ pipe = 0 /\ Goto("read", "loop")
    /\ UNCHANGED <<ctxDone, procVars, attempt, seqNum, published>>

\* Fault variant: a read error costs one frame only, readLoop goes on reading.
ReadFailsContinues ==
    /\ ffmpeg = "exited" /\ pipe = 0 /\ Goto("read", "check")
    /\ UNCHANGED <<ctxDone, procVars, attempt, seqNum, published>>

\* EOF, or a last frame cut short: readLoop returns the error.
ReadFails ==
    /\ ffmpeg = "exited" /\ pipe = 0 /\ Goto("read", "wait")
    /\ UNCHANGED <<ctxDone, procVars, attempt, seqNum, published>>

\* A filter drops the frame, or it cannot be serialized; errors are only logged.
FrameDropped ==
    /\ Goto("process", "check")
    /\ UNCHANGED <<ctxDone, procVars, attempt, seqNum, published>>

FramePasses ==
    /\ Goto("process", "write")
    /\ UNCHANGED <<ctxDone, procVars, attempt, seqNum, published>>

\* The writer took the frame (it may still report an error when the broker's
\* answer is lost).
WriteSucceeds ==
    /\ Goto("write", "check")
    /\ published' = Append(published, seqNum)
    /\ UNCHANGED <<ctxDone, procVars, attempt, seqNum>>

WriteFails ==
    /\ Goto("write", "check")
    /\ UNCHANGED <<ctxDone, procVars, attempt, seqNum, published>>
-----------------------------------------------------------------------------
(* The child, its killer, and the manager.                                  *)

\* A full pipe blocks the child: no frame is dropped here.
FfmpegWrites ==
    /\ ffmpeg = "running" /\ pipe < PipeCap /\ seqNum + pipe < MaxFrames
    /\ pipe' = pipe + 1
    /\ UNCHANGED <<pc, ctxDone, ffmpeg, attempt, seqNum, published>>

\* The camera disconnects, ffmpeg crashes or gives up.
FfmpegExits ==
    /\ ffmpeg = "running" /\ ffmpeg' = "exited"
    /\ UNCHANGED <<pc, ctxDone, pipe, attempt, seqNum, published>>

\* exec.CommandContext kills the child when the context is done.
ContextKills ==
    /\ ctxDone /\ ffmpeg = "running" /\ ffmpeg' = "exited"
    /\ UNCHANGED <<pc, ctxDone, pipe, attempt, seqNum, published>>

\* DecoderWorker.Stop, called by StreamManager.Stop.
Stop ==
    /\ ~ctxDone /\ ctxDone' = TRUE
    /\ UNCHANGED <<pc, procVars, attempt, seqNum, published>>
-----------------------------------------------------------------------------
RunStep  == RunReturns \/ RunContinues \/ PipeFails \/ StartChecks \/ StartFails
            \/ BackoffEnds \/ StartSucceeds \/ WaitReturns
LoopStep == CheckStops \/ CheckPasses \/ ReadFrame \/ ReadFails
            \/ FrameDropped \/ FramePasses \/ WriteSucceeds \/ WriteFails
Environment == FfmpegWrites \/ FfmpegExits \/ ContextKills \/ Stop

Terminated == pc = "returned" /\ UNCHANGED vars

Next == RunStep \/ LoopStep \/ Environment \/ Terminated

(***************************************************************************)
(* The goroutine runs when it can, the writer answers (the producer's       *)
(* retries and timeouts are bounded) and a cancelled child is killed.  A    *)
(* camera need not deliver, a healthy ffmpeg need not exit, Stop need not   *)
(* be called.                                                               *)
(***************************************************************************)
Spec     == Init /\ [][Next]_vars
FairSpec == Spec /\ WF_vars(RunStep \/ LoopStep) /\ WF_vars(ContextKills)
-----------------------------------------------------------------------------
(* Properties.                                                              *)

\* Past the context check a cancelled worker may still publish the frame at hand.
phaseBar ==
    CASE pc = "returned"                              -> "finished"
      [] pc # "returned" /\ ~ctxDone                  -> "live"
      [] ctxDone /\ pc \in {"read", "process", "write"} -> "draining"
      [] ctxDone /\ pc \in {"loop", "spawn", "fork", "backoff", "check", "wait"} -> "drained"

Abstract == INSTANCE FrameStream WITH
                SeqNum <- 1..MaxFrames, log <- published, phase <- phaseBar

\* The worker keeps the promises of a FrameStream: numbers grow across
\* reconnections (worker.go:109) and at most one frame follows Stop (worker.go:90-102),
\* none if Stop comes while Run is starting a child, which may still be forked
\* (worker.go:70-79).
ImplementsFrameStream == Abstract!Spec

\* ... and a stopped worker finishes, whatever it is blocked in (worker.go:55-86).
ImplementsFairFrameStream == Abstract!FairSpec

\* When Run is at its head, in its backoff, or returned, no child is left running
\* or unreaped, not even one that was forked after Stop: every successful Start is
\* followed by a Wait (worker.go:70-85).
NoOrphanFfmpeg ==
    pc \in {"loop", "spawn", "fork", "backoff", "returned"} => ffmpeg = "none" /\ pipe = 0

\* A dead ffmpeg is replaced: the worker comes round to spawn again unless it is
\* stopped meanwhile (worker.go:79-86).
DeadFfmpegIsReplaced == ffmpeg = "exited" ~> (pc = "spawn" \/ ctxDone)
-----------------------------------------------------------------------------
(* What the design document says and the code does not do.                  *)

\* Design 2026-07-10, lines 216-217: after EOF or a crash, back off, then
\* reconnect.  Run goes round at once; only a failed cmd.Start backs off.
BacksOffAfterExit == [][pc = "wait" /\ pc' # "wait" /\ ~ctxDone => pc' = "backoff"]_vars
=============================================================================
