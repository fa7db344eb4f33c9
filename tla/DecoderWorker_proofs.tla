------------------------ MODULE DecoderWorker_proofs ------------------------
(***************************************************************************)
(* Proofs that the worker implements FrameStream and leaves no child        *)
(* process behind, for any number of frames, any pipe capacity and any      *)
(* number of failed starts.                                                 *)
(***************************************************************************)
EXTENDS DecoderWorker, TLAPS

\* A child exists exactly while Run is between Start and Wait.
ChildMatchesPc ==
    /\ ffmpeg = "none" <=> pc \in {"loop", "spawn", "fork", "backoff", "returned"}
    /\ ffmpeg = "none" => pipe = 0

\* Everything published was numbered before the frame at hand.
PublishedBelow ==
    /\ \A i \in 1..Len(published) : published[i] <= seqNum
    /\ pc \in {"process", "write"} =>
            seqNum > 0 /\ \A i \in 1..Len(published) : published[i] < seqNum

Numbered == seqNum + pipe <= MaxFrames

ReturnedIsStopped == pc = "returned" => ctxDone

IInv == TypeOK /\ ChildMatchesPc /\ PublishedBelow /\ Numbered /\ ReturnedIsStopped
-----------------------------------------------------------------------------
LEMMA InitIInv == Init => IInv
<1> SUFFICES ASSUME Init PROVE IInv
  OBVIOUS
<1>1. pipe \in 0..PipeCap /\ attempt \in 0..MaxAttempt /\ seqNum \in 0..MaxFrames
  BY BoundAssumption DEF Init
<1>2. published \in Seq(1..MaxFrames) /\ Len(published) = 0
  BY DEF Init
<1>3. TypeOK
  BY <1>1, <1>2 DEF Init, TypeOK, PC
<1>4. Numbered
  BY BoundAssumption DEF Init, Numbered
<1> QED
  BY <1>2, <1>3, <1>4 DEF Init, IInv, ChildMatchesPc, PublishedBelow, ReturnedIsStopped

\* Taking a frame out of the pipe: its number is above all the others.
LEMMA ReadFrameKeepsIInv == IInv /\ ReadFrame => IInv'
<1> SUFFICES ASSUME IInv, ReadFrame PROVE IInv'
  OBVIOUS
<1>1. /\ pc' = "process" /\ pipe' = pipe - 1 /\ seqNum' = seqNum + 1 /\ pipe > 0
      /\ UNCHANGED <<ctxDone, ffmpeg, attempt, published>>
  BY DEF ReadFrame, Goto
<1>2. pipe \in Nat /\ seqNum \in Nat /\ seqNum + pipe <= MaxFrames
  BY BoundAssumption DEF IInv, TypeOK, Numbered
<1>3. TypeOK'
  BY <1>1, <1>2, BoundAssumption DEF IInv, TypeOK, PC
<1>4. PublishedBelow'
  <2>1. \A i \in 1..Len(published) : published[i] \in Int
    BY BoundAssumption DEF IInv, TypeOK
  <2> QED
    BY <1>1, <1>2, <2>1 DEF IInv, PublishedBelow
<1>5. Numbered'
  BY <1>1, <1>2, BoundAssumption DEF Numbered
<1>6. ChildMatchesPc' /\ ReturnedIsStopped'
  BY <1>1 DEF IInv, ChildMatchesPc, ReturnedIsStopped, ReadFrame, Goto
<1> QED
  BY <1>3, <1>4, <1>5, <1>6 DEF IInv

\* Publishing the frame at hand.
LEMMA WriteKeepsIInv == IInv /\ WriteSucceeds => IInv'
<1> SUFFICES ASSUME IInv, WriteSucceeds PROVE IInv'
  OBVIOUS
<1>1. /\ pc = "write" /\ pc' = "check" /\ published' = Append(published, seqNum)
      /\ UNCHANGED <<ctxDone, ffmpeg, pipe, attempt, seqNum>>
  BY DEF WriteSucceeds, Goto, procVars
<1>2. seqNum \in 1..MaxFrames /\ published \in Seq(1..MaxFrames)
  BY <1>1, BoundAssumption DEF IInv, TypeOK, PublishedBelow
<1>3. TypeOK'
  BY <1>1, <1>2 DEF IInv, TypeOK, PC
<1>4. PublishedBelow'
  <2>1. Len(published') = Len(published) + 1
    BY <1>1, <1>2
  <2>2. \A i \in 1..Len(published') :
            published'[i] = IF i <= Len(published) THEN published[i] ELSE seqNum
    BY <1>1, <1>2, <2>1
  <2> QED
    BY <1>1, <1>2, <2>1, <2>2 DEF IInv, PublishedBelow
<1>5. ChildMatchesPc' /\ Numbered' /\ ReturnedIsStopped'
  BY <1>1 DEF IInv, ChildMatchesPc, Numbered, ReturnedIsStopped
<1> QED
  BY <1>3, <1>4, <1>5 DEF IInv

LEMMA StepKeepsIInv == IInv /\ [Next]_vars => IInv'
<1> SUFFICES ASSUME IInv, [Next]_vars PROVE IInv'
  OBVIOUS
<1> USE BoundAssumption DEF IInv, TypeOK, PC, ChildMatchesPc, PublishedBelow, Numbered,
        ReturnedIsStopped, Goto, procVars
<1>1. CASE RunReturns \/ RunContinues \/ PipeFails \/ StartChecks \/ BackoffEnds
  BY <1>1 DEF RunReturns, RunContinues, PipeFails, StartChecks, BackoffEnds
<1>2. CASE StartFails
  BY <1>2 DEF StartFails
<1>3. CASE StartSucceeds
  BY <1>3 DEF StartSucceeds
<1>4. CASE WaitReturns
  BY <1>4 DEF WaitReturns
<1>5. CASE CheckStops \/ CheckPasses \/ ReadFails
  BY <1>5 DEF CheckStops, CheckPasses, ReadFails
<1>6. CASE FrameDropped \/ FramePasses \/ WriteFails
  BY <1>6 DEF FrameDropped, FramePasses, WriteFails
<1>7. CASE FfmpegWrites
  BY <1>7 DEF FfmpegWrites
<1>8. CASE FfmpegExits \/ ContextKills \/ Stop
  BY <1>8 DEF FfmpegExits, ContextKills, Stop
<1>9. CASE UNCHANGED vars
  BY <1>9 DEF vars
<1>10. CASE ReadFrame
  BY <1>10, ReadFrameKeepsIInv
<1>11. CASE WriteSucceeds
  BY <1>11, WriteKeepsIInv
<1> QED
  BY <1>1, <1>2, <1>3, <1>4, <1>5, <1>6, <1>7, <1>8, <1>9, <1>10, <1>11
     DEF Next, RunStep, LoopStep, Environment, Terminated

THEOREM InductiveInvariant == Spec => []IInv
BY InitIInv, StepKeepsIInv, PTL DEF Spec
-----------------------------------------------------------------------------
\* The types.
THEOREM TypeCorrect == Spec => []TypeOK
<1>1. IInv => TypeOK
  BY DEF IInv
<1> QED
  BY <1>1, InductiveInvariant, PTL

\* worker.go:70-85: every child that was started is waited for before Run sleeps,
\* spawns again or returns.
THEOREM NoOrphan == Spec => []NoOrphanFfmpeg
<1>1. IInv => NoOrphanFfmpeg
  BY DEF IInv, ChildMatchesPc, NoOrphanFfmpeg
<1> QED
  BY <1>1, InductiveInvariant, PTL

-----------------------------------------------------------------------------
(* The refinement of FrameStream.                                           *)

LEMMA Phases ==
    TypeOK =>
        /\ pc = "returned" => phaseBar = "finished"
        /\ pc # "returned" /\ ~ctxDone => phaseBar = "live"
        /\ ctxDone /\ pc \in {"read", "process", "write"} => phaseBar = "draining"
        /\ ctxDone /\ pc \in {"loop", "spawn", "fork", "backoff", "check", "wait"} => phaseBar = "drained"
BY DEF TypeOK, PC, phaseBar

LEMMA InitRefines == Init => Abstract!Init
BY DEF Init, Abstract!Init, phaseBar

\* Every step of the worker is a step of the stream, or invisible to it.
LEMMA StepRefines == IInv /\ IInv' /\ [Next]_vars => [Abstract!Next]_(Abstract!vars)
<1> SUFFICES ASSUME IInv, IInv', [Next]_vars PROVE [Abstract!Next]_(Abstract!vars)
  OBVIOUS
<1> DEFINE P == /\ pc = "returned" => phaseBar = "finished"
                /\ pc # "returned" /\ ~ctxDone => phaseBar = "live"
                /\ ctxDone /\ pc \in {"read", "process", "write"} => phaseBar = "draining"
                /\ ctxDone /\ pc \in {"loop", "spawn", "fork", "backoff", "check", "wait"} => phaseBar = "drained"
<1>1. P /\ P'
  <2>1. (TypeOK => P)'
    BY Phases, PTL
  <2> QED
    BY <2>1, Phases DEF IInv
<1>2. pc \in PC /\ pc' \in PC /\ ctxDone \in BOOLEAN /\ ctxDone' \in BOOLEAN
  BY DEF IInv, TypeOK
<1> USE DEF Goto, procVars, Abstract!vars, PC
<1> HIDE DEF phaseBar
<1>3. CASE RunReturns \/ PipeFails
  BY <1>1, <1>2, <1>3 DEF RunReturns, PipeFails, Abstract!Next, Abstract!Finish
<1>4. CASE RunContinues \/ StartChecks \/ StartFails \/ BackoffEnds \/ StartSucceeds \/ WaitReturns
  BY <1>1, <1>2, <1>4 DEF RunContinues, StartChecks, StartFails, BackoffEnds, StartSucceeds, WaitReturns
<1>5. CASE CheckStops \/ CheckPasses \/ ReadFrame \/ FramePasses
  BY <1>1, <1>2, <1>5 DEF CheckStops, CheckPasses, ReadFrame, FramePasses
<1>6. CASE ReadFails \/ FrameDropped \/ WriteFails
  BY <1>1, <1>2, <1>6 DEF ReadFails, FrameDropped, WriteFails, Abstract!Next, Abstract!Drain
<1>7. CASE WriteSucceeds
  <2>1. seqNum \in 1..MaxFrames /\ \A i \in 1..Len(published) : published[i] < seqNum
    BY <1>7, BoundAssumption DEF IInv, TypeOK, PublishedBelow, WriteSucceeds
  <2>2. Abstract!Publish(seqNum)
    BY <1>1, <1>2, <1>7, <2>1 DEF WriteSucceeds, Abstract!Publish, Abstract!Above
  <2> QED
    BY <2>1, <2>2 DEF Abstract!Next
<1>8. CASE FfmpegWrites \/ FfmpegExits \/ ContextKills
  BY <1>1, <1>2, <1>8 DEF FfmpegWrites, FfmpegExits, ContextKills
<1>9. CASE Stop
  BY <1>1, <1>2, <1>9 DEF Stop, Abstract!Next, Abstract!Cancel, IInv, ReturnedIsStopped
<1>10. CASE UNCHANGED vars
  BY <1>1, <1>2, <1>10 DEF vars
<1> QED
  BY <1>3, <1>4, <1>5, <1>6, <1>7, <1>8, <1>9, <1>10 DEF Next, RunStep, LoopStep, Environment, Terminated

\* worker.go:52-149: numbers grow across reconnections and at most one frame
\* follows Stop.
THEOREM Refinement == Spec => ImplementsFrameStream
BY InitRefines, StepRefines, InductiveInvariant, PTL DEF Spec, ImplementsFrameStream, Abstract!Spec
=============================================================================
