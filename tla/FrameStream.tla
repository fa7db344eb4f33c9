---------------------------- MODULE FrameStream ----------------------------
(***************************************************************************)
(* What one stream promises to its manager and to the consumers of its      *)
(* frames: sequence numbers only ever grow, across every reconnection, so   *)
(* a consumer may sort and deduplicate by them; and once the stream is      *)
(* cancelled at most one more frame is published before it finishes.        *)
(***************************************************************************)
EXTENDS Integers, Sequences

CONSTANT SeqNum        \* the sequence numbers, a set of naturals

VARIABLES
    log,               \* the sequence numbers published so far
    phase              \* live, draining (one frame may follow), drained, finished

vars == <<log, phase>>

Above(n) == \A i \in 1..Len(log) : log[i] < n

Init == log = <<>> /\ phase = "live"

Publish(n) ==
    /\ phase \in {"live", "draining"} /\ Above(n)
    /\ log' = Append(log, n)
    /\ phase' = IF phase = "draining" THEN "drained" ELSE "live"

Cancel == phase = "live" /\ phase' \in {"draining", "drained"} /\ UNCHANGED log

Drain == phase = "draining" /\ phase' = "drained" /\ UNCHANGED log

Finish == phase # "finished" /\ phase' = "finished" /\ UNCHANGED log

Next == (\E n \in SeqNum : Publish(n)) \/ Cancel \/ Drain \/ Finish

Spec == Init /\ [][Next]_vars

\* A cancelled stream finishes.
FairSpec == Spec /\ WF_vars(phase # "live" /\ Next)
=============================================================================
