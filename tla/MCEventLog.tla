----------------------------- MODULE MCEventLog -----------------------------
(* What the other client of EventLog acknowledges by id: both rows, the     *)
(* newer one first, so that it can fail between the two.                     *)
EXTENDS EventLog

Requests == {<<2, 1>>}
=============================================================================
