------------------------------ MODULE MCPages ------------------------------
(* One stream listed at first, another id that may be created; the page of  *)
(* either may be in the history.                                             *)
EXTENDS Pages

Cam     == {"cam-1", "cam-2"}
OneBoot == <<[id |-> "cam-1"]>>
=============================================================================
