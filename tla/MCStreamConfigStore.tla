------------------------ MODULE MCStreamConfigStore ------------------------
(* A configuration of two streams; what is created or imported repeats one  *)
(* of their ids, which the handlers accept, so that update and delete also  *)
(* meet several matches.                                                    *)
EXTENDS StreamConfigStore

Cam      == {"cam-1", "cam-2"}
NoID     == "unset"
Memory   == {Zero, [id |-> "cam-1", rev |-> 0]}
TwoBoot  == <<[id |-> "cam-1", rev |-> 0], [id |-> "cam-2", rev |-> 0]>>
=============================================================================
