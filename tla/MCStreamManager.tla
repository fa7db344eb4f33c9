-------------------------- MODULE MCStreamManager --------------------------
(* Instances of StreamManager for TLC.                                      *)
EXTENDS StreamManager

Cam == {"cam-1", "cam-2"}

\* Three entries, the third repeating the first one's id, the second with a
\* topic of its own.
IdWithDuplicate == <<"cam-1", "cam-2", "cam-1">>
SecondHasTopic  == {2}

\* Two entries with ids of their own; the first has a topic of its own.
IdDistinct    == <<"cam-1", "cam-2">>
FirstHasTopic == {1}

\* Two entries with one id.
IdSame  == <<"cam-1", "cam-1">>
NoTopic == {}
=============================================================================
