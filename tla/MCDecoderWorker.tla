-------------------------- MODULE MCDecoderWorker --------------------------
(* Bounds of DecoderWorker for TLC: more frames than the pipe holds, enough *)
(* of them for reconnections with frames before and after, and failed       *)
(* starts in a row.                                                         *)
EXTENDS DecoderWorker

Frames   == 4
Attempts == 2
Cap      == 2
=============================================================================
