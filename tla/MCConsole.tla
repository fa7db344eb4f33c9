----------------------------- MODULE MCConsole -----------------------------
(* Two tabs and two pages: a tab can change pages without its guard.        *)
EXTENDS Console, TLC

TabSymmetry == Permutations(Tab)

TwoPages == {"/", "/streams"}
=============================================================================
