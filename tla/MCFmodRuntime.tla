--------------------------- MODULE MCFmodRuntime ---------------------------
(***************************************************************************)
(* An instance of FmodRuntime for TLC, with two threads of the game.       *)
(***************************************************************************)
EXTENDS FmodRuntime

CONSTANTS t1, t2

TwoThreads == {t1, t2}
==============================================================================
