--------------------------- MODULE MCProfileWriter ---------------------------
(***************************************************************************)
(* An instance of ProfileWriter for TLC: the main thread, a loader        *)
(* thread, a queue of two records and batches of two.                      *)
(***************************************************************************)
EXTENDS ProfileWriter

CONSTANTS main, loader

TwoThreads == {main, loader}
==============================================================================
