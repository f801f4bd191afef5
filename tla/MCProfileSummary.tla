-------------------------- MODULE MCProfileSummary --------------------------
(***************************************************************************)
(* An instance of ProfileSummary for TLC: the main thread and a loader     *)
(* thread, and a queue and a batch of two records.                         *)
(***************************************************************************)
EXTENDS ProfileSummary, TLC

CONSTANTS main, loader

TwoThreads == {main, loader}
==============================================================================
