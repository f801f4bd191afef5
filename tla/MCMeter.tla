------------------------------- MODULE MCMeter -------------------------------
(***************************************************************************)
(* An instance of Meter for TLC: the main thread and a loader thread, some *)
(* of whose calls fall into the overflow bin, and the row of one of two    *)
(* scenes.                                                                 *)
(***************************************************************************)
EXTENDS MeterSummary

CONSTANTS main, loader, level, menu, startup

TwoThreads == {main, loader}
ThreeDurations == {0, 1, 2}
TwoScenes == {level, menu}
==============================================================================
