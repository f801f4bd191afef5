---------------------------- MODULE MCAudioOutput ----------------------------
(***************************************************************************)
(* Instances of AudioOutput for TLC.                                       *)
(***************************************************************************)
EXTENDS AudioOutput, TLC

CONSTANTS s1, s2, quiet, loud

TwoSystems == {s1, s2}
TwoBlocks  == {quiet, loud}
AllFaults  == FaultKinds
SystemSymmetry == Permutations({s1, s2})
==============================================================================
