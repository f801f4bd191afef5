---------------------------- MODULE MCAudioPacing ----------------------------
(***************************************************************************)
(* AudioPacing in units of half a block, 5.33 ms: a block plays for 2 of   *)
(* them and the slack of 100 ms is 19.                                     *)
(***************************************************************************)
EXTENDS AudioPacing
==============================================================================
