---------------------------- MODULE MCBuildStages ----------------------------
(***************************************************************************)
(* An instance of BuildStages for TLC: three stages, the second and third  *)
(* of which need a new directory.                                          *)
(***************************************************************************)
EXTENDS BuildStages

LastFresh == {2, 3}
==============================================================================
