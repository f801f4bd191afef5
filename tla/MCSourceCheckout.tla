--------------------------- MODULE MCSourceCheckout ---------------------------
(***************************************************************************)
(* An instance of SourceCheckout for TLC: a repository with a submodule,   *)
(* and libnx.  The second revision of the repository pins the submodule to *)
(* another revision, and the third has no gitlink for it.                  *)
(***************************************************************************)
EXTENDS SourceCheckout

CONSTANTS fna, fna3d, libnx, v1, v2, v3

ThreeRepos == {fna, fna3d, libnx}
ThreeRevisions == {v1, v2, v3}
Submodule == [r \in ThreeRepos |-> IF r = fna3d THEN fna ELSE None]
Visits == <<fna, fna3d, libnx>>
Gitlink == [c \in {fna3d} |-> [v \in ThreeRevisions |-> IF v = v3 THEN None ELSE v]]
SdkParts == <<"lib", "specs">>
Merged == {"lib"}
==============================================================================
