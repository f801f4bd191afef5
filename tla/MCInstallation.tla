---------------------------- MODULE MCInstallation ----------------------------
(***************************************************************************)
(* An instance of Installation for TLC: the assemblies of three prepared   *)
(* games.  In the first, two libraries reference each other, and the patch *)
(* a missing one, but it is not to be followed; in the second the patch is *)
(* referenced and an assembly shadows the framework; the third lacks an    *)
(* assembly that is needed.                                                *)
(***************************************************************************)
EXTENDS Installation

Assemblies == {"System", "Celeste", "FNA", "MMHOOK", "Celeste.Mod.mm", "NLua", "KeraLua", "Steam"}
Horizon == {"System"}
TheGame == {"Celeste", "FNA"}

Managed(S) == [kind |-> "managed", refs |-> S]
Missing    == [kind |-> "none", refs |-> {}]

Usual == [n \in Assemblies |->
    CASE n = "Celeste" -> Managed({"System", "FNA", "NLua", "Celeste"})
      [] n = "FNA" -> Managed({"System"})
      [] n = "MMHOOK" -> Managed({"System", "Celeste", "FNA"})
      [] n = "Celeste.Mod.mm" -> Managed({"Celeste", "Steam"})
      [] n = "NLua" -> Managed({"System", "KeraLua"})
      [] n = "KeraLua" -> Managed({"NLua"})
      [] n = "System" -> [kind |-> "native", refs |-> {}]
      [] OTHER -> Missing]

ThreeLibraries == { Usual,
    [Usual EXCEPT !["KeraLua"] = Managed({"Celeste.Mod.mm"}),
                  !["Celeste.Mod.mm"] = Managed({"Celeste"}),
                  !["System"] = Managed({})],
    [Usual EXCEPT !["KeraLua"] = Missing] }
==============================================================================
