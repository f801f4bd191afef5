CONSTANTS
    NoName = NoName
    Names <- Assemblies
    Framework <- Horizon
    Game <- TheGame
    Hook = "MMHOOK"
    Patch = "Celeste.Mod.mm"
    Prepared = TRUE
    Libraries <- ThreeLibraries
    MaxKills = 2
    MaxChanges = 1
SPECIFICATION FairSpec
INVARIANTS
    ResolvedIsClosure
    FinishedAccounts
PROPERTIES
    SealedOnce
    ResumeFinishes
