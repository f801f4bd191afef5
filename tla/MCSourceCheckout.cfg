CONSTANTS
    fna = fna
    fna3d = fna3d
    libnx = libnx
    v1 = v1
    v2 = v2
    v3 = v3
    None = None
    Repos <- ThreeRepos
    Parent <- Submodule
    Order <- Visits
    Libnx = libnx
    Revisions <- ThreeRevisions
    Link <- Gitlink
    Parts <- SdkParts
    Folders <- Merged
    MaxEvents = 3
SPECIFICATION FairSpec
INVARIANTS
    ReadyIsPinned
PROPERTIES
    UserWorkKept
    DownloadAtomic
    Recovers
