---------------------------- MODULE SourceCheckout ----------------------------
(***************************************************************************)
(* The pinned sources of a build (eng/horizon/support.py): Git checkouts   *)
(* and their submodules, the libnx SDK assembled from one of them, and a   *)
(* checksum-pinned archive.  A run obtains them in that order.  It may be  *)
(* killed between any two effects on the disk and be run again; between    *)
(* runs the user edits, switches or removes checkouts, and the lock moves. *)
(*                                                                         *)
(* Git is external: status, fetch and checkout are modelled by what they   *)
(* do to a checkout.  A commit ID names its contents, so a mirror can only *)
(* deliver the commit asked for, or fail.                                  *)
(***************************************************************************)
EXTENDS Naturals, Sequences

CONSTANTS
    Repos,      \* the repositories, submodules among them
    Parent,     \* the repository each is a submodule of, None for a root
    Order,      \* the order of the visits, parents before their submodules
    Libnx,      \* the repository the SDK is built from
    Revisions,  \* full commit IDs
    Link,       \* Link[c][v]: what revision v of c's parent pins c to
    Parts,      \* what is copied into the SDK, in order
    Folders,    \* the parts that are folders: copied into what is there
    MaxEvents,  \* bound: kills and changes by the user
    None        \* no parent, no pin, unborn HEAD, missing part

ASSUME OrderAssumption ==
    /\ Order \in Seq(Repos) /\ Len(Order) > 0
    /\ \A r \in Repos : \E i \in 1 .. Len(Order) : Order[i] = r
ASSUME LinkAssumption ==
    /\ Parent \in [Repos -> Repos \union {None}]
    /\ \A i \in 1 .. Len(Order) : Parent[Order[i]] # None =>
          \E j \in 1 .. i - 1 : Order[j] = Parent[Order[i]]
    /\ Libnx \in Repos /\ Parent[Libnx] = None
    /\ Link \in [{c \in Repos : Parent[c] # None} -> [Revisions -> Revisions \union {None}]]
    /\ None \notin Repos \union Revisions
ASSUME PartsAssumption == Parts \in Seq(STRING) /\ Folders \subseteq STRING
ASSUME BoundAssumption == MaxEvents \in Nat

VARIABLES
    lock,       \* the revision sources.lock.json pins each root to
    git,        \* its .git: "none", "partial": init was interrupted, "whole",
                \* "locked": a killed fetch or checkout left a lock file
    head,       \* its HEAD, None while it is unborn
    files,      \* its tree: "none", "clean": as HEAD has it, "partial",
                \* "edited": with work of the user
    sdk,        \* the revision copied last to each part of the SDK, or "torn"
    layers,     \* the revisions that may have files in each part
    archive,    \* the pinned archive: "none", "wrong", "right"
    part,       \* its .part file: "none", "torn", "wrong", "right"
    pc,         \* where the run is
    at,         \* the visit it is at
    copied,     \* parts of the SDK copied by this run
    outcome,    \* of the last run: "none", "ready", "given", "refused",
                \* "failed", "killed"
    events,
    pastPins    \* history: the revisions the lock has pinned libnx to

treeVars == <<git, head, files>>
sdkVars  == <<sdk, layers>>
lockVars == <<lock, pastPins>>
diskVars == <<treeVars, sdkVars, archive, part>>
vars == <<lockVars, diskVars, pc, at, copied, outcome, events>>

Roots == {r \in Repos : Parent[r] = None}

\* A repository and those it is a submodule of, directly or not.
Above[r \in Repos] == IF Parent[r] = None THEN {r} ELSE {r} \union Above[Parent[r]]
Below(r) == {c \in Repos : r \in Above[c]}

\* What a repository is pinned to: by the lock, or by the gitlink in the HEAD
\* of its parent.
Pin(r) == IF Parent[r] = None THEN lock[r]
          ELSE IF head[Parent[r]] = None THEN None ELSE Link[r][head[Parent[r]]]

Init ==
    /\ lock \in [Roots -> Revisions]
    /\ pastPins = {lock[Libnx]}
    /\ git = [r \in Repos |-> "none"] /\ head = [r \in Repos |-> None]
    /\ files = [r \in Repos |-> "none"]
    /\ sdk = [p \in 1 .. Len(Parts) |-> None] /\ layers = [p \in 1 .. Len(Parts) |-> {}]
    /\ archive = "none" /\ part = "none"
    /\ pc = "idle" /\ at = 1 /\ copied = 0 /\ outcome = "none" /\ events = 0

\* A .git that Git takes for a repository.
IsRepository(r) == git[r] \in {"whole", "locked"}

\* git status --porcelain, which looks into submodules that are checkouts.
Dirty(r) ==
    \/ files[r] \in {"partial", "edited"}
    \/ \E c \in Below(r) \ {r} :
        /\ IsRepository(c) /\ head[r] # None
        /\ \/ files[c] \in {"partial", "edited"}
           \/ head[c] # None /\ head[c] # Pin(c)

Empty(r) == git[r] = "none" /\ files[r] = "none"

Stop(how) == pc' = "idle" /\ outcome' = how
Goto(step) == pc' = step /\ UNCHANGED outcome

(***************************************************************************)
(* Mutated forms, for the mutation runs.                                   *)
(***************************************************************************)

\* The tree is not looked at, only its revision.
StatusAnyTree ==
    /\ pc = "status"
    /\ LET r == Order[at] IN
       \/ /\ ~IsRepository(r) \/ head[r] \notin {None, Pin(r)}
          /\ Stop("refused") /\ UNCHANGED at
       \/ IsRepository(r) /\ head[r] = None /\ Goto("fetch") /\ UNCHANGED at
       \/ head[r] = Pin(r) /\ head[r] # None
          /\ IF at < Len(Order) THEN at' = at + 1 /\ Goto("look")
             ELSE UNCHANGED at /\ Goto("make")
    /\ UNCHANGED <<lockVars, git, head, files, sdkVars, archive, part, copied, events>>

\* A checkout that is not as it should be is checked out again.
StatusResets ==
    /\ pc = "status"
    /\ LET r == Order[at] IN
       \/ /\ Dirty(r) \/ head[r] # Pin(r)
          /\ IsRepository(r) /\ Goto("fetch") /\ UNCHANGED at
       \/ ~IsRepository(r) /\ Stop("refused") /\ UNCHANGED at
       \/ /\ IsRepository(r) /\ ~Dirty(r) /\ head[r] = Pin(r)
          /\ IF at < Len(Order) THEN at' = at + 1 /\ Goto("look")
             ELSE UNCHANGED at /\ Goto("make")
    /\ UNCHANGED <<lockVars, git, head, files, sdkVars, archive, part, copied, events>>

\* A .part file that exists is not opened again.
OpenNewOnly ==
    /\ pc = "archive"
    /\ \/ archive = "right" /\ Stop("ready") /\ UNCHANGED part
       \/ archive # "right" /\ part # "none" /\ Stop("failed") /\ UNCHANGED part
       \/ archive # "right" /\ part = "none" /\ part' = "torn" /\ Goto("receive")
    /\ UNCHANGED <<lockVars, git, head, files, sdkVars, archive, at, copied, events>>

\* Whatever arrived becomes the archive.
ReplaceUnchecked ==
    /\ pc = "digest"
    /\ archive' = part /\ part' = "none" /\ Stop("ready")
    /\ UNCHANGED <<lockVars, git, head, files, sdkVars, at, copied, events>>

(***************************************************************************)
(* git_source, and submodules, which calls it for each gitlink             *)
(***************************************************************************)

\* The next visit; after the last one the SDK is built.
Advance ==
    IF at < Len(Order) THEN at' = at + 1 /\ Goto("look")
    ELSE UNCHANGED at /\ Goto("make")

\* A run begins; mirrors that are no map of strings are refused.
Start(mirrors) ==
    /\ pc = "idle"
    /\ at' = 1 /\ copied' = 0
    /\ IF mirrors = "malformed" THEN Stop("refused") ELSE pc' = "look" /\ outcome' = "none"
    /\ UNCHANGED <<lockVars, diskVars, events>>

\* The pin must be a full commit ID.  In a missing or empty directory git init
\* begins; one that holds something but no .git is refused.
Look ==
    /\ pc = "look"
    /\ LET r == Order[at] IN
       \/ /\ Pin(r) \in Revisions /\ Empty(r)
          /\ git' = [git EXCEPT ![r] = "partial"]
          /\ Goto("init")
       \/ /\ Pin(r) \in Revisions /\ git[r] # "none"
          /\ Goto("status") /\ UNCHANGED git
       \/ /\ \/ Pin(r) \notin Revisions
             \/ git[r] = "none" /\ ~Empty(r)
          /\ Stop("refused") /\ UNCHANGED git
    /\ UNCHANGED <<lockVars, head, files, sdkVars, archive, part, at, copied, events>>

\* A repository without commits.  The remote added to it is not used: the
\* fetch names its source.
InitEnds ==
    /\ pc = "init"
    /\ git' = [git EXCEPT ![Order[at]] = "whole"]
    /\ Goto("status")
    /\ UNCHANGED <<lockVars, head, files, sdkVars, archive, part, at, copied, events>>

\* A dirty checkout, one of another revision, and a .git that is no repository
\* are refused.  One without commits is fetched, and one at its pin is used as
\* it is.
Status ==
    /\ pc = "status"
    /\ LET r == Order[at] IN
       \/ /\ ~IsRepository(r) \/ Dirty(r) \/ head[r] \notin {None, Pin(r)}
          /\ Stop("refused") /\ UNCHANGED at
       \/ IsRepository(r) /\ ~Dirty(r) /\ head[r] = None /\ Goto("fetch") /\ UNCHANGED at
       \/ ~Dirty(r) /\ head[r] = Pin(r) /\ head[r] # None /\ Advance
    /\ UNCHANGED <<lockVars, diskVars, copied, events>>

\* A lock file makes the fetch fail, or the checkout.
Fetch ==
    /\ pc = "fetch"
    /\ \/ Goto("checkout")
       \/ git[Order[at]] = "locked" /\ Stop("failed")
    /\ UNCHANGED <<lockVars, diskVars, at, copied, events>>

\* checkout writes the files, and HEAD at last.
CheckoutBegins ==
    /\ pc = "checkout"
    /\ \/ /\ git[Order[at]] = "whole"
          /\ files' = [files EXCEPT ![Order[at]] = "partial"]
          /\ Goto("writing")
       \/ git[Order[at]] = "locked" /\ Stop("failed") /\ UNCHANGED files
    /\ UNCHANGED <<lockVars, git, head, sdkVars, archive, part, at, copied, events>>

CheckoutEnds ==
    /\ pc = "writing"
    /\ files' = [files EXCEPT ![Order[at]] = "clean"]
    /\ head' = [head EXCEPT ![Order[at]] = Pin(Order[at])]
    /\ Advance
    /\ UNCHANGED <<lockVars, git, sdkVars, archive, part, copied, events>>

(***************************************************************************)
(* libnx                                                                   *)
(***************************************************************************)

Make ==
    /\ pc = "make"
    /\ Goto("copy")
    /\ UNCHANGED <<lockVars, diskVars, at, copied, events>>

\* A part is copied over what an earlier run may have left of it: a file is
\* replaced, but a folder is merged into the one that is there.
CopyBegins ==
    /\ pc = "copy" /\ copied < Len(Parts)
    /\ sdk' = [sdk EXCEPT ![copied + 1] = "torn"]
    /\ layers' = [layers EXCEPT ![copied + 1] =
                      (IF Parts[copied + 1] \in Folders THEN @ ELSE {}) \union {head[Libnx]}]
    /\ Goto("copying")
    /\ UNCHANGED <<lockVars, treeVars, archive, part, at, copied, events>>

CopyEnds ==
    /\ pc = "copying"
    /\ sdk' = [sdk EXCEPT ![copied + 1] = head[Libnx]]
    /\ copied' = copied + 1
    /\ Goto("copy")
    /\ UNCHANGED <<layers, lockVars, treeVars, archive, part, at, events>>

CopyDone ==
    /\ pc = "copy" /\ copied = Len(Parts)
    /\ Goto("archive")
    /\ UNCHANGED <<lockVars, diskVars, at, copied, events>>

\* libnx with an SDK given by the caller: only two of its files are looked for.
GivenSdk ==
    /\ pc = "idle"
    /\ Stop(IF \A p \in 1 .. Len(Parts) :
                Parts[p] \in {"lib", "specs"} => sdk[p] # None
             THEN "given" ELSE "refused")
    /\ UNCHANGED <<lockVars, diskVars, at, copied, events>>

(***************************************************************************)
(* download                                                                *)
(***************************************************************************)

\* An archive with the right digest is used; any other is downloaded anew,
\* into a .part file that is emptied first.
Open ==
    /\ pc = "archive"
    /\ \/ archive = "right" /\ Stop("ready") /\ UNCHANGED part
       \/ archive # "right" /\ part' = "torn" /\ Goto("receive")
    /\ UNCHANGED <<lockVars, treeVars, sdkVars, archive, at, copied, events>>

\* The server delivers all of the archive, something else, or a part of it.
Receive(what) ==
    /\ pc = "receive"
    /\ part' = what
    /\ Goto("digest")
    /\ UNCHANGED <<lockVars, treeVars, sdkVars, archive, at, copied, events>>

Replace ==
    /\ pc = "digest"
    /\ \/ part = "right" /\ archive' = part /\ part' = "none" /\ Stop("ready")
       \/ part # "right" /\ Stop("failed") /\ UNCHANGED <<archive, part>>
    /\ UNCHANGED <<lockVars, treeVars, sdkVars, at, copied, events>>

(***************************************************************************)
(* What may go wrong, and the user                                         *)
(***************************************************************************)

\* A command fails: no network, no such commit, a full card, a broken build.
Fails ==
    /\ pc \in {"init", "fetch", "checkout", "writing", "make", "copying", "receive"}
    /\ events < MaxEvents /\ events' = events + 1
    /\ Stop("failed")
    /\ UNCHANGED <<lockVars, diskVars, at, copied>>

\* Git removes its lock files when it is interrupted or terminated, but not when
\* it is killed outright.  After git init, the remote may be missing.
Kill ==
    /\ pc # "idle"
    /\ events < MaxEvents /\ events' = events + 1
    /\ Stop("killed")
    /\ \/ UNCHANGED git
       \/ /\ pc = "init"
          /\ git' = [git EXCEPT ![Order[at]] = "whole"]
       \/ /\ pc \in {"fetch", "checkout", "writing"}
          /\ git' = [git EXCEPT ![Order[at]] = "locked"]
    /\ UNCHANGED <<lockVars, head, files, sdkVars, archive, part, at, copied>>

\* Between two runs.
Meanwhile ==
    /\ pc = "idle" /\ events < MaxEvents /\ events' = events + 1
    /\ outcome' = "none"
    /\ UNCHANGED <<pc, at, copied, sdkVars, part>>

Edit(r) ==
    /\ Meanwhile
    /\ Parent[r] # None => files[Parent[r]] # "none"
    /\ files' = [files EXCEPT ![r] = "edited"]
    /\ UNCHANGED <<lockVars, git, head, archive>>

\* The user checks out another revision, or commits to one.
Switch(r, v) ==
    /\ Meanwhile
    /\ head[r] \notin {None, v} /\ files[r] = "clean"
    /\ head' = [head EXCEPT ![r] = v]
    /\ UNCHANGED <<lockVars, git, files, archive>>

Remove(r) ==
    /\ Meanwhile
    /\ ~Empty(r)
    /\ git'   = [c \in Repos |-> IF c \in Below(r) THEN "none" ELSE git[c]]
    /\ head'  = [c \in Repos |-> IF c \in Below(r) THEN None ELSE head[c]]
    /\ files' = [c \in Repos |-> IF c \in Below(r) THEN "none" ELSE files[c]]
    /\ UNCHANGED <<lockVars, archive>>

MoveLock(r, v) ==
    /\ Meanwhile
    /\ lock[r] # v
    /\ lock' = [lock EXCEPT ![r] = v]
    /\ pastPins' = IF r = Libnx THEN pastPins \union {v} ELSE pastPins
    /\ UNCHANGED <<treeVars, archive>>

Spoil ==
    /\ Meanwhile
    /\ archive = "right" /\ archive' = "wrong"
    /\ UNCHANGED <<lockVars, treeVars>>

Receiving == \E what \in {"right", "wrong", "torn"} : Receive(what)

Run == \/ Look \/ InitEnds \/ Status \/ Fetch \/ CheckoutBegins \/ CheckoutEnds
       \/ Make \/ CopyBegins \/ CopyEnds \/ CopyDone
       \/ Open \/ Receiving \/ Replace

User == \/ \E r \in Repos : Edit(r) \/ Remove(r) \/ \E v \in Revisions : Switch(r, v)
        \/ \E r \in Roots, v \in Revisions : MoveLock(r, v)
        \/ Spoil

Next == \/ \E m \in {"none", "mapped", "malformed"} : Start(m)
        \/ GivenSdk \/ Run \/ Fails \/ Kill \/ User

Spec == Init /\ [][Next]_vars

\* The build is run again until it succeeds, and the server is able to deliver.
FairSpec == /\ Spec
            /\ WF_vars(Run) /\ SF_vars(Start("none")) /\ SF_vars(Receive("right"))

(***************************************************************************)
(* Properties                                                              *)
(***************************************************************************)

TypeOK ==
    /\ lock \in [Roots -> Revisions]
    /\ pastPins \subseteq Revisions
    /\ git \in [Repos -> {"none", "partial", "whole", "locked"}]
    /\ head \in [Repos -> Revisions \union {None}]
    /\ files \in [Repos -> {"none", "clean", "partial", "edited"}]
    /\ sdk \in [1 .. Len(Parts) -> Revisions \union {None, "torn"}]
    /\ layers \in [1 .. Len(Parts) -> SUBSET Revisions]
    /\ archive \in {"none", "wrong", "right"}
    /\ part \in {"none", "torn", "wrong", "right"}
    /\ pc \in {"idle", "look", "init", "status", "fetch", "checkout", "writing", "make",
              "copy", "copying", "archive", "receive", "digest"}
    /\ at \in 1 .. Len(Order) /\ copied \in 0 .. Len(Parts) /\ events \in 0 .. MaxEvents
    /\ outcome \in {"none", "ready", "given", "refused", "failed", "killed"}

\* Whatever earlier runs left behind and the user did between them, a run that
\* ends well leaves every checkout, submodules included, complete, unedited
\* and at its pin, the archive asked for, and an SDK with every file of the
\* pinned libnx whole.  Its single files are of that revision alone.  In its
\* folders, which are merged (support.py:110-112), files of a revision that
\* the lock pinned before may stay, but none of a revision that libnx was only
\* switched to.
ReadyIsPinned ==
    outcome = "ready" =>
        /\ \A r \in Repos : git[r] = "whole" /\ files[r] = "clean" /\ head[r] = Pin(r)
        /\ \A p \in 1 .. Len(Parts) :
              /\ sdk[p] = lock[Libnx] /\ lock[Libnx] \in layers[p]
              /\ layers[p] \subseteq IF Parts[p] \in Folders THEN pastPins ELSE {lock[Libnx]}
        /\ archive = "right"

\* "Never reset an existing checkout" (support.py:26): no run touches a tree
\* with work of the user in it, or one that has commits.
UserWorkKept ==
    [][pc # "idle" =>
        \A r \in Repos : files[r] = "edited" \/ head[r] # None =>
            /\ files'[r] = files[r] /\ head'[r] = head[r]
            /\ git'[r] = git[r]]_vars

\* The archive changes only into the right one, whatever arrives, and
\* whenever the run is killed; a right one is not downloaded again.
DownloadAtomic ==
    [][pc # "idle" => archive' = archive \/ (archive # "right" /\ archive' = "right")]_vars

\* What stands in the way of every further run until the user acts: work of
\* the user, another revision, a gitlink that is missing, the remains of an
\* interrupted checkout or git init, and the lock file of a killed Git.
Obstructed ==
    \E r \in Repos :
        \/ files[r] \in {"edited", "partial"}
        \/ git[r] \in {"partial", "locked"}
        \/ head[r] \notin {None, Pin(r)}
        \/ Parent[r] # None /\ head[Parent[r]] # None /\ Pin(r) = None

\* An interruption or failure anywhere but inside Git, in the middle of
\* a download or of the SDK say, does not stand in the way of the next runs.
Recovers == []<>(outcome = "ready" \/ Obstructed)

(***************************************************************************)
(* Why the safety properties hold: the inductive invariant of the proofs.  *)
(***************************************************************************)

Visiting == {"look", "init", "status", "fetch", "checkout", "writing"}
Building == {"make", "copy", "copying", "archive", "receive", "digest"}

\* Only a checkout that was begun and finished has commits, and it stays one
\* whatever the user does to it.
HeadMeansTree ==
    \A r \in Repos : head[r] # None => git[r] = "whole" /\ files[r] \in {"clean", "edited"}

\* What a run writes is the checkout it looked at: one of this run's or an
\* earlier one's making, without commits and without work in it.
WritesOwn ==
    LET r == Order[at]
    IN  /\ pc \in Visiting \ {"look"} => git[r] # "none" /\ Pin(r) \in Revisions
        /\ pc = "init" => git[r] = "partial"
        /\ pc = "writing" => git[r] = "whole"
        /\ pc \in {"init", "fetch", "checkout", "writing"} =>
              head[r] = None /\ files[r] # "edited"

Pinned(r) == /\ git[r] = "whole" /\ files[r] = "clean"
             /\ head[r] # None /\ head[r] = Pin(r)

\* What has been visited is as it should be, and stays so to the end of the
\* run: a later visit moves no pin of an earlier one.
VisitedPinned ==
    /\ pc \in Visiting => \A i \in 1 .. at - 1 : Pinned(Order[i])
    /\ pc \in Building => \A i \in 1 .. Len(Order) : Pinned(Order[i])

\* The parts of the SDK that this run has copied are from the pinned libnx,
\* and all of them are from what the lock pinned it to at some time.
CopiedPinned ==
    /\ pc # "idle" => \A p \in 1 .. copied :
          /\ sdk[p] = lock[Libnx] /\ lock[Libnx] \in layers[p]
          /\ Parts[p] \notin Folders => layers[p] = {lock[Libnx]}
    /\ pc = "copying" =>
          /\ copied < Len(Parts) /\ lock[Libnx] \in layers[copied + 1]
          /\ Parts[copied + 1] \notin Folders => layers[copied + 1] = {lock[Libnx]}
    /\ pc \in {"archive", "receive", "digest"} => copied = Len(Parts)
LayersPinned ==
    /\ \A p \in 1 .. Len(Parts) : layers[p] \subseteq pastPins
    /\ lock[Libnx] \in pastPins

\* A run has no outcome yet, and downloads only what it does not have.
RunPhases ==
    /\ pc # "idle" => outcome = "none"
    /\ pc \in {"receive", "digest"} => archive # "right"

CheckoutInv ==
    /\ TypeOK /\ HeadMeansTree /\ WritesOwn /\ VisitedPinned
    /\ CopiedPinned /\ LayersPinned /\ RunPhases /\ ReadyIsPinned
==============================================================================
