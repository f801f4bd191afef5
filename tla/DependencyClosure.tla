--------------------------- MODULE DependencyClosure ---------------------------
(***************************************************************************)
(* The managed assemblies an application is linked with (host/build.py,    *)
(* lines 83-111): starting from the game's assemblies, their references    *)
(* are followed through a dependency directory.  The Horizon framework and *)
(* the game's own assemblies win over files of the same name in it.        *)
(*                                                                         *)
(* The assemblies that wait to be read are a set, read in any order: the   *)
(* code reads the last one added first.  passed counts how often a file of *)
(* the dependency directory is handed to the link as --managed-reference.  *)
(***************************************************************************)
EXTENDS Naturals, FiniteSets

CONSTANTS
    Names,      \* assembly names
    Framework,  \* the assemblies of the Horizon framework
    Game,       \* FNA, Celeste and Celeste.Content
    Hook,       \* MMHOOK_Celeste
    Patch,      \* Celeste.Mod.mm, which is passed on but not followed
    Prepared,   \* is this an installation prepared by Everest?
    Libraries,  \* what the files may be
    NoName      \* no assembly

ASSUME NamesAssumption ==
    /\ Framework \subseteq Names /\ Game \subseteq Names
    /\ Hook \in Names \ (Framework \union Game) /\ Patch \in Names \ (Framework \union Game)
    /\ Hook # Patch /\ NoName \notin Names /\ Prepared \in BOOLEAN
ASSUME LibrariesAssumption ==
    Libraries \subseteq
        [Names -> [kind : {"none", "native", "managed"}, refs : SUBSET Names]]

VARIABLES
    library,    \* each name's file: missing, no managed assembly, or the
                \* names its metadata references
    known,      \* the names that are not looked for any more
    pending,    \* the assemblies still to be read
    passed,     \* how often each file is handed to the link
    reading,    \* the assembly being read, or NoName
    left,       \* its references still to be looked at
    verdict     \* "none", "resolving", "resolved", "refused"

searchVars  == <<known, pending, passed, reading, left>>
closureVars == <<library, searchVars, verdict>>

\* What an installation prepared by Everest brings for relinking and HookGen.
Support == IF Prepared THEN {Hook, Patch} ELSE {}

\* What is read first.
Starts == Game \union (Support \ {Patch})

ClosureInit ==
    /\ library \in Libraries
    /\ known = {} /\ pending = {} /\ reading = NoName /\ left = {}
    /\ passed = [n \in Names |-> 0]
    /\ verdict = "none"

IsFile(n) == library[n].kind # "none"

(***************************************************************************)
(* Mutated forms, for the mutation runs.                                   *)
(***************************************************************************)

\* The framework is looked for in the dependency directory, too.
BeginGameOnly ==
    /\ verdict # "resolving"
    /\ known' = Starts
    /\ pending' = Starts
    /\ passed' = [n \in Names |-> IF n \in Support THEN 1 ELSE 0]
    /\ reading' = NoName /\ left' = {}
    /\ verdict' = IF \A n \in Support : IsFile(n) THEN "resolving" ELSE "refused"
    /\ UNCHANGED library

(***************************************************************************)
(* The search                                                              *)
(***************************************************************************)

\* The files Everest reads dynamically must be there.
BeginSearch ==
    /\ verdict # "resolving"
    /\ known' = Framework \union Starts
    /\ pending' = Starts
    /\ passed' = [n \in Names |-> IF n \in Support THEN 1 ELSE 0]
    /\ reading' = NoName /\ left' = {}
    /\ verdict' = IF \A n \in Support : IsFile(n) THEN "resolving" ELSE "refused"
    /\ UNCHANGED library

\* The next assembly is opened.
Read(n) ==
    /\ verdict = "resolving" /\ reading = NoName /\ n \in pending
    /\ pending' = pending \ {n}
    /\ \/ /\ library[n].kind = "managed"
          /\ reading' = n /\ left' = library[n].refs
          /\ UNCHANGED verdict
       \/ /\ library[n].kind # "managed"
          /\ verdict' = "refused"
          /\ UNCHANGED <<reading, left>>
    /\ UNCHANGED <<library, known, passed>>

\* A reference to a known name is skipped; any other must be a file of the
\* dependency directory.
Reference(r) ==
    /\ verdict = "resolving" /\ r \in left
    /\ left' = left \ {r}
    /\ \/ /\ r \in known
          /\ UNCHANGED <<known, pending, passed, verdict>>
       \/ /\ r \notin known /\ IsFile(r)
          /\ known' = known \union {r}
          /\ pending' = pending \union {r}
          /\ passed' = [passed EXCEPT ![r] = @ + 1]
          /\ UNCHANGED verdict
       \/ /\ r \notin known /\ ~IsFile(r)
          /\ verdict' = "refused"
          /\ UNCHANGED <<known, pending, passed>>
    /\ UNCHANGED <<library, reading>>

Close ==
    /\ verdict = "resolving" /\ reading # NoName /\ left = {}
    /\ reading' = NoName
    /\ UNCHANGED <<library, known, pending, passed, left, verdict>>

Resolve ==
    /\ verdict = "resolving" /\ reading = NoName /\ pending = {}
    /\ verdict' = "resolved"
    /\ UNCHANGED <<library, searchVars>>

\* The process ends, or goes on to the link.
Leave ==
    /\ known' = {} /\ pending' = {} /\ reading' = NoName /\ left' = {}
    /\ passed' = [n \in Names |-> 0]
    /\ verdict' = "none"
    /\ UNCHANGED library

Search == \/ \E n \in Names : Read(n) \/ Reference(n)
          \/ Close \/ Resolve

ClosureNext == BeginSearch \/ Search \/ Leave

ClosureSpec == ClosureInit /\ [][ClosureNext]_closureVars

(***************************************************************************)
(* Properties                                                              *)
(***************************************************************************)

ClosureTypeOK ==
    /\ library \in [Names -> [kind : {"none", "native", "managed"}, refs : SUBSET Names]]
    /\ known \in SUBSET Names /\ pending \in SUBSET Names /\ left \in SUBSET Names
    /\ passed \in [Names -> Nat]
    /\ reading \in Names \union {NoName}
    /\ verdict \in {"none", "resolving", "resolved", "refused"}

\* The assemblies that were read or wait to be.
Loaded == Starts \union (known \ Framework)

\* Every reference of what is loaded is loaded or in the framework.
Complete == \A n \in Loaded : library[n].refs \subseteq Framework \union Loaded

\* What the game needs in any case: a set with the starts, and with all that
\* its members reference outside of the framework.
Sufficient(S) ==
    /\ Starts \subseteq S
    /\ \A n \in S : library[n].refs \subseteq Framework \union S

\* Nothing is loaded that the game does not reach.
OnlyNeeded == \A S \in SUBSET Names : Sufficient(S) => Loaded \subseteq S

\* The framework and the game's own assemblies are not handed over from the
\* dependency directory, the others that are loaded are, and each once, but
\* for the patch where an assembly references it.
PassedOnce ==
    \A n \in Names :
        passed[n] = (IF n \in Support THEN 1 ELSE 0)
                    + (IF n \in Loaded \ Starts THEN 1 ELSE 0)

\* "Resolve the complete metadata reference closure, retaining the matching
\* Horizon framework" (host/build.py:83-84): whatever the references are, with
\* cycles, with names that several assemblies share, and with files that
\* shadow the framework, a search that ends well has loaded the closure of the
\* game's assemblies, all of it and nothing else.
ResolvedIsClosure ==
    verdict = "resolved" => Complete /\ OnlyNeeded /\ PassedOnce

(***************************************************************************)
(* The inductive invariant.                                                *)
(***************************************************************************)

Opened == verdict \in {"resolving", "resolved"}

\* What has been read has its references known, and what is being read those
\* that are not left.
ReadKnown ==
    Opened =>
        /\ Framework \union Starts \subseteq known
        /\ pending \subseteq Loaded
        /\ \A n \in Loaded \ (pending \union {reading}) : library[n].refs \subseteq known
        /\ reading # NoName =>
              /\ reading \in Loaded /\ left \subseteq library[reading].refs
              /\ library[reading].refs \subseteq known \union left
        /\ reading = NoName => left = {}

\* A search ends when nothing is left to be read.
Exhausted == verdict = "resolved" => pending = {} /\ reading = NoName

ClosureInv ==
    /\ ClosureTypeOK /\ ReadKnown /\ Exhausted
    /\ Opened => OnlyNeeded /\ PassedOnce
==============================================================================
