-------------------------- MODULE InstallationProofs --------------------------
(***************************************************************************)
(* Proofs about one installation.  First the search for the assemblies, by *)
(* itself, for every set of names, references among them and order of      *)
(* reading.  Then the stages: what their scripts have in common is proved  *)
(* script by script (StageFits), and from it that every action keeps the   *)
(* inductive invariant, so that a build that finishes accounts for what is *)
(* on the card.  Last that every build implements the specification of the *)
(* search.                                                                 *)
(***************************************************************************)
EXTENDS Installation, SequenceTheorems, TLAPS

(***************************************************************************)
(* The search for the assemblies                                           *)
(***************************************************************************)

\* Nothing is read first that the framework could stand for but the game's own.
LEMMA StartsAreNames ==
    /\ Starts \subseteq Names /\ Support \subseteq Names
    /\ Patch \notin Starts
    /\ \A n \in Support : n \notin Starts => n = Patch
    /\ NoName \notin Names
<1>1. /\ Game \subseteq Names /\ NoName \notin Names
      /\ Hook \in Names /\ Patch \in Names /\ Patch \notin Game /\ Hook # Patch
  BY NamesAssumption
<1>2. CASE Prepared
  BY <1>1, <1>2 DEF Starts, Support
<1>3. CASE ~Prepared
  BY <1>1, <1>3 DEF Starts, Support
<1> QED
  BY <1>2, <1>3

\* The libraries never change.
LEMMA LibraryStays == ClosureNext => library' = library
BY DEF ClosureNext, BeginSearch, Search, Read, Reference, Close, Resolve, Leave

\* No search has out.
LEMMA InitInv == ClosureInit => ClosureInv
<1> SUFFICES ASSUME ClosureInit PROVE ClosureInv
  OBVIOUS
<1>1. ClosureTypeOK
  <2>1. library \in [Names -> [kind : {"none", "native", "managed"}, refs : SUBSET Names]]
    BY LibrariesAssumption DEF ClosureInit
  <2>2. known \in SUBSET Names /\ pending \in SUBSET Names /\ left \in SUBSET Names
    BY Zenon DEF ClosureInit
  <2>3. /\ passed \in [Names -> Nat] /\ reading \in Names \union {NoName}
        /\ verdict \in {"none", "resolving", "resolved", "refused"}
    BY DEF ClosureInit
  <2> QED
    BY <2>1, <2>2, <2>3 DEF ClosureTypeOK
<1>2. verdict = "none"
  BY DEF ClosureInit
<1> QED
  BY <1>1, <1>2 DEF ClosureInv, ReadKnown, Exhausted, Opened

\* What is not known before is not loaded, and adding it to what is known
\* adds just it to what is loaded.
LEMMA LoadedGrows ==
    ASSUME NEW r \in Names, r \notin known, Framework \union Starts \subseteq known,
           known' = known \union {r}
    PROVE  r \notin Loaded /\ Loaded' = Loaded \union {r}
<1>1. r \notin Framework /\ r \notin Starts
  OBVIOUS
<1>2. Starts' = Starts
  BY DEF Starts, Support
<1> QED
  BY <1>1, <1>2 DEF Loaded

\* A search begins with the starts, which are all still to be read.
LEMMA BeginInv == ASSUME ClosureInv, BeginSearch PROVE ClosureInv'
<1>1. ClosureTypeOK'
  <2>1. ClosureTypeOK
    BY DEF ClosureInv
  <2>2. known' \in SUBSET Names /\ pending' \in SUBSET Names
    BY StartsAreNames, NamesAssumption DEF BeginSearch
  <2>3. left' \in SUBSET Names
    BY Zenon DEF BeginSearch
  <2>4. passed' \in [Names -> Nat]
    BY DEF BeginSearch
  <2>5. /\ verdict' \in {"none", "resolving", "resolved", "refused"}
        /\ reading' \in Names \union {NoName} /\ library' = library
    BY DEF BeginSearch
  <2> QED
    BY <2>1, <2>2, <2>3, <2>4, <2>5 DEF ClosureTypeOK
<1>2. Loaded' = Starts
  BY DEF BeginSearch, Loaded, Starts, Support
<1>3. ReadKnown'
  <2>1. /\ known' = Framework \union Starts /\ pending' = Starts
        /\ reading' = NoName /\ left' = {}
    BY DEF BeginSearch
  <2>2. (Framework \union Starts)' = Framework \union Starts
    BY DEF Starts, Support
  <2> QED
    BY <1>2, <2>1, <2>2 DEF ReadKnown
<1>4. verdict' # "resolved"
  BY DEF BeginSearch
<1>5. OnlyNeeded'
  BY <1>2 DEF OnlyNeeded, Sufficient, Starts, Support
<1>6. PassedOnce'
  <2> SUFFICES ASSUME NEW n \in Names
               PROVE  passed'[n] = (IF n \in Support THEN 1 ELSE 0)
                          + (IF n \in Loaded' \ Starts THEN 1 ELSE 0)
    BY DEF PassedOnce, Starts, Support
  <2>1. passed'[n] = IF n \in Support THEN 1 ELSE 0
    BY DEF BeginSearch
  <2> QED
    BY <1>2, <2>1
<1> QED
  BY <1>1, <1>3, <1>4, <1>5, <1>6 DEF ClosureInv, Exhausted

\* An assembly that is opened has all its references left.
LEMMA ReadInv == ASSUME ClosureInv, NEW n \in Names, Read(n) PROVE ClosureInv'
<1>1. /\ verdict = "resolving" /\ reading = NoName /\ n \in pending
      /\ pending' = pending \ {n}
      /\ library' = library /\ known' = known /\ passed' = passed
  BY DEF Read
<1>2. /\ ClosureTypeOK /\ ReadKnown /\ OnlyNeeded /\ PassedOnce /\ Opened
  BY <1>1 DEF ClosureInv, Opened
<1>3. Loaded' = Loaded /\ (Framework \union Starts)' = Framework \union Starts
  BY <1>1 DEF Loaded, Starts, Support
<1>4. OnlyNeeded' /\ PassedOnce'
  BY <1>1, <1>2, <1>3 DEF OnlyNeeded, PassedOnce, Sufficient, Starts, Support
<1>5. pending' \in SUBSET Names
  BY <1>1, <1>2 DEF ClosureTypeOK
<1>6. CASE library[n].kind = "managed"
  <2>1. reading' = n /\ left' = library[n].refs /\ verdict' = verdict
    BY <1>6 DEF Read
  <2>2. library[n] \in [kind : {"none", "native", "managed"}, refs : SUBSET Names]
    BY <1>2 DEF ClosureTypeOK
  <2>3. library[n].refs \in SUBSET Names
    BY <2>2
  <2>4. ClosureTypeOK'
    BY <1>1, <1>2, <1>5, <2>1, <2>3 DEF ClosureTypeOK
  <2>5. n \in Loaded
    BY <1>1, <1>2 DEF ReadKnown
  <2>6. ReadKnown'
    <3>1. ASSUME NEW m \in Loaded \ (pending' \union {n})
          PROVE  library[m].refs \subseteq known
      <4>1. m \notin pending
        BY <1>1, <3>1
      <4>2. m # NoName
        BY <1>2, <3>1, StartsAreNames DEF Loaded, ClosureTypeOK
      <4> QED
        BY <1>1, <1>2, <3>1, <4>1, <4>2 DEF ReadKnown
    <3>2. n # NoName
      BY StartsAreNames
    <3> QED
      BY <1>1, <1>2, <1>3, <2>1, <2>5, <3>1, <3>2 DEF ReadKnown
  <2> QED
    BY <1>1, <1>4, <2>1, <2>4, <2>6 DEF ClosureInv, Exhausted
<1>7. CASE library[n].kind # "managed"
  <2>1. reading' = reading /\ left' = left /\ verdict' = "refused"
    BY <1>7 DEF Read
  <2>2. ClosureTypeOK'
    BY <1>1, <1>2, <1>5, <2>1 DEF ClosureTypeOK
  <2> QED
    BY <2>1, <2>2 DEF ClosureInv, ReadKnown, Exhausted, Opened
<1> QED
  BY <1>6, <1>7

\* A reference that is not known becomes pending, passed once, and is needed.
LEMMA ReferenceInv == ASSUME ClosureInv, NEW r \in Names, Reference(r) PROVE ClosureInv'
<1>1. /\ verdict = "resolving" /\ r \in left /\ left' = left \ {r}
      /\ library' = library /\ reading' = reading
  BY DEF Reference
<1>2. /\ ClosureTypeOK /\ ReadKnown /\ OnlyNeeded /\ PassedOnce /\ Opened
  BY <1>1 DEF ClosureInv, Opened
<1>3. left' \in SUBSET Names
  BY <1>1, <1>2 DEF ClosureTypeOK
<1>4. /\ Framework \union Starts \subseteq known /\ pending \subseteq Loaded
      /\ reading # NoName /\ reading \in Loaded /\ r \in library[reading].refs
      /\ library[reading].refs \subseteq known \union left
      /\ left \subseteq library[reading].refs
      /\ \A n \in Loaded \ (pending \union {reading}) : library[n].refs \subseteq known
  BY <1>1, <1>2 DEF ReadKnown
<1>5. (Framework \union Starts)' = Framework \union Starts
  BY DEF Starts, Support
<1>6. CASE r \in known
  <2>1. known' = known /\ pending' = pending /\ passed' = passed /\ verdict' = verdict
    BY <1>6 DEF Reference
  <2>2. Loaded' = Loaded
    BY <2>1 DEF Loaded, Starts, Support
  <2>3. OnlyNeeded' /\ PassedOnce'
    BY <1>1, <1>2, <2>1, <2>2 DEF OnlyNeeded, PassedOnce, Sufficient, Starts, Support
  <2>4. ReadKnown'
    BY <1>1, <1>4, <1>5, <1>6, <2>1, <2>2 DEF ReadKnown
  <2>5. ClosureTypeOK'
    BY <1>1, <1>2, <1>3, <2>1 DEF ClosureTypeOK
  <2> QED
    BY <1>1, <2>1, <2>3, <2>4, <2>5 DEF ClosureInv, Exhausted
<1>7. CASE r \notin known /\ IsFile(r)
  <2>1. /\ known' = known \union {r} /\ pending' = pending \union {r}
        /\ passed' = [passed EXCEPT ![r] = @ + 1] /\ verdict' = verdict
    BY <1>7 DEF Reference
  <2>2. r \notin Loaded /\ Loaded' = Loaded \union {r}
    BY <1>4, <1>7, <2>1, LoadedGrows
  <2>3. ClosureTypeOK'
    <3>1. known' \in SUBSET Names /\ pending' \in SUBSET Names
      BY <1>2, <2>1 DEF ClosureTypeOK
    <3>2. passed' \in [Names -> Nat]
      BY <1>2, <2>1 DEF ClosureTypeOK
    <3> QED
      BY <1>1, <1>2, <1>3, <2>1, <3>1, <3>2 DEF ClosureTypeOK
  <2>4. ReadKnown'
    <3>1. Framework \union Starts \subseteq known' /\ pending' \subseteq Loaded'
      BY <1>4, <2>1, <2>2
    <3>2. \A n \in Loaded' \ (pending' \union {reading}) : library[n].refs \subseteq known'
      BY <1>4, <2>1, <2>2
    <3>3. /\ reading \in Loaded' /\ left' \subseteq library[reading].refs
          /\ library[reading].refs \subseteq known' \union left'
      BY <1>1, <1>4, <2>1, <2>2
    <3> QED
      BY <1>1, <1>4, <1>5, <3>1, <3>2, <3>3 DEF ReadKnown
  <2>5. OnlyNeeded'
    <3> SUFFICES ASSUME NEW S \in SUBSET Names, Sufficient(S) PROVE Loaded' \subseteq S
      BY <1>1 DEF OnlyNeeded, Sufficient, Starts, Support
    <3>1. Loaded \subseteq S
      BY <1>2 DEF OnlyNeeded
    <3>2. r \notin Framework
      BY <1>4, <1>7
    <3>3. r \in S
      BY <1>4, <3>1, <3>2 DEF Sufficient
    <3> QED
      BY <2>2, <3>1, <3>3
  <2>6. PassedOnce'
    <3> SUFFICES ASSUME NEW n \in Names
                 PROVE  passed'[n] = (IF n \in Support THEN 1 ELSE 0)
                            + (IF n \in Loaded' \ Starts THEN 1 ELSE 0)
      BY DEF PassedOnce, Starts, Support
    <3>1. passed[n] = (IF n \in Support THEN 1 ELSE 0)
                      + (IF n \in Loaded \ Starts THEN 1 ELSE 0)
      BY <1>2 DEF PassedOnce
    <3>2. CASE n = r
      <4>1. passed'[n] = passed[n] + 1
        BY <1>2, <2>1, <3>2 DEF ClosureTypeOK
      <4>2. n \notin Loaded /\ n \in Loaded' \ Starts
        BY <1>4, <1>7, <2>2, <3>2
      <4> QED
        BY <3>1, <4>1, <4>2
    <3>3. CASE n # r
      <4>1. passed'[n] = passed[n]
        BY <1>2, <2>1, <3>3 DEF ClosureTypeOK
      <4>2. n \in Loaded' \ Starts <=> n \in Loaded \ Starts
        BY <2>2, <3>3
      <4> QED
        BY <3>1, <4>1, <4>2
    <3> QED
      BY <3>2, <3>3
  <2> QED
    BY <1>1, <2>1, <2>3, <2>4, <2>5, <2>6 DEF ClosureInv, Exhausted
<1>8. CASE r \notin known /\ ~IsFile(r)
  <2>1. known' = known /\ pending' = pending /\ passed' = passed /\ verdict' = "refused"
    BY <1>8 DEF Reference
  <2>2. ClosureTypeOK'
    BY <1>1, <1>2, <1>3, <2>1 DEF ClosureTypeOK
  <2> QED
    BY <2>1, <2>2 DEF ClosureInv, ReadKnown, Exhausted, Opened
<1> QED
  BY <1>6, <1>7, <1>8

\* An assembly that has been read has its references known.
LEMMA CloseInv == ASSUME ClosureInv, Close PROVE ClosureInv'
<1>1. /\ verdict = "resolving" /\ reading # NoName /\ left = {} /\ reading' = NoName
      /\ library' = library /\ known' = known /\ pending' = pending /\ passed' = passed
      /\ left' = left /\ verdict' = verdict
  BY DEF Close
<1>2. /\ ClosureTypeOK /\ ReadKnown /\ OnlyNeeded /\ PassedOnce /\ Opened
  BY <1>1 DEF ClosureInv, Opened
<1>3. Loaded' = Loaded /\ (Framework \union Starts)' = Framework \union Starts
  BY <1>1 DEF Loaded, Starts, Support
<1>4. OnlyNeeded' /\ PassedOnce'
  BY <1>1, <1>2, <1>3 DEF OnlyNeeded, PassedOnce, Sufficient, Starts, Support
<1>5. ClosureTypeOK'
  BY <1>1, <1>2 DEF ClosureTypeOK
<1>6. ReadKnown'
  <2>1. \A n \in Loaded \ pending : library[n].refs \subseteq known
    BY <1>1, <1>2 DEF ReadKnown
  <2> QED
    BY <1>1, <1>2, <1>3, <2>1 DEF ReadKnown
<1> QED
  BY <1>1, <1>4, <1>5, <1>6 DEF ClosureInv, Exhausted

\* With nothing left to read, what is loaded is complete.
LEMMA ResolveInv == ASSUME ClosureInv, Resolve PROVE ClosureInv'
<1>1. /\ verdict = "resolving" /\ reading = NoName /\ pending = {} /\ verdict' = "resolved"
      /\ library' = library /\ known' = known /\ pending' = pending /\ passed' = passed
      /\ left' = left /\ reading' = reading
  BY DEF Resolve, searchVars
<1>2. /\ ClosureTypeOK /\ ReadKnown /\ OnlyNeeded /\ PassedOnce /\ Opened
  BY <1>1 DEF ClosureInv, Opened
<1>3. Loaded' = Loaded /\ (Framework \union Starts)' = Framework \union Starts
  BY <1>1 DEF Loaded, Starts, Support
<1>4. OnlyNeeded' /\ PassedOnce'
  BY <1>1, <1>2, <1>3 DEF OnlyNeeded, PassedOnce, Sufficient, Starts, Support
<1>5. ClosureTypeOK'
  BY <1>1, <1>2 DEF ClosureTypeOK
<1>6. ReadKnown'
  BY <1>1, <1>2, <1>3 DEF ReadKnown
<1> QED
  BY <1>1, <1>4, <1>5, <1>6 DEF ClosureInv, Exhausted

\* A search that is left holds nothing.
LEMMA LeaveInv == ASSUME ClosureInv, Leave PROVE ClosureInv'
<1>1. /\ known' = {} /\ pending' = {} /\ reading' = NoName /\ left' = {}
      /\ passed' = [n \in Names |-> 0] /\ verdict' = "none" /\ library' = library
  BY DEF Leave
<1>2. ClosureTypeOK'
  <2>1. ClosureTypeOK
    BY DEF ClosureInv
  <2>2. known' \in SUBSET Names /\ pending' \in SUBSET Names /\ left' \in SUBSET Names
    BY <1>1, Zenon
  <2>3. passed' \in [Names -> Nat]
    BY <1>1
  <2> QED
    BY <1>1, <2>1, <2>2, <2>3 DEF ClosureTypeOK
<1> QED
  BY <1>1, <1>2 DEF ClosureInv, ReadKnown, Exhausted, Opened

\* The invariant is about the variables of the search alone.
LEMMA StutterInv == ASSUME ClosureInv, UNCHANGED closureVars PROVE ClosureInv'
BY DEF closureVars, searchVars, ClosureInv, ClosureTypeOK, ReadKnown, Exhausted, Opened,
       OnlyNeeded, PassedOnce, Sufficient, Loaded, Starts, Support

\* The inductive invariant holds in every state of any number of searches.
LEMMA ClosureInvariant == ClosureSpec => []ClosureInv
<1>1. ClosureInv /\ [ClosureNext]_closureVars => ClosureInv'
  <2> SUFFICES ASSUME ClosureInv, [ClosureNext]_closureVars PROVE ClosureInv'
    OBVIOUS
  <2>1. CASE BeginSearch
    BY <2>1, BeginInv
  <2>2. ASSUME NEW n \in Names, Read(n) PROVE ClosureInv'
    BY <2>2, ReadInv
  <2>3. ASSUME NEW n \in Names, Reference(n) PROVE ClosureInv'
    BY <2>3, ReferenceInv
  <2>4. CASE Close
    BY <2>4, CloseInv
  <2>5. CASE Resolve
    BY <2>5, ResolveInv
  <2>6. CASE Leave
    BY <2>6, LeaveInv
  <2>7. CASE UNCHANGED closureVars
    BY <2>7, StutterInv
  <2> QED
    BY <2>1, <2>2, <2>3, <2>4, <2>5, <2>6, <2>7 DEF ClosureNext, Search
<1> QED
  BY <1>1, InitInv, PTL DEF ClosureSpec

\* The search only ever handles names of assemblies, and counts what it passes.
THEOREM ClosureTypeCorrect == ClosureSpec => []ClosureTypeOK
<1>1. ClosureInv => ClosureTypeOK
  BY DEF ClosureInv
<1> QED
  BY <1>1, ClosureInvariant, PTL

\* Whatever the references are and in whatever order they are followed, a
\* search that ends well has loaded all that the game needs and nothing else,
\* and hands each file of the dependency directory over once (host/build.py:83-111).
THEOREM SearchIsClosure == ClosureSpec => []ResolvedIsClosure
<1>1. ClosureInv => ResolvedIsClosure
  <2> SUFFICES ASSUME ClosureInv, verdict = "resolved"
               PROVE  Complete /\ OnlyNeeded /\ PassedOnce
    BY DEF ResolvedIsClosure
  <2>1. /\ ReadKnown /\ OnlyNeeded /\ PassedOnce /\ Opened
        /\ pending = {} /\ reading = NoName /\ ClosureTypeOK
    BY DEF ClosureInv, Opened, Exhausted
  <2>2. Loaded \subseteq Names
    BY <2>1, StartsAreNames DEF Loaded, ClosureTypeOK
  <2>3. ASSUME NEW n \in Loaded PROVE library[n].refs \subseteq Framework \union Loaded
    <3>1. n # NoName
      BY <2>2, StartsAreNames
    <3>2. library[n].refs \subseteq known
      BY <2>1, <2>3, <3>1 DEF ReadKnown
    <3> QED
      BY <3>2 DEF Loaded
  <2> QED
    BY <2>1, <2>3 DEF Complete
<1> QED
  BY <1>1, ClosureInvariant, PTL

\* A search never hands over a file that shadows the framework, whether it
\* ends well or not: the matching Horizon framework is retained.
THEOREM FrameworkRetained ==
    ClosureSpec => [](\A n \in Framework \ Starts : Opened => passed[n] = 0)
<1>1. ClosureInv => \A n \in Framework \ Starts : Opened => passed[n] = 0
  <2> SUFFICES ASSUME ClosureInv, NEW n \in Framework \ Starts, Opened PROVE passed[n] = 0
    OBVIOUS
  <2>1. PassedOnce
    BY DEF ClosureInv
  <2>2. n \in Names /\ n \notin Support
    BY NamesAssumption DEF Support
  <2>3. n \notin Loaded
    BY DEF Loaded
  <2> QED
    BY <2>1, <2>2, <2>3 DEF PassedOnce
<1> QED
  BY <1>1, ClosureInvariant, PTL

(***************************************************************************)
(* The scripts, stage by stage                                             *)
(***************************************************************************)

\* The commands of the n-th stage.
Length(n) == Len(Script[Order[n]])
Command(n, i) == Script[Order[n]][i]
Writes(c) == c.do \in {"make", "seal"}
Tests(c) == c.do \in {"check", "valid"}

\* The stage that makes a file, and the step of its script.
Maker(f) ==
    IF f = "fna" THEN 1 ELSE IF f \in {"sdl", "sdl.json"} THEN 2 ELSE
    IF f = "fna3d" THEN 3 ELSE IF f \in {"everest", "everest.json"} THEN 4 ELSE
    IF f \in {"libraries", "celeste", "outputs.json"} THEN 5 ELSE
    IF f \in {"mesa", "mesa.json"} THEN 6 ELSE
    IF f \in {"sdk", "loader", "fmod.json"} THEN 7 ELSE
    IF f \in {"lua", "lua.json"} THEN 8 ELSE
    IF f \in {"imports.json", "graphics.json"} THEN 9 ELSE
    IF f \in {"objects", "managed", "nro", "payload", "host.json"} THEN 10 ELSE
    IF f \in {"unlisted", "content", "content.json"} THEN 11 ELSE
    IF f \in {"mod", "package.json"} THEN 12 ELSE
    IF f \in {"card.managed", "card.lib", "card.content", "card.nro", "card.mod",
               "installation.json", "zip"} THEN 13 ELSE 0
Turn(f) ==
    IF f \in {"fna", "sdl", "fna3d", "everest"} THEN 1 ELSE
    IF f \in {"sdl.json", "everest.json", "libraries", "lua", "mod"} THEN 2 ELSE
    IF f \in {"mesa", "imports.json", "package.json"} THEN 3 ELSE
    IF f \in {"celeste", "mesa.json", "sdk", "lua.json", "graphics.json", "unlisted"} THEN 4 ELSE
    IF f \in {"loader", "content"} THEN 5 ELSE
    IF f \in {"outputs.json", "fmod.json", "objects", "content.json", "card.managed"} THEN 6 ELSE
    IF f = "card.lib" THEN 7 ELSE IF f \in {"managed", "card.content"} THEN 8 ELSE
    IF f \in {"nro", "card.nro"} THEN 9 ELSE IF f \in {"payload", "card.mod"} THEN 10 ELSE
    IF f \in {"host.json", "installation.json"} THEN 11 ELSE IF f = "zip" THEN 12 ELSE 0

\* What a run knows at the i-th command of the n-th stage: outputs of earlier
\* stages, what this script wrote, and what it compared.
Known(n, i, f) ==
    \/ Maker(f) \in 1 .. n - 1 /\ f \in Outputs[Order[Maker(f)]]
    \/ Maker(f) = n /\ Turn(f) \in 1 .. i - 1
    \/ \E k \in 1 .. i - 1 : Tests(Command(n, k)) /\ f \in Command(n, k).of

\* Each file is written by one command of one script, as the table says,
MadeOnce(n) == \A i \in 1 .. Length(n) : Writes(Command(n, i)) =>
    Maker(Command(n, i).what) = n /\ Turn(Command(n, i).what) = i

\* and is read after it was written;
MadeBefore(n) == \A i \in 1 .. Length(n) : \A f \in Command(n, i).of :
    f \in Inputs \/ Maker(f) \in 1 .. n - 1 \/ (Maker(f) = n /\ Turn(f) \in 1 .. i - 1)

\* what is read is known, or the file it goes into may carry it on;
SourceFits(n, i, f) == LET c == Command(n, i) IN
    \/ Known(n, i, f) /\ (c.do = "make" => Carries(f) \subseteq Carries(c.what))
    \/ /\ c.do = "make" /\ Maker(f) \in 1 .. n - 1
       /\ Carries(f) \union {f} \subseteq Carries(c.what)
Sourced(n) == \A i \in 1 .. Length(n) :
    Writes(Command(n, i)) => \A f \in Command(n, i).of : SourceFits(n, i, f)

\* what is compared is compared with a manifest an earlier script sealed;
IsSealed(n, c) == \E m \in 1 .. n - 1 : \E j \in 1 .. Length(m) :
    /\ Command(m, j).do = "seal" /\ Command(m, j).what = c.what
    /\ c.of \subseteq Command(m, j).of
Compared(n) == \A i \in 1 .. Length(n) :
    Command(n, i).do = "check" => IsSealed(n, Command(n, i))

\* the file that stands for a directory is the last one written into it;
FinalLast(n) == Order[n] \in Fresh => LET l == Turn(Final[Order[n]]) IN
    /\ l \in 1 .. Length(n) /\ Writes(Command(n, l)) /\ Command(n, l).what = Final[Order[n]]
    /\ \A i \in 1 .. Length(n) : Writes(Command(n, i)) => i <= l

\* every file of the table is written,
MakesAll(n) == \A f : Maker(f) = n =>
    /\ Turn(f) \in 1 .. Length(n) /\ Writes(Command(n, Turn(f)))
    /\ Command(n, Turn(f)).what = f

\* and the recorded outputs are files the script writes.
Reports(n) == \A f \in Outputs[Order[n]] : Maker(f) = n

\* What the proofs use of a script.
StageFits(n) == /\ Length(n) \in Nat /\ DOMAIN Script[Order[n]] = 1 .. Length(n)
                /\ MakesAll(n) /\ Reports(n) /\ MadeOnce(n) /\ MadeBefore(n)
                /\ Sourced(n) /\ Compared(n) /\ FinalLast(n)

\* The stages of build.py, counted.
LEMMA OrderIs ==
    /\ Len(Order) = 13
    /\ Order[1] = "fna" /\ Order[2] = "sdl" /\ Order[3] = "fna3d" /\ Order[4] = "everest"
    /\ Order[5] = "prepare-game" /\ Order[6] = "mesa" /\ Order[7] = "fmod" /\ Order[8] = "lua"
    /\ Order[9] = "graphics" /\ Order[10] = "host" /\ Order[11] = "content"
    /\ Order[12] = "performance-mod" /\ Order[13] = "package"
BY DEF Order

\* The stages as a set.
LEMMA StagesAre ==
    Stages = {"fna", "sdl", "fna3d", "everest", "prepare-game", "mesa", "fmod", "lua",
              "graphics", "host", "content", "performance-mod", "package"}
<1>1. DOMAIN Order = 1 .. 13
  BY OrderIs DEF Order
<1>2. Stages = {Order[i] : i \in 1 .. 13}
  BY <1>1 DEF Stages, ToSet
<1> QED
  BY <1>2, OrderIs

\* The script of each stage.
LEMMA ScriptsAre ==
    /\ Script["fna"] = <<Make("fna", {})>>
    /\ Script["sdl"] = <<Make("sdl", {}), Seal("sdl.json", {"sdl"})>>
    /\ Script["fna3d"] = <<Make("fna3d", {})>>
    /\ Script["everest"] = <<Make("everest", {}), Seal("everest.json", {})>>
    /\ Script["prepare-game"] = PrepareGame /\ Script["mesa"] = Mesa
    /\ Script["fmod"] = Fmod /\ Script["lua"] = Lua /\ Script["graphics"] = Graphics
    /\ Script["host"] = Host /\ Script["content"] = Content
    /\ Script["performance-mod"] = Performance /\ Script["package"] = Package
BY StagesAre DEF Script

\* The recorded outputs of each stage.
LEMMA OutputsAre ==
    /\ Outputs["fna"] = {"fna"} /\ Outputs["sdl"] = {"sdl", "sdl.json"}
    /\ Outputs["fna3d"] = {"fna3d"} /\ Outputs["everest"] = {"everest.json"}
    /\ Outputs["prepare-game"] = {"celeste", "outputs.json"}
    /\ Outputs["mesa"] = {"mesa", "mesa.json"} /\ Outputs["fmod"] = {"fmod.json"}
    /\ Outputs["lua"] = {"lua", "lua.json"}
    /\ Outputs["graphics"] = {"graphics.json", "imports.json"}
    /\ Outputs["host"] = {"nro", "host.json"} /\ Outputs["content"] = {"content.json"}
    /\ Outputs["performance-mod"] = {"mod"}
    /\ Outputs["package"] = {"installation.json", "zip"}
BY StagesAre DEF Outputs

\* The last file of each directory.
LEMMA FinalsAre ==
    /\ Final["prepare-game"] = "outputs.json" /\ Final["mesa"] = "mesa.json"
    /\ Final["fmod"] = "fmod.json" /\ Final["lua"] = "lua.json"
    /\ Final["graphics"] = "graphics.json" /\ Final["host"] = "host.json"
    /\ Final["content"] = "content.json" /\ Final["performance-mod"] = "package.json"
    /\ Final["package"] = "zip"
BY DEF Final, Fresh

\* The table of the makers and turns, file by file.
LEMMA Places ==
    /\ Maker("fna") = 1 /\ Turn("fna") = 1 /\ Maker("sdl") = 2 /\ Turn("sdl") = 1
    /\ Maker("sdl.json") = 2 /\ Turn("sdl.json") = 2 /\ Maker("fna3d") = 3 /\ Turn("fna3d") = 1
    /\ Maker("everest") = 4 /\ Turn("everest") = 1
    /\ Maker("everest.json") = 4 /\ Turn("everest.json") = 2
    /\ Maker("libraries") = 5 /\ Turn("libraries") = 2
    /\ Maker("celeste") = 5 /\ Turn("celeste") = 4
    /\ Maker("outputs.json") = 5 /\ Turn("outputs.json") = 6
    /\ Maker("mesa") = 6 /\ Turn("mesa") = 3 /\ Maker("mesa.json") = 6 /\ Turn("mesa.json") = 4
    /\ Maker("sdk") = 7 /\ Turn("sdk") = 4 /\ Maker("loader") = 7 /\ Turn("loader") = 5
    /\ Maker("fmod.json") = 7 /\ Turn("fmod.json") = 6 /\ Maker("lua") = 8 /\ Turn("lua") = 2
    /\ Maker("lua.json") = 8 /\ Turn("lua.json") = 4
    /\ Maker("imports.json") = 9 /\ Turn("imports.json") = 3
    /\ Maker("graphics.json") = 9 /\ Turn("graphics.json") = 4
    /\ Maker("objects") = 10 /\ Turn("objects") = 6 /\ Maker("managed") = 10 /\ Turn("managed") = 8
    /\ Maker("nro") = 10 /\ Turn("nro") = 9 /\ Maker("payload") = 10 /\ Turn("payload") = 10
    /\ Maker("host.json") = 10 /\ Turn("host.json") = 11
    /\ Maker("unlisted") = 11 /\ Turn("unlisted") = 4
    /\ Maker("content") = 11 /\ Turn("content") = 5
    /\ Maker("content.json") = 11 /\ Turn("content.json") = 6
    /\ Maker("mod") = 12 /\ Turn("mod") = 2
    /\ Maker("package.json") = 12 /\ Turn("package.json") = 3
    /\ Maker("card.managed") = 13 /\ Turn("card.managed") = 6
    /\ Maker("card.lib") = 13 /\ Turn("card.lib") = 7
    /\ Maker("card.content") = 13 /\ Turn("card.content") = 8
    /\ Maker("card.nro") = 13 /\ Turn("card.nro") = 9
    /\ Maker("card.mod") = 13 /\ Turn("card.mod") = 10
    /\ Maker("installation.json") = 13 /\ Turn("installation.json") = 11
    /\ Maker("zip") = 13 /\ Turn("zip") = 12
BY DEF Maker, Turn

\* The recorded outputs are those of their makers.
LEMMA Reported == \A f \in {
    "fna", "sdl", "sdl.json", "fna3d", "everest.json", "celeste", "outputs.json", "mesa",
    "mesa.json", "fmod.json", "lua", "lua.json", "graphics.json", "imports.json", "nro",
    "host.json", "content.json", "mod", "installation.json", "zip"} :
    f \in Outputs[Order[Maker(f)]]
BY OrderIs, OutputsAre, Places

\* The commands of fna.
LEMMA FnaCommands ==
    /\ Length(1) = 1 /\ DOMAIN Script[Order[1]] = 1 .. 1 /\ Command(1, 1) = Make("fna", {})
BY OrderIs, ScriptsAre DEF Length, Command

\* The commands of sdl.
LEMMA SdlCommands ==
    /\ Length(2) = 2 /\ DOMAIN Script[Order[2]] = 1 .. 2 /\ Command(2, 1) = Make("sdl", {})
    /\ Command(2, 2) = Seal("sdl.json", {"sdl"})
BY OrderIs, ScriptsAre DEF Length, Command

\* The commands of fna3d.
LEMMA Fna3dCommands ==
    /\ Length(3) = 1 /\ DOMAIN Script[Order[3]] = 1 .. 1 /\ Command(3, 1) = Make("fna3d", {})
BY OrderIs, ScriptsAre DEF Length, Command

\* The commands of everest.
LEMMA EverestCommands ==
    /\ Length(4) = 2 /\ DOMAIN Script[Order[4]] = 1 .. 2 /\ Command(4, 1) = Make("everest", {})
    /\ Command(4, 2) = Seal("everest.json", {})
BY OrderIs, ScriptsAre DEF Length, Command

\* The commands of prepare-game.
LEMMA PrepareGameCommands ==
    /\ Length(5) = 6 /\ DOMAIN Script[Order[5]] = 1 .. 6 /\ Command(5, 1) = Mkdir
    /\ Command(5, 2) = Make("libraries", {"everest"}) /\ Command(5, 3) = Valid({"game"})
    /\ Command(5, 4) = Make("celeste", {"game", "everest", "libraries", "fna"})
    /\ Command(5, 5) = Need({"celeste"}) /\ Command(5, 6) = Seal("outputs.json", {"celeste"})
BY OrderIs, ScriptsAre DEF Length, Command, PrepareGame

\* The commands of mesa.
LEMMA MesaCommands ==
    /\ Length(6) = 4 /\ DOMAIN Script[Order[6]] = 1 .. 4 /\ Command(6, 1) = Absent
    /\ Command(6, 2) = Mkdir /\ Command(6, 3) = Make("mesa", {})
    /\ Command(6, 4) = Seal("mesa.json", {"mesa"})
BY OrderIs, ScriptsAre DEF Length, Command, Mesa

\* The commands of fmod.
LEMMA FmodCommands ==
    /\ Length(7) = 6 /\ DOMAIN Script[Order[7]] = 1 .. 6 /\ Command(7, 1) = Valid({"fmod.tar"})
    /\ Command(7, 2) = Absent /\ Command(7, 3) = Mkdir
    /\ Command(7, 4) = Make("sdk", {"fmod.tar"}) /\ Command(7, 5) = Make("loader", {"sdk"})
    /\ Command(7, 6) = Seal("fmod.json", {"sdk"})
BY OrderIs, ScriptsAre DEF Length, Command, Fmod

\* The commands of lua.
LEMMA LuaCommands ==
    /\ Length(8) = 4 /\ DOMAIN Script[Order[8]] = 1 .. 4 /\ Command(8, 1) = Mkdir
    /\ Command(8, 2) = Make("lua", {}) /\ Command(8, 3) = Need({"libraries"})
    /\ Command(8, 4) = Seal("lua.json", {"lua"})
BY OrderIs, ScriptsAre DEF Length, Command, Lua

\* The commands of graphics.
LEMMA GraphicsCommands ==
    /\ Length(9) = 4 /\ DOMAIN Script[Order[9]] = 1 .. 4
    /\ Command(9, 1) = Need({"fna", "fna3d", "sdl", "mesa"}) /\ Command(9, 2) = Mkdir
    /\ Command(9, 3) = Make("imports.json", {"fna", "fna3d", "sdl"})
    /\ Command(9, 4) = Seal("graphics.json", {"fna3d", "sdl", "mesa"})
BY OrderIs, ScriptsAre DEF Length, Command, Graphics

\* The commands of host.
LEMMA HostCommands ==
    /\ Length(10) = 11 /\ DOMAIN Script[Order[10]] = 1 .. 11 /\ Command(10, 1) = Mkdir
    /\ Command(10, 2) = Check("fmod.json", {"sdk"})
    /\ Command(10, 3) = Check("graphics.json", {"fna3d", "sdl", "mesa"})
    /\ Command(10, 4) = Check("sdl.json", {"sdl"})
    /\ Command(10, 5) = Check("lua.json", {"lua"})
    /\ Command(10, 6) = Make("objects", {"loader", "sdk"}) /\ Command(10, 7) = Closure
    /\ Command(10, 8) = Make("managed", {"celeste", "libraries"})
    /\ Command(10, 9) = Make("nro", {"objects", "fna3d", "sdl", "mesa", "lua", "imports.json"})
    /\ Command(10, 10) = Make("payload", {"sdk"})
    /\ Command(10, 11) = Seal("host.json", {"nro"})
<1> DEFINE T == {HostInputs[i] : i \in 1 .. 5} \union {HostObjects[1], Closure}
                    \union {HostOutputs[i] : i \in 1 .. 4}
           one == HostInputs \o HostObjects
           two == one \o <<Closure>>
<1>1. HostInputs \in Seq(T) /\ Len(HostInputs) = 5
  BY DEF HostInputs
<1>2. HostObjects \in Seq(T) /\ Len(HostObjects) = 1
  BY DEF HostObjects
<1>3. HostOutputs \in Seq(T) /\ Len(HostOutputs) = 4
  BY DEF HostOutputs
<1>4. <<Closure>> \in Seq(T) /\ Len(<<Closure>>) = 1
  OBVIOUS
<1> HIDE DEF T
<1>5. /\ one \in Seq(T) /\ Len(one) = 6
      /\ \A i \in 1 .. 5 : one[i] = HostInputs[i]
      /\ one[6] = HostObjects[1]
  <2>1. /\ one \in Seq(T) /\ Len(one) = Len(HostInputs) + Len(HostObjects)
        /\ \A i \in 1 .. Len(HostInputs) + Len(HostObjects) : one[i] =
              IF i <= Len(HostInputs) THEN HostInputs[i] ELSE HostObjects[i - Len(HostInputs)]
    BY <1>1, <1>2, ConcatProperties
  <2> HIDE DEF one
  <2> QED
    BY <1>1, <1>2, <2>1
<1>6. /\ two \in Seq(T) /\ Len(two) = 7
      /\ \A i \in 1 .. 6 : two[i] = one[i]
      /\ two[7] = Closure
  <2> HIDE DEF one
  <2>1. /\ two \in Seq(T) /\ Len(two) = Len(one) + Len(<<Closure>>)
        /\ \A i \in 1 .. Len(one) + Len(<<Closure>>) : two[i] =
              IF i <= Len(one) THEN one[i] ELSE <<Closure>>[i - Len(one)]
    BY <1>4, <1>5, ConcatProperties
  <2> HIDE DEF two
  <2> QED
    BY <1>4, <1>5, <2>1
<1>7. /\ Len(Host) = 11
      /\ \A i \in 1 .. 7 : Host[i] = two[i]
      /\ \A i \in 1 .. 4 : Host[7 + i] = HostOutputs[i]
  <2> HIDE DEF two
  <2>1. Host = two \o HostOutputs
    BY DEF Host, two, one
  <2>2. /\ Len(Host) = Len(two) + Len(HostOutputs)
        /\ \A i \in 1 .. Len(two) + Len(HostOutputs) : Host[i] =
              IF i <= Len(two) THEN two[i] ELSE HostOutputs[i - Len(two)]
    BY <1>3, <1>6, <2>1, ConcatProperties
  <2> QED
    BY <1>3, <1>6, <2>2
<1> HIDE DEF one, two
<1>8. Length(10) = 11 /\ \A i \in 1 .. 11 : Command(10, i) = Host[i]
  BY <1>7, OrderIs, ScriptsAre DEF Length, Command
<1>9. \A i \in 1 .. 5 : Command(10, i) = HostInputs[i]
  BY <1>5, <1>6, <1>7, <1>8
<1>10. Command(10, 6) = HostObjects[1] /\ Command(10, 7) = Closure
  BY <1>5, <1>6, <1>7, <1>8
<1>11. /\ Command(10, 8) = HostOutputs[1] /\ Command(10, 9) = HostOutputs[2]
       /\ Command(10, 10) = HostOutputs[3] /\ Command(10, 11) = HostOutputs[4]
  BY <1>7, <1>8
<1>12. DOMAIN Script[Order[10]] = 1 .. 11
  <2>1. Host \in Seq(T)
    BY <1>3, <1>6, ConcatProperties DEF Host, two, one
  <2>2. DOMAIN Host = 1 .. 11
    BY <1>7, <2>1
  <2> QED
    BY <2>2, OrderIs, ScriptsAre
<1> QED
  BY <1>8, <1>9, <1>10, <1>11, <1>12 DEF HostInputs, HostObjects, HostOutputs

\* The commands of content.
LEMMA ContentCommands ==
    /\ Length(11) = 6 /\ DOMAIN Script[Order[11]] = 1 .. 6 /\ Command(11, 1) = Absent
    /\ Command(11, 2) = Valid({"assets"}) /\ Command(11, 3) = Mkdir
    /\ Command(11, 4) = Make("unlisted", {}) /\ Command(11, 5) = Make("content", {"assets"})
    /\ Command(11, 6) = Seal("content.json", {"content"})
BY OrderIs, ScriptsAre DEF Length, Command, Content

\* The commands of performance-mod.
LEMMA PerformanceCommands ==
    /\ Length(12) = 3 /\ DOMAIN Script[Order[12]] = 1 .. 3 /\ Command(12, 1) = Mkdir
    /\ Command(12, 2) = Make("mod", {"celeste", "libraries"})
    /\ Command(12, 3) = Seal("package.json", {"mod"})
BY OrderIs, ScriptsAre DEF Length, Command, Performance

\* The commands of package.
LEMMA PackageCommands ==
    /\ Length(13) = 12 /\ DOMAIN Script[Order[13]] = 1 .. 12 /\ Command(13, 1) = Absent
    /\ Command(13, 2) = Check("host.json", {"nro"})
    /\ Command(13, 3) = Check("content.json", {"content"})
    /\ Command(13, 4) = Need({"managed", "payload"}) /\ Command(13, 5) = Mkdir
    /\ Command(13, 6) = Make("card.managed", {"managed"})
    /\ Command(13, 7) = Make("card.lib", {"payload"})
    /\ Command(13, 8) = Make("card.content", {"content", "unlisted"})
    /\ Command(13, 9) = Make("card.nro", {"nro"}) /\ Command(13, 10) = Make("card.mod", {"mod"})
    /\ Command(13, 11) = Seal("installation.json", Card) /\ Command(13, 12) = Seal("zip", Card)
BY OrderIs, ScriptsAre DEF Length, Command, Package

\* The script of fna is as the proofs use it.
LEMMA FnaFits == StageFits(1)
<1>1. MadeOnce(1)
  BY FnaCommands, Places DEF MadeOnce, Writes, Make
<1>2. MadeBefore(1)
  BY FnaCommands, Places DEF MadeBefore, Inputs, Make
<1>3. Sourced(1)
  BY FnaCommands DEF Sourced, Writes, Make
<1>4. Compared(1)
  BY FnaCommands DEF Compared, Make
<1>5. FinalLast(1)
  BY OrderIs DEF FinalLast, Fresh
<1>6. MakesAll(1)
  BY FnaCommands, Places DEF MakesAll, Maker, Writes, Make
<1>7. Reports(1)
  BY OrderIs, OutputsAre, Places DEF Reports
<1> QED
  BY <1>1, <1>2, <1>3, <1>4, <1>5, <1>6, <1>7, FnaCommands DEF StageFits

\* The script of sdl is as the proofs use it.
LEMMA SdlFits == StageFits(2)
<1>1. MadeOnce(2)
  BY SdlCommands, Places DEF MadeOnce, Writes, Make, Seal
<1>2. MadeBefore(2)
  BY SdlCommands, Places DEF MadeBefore, Inputs, Make, Seal
<1>3. Sourced(2)
  <2> SUFFICES ASSUME NEW i \in 1 .. 2, Writes(Command(2, i)), NEW f \in Command(2, i).of
               PROVE  SourceFits(2, i, f)
    BY SdlCommands DEF Sourced
  <2>1. CASE i = 1
    BY SdlCommands, <2>1 DEF Make
  <2>2. CASE i = 2
    BY SdlCommands, <2>2, Places DEF SourceFits, Known, Seal
  <2> QED
    BY SdlCommands, <2>1, <2>2 DEF Writes, Make, Seal
<1>4. Compared(2)
  BY SdlCommands DEF Compared, Make, Seal
<1>5. FinalLast(2)
  BY OrderIs DEF FinalLast, Fresh
<1>6. MakesAll(2)
  BY SdlCommands, Places DEF MakesAll, Maker, Writes, Make, Seal
<1>7. Reports(2)
  BY OrderIs, OutputsAre, Places DEF Reports
<1> QED
  BY <1>1, <1>2, <1>3, <1>4, <1>5, <1>6, <1>7, SdlCommands DEF StageFits

\* The script of fna3d is as the proofs use it.
LEMMA Fna3dFits == StageFits(3)
<1>1. MadeOnce(3)
  BY Fna3dCommands, Places DEF MadeOnce, Writes, Make
<1>2. MadeBefore(3)
  BY Fna3dCommands, Places DEF MadeBefore, Inputs, Make
<1>3. Sourced(3)
  BY Fna3dCommands DEF Sourced, Writes, Make
<1>4. Compared(3)
  BY Fna3dCommands DEF Compared, Make
<1>5. FinalLast(3)
  BY OrderIs DEF FinalLast, Fresh
<1>6. MakesAll(3)
  BY Fna3dCommands, Places DEF MakesAll, Maker, Writes, Make
<1>7. Reports(3)
  BY OrderIs, OutputsAre, Places DEF Reports
<1> QED
  BY <1>1, <1>2, <1>3, <1>4, <1>5, <1>6, <1>7, Fna3dCommands DEF StageFits

\* The script of everest is as the proofs use it.
LEMMA EverestFits == StageFits(4)
<1>1. MadeOnce(4)
  BY EverestCommands, Places DEF MadeOnce, Writes, Make, Seal
<1>2. MadeBefore(4)
  BY EverestCommands, Places DEF MadeBefore, Inputs, Make, Seal
<1>3. Sourced(4)
  BY EverestCommands DEF Sourced, Writes, Make, Seal
<1>4. Compared(4)
  BY EverestCommands DEF Compared, Make, Seal
<1>5. FinalLast(4)
  BY OrderIs DEF FinalLast, Fresh
<1>6. MakesAll(4)
  BY EverestCommands, Places DEF MakesAll, Maker, Writes, Make, Seal
<1>7. Reports(4)
  BY OrderIs, OutputsAre, Places DEF Reports
<1> QED
  BY <1>1, <1>2, <1>3, <1>4, <1>5, <1>6, <1>7, EverestCommands DEF StageFits

\* The script of prepare-game is as the proofs use it.
LEMMA PrepareGameFits == StageFits(5)
<1>1. MadeOnce(5)
  BY PrepareGameCommands, Places DEF MadeOnce, Writes, Mkdir, Make, Valid, Need, Seal
<1>2. MadeBefore(5)
  BY PrepareGameCommands, Places DEF MadeBefore, Inputs, Mkdir, Make, Valid, Need, Seal
<1>3. Sourced(5)
  <2> SUFFICES ASSUME NEW i \in 1 .. 6, Writes(Command(5, i)), NEW f \in Command(5, i).of
               PROVE  SourceFits(5, i, f)
    BY PrepareGameCommands DEF Sourced
  <2>1. CASE i = 2
    BY PrepareGameCommands, <2>1, Places DEF SourceFits, Make, Carries
  <2>2. CASE i = 4 /\ f = "game"
    BY PrepareGameCommands, <2>2 DEF SourceFits, Known, Make, Carries, Tests, Valid
  <2>3. CASE i = 4 /\ f = "everest"
    BY PrepareGameCommands, <2>3, Places DEF SourceFits, Make, Carries
  <2>4. CASE i = 4 /\ f = "libraries"
    BY PrepareGameCommands, <2>4, Places DEF SourceFits, Known, Make, Carries
  <2>5. CASE i = 4 /\ f = "fna"
    BY PrepareGameCommands, <2>5, Places, Reported DEF SourceFits, Known, Make, Carries
  <2>6. CASE i = 6
    BY PrepareGameCommands, <2>6, Places DEF SourceFits, Known, Seal
  <2> QED
    BY PrepareGameCommands, <2>1, <2>2, <2>3, <2>4, <2>5, <2>6
       DEF Writes, Mkdir, Make, Valid, Need, Seal
<1>4. Compared(5)
  BY PrepareGameCommands DEF Compared, Mkdir, Make, Valid, Need, Seal
<1>5. FinalLast(5)
  BY PrepareGameCommands, Places, OrderIs, FinalsAre
     DEF FinalLast, Writes, Mkdir, Make, Valid, Need, Seal
<1>6. MakesAll(5)
  BY PrepareGameCommands, Places DEF MakesAll, Maker, Writes, Mkdir, Make, Valid, Need, Seal
<1>7. Reports(5)
  BY OrderIs, OutputsAre, Places DEF Reports
<1> QED
  BY <1>1, <1>2, <1>3, <1>4, <1>5, <1>6, <1>7, PrepareGameCommands DEF StageFits

\* The script of mesa is as the proofs use it.
LEMMA MesaFits == StageFits(6)
<1>1. MadeOnce(6)
  BY MesaCommands, Places DEF MadeOnce, Writes, Absent, Mkdir, Make, Seal
<1>2. MadeBefore(6)
  BY MesaCommands, Places DEF MadeBefore, Inputs, Absent, Mkdir, Make, Seal
<1>3. Sourced(6)
  <2> SUFFICES ASSUME NEW i \in 1 .. 4, Writes(Command(6, i)), NEW f \in Command(6, i).of
               PROVE  SourceFits(6, i, f)
    BY MesaCommands DEF Sourced
  <2>1. CASE i = 3
    BY MesaCommands, <2>1 DEF Make
  <2>2. CASE i = 4
    BY MesaCommands, <2>2, Places DEF SourceFits, Known, Seal
  <2> QED
    BY MesaCommands, <2>1, <2>2 DEF Writes, Absent, Mkdir, Make, Seal
<1>4. Compared(6)
  BY MesaCommands DEF Compared, Absent, Mkdir, Make, Seal
<1>5. FinalLast(6)
  BY MesaCommands, Places, OrderIs, FinalsAre
     DEF FinalLast, Writes, Absent, Mkdir, Make, Seal
<1>6. MakesAll(6)
  BY MesaCommands, Places DEF MakesAll, Maker, Writes, Absent, Mkdir, Make, Seal
<1>7. Reports(6)
  BY OrderIs, OutputsAre, Places DEF Reports
<1> QED
  BY <1>1, <1>2, <1>3, <1>4, <1>5, <1>6, <1>7, MesaCommands DEF StageFits

\* The script of fmod is as the proofs use it.
LEMMA FmodFits == StageFits(7)
<1>1. MadeOnce(7)
  BY FmodCommands, Places DEF MadeOnce, Writes, Valid, Absent, Mkdir, Make, Seal
<1>2. MadeBefore(7)
  BY FmodCommands, Places DEF MadeBefore, Inputs, Valid, Absent, Mkdir, Make, Seal
<1>3. Sourced(7)
  <2> SUFFICES ASSUME NEW i \in 1 .. 6, Writes(Command(7, i)), NEW f \in Command(7, i).of
               PROVE  SourceFits(7, i, f)
    BY FmodCommands DEF Sourced
  <2>1. CASE i = 4
    BY FmodCommands, <2>1 DEF SourceFits, Known, Make, Carries, Tests, Valid
  <2>2. CASE i = 5
    BY FmodCommands, <2>2, Places DEF SourceFits, Known, Make, Carries
  <2>3. CASE i = 6
    BY FmodCommands, <2>3, Places DEF SourceFits, Known, Seal
  <2> QED
    BY FmodCommands, <2>1, <2>2, <2>3 DEF Writes, Valid, Absent, Mkdir, Make, Seal
<1>4. Compared(7)
  BY FmodCommands DEF Compared, Valid, Absent, Mkdir, Make, Seal
<1>5. FinalLast(7)
  BY FmodCommands, Places, OrderIs, FinalsAre
     DEF FinalLast, Writes, Valid, Absent, Mkdir, Make, Seal
<1>6. MakesAll(7)
  BY FmodCommands, Places DEF MakesAll, Maker, Writes, Valid, Absent, Mkdir, Make, Seal
<1>7. Reports(7)
  BY OrderIs, OutputsAre, Places DEF Reports
<1> QED
  BY <1>1, <1>2, <1>3, <1>4, <1>5, <1>6, <1>7, FmodCommands DEF StageFits

\* The script of lua is as the proofs use it.
LEMMA LuaFits == StageFits(8)
<1>1. MadeOnce(8)
  BY LuaCommands, Places DEF MadeOnce, Writes, Mkdir, Make, Need, Seal
<1>2. MadeBefore(8)
  BY LuaCommands, Places DEF MadeBefore, Inputs, Mkdir, Make, Need, Seal
<1>3. Sourced(8)
  <2> SUFFICES ASSUME NEW i \in 1 .. 4, Writes(Command(8, i)), NEW f \in Command(8, i).of
               PROVE  SourceFits(8, i, f)
    BY LuaCommands DEF Sourced
  <2>1. CASE i = 2
    BY LuaCommands, <2>1 DEF Make
  <2>2. CASE i = 4
    BY LuaCommands, <2>2, Places DEF SourceFits, Known, Seal
  <2> QED
    BY LuaCommands, <2>1, <2>2 DEF Writes, Mkdir, Make, Need, Seal
<1>4. Compared(8)
  BY LuaCommands DEF Compared, Mkdir, Make, Need, Seal
<1>5. FinalLast(8)
  BY LuaCommands, Places, OrderIs, FinalsAre DEF FinalLast, Writes, Mkdir, Make, Need, Seal
<1>6. MakesAll(8)
  BY LuaCommands, Places DEF MakesAll, Maker, Writes, Mkdir, Make, Need, Seal
<1>7. Reports(8)
  BY OrderIs, OutputsAre, Places DEF Reports
<1> QED
  BY <1>1, <1>2, <1>3, <1>4, <1>5, <1>6, <1>7, LuaCommands DEF StageFits

\* The script of graphics is as the proofs use it.
LEMMA GraphicsFits == StageFits(9)
<1>1. MadeOnce(9)
  BY GraphicsCommands, Places DEF MadeOnce, Writes, Need, Mkdir, Make, Seal
<1>2. MadeBefore(9)
  BY GraphicsCommands, Places DEF MadeBefore, Inputs, Need, Mkdir, Make, Seal
<1>3. Sourced(9)
  <2> SUFFICES ASSUME NEW i \in 1 .. 4, Writes(Command(9, i)), NEW f \in Command(9, i).of
               PROVE  SourceFits(9, i, f)
    BY GraphicsCommands DEF Sourced
  <2>1. CASE i = 3
    BY GraphicsCommands, <2>1, Places, Reported DEF SourceFits, Known, Make, Carries
  <2>2. CASE i = 4
    BY GraphicsCommands, <2>2, Places, Reported DEF SourceFits, Known, Seal
  <2> QED
    BY GraphicsCommands, <2>1, <2>2 DEF Writes, Need, Mkdir, Make, Seal
<1>4. Compared(9)
  BY GraphicsCommands DEF Compared, Need, Mkdir, Make, Seal
<1>5. FinalLast(9)
  BY GraphicsCommands, Places, OrderIs, FinalsAre
     DEF FinalLast, Writes, Need, Mkdir, Make, Seal
<1>6. MakesAll(9)
  BY GraphicsCommands, Places DEF MakesAll, Maker, Writes, Need, Mkdir, Make, Seal
<1>7. Reports(9)
  BY OrderIs, OutputsAre, Places DEF Reports
<1> QED
  BY <1>1, <1>2, <1>3, <1>4, <1>5, <1>6, <1>7, GraphicsCommands DEF StageFits

\* The script of host is as the proofs use it.
LEMMA HostFits == StageFits(10)
<1>1. MadeOnce(10)
  BY HostCommands, Places DEF MadeOnce, Writes, Mkdir, Check, Make, Closure, Seal
<1>2. MadeBefore(10)
  BY HostCommands, Places DEF MadeBefore, Inputs, Mkdir, Check, Make, Closure, Seal
<1>3. Sourced(10)
  <2> SUFFICES ASSUME NEW i \in 1 .. 11, Writes(Command(10, i)), NEW f \in Command(10, i).of
               PROVE  SourceFits(10, i, f)
    BY HostCommands DEF Sourced
  <2>1. CASE i = 6 /\ f = "loader"
    BY HostCommands, <2>1, Places DEF SourceFits, Make, Carries
  <2>2. CASE i = 6 /\ f = "sdk"
    BY HostCommands, <2>2 DEF SourceFits, Known, Make, Carries, Tests, Check
  <2>3. CASE i = 8 /\ f = "celeste"
    BY HostCommands, <2>3, Places, Reported DEF SourceFits, Known, Make, Carries
  <2>4. CASE i = 8 /\ f = "libraries"
    BY HostCommands, <2>4, Places DEF SourceFits, Make, Carries
  <2>5. CASE i = 9 /\ f = "objects"
    BY HostCommands, <2>5, Places DEF SourceFits, Known, Make, Carries
  <2>6. CASE i = 9 /\ f \in {"fna3d", "sdl", "mesa", "lua"}
    BY HostCommands, <2>6 DEF SourceFits, Known, Make, Carries, Tests, Check
  <2>7. CASE i = 9 /\ f = "imports.json"
    BY HostCommands, <2>7, Places, Reported DEF SourceFits, Known, Make, Carries
  <2>8. CASE i = 10
    BY HostCommands, <2>8 DEF SourceFits, Known, Make, Carries, Tests, Check
  <2>9. CASE i = 11
    BY HostCommands, <2>9, Places DEF SourceFits, Known, Seal
  <2> QED
    BY HostCommands, <2>1, <2>2, <2>3, <2>4, <2>5, <2>6, <2>7, <2>8, <2>9
       DEF Writes, Mkdir, Check, Make, Closure, Seal
<1>4. Compared(10)
  <2> SUFFICES ASSUME NEW i \in 1 .. 11, Command(10, i).do = "check"
               PROVE  IsSealed(10, Command(10, i))
    BY HostCommands DEF Compared
  <2>1. CASE i = 2
    <3>1. /\ Command(7, 6).do = "seal" /\ Command(7, 6).what = Command(10, i).what
          /\ Command(10, i).of \subseteq Command(7, 6).of
      BY HostCommands, FmodCommands, <2>1 DEF Check, Seal
    <3> QED
      BY FmodCommands, <3>1 DEF IsSealed
  <2>2. CASE i = 3
    <3>1. /\ Command(9, 4).do = "seal" /\ Command(9, 4).what = Command(10, i).what
          /\ Command(10, i).of \subseteq Command(9, 4).of
      BY HostCommands, GraphicsCommands, <2>2 DEF Check, Seal
    <3> QED
      BY GraphicsCommands, <3>1 DEF IsSealed
  <2>3. CASE i = 4
    <3>1. /\ Command(2, 2).do = "seal" /\ Command(2, 2).what = Command(10, i).what
          /\ Command(10, i).of \subseteq Command(2, 2).of
      BY HostCommands, SdlCommands, <2>3 DEF Check, Seal
    <3> QED
      BY SdlCommands, <3>1 DEF IsSealed
  <2>4. CASE i = 5
    <3>1. /\ Command(8, 4).do = "seal" /\ Command(8, 4).what = Command(10, i).what
          /\ Command(10, i).of \subseteq Command(8, 4).of
      BY HostCommands, LuaCommands, <2>4 DEF Check, Seal
    <3> QED
      BY LuaCommands, <3>1 DEF IsSealed
  <2> QED
    BY HostCommands, <2>1, <2>2, <2>3, <2>4 DEF Mkdir, Check, Make, Closure, Seal
<1>5. FinalLast(10)
  BY HostCommands, Places, OrderIs, FinalsAre
     DEF FinalLast, Writes, Mkdir, Check, Make, Closure, Seal
<1>6. MakesAll(10)
  BY HostCommands, Places DEF MakesAll, Maker, Writes, Mkdir, Check, Make, Closure, Seal
<1>7. Reports(10)
  BY OrderIs, OutputsAre, Places DEF Reports
<1> QED
  BY <1>1, <1>2, <1>3, <1>4, <1>5, <1>6, <1>7, HostCommands DEF StageFits

\* The script of content is as the proofs use it.
LEMMA ContentFits == StageFits(11)
<1>1. MadeOnce(11)
  BY ContentCommands, Places DEF MadeOnce, Writes, Absent, Valid, Mkdir, Make, Seal
<1>2. MadeBefore(11)
  BY ContentCommands, Places DEF MadeBefore, Inputs, Absent, Valid, Mkdir, Make, Seal
<1>3. Sourced(11)
  <2> SUFFICES ASSUME NEW i \in 1 .. 6, Writes(Command(11, i)), NEW f \in Command(11, i).of
               PROVE  SourceFits(11, i, f)
    BY ContentCommands DEF Sourced
  <2>1. CASE i = 4
    BY ContentCommands, <2>1 DEF Make
  <2>2. CASE i = 5
    BY ContentCommands, <2>2 DEF SourceFits, Known, Make, Carries, Tests, Valid
  <2>3. CASE i = 6
    BY ContentCommands, <2>3, Places DEF SourceFits, Known, Seal
  <2> QED
    BY ContentCommands, <2>1, <2>2, <2>3 DEF Writes, Absent, Valid, Mkdir, Make, Seal
<1>4. Compared(11)
  BY ContentCommands DEF Compared, Absent, Valid, Mkdir, Make, Seal
<1>5. FinalLast(11)
  BY ContentCommands, Places, OrderIs, FinalsAre
     DEF FinalLast, Writes, Absent, Valid, Mkdir, Make, Seal
<1>6. MakesAll(11)
  BY ContentCommands, Places DEF MakesAll, Maker, Writes, Absent, Valid, Mkdir, Make, Seal
<1>7. Reports(11)
  BY OrderIs, OutputsAre, Places DEF Reports
<1> QED
  BY <1>1, <1>2, <1>3, <1>4, <1>5, <1>6, <1>7, ContentCommands DEF StageFits

\* The script of performance-mod is as the proofs use it.
LEMMA PerformanceFits == StageFits(12)
<1>1. MadeOnce(12)
  BY PerformanceCommands, Places DEF MadeOnce, Writes, Mkdir, Make, Seal
<1>2. MadeBefore(12)
  BY PerformanceCommands, Places DEF MadeBefore, Inputs, Mkdir, Make, Seal
<1>3. Sourced(12)
  <2> SUFFICES ASSUME NEW i \in 1 .. 3, Writes(Command(12, i)), NEW f \in Command(12, i).of
               PROVE  SourceFits(12, i, f)
    BY PerformanceCommands DEF Sourced
  <2>1. CASE i = 2 /\ f = "celeste"
    BY PerformanceCommands, <2>1, Places, Reported DEF SourceFits, Known, Make, Carries
  <2>2. CASE i = 2 /\ f = "libraries"
    BY PerformanceCommands, <2>2, Places DEF SourceFits, Make, Carries
  <2>3. CASE i = 3
    BY PerformanceCommands, <2>3, Places DEF SourceFits, Known, Seal
  <2> QED
    BY PerformanceCommands, <2>1, <2>2, <2>3 DEF Writes, Mkdir, Make, Seal
<1>4. Compared(12)
  BY PerformanceCommands DEF Compared, Mkdir, Make, Seal
<1>5. FinalLast(12)
  BY PerformanceCommands, Places, OrderIs, FinalsAre
     DEF FinalLast, Writes, Mkdir, Make, Seal
<1>6. MakesAll(12)
  BY PerformanceCommands, Places DEF MakesAll, Maker, Writes, Mkdir, Make, Seal
<1>7. Reports(12)
  BY OrderIs, OutputsAre, Places DEF Reports
<1> QED
  BY <1>1, <1>2, <1>3, <1>4, <1>5, <1>6, <1>7, PerformanceCommands DEF StageFits

\* The script of package is as the proofs use it.
LEMMA PackageFits == StageFits(13)
<1>1. MadeOnce(13)
  BY PackageCommands, Places DEF MadeOnce, Writes, Absent, Check, Need, Mkdir, Make, Seal
<1>2. MadeBefore(13)
  BY PackageCommands, Places
     DEF MadeBefore, Inputs, Card, Absent, Check, Need, Mkdir, Make, Seal
<1>3. Sourced(13)
  <2> SUFFICES ASSUME NEW i \in 1 .. 12, Writes(Command(13, i)), NEW f \in Command(13, i).of
               PROVE  SourceFits(13, i, f)
    BY PackageCommands DEF Sourced
  <2>1. CASE i = 6
    BY PackageCommands, <2>1, Places DEF SourceFits, Make, Carries
  <2>2. CASE i = 7
    BY PackageCommands, <2>2, Places DEF SourceFits, Make, Carries
  <2>3. CASE i = 8 /\ f = "content"
    BY PackageCommands, <2>3 DEF SourceFits, Known, Make, Carries, Tests, Check
  <2>8. CASE i = 8 /\ f = "unlisted"
    BY PackageCommands, <2>8, Places DEF SourceFits, Make, Carries
  <2>4. CASE i = 9
    BY PackageCommands, <2>4 DEF SourceFits, Known, Make, Carries, Tests, Check
  <2>5. CASE i = 10
    BY PackageCommands, <2>5, Places, Reported DEF SourceFits, Known, Make, Carries
  <2>6. CASE i = 11
    BY PackageCommands, <2>6, Places DEF SourceFits, Known, Seal, Card
  <2>7. CASE i = 12
    BY PackageCommands, <2>7, Places DEF SourceFits, Known, Seal, Card
  <2> QED
    BY PackageCommands, <2>1, <2>2, <2>3, <2>4, <2>5, <2>6, <2>7, <2>8
       DEF Writes, Card, Absent, Check, Need, Mkdir, Make, Seal
<1>4. Compared(13)
  <2> SUFFICES ASSUME NEW i \in 1 .. 12, Command(13, i).do = "check"
               PROVE  IsSealed(13, Command(13, i))
    BY PackageCommands DEF Compared
  <2>1. CASE i = 2
    <3>1. /\ Command(10, 11).do = "seal" /\ Command(10, 11).what = Command(13, i).what
          /\ Command(13, i).of \subseteq Command(10, 11).of
      BY PackageCommands, HostCommands, <2>1 DEF Check, Seal
    <3> QED
      BY HostCommands, <3>1 DEF IsSealed
  <2>2. CASE i = 3
    <3>1. /\ Command(11, 6).do = "seal" /\ Command(11, 6).what = Command(13, i).what
          /\ Command(13, i).of \subseteq Command(11, 6).of
      BY PackageCommands, ContentCommands, <2>2 DEF Check, Seal
    <3> QED
      BY ContentCommands, <3>1 DEF IsSealed
  <2> QED
    BY PackageCommands, <2>1, <2>2 DEF Absent, Check, Need, Mkdir, Make, Seal
<1>5. FinalLast(13)
  BY PackageCommands, Places, OrderIs, FinalsAre
     DEF FinalLast, Writes, Absent, Check, Need, Mkdir, Make, Seal
<1>6. MakesAll(13)
  BY PackageCommands, Places
     DEF MakesAll, Maker, Writes, Absent, Check, Need, Mkdir, Make, Seal
<1>7. Reports(13)
  BY OrderIs, OutputsAre, Places DEF Reports
<1> QED
  BY <1>1, <1>2, <1>3, <1>4, <1>5, <1>6, <1>7, PackageCommands DEF StageFits

\* So are all scripts.
LEMMA AllFit == \A n \in 1 .. 13 : StageFits(n)
BY FnaFits, SdlFits, Fna3dFits, EverestFits, PrepareGameFits, MesaFits, FmodFits,
   LuaFits, GraphicsFits, HostFits, ContentFits, PerformanceFits, PackageFits

(***************************************************************************)
(* Which files there are, and who writes them                              *)
(***************************************************************************)

\* The stages are numbered by the order.
LEMMA Numbers ==
    /\ \A n \in 1 .. 13 : Order[n] \in Stages
    /\ \A n, m \in 1 .. 13 : Order[n] = Order[m] => n = m
    /\ \A s \in Stages : \E n \in 1 .. 13 : s = Order[n]
    /\ Fresh \subseteq Stages
<1>1. \A n \in 1 .. 13 : Order[n] \in Stages
  BY OrderIs, StagesAre
<1>2. \A n, m \in 1 .. 13 : Order[n] = Order[m] => n = m
  BY OrderIs
<1>3. \A s \in Stages : \E n \in 1 .. 13 : s = Order[n]
  BY OrderIs, StagesAre
<1>4. Fresh \subseteq Stages
  BY StagesAre DEF Fresh
<1> QED
  BY <1>1, <1>2, <1>3, <1>4

\* A stage writes the files it is the maker of, so every file is of one stage.
LEMMA WroteIs ==
    ASSUME NEW n \in 1 .. 13, NEW f
    PROVE  f \in Wrote[Order[n]] <=> Maker(f) = n
<1>1. StageFits(n) /\ Order[n] \in Stages
  BY AllFit, Numbers
<1>2. f \in Wrote[Order[n]] <=> \E i \in 1 .. Length(n) :
          Writes(Command(n, i)) /\ Command(n, i).what = f
  BY <1>1 DEF Wrote, Writes, Command, ToSet, StageFits
<1> QED
  BY <1>1, <1>2 DEF StageFits, MadeOnce, MakesAll

\* The files are the inputs and what the stages write.
LEMMA FilesAre ==
    /\ \A f \in Inputs : f \in Files /\ Maker(f) = 0
    /\ \A f : Maker(f) \in 1 .. 13 => f \in Files
    /\ \A f \in Files : f \in Inputs \/ Maker(f) \in 1 .. 13
    /\ "torn" \notin Files /\ "missing" \notin Files
<1>1. \A f \in Inputs : f \in Files /\ Maker(f) = 0
  BY DEF Files, Inputs, Maker
<1>2. ASSUME NEW f, Maker(f) \in 1 .. 13 PROVE f \in Files
  <2>1. f \in Wrote[Order[Maker(f)]] /\ Order[Maker(f)] \in Stages
    BY <1>2, WroteIs, Numbers
  <2> QED
    BY <2>1 DEF Files
<1>3. ASSUME NEW f \in Files PROVE f \in Inputs \/ Maker(f) \in 1 .. 13
  <2> SUFFICES ASSUME NEW s \in Stages, f \in Wrote[s] PROVE Maker(f) \in 1 .. 13
    BY <1>3 DEF Files
  <2>1. PICK n \in 1 .. 13 : s = Order[n]
    BY Numbers
  <2> QED
    BY <2>1, WroteIs
<1>4. Maker("torn") = 0 /\ Maker("missing") = 0 /\ "torn" \notin Inputs /\ "missing" \notin Inputs
  BY DEF Maker, Inputs
<1> QED
  BY <1>1, <1>2, <1>3, <1>4

\* The maker of a file is the only stage that wrote it.
LEMMA OneMaker ==
    ASSUME NEW s \in Stages, NEW f \in Wrote[s]
    PROVE  f \in Files /\ f \notin Inputs /\ Maker(f) \in 1 .. 13 /\ s = Order[Maker(f)]
<1>1. PICK n \in 1 .. 13 : s = Order[n]
  BY Numbers
<1>2. Maker(f) = n
  BY <1>1, WroteIs
<1> QED
  BY <1>1, <1>2, FilesAre

\* The outputs of a stage are files it wrote.
LEMMA OutputsWritten == \A s \in Stages : Outputs[s] \subseteq Wrote[s]
<1> SUFFICES ASSUME NEW s \in Stages, NEW f \in Outputs[s] PROVE f \in Wrote[s]
  OBVIOUS
<1>1. PICK n \in 1 .. 13 : s = Order[n]
  BY Numbers
<1>2. Maker(f) = n
  BY <1>1, AllFit DEF StageFits, Reports
<1> QED
  BY <1>1, <1>2, WroteIs

\* What a command reads are files.
LEMMA ReadsFiles ==
    ASSUME NEW n \in 1 .. 13, NEW i \in 1 .. Length(n), NEW f \in Command(n, i).of
    PROVE  f \in Files
<1>1. f \in Inputs \/ Maker(f) \in 1 .. n - 1 \/ Maker(f) = n
  BY AllFit DEF StageFits, MadeBefore
<1> QED
  BY <1>1, FilesAre

\* A file that is as it was made is there and not torn.
LEMMA SoundIsWhole ==
    ASSUME NEW f, NEW c \in Contents, Sound(c, f)
    PROVE  c # NoFile /\ c \in SUBSET (Files \union {"torn"}) /\ "torn" \notin c
BY DEF Sound, Contents, Carries

\* Contents are not the mark of a missing file.
LEMMA NotMissing == \A c \in SUBSET (Files \union {"torn"}) : c # NoFile
BY FilesAre DEF NoFile

(***************************************************************************)
(* The run and what it knows                                               *)
(***************************************************************************)

\* A run inside of a script is at one of its commands, or has passed them all.
LEMMA RunAt ==
    ASSUME InstallationTypeOK, Place, InScript
    PROVE  /\ at \in 1 .. 13 /\ Stage = Order[at] /\ Stage \in Stages \ done
           /\ Len(Script[Stage]) = Length(at) /\ Length(at) \in Nat
           /\ step \in 1 .. Length(at) + 1 /\ Now = Command(at, step)
           /\ \A k : Script[Stage][k] = Command(at, k)
<1>1. at \in 1 .. 13
  BY OrderIs DEF InstallationTypeOK, Place
<1>2. Length(at) \in Nat
  BY <1>1, AllFit DEF StageFits
<1>3. Stage = Order[at] /\ Stage \in Stages \ done
  BY <1>1, Numbers DEF Stage, Place
<1>4. /\ Len(Script[Stage]) = Length(at) /\ Now = Command(at, step)
      /\ \A k : Script[Stage][k] = Command(at, k)
  BY DEF Stage, Now, Command, Length
<1>5. step \in Nat \ {0} /\ step <= Len(Script[Stage]) + 1
  BY DEF InstallationTypeOK, Place
<1>6. step \in 1 .. Length(at) + 1
  BY <1>2, <1>4, <1>5
<1> QED
  BY <1>1, <1>2, <1>3, <1>4, <1>6

\* The file a run writes is its stage's, made at this step and at no other.
LEMMA WriteAt ==
    ASSUME InstallationTypeOK, Place, InScript, step <= Length(at), Writes(Now)
    PROVE  /\ Maker(Now.what) = at /\ Turn(Now.what) = step
           /\ Now.what \in Files /\ Now.what \notin Inputs /\ Now.what \in Wrote[Stage]
           /\ \A s \in Stages : Now.what \in Wrote[s] => s = Stage
<1>1. at \in 1 .. 13 /\ step \in 1 .. Length(at) /\ Now = Command(at, step) /\ Stage = Order[at]
  BY RunAt
<1>2. Maker(Now.what) = at /\ Turn(Now.what) = step
  BY <1>1, AllFit DEF StageFits, MadeOnce
<1>3. Now.what \in Wrote[Stage] /\ Stage \in Stages
  BY <1>1, <1>2, WroteIs, Numbers
<1> QED
  BY <1>1, <1>2, <1>3, OneMaker

\* Files that are read or written by commands of the script that have been
\* passed are not the one that a later command writes.
LEMMA PassedApart ==
    ASSUME InstallationTypeOK, Place, InScript, NEW k \in 1 .. step - 1,
           NEW j \in step .. Length(at), Writes(Command(at, j))
    PROVE  /\ Command(at, j).what \notin Command(at, k).of
           /\ Writes(Command(at, k)) => Command(at, k).what # Command(at, j).what
<1>1. at \in 1 .. 13 /\ step \in 1 .. Length(at) + 1 /\ Length(at) \in Nat
  BY RunAt
<1>2. k \in 1 .. Length(at) /\ j \in 1 .. Length(at) /\ k < j
  BY <1>1
<1>3. Maker(Command(at, j).what) = at /\ Turn(Command(at, j).what) = j
  BY <1>1, <1>2, AllFit DEF StageFits, MadeOnce
<1>4. Writes(Command(at, k)) => Turn(Command(at, k).what) = k
  BY <1>1, <1>2, AllFit DEF StageFits, MadeOnce
<1>5. ASSUME NEW f \in Command(at, k).of
      PROVE  f \in Inputs \/ Maker(f) \in 1 .. at - 1 \/ (Maker(f) = at /\ Turn(f) \in 1 .. k - 1)
  BY <1>1, <1>2, AllFit DEF StageFits, MadeBefore
<1>6. ASSUME NEW f \in Command(at, k).of PROVE f # Command(at, j).what
  BY <1>1, <1>2, <1>3, <1>5, FilesAre
<1> QED
  BY <1>2, <1>3, <1>4, <1>6

\* A command does not read the file it writes.
LEMMA ReadsOthers ==
    ASSUME InstallationTypeOK, Place, InScript, step <= Length(at), Writes(Now)
    PROVE  /\ Now.what \notin Now.of /\ Now.of \subseteq Files
<1>1. at \in 1 .. 13 /\ step \in 1 .. Length(at) /\ Now = Command(at, step)
  BY RunAt
<1>2. Maker(Now.what) = at /\ Turn(Now.what) = step
  BY WriteAt
<1>3. ASSUME NEW f \in Now.of
      PROVE  f \in Inputs \/ Maker(f) \in 1 .. at - 1 \/ (Maker(f) = at /\ Turn(f) \in 1 .. step - 1)
  BY <1>1, AllFit DEF StageFits, MadeBefore
<1>4. ASSUME NEW f \in Now.of PROVE f # Now.what
  BY <1>1, <1>2, <1>3, FilesAre
<1> QED
  BY <1>1, <1>4, ReadsFiles

\* What a run knows comes from an earlier stage or from a passed command.
LEMMA TrustedFrom ==
    ASSUME NEW f \in Trusted
    PROVE  \/ \E i \in 1 .. at - 1 : f \in Outputs[Order[i]]
           \/ \E k \in 1 .. step - 1 : f \in Gained(Command(at, k))
<1> DEFINE A == UNION {Outputs[Order[i]] : i \in 1 .. at - 1}
           B == UNION {Gained(Script[Stage][k]) : k \in 1 .. step - 1}
<1> Trusted = A \union B
  BY DEF Trusted
<1>1. CASE f \in A
  BY <1>1
<1>2. CASE f \in B
  BY <1>2 DEF Command, Stage
<1> HIDE DEF A, B
<1> QED
  BY <1>1, <1>2

\* The outputs of earlier stages and what passed commands gained is known.
LEMMA TrustedHas ==
    /\ \A i \in 1 .. at - 1 : Outputs[Order[i]] \subseteq Trusted
    /\ \A k \in 1 .. step - 1 : Gained(Command(at, k)) \subseteq Trusted
<1> DEFINE A == UNION {Outputs[Order[i]] : i \in 1 .. at - 1}
           B == UNION {Gained(Script[Stage][k]) : k \in 1 .. step - 1}
<1> Trusted = A \union B
  BY DEF Trusted
<1>1. \A i \in 1 .. at - 1 : Outputs[Order[i]] \subseteq A
  OBVIOUS
<1>2. \A k \in 1 .. step - 1 : Gained(Command(at, k)) \subseteq B
  BY DEF Command, Stage
<1> HIDE DEF A, B
<1> QED
  BY <1>1, <1>2

\* So it is a file, and none that a later command writes.
LEMMA TrustedApart ==
    ASSUME InstallationTypeOK, Place, InScript, NEW f \in Trusted
    PROVE  /\ f \in Files
           /\ \A j \in step .. Length(at) : Writes(Command(at, j)) => f # Command(at, j).what
<1>1. at \in 1 .. 13 /\ step \in 1 .. Length(at) + 1 /\ Length(at) \in Nat
  BY RunAt
<1>2. CASE \E i \in 1 .. at - 1 : f \in Outputs[Order[i]]
  <2>1. Maker(f) \in 1 .. at - 1
    <3>1. PICK i \in 1 .. at - 1 : f \in Outputs[Order[i]]
      BY <1>2
    <3>2. i \in 1 .. 13
      BY <1>1
    <3>3. Maker(f) = i
      BY <3>1, <3>2, AllFit DEF StageFits, Reports
    <3> QED
      BY <3>3
  <2>2. f \in Files
    BY <1>1, <2>1, FilesAre
  <2>3. ASSUME NEW j \in step .. Length(at), Writes(Command(at, j))
        PROVE  f # Command(at, j).what
    <3>1. j \in 1 .. Length(at)
      BY <1>1
    <3>2. Maker(Command(at, j).what) = at
      BY <1>1, <2>3, <3>1, AllFit DEF StageFits, MadeOnce
    <3> QED
      BY <1>1, <2>1, <3>2
  <2> QED
    BY <2>2, <2>3
<1>3. CASE \E k \in 1 .. step - 1 : f \in Gained(Command(at, k))
  <2>1. PICK k \in 1 .. step - 1 : f \in Gained(Command(at, k))
    BY <1>3
  <2>2. k \in 1 .. Length(at)
    BY <1>1
  <2>3. \/ Writes(Command(at, k)) /\ f = Command(at, k).what
        \/ f \in Command(at, k).of
    BY <2>1 DEF Gained, Writes
  <2>4. f \in Files
    <3>1. CASE Writes(Command(at, k)) /\ f = Command(at, k).what
      <4>1. Maker(f) = at
        BY <1>1, <2>2, <3>1, AllFit DEF StageFits, MadeOnce
      <4> QED
        BY <1>1, <4>1, FilesAre
    <3>2. CASE f \in Command(at, k).of
      BY <1>1, <2>2, <3>2, ReadsFiles
    <3> QED
      BY <2>3, <3>1, <3>2
  <2> QED
    BY <2>3, <2>4, PassedApart
<1> QED
  BY <1>2, <1>3, TrustedFrom

\* What a command may rely on is known when it runs.
LEMMA KnownTrusted ==
    ASSUME InstallationTypeOK, Place, InScript, NEW f, Known(at, step, f)
    PROVE  f \in Trusted
<1>1. at \in 1 .. 13 /\ step \in 1 .. Length(at) + 1 /\ Length(at) \in Nat
  BY RunAt
<1>2. CASE Maker(f) \in 1 .. at - 1 /\ f \in Outputs[Order[Maker(f)]]
  BY <1>2, TrustedHas
<1>3. CASE Maker(f) = at /\ Turn(f) \in 1 .. step - 1
  <2>1. Writes(Command(at, Turn(f))) /\ Command(at, Turn(f)).what = f
    BY <1>1, <1>3, AllFit DEF StageFits, MakesAll
  <2>2. f \in Gained(Command(at, Turn(f)))
    BY <2>1 DEF Gained, Writes
  <2> QED
    BY <1>3, <2>2, TrustedHas
<1>4. CASE \E k \in 1 .. step - 1 : Tests(Command(at, k)) /\ f \in Command(at, k).of
  <2>1. PICK k \in 1 .. step - 1 : Tests(Command(at, k)) /\ f \in Command(at, k).of
    BY <1>4
  <2>2. f \in Gained(Command(at, k))
    BY <2>1 DEF Gained, Tests
  <2> QED
    BY <2>2, TrustedHas
<1> QED
  BY <1>2, <1>3, <1>4 DEF Known

\* A run that goes on to the next command knows what it gained by this one.
LEMMA TrustedGrows ==
    ASSUME InstallationTypeOK, at' = at, step' = step + 1, NEW f \in Trusted'
    PROVE  f \in Trusted \/ f \in Gained(Command(at, step))
<1>1. \/ \E i \in 1 .. at - 1 : f \in Outputs[Order[i]]
      \/ \E k \in 1 .. step : f \in Gained(Command(at, k))
  <2> DEFINE A == UNION {Outputs[Order[i]] : i \in 1 .. at - 1}
             B == UNION {Gained(Command(at, k)) : k \in 1 .. step}
  <2>1. Trusted' = A \union (UNION {Gained(Command(at, k)) : k \in 1 .. (step + 1) - 1})
    BY DEF Trusted, Command, Stage
  <2>2. (step + 1) - 1 = step
    BY DEF InstallationTypeOK
  <2>3. Trusted' = A \union B
    BY <2>1, <2>2
  <2>4. CASE f \in A
    BY <2>4
  <2>5. CASE f \in B
    BY <2>5
  <2> HIDE DEF A, B
  <2> QED
    BY <2>3, <2>4, <2>5
<1>2. ASSUME NEW k \in 1 .. step PROVE k \in 1 .. step - 1 \/ k = step
  BY DEF InstallationTypeOK
<1> QED
  BY <1>1, <1>2, TrustedHas

\* A run that goes on to the next stage knows the outputs of this one.
LEMMA TrustedNext ==
    ASSUME InstallationTypeOK, at' = at + 1, step' = 1, NEW f \in Trusted'
    PROVE  f \in Outputs[Stage] \/ \E i \in 1 .. at - 1 : f \in Outputs[Order[i]]
<1>1. \E i \in 1 .. at : f \in Outputs[Order[i]]
  BY DEF Trusted, InstallationTypeOK
<1>2. ASSUME NEW i \in 1 .. at PROVE i \in 1 .. at - 1 \/ i = at
  BY DEF InstallationTypeOK
<1> QED
  BY <1>1, <1>2 DEF Stage

(***************************************************************************)
(* The inductive invariant                                                 *)
(***************************************************************************)

\* A build begins with the inputs alone.
LEMMA InstallationInit == Init => InstallationInv
<1> SUFFICES ASSUME Init PROVE InstallationInv
  OBVIOUS
<1>1. PICK bad \in SUBSET Inputs :
          file = [f \in Files |-> IF f \in Inputs THEN {f} \intersect bad ELSE NoFile]
  BY DEF Init
<1>2. /\ dirs = {} /\ vouch = [f \in Files |-> Silent] /\ out = "none" /\ done = {}
      /\ digest = [f \in Files |-> NoFile] /\ pc = "idle" /\ at = 1 /\ step = 1
      /\ outcome = "none"
  BY DEF Init
<1>3. \A f \in Inputs : file[f] = {f} \intersect bad /\ f \in Files /\ f # "torn"
  BY <1>1, FilesAre
<1>4. \A f \in Files \ Inputs : file[f] = NoFile
  BY <1>1
<1>5. InstallationTypeOK
  <2>1. \A f \in Files : (IF f \in Inputs THEN {f} \intersect bad ELSE NoFile) \in Contents
    BY FilesAre DEF Contents
  <2>2. file \in [Files -> Contents]
    BY <1>1, <2>1
  <2>3. digest \in [Files -> Contents]
    BY <1>2 DEF Contents
  <2>4. vouch = [f \in Files |-> vouch[f]]
    BY <1>2
  <2>5. at \in 1 .. Len(Order) + 1
    BY <1>2, OrderIs
  <2>6. dirs \subseteq Stages /\ done \subseteq Stages
    BY <1>2
  <2>7. pc \in {"idle", "first", "stage", "step", "writing"} /\ step \in Nat \ {0}
    BY <1>2
  <2>8. /\ out \in {"none", "empty", "recorded"}
        /\ outcome \in {"none", "finished", "refused", "interrupted"}
    BY <1>2
  <2> QED
    BY <2>2, <2>3, <2>4, <2>5, <2>6, <2>7, <2>8 DEF InstallationTypeOK
<1>6. Bounded
  BY <1>3, <1>4 DEF Bounded
<1>7. RecordSound /\ ZipFits
  BY <1>2 DEF RecordSound, ZipFits
<1>8. VouchSound
  <2> SUFFICES ASSUME NEW s \in Stages, NEW c \in ToSet(Script[s]), c.do = "seal"
               PROVE  vouch[c.what] = Silent
    BY DEF VouchSound
  <2>1. c.what \in Wrote[s]
    BY DEF Wrote
  <2> QED
    BY <1>2, <2>1, OneMaker
<1>9. DoneWhole
  BY <1>2, <1>3 DEF DoneWhole
<1>10. DirectoryFirst
  BY <1>4, OneMaker, Numbers DEF DirectoryFirst
<1>11. Place /\ KnownSound /\ SealsFit /\ NothingAhead
  BY <1>2 DEF Place, KnownSound, SealsFit, NothingAhead, InScript
<1>12. FinishedAccounts
  BY <1>2 DEF FinishedAccounts
<1> QED
  BY <1>5, <1>6, <1>7, <1>8, <1>9, <1>10, <1>11, <1>12 DEF InstallationInv, DiskInv, RunInv

\* A run that ended knows nothing.
LEMMA IdleRun ==
    ASSUME pc' = "idle", at' = 1, step' = 1
    PROVE  RunInv'
BY DEF RunInv, Place, KnownSound, SealsFit, NothingAhead, InScript

\* What is on the disk and in the record stays as it is.
LEMMA DiskStays ==
    ASSUME DiskInv, UNCHANGED <<file, dirs, vouch, done, digest>>
    PROVE  DiskInv'
BY DEF DiskInv, Bounded, RecordSound, VouchSound, DoneWhole, ZipFits, DirectoryFirst

\* Only a build that finishes has something to account for.
LEMMA OthersUnfinished == ASSUME outcome' # "finished" PROVE FinishedAccounts'
BY DEF FinishedAccounts

\* A run that stops, other than by finishing, keeps the invariant.
LEMMA StopKeeps ==
    ASSUME InstallationInv, NEW how \in {"refused", "interrupted"}, Stop(how),
           UNCHANGED <<file, dirs, vouch, done, digest>>, out' \in {"none", "empty", "recorded"}
    PROVE  InstallationInv'
<1>1. pc' = "idle" /\ at' = 1 /\ step' = 1 /\ outcome' = how
  BY DEF Stop
<1>2. InstallationTypeOK'
  BY <1>1, OrderIs DEF InstallationInv, InstallationTypeOK
<1>3. DiskInv'
  BY DiskStays DEF InstallationInv
<1>4. RunInv'
  BY <1>1, IdleRun
<1>5. FinishedAccounts'
  BY <1>1, OthersUnfinished
<1> QED
  BY <1>2, <1>3, <1>4, <1>5 DEF InstallationInv

\* A build starts, of nothing or of the record, or is refused.
LEMMA BeginKeeps ==
    ASSUME InstallationInv, NEW resume \in BOOLEAN, Begin(resume) PROVE InstallationInv'
<1>1. InstallationTypeOK /\ DiskInv /\ Place /\ pc = "idle"
  BY DEF InstallationInv, RunInv, Begin
<1>2. /\ UNCHANGED <<file, dirs, vouch, done, digest>>
      /\ out' \in {"none", "empty", "recorded"}
  BY <1>1 DEF Begin, diskVars, InstallationTypeOK
<1>3. CASE Stop("refused")
  BY <1>2, <1>3, StopKeeps
<1>4. CASE pc' \in {"first", "stage"} /\ outcome' = "none" /\ UNCHANGED <<at, step, closureVars>>
  <2>1. at' = 1 /\ step' = 1
    BY <1>1, <1>4 DEF Place, InScript
  <2>2. InstallationTypeOK'
    BY <1>1, <1>2, <1>4 DEF InstallationTypeOK
  <2>3. DiskInv'
    BY <1>1, <1>2, DiskStays
  <2>4. Trusted' = {}
    BY <2>1 DEF Trusted
  <2>5. RunInv'
    BY <1>4, <2>1, <2>4 DEF RunInv, Place, KnownSound, SealsFit, NothingAhead, InScript
  <2>6. FinishedAccounts'
    BY <1>4, OthersUnfinished
  <2> QED
    BY <2>2, <2>3, <2>5, <2>6 DEF InstallationInv
<1> QED
  BY <1>3, <1>4 DEF Begin

\* The inputs are recorded, which are outputs of no stage.
LEMMA FirstRecordKeeps == ASSUME InstallationInv, FirstRecord PROVE InstallationInv'
<1>1. /\ InstallationTypeOK /\ DiskInv /\ Place
      /\ pc' = "stage" /\ out' = "recorded"
      /\ digest' = [f \in Files |-> IF f \in Inputs THEN file[f] ELSE digest[f]]
      /\ UNCHANGED <<file, dirs, vouch, done, at, step, outcome>>
  BY DEF InstallationInv, RunInv, FirstRecord, diskVars
<1>2. at' = 1 /\ step' = 1 /\ outcome' = "none"
  BY <1>1 DEF Place, InScript, FirstRecord
<1>3. InstallationTypeOK'
  <2>1. digest' \in [Files -> Contents]
    BY <1>1 DEF InstallationTypeOK
  <2> QED
    BY <1>1, <2>1 DEF InstallationTypeOK
<1>4. RecordSound'
  <2> SUFFICES ASSUME NEW s \in done, NEW f \in Outputs[s] PROVE Sound(digest'[f], f)
    BY <1>1 DEF RecordSound, Sound
  <2>1. s \in Stages /\ f \in Wrote[s]
    BY <1>1, OutputsWritten DEF InstallationTypeOK
  <2>2. digest'[f] = digest[f]
    BY <1>1, <2>1, OneMaker
  <2> QED
    BY <1>1, <2>2 DEF DiskInv, RecordSound
<1>5. DiskInv'
  BY <1>1, <1>4 DEF DiskInv, Bounded, VouchSound, DoneWhole, ZipFits, DirectoryFirst
<1>6. Trusted' = {}
  BY <1>2 DEF Trusted
<1>7. RunInv'
  BY <1>1, <1>2, <1>6 DEF RunInv, Place, KnownSound, SealsFit, NothingAhead, InScript
<1>8. FinishedAccounts'
  BY <1>2, OthersUnfinished
<1> QED
  BY <1>3, <1>5, <1>7, <1>8 DEF InstallationInv

\* A recorded stage whose outputs are as recorded becomes known.
LEMMA VerifyKeeps == ASSUME InstallationInv, Verify PROVE InstallationInv'
<1>1. /\ InstallationTypeOK /\ DiskInv /\ Place /\ KnownSound
      /\ pc = "stage" /\ at <= Len(Order) /\ Stage \in done
  BY DEF InstallationInv, RunInv, Verify
<1>2. UNCHANGED <<file, dirs, vouch, done, digest, out>>
  BY DEF Verify, diskVars, recordVars
<1>3. CASE Stop("refused")
  BY <1>1, <1>2, <1>3, StopKeeps DEF InstallationTypeOK
<1>4. CASE /\ \A f \in Outputs[Stage] : file[f] # NoFile /\ file[f] = digest[f]
           /\ at' = at + 1 /\ UNCHANGED <<pc, step, outcome, closureVars>>
  <2>1. at \in 1 .. 13 /\ at' \in 1 .. Len(Order) + 1 /\ step' = 1 /\ pc' = "stage"
    BY <1>1, <1>4, OrderIs DEF InstallationTypeOK, Place, InScript
  <2>2. InstallationTypeOK'
    BY <1>1, <1>2, <1>4, <2>1 DEF InstallationTypeOK
  <2>3. DiskInv'
    BY <1>1, <1>2, DiskStays
  <2>4. Place'
    <3>1. ASSUME NEW i \in 1 .. at PROVE Order[i] \in done
      <4>1. i \in 1 .. at - 1 \/ i = at
        BY <2>1
      <4> QED
        BY <1>1, <4>1 DEF Place, Stage
    <3>2. 1 .. at' - 1 = 1 .. at
      BY <1>4, <2>1
    <3> QED
      BY <1>1, <1>2, <1>4, <2>1, <3>1, <3>2 DEF Place, InScript
  <2>5. KnownSound'
    <3> SUFFICES ASSUME NEW f \in Trusted' PROVE Sound(file[f], f)
      BY <1>2 DEF KnownSound, Sound
    <3>1. CASE f \in Outputs[Stage]
      BY <1>1, <1>4, <3>1 DEF DiskInv, RecordSound
    <3>2. CASE \E i \in 1 .. at - 1 : f \in Outputs[Order[i]]
      BY <1>1, <3>2, TrustedHas DEF KnownSound
    <3> QED
      BY <1>1, <1>4, <2>1, <3>1, <3>2, TrustedNext
  <2>6. RunInv'
    BY <2>1, <2>4, <2>5 DEF RunInv, SealsFit, NothingAhead, InScript
  <2>7. FinishedAccounts'
    BY <1>1, <1>4, OthersUnfinished DEF Place
  <2> QED
    BY <2>2, <2>3, <2>6, <2>7 DEF InstallationInv
<1> QED
  BY <1>3, <1>4 DEF Verify

\* What is moved away is of the stage at hand, which is not recorded.
LEMMA SetAsideKeeps == ASSUME InstallationInv, SetAside PROVE InstallationInv'
<1>1. /\ InstallationTypeOK /\ DiskInv /\ Place /\ KnownSound
      /\ pc = "stage" /\ at <= Len(Order) /\ Stage \in Fresh /\ Stage \notin done
      /\ dirs' = dirs \ {Stage}
      /\ file' = [f \in Files |-> IF f \in Wrote[Stage] THEN NoFile ELSE file[f]]
      /\ vouch' = [f \in Files |-> IF f \in Wrote[Stage] THEN Silent ELSE vouch[f]]
      /\ UNCHANGED <<done, digest, out, pc, at, step, outcome>>
  BY DEF InstallationInv, RunInv, SetAside, recordVars, runVars
<1>2. Stage \in Stages /\ at \in 1 .. 13 /\ Stage = Order[at] /\ step = 1
  BY <1>1, OrderIs, Numbers DEF InstallationTypeOK, Stage, Place, InScript
<1>3. InstallationTypeOK'
  <2>1. file' \in [Files -> Contents]
    BY <1>1 DEF InstallationTypeOK, Contents
  <2>2. vouch' = [f \in Files |-> vouch'[f]]
    BY <1>1
  <2> QED
    BY <1>1, <2>1, <2>2 DEF InstallationTypeOK
<1>4. \A f \in Files : file'[f] = NoFile \/ file'[f] = file[f]
  BY <1>1
<1>5. \A s \in Stages \ {Stage} : \A f \in Wrote[s] :
          f \in Files /\ file'[f] = file[f] /\ vouch'[f] = vouch[f]
  <2> SUFFICES ASSUME NEW s \in Stages, s # Stage, NEW f \in Wrote[s]
               PROVE  f \in Files /\ file'[f] = file[f] /\ vouch'[f] = vouch[f]
    OBVIOUS
  <2>1. f \in Files /\ f \notin Wrote[Stage]
    BY <1>2, OneMaker
  <2> QED
    BY <1>1, <2>1
<1>6. Bounded'
  BY <1>1, <1>4 DEF DiskInv, Bounded
<1>7. RecordSound'
  BY <1>1 DEF DiskInv, RecordSound
<1>8. VouchSound'
  <2> SUFFICES ASSUME NEW s \in Stages, NEW c \in ToSet(Script[s]), c.do = "seal",
                      vouch'[c.what] # Silent, NEW f \in c.of
               PROVE  Sound(vouch'[c.what][f], f)
    BY DEF VouchSound, Sound
  <2>1. c.what \in Files
    <3>1. c.what \in Wrote[s]
      BY DEF Wrote
    <3> QED
      BY <3>1, OneMaker
  <2>2. vouch'[c.what] = vouch[c.what]
    BY <1>1, <2>1
  <2> QED
    BY <1>1, <2>2 DEF DiskInv, VouchSound
<1>9. DoneWhole'
  <2> SUFFICES ASSUME NEW f \in Inputs \union (UNION {Wrote[s] : s \in done}), file'[f] # NoFile
               PROVE  "torn" \notin file'[f]
    BY <1>1 DEF DoneWhole
  <2>1. f \in Files
    BY <1>1, FilesAre, OneMaker DEF InstallationTypeOK
  <2>2. file'[f] = file[f]
    BY <1>4, <2>1
  <2> QED
    BY <1>1, <2>2 DEF DiskInv, DoneWhole
<1>10. ZipFits'
  <2> SUFFICES ASSUME "package" \in done
               PROVE  vouch'["zip"] # Silent /\ vouch'["zip"] = vouch'["installation.json"]
    BY <1>1 DEF ZipFits
  <2>1. "package" \in Stages \ {Stage}
    BY <1>1 DEF InstallationTypeOK
  <2>2. "zip" \in Wrote["package"] /\ "installation.json" \in Wrote["package"]
    BY WroteIs, Places, OrderIs
  <2> QED
    BY <1>1, <1>5, <2>1, <2>2 DEF DiskInv, ZipFits
<1>11. DirectoryFirst'
  <2> SUFFICES ASSUME NEW s \in Fresh \ dirs', NEW f \in Wrote[s] PROVE file'[f] = NoFile
    BY DEF DirectoryFirst
  <2>1. f \in Files
    BY Numbers, OneMaker
  <2>2. CASE s = Stage
    BY <1>1, <2>1, <2>2
  <2>3. CASE s # Stage
    BY <1>1, <1>4, <2>1, <2>3 DEF DiskInv, DirectoryFirst
  <2> QED
    BY <2>2, <2>3
<1>12. KnownSound'
  <2> SUFFICES ASSUME NEW f \in Trusted PROVE Sound(file'[f], f)
    BY <1>1 DEF KnownSound, Sound, Trusted, Stage
  <2>1. PICK i \in 1 .. at - 1 : f \in Outputs[Order[i]]
    BY <1>2, TrustedFrom
  <2>2. Order[i] \in Stages \ {Stage}
    BY <1>2, Numbers
  <2>3. f \in Wrote[Order[i]]
    BY <2>1, <2>2, OutputsWritten
  <2>4. file'[f] = file[f]
    BY <1>5, <2>2, <2>3
  <2> QED
    BY <1>1, <2>4 DEF KnownSound
<1>13. RunInv'
  BY <1>1, <1>12 DEF RunInv, Place, SealsFit, NothingAhead, InScript
<1>14. FinishedAccounts'
  BY <1>1, OthersUnfinished DEF Place
<1> QED
  BY <1>3, <1>6, <1>7, <1>8, <1>9, <1>10, <1>11, <1>13, <1>14 DEF InstallationInv, DiskInv

\* A script is entered with nothing of its stage outside of its directory.
LEMMA EnterKeeps == ASSUME InstallationInv, Enter PROVE InstallationInv'
<1>1. /\ InstallationTypeOK /\ DiskInv /\ Place /\ KnownSound
      /\ pc = "stage" /\ at <= Len(Order) /\ Stage \notin done /\ Stage \notin dirs \intersect Fresh
      /\ pc' = "step" /\ UNCHANGED <<file, dirs, vouch, done, digest, out, at, step, outcome>>
  BY DEF InstallationInv, RunInv, Enter, recordVars, diskVars
<1>2. Stage \in Stages /\ at \in 1 .. 13 /\ Stage = Order[at] /\ step = 1 /\ outcome = "none"
  BY <1>1, OrderIs, Numbers DEF InstallationTypeOK, Stage, Place, InScript
<1>3. Length(at) \in Nat /\ Length(at) = Len(Script[Stage])
  BY <1>2, AllFit DEF StageFits, Length
<1>4. InstallationTypeOK' /\ DiskInv'
  BY <1>1, DiskStays DEF InstallationTypeOK
<1>5. Place'
  BY <1>1, <1>2, <1>3 DEF Place, InScript, Stage
<1>6. KnownSound'
  BY <1>1 DEF KnownSound, Trusted, Stage, Sound
<1>7. SealsFit'
  BY <1>1, <1>2 DEF SealsFit
<1>8. NothingAhead'
  <2> SUFFICES ASSUME Stage \in Fresh, NEW k \in 1 .. Length(at), Writes(Command(at, k))
               PROVE  file[Command(at, k).what] = NoFile
    BY <1>1, <1>2, <1>3 DEF NothingAhead, Stage, Command, Writes, InScript
  <2>1. Command(at, k).what \in Wrote[Stage]
    <3>1. Maker(Command(at, k).what) = at
      BY <1>2, AllFit DEF StageFits, MadeOnce
    <3> QED
      BY <1>2, <3>1, WroteIs
  <2> QED
    BY <1>1, <2>1 DEF DiskInv, DirectoryFirst
<1>9. FinishedAccounts'
  BY <1>1, <1>2, OthersUnfinished
<1> QED
  BY <1>4, <1>5, <1>6, <1>7, <1>8, <1>9 DEF InstallationInv, RunInv

\* A script that ended well leaves all of its files as they were made; its
\* outputs are recorded.
LEMMA RecordKeeps == ASSUME InstallationInv, Record PROVE InstallationInv'
<1>1. /\ InstallationTypeOK /\ DiskInv /\ Place /\ KnownSound /\ SealsFit /\ InScript
      /\ pc = "step" /\ step > Len(Script[Stage]) /\ done' = done \union {Stage}
      /\ digest' = [f \in Files |-> IF f \in Outputs[Stage] THEN file[f] ELSE digest[f]]
      /\ pc' = "stage" /\ at' = at + 1 /\ step' = 1
      /\ UNCHANGED <<file, dirs, vouch, out, outcome>>
  BY DEF InstallationInv, RunInv, Record, diskVars, InScript
<1>2. /\ at \in 1 .. 13 /\ Stage = Order[at] /\ Stage \in Stages /\ Length(at) \in Nat
      /\ step = Length(at) + 1 /\ outcome = "none"
  BY <1>1, RunAt DEF Place
<1>3. ASSUME NEW f \in Wrote[Stage] PROVE f \in Files /\ Sound(file[f], f)
  <2>1. Maker(f) = at
    BY <1>2, <1>3, WroteIs
  <2>2. /\ Turn(f) \in 1 .. Length(at) /\ Writes(Command(at, Turn(f)))
        /\ Command(at, Turn(f)).what = f
    BY <1>2, <2>1, AllFit DEF StageFits, MakesAll
  <2>3. f \in Gained(Command(at, Turn(f))) /\ Turn(f) \in 1 .. step - 1
    BY <1>2, <2>2 DEF Gained, Writes
  <2>4. f \in Trusted
    BY <2>3, TrustedHas
  <2> QED
    BY <1>1, <1>2, <2>4, TrustedApart DEF KnownSound
<1>4. \A f \in Outputs[Stage] : f \in Files /\ Sound(file[f], f)
  BY <1>2, <1>3, OutputsWritten
<1>5. InstallationTypeOK'
  <2>1. digest' \in [Files -> Contents]
    BY <1>1 DEF InstallationTypeOK
  <2>2. at' \in 1 .. Len(Order) + 1
    BY <1>1, <1>2, OrderIs
  <2> QED
    BY <1>1, <1>2, <2>1, <2>2 DEF InstallationTypeOK
<1>6. RecordSound'
  <2> SUFFICES ASSUME NEW s \in done \union {Stage}, NEW f \in Outputs[s]
               PROVE  Sound(digest'[f], f)
    BY <1>1 DEF RecordSound, Sound
  <2>1. s \in Stages /\ f \in Files
    BY <1>1, <1>2, OutputsWritten, OneMaker DEF InstallationTypeOK
  <2>2. CASE f \in Outputs[Stage]
    BY <1>1, <1>4, <2>1, <2>2
  <2>3. CASE f \notin Outputs[Stage]
    <3>1. s \in done /\ digest'[f] = digest[f]
      BY <1>1, <2>1, <2>3
    <3> QED
      BY <1>1, <3>1 DEF DiskInv, RecordSound
  <2> QED
    BY <2>2, <2>3
<1>7. DoneWhole'
  <2> SUFFICES ASSUME NEW f, f \in Inputs \/ (\E s \in done \union {Stage} : f \in Wrote[s]),
                      file[f] # NoFile
               PROVE  "torn" \notin file[f]
    BY <1>1 DEF DoneWhole
  <2>1. CASE f \in Wrote[Stage]
    <3>1. file[f] \in Contents
      BY <1>1, <1>3, <2>1 DEF InstallationTypeOK
    <3> QED
      BY <1>3, <2>1, <3>1, SoundIsWhole
  <2>2. CASE f \notin Wrote[Stage]
    BY <1>1, <2>2 DEF DiskInv, DoneWhole
  <2> QED
    BY <2>1, <2>2
<1>8. ZipFits'
  <2> SUFFICES ASSUME "package" \in done \union {Stage}
               PROVE  vouch["zip"] # Silent /\ vouch["zip"] = vouch["installation.json"]
    BY <1>1 DEF ZipFits
  <2>1. CASE "package" \in done
    BY <1>1, <2>1 DEF DiskInv, ZipFits
  <2>2. CASE Stage = "package"
    <3>1. at = 13
      <4>1. 13 \in 1 .. 13 /\ Order[at] = Order[13]
        BY <1>2, <2>2, OrderIs
      <4> QED
        BY <1>2, <4>1, Numbers
    <3>2. /\ Command(at, 11) = Seal("installation.json", Card) /\ 11 \in 1 .. step - 1
          /\ Command(at, 12) = Seal("zip", Card) /\ 12 \in 1 .. step - 1
      BY <1>2, <3>1, PackageCommands
    <3>3. \A k \in 1 .. step - 1 : Command(at, k).do = "seal" =>
              vouch[Command(at, k).what] = [f \in Command(at, k).of |-> file[f]]
      BY <1>1 DEF SealsFit, Command, Stage
    <3>4. vouch["installation.json"] = [f \in Card |-> file[f]]
      BY <3>2, <3>3 DEF Seal
    <3>5. vouch["zip"] = [f \in Card |-> file[f]]
      BY <3>2, <3>3 DEF Seal
    <3>6. DOMAIN vouch["zip"] # DOMAIN Silent
      BY <3>5 DEF Silent, Card
    <3> QED
      BY <3>4, <3>5, <3>6
  <2> QED
    BY <2>1, <2>2
<1>9. Bounded' /\ VouchSound' /\ DirectoryFirst'
  BY <1>1 DEF DiskInv, Bounded, VouchSound, DirectoryFirst
<1>10. Place'
  <2>1. ASSUME NEW i \in 1 .. at PROVE Order[i] \in done \union {Stage}
    <3>1. i \in 1 .. at - 1 \/ i = at
      BY <1>2
    <3> QED
      BY <1>1, <1>2, <3>1 DEF Place
  <2>2. 1 .. at' - 1 = 1 .. at
    BY <1>1, <1>2
  <2> QED
    BY <1>1, <1>2, <2>1, <2>2 DEF Place, InScript
<1>11. KnownSound'
  <2> SUFFICES ASSUME NEW f \in Trusted' PROVE Sound(file[f], f)
    BY <1>1 DEF KnownSound, Sound
  <2>1. CASE f \in Outputs[Stage]
    BY <1>4, <2>1
  <2>2. CASE \E i \in 1 .. at - 1 : f \in Outputs[Order[i]]
    BY <1>1, <2>2, TrustedHas DEF KnownSound
  <2> QED
    BY <1>1, <2>1, <2>2, TrustedNext
<1>12. RunInv'
  BY <1>1, <1>10, <1>11 DEF RunInv, SealsFit, NothingAhead, InScript
<1>13. FinishedAccounts'
  BY <1>1, <1>2, OthersUnfinished
<1> QED
  BY <1>5, <1>6, <1>7, <1>8, <1>9, <1>12, <1>13 DEF InstallationInv, DiskInv

\* A build that has been through all stages knows the ZIP, which is whole and
\* described, and carries what it may.
LEMMA FinishKeeps == ASSUME InstallationInv, Finish PROVE InstallationInv'
<1>1. /\ InstallationTypeOK /\ DiskInv /\ Place /\ KnownSound
      /\ pc = "stage" /\ at > Len(Order)
      /\ pc' = "idle" /\ outcome' = "finished" /\ at' = 1 /\ step' = 1
      /\ UNCHANGED <<file, dirs, vouch, done, digest, out>>
  BY DEF InstallationInv, RunInv, Finish, Stop, diskVars, recordVars
<1>2. InstallationTypeOK' /\ DiskInv' /\ RunInv'
  BY <1>1, DiskStays, IdleRun, OrderIs DEF InstallationTypeOK
<1>3. at = 14 /\ 13 \in 1 .. at - 1
  BY <1>1, OrderIs DEF InstallationTypeOK
<1>4. "zip" \in Trusted
  BY <1>3, TrustedHas, OrderIs, OutputsAre
<1>5. file["zip"] = {}
  <2>1. Carries("zip") = {}
    BY DEF Carries
  <2> QED
    BY <1>1, <1>4, <2>1 DEF KnownSound, Sound
<1>6. "package" \in done
  BY <1>1, <1>3, OrderIs DEF Place
<1>7. vouch["zip"] # Silent /\ vouch["zip"] = vouch["installation.json"]
  BY <1>1, <1>6 DEF DiskInv, ZipFits
<1>8. ASSUME NEW p \in Card PROVE vouch["zip"][p] \subseteq MayCarry[p]
  <2>1. Command(13, 12) \in ToSet(Script["package"])
    BY PackageCommands, OrderIs DEF ToSet, Command
  <2>2. Command(13, 12).do = "seal" /\ Command(13, 12).what = "zip" /\ p \in Command(13, 12).of
    BY PackageCommands DEF Seal
  <2>3. "package" \in Stages
    BY StagesAre
  <2>4. Sound(vouch["zip"][p], p)
    BY <1>1, <1>7, <2>1, <2>2, <2>3 DEF DiskInv, VouchSound
  <2>5. Carries(p) \subseteq MayCarry[p]
    BY DEF Card, Carries, MayCarry
  <2> QED
    BY <2>4, <2>5 DEF Sound
<1>9. FinishedAccounts'
  BY <1>1, <1>5, <1>7, <1>8 DEF FinishedAccounts
<1> QED
  BY <1>2, <1>9 DEF InstallationInv

\* A command that changes no file, or makes the directory, and lets the run go
\* on, keeps the invariant if what it compares is then known to be sound.
LEMMA AdvanceKeeps ==
    ASSUME InstallationInv, pc = "step", step <= Len(Script[Stage]), ~Writes(Now),
           UNCHANGED <<file, vouch, done, digest, out, pc, at, outcome>>, step' = step + 1,
           dirs \subseteq dirs', dirs' \subseteq Stages,
           \A f \in Gained(Now) : Sound(file[f], f)
    PROVE  InstallationInv'
<1>1. InstallationTypeOK /\ DiskInv /\ Place /\ KnownSound /\ SealsFit /\ NothingAhead /\ InScript
  BY DEF InstallationInv, RunInv, InScript
<1>2. /\ at \in 1 .. 13 /\ Stage = Order[at] /\ Len(Script[Stage]) = Length(at)
      /\ Length(at) \in Nat /\ step \in 1 .. Length(at) /\ Now = Command(at, step)
      /\ outcome = "none" /\ \A k : Script[Stage][k] = Command(at, k)
  BY <1>1, RunAt DEF Place
<1>3. InstallationTypeOK'
  BY <1>1, <1>2 DEF InstallationTypeOK
<1>4. DiskInv'
  BY <1>1 DEF DiskInv, Bounded, RecordSound, VouchSound, DoneWhole, ZipFits, DirectoryFirst
<1>5. Place'
  BY <1>1, <1>2 DEF Place, InScript, Stage, Length
<1>6. KnownSound'
  <2> SUFFICES ASSUME NEW f \in Trusted' PROVE Sound(file[f], f)
    BY DEF KnownSound, Sound
  <2>1. f \in Trusted \/ f \in Gained(Now)
    BY <1>1, <1>2, TrustedGrows
  <2> QED
    BY <1>1, <2>1 DEF KnownSound, InScript
<1>7. SealsFit'
  <2>0. step' - 1 = step
    BY <1>2
  <2> SUFFICES ASSUME NEW k \in 1 .. step, Command(at, k).do = "seal"
               PROVE  vouch[Command(at, k).what] = [f \in Command(at, k).of |-> file[f]]
    BY <2>0 DEF SealsFit, Command, Stage
  <2>1. k \in 1 .. step - 1
    BY <1>2 DEF Writes
  <2> QED
    BY <1>1, <1>2, <2>1 DEF SealsFit
<1>8. NothingAhead'
  <2> SUFFICES ASSUME Stage \in Fresh, NEW k \in step + 1 .. Length(at), Writes(Command(at, k))
               PROVE  file[Command(at, k).what] = NoFile
    BY <1>2 DEF NothingAhead, Stage, Command, Writes, Length
  <2>1. k \in step .. Length(at)
    BY <1>2
  <2> QED
    BY <1>1, <1>2, <2>1 DEF NothingAhead, Writes
<1>9. FinishedAccounts'
  BY <1>2, OthersUnfinished
<1> QED
  BY <1>3, <1>4, <1>5, <1>6, <1>7, <1>8, <1>9 DEF InstallationInv, RunInv

\* What agrees with a sealed manifest, or with a digest in the source, is as
\* it was made.
LEMMA TestKeeps == ASSUME InstallationInv, Test PROVE InstallationInv'
<1>1. /\ InstallationTypeOK /\ DiskInv /\ Place /\ InScript
      /\ pc = "step" /\ step <= Len(Script[Stage]) /\ Now.do \in {"absent", "valid", "need", "check"}
      /\ UNCHANGED <<file, dirs, vouch, done, digest, out>>
  BY DEF InstallationInv, RunInv, Test, AtStep, InScript, diskVars, recordVars
<1>2. CASE Holds(Now) /\ NextStep
  <2>1. ASSUME NEW f \in Gained(Now) PROVE Sound(file[f], f)
    <3>1. /\ at \in 1 .. 13 /\ step \in 1 .. Length(at) /\ Now = Command(at, step)
      BY <1>1, RunAt
    <3>2. CASE Now.do = "valid"
      <4>1. f \in Now.of /\ file[f] = {}
        BY <1>2, <2>1, <3>2 DEF Gained, Holds
      <4> QED
        BY <4>1 DEF Sound, NoFile
    <3>3. CASE Now.do = "check"
      <4>1. /\ f \in Now.of /\ vouch[Now.what] # Silent /\ file[f] = vouch[Now.what][f]
        BY <1>2, <2>1, <3>3 DEF Gained, Holds
      <4>2. IsSealed(at, Now)
        BY <3>1, <3>3, AllFit DEF StageFits, Compared
      <4>3. PICK m \in 1 .. at - 1 : \E j \in 1 .. Length(m) :
                /\ Command(m, j).do = "seal" /\ Command(m, j).what = Now.what
                /\ Now.of \subseteq Command(m, j).of
        BY <4>2 DEF IsSealed
      <4>4. PICK j \in 1 .. Length(m) :
                /\ Command(m, j).do = "seal" /\ Command(m, j).what = Now.what
                /\ Now.of \subseteq Command(m, j).of
        BY <4>3
      <4>5. m \in 1 .. 13
        BY <3>1
      <4>6. Order[m] \in Stages /\ Command(m, j) \in ToSet(Script[Order[m]])
        BY <4>5, AllFit, Numbers DEF StageFits, ToSet, Command
      <4> QED
        BY <1>1, <4>1, <4>4, <4>6 DEF DiskInv, VouchSound
    <3> QED
      BY <1>1, <2>1, <3>2, <3>3 DEF Gained
  <2> QED
    BY <1>1, <1>2, <2>1, AdvanceKeeps DEF NextStep, Writes, InstallationTypeOK
<1>3. CASE Stop("refused")
  BY <1>1, <1>3, StopKeeps DEF InstallationTypeOK
<1> QED
  BY <1>2, <1>3 DEF Test

\* A directory that is made is of a stage, and has no files yet.
LEMMA MakeDirectoryKeeps == ASSUME InstallationInv, MakeDirectory PROVE InstallationInv'
<1>1. /\ InstallationTypeOK /\ DiskInv /\ Place /\ InScript
      /\ pc = "step" /\ step <= Len(Script[Stage]) /\ Now.do = "mkdir"
      /\ UNCHANGED <<file, vouch, done, digest, out>>
  BY DEF InstallationInv, RunInv, MakeDirectory, AtStep, InScript, recordVars
<1>2. CASE dirs' = dirs \union {Stage} /\ NextStep
  <2>1. Stage \in Stages
    BY <1>1, RunAt
  <2>2. Gained(Now) = {}
    BY <1>1 DEF Gained
  <2> QED
    BY <1>1, <1>2, <2>1, <2>2, AdvanceKeeps DEF NextStep, Writes, InstallationTypeOK
<1>3. CASE UNCHANGED dirs /\ Stop("refused")
  BY <1>1, <1>3, StopKeeps DEF InstallationTypeOK
<1> QED
  BY <1>2, <1>3 DEF MakeDirectory

\* A write begins with a torn file, which is no known one and none of a
\* completed stage.
LEMMA WriteBeginsKeeps == ASSUME InstallationInv, WriteBegins PROVE InstallationInv'
<1>1. /\ InstallationTypeOK /\ DiskInv /\ Place /\ KnownSound /\ SealsFit /\ NothingAhead
      /\ InScript /\ pc = "step" /\ step <= Len(Script[Stage]) /\ Now.do \in {"make", "seal"}
      /\ UNCHANGED <<vouch, done, digest, out>>
  BY DEF InstallationInv, RunInv, WriteBegins, AtStep, InScript, recordVars
<1>2. CASE Stop("refused") /\ UNCHANGED <<file, dirs>>
  BY <1>1, <1>2, StopKeeps DEF InstallationTypeOK
<1>3. CASE /\ \A f \in Now.of : file[f] # NoFile
           /\ file' = [file EXCEPT ![Now.what] = {"torn"}]
           /\ dirs' = dirs \union {Stage}
           /\ pc' = "writing" /\ UNCHANGED <<at, step, outcome, closureVars>>
  <2> DEFINE w == Now.what
  <2>1. /\ at \in 1 .. 13 /\ Stage = Order[at] /\ Stage \in Stages \ done
        /\ Len(Script[Stage]) = Length(at) /\ Length(at) \in Nat
        /\ step \in 1 .. Length(at) /\ Now = Command(at, step) /\ Writes(Now)
        /\ outcome = "none" /\ \A k : Script[Stage][k] = Command(at, k)
    BY <1>1, RunAt DEF Writes, Place
  <2>2. /\ w \in Files /\ w \notin Inputs /\ w \in Wrote[Stage]
        /\ \A s \in Stages : w \in Wrote[s] => s = Stage
    BY <1>1, <2>1, WriteAt
  <2>3. w \notin Now.of /\ Now.of \subseteq Files
    BY <1>1, <2>1, ReadsOthers
  <2>4. /\ file' \in [Files -> Contents] /\ file'[w] = {"torn"}
        /\ \A f \in Files \ {w} : file'[f] = file[f]
    BY <1>1, <1>3, <2>2 DEF InstallationTypeOK, Contents
  <2> HIDE DEF w
  <2>5. InstallationTypeOK'
    BY <1>1, <1>3, <2>1, <2>4 DEF InstallationTypeOK
  <2>6. Bounded'
    BY <1>1, <2>4 DEF DiskInv, Bounded
  <2>7. DoneWhole'
    <3> SUFFICES ASSUME NEW f, f \in Inputs \/ (\E s \in done : f \in Wrote[s]), file'[f] # NoFile
                 PROVE  "torn" \notin file'[f]
      BY <1>1 DEF DoneWhole
    <3>1. f \in Files \ {w}
      BY <1>1, <2>1, <2>2, FilesAre, OneMaker DEF InstallationTypeOK
    <3> QED
      BY <1>1, <2>4, <3>1 DEF DiskInv, DoneWhole
  <2>8. DirectoryFirst'
    <3> SUFFICES ASSUME NEW s \in Fresh, s \notin dirs, s # Stage, NEW f \in Wrote[s]
                 PROVE  file'[f] = NoFile
      BY <1>3 DEF DirectoryFirst
    <3>1. f \in Files \ {w}
      BY <2>2, Numbers, OneMaker
    <3> QED
      BY <1>1, <2>4, <3>1 DEF DiskInv, DirectoryFirst
  <2>9. RecordSound' /\ VouchSound' /\ ZipFits'
    BY <1>1 DEF DiskInv, RecordSound, VouchSound, ZipFits
  <2>10. Place'
    <3>1. \A f \in Now.of : file'[f] # NoFile
      BY <1>3, <2>3, <2>4
    <3>2. Now' = Now /\ Stage' = Stage /\ Now.what = w
      BY <1>3 DEF Now, Stage, w
    <3> QED
      BY <1>1, <1>3, <2>1, <2>4, <3>1, <3>2 DEF Place, InScript
  <2>11. KnownSound'
    <3> SUFFICES ASSUME NEW f \in Trusted PROVE Sound(file'[f], f)
      BY <1>3 DEF KnownSound, Trusted, Stage, Sound
    <3>1. f \in Files \ {w}
      BY <1>1, <2>1, TrustedApart DEF w
    <3> QED
      BY <1>1, <2>4, <3>1 DEF KnownSound, InScript
  <2>12. SealsFit'
    <3> SUFFICES ASSUME NEW k \in 1 .. step - 1, Command(at, k).do = "seal"
                 PROVE  vouch[Command(at, k).what] = [f \in Command(at, k).of |-> file'[f]]
      BY <1>1, <1>3 DEF SealsFit, Command, Stage
    <3>1. k \in 1 .. Length(at)
      BY <2>1
    <3>2. \A f \in Command(at, k).of : f \in Files \ {w}
      BY <1>1, <2>1, <3>1, PassedApart, ReadsFiles, SMTT(20) DEF w
    <3>3. vouch[Command(at, k).what] = [f \in Command(at, k).of |-> file[f]]
      BY <1>1, <2>1 DEF SealsFit
    <3> QED
      BY <2>4, <3>2, <3>3
  <2>13. NothingAhead'
    <3> SUFFICES ASSUME Stage \in Fresh, NEW k \in step .. Length(at), Writes(Command(at, k)), k # step
                 PROVE  file'[Command(at, k).what] = NoFile
      BY <1>3, <2>1 DEF NothingAhead, Stage, Command, Writes, Length
    <3>1. Command(at, k).what \in Files \ {w}
      <4>0. k \in 1 .. Length(at)
        BY <2>1
      <4>1. Maker(Command(at, k).what) = at /\ Turn(Command(at, k).what) = k
        BY <2>1, <4>0, AllFit DEF StageFits, MadeOnce
      <4>2. Turn(w) = step
        BY <1>1, <2>1, WriteAt DEF w
      <4> QED
        BY <2>1, <4>1, <4>2, FilesAre
    <3>2. file[Command(at, k).what] = NoFile
      BY <1>1, <2>1 DEF NothingAhead, Writes
    <3> QED
      BY <2>4, <3>1, <3>2
  <2>14. FinishedAccounts'
    BY <1>3, <2>1, OthersUnfinished
  <2> QED
    BY <2>5, <2>6, <2>7, <2>8, <2>9, <2>10, <2>11, <2>12, <2>13, <2>14
       DEF InstallationInv, DiskInv, RunInv
<1> QED
  BY <1>2, <1>3 DEF WriteBegins

\* What a write puts into a file is as it should be: what it reads is known to
\* be sound, or it may be passed on.
LEMMA WrittenSound ==
    ASSUME InstallationTypeOK, DiskInv, Place, KnownSound, pc = "writing"
    PROVE  /\ Now.do = "seal" => \A f \in Now.of : f \in Trusted
           /\ Now.do = "make" => /\ (UNION {file[f] : f \in Now.of}) \in SUBSET (Files \union {"torn"})
                                 /\ (UNION {file[f] : f \in Now.of}) \subseteq Carries(Now.what)
<1>1. /\ InScript /\ step <= Len(Script[Stage]) /\ Now.do \in {"make", "seal"}
      /\ \A f \in Now.of : file[f] # NoFile
  BY DEF Place, InScript
<1>2. /\ at \in 1 .. 13 /\ Length(at) \in Nat /\ step \in 1 .. Length(at) /\ Now = Command(at, step)
      /\ Writes(Now) /\ \A i \in 1 .. at - 1 : Order[i] \in done
  BY <1>1, RunAt DEF Writes, Place
<1>3. Now.of \subseteq Files
  BY <1>1, <1>2, ReadsOthers
<1>4. \A f \in Now.of : SourceFits(at, step, f)
  BY <1>2, AllFit DEF StageFits, Sourced
<1>5. CASE Now.do = "seal"
  <2>1. \A f \in Now.of : Known(at, step, f)
    BY <1>2, <1>4, <1>5 DEF SourceFits
  <2> QED
    BY <1>1, <1>5, <2>1, KnownTrusted
<1>6. CASE Now.do = "make"
  <2>1. \A f \in Now.of : file[f] \in SUBSET (Files \union {"torn"})
    BY <1>1, <1>3 DEF InstallationTypeOK, Contents
  <2>2. ASSUME NEW f \in Now.of PROVE file[f] \subseteq Carries(Now.what)
    <3>1. CASE Known(at, step, f) /\ Carries(f) \subseteq Carries(Now.what)
      <4>1. f \in Trusted
        BY <1>1, <3>1, KnownTrusted
      <4> QED
        BY <3>1, <4>1 DEF KnownSound, Sound
    <3>2. CASE Maker(f) \in 1 .. at - 1 /\ Carries(f) \union {f} \subseteq Carries(Now.what)
      <4>1. Maker(f) \in 1 .. 13
        BY <1>2, <3>2
      <4>2. f \in Wrote[Order[Maker(f)]] /\ Order[Maker(f)] \in done
        BY <1>2, <3>2, <4>1, WroteIs
      <4>3. "torn" \notin file[f]
        BY <1>1, <4>2 DEF DiskInv, DoneWhole
      <4>4. file[f] \subseteq Carries(f) \union {f, "torn"}
        BY <1>1, <1>3 DEF DiskInv, Bounded
      <4> QED
        BY <3>2, <4>3, <4>4
    <3> QED
      BY <1>2, <1>4, <1>6, <3>1, <3>2 DEF SourceFits
  <2> QED
    BY <1>6, <2>1, <2>2
<1> QED
  BY <1>1, <1>5, <1>6

\* A write ends: the file is as it is made, and a manifest describes what is
\* there.
LEMMA WriteEndsKeeps == ASSUME InstallationInv, WriteEnds PROVE InstallationInv'
<1> DEFINE w == Now.what
           c == IF Now.do = "seal" THEN {} ELSE UNION {file[f] : f \in Now.of}
           m == IF Now.do = "seal" THEN [f \in Now.of |-> file[f]] ELSE Silent
<1>1. /\ InstallationTypeOK /\ DiskInv /\ Place /\ KnownSound /\ SealsFit /\ NothingAhead
      /\ InScript /\ pc = "writing" /\ step <= Len(Script[Stage]) /\ Now.do \in {"make", "seal"}
      /\ file[w] = {"torn"} /\ \A f \in Now.of : file[f] # NoFile
      /\ file' = [file EXCEPT ![w] = c] /\ vouch' = [vouch EXCEPT ![w] = m]
      /\ pc' = "step" /\ step' = step + 1
      /\ UNCHANGED <<dirs, done, digest, out, at, outcome>>
  BY DEF InstallationInv, RunInv, WriteEnds, InScript, recordVars, Place
<1>2. /\ at \in 1 .. 13 /\ Stage = Order[at] /\ Stage \in Stages \ done
      /\ Len(Script[Stage]) = Length(at) /\ Length(at) \in Nat
      /\ step \in 1 .. Length(at) /\ Now = Command(at, step) /\ Writes(Now)
      /\ outcome = "none" /\ \A k : Script[Stage][k] = Command(at, k)
  BY <1>1, RunAt DEF Writes, Place
<1>3. /\ w \in Files /\ w \notin Inputs /\ w \in Wrote[Stage] /\ Turn(w) = step
      /\ \A s \in Stages : w \in Wrote[s] => s = Stage
  BY <1>1, <1>2, WriteAt
<1>4. w \notin Now.of /\ Now.of \subseteq Files
  BY <1>1, <1>2, ReadsOthers
<1>5. c \in SUBSET (Files \union {"torn"}) /\ c \subseteq Carries(w)
  BY <1>1, WrittenSound
<1>6. Sound(c, w) /\ c \in Contents
  BY <1>5, NotMissing DEF Sound, Contents
<1>7. Now.do = "seal" => \A f \in Now.of : Sound(file[f], f)
  BY <1>1, WrittenSound DEF KnownSound
<1>8. (Now.do = "seal" => m = [f \in Now.of |-> file[f]]) /\ (Now.do # "seal" => m = Silent)
  OBVIOUS
<1> HIDE DEF w, c, m
<1>9. /\ file' \in [Files -> Contents] /\ file'[w] = c
      /\ \A f \in Files \ {w} : file'[f] = file[f]
  BY <1>1, <1>3, <1>6 DEF InstallationTypeOK
<1>10. /\ vouch' = [f \in Files |-> vouch'[f]] /\ vouch'[w] = m
       /\ \A f \in Files \ {w} : vouch'[f] = vouch[f]
  BY <1>1, <1>3 DEF InstallationTypeOK
<1>11. InstallationTypeOK'
  BY <1>1, <1>2, <1>9, <1>10 DEF InstallationTypeOK
<1>12. Bounded'
  BY <1>1, <1>6, <1>9 DEF DiskInv, Bounded, Sound
<1>13. RecordSound'
  BY <1>1 DEF DiskInv, RecordSound
<1>14. VouchSound'
  <2> SUFFICES ASSUME NEW s \in Stages, NEW d \in ToSet(Script[s]), d.do = "seal",
                      vouch'[d.what] # Silent, NEW f \in d.of
               PROVE  Sound(vouch'[d.what][f], f)
    BY DEF VouchSound, Sound
  <2>1. d.what \in Wrote[s]
    BY DEF Wrote
  <2>2. d.what \in Files
    BY <2>1, OneMaker
  <2>3. CASE d.what # w
    BY <1>1, <1>10, <2>2, <2>3 DEF DiskInv, VouchSound
  <2>4. CASE d.what = w
    <3>1. s = Stage
      BY <1>3, <2>1, <2>4
    <3>2. PICK j \in 1 .. Length(at) : d = Command(at, j)
      BY <1>2, <3>1, AllFit DEF StageFits, ToSet, Command
    <3>3. j = step
      BY <1>2, <1>3, <2>4, <3>2, AllFit DEF StageFits, MadeOnce, Writes
    <3>4. d = Now
      BY <1>2, <3>2, <3>3
    <3> QED
      BY <1>7, <1>8, <1>10, <2>4, <3>4
  <2> QED
    BY <2>3, <2>4
<1>15. DoneWhole'
  <2> SUFFICES ASSUME NEW f, f \in Inputs \/ (\E s \in done : f \in Wrote[s]), file'[f] # NoFile
               PROVE  "torn" \notin file'[f]
    BY <1>1 DEF DoneWhole
  <2>1. f \in Files \ {w}
    BY <1>1, <1>2, <1>3, FilesAre, OneMaker DEF InstallationTypeOK
  <2> QED
    BY <1>1, <1>9, <2>1 DEF DiskInv, DoneWhole
<1>16. ZipFits'
  <2> SUFFICES ASSUME "package" \in done
               PROVE  vouch'["zip"] # Silent /\ vouch'["zip"] = vouch'["installation.json"]
    BY <1>1 DEF ZipFits
  <2>1. "package" \in Stages /\ "package" # Stage
    BY <1>1, <1>2 DEF InstallationTypeOK
  <2>2. "zip" \in Wrote["package"] /\ "installation.json" \in Wrote["package"]
    BY WroteIs, Places, OrderIs
  <2>3. "zip" \in Files \ {w} /\ "installation.json" \in Files \ {w}
    BY <1>3, <2>1, <2>2, OneMaker
  <2> QED
    BY <1>1, <1>10, <2>3 DEF DiskInv, ZipFits
<1>17. DirectoryFirst'
  <2> SUFFICES ASSUME NEW s \in Fresh \ dirs, NEW f \in Wrote[s] PROVE file'[f] = NoFile
    BY <1>1 DEF DirectoryFirst
  <2>1. file[f] = NoFile /\ f \in Files
    BY <1>1, Numbers, OneMaker DEF DiskInv, DirectoryFirst
  <2>2. f # w
    BY <1>1, <2>1 DEF NoFile
  <2> QED
    BY <1>9, <2>1, <2>2
<1>18. Place'
  BY <1>1, <1>2 DEF Place, InScript, Stage, Length
<1>19. KnownSound'
  <2> SUFFICES ASSUME NEW f \in Trusted' PROVE Sound(file'[f], f)
    BY DEF KnownSound, Sound
  <2>1. CASE f \in Trusted
    <3>1. f \in Files \ {w}
      BY <1>1, <1>2, <2>1, TrustedApart DEF w
    <3> QED
      BY <1>1, <1>9, <2>1, <3>1 DEF KnownSound
  <2>2. CASE f \in Gained(Now)
    BY <1>1, <1>6, <1>9, <2>2 DEF Gained, w
  <2> QED
    BY <1>1, <1>2, <2>1, <2>2, TrustedGrows
<1>20. SealsFit'
  <2>1. step' - 1 = step
    BY <1>1, <1>2
  <2> SUFFICES ASSUME NEW k \in 1 .. step, Command(at, k).do = "seal"
               PROVE  vouch'[Command(at, k).what] = [f \in Command(at, k).of |-> file'[f]]
    BY <1>1, <2>1 DEF SealsFit, Command, Stage
  <2>2. CASE k = step
    <3>1. \A f \in Now.of : file'[f] = file[f]
      BY <1>4, <1>9
    <3> QED
      BY <1>2, <1>8, <1>10, <2>2, <3>1 DEF w
  <2>3. CASE k # step
    <3>1. k \in 1 .. step - 1 /\ k \in 1 .. Length(at)
      BY <1>2, <2>3
    <3>2. \A f \in Command(at, k).of : f \in Files \ {w}
      BY <1>1, <1>2, <3>1, PassedApart, ReadsFiles, SMTT(20) DEF w
    <3>3. Command(at, k).what \in Files \ {w}
      <4>1. Maker(Command(at, k).what) = at /\ Turn(Command(at, k).what) = k
        BY <1>2, <3>1, AllFit DEF StageFits, MadeOnce, Writes
      <4> QED
        BY <1>2, <1>3, <2>3, <4>1, FilesAre
    <3>4. vouch[Command(at, k).what] = [f \in Command(at, k).of |-> file[f]]
      BY <1>1, <1>2, <3>1 DEF SealsFit
    <3> QED
      BY <1>9, <1>10, <3>2, <3>3, <3>4
  <2> QED
    BY <2>2, <2>3
<1>21. NothingAhead'
  <2> SUFFICES ASSUME Stage \in Fresh, NEW k \in step + 1 .. Length(at), Writes(Command(at, k))
               PROVE  file'[Command(at, k).what] = NoFile
    BY <1>1, <1>2 DEF NothingAhead, Stage, Command, Writes, Length
  <2>1. k \in step .. Length(at) /\ k \in 1 .. Length(at) /\ k # step
    BY <1>2
  <2>2. Command(at, k).what \in Files \ {w}
    <3>1. Maker(Command(at, k).what) = at /\ Turn(Command(at, k).what) = k
      BY <1>2, <2>1, AllFit DEF StageFits, MadeOnce
    <3> QED
      BY <1>2, <1>3, <2>1, <3>1, FilesAre
  <2>3. file[Command(at, k).what] = NoFile
    BY <1>1, <1>2, <2>1 DEF NothingAhead, Writes
  <2> QED
    BY <1>9, <2>2, <2>3
<1>22. FinishedAccounts'
  BY <1>1, <1>2, OthersUnfinished
<1> QED
  BY <1>11, <1>12, <1>13, <1>14, <1>15, <1>16, <1>17, <1>18, <1>19, <1>20, <1>21, <1>22
     DEF InstallationInv, DiskInv, RunInv

\* A step of the run that leaves disk, record and run as they are.
LEMMA StutterKeeps ==
    ASSUME InstallationInv, UNCHANGED <<diskVars, recordVars, runVars>> PROVE InstallationInv'
<1>1. UNCHANGED <<file, dirs, vouch, out, done, digest, pc, at, step, outcome>>
  BY DEF diskVars, recordVars, runVars
<1>2. InstallationTypeOK' /\ DiskInv'
  BY <1>1, DiskStays DEF InstallationInv, InstallationTypeOK
<1>3. Place' /\ SealsFit' /\ NothingAhead'
  BY <1>1 DEF InstallationInv, RunInv, Place, SealsFit, NothingAhead, InScript, Stage, Now
<1>4. KnownSound'
  BY <1>1 DEF InstallationInv, RunInv, KnownSound, Sound, Trusted, Stage
<1>5. FinishedAccounts'
  BY <1>1 DEF InstallationInv, FinishedAccounts
<1> QED
  BY <1>2, <1>3, <1>4, <1>5 DEF InstallationInv, RunInv

\* The search for the assemblies touches no file, and ends with the next
\* command or a refusal.
LEMMA StepClosureKeeps == ASSUME InstallationInv, StepClosure PROVE InstallationInv'
<1>1. /\ InstallationTypeOK /\ DiskInv
      /\ pc = "step" /\ step <= Len(Script[Stage]) /\ Now.do = "closure"
      /\ UNCHANGED <<file, dirs, vouch, done, digest, out>>
  BY DEF InstallationInv, StepClosure, AtStep, diskVars, recordVars
<1>2. CASE UNCHANGED runVars
  BY <1>1, <1>2, StutterKeeps DEF recordVars, diskVars
<1>3. CASE step' = step + 1 /\ UNCHANGED <<pc, at, outcome>>
  <2>1. Gained(Now) = {} /\ ~Writes(Now)
    BY <1>1 DEF Gained, Writes
  <2> QED
    BY <1>1, <1>3, <2>1, AdvanceKeeps DEF InstallationTypeOK
<1>4. CASE Stop("refused")
  BY <1>1, <1>4, StopKeeps DEF InstallationTypeOK
<1> QED
  BY <1>2, <1>3, <1>4 DEF StepClosure

\* A run that is killed leaves the disk as it is.
LEMMA InterruptKeeps == ASSUME InstallationInv, Interrupt PROVE InstallationInv'
<1>1. UNCHANGED <<file, dirs, vouch, done, digest, out>> /\ Stop("interrupted")
  BY DEF Interrupt, diskVars, recordVars
<1> QED
  BY <1>1, StopKeeps DEF InstallationInv, InstallationTypeOK

\* A change from outside reaches a file that is there, between two runs, and
\* is visible in that file.
LEMMA ChangeKeeps == ASSUME InstallationInv, NEW f \in Files, Change(f) PROVE InstallationInv'
<1>1. /\ InstallationTypeOK /\ DiskInv /\ Place
      /\ pc = "idle" /\ pc' = "idle" /\ file[f] # NoFile /\ outcome' = "none"
      /\ UNCHANGED <<dirs, vouch, done, digest, out, at, step>>
  BY DEF InstallationInv, RunInv, Change, recordVars
<1>2. f # "torn"
  BY FilesAre
<1>3. file[f] \in SUBSET (Files \union {"torn"})
  BY <1>1 DEF InstallationTypeOK, Contents
<1>4. /\ file' \in [Files -> Contents] /\ \A g \in Files \ {f} : file'[g] = file[g]
      /\ file'[f] = NoFile \/ file'[f] = file[f] \union {f}
  <2>1. CASE file' = [file EXCEPT ![f] = @ \union {f}]
    BY <1>1, <1>3, <2>1 DEF InstallationTypeOK, Contents
  <2>2. CASE file' = [file EXCEPT ![f] = NoFile]
    BY <1>1, <2>2 DEF InstallationTypeOK, Contents
  <2> QED
    BY <2>1, <2>2 DEF Change
<1>5. InstallationTypeOK'
  BY <1>1, <1>4 DEF InstallationTypeOK
<1>6. Bounded'
  BY <1>1, <1>4 DEF DiskInv, Bounded
<1>7. RecordSound' /\ VouchSound' /\ ZipFits'
  BY <1>1 DEF DiskInv, RecordSound, VouchSound, ZipFits
<1>8. DoneWhole'
  <2> SUFFICES ASSUME NEW g, g \in Inputs \/ (\E s \in done : g \in Wrote[s]), file'[g] # NoFile
               PROVE  "torn" \notin file'[g]
    BY <1>1 DEF DoneWhole
  <2>1. g \in Files
    BY <1>1, FilesAre, OneMaker DEF InstallationTypeOK
  <2>2. file[g] # NoFile => "torn" \notin file[g]
    BY <1>1 DEF DiskInv, DoneWhole
  <2> QED
    BY <1>1, <1>2, <1>4, <2>1, <2>2
<1>9. DirectoryFirst'
  <2> SUFFICES ASSUME NEW s \in Fresh \ dirs, NEW g \in Wrote[s] PROVE file'[g] = NoFile
    BY <1>1 DEF DirectoryFirst
  <2>1. g \in Files /\ file[g] = NoFile
    BY <1>1, Numbers, OneMaker DEF DiskInv, DirectoryFirst
  <2> QED
    BY <1>1, <1>4, <2>1
<1>10. RunInv'
  <2>1. at' = 1 /\ step' = 1
    BY <1>1 DEF Place, InScript
  <2> QED
    BY <1>1, <2>1, IdleRun
<1>11. FinishedAccounts'
  BY <1>1, OthersUnfinished
<1> QED
  BY <1>5, <1>6, <1>7, <1>8, <1>9, <1>10, <1>11 DEF InstallationInv, DiskInv

\* The invariant holds initially and every step preserves it.
LEMMA InstallationStep == InstallationInv /\ [Next]_vars => InstallationInv'
<1> SUFFICES ASSUME InstallationInv, [Next]_vars PROVE InstallationInv'
  OBVIOUS
<1>1. CASE \E resume \in BOOLEAN : Begin(resume)
  BY <1>1, BeginKeeps
<1>15. CASE FirstRecord
  BY <1>15, FirstRecordKeeps
<1>2. CASE Verify
  BY <1>2, VerifyKeeps
<1>3. CASE SetAside
  BY <1>3, SetAsideKeeps
<1>4. CASE Enter
  BY <1>4, EnterKeeps
<1>5. CASE Record
  BY <1>5, RecordKeeps
<1>6. CASE Finish
  BY <1>6, FinishKeeps
<1>7. CASE Test
  BY <1>7, TestKeeps
<1>8. CASE MakeDirectory
  BY <1>8, MakeDirectoryKeeps
<1>9. CASE WriteBegins
  BY <1>9, WriteBeginsKeeps
<1>10. CASE WriteEnds
  BY <1>10, WriteEndsKeeps
<1>11. CASE StepClosure
  BY <1>11, StepClosureKeeps
<1>12. CASE Interrupt
  BY <1>12, InterruptKeeps
<1>13. CASE \E f \in Files : Change(f)
  BY <1>13, ChangeKeeps
<1>14. CASE UNCHANGED vars
  BY <1>14, StutterKeeps DEF vars
<1> QED
  BY <1>1, <1>2, <1>3, <1>4, <1>5, <1>6, <1>7, <1>8, <1>9, <1>10, <1>11, <1>12, <1>13, <1>14,
     <1>15 DEF Next, Build

\* The inductive invariant holds in every state of every build.
LEMMA InstallationInvariant == Spec => []InstallationInv
BY InstallationInit, InstallationStep, PTL DEF Spec

\* Every file is there with a set of what may be wrong with it, the record and
\* the directories are of stages of build.py, and a run is at one of them.
THEOREM InstallationTypeCorrect == Spec => []InstallationTypeOK
<1>1. InstallationInv => InstallationTypeOK
  BY DEF InstallationInv
<1> QED
  BY <1>1, InstallationInvariant, PTL

\* However often a build was killed and resumed, and whatever was changed or
\* lost between its runs, a build that finishes accounts for what is on the
\* card (build.py's stages and the checks of their scripts together).
THEOREM FinishedBuildAccounts == Spec => []FinishedAccounts
<1>1. InstallationInv => FinishedAccounts
  BY DEF InstallationInv
<1> QED
  BY <1>1, InstallationInvariant, PTL

(***************************************************************************)
(* The last file of a directory                                            *)
(***************************************************************************)

\* While a script is at work on its directory, the last file is not there yet
\* as a whole.
LEMMA NotSealedYet ==
    ASSUME InstallationInv, InScript, step <= Length(at), Writes(Now), Stage \in Fresh
    PROVE  ~Sealed(Stage)
<1>1. InstallationTypeOK /\ Place /\ NothingAhead
  BY DEF InstallationInv, RunInv
<1>2. /\ at \in 1 .. 13 /\ Stage = Order[at] /\ Length(at) \in Nat /\ step \in 1 .. Length(at)
      /\ Now = Command(at, step) /\ Len(Script[Stage]) = Length(at)
      /\ \A k : Script[Stage][k] = Command(at, k)
  BY <1>1, RunAt
<1> DEFINE l == Turn(Final[Stage])
<1>3. /\ l \in 1 .. Length(at) /\ Writes(Command(at, l)) /\ Command(at, l).what = Final[Stage]
      /\ step <= l
  BY <1>2, AllFit DEF StageFits, FinalLast
<1> HIDE DEF l
<1>4. l \in step .. Length(at)
  BY <1>2, <1>3
<1>5. file[Final[Stage]] = NoFile \/ (pc = "writing" /\ l = step)
  BY <1>1, <1>2, <1>3, <1>4 DEF NothingAhead, Writes
<1>6. CASE pc = "writing" /\ l = step
  <2>1. file[Final[Stage]] = {"torn"}
    BY <1>1, <1>2, <1>3, <1>6 DEF Place
  <2> QED
    BY <2>1 DEF Sealed, Whole
<1> QED
  BY <1>5, <1>6 DEF Sealed, Whole

\* The last file of each directory is one of its own files.
LEMMA FinalIsWritten ==
    ASSUME NEW s \in Fresh PROVE Final[s] \in Wrote[s] /\ Final[s] \in Files
<1>1. PICK n \in 1 .. 13 : s = Order[n]
  BY Numbers
<1>2. /\ Turn(Final[s]) \in 1 .. Length(n) /\ Writes(Command(n, Turn(Final[s])))
      /\ Command(n, Turn(Final[s])).what = Final[s]
  BY <1>1, AllFit DEF StageFits, FinalLast
<1>3. Maker(Final[s]) = n
  BY <1>2, AllFit DEF StageFits, MadeOnce
<1>4. Final[s] \in Wrote[s]
  BY <1>1, <1>3, WroteIs
<1> QED
  BY <1>4, Numbers, OneMaker

\* A step that leaves the files of a directory alone is as it should be.
LEMMA LeavesAlone ==
    ASSUME NEW s \in Fresh, \A f \in Wrote[s] : file'[f] = file[f]
    PROVE  Sealed(s)' /\ ~Sealed(s) => \A f \in Wrote[s] : Whole(f)'
BY FinalIsWritten DEF Sealed, Whole

\* A write that begins is of a directory that is not sealed, and does not seal it.
LEMMA BeginsUnsealed ==
    ASSUME InstallationInv, WriteBegins, NEW s \in Fresh
    PROVE  /\ Sealed(s)' /\ ~Sealed(s) => \A f \in Wrote[s] : Whole(f)'
           /\ Sealed(s) => \A f \in Wrote[s] : file'[f] = file[f]
<1>1. /\ InstallationTypeOK /\ Place /\ InScript /\ pc = "step" /\ step <= Len(Script[Stage])
      /\ Writes(Now)
  BY DEF InstallationInv, RunInv, WriteBegins, AtStep, InScript, Writes
<1>2. step <= Length(at) /\ Stage \in Stages
  BY <1>1, RunAt
<1>3. CASE UNCHANGED file
  BY <1>3, LeavesAlone
<1>4. CASE file' = [file EXCEPT ![Now.what] = {"torn"}]
  <2>1. /\ Now.what \in Files /\ \A t \in Stages : Now.what \in Wrote[t] => t = Stage
        /\ s \in Stages
    BY <1>1, <1>2, WriteAt, Numbers
  <2>2. CASE s # Stage
    <3>1. \A f \in Wrote[s] : file'[f] = file[f]
      BY <1>1, <1>4, <2>1, <2>2, OneMaker DEF InstallationTypeOK
    <3> QED
      BY <3>1, LeavesAlone
  <2>3. CASE s = Stage
    <3>1. ~Sealed(s)
      BY <1>1, <1>2, <2>3, NotSealedYet
    <3>2. file'[Final[s]] = file[Final[s]] \/ file'[Final[s]] = {"torn"}
      BY <1>1, <1>4, <2>1, FinalIsWritten DEF InstallationTypeOK
    <3>3. ~Sealed(s)'
      BY <3>1, <3>2 DEF Sealed, Whole
    <3> QED
      BY <3>1, <3>3
  <2> QED
    BY <2>2, <2>3
<1> QED
  BY <1>3, <1>4 DEF WriteBegins

\* The write that seals a directory is its last: all others are whole.
LEMMA EndsWhole ==
    ASSUME InstallationInv, WriteEnds, NEW s \in Fresh
    PROVE  /\ Sealed(s)' /\ ~Sealed(s) => \A f \in Wrote[s] : Whole(f)'
           /\ Sealed(s) => \A f \in Wrote[s] : file'[f] = file[f]
<1>1. /\ InstallationTypeOK /\ Place /\ InScript /\ pc = "writing" /\ step <= Len(Script[Stage])
      /\ Writes(Now) /\ KnownSound /\ InstallationInv'
  <2>1. InstallationInv'
    BY WriteEndsKeeps
  <2> QED
    BY <2>1 DEF InstallationInv, RunInv, WriteEnds, InScript, Writes, Place
<1>2. /\ at \in 1 .. 13 /\ Stage = Order[at] /\ Stage \in Stages /\ Length(at) \in Nat
      /\ step \in 1 .. Length(at) /\ Now = Command(at, step) /\ s \in Stages
  BY <1>1, RunAt, Numbers
<1>3. /\ Now.what \in Files /\ Turn(Now.what) = step
      /\ \A t \in Stages : Now.what \in Wrote[t] => t = Stage
  BY <1>1, <1>2, WriteAt
<1>4. \A f \in Files \ {Now.what} : file'[f] = file[f]
  BY <1>1, <1>3 DEF InstallationTypeOK, WriteEnds
<1>5. CASE s # Stage
  <2>1. \A f \in Wrote[s] : file'[f] = file[f]
    BY <1>2, <1>3, <1>4, <1>5, OneMaker
  <2> QED
    BY <2>1, LeavesAlone
<1>6. CASE s = Stage
  <2>1. ~Sealed(s)
    BY <1>1, <1>2, <1>6, NotSealedYet
  <2> SUFFICES ASSUME Sealed(s)', NEW f \in Wrote[s] PROVE Whole(f)'
    BY <2>1
  <2>2. Final[s] = Now.what
    BY <1>4, <2>1, FinalIsWritten DEF Sealed, Whole
  <2>3. \A i \in 1 .. Length(at) : Writes(Command(at, i)) => i <= step
    BY <1>2, <1>3, <1>6, <2>2, AllFit DEF StageFits, FinalLast
  <2>4. Maker(f) = at
    BY <1>2, <1>6, WroteIs
  <2>5. /\ Turn(f) \in 1 .. Length(at) /\ Writes(Command(at, Turn(f)))
        /\ Command(at, Turn(f)).what = f
    BY <1>2, <2>4, AllFit DEF StageFits, MakesAll
  <2>6. Turn(f) \in 1 .. step
    BY <2>3, <2>5
  <2>7. pc' = "step" /\ step' = step + 1 /\ at' = at
    BY DEF WriteEnds
  <2>8. f \in Trusted'
    <3>1. f \in Gained(Command(at, Turn(f)))
      BY <2>5 DEF Gained, Writes
    <3>2. (step + 1) - 1 = step
      BY <1>2
    <3>3. Trusted' = (UNION {Outputs[Order[i]] : i \in 1 .. at - 1})
                     \union (UNION {Gained(Command(at, k)) : k \in 1 .. (step + 1) - 1})
      BY <2>7 DEF Trusted, Command, Stage
    <3> DEFINE A == UNION {Outputs[Order[i]] : i \in 1 .. at - 1}
               B == UNION {Gained(Command(at, k)) : k \in 1 .. step}
    <3>4. Trusted' = A \union B
      BY <3>2, <3>3
    <3>5. f \in B
      BY <2>6, <3>1
    <3> HIDE DEF A, B
    <3> QED
      BY <3>4, <3>5
  <2>9. Sound(file[f], f)'
    BY <1>1, <2>7, <2>8 DEF InstallationInv, RunInv, KnownSound
  <2>10. f \in Files
    BY <1>2, OneMaker
  <2>11. file'[f] \in Contents
    BY <1>1, <2>10 DEF InstallationInv, InstallationTypeOK
  <2>12. file'[f] # NoFile /\ "torn" \notin file'[f]
    BY <2>9, <2>11, SoundIsWhole DEF Sound
  <2> QED
    BY <2>12 DEF Whole
<1> QED
  BY <1>5, <1>6

\* What is moved away is a whole directory.
LEMMA MovesWhole ==
    ASSUME InstallationInv, SetAside, NEW s \in Fresh
    PROVE  /\ Sealed(s)' /\ ~Sealed(s) => \A f \in Wrote[s] : Whole(f)'
           /\ \/ \A f \in Wrote[s] : file'[f] = file[f]
              \/ \A f \in Wrote[s] : file'[f] = NoFile
<1>1. /\ Stage \in Fresh
      /\ file' = [f \in Files |-> IF f \in Wrote[Stage] THEN NoFile ELSE file[f]]
  BY DEF SetAside
<1>2. s \in Stages /\ Stage \in Stages /\ \A f \in Wrote[s] : f \in Files
  BY <1>1, Numbers, OneMaker
<1>3. CASE s = Stage
  <2>1. \A f \in Wrote[s] : file'[f] = NoFile
    BY <1>1, <1>2, <1>3
  <2> QED
    BY <2>1, FinalIsWritten DEF Sealed, Whole
<1>4. CASE s # Stage
  <2>1. ASSUME NEW f \in Wrote[s] PROVE file'[f] = file[f]
    <3>1. f \notin Wrote[Stage]
      BY <1>2, <1>4, OneMaker
    <3> QED
      BY <1>1, <1>2, <3>1
  <2> QED
    BY <2>1, LeavesAlone
<1> QED
  BY <1>3, <1>4

\* The last file a script writes stands for all of its directory: from then on
\* the directory is whole, and no run changes a file of it, but may move it
\* away as a whole (build.py:52-60).
THEOREM SealedIsWhole == Spec => SealedOnce
<1> DEFINE P(s) == /\ Sealed(s)' /\ ~Sealed(s) => \A f \in Wrote[s] : Whole(f)'
                   /\ Sealed(s) => \/ \A f \in Wrote[s] : file'[f] = file[f]
                                   \/ \A f \in Wrote[s] : file'[f] = NoFile
<1>1. InstallationInv /\ [Next]_vars => [pc # "idle" => \A s \in Fresh : P(s)]_vars
  <2> SUFFICES ASSUME InstallationInv, Next, pc # "idle", NEW s \in Fresh PROVE P(s)
    OBVIOUS
  <2>1. CASE UNCHANGED file
    BY <2>1, LeavesAlone
  <2>2. CASE SetAside
    BY <2>2, MovesWhole
  <2>3. CASE WriteBegins
    BY <2>3, BeginsUnsealed
  <2>4. CASE WriteEnds
    BY <2>4, EndsWhole
  <2>5. \/ UNCHANGED file \/ SetAside \/ WriteBegins \/ WriteEnds
    BY
       DEF Next, Build, Begin, FirstRecord, Verify, Enter, Record, Finish, Test, MakeDirectory, StepClosure,
           Interrupt, Change, diskVars
  <2> HIDE DEF P
  <2> QED
    BY <2>1, <2>2, <2>3, <2>4, <2>5
<1> QED
  BY <1>1, InstallationInvariant, PTL DEF Spec, SealedOnce

(***************************************************************************)
(* The searches of a build are searches of DependencyClosure               *)
(***************************************************************************)

\* A run that stops leaves the search, or had none.
LEMMA StopSearches ==
    ASSUME NEW how, Stop(how) PROVE [ClosureNext]_closureVars
BY DEF Stop, ClosureNext

\* The build implements the specification of the search, which so ends with
\* the closure of the game's assemblies in every build, too.
THEOREM BuildImplementsClosure == Spec => ClosureSpec
<1>1. Init => ClosureInit
  BY DEF Init
<1>2. [Next]_vars => [ClosureNext]_closureVars
  <2> SUFFICES ASSUME [Next]_vars PROVE [ClosureNext]_closureVars
    OBVIOUS
  <2>1. CASE UNCHANGED closureVars
    BY <2>1
  <2>2. CASE \E how \in {"refused", "interrupted", "finished"} : Stop(how)
    BY <2>2, StopSearches
  <2>3. CASE StepClosure
    BY <2>3, StopSearches DEF StepClosure, ClosureNext
  <2>4. \/ UNCHANGED closureVars \/ StepClosure
        \/ \E how \in {"refused", "interrupted", "finished"} : Stop(how)
    BY DEF Next, Build, Begin, FirstRecord, Verify, SetAside, Enter, Record, Finish, Test, MakeDirectory,
           WriteBegins, WriteEnds, Interrupt, Change, NextStep, vars
  <2> QED
    BY <2>1, <2>2, <2>3, <2>4
<1> QED
  BY <1>1, <1>2, PTL DEF Spec, ClosureSpec

\* In every build, however often it was interrupted during a search or after
\* one, what a search that ends well hands to the link is the closure.
THEOREM BuildLinksClosure == Spec => []ResolvedIsClosure
BY BuildImplementsClosure, SearchIsClosure, PTL
==============================================================================
