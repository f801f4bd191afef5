------------------------- MODULE SourceCheckoutProofs -------------------------
(***************************************************************************)
(* Proofs about SourceCheckout, for any repositories and submodules, any   *)
(* revisions and any number of kills and changes by the user.              *)
(***************************************************************************)
EXTENDS SourceCheckout, TLAPS

(***************************************************************************)
(* The visit a run is at, and what its repository is pinned to.            *)
(***************************************************************************)
LEMMA OrderLength == Len(Order) \in Nat /\ \A i \in 1 .. Len(Order) : Order[i] \in Repos
BY OrderAssumption

LEMMA VisitedRepository ==
    ASSUME TypeOK
    PROVE  at \in 1 .. Len(Order) /\ at \in Nat /\ Order[at] \in Repos
BY OrderLength DEF TypeOK

LEMMA PinTyped ==
    ASSUME TypeOK, NEW r \in Repos
    PROVE  Pin(r) \in Revisions \union {None}
BY LinkAssumption DEF TypeOK, Pin, Roots

LEMMA LibnxPin == Libnx \in Roots /\ Pin(Libnx) = lock[Libnx]
BY LinkAssumption DEF Roots, Pin

LEMMA LibnxPinned ==
    ASSUME VisitedPinned, pc \in Building
    PROVE  head[Libnx] = lock[Libnx]
BY LinkAssumption, OrderAssumption, LibnxPin DEF VisitedPinned, Pinned

\* A step that leaves the lock, the checkouts and the archive alone.
LEMMA PinStays ==
    ASSUME UNCHANGED <<lock, head>>
    PROVE  \A r \in Repos : Pin(r)' = Pin(r)
BY DEF Pin

LEMMA CheckoutInit == Init => CheckoutInv
<1> SUFFICES ASSUME Init PROVE CheckoutInv
  OBVIOUS
<1>1. TypeOK
  <2>1. Len(Parts) \in Nat /\ Len(Order) \in Nat /\ Len(Order) > 0
    BY PartsAssumption, OrderAssumption
  <2>2. lock[Libnx] \in Revisions
    BY LinkAssumption DEF Init, Roots
  <2>3. QED
    BY <2>1, <2>2, BoundAssumption DEF Init, TypeOK
<1>2. CopiedPinned
  BY DEF Init, CopiedPinned
<1>3. LayersPinned
  BY DEF Init, LayersPinned
<1>4. QED
  BY <1>1, <1>2, <1>3 DEF Init, CheckoutInv, HeadMeansTree, WritesOwn, VisitedPinned, RunPhases,
     ReadyIsPinned, Visiting, Building

(***************************************************************************)
(* A step that touches no checkout, or none but the one at hand.           *)
(***************************************************************************)
LEMMA TreesStay ==
    ASSUME CheckoutInv, UNCHANGED <<lock, treeVars>>
    PROVE  /\ HeadMeansTree'
           /\ \A r \in Repos : Pinned(r) => Pinned(r)'
           /\ \A i \in 1 .. Len(Order) : Pinned(Order[i]) => Pinned(Order[i])'
<1>1. \A r \in Repos : Pin(r)' = Pin(r)
  BY PinStays DEF treeVars
<1>2. \A r \in Repos : Pinned(r) => Pinned(r)'
  BY <1>1 DEF Pinned, treeVars
<1>3. QED
  BY <1>2, OrderLength DEF CheckoutInv, HeadMeansTree, treeVars

(***************************************************************************)
(* A step of a run that writes nothing.                                    *)
(***************************************************************************)

\* The next visit, or the build after the last one, when the checkout at hand
\* is as it should be.
LEMMA AdvanceKeeps ==
    ASSUME CheckoutInv, Advance, \A i \in 1 .. at : Pinned(Order[i])'
    PROVE  /\ pc' \in {"look", "make"} /\ outcome' = outcome
           /\ at' \in 1 .. Len(Order)
           /\ VisitedPinned'
<1>1. at \in 1 .. Len(Order) /\ Len(Order) \in Nat
  BY VisitedRepository, OrderLength DEF CheckoutInv
<1>2. CASE at < Len(Order)
  <2>1. at' = at + 1 /\ pc' = "look" /\ outcome' = outcome
    BY <1>2 DEF Advance, Goto
  <2>2. at' - 1 = at
    BY <1>1, <2>1
  <2>3. \A i \in 1 .. at' - 1 : Pinned(Order[i])'
    BY <2>2
  <2>4. QED
    BY <1>1, <1>2, <2>1, <2>3 DEF VisitedPinned, Building
<1>3. CASE ~(at < Len(Order))
  <2>1. at' = at /\ pc' = "make" /\ outcome' = outcome
    BY <1>3 DEF Advance, Goto
  <2>2. Len(Order) = at
    BY <1>1, <1>3
  <2>3. \A i \in 1 .. Len(Order) : Pinned(Order[i])'
    BY <2>2
  <2>4. QED
    BY <1>1, <2>1, <2>3 DEF VisitedPinned, Visiting
<1>4. QED
  BY <1>2, <1>3

LEMMA StartKeeps ==
    ASSUME CheckoutInv, NEW m \in {"none", "mapped", "malformed"}, Start(m)
    PROVE  CheckoutInv'
<1> USE DEF CheckoutInv, Start, lockVars, diskVars, sdkVars, treeVars
<1>1. TypeOK'
  <2>1. 0 \in 0 .. Len(Parts) /\ 1 \in 1 .. Len(Order)
    BY PartsAssumption, OrderAssumption
  <2>2. pc' \in {"idle", "look"} /\ outcome' \in {"none", "refused"}
    BY DEF Stop
  <2>3. QED
    BY <2>1, <2>2 DEF TypeOK
<1>2. (pc' = "look" /\ outcome' = "none") \/ (pc' = "idle" /\ outcome' = "refused")
  BY DEF Stop
<1>3. HeadMeansTree'
  BY DEF HeadMeansTree
<1>4. VisitedPinned' /\ CopiedPinned' /\ LayersPinned'
  BY <1>2 DEF VisitedPinned, CopiedPinned, LayersPinned, Building, Visiting
<1>5. QED
  BY <1>1, <1>2, <1>3, <1>4 DEF WritesOwn, RunPhases, ReadyIsPinned, Visiting

\* Only the .git of the visit at hand changes, and it has no commits.
LEMMA GitOnly ==
    ASSUME CheckoutInv, pc \in Visiting, pc' \in Visiting, head[Order[at]] = None,
           NEW g, git' = [git EXCEPT ![Order[at]] = g],
           UNCHANGED <<lock, head, files, at>>
    PROVE  HeadMeansTree' /\ VisitedPinned'
<1>1. /\ Order[at] \in Repos
      /\ \A i \in 1 .. at - 1 : Order[i] \in Repos
  BY VisitedRepository, OrderLength DEF CheckoutInv
<1>2. \A c \in Repos : head[c] # None => git'[c] = git[c]
  BY DEF CheckoutInv, TypeOK
<1>3. \A c \in Repos : Pin(c)' = Pin(c)
  BY PinStays
<1>4. QED
  BY <1>1, <1>2, <1>3 DEF CheckoutInv, HeadMeansTree, VisitedPinned, Pinned, Visiting, Building

LEMMA LookKeeps == ASSUME CheckoutInv, Look PROVE CheckoutInv'
<1> DEFINE r == Order[at]
<1> USE DEF CheckoutInv
<1>0. r \in Repos
  BY VisitedRepository
<1>1. /\ pc = "look" /\ outcome = "none"
      /\ UNCHANGED <<lock, pastPins, head, files, sdk, layers, archive, part, at, copied, events>>
  BY DEF Look, RunPhases, lockVars, sdkVars
<1>2. \A c \in Repos : Pin(c)' = Pin(c)
  BY <1>1, PinStays
<1>3. CASE /\ Pin(r) \in Revisions /\ Empty(r)
           /\ git' = [git EXCEPT ![r] = "partial"] /\ Goto("init")
  <2>1. pc' = "init" /\ outcome' = "none" /\ git'[r] = "partial"
    BY <1>0, <1>1, <1>3 DEF Goto, TypeOK
  <2>2. TypeOK'
    BY <1>1, <1>3, <2>1 DEF TypeOK
  <2>3. head[r] = None
    BY <1>0, <1>3 DEF HeadMeansTree, Empty
  <2>4. HeadMeansTree' /\ VisitedPinned'
    BY <1>1, <1>3, <2>1, <2>3, GitOnly DEF Visiting
  <2>5. WritesOwn'
    BY <1>0, <1>1, <1>2, <1>3, <2>1, <2>3 DEF WritesOwn, Empty
  <2>6. QED
    BY <1>1, <2>1, <2>2, <2>4, <2>5 DEF CopiedPinned, LayersPinned, RunPhases, ReadyIsPinned
<1>4. CASE Pin(r) \in Revisions /\ git[r] # "none" /\ Goto("status") /\ UNCHANGED git
  <2>1. pc' = "status" /\ outcome' = "none"
    BY <1>1, <1>4 DEF Goto
  <2>2. HeadMeansTree' /\ \A i \in 1 .. Len(Order) : Pinned(Order[i]) => Pinned(Order[i])'
    BY <1>1, <1>4, TreesStay DEF treeVars
  <2>3. VisitedPinned'
    BY <1>1, <2>1, <2>2, VisitedRepository, OrderLength DEF VisitedPinned, Visiting, Building
  <2>4. WritesOwn'
    BY <1>0, <1>1, <1>2, <1>4, <2>1 DEF WritesOwn
  <2>5. QED
    BY <1>1, <1>4, <2>1, <2>2, <2>3, <2>4 DEF TypeOK, CopiedPinned, LayersPinned, RunPhases,
       ReadyIsPinned
<1>5. CASE Stop("refused") /\ UNCHANGED git
  BY <1>1, <1>5 DEF Stop, TypeOK, HeadMeansTree, WritesOwn, VisitedPinned, CopiedPinned,
       LayersPinned, RunPhases, ReadyIsPinned, Visiting, Building
<1>6. QED
  BY <1>3, <1>4, <1>5 DEF Look

LEMMA InitKeeps == ASSUME CheckoutInv, InitEnds PROVE CheckoutInv'
<1> DEFINE r == Order[at]
<1> USE DEF CheckoutInv
<1>0. r \in Repos
  BY VisitedRepository
<1>1. /\ pc = "init" /\ outcome = "none" /\ pc' = "status" /\ outcome' = "none"
      /\ git' = [git EXCEPT ![r] = "whole"]
      /\ UNCHANGED <<lock, pastPins, head, files, sdk, layers, archive, part, at, copied, events>>
  BY DEF InitEnds, Goto, RunPhases, lockVars, sdkVars
<1>2. \A c \in Repos : Pin(c)' = Pin(c)
  BY <1>1, PinStays
<1>3. Pin(r) \in Revisions /\ head[r] = None
  BY <1>1 DEF WritesOwn, Visiting
<1>4. HeadMeansTree' /\ VisitedPinned'
  BY <1>1, <1>3, GitOnly DEF Visiting
<1>5. git'[r] = "whole"
  BY <1>0, <1>1 DEF TypeOK
<1>6. WritesOwn'
  BY <1>0, <1>1, <1>2, <1>3, <1>5 DEF WritesOwn
<1>7. QED
  BY <1>1, <1>4, <1>6 DEF TypeOK, CopiedPinned, LayersPinned, RunPhases, ReadyIsPinned

LEMMA StatusKeeps == ASSUME CheckoutInv, Status PROVE CheckoutInv'
<1> DEFINE r == Order[at]
<1> USE DEF CheckoutInv
<1>0. r \in Repos
  BY VisitedRepository
<1>1. /\ pc = "status" /\ outcome = "none"
      /\ UNCHANGED <<lock, pastPins, git, head, files, sdk, layers, archive, part, copied, events>>
  BY DEF Status, RunPhases, lockVars, diskVars, sdkVars, treeVars
<1>2. \A c \in Repos : Pin(c)' = Pin(c)
  BY <1>1, PinStays
<1>3. \A i \in 1 .. at - 1 : Order[i] \in Repos
  BY VisitedRepository, OrderLength
<1>4. HeadMeansTree'
  BY <1>1 DEF HeadMeansTree
<1>5. CASE Stop("refused") /\ UNCHANGED at
  BY <1>1, <1>4, <1>5 DEF Stop, TypeOK, WritesOwn, VisitedPinned, CopiedPinned,
       LayersPinned, RunPhases, ReadyIsPinned, Visiting, Building
<1>6. CASE IsRepository(r) /\ ~Dirty(r) /\ head[r] = None /\ Goto("fetch") /\ UNCHANGED at
  <2>1. pc' = "fetch" /\ outcome' = "none" /\ at' = at
    BY <1>1, <1>6 DEF Goto
  <2>2. files[r] # "edited"
    BY <1>6 DEF Dirty
  <2>3. WritesOwn'
    BY <1>0, <1>1, <1>2, <1>6, <2>1, <2>2 DEF WritesOwn, Visiting
  <2>4. VisitedPinned'
    BY <1>1, <1>2, <1>3, <2>1 DEF VisitedPinned, Visiting, Building, Pinned
  <2>5. TypeOK'
    BY <1>1, <2>1 DEF TypeOK
  <2>6. QED
    BY <1>1, <1>4, <2>1, <2>3, <2>4, <2>5 DEF CopiedPinned, LayersPinned, RunPhases, ReadyIsPinned
<1>7. CASE ~Dirty(r) /\ head[r] = Pin(r) /\ head[r] # None /\ Advance
  <2>1. Pinned(r)
    BY <1>0, <1>7 DEF Pinned, Dirty, HeadMeansTree
  <2>2. \A i \in 1 .. at : Order[i] \in Repos /\ Pinned(Order[i])
    <3>1. \A i \in 1 .. at - 1 : Pinned(Order[i])
      BY <1>1 DEF VisitedPinned, Visiting
    <3>2. at \in Nat
      BY VisitedRepository
    <3>3. QED
      BY <1>0, <1>3, <2>1, <3>1, <3>2
  <2>3. \A i \in 1 .. at : Pinned(Order[i])'
    BY <1>1, <1>2, <2>2 DEF Pinned
  <2>4. /\ pc' \in {"look", "make"} /\ outcome' = "none"
        /\ at' \in 1 .. Len(Order) /\ VisitedPinned'
    BY <1>1, <1>7, <2>3, AdvanceKeeps
  <2>5. TypeOK'
    BY <1>1, <2>4 DEF TypeOK
  <2>6. QED
    BY <1>1, <1>4, <2>4, <2>5 DEF WritesOwn, CopiedPinned, LayersPinned, RunPhases, ReadyIsPinned, Visiting
<1>8. QED
  BY <1>5, <1>6, <1>7 DEF Status

LEMMA FetchKeeps == ASSUME CheckoutInv, Fetch PROVE CheckoutInv'
<1> USE DEF CheckoutInv
<1>1. /\ pc = "fetch" /\ outcome = "none"
      /\ UNCHANGED <<lock, pastPins, git, head, files, sdk, layers, archive, part, at, copied, events>>
  BY DEF Fetch, RunPhases, lockVars, diskVars, sdkVars, treeVars
<1>2. HeadMeansTree' /\ \A i \in 1 .. Len(Order) : Pinned(Order[i]) => Pinned(Order[i])'
  BY <1>1, TreesStay DEF treeVars
<1>3. \A c \in Repos : Pin(c)' = Pin(c)
  BY <1>1, PinStays
<1>4. CASE Goto("checkout")
  <2>1. pc' = "checkout" /\ outcome' = outcome
    BY <1>4 DEF Goto
  <2>2. VisitedPinned'
    BY <1>1, <1>2, <2>1, VisitedRepository, OrderLength DEF VisitedPinned, Visiting, Building
  <2>3. WritesOwn'
    BY <1>1, <1>3, <2>1, VisitedRepository DEF WritesOwn, Visiting
  <2>4. QED
    BY <1>1, <1>2, <2>1, <2>2, <2>3 DEF TypeOK, CopiedPinned, LayersPinned, RunPhases,
       ReadyIsPinned
<1>5. CASE Stop("failed")
  BY <1>1, <1>2, <1>5 DEF Stop, TypeOK, WritesOwn, VisitedPinned, CopiedPinned, LayersPinned,
     RunPhases, ReadyIsPinned, Visiting, Building
<1>6. QED
  BY <1>4, <1>5 DEF Fetch

LEMMA CheckoutBeginsKeeps == ASSUME CheckoutInv, CheckoutBegins PROVE CheckoutInv'
<1> DEFINE r == Order[at]
<1> USE DEF CheckoutInv
<1>0. r \in Repos /\ \A i \in 1 .. at - 1 : Order[i] \in Repos
  BY VisitedRepository, OrderLength
<1>1. /\ pc = "checkout" /\ outcome = "none"
      /\ UNCHANGED <<lock, pastPins, git, head, sdk, layers, archive, part, at, copied, events>>
  BY DEF CheckoutBegins, RunPhases, lockVars, sdkVars
<1>2. head[r] = None /\ Pin(r) \in Revisions
  BY <1>1 DEF WritesOwn, Visiting
<1>3. \A c \in Repos : Pin(c)' = Pin(c)
  BY <1>1, PinStays
<1>4. CASE git[r] = "whole" /\ files' = [files EXCEPT ![r] = "partial"] /\ Goto("writing")
  <2>1. pc' = "writing" /\ outcome' = outcome /\ files'[r] = "partial"
    BY <1>0, <1>4 DEF Goto, TypeOK
  <2>2. \A c \in Repos : c # r => files'[c] = files[c]
    BY <1>4 DEF TypeOK
  <2>3. TypeOK'
    BY <1>1, <1>4, <2>1 DEF TypeOK
  <2>4. HeadMeansTree'
    BY <1>1, <1>2, <2>2 DEF HeadMeansTree
  <2>5. WritesOwn'
    BY <1>0, <1>1, <1>2, <1>3, <1>4, <2>1 DEF WritesOwn
  <2>6. VisitedPinned'
    BY <1>0, <1>1, <1>2, <1>3, <2>1, <2>2 DEF VisitedPinned, Visiting, Building, Pinned
  <2>7. QED
    BY <1>1, <2>1, <2>3, <2>4, <2>5, <2>6 DEF CopiedPinned, LayersPinned, RunPhases, ReadyIsPinned
<1>5. CASE Stop("failed") /\ UNCHANGED files
  BY <1>1, <1>5 DEF Stop, TypeOK, HeadMeansTree, WritesOwn, VisitedPinned, CopiedPinned,
     LayersPinned, RunPhases, ReadyIsPinned, Visiting, Building
<1>6. QED
  BY <1>4, <1>5 DEF CheckoutBegins

LEMMA CheckoutEndsKeeps == ASSUME CheckoutInv, CheckoutEnds PROVE CheckoutInv'
<1> DEFINE r == Order[at]
<1> USE DEF CheckoutInv
<1>0. /\ r \in Repos /\ at \in 1 .. Len(Order) /\ at \in Nat
      /\ \A i \in 1 .. at : Order[i] \in Repos
  BY VisitedRepository, OrderLength
<1>1. /\ pc = "writing" /\ outcome = "none" /\ Advance
      /\ files' = [files EXCEPT ![r] = "clean"]
      /\ head' = [head EXCEPT ![r] = Pin(r)]
      /\ UNCHANGED <<lock, pastPins, git, sdk, layers, archive, part, copied, events>>
  BY DEF CheckoutEnds, RunPhases, lockVars, sdkVars
<1>2. head[r] = None /\ git[r] = "whole" /\ Pin(r) \in Revisions /\ None \notin Revisions
  BY <1>1, LinkAssumption DEF WritesOwn, Visiting
<1>3. /\ files'[r] = "clean" /\ head'[r] = Pin(r)
      /\ \A c \in Repos : c # r => files'[c] = files[c] /\ head'[c] = head[c]
  BY <1>0, <1>1 DEF TypeOK
<1>4. \A i \in 1 .. at - 1 : Pinned(Order[i]) /\ Order[i] # r
  BY <1>1, <1>2 DEF VisitedPinned, Visiting, Pinned
\* The pin of what was visited, and of the visit itself, is that of the lock or
\* of a parent visited before.
<1>5. ASSUME NEW i \in 1 .. at PROVE Pin(Order[i])' = Pin(Order[i])
  <2>1. CASE Parent[Order[i]] = None
    BY <1>1, <2>1 DEF Pin
  <2>2. CASE Parent[Order[i]] # None
    <3>1. i \in 1 .. Len(Order) /\ i <= at /\ i \in Nat
      BY <1>0
    <3>2. PICK j \in 1 .. i - 1 : Order[j] = Parent[Order[i]]
      BY <2>2, <3>1, LinkAssumption
    <3>3. j \in 1 .. at - 1 /\ j \in 1 .. at
      BY <1>0, <3>1
    <3>4. Order[j] # r /\ Order[j] \in Repos
      BY <1>0, <1>4, <3>3
    <3>5. head'[Parent[Order[i]]] = head[Parent[Order[i]]]
      BY <1>3, <3>2, <3>4
    <3>6. Pin(Order[i])' = IF head'[Parent[Order[i]]] = None THEN None
                           ELSE Link[Order[i]][head'[Parent[Order[i]]]]
      BY <2>2 DEF Pin
    <3>7. Pin(Order[i]) = IF head[Parent[Order[i]]] = None THEN None
                          ELSE Link[Order[i]][head[Parent[Order[i]]]]
      BY <2>2 DEF Pin
    <3>8. QED
      BY <3>5, <3>6, <3>7
  <2>3. QED
    BY <2>1, <2>2
<1>6. \A i \in 1 .. at : Pinned(Order[i])'
  <2>1. ASSUME NEW i \in 1 .. at, i # at PROVE Pinned(Order[i])'
    <3>1. Pinned(Order[i]) /\ Order[i] # r /\ Order[i] \in Repos
      BY <1>0, <1>4, <2>1
    <3>2. QED
      BY <1>1, <1>3, <1>5, <3>1 DEF Pinned
  <2>2. ASSUME NEW i \in 1 .. at, i = at PROVE Pinned(Order[i])'
    <3>1. Order[i] = r /\ Pin(Order[i])' = Pin(r)
      BY <1>5, <2>2
    <3>2. QED
      BY <1>1, <1>2, <1>3, <3>1 DEF Pinned
  <2>3. QED
    BY <2>1, <2>2
<1>7. /\ pc' \in {"look", "make"} /\ outcome' = "none"
      /\ at' \in 1 .. Len(Order) /\ VisitedPinned'
  BY <1>1, <1>6, AdvanceKeeps
<1>8. TypeOK'
  BY <1>0, <1>1, <1>2, <1>7 DEF TypeOK
<1>9. HeadMeansTree'
  BY <1>1, <1>2, <1>3 DEF HeadMeansTree
<1>10. QED
  BY <1>1, <1>7, <1>8, <1>9 DEF WritesOwn, CopiedPinned, LayersPinned, RunPhases, ReadyIsPinned, Visiting

(***************************************************************************)
(* The SDK and the archive.                                                *)
(***************************************************************************)
LEMMA BuildingKeepsVisits ==
    ASSUME CheckoutInv, pc \in Building, pc' \in Building \union {"idle"},
           UNCHANGED <<lock, treeVars, at>>
    PROVE  HeadMeansTree' /\ WritesOwn' /\ VisitedPinned'
<1>1. HeadMeansTree' /\ \A i \in 1 .. Len(Order) : Pinned(Order[i]) => Pinned(Order[i])'
  BY TreesStay
<1>2. QED
  BY <1>1 DEF CheckoutInv, WritesOwn, VisitedPinned, Visiting, Building

LEMMA SdkKeeps ==
    ASSUME CheckoutInv, Make \/ CopyBegins \/ CopyEnds \/ CopyDone
    PROVE  CheckoutInv'
<1> USE DEF CheckoutInv
<1>0. Len(Parts) \in Nat /\ copied \in 0 .. Len(Parts)
  BY PartsAssumption DEF TypeOK
<1>1. /\ pc \in {"make", "copy", "copying"} /\ pc' \in {"copy", "copying", "archive"}
      /\ outcome = "none" /\ outcome' = "none"
      /\ UNCHANGED <<lock, pastPins, git, head, files, archive, part, at, events>>
  BY DEF Make, CopyBegins, CopyEnds, CopyDone, Goto, RunPhases, lockVars, diskVars, sdkVars, treeVars
<1>2. HeadMeansTree' /\ WritesOwn' /\ VisitedPinned'
  BY <1>1, BuildingKeepsVisits DEF Building, treeVars
<1>3. RunPhases' /\ ReadyIsPinned'
  BY <1>1 DEF RunPhases, ReadyIsPinned
<1>4. TypeOK' /\ CopiedPinned' /\ LayersPinned'
  <2> USE DEF lockVars, diskVars, sdkVars
  <2>1. CASE Make
    BY <1>1, <2>1 DEF Make, Goto, TypeOK, CopiedPinned, LayersPinned
  <2>2. CASE CopyBegins
    <3> DEFINE under == IF Parts[copied + 1] \in Folders THEN layers[copied + 1] ELSE {}
    <3>1. /\ pc = "copy" /\ pc' = "copying" /\ copied < Len(Parts) /\ copied' = copied
          /\ sdk' = [sdk EXCEPT ![copied + 1] = "torn"]
          /\ layers' = [layers EXCEPT ![copied + 1] = under \union {head[Libnx]}]
      BY <2>2 DEF CopyBegins, Goto
    <3>2. head[Libnx] = lock[Libnx] /\ lock[Libnx] \in Revisions
      BY <3>1, LibnxPinned, LibnxPin DEF Building, TypeOK
    <3>3. under \subseteq layers[copied + 1] /\ copied + 1 \in 1 .. Len(Parts)
      BY <1>0, <3>1
    <3>4. /\ layers'[copied + 1] = under \union {lock[Libnx]}
          /\ \A p \in 1 .. Len(Parts) : p # copied + 1 =>
                sdk'[p] = sdk[p] /\ layers'[p] = layers[p]
      BY <3>1, <3>2, <3>3 DEF TypeOK
    <3>5. TypeOK'
      <4>1. under \union {head[Libnx]} \subseteq Revisions
        BY <3>2, <3>3 DEF TypeOK
      <4>2. layers' \in [1 .. Len(Parts) -> SUBSET Revisions]
        BY <3>1, <4>1 DEF TypeOK
      <4>3. sdk' \in [1 .. Len(Parts) -> Revisions \union {None, "torn"}]
        BY <3>1 DEF TypeOK
      <4>4. QED
        BY <1>1, <3>1, <4>2, <4>3 DEF TypeOK
    <3>6. \A p \in 1 .. copied : p \in 1 .. Len(Parts) /\ p # copied + 1
      BY <1>0
    <3>7. CopiedPinned'
      BY <1>1, <3>1, <3>4, <3>6 DEF CopiedPinned
    <3>8. LayersPinned'
      BY <1>1, <3>2, <3>3, <3>4 DEF LayersPinned
    <3>9. QED
      BY <3>5, <3>7, <3>8
  <2>3. CASE CopyEnds
    <3>1. /\ pc = "copying" /\ pc' = "copy" /\ copied' = copied + 1
          /\ sdk' = [sdk EXCEPT ![copied + 1] = head[Libnx]]
          /\ layers' = layers
      BY <2>3 DEF CopyEnds, Goto
    <3>2. copied < Len(Parts) /\ head[Libnx] = lock[Libnx]
      BY <3>1, LibnxPinned DEF CopiedPinned, Building
    <3>3. head[Libnx] \in Revisions \union {None}
      BY LinkAssumption DEF TypeOK
    <3>4. TypeOK'
      BY <1>0, <1>1, <3>1, <3>2, <3>3 DEF TypeOK
    <3>5. \A p \in 1 .. copied' : sdk'[p] = lock[Libnx]
      <4>1. \A p \in 1 .. copied' : p \in 1 .. copied \/ p = copied + 1
        BY <1>0, <3>1
      <4>2. /\ sdk'[copied + 1] = head[Libnx]
            /\ \A p \in 1 .. copied : sdk'[p] = sdk[p]
        BY <1>0, <3>1, <3>2 DEF TypeOK
      <4>3. QED
        BY <3>1, <3>2, <4>1, <4>2 DEF CopiedPinned
    <3>6. \A p \in 1 .. copied' :
             /\ lock[Libnx] \in layers[p]
             /\ Parts[p] \notin Folders => layers[p] = {lock[Libnx]}
      <4>1. \A p \in 1 .. copied' : p \in 1 .. copied \/ p = copied + 1
        BY <1>0, <3>1
      <4>2. QED
        BY <3>1, <4>1 DEF CopiedPinned
    <3>7. QED
      BY <1>1, <3>1, <3>4, <3>5, <3>6 DEF CopiedPinned, LayersPinned
  <2>4. CASE CopyDone
    BY <1>1, <2>4 DEF CopyDone, Goto, TypeOK, CopiedPinned, LayersPinned
  <2>5. QED
    BY <2>1, <2>2, <2>3, <2>4
<1>5. QED
  BY <1>2, <1>3, <1>4

\* With every visit and every part behind it, a run is ready once it has the
\* archive.
LEMMA ArchiveCompletes ==
    ASSUME CheckoutInv, pc \in {"archive", "receive", "digest"}, archive' = "right",
           UNCHANGED <<lockVars, treeVars, sdkVars>>
    PROVE  ReadyIsPinned'
<1>1. \A r \in Repos : Pinned(r)'
  <2>1. \A i \in 1 .. Len(Order) : Pinned(Order[i])
    BY DEF CheckoutInv, VisitedPinned, Building
  <2>2. \A r \in Repos : Pinned(r)
    BY <2>1, OrderAssumption
  <2>3. QED
    BY <2>2, TreesStay DEF lockVars
<1>2. \A p \in 1 .. Len(Parts) :
         /\ sdk'[p] = lock'[Libnx] /\ lock'[Libnx] \in layers'[p]
         /\ layers'[p] \subseteq IF Parts[p] \in Folders THEN pastPins' ELSE {lock'[Libnx]}
  BY DEF CheckoutInv, CopiedPinned, LayersPinned, lockVars, sdkVars
<1>3. QED
  BY <1>1, <1>2 DEF ReadyIsPinned, Pinned

LEMMA ArchiveKeeps ==
    ASSUME CheckoutInv, Open \/ Receiving \/ Replace
    PROVE  CheckoutInv'
<1> USE DEF CheckoutInv
<1>1. /\ pc \in {"archive", "receive", "digest"}
      /\ pc' \in {"idle", "receive", "digest"}
      /\ UNCHANGED <<lock, pastPins, git, head, files, sdk, layers, at, copied, events>>
  BY DEF Open, Receiving, Receive, Replace, Stop, Goto, lockVars, sdkVars, treeVars
<1>2. HeadMeansTree' /\ WritesOwn' /\ VisitedPinned'
  BY <1>1, BuildingKeepsVisits DEF Building, treeVars
<1>3. CopiedPinned' /\ LayersPinned'
  BY <1>1 DEF CopiedPinned, LayersPinned
<1>4. TypeOK' /\ RunPhases'
  BY <1>1 DEF Open, Receiving, Receive, Replace, Stop, Goto, TypeOK, RunPhases
<1>5. ReadyIsPinned'
  <2>1. CASE outcome' = "ready"
    <3>1. archive' = "right"
      BY <2>1 DEF Open, Receiving, Receive, Replace, Stop, Goto, RunPhases
    <3>2. QED
      BY <1>1, <3>1, ArchiveCompletes DEF lockVars, sdkVars, treeVars
  <2>2. CASE outcome' # "ready"
    BY <2>2 DEF ReadyIsPinned
  <2>3. QED
    BY <2>1, <2>2
<1>6. QED
  BY <1>2, <1>3, <1>4, <1>5

(***************************************************************************)
(* The end of a run, and what happens between two of them.                 *)
(***************************************************************************)

\* Between two runs only the types and the shape of the checkouts matter.
LEMMA IdleKeeps ==
    ASSUME CheckoutInv, TypeOK', HeadMeansTree', LayersPinned', pc' = "idle", outcome' # "ready"
    PROVE  CheckoutInv'
BY DEF CheckoutInv, WritesOwn, VisitedPinned, CopiedPinned, RunPhases, ReadyIsPinned,
   Visiting, Building

LEMMA EndKeeps ==
    ASSUME CheckoutInv, GivenSdk \/ Fails \/ Kill
    PROVE  CheckoutInv'
<1> USE DEF CheckoutInv
<1>1. /\ pc' = "idle" /\ outcome' \in {"given", "refused", "failed", "killed"}
      /\ UNCHANGED <<lock, pastPins, head, files, sdk, layers, archive, part, at, copied>>
      /\ events' = events \/ (events < MaxEvents /\ events' = events + 1)
  BY DEF GivenSdk, Fails, Kill, Stop, lockVars, diskVars, sdkVars, treeVars
\* A killed Git leaves the .git of the visit at hand, which has no commits.
<1>2. \/ git' = git
      \/ /\ head[Order[at]] = None
         /\ \E g \in {"whole", "locked"} : git' = [git EXCEPT ![Order[at]] = g]
  BY DEF GivenSdk, Fails, Kill, diskVars, treeVars, WritesOwn
<1>3. TypeOK'
  <2>1. git' \in [Repos -> {"none", "partial", "whole", "locked"}]
    BY <1>2 DEF TypeOK
  <2>2. events' \in 0 .. MaxEvents
    BY <1>1, BoundAssumption DEF TypeOK
  <2>3. QED
    BY <1>1, <2>1, <2>2 DEF TypeOK
<1>4. HeadMeansTree'
  <2>1. \A c \in Repos : head[c] # None => git'[c] = git[c]
    BY <1>2 DEF TypeOK
  <2>2. QED
    BY <1>1, <2>1 DEF HeadMeansTree
<1>5. LayersPinned'
  BY <1>1 DEF LayersPinned
<1>6. QED
  BY <1>1, <1>3, <1>4, <1>5, IdleKeeps

LEMMA UserKeeps == ASSUME CheckoutInv, User PROVE CheckoutInv'
<1> USE DEF CheckoutInv
<1>1. /\ pc = "idle" /\ pc' = "idle" /\ outcome' = "none"
      /\ events < MaxEvents /\ events' = events + 1
      /\ UNCHANGED <<at, copied, sdk, layers, part>>
  BY DEF User, Edit, Remove, Switch, MoveLock, Spoil, Meanwhile, sdkVars
<1>0. events' \in 0 .. MaxEvents
  BY <1>1, BoundAssumption DEF TypeOK
<1>2. TypeOK' /\ HeadMeansTree' /\ LayersPinned'
  <2>1. ASSUME NEW r \in Repos, Edit(r) PROVE TypeOK' /\ HeadMeansTree' /\ LayersPinned'
    BY <1>0, <1>1, <2>1 DEF Edit, lockVars, TypeOK, HeadMeansTree, LayersPinned
  <2>2. ASSUME NEW r \in Repos, Remove(r) PROVE TypeOK' /\ HeadMeansTree' /\ LayersPinned'
    <3>1. /\ git'   = [c \in Repos |-> IF c \in Below(r) THEN "none" ELSE git[c]]
          /\ head'  = [c \in Repos |-> IF c \in Below(r) THEN None ELSE head[c]]
          /\ files' = [c \in Repos |-> IF c \in Below(r) THEN "none" ELSE files[c]]
          /\ UNCHANGED <<lock, pastPins, archive>>
      BY <2>2 DEF Remove, lockVars
    <3>2. TypeOK'
      BY <1>0, <1>1, <3>1 DEF TypeOK
    <3>3. HeadMeansTree' /\ LayersPinned'
      BY <1>1, <3>1 DEF HeadMeansTree, LayersPinned
    <3>4. QED
      BY <3>2, <3>3
  <2>3. ASSUME NEW r \in Repos, NEW v \in Revisions, Switch(r, v)
        PROVE  TypeOK' /\ HeadMeansTree' /\ LayersPinned'
    BY <1>0, <1>1, <2>3 DEF Switch, lockVars, TypeOK, HeadMeansTree, LayersPinned
  <2>4. ASSUME NEW r \in Roots, NEW v \in Revisions, MoveLock(r, v)
        PROVE  TypeOK' /\ HeadMeansTree' /\ LayersPinned'
    <3>1. /\ lock' = [lock EXCEPT ![r] = v] /\ UNCHANGED <<git, head, files, archive>>
          /\ pastPins' = IF r = Libnx THEN pastPins \union {v} ELSE pastPins
      BY <2>4 DEF MoveLock, treeVars
    <3>2. TypeOK'
      BY <1>0, <1>1, <3>1 DEF TypeOK
    <3>3. HeadMeansTree'
      BY <3>1 DEF HeadMeansTree
    <3>4. LayersPinned'
      <4>1. lock'[Libnx] = IF r = Libnx THEN v ELSE lock[Libnx]
        BY <3>1, LibnxPin DEF TypeOK
      <4>2. QED
        BY <1>1, <3>1, <4>1 DEF LayersPinned
    <3>5. QED
      BY <3>2, <3>3, <3>4
  <2>5. CASE Spoil
    BY <1>0, <1>1, <2>5 DEF Spoil, lockVars, treeVars, TypeOK, HeadMeansTree, LayersPinned
  <2>6. QED
    BY <2>1, <2>2, <2>3, <2>4, <2>5 DEF User
<1>3. QED
  BY <1>1, <1>2, IdleKeeps

LEMMA StutterKeeps == ASSUME CheckoutInv, UNCHANGED vars PROVE CheckoutInv'
<1> USE DEF CheckoutInv, vars, lockVars, diskVars, sdkVars, treeVars
<1>1. \A r \in Repos : Pin(r)' = Pin(r)
  BY PinStays
<1>2. HeadMeansTree' /\ \A i \in 1 .. Len(Order) : Pinned(Order[i]) => Pinned(Order[i])'
  BY TreesStay
<1>3. VisitedPinned'
  BY <1>2, VisitedRepository, OrderLength DEF VisitedPinned
<1>4. WritesOwn'
  BY <1>1, VisitedRepository DEF WritesOwn
<1>5. ReadyIsPinned'
  BY <1>1 DEF ReadyIsPinned
<1>6. QED
  BY <1>2, <1>3, <1>4, <1>5 DEF TypeOK, CopiedPinned, LayersPinned, RunPhases

LEMMA CheckoutStep == CheckoutInv /\ [Next]_vars => CheckoutInv'
BY StartKeeps, LookKeeps, InitKeeps, StatusKeeps, FetchKeeps, CheckoutBeginsKeeps,
   CheckoutEndsKeeps, SdkKeeps, ArchiveKeeps, EndKeeps, UserKeeps, StutterKeeps
   DEF Next, Run

LEMMA CheckoutInvariant == Spec => []CheckoutInv
BY CheckoutInit, CheckoutStep, PTL DEF Spec

(***************************************************************************)
(* Every variable keeps its type.                                          *)
(***************************************************************************)
THEOREM CheckoutTypeCorrect == Spec => []TypeOK
<1>1. CheckoutInv => TypeOK
  BY DEF CheckoutInv
<1>2. QED
  BY <1>1, CheckoutInvariant, PTL

(***************************************************************************)
(* Whatever was left behind by killed and failed runs and done by the user *)
(* between them, a run that ends well leaves every checkout complete,      *)
(* unedited and at its pin, the right archive, and an SDK that has every   *)
(* file of the pinned libnx whole: its single files of that revision       *)
(* alone, in its merged folders perhaps files of earlier pins too.         *)
(***************************************************************************)
THEOREM ReadyMeansPinned == Spec => []ReadyIsPinned
<1>1. CheckoutInv => ReadyIsPinned
  BY DEF CheckoutInv
<1>2. QED
  BY <1>1, CheckoutInvariant, PTL

(***************************************************************************)
(* "Never reset an existing checkout": no run touches a tree with work of  *)
(* the user in it, or one that has commits.                                *)
(***************************************************************************)
THEOREM UserWorkSafe == Spec => UserWorkKept
<1> DEFINE Kept ==
        pc # "idle" =>
            \A r \in Repos : files[r] = "edited" \/ head[r] # None =>
                /\ files'[r] = files[r] /\ head'[r] = head[r]
                /\ git'[r] = git[r]
<1>1. ASSUME CheckoutInv, Next PROVE Kept
  <2> SUFFICES ASSUME pc # "idle", NEW r \in Repos, files[r] = "edited" \/ head[r] # None
               PROVE  /\ files'[r] = files[r] /\ head'[r] = head[r]
                      /\ git'[r] = git[r]
    OBVIOUS
  <2> USE DEF CheckoutInv, TypeOK
  <2>1. CASE UNCHANGED treeVars
    BY <2>1 DEF treeVars
  <2>2. CASE Look
    BY <1>1, <2>2, VisitedRepository DEF Look, Empty, HeadMeansTree
  <2>3. CASE CheckoutBegins
    <3>1. files[Order[at]] # "edited" /\ head[Order[at]] = None
      BY <1>1, <2>3 DEF CheckoutBegins, WritesOwn
    <3>2. QED
      BY <1>1, <2>3, <3>1 DEF CheckoutBegins
  <2>4. CASE CheckoutEnds
    <3>1. files[Order[at]] # "edited" /\ head[Order[at]] = None
      BY <1>1, <2>4 DEF CheckoutEnds, WritesOwn
    <3>2. QED
      BY <1>1, <2>4, <3>1 DEF CheckoutEnds
  <2>5. CASE InitEnds
    BY <1>1, <2>5 DEF InitEnds, WritesOwn, HeadMeansTree
  <2>6. CASE Kill
    <3>1. \/ git' = git
          \/ /\ head[Order[at]] = None /\ git[Order[at]] # "none"
             /\ files[Order[at]] # "edited"
      BY <1>1, <2>6 DEF Kill, WritesOwn, Visiting
    <3>2. QED
      BY <1>1, <2>6, <3>1 DEF Kill
  <2>7. QED
    BY <1>1, <2>1, <2>2, <2>3, <2>4, <2>5, <2>6 DEF Next, Run, Start, Status, Fetch, Make,
       CopyBegins, CopyEnds, CopyDone, GivenSdk, Open, Receiving, Receive, Replace, Fails,
       User, Edit, Remove, Switch, MoveLock, Spoil, Meanwhile, diskVars
<1>2. CheckoutInv /\ [Next]_vars => [Kept]_vars
  BY <1>1
<1>3. QED
  BY <1>2, CheckoutInvariant, PTL DEF Spec, UserWorkKept

(***************************************************************************)
(* A run changes the archive only into the right one, whatever arrives and *)
(* whenever it is killed, and does not download a right one again.         *)
(***************************************************************************)
THEOREM DownloadIsAtomic == Spec => DownloadAtomic
<1> DEFINE Atomic ==
        pc # "idle" => archive' = archive \/ (archive # "right" /\ archive' = "right")
<1>1. ASSUME CheckoutInv, Next PROVE Atomic
  <2>1. CASE Replace
    BY <1>1, <2>1 DEF Replace, CheckoutInv, RunPhases
  <2>2. CASE UNCHANGED archive
    BY <2>2
  <2>3. CASE pc = "idle"
    BY <2>3
  <2>4. QED
    BY <1>1, <2>1, <2>2, <2>3 DEF Next, Run, Start, Look, InitEnds, Status, Fetch, CheckoutBegins,
       CheckoutEnds, Make, CopyBegins, CopyEnds, CopyDone, GivenSdk, Open, Receiving,
       Receive, Fails, Kill, User, Edit, Remove, Switch, MoveLock, Spoil, Meanwhile,
       diskVars
<1>2. CheckoutInv /\ [Next]_vars => [Atomic]_vars
  BY <1>1
<1>3. QED
  BY <1>2, CheckoutInvariant, PTL DEF Spec, DownloadAtomic
==============================================================================
