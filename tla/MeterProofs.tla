----------------------------- MODULE MeterProofs -----------------------------
(***************************************************************************)
(* Proofs about Meter and MeterSummary, for any threads, durations, bins   *)
(* and number of measured calls.                                           *)
(***************************************************************************)
EXTENDS MeterSummary, FiniteSetTheorems, WellFoundedInduction, TLAPS

USE MainAssumption, DurationAssumption, BoundAssumption DEF Bins, SnapOrder

LEMMA BinType == \A d \in Nat : Bin(d) \in Bins
BY DEF Bin

LEMMA InitHolds == Init => IInv
<1> SUFFICES ASSUME Init PROVE IInv
  OBVIOUS
<1>1. TypeOK
  BY DEF Init, TypeOK, Zero
<1>2. LoopPassed /\ MaximumKept
  BY DEF Init, LoopPassed, MaximumKept
<1>3. QED
  BY <1>1, <1>2 DEF IInv

(***************************************************************************)
(* The steps of Stop.                                                      *)
(***************************************************************************)
LEMMA StopType ==
    ASSUME TypeOK, NEW t \in Threads, (\E d \in Durations : Stop(t, d)) \/ Stopping(t)
    PROVE  TypeOK'
<1> USE DEF TypeOK, Goto, counterVars, snapVars
<1>1. CASE \E d \in Durations : Stop(t, d)
  <2>1. PICK d \in Durations : Stop(t, d)
    BY <1>1
  <2>2. samples' \in [Durations -> Nat]
    <3>1. samples[d] + 1 \in Nat
      OBVIOUS
    <3>2. samples' = [samples EXCEPT ![d] = samples[d] + 1]
      BY <2>1 DEF Stop
    <3>3. QED
      BY <3>1, <3>2
  <2>3. elapsed' \in [Threads -> Nat]
    BY <2>1 DEF Stop
  <2>4. QED
    BY <2>1, <2>2, <2>3 DEF Stop
<1>2. CASE StopCount(t)
  <2>1. count + 1 \in Nat
    OBVIOUS
  <2>2. count' \in Nat
    BY <1>2, <2>1 DEF StopCount
  <2>3. pc' = [pc EXCEPT ![t] = "ticks"]
        /\ UNCHANGED <<ticks, maximum, histogram, elapsed, old, samples, returned, snapVars>>
    BY <1>2 DEF StopCount
  <2>4. QED
    BY <2>2, <2>3
<1>3. CASE StopTicks(t)
  <2>1. ticks + elapsed[t] \in Nat
    OBVIOUS
  <2>2. ticks' \in Nat
    BY <1>3, <2>1 DEF StopTicks
  <2>3. pc' = [pc EXCEPT ![t] = "read"]
        /\ UNCHANGED <<count, maximum, histogram, elapsed, old, samples, returned, snapVars>>
    BY <1>3 DEF StopTicks
  <2>4. QED
    BY <2>2, <2>3
<1>4. CASE ReadMaximum(t)
  BY <1>4 DEF ReadMaximum, See
<1>5. CASE Raise(t)
  BY <1>5, ZenonT(30) DEF Raise, See
<1>6. CASE StopBin(t)
  <2>1. elapsed[t] \in Nat /\ Bin(elapsed[t]) \in Bins
    BY BinType
  <2>2. histogram' \in [Bins -> Nat]
    <3>1. histogram[Bin(elapsed[t])] + 1 \in Nat
      BY <2>1
    <3>2. histogram' = [histogram EXCEPT ![Bin(elapsed[t])] = histogram[Bin(elapsed[t])] + 1]
      BY <1>6 DEF StopBin
    <3>3. QED
      BY <3>1, <3>2
  <2>3. returned' \in SUBSET Nat
    BY <1>6, <2>1 DEF StopBin
  <2>4. QED
    BY <1>6, <2>2, <2>3 DEF StopBin
<1>7. QED
  BY <1>1, <1>2, <1>3, <1>4, <1>5, <1>6 DEF Stopping

\* A Stop that begins, counts or adds its ticks touches no maximum.
LEMMA StopKeeps ==
    ASSUME IInv, NEW t \in Threads,
           (\E d \in Durations : Stop(t, d)) \/ StopCount(t) \/ StopTicks(t)
    PROVE  LoopPassed' /\ MaximumKept'
<1>1. PICK step \in {"count", "ticks", "read"} :
        /\ pc' = [pc EXCEPT ![t] = step]
        /\ UNCHANGED <<maximum, shown, returned, old>>
        /\ \A u \in Threads : u # t => elapsed'[u] = elapsed[u]
  BY DEF IInv, TypeOK, Stop, StopCount, StopTicks, Goto, snapVars, counterVars
<1>2. MaximumKept'
  BY <1>1 DEF IInv, MaximumKept
<1>3. LoopPassed'
  BY <1>1 DEF IInv, TypeOK, LoopPassed
<1>4. QED
  BY <1>2, <1>3

\* Seeing the maximum, for the first time or again.
LEMMA SeeKeeps ==
    ASSUME IInv, NEW t \in Threads, See(t), UNCHANGED <<maximum, elapsed, shown, returned>>
    PROVE  LoopPassed' /\ MaximumKept'
<1>1. MaximumKept'
  BY DEF IInv, MaximumKept
<1>2. maximum \in Nat /\ elapsed[t] \in Nat
  BY DEF IInv, TypeOK
<1>3. LoopPassed'
  BY <1>2 DEF IInv, TypeOK, LoopPassed, See, Goto
<1>4. QED
  BY <1>1, <1>3

\* The exchange raises the maximum: what was covered stays covered.
LEMMA RaiseKeeps ==
    ASSUME IInv, NEW t \in Threads, Raise(t)
    PROVE  LoopPassed' /\ MaximumKept'
<1>1. CASE maximum # old[t]
  BY <1>1, SeeKeeps DEF Raise, snapVars
<1>2. CASE maximum = old[t]
  <2>1. /\ pc[t] = "raise" /\ pc' = [pc EXCEPT ![t] = "bin"]
        /\ maximum' = elapsed[t]
        /\ UNCHANGED <<elapsed, old, shown, returned>>
    BY <1>2 DEF Raise, Goto, snapVars
  <2>2. maximum \in Nat /\ elapsed[t] \in Nat /\ maximum < elapsed[t]
    BY <1>2, <2>1 DEF IInv, TypeOK, LoopPassed
  <2>3. \A d \in Nat : d <= maximum => d <= maximum'
    BY <2>1, <2>2
  <2>4. MaximumKept'
    BY <2>1, <2>3 DEF IInv, TypeOK, MaximumKept
  <2>5. LoopPassed'
    BY <2>1, <2>2, <2>3 DEF IInv, TypeOK, LoopPassed
  <2>6. QED
    BY <2>4, <2>5
<1>3. QED
  BY <1>1, <1>2

LEMMA BinKeeps ==
    ASSUME IInv, NEW t \in Threads, StopBin(t)
    PROVE  LoopPassed' /\ MaximumKept'
<1>1. /\ pc[t] = "bin" /\ pc' = [pc EXCEPT ![t] = "idle"]
      /\ returned' = returned \union {elapsed[t]}
      /\ elapsed' = [elapsed EXCEPT ![t] = 0] /\ old' = [old EXCEPT ![t] = 0]
      /\ UNCHANGED <<maximum, shown>>
  BY DEF StopBin, Goto, snapVars
<1>2. MaximumKept'
  BY <1>1 DEF IInv, MaximumKept, LoopPassed
<1>3. LoopPassed'
  BY <1>1 DEF IInv, TypeOK, LoopPassed
<1>4. QED
  BY <1>2, <1>3

(***************************************************************************)
(* The steps of Snapshot.                                                  *)
(***************************************************************************)
LEMMA SnapType ==
    ASSUME TypeOK, Snapshot \/ Snapping
    PROVE  TypeOK'
<1> USE DEF TypeOK, counterVars, stopVars
<1>1. CASE Snapshot
  BY <1>1 DEF Snapshot
<1>2. CASE SnapBin
  <2>1. shown.bins[next] + histogram[next] \in Nat
    OBVIOUS
  <2>2. shown' \in [count : Nat, ticks : Nat, maximum : Nat, bins : [Bins -> Nat]]
    BY <1>2, <2>1 DEF SnapBin
  <2>3. histogram' \in [Bins -> Nat] /\ next' \in Bins
    <3>1. histogram' = [histogram EXCEPT ![next] = 0] /\ histogram \in [Bins -> Nat]
      BY <1>2 DEF SnapBin
    <3>2. next' \in {next + 1, 0} /\ (next' = next + 1 => next < Last)
      BY <1>2 DEF SnapBin
    <3>3. next \in 0 .. Last /\ Last \in Nat
      OBVIOUS
    <3>4. QED
      BY <3>1, <3>2, <3>3
  <2>4. QED
    BY <1>2, <2>2, <2>3 DEF SnapBin
<1>3. CASE SnapCount
  <2>1. shown.count + count \in Nat
    OBVIOUS
  <2>2. shown' \in [count : Nat, ticks : Nat, maximum : Nat, bins : [Bins -> Nat]]
    BY <1>3, <2>1 DEF SnapCount
  <2>3. QED
    BY <1>3, <2>2 DEF SnapCount
<1>4. CASE SnapTicks
  <2>1. shown.ticks + ticks \in Nat
    OBVIOUS
  <2>2. shown' \in [count : Nat, ticks : Nat, maximum : Nat, bins : [Bins -> Nat]]
    BY <1>4, <2>1 DEF SnapTicks
  <2>3. QED
    BY <1>4, <2>2 DEF SnapTicks
<1>5. CASE SnapMaximum
  BY <1>5 DEF SnapMaximum
<1>6. QED
  BY <1>1, <1>2, <1>3, <1>4, <1>5 DEF Snapping

\* What the maximum covered is covered by a window once it is taken.
LEMMA SnapKeeps ==
    ASSUME IInv, Snapshot \/ Snapping
    PROVE  LoopPassed' /\ MaximumKept'
<1>1. CASE SnapMaximum
  <2>1. maximum \in Nat /\ shown.maximum \in Nat
    BY DEF IInv, TypeOK
  <2>2. shown'.maximum = IF maximum > shown.maximum THEN maximum ELSE shown.maximum
    BY <1>1 DEF SnapMaximum, IInv, TypeOK
  <2>3. \A d \in Nat : d <= maximum \/ d <= shown.maximum => d <= shown'.maximum
    BY <2>1, <2>2
  <2>4. UNCHANGED <<pc, elapsed, old, returned>>
    BY <1>1 DEF SnapMaximum, stopVars
  <2>5. QED
    BY <2>3, <2>4 DEF IInv, TypeOK, LoopPassed, MaximumKept
<1>2. CASE Snapshot \/ SnapBin \/ SnapCount \/ SnapTicks
  <2>1. UNCHANGED <<maximum, pc, elapsed, old, returned>> /\ shown'.maximum = shown.maximum
    BY <1>2 DEF Snapshot, SnapBin, SnapCount, SnapTicks, counterVars, stopVars, IInv, TypeOK
  <2>2. QED
    BY <2>1 DEF IInv, LoopPassed, MaximumKept
<1>3. QED
  BY <1>1, <1>2 DEF Snapping

LEMMA NextHolds == IInv /\ [Next]_vars => IInv'
<1> SUFFICES ASSUME IInv, [Next]_vars PROVE IInv'
  OBVIOUS
<1>1. ASSUME NEW t \in Threads, (\E d \in Durations : Stop(t, d)) \/ Stopping(t)
      PROVE  IInv'
  <2>1. TypeOK'
    BY <1>1, StopType DEF IInv
  <2>2. LoopPassed' /\ MaximumKept'
    <3>1. CASE ReadMaximum(t)
      BY <3>1, SeeKeeps DEF ReadMaximum, counterVars, snapVars
    <3>2. CASE ~ReadMaximum(t)
      BY <1>1, <3>2, StopKeeps, RaiseKeeps, BinKeeps DEF Stopping
    <3>3. QED
      BY <3>1, <3>2
  <2>3. QED
    BY <2>1, <2>2 DEF IInv
<1>2. CASE Snapshot \/ Snapping
  BY <1>2, SnapType, SnapKeeps DEF IInv
<1>3. CASE UNCHANGED vars
  BY <1>3 DEF vars, counterVars, stopVars, snapVars, IInv, TypeOK, LoopPassed, MaximumKept
<1>4. QED
  BY <1>1, <1>2, <1>3 DEF Next

LEMMA IInvHolds == Spec => []IInv
BY InitHolds, NextHolds, PTL DEF Spec

(***************************************************************************)
(* Every variable keeps its type; in particular no step of Stop or of      *)
(* Snapshot leaves the histogram.                                          *)
(***************************************************************************)
THEOREM TypeCorrect == Spec => []TypeOK
<1>1. IInv => TypeOK
  BY DEF IInv
<1>2. QED
  BY <1>1, IInvHolds, PTL

(***************************************************************************)
(* No duration whose Stop has returned is above both the open window's     *)
(* maximum and those of all windows shown, however the compare-and-swap    *)
(* loops of any number of threads meet the resets of Snapshot.             *)
(***************************************************************************)
THEOREM LongestKept == Spec => []MaximumKept
<1>1. IInv => MaximumKept
  BY DEF IInv
<1>2. QED
  BY <1>1, IInvHolds, PTL

HIDE DurationAssumption

(***************************************************************************)
(* Sums.                                                                   *)
(***************************************************************************)
LEMMA UnitsOfOne ==
    ASSUME NEW x, NEW n \in Nat
    PROVE  IsFiniteSet({x} \X (1 .. n)) /\ Cardinality({x} \X (1 .. n)) = n
<1>1. IsFiniteSet({x}) /\ Cardinality({x}) = 1
  BY FS_Singleton
<1>2. IsFiniteSet(1 .. n) /\ Cardinality(1 .. n) = n
  <2>1. 1 \in Int /\ n \in Int
    OBVIOUS
  <2>2. /\ IsFiniteSet(1 .. n)
        /\ Cardinality(1 .. n) = IF 1 > n THEN 0 ELSE n - 1 + 1
    BY <2>1, FS_Interval
  <2>3. QED
    BY <2>2
<1>3. /\ IsFiniteSet({x} \X (1 .. n))
      /\ Cardinality({x} \X (1 .. n)) = Cardinality({x}) * Cardinality(1 .. n)
  BY <1>1, <1>2, FS_Product
<1>4. QED
  BY <1>1, <1>2, <1>3

LEMMA SumType ==
    ASSUME NEW D, IsFiniteSet(D), NEW f \in [D -> Nat]
    PROVE  IsFiniteSet(Units(f)) /\ Sum(f) \in Nat
<1> DEFINE part == [x \in D |-> {x} \X (1 .. f[x])]
           T    == {{x} \X (1 .. f[x]) : x \in D}
<1>1. part \in Surjection(D, T)
  BY DEF Surjection
<1>2. IsFiniteSet(T)
  BY <1>1, FS_Surjection
<1>3. \A t \in T : IsFiniteSet(t)
  <2>1. \A x \in D : IsFiniteSet({x} \X (1 .. f[x]))
    <3> TAKE x \in D
    <3>1. f[x] \in Nat
      OBVIOUS
    <3>2. QED
      BY <3>1, UnitsOfOne
  <2>2. QED
    BY <2>1, Zenon
<1>4. IsFiniteSet(UNION T)
  BY <1>2, <1>3, FS_UNION
<1>5. Units(f) = UNION T
  BY DEF Units
<1>6. QED
  BY <1>4, <1>5, FS_CardinalityType DEF Sum

\* The sums of two functions that differ at most at x.
LEMMA SumChange ==
    ASSUME NEW D, IsFiniteSet(D), NEW f \in [D -> Nat], NEW g \in [D -> Nat], NEW x \in D,
           \A y \in D : y # x => g[y] = f[y]
    PROVE  Sum(g) + f[x] = Sum(f) + g[x]
<1> DEFINE rest == [y \in D \ {x} |-> f[y]]
<1>1. rest \in [D \ {x} -> Nat] /\ IsFiniteSet(D \ {x})
  BY FS_Subset
<1>2. IsFiniteSet(Units(rest)) /\ Sum(rest) \in Nat
  BY <1>1, SumType
<1>3. ASSUME NEW h \in [D -> Nat], \A y \in D : y # x => h[y] = f[y]
      PROVE  Sum(h) = Sum(rest) + h[x]
  <2>1. Units(h) = Units(rest) \union ({x} \X (1 .. h[x]))
    BY <1>3 DEF Units
  <2>2. Units(rest) \intersect ({x} \X (1 .. h[x])) = {}
    BY DEF Units
  <2>3. IsFiniteSet({x} \X (1 .. h[x])) /\ Cardinality({x} \X (1 .. h[x])) = h[x]
    BY UnitsOfOne
  <2>4. Cardinality(Units(h)) = Cardinality(Units(rest)) + h[x] - Cardinality({})
    BY <1>2, <2>1, <2>2, <2>3, FS_Union
  <2>5. QED
    BY <1>2, <2>4, FS_EmptySet DEF Sum
<1>4. Sum(f) = Sum(rest) + f[x] /\ Sum(g) = Sum(rest) + g[x]
  BY <1>3
<1>5. QED
  BY <1>2, <1>4

LEMMA SumZero ==
    ASSUME NEW D, NEW f \in [D -> Nat], \A y \in D : f[y] = 0
    PROVE  Sum(f) = 0
<1>1. Units(f) = {}
  BY DEF Units
<1>2. QED
  BY <1>1, FS_EmptySet DEF Sum

\* Two functions that agree have the same sum, and a sum is at least each of
\* its values.
LEMMA SumAtLeast ==
    ASSUME NEW D, IsFiniteSet(D), NEW f \in [D -> Nat], NEW x \in D
    PROVE  f[x] <= Sum(f)
<1> DEFINE g == [f EXCEPT ![x] = 0]
<1>1. g \in [D -> Nat] /\ g[x] = 0 /\ \A y \in D : y # x => g[y] = f[y]
  OBVIOUS
<1> HIDE DEF g
<1>2. Sum(g) + f[x] = Sum(f) + g[x]
  BY <1>1, SumChange
<1>3. Sum(g) \in Nat /\ Sum(f) \in Nat
  BY <1>1, SumType
<1>4. QED
  BY <1>1, <1>2, <1>3

(***************************************************************************)
(* The calls of SamplesKept: each is in the counters and the windows, or   *)
(* has yet to be added by a Stop under way.                                *)
(***************************************************************************)
LEMMA ToAddTypes ==
    ASSUME TypeOK
    PROVE  /\ ToCount \in [Threads -> Nat] /\ ToTicks \in [Threads -> Nat]
           /\ Counted \in [Threads -> Nat] /\ \A b \in Bins : ToBin(b) \in [Threads -> Nat]
           /\ samples \in [Durations -> Nat] /\ Times \in [Durations -> Nat]
           /\ \A b \in Bins : InBin(b) \in [{e \in Durations : Bin(e) = b} -> Nat]
           /\ histogram \in [Bins -> Nat] /\ shown.bins \in [Bins -> Nat]
<1>1. \A d \in Durations : d * samples[d] \in Nat
  BY DurationAssumption DEF TypeOK
<1>2. Times \in [Durations -> Nat]
  BY <1>1 DEF Times
<1>3. QED
  BY <1>2 DEF TypeOK, ToCount, ToTicks, ToBin, Counted, InBin

\* Only the thread that takes a step changes what it has yet to add.
LEMMA OthersWait ==
    ASSUME TypeOK, NEW t \in Threads, NEW u \in Threads, u # t,
           pc'[u] = pc[u], elapsed'[u] = elapsed[u]
    PROVE  /\ ToCount'[u] = ToCount[u] /\ ToTicks'[u] = ToTicks[u] /\ Counted'[u] = Counted[u]
           /\ \A b \in Bins : ToBin(b)'[u] = ToBin(b)[u]
BY DEF ToCount, ToTicks, ToBin, Counted

LEMMA StopChanges ==
    ASSUME IsFiniteSet(Threads), TypeOK, TypeOK', NEW t \in Threads,
           \A u \in Threads : u # t => pc'[u] = pc[u] /\ elapsed'[u] = elapsed[u]
    PROVE  /\ Sum(ToCount') + ToCount[t] = Sum(ToCount) + ToCount'[t]
           /\ Sum(ToTicks') + ToTicks[t] = Sum(ToTicks) + ToTicks'[t]
           /\ Sum(Counted') + Counted[t] = Sum(Counted) + Counted'[t]
           /\ \A b \in Bins : Sum(ToBin(b)') + ToBin(b)[t] = Sum(ToBin(b)) + ToBin(b)'[t]
<1>1. /\ ToCount \in [Threads -> Nat] /\ ToTicks \in [Threads -> Nat]
      /\ Counted \in [Threads -> Nat] /\ \A b \in Bins : ToBin(b) \in [Threads -> Nat]
  BY ToAddTypes
<1>2. /\ ToCount' \in [Threads -> Nat] /\ ToTicks' \in [Threads -> Nat]
      /\ Counted' \in [Threads -> Nat] /\ \A b \in Bins : ToBin(b)' \in [Threads -> Nat]
  BY DEF TypeOK, ToCount, ToTicks, ToBin, Counted
<1>3. \A u \in Threads : u # t =>
          /\ ToCount'[u] = ToCount[u] /\ ToTicks'[u] = ToTicks[u] /\ Counted'[u] = Counted[u]
          /\ \A b \in Bins : ToBin(b)'[u] = ToBin(b)[u]
  BY OthersWait
<1>4. Sum(ToCount') + ToCount[t] = Sum(ToCount) + ToCount'[t]
  BY <1>1, <1>2, <1>3, SumChange
<1>5. Sum(ToTicks') + ToTicks[t] = Sum(ToTicks) + ToTicks'[t]
  BY <1>1, <1>2, <1>3, SumChange
<1>6. Sum(Counted') + Counted[t] = Sum(Counted) + Counted'[t]
  BY <1>1, <1>2, <1>3, SumChange
<1>7. \A b \in Bins : Sum(ToBin(b)') + ToBin(b)[t] = Sum(ToBin(b)) + ToBin(b)'[t]
  BY <1>1, <1>2, <1>3, SumChange
<1>8. QED
  BY <1>4, <1>5, <1>6, <1>7

LEMMA SumTypes ==
    ASSUME IsFiniteSet(Threads), IsFiniteSet(Durations), TypeOK
    PROVE  /\ Sum(ToCount) \in Nat /\ Sum(ToTicks) \in Nat /\ Sum(Counted) \in Nat
           /\ \A b \in Bins : Sum(ToBin(b)) \in Nat /\ Sum(InBin(b)) \in Nat
           /\ Sum(samples) \in Nat /\ Sum(Times) \in Nat
           /\ Sum(histogram) \in Nat /\ Sum(shown.bins) \in Nat
<1>1. IsFiniteSet(Bins)
  <2>1. 0 \in Int /\ Last \in Int
    OBVIOUS
  <2>2. QED
    BY <2>1, FS_Interval
<1>2. \A b \in Bins : IsFiniteSet({e \in Durations : Bin(e) = b})
  BY FS_Subset
<1>3. QED
  BY <1>1, <1>2, ToAddTypes, SumType

LEMMA SumTypesNext ==
    ASSUME IsFiniteSet(Threads), IsFiniteSet(Durations), TypeOK'
    PROVE  /\ Sum(ToCount') \in Nat /\ Sum(ToTicks') \in Nat /\ Sum(Counted') \in Nat
           /\ \A b \in Bins : Sum(ToBin(b)') \in Nat
           /\ Sum(histogram') \in Nat /\ Sum(shown'.bins) \in Nat
<1>1. IsFiniteSet(Bins)
  <2>1. 0 \in Int /\ Last \in Int
    OBVIOUS
  <2>2. QED
    BY <2>1, FS_Interval
<1>2. /\ ToCount' \in [Threads -> Nat] /\ ToTicks' \in [Threads -> Nat]
      /\ Counted' \in [Threads -> Nat] /\ \A b \in Bins : ToBin(b)' \in [Threads -> Nat]
      /\ histogram' \in [Bins -> Nat] /\ shown'.bins \in [Bins -> Nat]
  BY DEF TypeOK, ToCount, ToTicks, ToBin, Counted
<1>3. QED
  BY <1>1, <1>2, SumType

LEMMA ToAddValues ==
    ASSUME NEW t \in Threads
    PROVE  /\ ToCount[t] = (IF pc[t] = "count" THEN 1 ELSE 0)
           /\ ToTicks[t] = (IF pc[t] \in {"count", "ticks"} THEN elapsed[t] ELSE 0)
           /\ Counted[t] = (IF pc[t] \in {"idle", "count"} THEN 0 ELSE 1)
           /\ \A b \in Bins :
                ToBin(b)[t] = (IF pc[t] # "idle" /\ Bin(elapsed[t]) = b THEN 1 ELSE 0)
           /\ ToCount'[t] = (IF pc'[t] = "count" THEN 1 ELSE 0)
           /\ ToTicks'[t] = (IF pc'[t] \in {"count", "ticks"} THEN elapsed'[t] ELSE 0)
           /\ Counted'[t] = (IF pc'[t] \in {"idle", "count"} THEN 0 ELSE 1)
           /\ \A b \in Bins :
                ToBin(b)'[t] = (IF pc'[t] # "idle" /\ Bin(elapsed'[t]) = b THEN 1 ELSE 0)
BY DEF ToCount, ToTicks, ToBin, Counted

\* A measured call: one more of its duration.
LEMMA SamplesGrow ==
    ASSUME IsFiniteSet(Durations), TypeOK, TypeOK', NEW d \in Durations,
           samples'[d] = samples[d] + 1,
           \A e \in Durations : e # d => samples'[e] = samples[e]
    PROVE  /\ Sum(samples') = Sum(samples) + 1
           /\ Sum(Times') = Sum(Times) + d
           /\ \A b \in Bins : Sum(InBin(b)') = Sum(InBin(b)) + (IF Bin(d) = b THEN 1 ELSE 0)
<1>1. /\ samples \in [Durations -> Nat] /\ samples' \in [Durations -> Nat]
      /\ \A e \in Durations : e # d => samples'[e] = samples[e]
  BY DEF TypeOK
<1>n. d \in Nat /\ samples[d] \in Nat /\ samples'[d] = samples[d] + 1
  BY <1>1, DurationAssumption
<1>2. Sum(samples) \in Nat /\ Sum(samples') \in Nat
  BY <1>1, SumType
<1>3. Sum(samples') = Sum(samples) + 1
  <2>1. Sum(samples') + samples[d] = Sum(samples) + samples'[d]
    BY <1>1, SumChange
  <2>2. QED
    BY <1>1, <1>n, <1>2, <2>1
<1>4. Sum(Times') = Sum(Times) + d
  <2>1. \A e \in Durations : e * samples[e] \in Nat /\ e * samples'[e] \in Nat
    BY <1>1, DurationAssumption
  <2>2. /\ Times \in [Durations -> Nat] /\ Times' \in [Durations -> Nat]
        /\ \A e \in Durations : e # d => Times'[e] = Times[e]
    BY <1>1, <2>1 DEF Times
  <2>3. Sum(Times') + Times[d] = Sum(Times) + Times'[d]
    BY <2>2, SumChange
  <2>4. Sum(Times) \in Nat /\ Sum(Times') \in Nat
    BY <2>2, SumType
  <2>5. Times[d] = d * samples[d] /\ Times'[d] = d * (samples[d] + 1)
    BY <1>n DEF Times
  <2>6. Times'[d] = Times[d] + d /\ Times[d] \in Nat
    BY <1>n, <2>5
  <2>7. QED
    BY <1>n, <2>3, <2>4, <2>6
<1>5. ASSUME NEW b \in Bins
      PROVE  Sum(InBin(b)') = Sum(InBin(b)) + (IF Bin(d) = b THEN 1 ELSE 0)
  <2> DEFINE D == {e \in Durations : Bin(e) = b}
  <2>1. IsFiniteSet(D)
    BY FS_Subset
  <2>2. /\ InBin(b) \in [D -> Nat] /\ InBin(b)' \in [D -> Nat]
        /\ \A e \in D : InBin(b)[e] = samples[e] /\ InBin(b)'[e] = samples'[e]
    BY <1>1 DEF InBin
  <2>3. Sum(InBin(b)) \in Nat /\ Sum(InBin(b)') \in Nat
    BY <2>1, <2>2, SumType
  <2>4. CASE Bin(d) = b
    <3>1. d \in D /\ \A e \in D : e # d => InBin(b)'[e] = InBin(b)[e]
      BY <1>1, <2>2, <2>4
    <3>2. Sum(InBin(b)') + InBin(b)[d] = Sum(InBin(b)) + InBin(b)'[d]
      BY <2>1, <2>2, <3>1, SumChange
    <3>3. InBin(b)[d] = samples[d] /\ InBin(b)'[d] = samples[d] + 1
      BY <1>n, <2>2, <3>1
    <3>4. QED
      BY <1>n, <2>3, <2>4, <3>2, <3>3
  <2>5. CASE Bin(d) # b
    <3>1. \A e \in D : InBin(b)'[e] = InBin(b)[e]
      BY <1>1, <2>2, <2>5
    <3>2. InBin(b)' = InBin(b)
      BY <3>1 DEF InBin
    <3>3. QED
      BY <2>3, <2>5, <3>2
  <2>6. QED
    BY <2>4, <2>5
<1>6. QED
  BY <1>3, <1>4, <1>5

\* A step that begins no Stop.
NoSample == samples' = samples

LEMMA SamplesStay ==
    ASSUME NoSample
    PROVE  /\ Sum(samples') = Sum(samples) /\ Sum(Times') = Sum(Times)
           /\ \A b \in Bins : Sum(InBin(b)') = Sum(InBin(b))
BY DEF NoSample, Times, InBin

LEMMA KeptStop ==
    ASSUME IsFiniteSet(Threads), IsFiniteSet(Durations), KeptInv, TypeOK',
           NEW t \in Threads, NEW d \in Durations, Stop(t, d)
    PROVE  CountKept' /\ TicksKept' /\ BinsKept'
<1>1. /\ pc[t] = "idle" /\ pc'[t] = "count" /\ elapsed'[t] = d /\ d \in Nat
      /\ \A u \in Threads : u # t => pc'[u] = pc[u] /\ elapsed'[u] = elapsed[u]
      /\ UNCHANGED <<count, ticks, histogram, shown>>
  BY DurationAssumption DEF Stop, Goto, KeptInv, IInv, TypeOK, counterVars, snapVars
<1>2. samples'[d] = samples[d] + 1 /\ \A e \in Durations : e # d => samples'[e] = samples[e]
  BY DEF Stop, KeptInv, IInv, TypeOK
<1>3. TypeOK
  BY DEF KeptInv, IInv
<1>4. /\ Sum(samples') = Sum(samples) + 1 /\ Sum(Times') = Sum(Times) + d
      /\ \A b \in Bins : Sum(InBin(b)') = Sum(InBin(b)) + (IF Bin(d) = b THEN 1 ELSE 0)
  BY <1>2, <1>3, SamplesGrow
<1>5. /\ Sum(ToCount') + ToCount[t] = Sum(ToCount) + ToCount'[t]
      /\ Sum(ToTicks') + ToTicks[t] = Sum(ToTicks) + ToTicks'[t]
      /\ \A b \in Bins : Sum(ToBin(b)') + ToBin(b)[t] = Sum(ToBin(b)) + ToBin(b)'[t]
  BY <1>1, <1>3, StopChanges
<1>6. /\ ToCount[t] = 0 /\ ToCount'[t] = 1 /\ ToTicks[t] = 0 /\ ToTicks'[t] = d
      /\ \A b \in Bins : ToBin(b)[t] = 0 /\ ToBin(b)'[t] = (IF Bin(d) = b THEN 1 ELSE 0)
  BY <1>1, ToAddValues
<1>7. /\ Sum(ToCount') \in Nat /\ Sum(ToTicks') \in Nat
      /\ \A b \in Bins : Sum(ToBin(b)') \in Nat
  BY SumTypesNext
<1>8. /\ Sum(ToCount) \in Nat /\ Sum(ToTicks) \in Nat
      /\ Sum(samples) \in Nat /\ Sum(Times) \in Nat
      /\ \A b \in Bins : Sum(ToBin(b)) \in Nat /\ Sum(InBin(b)) \in Nat
  BY <1>3, SumTypes
<1>9. /\ count \in Nat /\ ticks \in Nat /\ shown.count \in Nat /\ shown.ticks \in Nat
      /\ \A b \in Bins : histogram[b] \in Nat /\ shown.bins[b] \in Nat
  BY <1>3 DEF TypeOK
<1>10. CountKept'
  BY <1>1, <1>4, <1>5, <1>6, <1>7, <1>8, <1>9 DEF KeptInv, CountKept
<1>11. TicksKept'
  BY <1>1, <1>4, <1>5, <1>6, <1>7, <1>8, <1>9 DEF KeptInv, TicksKept
<1>12. BinsKept'
  BY <1>1, <1>4, <1>5, <1>6, <1>7, <1>8, <1>9 DEF KeptInv, BinsKept
<1>13. QED
  BY <1>10, <1>11, <1>12

LEMMA KeptStopping ==
    ASSUME IsFiniteSet(Threads), IsFiniteSet(Durations), KeptInv, TypeOK',
           NEW t \in Threads, Stopping(t)
    PROVE  CountKept' /\ TicksKept' /\ BinsKept'
<1>1. TypeOK /\ NoSample /\ shown' = shown
  BY DEF KeptInv, IInv, NoSample, Stopping, StopCount, StopTicks, ReadMaximum, Raise, StopBin,
         snapVars
<1>2. \A u \in Threads : u # t => pc'[u] = pc[u] /\ elapsed'[u] = elapsed[u]
  BY <1>1 DEF Stopping, StopCount, StopTicks, ReadMaximum, Raise, StopBin, See, Goto, TypeOK
<1>3. /\ Sum(samples') = Sum(samples) /\ Sum(Times') = Sum(Times)
      /\ \A b \in Bins : Sum(InBin(b)') = Sum(InBin(b))
  BY <1>1, SamplesStay
<1>4. /\ Sum(ToCount') + ToCount[t] = Sum(ToCount) + ToCount'[t]
      /\ Sum(ToTicks') + ToTicks[t] = Sum(ToTicks) + ToTicks'[t]
      /\ \A b \in Bins : Sum(ToBin(b)') + ToBin(b)[t] = Sum(ToBin(b)) + ToBin(b)'[t]
  BY <1>1, <1>2, StopChanges
<1>5. /\ Sum(ToCount') \in Nat /\ Sum(ToTicks') \in Nat
      /\ \A b \in Bins : Sum(ToBin(b)') \in Nat
  BY SumTypesNext
<1>6. /\ Sum(ToCount) \in Nat /\ Sum(ToTicks) \in Nat
      /\ Sum(samples) \in Nat /\ Sum(Times) \in Nat
      /\ \A b \in Bins : Sum(ToBin(b)) \in Nat /\ Sum(InBin(b)) \in Nat
  BY <1>1, SumTypes
<1>7. /\ count \in Nat /\ ticks \in Nat /\ shown.count \in Nat /\ shown.ticks \in Nat
      /\ elapsed[t] \in Nat /\ Bin(elapsed[t]) \in Bins
      /\ \A b \in Bins : histogram[b] \in Nat /\ shown.bins[b] \in Nat
  BY <1>1, BinType DEF TypeOK
<1>8. CASE ReadMaximum(t) \/ Raise(t)
  <2>1. /\ pc[t] \in {"read", "raise"} /\ pc'[t] \in {"raise", "bin"} /\ elapsed' = elapsed
        /\ UNCHANGED <<count, ticks, histogram>>
    BY <1>1, <1>8 DEF ReadMaximum, Raise, See, Goto, TypeOK, counterVars
  <2>2. /\ ToCount[t] = 0 /\ ToCount'[t] = 0 /\ ToTicks[t] = 0 /\ ToTicks'[t] = 0
        /\ \A b \in Bins : ToBin(b)'[t] = ToBin(b)[t] /\ ToBin(b)[t] \in Nat
    BY <2>1, ToAddValues
  <2>3. CountKept' /\ TicksKept'
    BY <1>1, <1>3, <1>4, <1>5, <1>6, <1>7, <2>1, <2>2 DEF KeptInv, CountKept, TicksKept
  <2>4. BinsKept'
    BY <1>1, <1>3, <1>4, <1>5, <1>6, <1>7, <2>1, <2>2 DEF KeptInv, BinsKept
  <2>5. QED
    BY <2>3, <2>4
<1>9. CASE StopCount(t)
  <2>1. /\ pc[t] = "count" /\ pc'[t] = "ticks" /\ elapsed' = elapsed
        /\ count' = count + 1 /\ UNCHANGED <<ticks, histogram>>
    BY <1>1, <1>9 DEF StopCount, Goto, TypeOK
  <2>2. /\ ToCount[t] = 1 /\ ToCount'[t] = 0
        /\ ToTicks'[t] = ToTicks[t] /\ ToTicks[t] \in Nat
        /\ \A b \in Bins : ToBin(b)'[t] = ToBin(b)[t] /\ ToBin(b)[t] \in Nat
    BY <1>7, <2>1, ToAddValues
  <2>3. CountKept' /\ TicksKept'
    BY <1>1, <1>3, <1>4, <1>5, <1>6, <1>7, <2>1, <2>2 DEF KeptInv, CountKept, TicksKept
  <2>4. BinsKept'
    BY <1>1, <1>3, <1>4, <1>5, <1>6, <1>7, <2>1, <2>2 DEF KeptInv, BinsKept
  <2>5. QED
    BY <2>3, <2>4
<1>10. CASE StopTicks(t)
  <2>1. /\ pc[t] = "ticks" /\ pc'[t] = "read" /\ elapsed' = elapsed
        /\ ticks' = ticks + elapsed[t] /\ UNCHANGED <<count, histogram>>
    BY <1>1, <1>10 DEF StopTicks, Goto, TypeOK
  <2>2. /\ ToCount[t] = 0 /\ ToCount'[t] = 0
        /\ ToTicks[t] = elapsed[t] /\ ToTicks'[t] = 0
        /\ \A b \in Bins : ToBin(b)'[t] = ToBin(b)[t] /\ ToBin(b)[t] \in Nat
    BY <2>1, ToAddValues
  <2>3. CountKept' /\ TicksKept'
    BY <1>1, <1>3, <1>4, <1>5, <1>6, <1>7, <2>1, <2>2 DEF KeptInv, CountKept, TicksKept
  <2>4. BinsKept'
    BY <1>1, <1>3, <1>4, <1>5, <1>6, <1>7, <2>1, <2>2 DEF KeptInv, BinsKept
  <2>5. QED
    BY <2>3, <2>4
<1>11. CASE StopBin(t)
  <2> DEFINE its == Bin(elapsed[t])
  <2>1. /\ pc[t] = "bin" /\ pc'[t] = "idle"
        /\ \A b \in Bins : histogram'[b] = histogram[b] + (IF b = its THEN 1 ELSE 0)
        /\ UNCHANGED <<count, ticks>>
    <3>1. /\ pc[t] = "bin" /\ pc'[t] = "idle" /\ UNCHANGED <<count, ticks>>
          /\ histogram' = [histogram EXCEPT ![its] = histogram[its] + 1]
          /\ histogram \in [Bins -> Nat] /\ its \in Bins
      BY <1>1, <1>7, <1>11 DEF StopBin, Goto, TypeOK
    <3> HIDE DEF its
    <3>2. QED
      BY <3>1
  <2>2. /\ ToCount[t] = 0 /\ ToCount'[t] = 0 /\ ToTicks[t] = 0 /\ ToTicks'[t] = 0
        /\ \A b \in Bins : ToBin(b)[t] = (IF b = its THEN 1 ELSE 0) /\ ToBin(b)'[t] = 0
    BY <2>1, ToAddValues
  <2>3. CountKept' /\ TicksKept'
    BY <1>1, <1>3, <1>4, <1>5, <1>6, <1>7, <2>1, <2>2 DEF KeptInv, CountKept, TicksKept
  <2> HIDE DEF its
  <2>4. BinsKept'
    BY <1>1, <1>3, <1>4, <1>5, <1>6, <1>7, <2>1, <2>2 DEF KeptInv, BinsKept
  <2>5. QED
    BY <2>3, <2>4
<1>12. QED
  BY <1>8, <1>9, <1>10, <1>11 DEF Stopping

LEMMA ToAddStays ==
    ASSUME UNCHANGED <<pc, elapsed>>
    PROVE  /\ ToCount' = ToCount /\ ToTicks' = ToTicks /\ Counted' = Counted
           /\ \A b \in Bins : ToBin(b)' = ToBin(b)
BY DEF ToCount, ToTicks, ToBin, Counted

LEMMA KeptSnap ==
    ASSUME IsFiniteSet(Threads), IsFiniteSet(Durations), KeptInv, Snapshot \/ Snapping
    PROVE  CountKept' /\ TicksKept' /\ BinsKept'
<1>1. TypeOK /\ NoSample /\ UNCHANGED <<pc, elapsed>>
  BY DEF KeptInv, IInv, NoSample, Snapshot, Snapping, SnapBin, SnapCount, SnapTicks, SnapMaximum,
         stopVars
<1>2. /\ Sum(samples') = Sum(samples) /\ Sum(Times') = Sum(Times)
      /\ \A b \in Bins : Sum(InBin(b)') = Sum(InBin(b))
      /\ ToCount' = ToCount /\ ToTicks' = ToTicks /\ \A b \in Bins : ToBin(b)' = ToBin(b)
  BY <1>1, SamplesStay, ToAddStays
<1>3. /\ count \in Nat /\ ticks \in Nat /\ shown.count \in Nat /\ shown.ticks \in Nat
      /\ next \in Bins
      /\ \A b \in Bins : histogram[b] \in Nat /\ shown.bins[b] \in Nat
  BY <1>1 DEF TypeOK
<1>4. /\ count' + shown'.count = count + shown.count
      /\ ticks' + shown'.ticks = ticks + shown.ticks
      /\ \A b \in Bins : histogram'[b] + shown'.bins[b] = histogram[b] + shown.bins[b]
  <2>1. CASE SnapBin
    <3>1. /\ shown'.count = shown.count /\ shown'.ticks = shown.ticks
          /\ shown'.bins = [shown.bins EXCEPT ![next] = shown.bins[next] + histogram[next]]
          /\ histogram' = [histogram EXCEPT ![next] = 0] /\ UNCHANGED <<count, ticks>>
      BY <1>1, <2>1 DEF SnapBin, TypeOK
    <3>2. \A b \in Bins :
            /\ shown'.bins[b] = (IF b = next THEN shown.bins[b] + histogram[b] ELSE shown.bins[b])
            /\ histogram'[b] = (IF b = next THEN 0 ELSE histogram[b])
      BY <1>1, <3>1 DEF TypeOK
    <3>3. QED
      BY <1>3, <3>1, <3>2
  <2>2. CASE SnapCount
    <3>1. /\ shown'.count = shown.count + count /\ count' = 0
          /\ shown'.ticks = shown.ticks /\ shown'.bins = shown.bins
          /\ UNCHANGED <<ticks, histogram>>
      BY <1>1, <2>2 DEF SnapCount, TypeOK
    <3>2. QED
      BY <1>3, <3>1
  <2>3. CASE SnapTicks
    <3>1. /\ shown'.ticks = shown.ticks + ticks /\ ticks' = 0
          /\ shown'.count = shown.count /\ shown'.bins = shown.bins
          /\ UNCHANGED <<count, histogram>>
      BY <1>1, <2>3 DEF SnapTicks, TypeOK
    <3>2. QED
      BY <1>3, <3>1
  <2>4. CASE Snapshot \/ SnapMaximum
    BY <1>1, <2>4 DEF Snapshot, SnapMaximum, counterVars, TypeOK
  <2>5. QED
    BY <2>1, <2>2, <2>3, <2>4 DEF Snapping
<1>5. CountKept' /\ TicksKept'
  BY <1>2, <1>4 DEF KeptInv, CountKept, TicksKept
<1>6. BinsKept'
  BY <1>2, <1>4 DEF KeptInv, BinsKept
<1>7. QED
  BY <1>5, <1>6

LEMMA KeptInit ==
    ASSUME IsFiniteSet(Threads), IsFiniteSet(Durations), Init
    PROVE  KeptInv
<1>1. IInv
  BY InitHolds
<1>2. TypeOK
  BY <1>1 DEF IInv
<1>3. /\ \A t \in Threads : ToCount[t] = 0 /\ ToTicks[t] = 0 /\ \A b \in Bins : ToBin(b)[t] = 0
      /\ \A d \in Durations : samples[d] = 0
  BY DEF Init, ToCount, ToTicks, ToBin
<1>4. Sum(ToCount) = 0 /\ Sum(ToTicks) = 0 /\ \A b \in Bins : Sum(ToBin(b)) = 0
  BY <1>2, <1>3, ToAddTypes, SumZero
<1>5. \A d \in Durations : Times[d] = 0
  BY <1>3, DurationAssumption DEF Times
<1>6. Sum(samples) = 0 /\ Sum(Times) = 0
  BY <1>2, <1>3, <1>5, ToAddTypes, SumZero
<1>7. \A b \in Bins : Sum(InBin(b)) = 0
  <2> TAKE b \in Bins
  <2>1. \A d \in {e \in Durations : Bin(e) = b} : InBin(b)[d] = 0
    BY <1>3 DEF InBin
  <2>2. QED
    BY <1>2, <2>1, ToAddTypes, SumZero
<1>8. count = 0 /\ ticks = 0 /\ shown.count = 0 /\ shown.ticks = 0
      /\ \A b \in Bins : histogram[b] = 0 /\ shown.bins[b] = 0
  BY DEF Init, Zero
<1>9. CountKept /\ TicksKept
  BY <1>4, <1>6, <1>8 DEF CountKept, TicksKept
<1>10. BinsKept
  BY <1>4, <1>7, <1>8 DEF BinsKept
<1>11. QED
  BY <1>1, <1>9, <1>10 DEF KeptInv

LEMMA KeptNext ==
    ASSUME IsFiniteSet(Threads), IsFiniteSet(Durations), KeptInv, [Next]_vars
    PROVE  KeptInv'
<1>1. IInv'
  BY NextHolds DEF KeptInv
<1>2. TypeOK'
  BY <1>1 DEF IInv
<1>3. CASE \E t \in Threads : (\E d \in Durations : Stop(t, d)) \/ Stopping(t)
  BY <1>1, <1>2, <1>3, KeptStop, KeptStopping DEF KeptInv
<1>4. CASE Snapshot \/ Snapping
  BY <1>1, <1>4, KeptSnap DEF KeptInv
<1>5. CASE UNCHANGED vars
  <2>1. NoSample /\ UNCHANGED <<pc, elapsed, counterVars, shown>>
    BY <1>5 DEF vars, stopVars, snapVars, NoSample
  <2>2. CountKept' /\ TicksKept' /\ BinsKept'
    BY <2>1, SamplesStay, ToAddStays DEF KeptInv, CountKept, TicksKept, BinsKept, counterVars
  <2>3. QED
    BY <1>1, <2>2 DEF KeptInv
<1>6. QED
  BY <1>3, <1>4, <1>5 DEF Next

LEMMA KeptHolds ==
    ASSUME IsFiniteSet(Threads), IsFiniteSet(Durations)
    PROVE  Spec => []KeptInv
<1>1. Init => KeptInv
  BY KeptInit
<1>2. KeptInv /\ [Next]_vars => KeptInv'
  BY KeptNext
<1>3. QED
  BY <1>1, <1>2, PTL DEF Spec

\* With no Stop under way, nothing is left to add.
LEMMA IdleKept ==
    ASSUME KeptInv, \A t \in Threads : pc[t] = "idle"
    PROVE  /\ count + shown.count = Sum(samples)
           /\ ticks + shown.ticks = Sum(Times)
           /\ \A b \in Bins : histogram[b] + shown.bins[b] = Sum(InBin(b))
<1>1. TypeOK
  BY DEF KeptInv, IInv
<1>2. \A t \in Threads : ToCount[t] = 0 /\ ToTicks[t] = 0 /\ \A b \in Bins : ToBin(b)[t] = 0
  BY DEF ToCount, ToTicks, ToBin
<1>3. Sum(ToCount) = 0 /\ Sum(ToTicks) = 0 /\ \A b \in Bins : Sum(ToBin(b)) = 0
  BY <1>1, <1>2, ToAddTypes, SumZero
<1>4. /\ count \in Nat /\ ticks \in Nat /\ shown.count \in Nat /\ shown.ticks \in Nat
      /\ \A b \in Bins : histogram[b] \in Nat /\ shown.bins[b] \in Nat
  BY <1>1 DEF TypeOK
<1>5. QED
  BY <1>3, <1>4 DEF KeptInv, CountKept, TicksKept, BinsKept

(***************************************************************************)
(* Any finite number of threads and durations: while no Stop is under way, *)
(* the counters and the windows together hold each measured call once, its *)
(* count, its ticks and its bin, however the Stops and the exchanges of    *)
(* Snapshot were interleaved before.                                       *)
(***************************************************************************)
THEOREM CallsKept ==
    ASSUME IsFiniteSet(Threads), IsFiniteSet(Durations)
    PROVE  Spec => []SamplesKept
<1>1. KeptInv => SamplesKept
  BY IdleKept DEF SamplesKept
<1>2. QED
  BY <1>1, KeptHolds, PTL

(***************************************************************************)
(* The bins of BinsCovered.                                                *)
(***************************************************************************)
LEMMA FiniteBins == IsFiniteSet(Bins)
<1>1. 0 \in Int /\ Last \in Int
  OBVIOUS
<1>2. QED
  BY <1>1, FS_Interval

\* A bin that changes changes the sum of all bins.
LEMMA BinChange ==
    ASSUME NEW f \in [Bins -> Nat], NEW g \in [Bins -> Nat], NEW b \in Bins,
           \A c \in Bins : c # b => g[c] = f[c]
    PROVE  Sum(g) + f[b] = Sum(f) + g[b]
<1> DEFINE D == Bins
<1>1. /\ IsFiniteSet(D) /\ f \in [D -> Nat] /\ g \in [D -> Nat] /\ b \in D
      /\ \A c \in D : c # b => g[c] = f[c]
  BY FiniteBins
<1> HIDE DEF D
<1>2. QED
  BY <1>1, SumChange, SMTT(20)

LEMMA CoveredStop ==
    ASSUME IsFiniteSet(Threads), CoveredInv, TypeOK', NEW t \in Threads,
           (\E d \in Durations : Stop(t, d)) \/ Stopping(t)
    PROVE  BinsCounted' /\ BinsBelow'
<1>1. TypeOK /\ shown' = shown /\ snap' = snap
  BY DEF CoveredInv, IInv, Stop, Stopping, StopCount, StopTicks, ReadMaximum, Raise, StopBin,
         snapVars
<1>2. \A u \in Threads : u # t => pc'[u] = pc[u] /\ elapsed'[u] = elapsed[u]
  BY <1>1 DEF Stop, Stopping, StopCount, StopTicks, ReadMaximum, Raise, StopBin, See, Goto, TypeOK
<1>3. Sum(Counted') + Counted[t] = Sum(Counted) + Counted'[t]
  BY <1>1, <1>2, StopChanges
<1>4. /\ Sum(Counted) \in Nat /\ Sum(Counted') \in Nat
      /\ Sum(histogram) \in Nat /\ Sum(shown.bins) \in Nat /\ Sum(histogram') \in Nat
  <2>1. /\ Counted \in [Threads -> Nat] /\ Counted' \in [Threads -> Nat]
        /\ histogram \in [Bins -> Nat] /\ histogram' \in [Bins -> Nat]
        /\ shown.bins \in [Bins -> Nat]
    BY <1>1 DEF TypeOK, Counted
  <2>2. QED
    BY <2>1, FiniteBins, SumType
<1>5. /\ count \in Nat /\ shown.count \in Nat /\ maximum \in Nat /\ shown.maximum \in Nat
      /\ elapsed[t] \in Nat /\ Bin(elapsed[t]) \in Bins /\ Bin(elapsed[t]) <= elapsed[t]
      /\ \A b \in Bins : b \in Nat /\ histogram[b] \in Nat /\ shown.bins[b] \in Nat
  <2>1. /\ count \in Nat /\ shown.count \in Nat /\ maximum \in Nat /\ shown.maximum \in Nat
        /\ elapsed[t] \in Nat
        /\ \A b \in Bins : histogram[b] \in Nat /\ shown.bins[b] \in Nat
    BY <1>1 DEF TypeOK
  <2>2. Bin(elapsed[t]) \in Bins /\ Bin(elapsed[t]) <= elapsed[t]
    BY <2>1 DEF Bin
  <2>3. \A b \in Bins : b \in Nat
    OBVIOUS
  <2>4. QED
    BY <2>1, <2>2, <2>3
<1>6. CASE (\E d \in Durations : Stop(t, d)) \/ StopTicks(t)
  <2>1. /\ UNCHANGED <<count, maximum, histogram>>
        /\ \/ pc[t] = "idle" /\ pc'[t] = "count"
           \/ pc[t] = "ticks" /\ pc'[t] = "read"
    BY <1>1, <1>6 DEF Stop, StopTicks, Goto, TypeOK, counterVars
  <2>2. Counted'[t] = Counted[t] /\ Counted[t] \in Nat
    BY <2>1, ToAddValues
  <2>3. BinsCounted'
    BY <1>1, <1>3, <1>4, <1>5, <2>1, <2>2 DEF CoveredInv, BinsCounted
  <2>4. BinsBelow'
    BY <1>1, <2>1 DEF CoveredInv, BinsBelow
  <2>5. QED
    BY <2>3, <2>4
<1>7. CASE StopCount(t)
  <2>1. /\ pc[t] = "count" /\ pc'[t] = "ticks" /\ count' = count + 1
        /\ UNCHANGED <<maximum, histogram>>
    BY <1>1, <1>7 DEF StopCount, Goto, TypeOK
  <2>2. Counted[t] = 0 /\ Counted'[t] = 1
    BY <2>1, ToAddValues
  <2>3. BinsCounted'
    BY <1>1, <1>3, <1>4, <1>5, <2>1, <2>2 DEF CoveredInv, BinsCounted
  <2>4. BinsBelow'
    BY <1>1, <2>1 DEF CoveredInv, BinsBelow
  <2>5. QED
    BY <2>3, <2>4
<1>8. CASE ReadMaximum(t) \/ Raise(t)
  <2>1. /\ pc[t] \in {"read", "raise"} /\ pc'[t] \in {"raise", "bin"}
        /\ UNCHANGED <<count, histogram>>
        /\ maximum <= maximum' /\ maximum' \in Nat
    <3>1. CASE ReadMaximum(t)
      BY <1>1, <1>5, <3>1 DEF ReadMaximum, See, Goto, TypeOK, counterVars
    <3>2. CASE Raise(t)
      <4>1. /\ pc[t] = "raise" /\ pc'[t] \in {"raise", "bin"} /\ UNCHANGED <<count, histogram>>
            /\ \/ maximum = old[t] /\ maximum' = elapsed[t]
               \/ maximum' = maximum
        BY <1>1, <3>2 DEF Raise, See, Goto, TypeOK
      <4>2. old[t] < elapsed[t]
        BY <4>1 DEF CoveredInv, IInv, LoopPassed
      <4>3. QED
        BY <1>5, <4>1, <4>2
    <3>3. QED
      BY <1>8, <3>1, <3>2
  <2>2. Counted'[t] = Counted[t] /\ Counted[t] \in Nat
    BY <2>1, ToAddValues
  <2>3. BinsCounted'
    BY <1>1, <1>3, <1>4, <1>5, <2>1, <2>2 DEF CoveredInv, BinsCounted
  <2>4. \A b \in Nat : b <= maximum => b <= maximum'
    BY <1>5, <2>1
  <2>5. BinsBelow'
    BY <1>1, <1>5, <2>1, <2>4 DEF CoveredInv, BinsBelow
  <2>6. QED
    BY <2>3, <2>5
<1>9. CASE StopBin(t)
  <2> DEFINE its == Bin(elapsed[t])
  <2>1. /\ pc[t] = "bin" /\ pc'[t] = "idle" /\ UNCHANGED <<count, maximum>>
        /\ histogram' = [histogram EXCEPT ![its] = histogram[its] + 1]
        /\ histogram \in [Bins -> Nat] /\ histogram' \in [Bins -> Nat] /\ its \in Bins
    BY <1>1, <1>5, <1>9 DEF StopBin, Goto, TypeOK
  <2>2. elapsed[t] <= maximum \/ elapsed[t] <= shown.maximum
    BY <2>1 DEF CoveredInv, IInv, LoopPassed
  <2>3. its <= maximum \/ its <= shown.maximum
    BY <1>5, <2>2 DEF Bins
  <2> HIDE DEF its
  <2>4. histogram'[its] = histogram[its] + 1 /\ \A b \in Bins : b # its => histogram'[b] = histogram[b]
    BY <2>1
  <2>5. Sum(histogram') + histogram[its] = Sum(histogram) + histogram'[its]
    BY <2>1, <2>4, BinChange
  <2>6. Counted[t] = 1 /\ Counted'[t] = 0
    BY <2>1, ToAddValues
  <2>7. BinsCounted'
    <3>1. histogram[its] \in Nat
      BY <2>1
    <3>2. Sum(histogram') = Sum(histogram) + 1
      BY <1>4, <2>4, <2>5, <3>1
    <3>3. Sum(Counted') + 1 = Sum(Counted)
      BY <1>3, <1>4, <2>6
    <3>4. QED
      BY <1>1, <1>4, <1>5, <2>1, <3>2, <3>3, SMTT(20) DEF CoveredInv, BinsCounted
  <2>8. BinsBelow'
    BY <1>1, <2>1, <2>3, <2>4 DEF CoveredInv, BinsBelow
  <2>9. QED
    BY <2>7, <2>8
<1>10. QED
  BY <1>6, <1>7, <1>8, <1>9 DEF Stopping

LEMMA CoveredSnap ==
    ASSUME IsFiniteSet(Threads), CoveredInv, TypeOK', Snapshot \/ Snapping
    PROVE  BinsCounted' /\ BinsBelow'
<1>1. TypeOK /\ Counted' = Counted
  BY ToAddStays DEF CoveredInv, IInv, Snapshot, Snapping, SnapBin, SnapCount, SnapTicks, SnapMaximum,
         stopVars
<1>2. /\ histogram \in [Bins -> Nat] /\ histogram' \in [Bins -> Nat]
      /\ shown.bins \in [Bins -> Nat] /\ shown'.bins \in [Bins -> Nat] /\ next \in Bins
      /\ Counted \in [Threads -> Nat]
  BY <1>1 DEF TypeOK, Counted
<1>3. /\ Sum(Counted) \in Nat /\ Sum(histogram) \in Nat /\ Sum(shown.bins) \in Nat
      /\ Sum(histogram') \in Nat /\ Sum(shown'.bins) \in Nat
  BY <1>2, FiniteBins, SumType
<1>4. /\ count \in Nat /\ shown.count \in Nat /\ maximum \in Nat /\ shown.maximum \in Nat
      /\ \A b \in Bins : b \in Nat /\ histogram[b] \in Nat /\ shown.bins[b] \in Nat
  <2>1. /\ count \in Nat /\ shown.count \in Nat /\ maximum \in Nat /\ shown.maximum \in Nat
        /\ \A b \in Bins : histogram[b] \in Nat /\ shown.bins[b] \in Nat
    BY <1>1 DEF TypeOK
  <2>2. \A b \in Bins : b \in Nat
    OBVIOUS
  <2>3. QED
    BY <2>1, <2>2
<1>5. CASE Snapshot
  BY <1>1, <1>5 DEF Snapshot, counterVars, CoveredInv, BinsCounted, BinsBelow
<1>6. CASE SnapBin
  <2>1. /\ shown'.count = shown.count /\ shown'.maximum = shown.maximum
        /\ shown'.bins = [shown.bins EXCEPT ![next] = shown.bins[next] + histogram[next]]
        /\ histogram' = [histogram EXCEPT ![next] = 0] /\ UNCHANGED <<count, maximum>>
        /\ snap = "bins" /\ snap' \in {"bins", "count"}
    BY <1>1, <1>6 DEF SnapBin, TypeOK
  <2>2. /\ shown'.bins[next] = shown.bins[next] + histogram[next] /\ histogram'[next] = 0
        /\ \A b \in Bins : b # next => shown'.bins[b] = shown.bins[b] /\ histogram'[b] = histogram[b]
    BY <1>2, <2>1
  <2>3. Sum(histogram') + histogram[next] = Sum(histogram) + histogram'[next]
    BY <1>2, <2>2, BinChange
  <2>4. Sum(shown'.bins) + shown.bins[next] = Sum(shown.bins) + shown'.bins[next]
    BY <1>2, <2>2, BinChange, ZenonT(30)
  <2>5. BinsCounted'
    <3>1. histogram[next] \in Nat /\ shown.bins[next] \in Nat
      BY <1>2
    <3>2. Sum(histogram') + Sum(shown'.bins) = Sum(histogram) + Sum(shown.bins)
      BY <1>3, <2>2, <2>3, <2>4, <3>1
    <3>3. QED
      BY <1>1, <1>3, <2>1, <3>2 DEF CoveredInv, BinsCounted
  <2>6. BinsBelow'
    <3> SUFFICES ASSUME NEW b \in Bins
                 PROVE  /\ histogram'[b] > 0 => b <= maximum \/ b <= shown.maximum
                        /\ shown'.bins[b] > 0 => b <= shown.maximum \/ b <= maximum
      BY <2>1 DEF BinsBelow
    <3>1. /\ histogram[b] > 0 => b <= maximum \/ b <= shown.maximum
          /\ shown.bins[b] > 0 => b <= shown.maximum \/ b <= maximum
      BY DEF CoveredInv, BinsBelow
    <3>2. histogram[b] \in Nat /\ shown.bins[b] \in Nat
      BY <1>2
    <3>3. CASE b = next
      BY <2>2, <3>1, <3>2, <3>3
    <3>4. CASE b # next
      BY <2>2, <3>1, <3>4
    <3>5. QED
      BY <3>3, <3>4
  <2>7. QED
    BY <2>5, <2>6
<1>7. CASE SnapCount
  <2>1. /\ shown'.count = shown.count + count /\ count' = 0
        /\ shown'.bins = shown.bins /\ shown'.maximum = shown.maximum
        /\ snap = "count" /\ snap' = "ticks" /\ UNCHANGED <<maximum, histogram>>
    BY <1>1, <1>7 DEF SnapCount, TypeOK
  <2>2. BinsCounted'
    BY <1>1, <1>3, <1>4, <2>1 DEF CoveredInv, BinsCounted
  <2>3. BinsBelow'
    BY <2>1 DEF CoveredInv, BinsBelow
  <2>4. QED
    BY <2>2, <2>3
<1>8. CASE SnapTicks
  <2>1. /\ shown'.count = shown.count /\ shown'.bins = shown.bins
        /\ shown'.maximum = shown.maximum
        /\ snap = "ticks" /\ snap' = "maximum" /\ UNCHANGED <<count, maximum, histogram>>
    BY <1>1, <1>8 DEF SnapTicks, TypeOK
  <2>2. QED
    BY <1>1, <2>1 DEF CoveredInv, BinsCounted, BinsBelow
<1>9. CASE SnapMaximum
  <2>1. /\ shown'.count = shown.count /\ shown'.bins = shown.bins
        /\ shown'.maximum = (IF maximum > shown.maximum THEN maximum ELSE shown.maximum)
        /\ snap = "maximum" /\ snap' = "idle" /\ UNCHANGED <<count, histogram>>
    BY <1>1, <1>9 DEF SnapMaximum, TypeOK
  <2>2. BinsCounted'
    BY <1>1, <2>1 DEF CoveredInv, BinsCounted
  <2>3. \A b \in Nat : b <= maximum \/ b <= shown.maximum => b <= shown'.maximum
    BY <1>4, <2>1
  <2>4. BinsBelow'
    BY <1>4, <2>1, <2>3 DEF CoveredInv, BinsBelow
  <2>5. QED
    BY <2>2, <2>4
<1>10. QED
  BY <1>5, <1>6, <1>7, <1>8, <1>9 DEF Snapping

LEMMA CoveredInit ==
    ASSUME Init
    PROVE  CoveredInv
<1>1. IInv /\ TypeOK
  BY InitHolds DEF IInv
<1>2. /\ \A t \in Threads : Counted[t] = 0
      /\ \A b \in Bins : histogram[b] = 0 /\ shown.bins[b] = 0
      /\ count = 0 /\ shown.count = 0
  BY DEF Init, Counted, Zero
<1>3. Sum(Counted) = 0 /\ Sum(histogram) = 0 /\ Sum(shown.bins) = 0
  BY <1>1, <1>2, ToAddTypes, SumZero
<1>4. BinsCounted
  BY <1>2, <1>3 DEF BinsCounted
<1>5. BinsBelow
  BY <1>2 DEF BinsBelow
<1>6. QED
  BY <1>1, <1>4, <1>5 DEF CoveredInv

LEMMA CoveredNext ==
    ASSUME IsFiniteSet(Threads), CoveredInv, [Next]_vars
    PROVE  CoveredInv'
<1>1. IInv' /\ TypeOK'
  BY NextHolds DEF CoveredInv, IInv
<1>2. CASE \E t \in Threads : (\E d \in Durations : Stop(t, d)) \/ Stopping(t)
  BY <1>1, <1>2, CoveredStop DEF CoveredInv
<1>3. CASE Snapshot \/ Snapping
  BY <1>1, <1>3, CoveredSnap DEF CoveredInv
<1>4. CASE UNCHANGED vars
  <2>1. UNCHANGED <<pc, elapsed, count, maximum, histogram, shown, snap>>
    BY <1>4 DEF vars, stopVars, snapVars, counterVars
  <2>2. BinsCounted' /\ BinsBelow'
    BY <2>1, ToAddStays DEF CoveredInv, BinsCounted, BinsBelow
  <2>3. QED
    BY <1>1, <2>2 DEF CoveredInv
<1>5. QED
  BY <1>2, <1>3, <1>4 DEF Next

LEMMA CoveredHolds ==
    ASSUME IsFiniteSet(Threads)
    PROVE  Spec => []CoveredInv
<1>1. Init => CoveredInv
  BY CoveredInit
<1>2. CoveredInv /\ [Next]_vars => CoveredInv'
  BY CoveredNext
<1>3. QED
  BY <1>1, <1>2, PTL DEF Spec

(***************************************************************************)
(* Any finite number of threads: no series of complete windows shows more  *)
(* calls in its bins than it counts, nor a bin above its longest call,     *)
(* because Stop writes the bin last and Snapshot takes the bins first.     *)
(***************************************************************************)
THEOREM BinsAreCovered ==
    ASSUME IsFiniteSet(Threads)
    PROVE  Spec => []BinsCovered
<1>1. CoveredInv => BinsCovered
  BY DEF CoveredInv, BinsCounted, BinsBelow, BinsCovered
<1>2. QED
  BY <1>1, CoveredHolds, PTL

(***************************************************************************)
(* Calls weighed by what each adds to a counter.                           *)
(***************************************************************************)
LEMMA SumPlus ==
    ASSUME NEW D, IsFiniteSet(D), NEW f \in [D -> Nat], NEW g \in [D -> Nat], NEW h \in [D -> Nat],
           \A x \in D : h[x] = f[x] + g[x]
    PROVE  Sum(h) = Sum(f) + Sum(g)
<1> DEFINE Rest == UNION {{x} \X (f[x] + 1 .. f[x] + g[x]) : x \in D}
           shift == [u \in Units(g) |-> <<u[1], f[u[1]] + u[2]>>]
<1>1. Units(h) = Units(f) \union Rest /\ Units(f) \intersect Rest = {}
  <2>1. ASSUME NEW x \in D
        PROVE  /\ 1 .. h[x] = (1 .. f[x]) \union (f[x] + 1 .. f[x] + g[x])
               /\ (1 .. f[x]) \intersect (f[x] + 1 .. f[x] + g[x]) = {}
    <3>1. f[x] \in Nat /\ g[x] \in Nat /\ h[x] = f[x] + g[x]
      OBVIOUS
    <3>2. QED
      BY <3>1
  <2>2. Units(h) = Units(f) \union Rest
    BY <2>1 DEF Units
  <2>3. Units(f) \intersect Rest = {}
    BY <2>1 DEF Units
  <2>4. QED
    BY <2>2, <2>3
<1>2. \A u : u \in Units(g) <=> \E x \in D : \E i \in 1 .. g[x] : u = <<x, i>>
  BY DEF Units
<1>3. \A v : v \in Rest <=> \E x \in D : \E j \in f[x] + 1 .. f[x] + g[x] : v = <<x, j>>
  OBVIOUS
<1> HIDE DEF Rest
<1>4. shift \in [Units(g) -> Rest]
  <2> SUFFICES ASSUME NEW u \in Units(g) PROVE <<u[1], f[u[1]] + u[2]>> \in Rest
    OBVIOUS
  <2>0. PICK x \in D : \E i \in 1 .. g[x] : u = <<x, i>>
    BY <1>2
  <2>1. PICK i \in 1 .. g[x] : u = <<x, i>>
    BY <2>0
  <2>2. f[x] \in Nat /\ g[x] \in Nat
    OBVIOUS
  <2>3. f[x] + i \in f[x] + 1 .. f[x] + g[x]
    BY <2>2
  <2>4. QED
    BY <1>3, <2>1, <2>3
<1>5. \A v \in Rest : \E u \in Units(g) : shift[u] = v
  <2> TAKE v \in Rest
  <2>0. PICK x \in D : \E j \in f[x] + 1 .. f[x] + g[x] : v = <<x, j>>
    BY <1>3
  <2>1. PICK j \in f[x] + 1 .. f[x] + g[x] : v = <<x, j>>
    BY <2>0
  <2>2. f[x] \in Nat /\ g[x] \in Nat
    OBVIOUS
  <2>3. j - f[x] \in 1 .. g[x] /\ f[x] + (j - f[x]) = j
    BY <2>2
  <2>4. <<x, j - f[x]>> \in Units(g)
    BY <1>2, <2>3
  <2>5. QED
    BY <2>1, <2>3, <2>4
<1>6. \A u, v \in Units(g) : shift[u] = shift[v] => u = v
  <2> SUFFICES ASSUME NEW u \in Units(g), NEW v \in Units(g), shift[u] = shift[v] PROVE u = v
    OBVIOUS
  <2>0. PICK x \in D : \E i \in 1 .. g[x] : u = <<x, i>>
    BY <1>2
  <2>1. PICK i \in 1 .. g[x] : u = <<x, i>>
    BY <2>0
  <2>a. PICK y \in D : \E j \in 1 .. g[y] : v = <<y, j>>
    BY <1>2
  <2>2. PICK j \in 1 .. g[y] : v = <<y, j>>
    BY <2>a
  <2>3. x = y /\ f[x] + i = f[x] + j /\ f[x] \in Nat
    BY <2>1, <2>2
  <2>4. QED
    BY <2>1, <2>2, <2>3
<1> HIDE DEF shift
<1>7. shift \in Surjection(Units(g), Rest) /\ shift \in Injection(Units(g), Rest)
  BY <1>4, <1>5, <1>6 DEF Surjection, Injection, IsInjective
<1>8. /\ IsFiniteSet(Units(f)) /\ IsFiniteSet(Units(g))
      /\ Sum(f) \in Nat /\ Sum(g) \in Nat
  BY SumType
<1>9. IsFiniteSet(Rest) /\ Cardinality(Rest) = Cardinality(Units(g))
  BY <1>7, <1>8, FS_Surjection
<1>10. Cardinality(Units(h)) = Cardinality(Units(f)) + Cardinality(Rest) - Cardinality({})
  BY <1>1, <1>8, <1>9, FS_Union
<1>11. QED
  BY <1>8, <1>9, <1>10, FS_EmptySet DEF Sum

LEMMA WeighedType ==
    ASSUME IsFiniteSet(Durations), NEW w \in [Durations -> Nat], NEW f \in [Durations -> Nat]
    PROVE  /\ [d \in Durations |-> w[d] * f[d]] \in [Durations -> Nat]
           /\ Weighed(w, f) \in Nat
<1>1. \A d \in Durations : w[d] * f[d] \in Nat
  OBVIOUS
<1>2. [d \in Durations |-> w[d] * f[d]] \in [Durations -> Nat]
  BY <1>1
<1>3. QED
  BY <1>2, SumType DEF Weighed

LEMMA WeighedOne ==
    ASSUME IsFiniteSet(Durations), NEW w \in [Durations -> Nat], NEW f \in [Durations -> Nat],
           NEW d \in Durations
    PROVE  Weighed(w, [f EXCEPT ![d] = f[d] + 1]) = Weighed(w, f) + w[d]
<1> DEFINE g == [f EXCEPT ![d] = f[d] + 1]
           F == [e \in Durations |-> w[e] * f[e]]
           G == [e \in Durations |-> w[e] * g[e]]
<1>1. f[d] \in Nat /\ w[d] \in Nat
  OBVIOUS
<1>2. g \in [Durations -> Nat] /\ g[d] = f[d] + 1 /\ \A e \in Durations : e # d => g[e] = f[e]
  BY <1>1
<1> HIDE DEF g
<1>3. F \in [Durations -> Nat] /\ G \in [Durations -> Nat]
  BY <1>2, WeighedType
<1>4. \A e \in Durations : e # d => G[e] = F[e]
  BY <1>2
<1>5. F[d] = w[d] * f[d] /\ G[d] = w[d] * (f[d] + 1)
  BY <1>2
<1>6. G[d] = F[d] + w[d] /\ F[d] \in Nat
  BY <1>1, <1>5
<1> HIDE DEF F, G
<1>7. Sum(G) + F[d] = Sum(F) + G[d] /\ Sum(F) \in Nat /\ Sum(G) \in Nat
  BY <1>3, <1>4, SumChange, SumType
<1>8. Sum(G) = Sum(F) + w[d]
  BY <1>1, <1>6, <1>7
<1>9. QED
  BY <1>8 DEF Weighed, F, G, g

LEMMA WeighedPlus ==
    ASSUME IsFiniteSet(Durations), NEW w \in [Durations -> Nat], NEW f \in [Durations -> Nat],
           NEW g \in [Durations -> Nat]
    PROVE  Weighed(w, [d \in Durations |-> f[d] + g[d]]) = Weighed(w, f) + Weighed(w, g)
<1> DEFINE both == [d \in Durations |-> f[d] + g[d]]
           F == [d \in Durations |-> w[d] * f[d]]
           G == [d \in Durations |-> w[d] * g[d]]
           H == [d \in Durations |-> w[d] * both[d]]
<1>1. both \in [Durations -> Nat] /\ \A d \in Durations : both[d] = f[d] + g[d]
  OBVIOUS
<1> HIDE DEF both
<1>2. F \in [Durations -> Nat] /\ G \in [Durations -> Nat] /\ H \in [Durations -> Nat]
  BY <1>1, WeighedType
<1>3. \A d \in Durations : H[d] = F[d] + G[d]
  <2> TAKE d \in Durations
  <2>1. w[d] \in Nat /\ f[d] \in Nat /\ g[d] \in Nat
    OBVIOUS
  <2>2. w[d] * (f[d] + g[d]) = w[d] * f[d] + w[d] * g[d]
    BY <2>1
  <2>3. QED
    BY <1>1, <2>2
<1> HIDE DEF F, G, H
<1>4. Sum(H) = Sum(F) + Sum(G)
  BY <1>2, <1>3, SumPlus
<1>5. QED
  BY <1>4 DEF Weighed, F, G, H, both

LEMMA WeighedNone ==
    ASSUME NEW w \in [Durations -> Nat]
    PROVE  Weighed(w, None) = 0
<1> DEFINE F == [d \in Durations |-> w[d] * None[d]]
<1>1. \A d \in Durations : F[d] = 0
  BY DEF None
<1>2. F \in [Durations -> Nat]
  BY <1>1
<1> HIDE DEF F
<1>3. Sum(F) = 0
  BY <1>1, <1>2, SumZero
<1>4. QED
  BY <1>3 DEF Weighed, F

LEMMA LoadType ==
    ASSUME IsFiniteSet(Threads), NEW w \in [Durations -> Nat], NEW e, NEW S \in SUBSET Threads,
           \A t \in S : e[t] \in Durations
    PROVE  /\ [t \in Threads |-> IF t \in S THEN w[e[t]] ELSE 0] \in [Threads -> Nat]
           /\ Load(w, e, S) \in Nat
<1>1. [t \in Threads |-> IF t \in S THEN w[e[t]] ELSE 0] \in [Threads -> Nat]
  OBVIOUS
<1>2. QED
  BY <1>1, SumType DEF Load

LEMMA LoadOne ==
    ASSUME IsFiniteSet(Threads), NEW w \in [Durations -> Nat], NEW e, NEW S \in SUBSET Threads,
           NEW t \in Threads \ S, \A u \in S \union {t} : e[u] \in Durations
    PROVE  Load(w, e, S \union {t}) = Load(w, e, S) + w[e[t]]
<1> DEFINE T == S \union {t}
           F == [u \in Threads |-> IF u \in S THEN w[e[u]] ELSE 0]
           G == [u \in Threads |-> IF u \in T THEN w[e[u]] ELSE 0]
<1>1. T \in SUBSET Threads /\ \A u \in T : e[u] \in Durations
  OBVIOUS
<1>2. F \in [Threads -> Nat] /\ G \in [Threads -> Nat]
  BY <1>1, LoadType
<1>3. F[t] = 0 /\ G[t] = w[e[t]] /\ w[e[t]] \in Nat /\ \A u \in Threads : u # t => G[u] = F[u]
  OBVIOUS
<1> HIDE DEF F, G
<1>4. Sum(G) + F[t] = Sum(F) + G[t] /\ Sum(F) \in Nat /\ Sum(G) \in Nat
  BY <1>2, <1>3, SumChange, SumType
<1>5. Sum(G) = Sum(F) + w[e[t]]
  BY <1>3, <1>4
<1>6. QED
  BY <1>5 DEF Load, F, G

LEMMA LoadSame ==
    ASSUME NEW w, NEW e, NEW f, NEW S \in SUBSET Threads, \A t \in S : e[t] = f[t]
    PROVE  Load(w, e, S) = Load(w, f, S)
<1>1. [t \in Threads |-> IF t \in S THEN w[e[t]] ELSE 0]
        = [t \in Threads |-> IF t \in S THEN w[f[t]] ELSE 0]
  OBVIOUS
<1>2. QED
  BY <1>1 DEF Load

LEMMA LoadNone ==
    ASSUME NEW w, NEW e
    PROVE  Load(w, e, {}) = 0
<1> DEFINE F == [t \in Threads |-> IF t \in {} THEN w[e[t]] ELSE 0]
<1>1. F \in [Threads -> Nat] /\ \A t \in Threads : F[t] = 0
  OBVIOUS
<1> HIDE DEF F
<1>2. Sum(F) = 0
  BY <1>1, SumZero
<1>3. QED
  BY <1>2 DEF Load, F

(***************************************************************************)
(* The accounts: what each kind of step does to one of them.               *)
(***************************************************************************)

\* The histories an account is made of.
Histories ==
    [calls : [Sides -> [Durations -> Nat]], recent : [Durations -> Nat],
     torn : [Durations -> Nat], whole : SUBSET Threads, side : Sides,
     elapsed : [Threads -> Nat]]

\* Durations are known of the Stops of S.
Known(h, S) == S \subseteq Threads /\ \A t \in S : h.elapsed[t] \in Durations

LEMMA AccountType ==
    ASSUME IsFiniteSet(Threads), IsFiniteSet(Durations), NEW h \in Histories,
           NEW w \in [Durations -> Nat], NEW S, Known(h, S)
    PROVE  /\ \A k \in Sides : Weighed(w, h.calls[k]) \in Nat
           /\ Weighed(w, h.calls.row) \in Nat /\ Weighed(w, h.calls.rest) \in Nat
           /\ Weighed(w, h.recent) \in Nat /\ Weighed(w, h.torn) \in Nat
           /\ Load(w, h.elapsed, S) \in Nat /\ Load(w, h.elapsed, S \intersect h.whole) \in Nat
<1>1. /\ \A k \in Sides : h.calls[k] \in [Durations -> Nat]
      /\ h.recent \in [Durations -> Nat] /\ h.torn \in [Durations -> Nat]
  BY DEF Histories, Sides
<1>2. /\ \A k \in Sides : Weighed(w, h.calls[k]) \in Nat
      /\ Weighed(w, h.recent) \in Nat /\ Weighed(w, h.torn) \in Nat
  BY <1>1, WeighedType
<1>3. Load(w, h.elapsed, S) \in Nat
  BY LoadType DEF Known
<1>4. Load(w, h.elapsed, S \intersect h.whole) \in Nat
  <2>1. /\ S \intersect h.whole \in SUBSET Threads
        /\ \A t \in S \intersect h.whole : h.elapsed[t] \in Durations
    BY DEF Known
  <2>2. QED
    BY <2>1, LoadType
<1>5. Weighed(w, h.calls.row) \in Nat /\ Weighed(w, h.calls.rest) \in Nat
  BY <1>2 DEF Sides
<1>6. QED
  BY <1>2, <1>3, <1>4, <1>5

\* A step that leaves alone what the account is about.
LEMMA AccountStays ==
    ASSUME NEW h, NEW g, NEW w, NEW cur, NEW r, NEW S \in SUBSET Threads,
           g.calls = h.calls, g.recent = h.recent, g.torn = h.torn,
           S \intersect g.whole = S \intersect h.whole,
           \A t \in S : g.elapsed[t] = h.elapsed[t],
           Account(h, w, cur, r, S)
    PROVE  /\ Account(g, w, cur, r, S)
           /\ Open(h, w, cur, S) => Open(g, w, cur, S)
           /\ Taken(h, w, r) /\ g.side = h.side => Taken(g, w, r)
<1>1. Load(w, g.elapsed, S) = Load(w, h.elapsed, S)
  BY LoadSame
<1>2. Load(w, g.elapsed, S \intersect g.whole) = Load(w, h.elapsed, S \intersect h.whole)
  BY LoadSame
<1>3. QED
  BY <1>1, <1>2 DEF Account, Open, Taken

\* A Stop adds to the counter.
LEMMA AccountAdds ==
    ASSUME IsFiniteSet(Threads), IsFiniteSet(Durations), NEW h \in Histories,
           NEW w \in [Durations -> Nat], NEW cur \in Nat, NEW r \in [Sides -> Nat],
           NEW S, NEW t \in Threads \ S, Known(h, S \union {t}), Account(h, w, cur, r, S)
    PROVE  /\ w[h.elapsed[t]] \in Nat
           /\ Account(h, w, cur + w[h.elapsed[t]], r, S \union {t})
           /\ Open(h, w, cur, S) => Open(h, w, cur + w[h.elapsed[t]], S \union {t})
<1>1. S \in SUBSET Threads /\ Known(h, S) /\ \A u \in S \union {t} : h.elapsed[u] \in Durations
  BY DEF Known
<1>2. w[h.elapsed[t]] \in Nat
  BY <1>1
<1>3. Load(w, h.elapsed, S \union {t}) = Load(w, h.elapsed, S) + w[h.elapsed[t]]
  BY <1>1, LoadOne
<1>5. /\ \A k \in Sides : Weighed(w, h.calls[k]) \in Nat
      /\ Weighed(w, h.calls.row) \in Nat /\ Weighed(w, h.calls.rest) \in Nat
      /\ Weighed(w, h.recent) \in Nat /\ Weighed(w, h.torn) \in Nat
      /\ Load(w, h.elapsed, S) \in Nat /\ Load(w, h.elapsed, S \intersect h.whole) \in Nat
  BY <1>1, AccountType
<1>4. \/ Load(w, h.elapsed, (S \union {t}) \intersect h.whole)
           = Load(w, h.elapsed, S \intersect h.whole)
      \/ Load(w, h.elapsed, (S \union {t}) \intersect h.whole)
           = Load(w, h.elapsed, S \intersect h.whole) + w[h.elapsed[t]]
  <2> DEFINE W == S \intersect h.whole
  <2>1. /\ W \in SUBSET Threads /\ t \in Threads \ W
        /\ \A u \in W \union {t} : h.elapsed[u] \in Durations
    BY <1>1
  <2> HIDE DEF W
  <2>2. Load(w, h.elapsed, W \union {t}) = Load(w, h.elapsed, W) + w[h.elapsed[t]]
    BY <2>1, LoadOne
  <2>3. (S \union {t}) \intersect h.whole = W \union {t} \/ (S \union {t}) \intersect h.whole = W
    BY DEF W
  <2>4. QED
    BY <2>2, <2>3 DEF W
<1>6. Load(w, h.elapsed, (S \union {t}) \intersect h.whole) \in Nat
  BY AccountType
<1>7. r.row \in Nat /\ r.rest \in Nat
  BY DEF Sides
<1> DEFINE a == Load(w, h.elapsed, S)
           b == Load(w, h.elapsed, S \intersect h.whole)
           c == Load(w, h.elapsed, (S \union {t}) \intersect h.whole)
           x == w[h.elapsed[t]]
<1>8. a \in Nat /\ b \in Nat /\ c \in Nat /\ x \in Nat /\ (c = b \/ c = b + x)
  BY <1>2, <1>4, <1>5, <1>6
<1>9. Account(h, w, cur + x, r, S \union {t})
  <2>1. /\ \A k \in Sides : r[k] >= Weighed(w, h.calls[k])
        /\ cur >= b
        /\ cur + r.row + r.rest = Weighed(w, h.calls.row) + Weighed(w, h.calls.rest)
             + Weighed(w, h.recent) + Weighed(w, h.torn) + a
    BY DEF Account
  <2> HIDE DEF a, b, c, x
  <2>2. cur + x >= c
    BY <1>8, <2>1
  <2>3. cur + x + r.row + r.rest = Weighed(w, h.calls.row) + Weighed(w, h.calls.rest)
             + Weighed(w, h.recent) + Weighed(w, h.torn) + (a + x)
    BY <1>5, <1>7, <1>8, <2>1
  <2>4. QED
    BY <1>3, <2>1, <2>2, <2>3 DEF Account, a, c, x
<1>10. ASSUME Open(h, w, cur, S)
       PROVE  Open(h, w, cur + x, S \union {t})
  <2>1. cur >= b + Weighed(w, h.recent)
    BY <1>10 DEF Open
  <2> HIDE DEF a, b, c, x
  <2>2. cur + x >= c + Weighed(w, h.recent)
    BY <1>5, <1>8, <2>1
  <2>3. QED
    BY <2>2 DEF Open, c
<1>11. QED
  BY <1>2, <1>9, <1>10

\* A Stop that met no snapshot returns.
LEMMA AccountKeeps ==
    ASSUME IsFiniteSet(Threads), IsFiniteSet(Durations),
           NEW h \in Histories, NEW g \in Histories,
           NEW w \in [Durations -> Nat], NEW cur \in Nat, NEW r \in [Sides -> Nat],
           NEW S, Known(h, S), NEW t \in S, t \in h.whole,
           g.calls = h.calls, g.whole = h.whole \ {t}, g.torn = h.torn,
           g.recent = [h.recent EXCEPT ![h.elapsed[t]] = h.recent[h.elapsed[t]] + 1],
           \A u \in S \ {t} : g.elapsed[u] = h.elapsed[u],
           Account(h, w, cur, r, S), Open(h, w, cur, S)
    PROVE  Account(g, w, cur, r, S \ {t}) /\ Open(g, w, cur, S \ {t})
<1> DEFINE d == h.elapsed[t]
           rest == S \ {t}
           part == rest \intersect h.whole
<1>1. /\ d \in Durations /\ rest \in SUBSET Threads /\ t \in Threads \ rest
      /\ S = rest \union {t} /\ Known(h, rest)
      /\ part \in SUBSET Threads /\ t \in Threads \ part
      /\ S \intersect h.whole = part \union {t}
      /\ rest \intersect g.whole = part
      /\ \A u \in S : h.elapsed[u] \in Durations
      /\ h.recent \in [Durations -> Nat]
  BY DEF Known, Histories, Sides
<1>2. w[d] \in Nat
  BY <1>1
<1>3. Load(w, g.elapsed, rest) = Load(w, h.elapsed, rest)
  BY <1>1, LoadSame
<1>4. Load(w, g.elapsed, part) = Load(w, h.elapsed, part)
  BY <1>1, LoadSame
<1>5. Load(w, h.elapsed, rest \union {t}) = Load(w, h.elapsed, rest) + w[d]
  BY <1>1, LoadOne
<1>6. Load(w, h.elapsed, part \union {t}) = Load(w, h.elapsed, part) + w[d]
  <2>1. \A u \in part \union {t} : h.elapsed[u] \in Durations
    BY <1>1
  <2>2. QED
    BY <1>1, <2>1, LoadOne
<1>7. Weighed(w, g.recent) = Weighed(w, h.recent) + w[d]
  BY <1>1, WeighedOne
<1>8. /\ Weighed(w, h.calls.row) \in Nat /\ Weighed(w, h.calls.rest) \in Nat
      /\ Weighed(w, h.recent) \in Nat /\ Weighed(w, h.torn) \in Nat
      /\ Load(w, h.elapsed, rest) \in Nat /\ Load(w, h.elapsed, part) \in Nat
      /\ r.row \in Nat /\ r.rest \in Nat
  BY <1>1, AccountType DEF Sides
<1>9. /\ \A k \in Sides : r[k] >= Weighed(w, h.calls[k])
      /\ cur >= Load(w, h.elapsed, part) + w[d] + Weighed(w, h.recent)
      /\ cur + r.row + r.rest = Weighed(w, h.calls.row) + Weighed(w, h.calls.rest)
           + Weighed(w, h.recent) + Weighed(w, h.torn) + (Load(w, h.elapsed, rest) + w[d])
  BY <1>1, <1>5, <1>6 DEF Account, Open
<1>10. rest \intersect g.whole = part
  BY <1>1
<1> HIDE DEF d, rest, part
<1>11. /\ cur >= Load(w, h.elapsed, part)
       /\ cur >= Load(w, h.elapsed, part) + (Weighed(w, h.recent) + w[d])
       /\ cur + r.row + r.rest = Weighed(w, h.calls.row) + Weighed(w, h.calls.rest)
            + (Weighed(w, h.recent) + w[d]) + Weighed(w, h.torn) + Load(w, h.elapsed, rest)
  BY <1>2, <1>8, <1>9
<1>12. Account(g, w, cur, r, rest) /\ Open(g, w, cur, rest)
  BY <1>3, <1>4, <1>7, <1>9, <1>10, <1>11 DEF Account, Open
<1>13. QED
  BY <1>12 DEF rest

\* A Stop that met one returns.
LEMMA AccountTears ==
    ASSUME IsFiniteSet(Threads), IsFiniteSet(Durations),
           NEW h \in Histories, NEW g \in Histories,
           NEW w \in [Durations -> Nat], NEW cur \in Nat, NEW r \in [Sides -> Nat],
           NEW S, Known(h, S), NEW t \in S, t \notin h.whole,
           g.calls = h.calls, g.whole = h.whole, g.recent = h.recent, g.side = h.side,
           g.torn = [h.torn EXCEPT ![h.elapsed[t]] = h.torn[h.elapsed[t]] + 1],
           \A u \in S \ {t} : g.elapsed[u] = h.elapsed[u],
           Account(h, w, cur, r, S)
    PROVE  /\ Account(g, w, cur, r, S \ {t})
           /\ Open(h, w, cur, S) => Open(g, w, cur, S \ {t})
           /\ Taken(h, w, r) => Taken(g, w, r)
<1> DEFINE d == h.elapsed[t]
           rest == S \ {t}
           part == S \intersect h.whole
<1>1. /\ d \in Durations /\ rest \in SUBSET Threads /\ t \in Threads \ rest
      /\ S = rest \union {t} /\ Known(h, rest)
      /\ part \in SUBSET Threads /\ rest \intersect g.whole = part
      /\ \A u \in S : h.elapsed[u] \in Durations
      /\ \A u \in part : g.elapsed[u] = h.elapsed[u]
      /\ h.torn \in [Durations -> Nat]
  BY DEF Known, Histories, Sides
<1>2. w[d] \in Nat
  BY <1>1
<1>3. Load(w, g.elapsed, rest) = Load(w, h.elapsed, rest)
  BY <1>1, LoadSame
<1>4. Load(w, g.elapsed, part) = Load(w, h.elapsed, part)
  BY <1>1, LoadSame
<1>5. Load(w, h.elapsed, rest \union {t}) = Load(w, h.elapsed, rest) + w[d]
  BY <1>1, LoadOne
<1>6. Weighed(w, g.torn) = Weighed(w, h.torn) + w[d]
  BY <1>1, WeighedOne
<1>7. /\ Weighed(w, h.calls.row) \in Nat /\ Weighed(w, h.calls.rest) \in Nat
      /\ Weighed(w, h.recent) \in Nat /\ Weighed(w, h.torn) \in Nat
      /\ Load(w, h.elapsed, rest) \in Nat
      /\ r.row \in Nat /\ r.rest \in Nat
  BY <1>1, AccountType DEF Sides
<1>8. /\ \A k \in Sides : r[k] >= Weighed(w, h.calls[k])
      /\ cur >= Load(w, h.elapsed, part)
      /\ cur + r.row + r.rest = Weighed(w, h.calls.row) + Weighed(w, h.calls.rest)
           + Weighed(w, h.recent) + Weighed(w, h.torn) + (Load(w, h.elapsed, rest) + w[d])
  BY <1>1, <1>5 DEF Account
<1>9. Open(h, w, cur, S) => cur >= Load(w, h.elapsed, part) + Weighed(w, h.recent)
  BY DEF Open
<1>10. rest \intersect g.whole = part
  BY <1>1
<1> HIDE DEF d, rest, part
<1>11. cur + r.row + r.rest = Weighed(w, h.calls.row) + Weighed(w, h.calls.rest)
            + Weighed(w, h.recent) + (Weighed(w, h.torn) + w[d]) + Load(w, h.elapsed, rest)
  BY <1>2, <1>7, <1>8
<1>12. /\ Account(g, w, cur, r, rest)
       /\ Open(h, w, cur, S) => Open(g, w, cur, rest)
  BY <1>3, <1>4, <1>6, <1>8, <1>9, <1>10, <1>11 DEF Account, Open
<1>13. Taken(h, w, r) => Taken(g, w, r)
  BY DEF Taken
<1>14. QED
  BY <1>12, <1>13 DEF rest

\* A snapshot begins.
LEMMA AccountOpens ==
    ASSUME IsFiniteSet(Threads), IsFiniteSet(Durations), NEW h \in Histories, NEW g,
           NEW w \in [Durations -> Nat], NEW cur \in Nat, NEW r, NEW S, Known(h, S),
           g.calls = h.calls, g.recent = h.recent, g.torn = h.torn, g.elapsed = h.elapsed,
           g.whole = {}, Account(h, w, cur, r, S), Open(h, w, cur, S)
    PROVE  Account(g, w, cur, r, S) /\ Open(g, w, cur, S)
<1>1. Load(w, g.elapsed, S \intersect g.whole) = 0
  BY LoadNone
<1>2. Load(w, h.elapsed, S \intersect h.whole) \in Nat /\ Weighed(w, h.recent) \in Nat
  BY AccountType
<1>3. cur >= 0 /\ cur >= 0 + Weighed(w, h.recent)
  BY <1>2 DEF Open
<1>4. QED
  BY <1>1, <1>3 DEF Account, Open

\* The snapshot takes the counter.
LEMMA AccountTakes ==
    ASSUME IsFiniteSet(Threads), IsFiniteSet(Durations), NEW h \in Histories,
           NEW w \in [Durations -> Nat], NEW cur \in Nat, NEW r \in [Sides -> Nat],
           NEW S, Known(h, S), h.whole = {}, Account(h, w, cur, r, S), Open(h, w, cur, S),
           NEW q, q = [r EXCEPT ![h.side] = r[h.side] + cur]
    PROVE  Account(h, w, 0, q, S) /\ Taken(h, w, q)
<1>1. Load(w, h.elapsed, S \intersect h.whole) = 0
  BY LoadNone
<1>2. /\ \A k \in Sides : Weighed(w, h.calls[k]) \in Nat
      /\ Weighed(w, h.recent) \in Nat /\ Weighed(w, h.torn) \in Nat
      /\ Load(w, h.elapsed, S) \in Nat
  BY AccountType
<1>3. /\ r.row \in Nat /\ r.rest \in Nat /\ r[h.side] \in Nat
      /\ h.side = "row" \/ h.side = "rest"
  BY DEF Histories, Sides
<1>4. q[h.side] = r[h.side] + cur /\ \A k \in Sides : k # h.side => q[k] = r[k]
  BY <1>3 DEF Histories
<1>5. 0 + q.row + q.rest = cur + r.row + r.rest
  <2>1. CASE h.side = "row"
    <3>1. q.row = r.row + cur /\ q.rest = r.rest
      BY <1>4, <2>1
    <3>2. QED
      BY <1>3, <3>1
  <2>2. CASE h.side = "rest"
    <3>1. q.rest = r.rest + cur /\ q.row = r.row
      BY <1>4, <2>2
    <3>2. QED
      BY <1>3, <3>1
  <2>3. QED
    BY <1>3, <2>1, <2>2
<1>6. /\ \A k \in Sides : r[k] >= Weighed(w, h.calls[k]) /\ r[k] \in Nat
      /\ cur >= Weighed(w, h.recent)
  BY <1>1, <1>2 DEF Account, Open
<1>7. \A k \in Sides : q[k] >= Weighed(w, h.calls[k])
  <2> TAKE k \in Sides
  <2>1. CASE k = h.side
    <3>1. q[k] = r[k] + cur /\ r[k] >= Weighed(w, h.calls[k])
          /\ r[k] \in Nat /\ Weighed(w, h.calls[k]) \in Nat
      BY <1>2, <1>4, <1>6, <2>1
    <3>2. QED
      BY <3>1
  <2>2. CASE k # h.side
    BY <1>4, <1>6, <2>2
  <2>3. QED
    BY <2>1, <2>2
<1>8. Taken(h, w, q)
  <2> DEFINE in == h.side
  <2>1. /\ in \in Sides /\ q[in] = r[in] + cur /\ r[in] >= Weighed(w, h.calls[in])
        /\ r[in] \in Nat /\ Weighed(w, h.calls[in]) \in Nat
    BY <1>2, <1>4, <1>6 DEF Histories
  <2>2. q[in] >= Weighed(w, h.calls[in]) + Weighed(w, h.recent)
    BY <1>2, <1>6, <2>1
  <2>3. QED
    BY <2>2 DEF Taken
<1>9. cur + r.row + r.rest = Weighed(w, h.calls.row) + Weighed(w, h.calls.rest)
        + Weighed(w, h.recent) + Weighed(w, h.torn) + Load(w, h.elapsed, S)
  BY DEF Account
<1>10. Account(h, w, 0, q, S)
  BY <1>1, <1>5, <1>7, <1>9 DEF Account
<1>11. QED
  BY <1>8, <1>10

\* The snapshot ends, and the calls of the window go to its row.
LEMMA AccountCloses ==
    ASSUME IsFiniteSet(Threads), IsFiniteSet(Durations), NEW h \in Histories, NEW g,
           NEW w \in [Durations -> Nat], NEW cur \in Nat, NEW r \in [Sides -> Nat],
           NEW S, Known(h, S),
           g.calls = [h.calls EXCEPT ![h.side] =
                         [d \in Durations |-> h.calls[h.side][d] + h.recent[d]]],
           g.recent = None, g.torn = h.torn, g.whole = h.whole, g.elapsed = h.elapsed,
           Account(h, w, cur, r, S), Taken(h, w, r)
    PROVE  Account(g, w, cur, r, S) /\ Open(g, w, cur, S)
<1>1. /\ h.side \in Sides /\ h.calls \in [Sides -> [Durations -> Nat]]
      /\ h.calls[h.side] \in [Durations -> Nat] /\ h.recent \in [Durations -> Nat]
      /\ h.side = "row" \/ h.side = "rest"
  BY DEF Histories, Sides
<1>2. /\ g.calls[h.side] = [d \in Durations |-> h.calls[h.side][d] + h.recent[d]]
      /\ \A k \in Sides : k # h.side => g.calls[k] = h.calls[k]
  BY <1>1
<1>3. Weighed(w, g.calls[h.side]) = Weighed(w, h.calls[h.side]) + Weighed(w, h.recent)
  <2> DEFINE c == h.calls[h.side]
             R == h.recent
  <2>1. c \in [Durations -> Nat] /\ R \in [Durations -> Nat]
        /\ g.calls[h.side] = [d \in Durations |-> c[d] + R[d]]
    BY <1>1, <1>2
  <2> HIDE DEF c, R
  <2>2. Weighed(w, [d \in Durations |-> c[d] + R[d]]) = Weighed(w, c) + Weighed(w, R)
    BY <2>1, WeighedPlus
  <2>3. QED
    BY <2>1, <2>2 DEF c, R
<1>4. Weighed(w, g.recent) = 0
  BY WeighedNone
<1>5. /\ \A k \in Sides : Weighed(w, h.calls[k]) \in Nat
      /\ Weighed(w, h.calls.row) \in Nat /\ Weighed(w, h.calls.rest) \in Nat
      /\ Weighed(w, h.recent) \in Nat /\ Weighed(w, h.torn) \in Nat
      /\ Load(w, h.elapsed, S) \in Nat /\ Load(w, h.elapsed, S \intersect h.whole) \in Nat
  BY AccountType
<1>6. \A k \in Sides : r[k] >= Weighed(w, g.calls[k])
  <2> TAKE k \in Sides
  <2>1. CASE k = h.side
    BY <1>3, <2>1 DEF Taken
  <2>2. CASE k # h.side
    BY <1>2, <2>2 DEF Account
  <2>3. QED
    BY <2>1, <2>2
<1>7. Weighed(w, g.calls.row) + Weighed(w, g.calls.rest)
        = Weighed(w, h.calls.row) + Weighed(w, h.calls.rest) + Weighed(w, h.recent)
  <2>1. CASE h.side = "row"
    <3>1. /\ g.calls.rest = h.calls.rest
          /\ Weighed(w, g.calls.row) = Weighed(w, h.calls.row) + Weighed(w, h.recent)
      BY <1>2, <1>3, <2>1 DEF Sides
    <3>2. QED
      BY <1>5, <3>1
  <2>2. CASE h.side = "rest"
    <3>1. /\ g.calls.row = h.calls.row
          /\ Weighed(w, g.calls.rest) = Weighed(w, h.calls.rest) + Weighed(w, h.recent)
      BY <1>2, <1>3, <2>2 DEF Sides
    <3>2. QED
      BY <1>5, <3>1
  <2>3. QED
    BY <1>1, <2>1, <2>2
<1>8. \A k \in Sides : Weighed(w, g.calls[k]) \in Nat
  <2> TAKE k \in Sides
  <2>1. CASE k = h.side
    BY <1>1, <1>3, <1>5, <2>1
  <2>2. CASE k # h.side
    BY <1>2, <1>5, <2>2
  <2>3. QED
    BY <2>1, <2>2
<1>9. cur + r.row + r.rest = Weighed(w, g.calls.row) + Weighed(w, g.calls.rest) + 0
        + Weighed(w, h.torn) + Load(w, h.elapsed, S)
  <2>1. Weighed(w, g.calls.row) \in Nat /\ Weighed(w, g.calls.rest) \in Nat
    BY <1>8 DEF Sides
  <2>2. cur + r.row + r.rest = Weighed(w, h.calls.row) + Weighed(w, h.calls.rest)
          + Weighed(w, h.recent) + Weighed(w, h.torn) + Load(w, h.elapsed, S)
    BY DEF Account
  <2>3. QED
    BY <1>5, <1>7, <2>1, <2>2
<1>10. cur >= Load(w, h.elapsed, S \intersect h.whole)
       /\ cur >= Load(w, h.elapsed, S \intersect h.whole) + 0
  BY <1>5 DEF Account
<1>11. QED
  BY <1>4, <1>6, <1>9, <1>10 DEF Account, Open

(***************************************************************************)
(* The types of the row.                                                   *)
(***************************************************************************)
LEMMA RowFacts ==
    ASSUME RowInv
    PROVE  /\ TypeOK /\ history \in Histories
           /\ Known(history, Counting) /\ Known(history, Timing) /\ Known(history, {})
           /\ \A t \in Busy : Known(history, {t})
           /\ Ones \in [Durations -> Nat] /\ Lengths \in [Durations -> Nat]
           /\ \A b \in Bins : OfBin(b) \in [Durations -> Nat]
           /\ Counts \in [Sides -> Nat] /\ AllTicks \in [Sides -> Nat]
           /\ \A b \in Bins : AllBins(b) \in [Sides -> Nat]
           /\ count \in Nat /\ ticks \in Nat /\ \A b \in Bins : histogram[b] \in Nat
<1>1. TypeOK /\ RowType
  BY DEF RowInv, IInv
<1>2. history \in Histories
  BY <1>1 DEF RowType, TypeOK, history, Histories, Busy
<1>3. /\ Known(history, Counting) /\ Known(history, Timing) /\ Known(history, {})
      /\ \A t \in Busy : Known(history, {t})
  BY <1>1 DEF RowType, Known, history, Counting, Timing, Busy
<1>4. /\ Ones \in [Durations -> Nat] /\ Lengths \in [Durations -> Nat]
      /\ \A b \in Bins : OfBin(b) \in [Durations -> Nat]
  BY DurationAssumption DEF Ones, Lengths, OfBin
<1>5. /\ Counts \in [Sides -> Nat] /\ AllTicks \in [Sides -> Nat]
      /\ \A b \in Bins : AllBins(b) \in [Sides -> Nat]
  BY <1>1 DEF RowType, Counts, AllTicks, AllBins
<1>6. count \in Nat /\ ticks \in Nat /\ \A b \in Bins : histogram[b] \in Nat
  BY <1>1 DEF TypeOK
<1>7. QED
  BY <1>1, <1>2, <1>3, <1>4, <1>5, <1>6

LEMMA RowTypeStop ==
    ASSUME RowInv, NEW t \in Threads,
           (\E d \in Durations : RowStop(t, d)) \/ RowStopping(t) \/ RowStopBin(t)
    PROVE  RowType'
<1>1. TypeOK /\ RowType
  BY DEF RowInv, IInv
<1>2. CASE \E d \in Durations : RowStop(t, d)
  <2>1. PICK d \in Durations : RowStop(t, d)
    BY <1>2
  <2>2. /\ UNCHANGED <<rows, calls, side, recent, torn, snap, next>>
        /\ pc' = [pc EXCEPT ![t] = "count"] /\ elapsed' = [elapsed EXCEPT ![t] = d]
        /\ whole' = IF snap = "idle" THEN whole \union {t} ELSE whole
    BY <2>1 DEF RowStop, Stop, Goto, snapVars
  <2>3. Busy' = Busy \union {t} /\ \A u \in Busy' : elapsed'[u] \in Durations
    BY <1>1, <2>2 DEF Busy, RowType, TypeOK
  <2>4. QED
    BY <1>1, <2>2, <2>3 DEF RowType
<1>3. CASE RowStopping(t)
  <2>1. /\ UNCHANGED <<rows, calls, side, recent, torn, snap, next, whole, elapsed>>
        /\ pc[t] # "idle" /\ pc'[t] # "idle" /\ \A u \in Threads : u # t => pc'[u] = pc[u]
    BY <1>1, <1>3 DEF RowStopping, StopCount, StopTicks, ReadMaximum, Raise, See, Goto, TypeOK,
                      snapVars, rowVars, historyVars
  <2>2. Busy' = Busy
    BY <2>1 DEF Busy
  <2>3. QED
    BY <1>1, <2>1, <2>2 DEF RowType
<1>4. CASE RowStopBin(t)
  <2>1. /\ UNCHANGED <<rows, calls, side, snap, next>> /\ whole' = whole \ {t}
        /\ pc[t] = "bin" /\ pc' = [pc EXCEPT ![t] = "idle"]
        /\ elapsed' = [elapsed EXCEPT ![t] = 0]
    BY <1>4 DEF RowStopBin, StopBin, Goto, snapVars
  <2>2. Busy' = Busy \ {t} /\ \A u \in Busy' : elapsed'[u] = elapsed[u]
    BY <1>1, <2>1 DEF Busy, TypeOK
  <2>3. elapsed[t] \in Durations
    BY <1>1, <2>1 DEF RowType, Busy
  <2>4. recent' \in [Durations -> Nat] /\ torn' \in [Durations -> Nat]
    <3>1. recent[elapsed[t]] + 1 \in Nat /\ torn[elapsed[t]] + 1 \in Nat
      BY <1>1, <2>3, SMTT(20) DEF RowType
    <3>2. /\ recent' = recent \/ recent' = [recent EXCEPT ![elapsed[t]] = recent[elapsed[t]] + 1]
          /\ torn' = torn \/ torn' = [torn EXCEPT ![elapsed[t]] = torn[elapsed[t]] + 1]
      BY <1>4 DEF RowStopBin
    <3>3. QED
      BY <1>1, <3>1, <3>2 DEF RowType
  <2>5. QED
    BY <1>1, <2>1, <2>2, <2>4 DEF RowType
<1>5. QED
  BY <1>2, <1>3, <1>4

\* One field of one row grows.
LEMMA RowGrows ==
    ASSUME RowInv
    PROVE  /\ rows[side].count + count \in Nat /\ rows[side].ticks + ticks \in Nat
           /\ \A b \in Bins : rows[side].bins[b] + histogram[b] \in Nat
           /\ rows[side] \in [count : Nat, ticks : Nat, maximum : Nat, bins : [Bins -> Nat]]
           /\ maximum \in Nat /\ next \in Bins
<1>1. TypeOK /\ RowType
  BY DEF RowInv, IInv
<1>2. /\ rows[side] \in [count : Nat, ticks : Nat, maximum : Nat, bins : [Bins -> Nat]]
      /\ count \in Nat /\ ticks \in Nat /\ maximum \in Nat /\ next \in Bins
      /\ histogram \in [Bins -> Nat]
  BY <1>1 DEF RowType, TypeOK
<1>3. /\ rows[side].count \in Nat /\ rows[side].ticks \in Nat
      /\ \A b \in Bins : rows[side].bins[b] \in Nat /\ histogram[b] \in Nat
  BY <1>2
<1>4. /\ rows[side].count + count \in Nat /\ rows[side].ticks + ticks \in Nat
  BY <1>2, <1>3
<1>5. ASSUME NEW b \in Bins
      PROVE  rows[side].bins[b] + histogram[b] \in Nat
  <2>1. rows[side].bins[b] \in Nat /\ histogram[b] \in Nat
    BY <1>3
  <2>2. QED
    BY <2>1
<1>6. QED
  BY <1>2, <1>4, <1>5

LEMMA RowTypeSnap ==
    ASSUME RowInv, (\E c \in Scenes, within \in BOOLEAN : RowSnapshot(c, within)) \/ RowSnapping
    PROVE  RowType'
<1>1. TypeOK /\ RowType
  BY DEF RowInv, IInv
<1> DEFINE R == [count : Nat, ticks : Nat, maximum : Nat, bins : [Bins -> Nat]]
<1>2. /\ rows \in [Sides -> R] /\ side \in Sides
      /\ rows[side].count + count \in Nat /\ rows[side].ticks + ticks \in Nat
      /\ rows[side].bins[next] + histogram[next] \in Nat
      /\ rows[side] \in R /\ maximum \in Nat /\ next \in Bins
  BY <1>1, RowGrows DEF RowType
<1>3. CASE \E c \in Scenes, within \in BOOLEAN : RowSnapshot(c, within)
  <2>1. /\ UNCHANGED <<rows, calls, recent, torn, pc, elapsed, next>>
        /\ whole' = {} /\ side' \in Sides /\ snap = "idle" /\ snap' = "bins"
    BY <1>3 DEF RowSnapshot, Snapshot, stopVars, Sides
  <2>2. QED
    BY <1>1, <2>1 DEF RowType, Busy
<1>4. CASE RowBin \/ RowCount \/ RowTicks
  <2>1. /\ UNCHANGED <<calls, recent, torn, whole, side, pc, elapsed>> /\ snap # "idle"
    BY <1>4 DEF RowBin, RowCount, RowTicks, SnapBin, SnapCount, SnapTicks, stopVars, historyVars
  <2>2. snap' # "bins" => next' = 0
    BY <1>1, <1>4 DEF RowBin, RowCount, RowTicks, SnapBin, SnapCount, SnapTicks, RowType
  <2>3. rows' \in [Sides -> R]
    <3>1. CASE RowBin
      <4> DEFINE new == [rows[side].bins EXCEPT ![next] = rows[side].bins[next] + histogram[next]]
      <4>1. rows' = [rows EXCEPT ![side] = [rows[side] EXCEPT !.bins = new]]
        BY <3>1 DEF RowBin
      <4>2. new \in [Bins -> Nat]
        BY <1>2
      <4> HIDE DEF new
      <4>3. QED
        BY <1>2, <4>1, <4>2
    <3>2. CASE RowCount
      BY <1>2, <3>2 DEF RowCount
    <3>3. CASE RowTicks
      BY <1>2, <3>3 DEF RowTicks
    <3>4. QED
      BY <1>4, <3>1, <3>2, <3>3
  <2>4. QED
    BY <1>1, <2>1, <2>2, <2>3 DEF RowType, Busy
<1>5. CASE RowMaximum
  <2>1. /\ UNCHANGED <<torn, whole, pc, elapsed, next>> /\ side' = "rest"
        /\ snap = "maximum" /\ snap' = "idle" /\ recent' = None
        /\ calls' = [calls EXCEPT ![side] = [d \in Durations |-> calls[side][d] + recent[d]]]
    BY <1>5 DEF RowMaximum, SnapMaximum, stopVars
  <2>2. rows' \in [Sides -> R]
    BY <1>2, <1>5 DEF RowMaximum
  <2>3. calls' \in [Sides -> [Durations -> Nat]]
    <3>1. [d \in Durations |-> calls[side][d] + recent[d]] \in [Durations -> Nat]
      BY <1>1 DEF RowType
    <3>2. QED
      BY <1>1, <2>1, <3>1 DEF RowType
  <2>4. recent' \in [Durations -> Nat] /\ side' \in Sides
    BY <2>1 DEF None, Sides
  <2>5. QED
    BY <1>1, <2>1, <2>2, <2>3, <2>4 DEF RowType, Busy
<1>6. QED
  BY <1>3, <1>4, <1>5 DEF RowSnapping

(***************************************************************************)
(* The accounts of the count, the ticks and each bin.                      *)
(***************************************************************************)
Accounts == CountAccount /\ TicksAccount /\ \A b \in Bins : BinAccount(b)

LEMMA AccountsStop ==
    ASSUME RowInv, NEW t \in Threads, NEW d \in Durations, RowStop(t, d)
    PROVE  Accounts'
<1>1. TypeOK /\ RowType
  BY DEF RowInv, IInv
<1>2. /\ UNCHANGED <<rows, calls, side, recent, torn, snap, next, count, ticks, histogram>>
      /\ pc[t] = "idle" /\ pc' = [pc EXCEPT ![t] = "count"]
      /\ elapsed' = [elapsed EXCEPT ![t] = d] /\ whole' \in {whole, whole \union {t}}
  BY DEF RowStop, Stop, Goto, snapVars, counterVars
<1>3. /\ Counting' = Counting /\ Timing' = Timing /\ t \notin Counting /\ t \notin Timing
      /\ \A u \in Threads : u # t => elapsed'[u] = elapsed[u]
  BY <1>1, <1>2 DEF Counting, Timing, TypeOK
<1>4. /\ Counts' = Counts /\ AllTicks' = AllTicks /\ \A b \in Bins : AllBins(b)' = AllBins(b)
  BY <1>2 DEF Counts, AllTicks, AllBins
<1>5. /\ history'.calls = history.calls /\ history'.recent = history.recent
      /\ history'.torn = history.torn /\ history'.side = history.side
  BY <1>2 DEF history
<1>6. ASSUME NEW w, NEW cur, NEW r, NEW S \in SUBSET Threads, t \notin S,
             Account(history, w, cur, r, S)
      PROVE  /\ Account(history', w, cur, r, S)
             /\ Open(history, w, cur, S) => Open(history', w, cur, S)
             /\ Taken(history, w, r) => Taken(history', w, r)
  <2>1. /\ S \intersect history'.whole = S \intersect history.whole
        /\ \A u \in S : history'.elapsed[u] = history.elapsed[u]
    BY <1>2, <1>3, <1>6 DEF history
  <2>2. QED
    BY <1>5, <1>6, <2>1, AccountStays
<1>7. Counting \in SUBSET Threads /\ Timing \in SUBSET Threads /\ {} \in SUBSET Threads
  BY DEF Counting, Timing
<1>8. CountAccount'
  BY <1>2, <1>3, <1>4, <1>6, <1>7 DEF RowInv, CountAccount, Ones
<1>9. TicksAccount'
  BY <1>2, <1>3, <1>4, <1>6, <1>7 DEF RowInv, TicksAccount, Lengths
<1>10. \A b \in Bins : BinAccount(b)'
  BY <1>2, <1>3, <1>4, <1>6, <1>7 DEF RowInv, BinAccount, OfBin
<1>11. QED
  BY <1>8, <1>9, <1>10 DEF Accounts

LEMMA AccountsStopping ==
    ASSUME IsFiniteSet(Threads), IsFiniteSet(Durations), RowInv,
           NEW t \in Threads, RowStopping(t)
    PROVE  Accounts'
<1>1. TypeOK /\ RowType
  BY DEF RowInv, IInv
<1>2. /\ UNCHANGED <<rows, calls, side, recent, torn, whole, elapsed, snap, next, histogram>>
      /\ \A u \in Threads : u # t => pc'[u] = pc[u]
  BY <1>1 DEF RowStopping, StopCount, StopTicks, ReadMaximum, Raise, See, Goto, TypeOK,
              snapVars, counterVars, rowVars, historyVars
<1>3. /\ history' = history /\ Counts' = Counts /\ AllTicks' = AllTicks
      /\ \A b \in Bins : AllBins(b)' = AllBins(b)
  BY <1>2 DEF history, Counts, AllTicks, AllBins
<1>4. \A b \in Bins : BinAccount(b)'
  BY <1>2, <1>3 DEF RowInv, BinAccount, OfBin
<1>5. t \in Busy => history.elapsed[t] \in Durations /\ history.elapsed[t] = elapsed[t]
  BY <1>1 DEF RowType, history
<1>6. CASE StopCount(t)
  <2>1. /\ pc[t] = "count" /\ pc'[t] = "ticks" /\ count' = count + 1 /\ UNCHANGED ticks
    BY <1>1, <1>6 DEF StopCount, Goto, TypeOK
  <2>2. /\ t \in Busy /\ t \notin Counting /\ Counting' = Counting \union {t}
        /\ Timing' = Timing
    BY <1>2, <2>1 DEF Counting, Timing, Busy
  <2>3. Known(history, Counting \union {t})
    BY <2>2, RowFacts DEF Known
  <2>4. Ones[history.elapsed[t]] = 1
    BY <1>5, <2>2 DEF Ones
  <2>5. Account(history, Ones, count, Counts, Counting)
    BY DEF RowInv, CountAccount
  <2>6. /\ Account(history, Ones, count + 1, Counts, Counting \union {t})
        /\ Open(history, Ones, count, Counting) => Open(history, Ones, count + 1, Counting \union {t})
    BY <2>2, <2>3, <2>4, <2>5, AccountAdds, RowFacts
  <2>7. CountAccount'
    BY <1>2, <1>3, <2>1, <2>2, <2>6 DEF RowInv, CountAccount, Ones
  <2>8. TicksAccount'
    BY <1>2, <1>3, <2>1, <2>2 DEF RowInv, TicksAccount, Lengths
  <2>9. QED
    BY <1>4, <2>7, <2>8 DEF Accounts
<1>7. CASE StopTicks(t)
  <2>1. /\ pc[t] = "ticks" /\ pc'[t] = "read" /\ ticks' = ticks + elapsed[t] /\ UNCHANGED count
    BY <1>1, <1>7 DEF StopTicks, Goto, TypeOK
  <2>2. /\ t \in Busy /\ t \notin Timing /\ Timing' = Timing \union {t}
        /\ Counting' = Counting
    BY <1>2, <2>1 DEF Counting, Timing, Busy
  <2>3. Known(history, Timing \union {t})
    BY <2>2, RowFacts DEF Known
  <2>4. Lengths[history.elapsed[t]] = elapsed[t]
    BY <1>5, <2>2 DEF Lengths
  <2>5. Account(history, Lengths, ticks, AllTicks, Timing)
    BY DEF RowInv, TicksAccount
  <2>6. /\ Account(history, Lengths, ticks + elapsed[t], AllTicks, Timing \union {t})
        /\ Open(history, Lengths, ticks, Timing)
             => Open(history, Lengths, ticks + elapsed[t], Timing \union {t})
    BY <2>2, <2>3, <2>4, <2>5, AccountAdds, RowFacts
  <2>7. TicksAccount'
    BY <1>2, <1>3, <2>1, <2>2, <2>6 DEF RowInv, TicksAccount, Lengths
  <2>8. CountAccount'
    BY <1>2, <1>3, <2>1, <2>2 DEF RowInv, CountAccount, Ones
  <2>9. QED
    BY <1>4, <2>7, <2>8 DEF Accounts
<1>8. CASE ReadMaximum(t) \/ Raise(t)
  <2>1. pc[t] \in {"read", "raise"} /\ pc'[t] \in {"raise", "bin"} /\ UNCHANGED <<count, ticks>>
    BY <1>1, <1>8 DEF ReadMaximum, Raise, See, Goto, TypeOK, counterVars
  <2>2. Counting' = Counting /\ Timing' = Timing
    BY <1>2, <2>1 DEF Counting, Timing
  <2>3. CountAccount'
    BY <1>2, <1>3, <2>1, <2>2 DEF RowInv, CountAccount, Ones
  <2>4. TicksAccount'
    BY <1>2, <1>3, <2>1, <2>2 DEF RowInv, TicksAccount, Lengths
  <2>5. QED
    BY <1>4, <2>3, <2>4 DEF Accounts
<1>9. QED
  BY <1>6, <1>7, <1>8 DEF RowStopping

LEMMA AccountsReturn ==
    ASSUME IsFiniteSet(Threads), IsFiniteSet(Durations), RowInv,
           TypeOK', RowType', NEW t \in Threads, RowStopBin(t)
    PROVE  Accounts'
<1>1. TypeOK /\ RowType
  BY DEF RowInv, IInv
<1>2. /\ UNCHANGED <<rows, calls, side, snap, next, count, ticks>> /\ whole' = whole \ {t}
      /\ pc[t] = "bin" /\ pc' = [pc EXCEPT ![t] = "idle"]
      /\ elapsed' = [elapsed EXCEPT ![t] = 0]
      /\ histogram' = [histogram EXCEPT ![Bin(elapsed[t])] = histogram[Bin(elapsed[t])] + 1]
  BY DEF RowStopBin, StopBin, Goto, snapVars
<1>3. /\ Counts' = Counts /\ AllTicks' = AllTicks /\ \A b \in Bins : AllBins(b)' = AllBins(b)
      /\ Counting' = Counting \ {t} /\ Timing' = Timing \ {t}
      /\ t \in Counting /\ t \in Timing /\ t \in Busy
  BY <1>1, <1>2 DEF Counts, AllTicks, AllBins, Counting, Timing, Busy, TypeOK
<1>4. history \in Histories /\ history' \in Histories
  BY <1>1 DEF RowType, TypeOK, history, Histories, Busy
<1>5. /\ history'.calls = history.calls /\ history'.side = history.side
      /\ history'.whole = history.whole \ {t} /\ history.whole = whole
      /\ \A u \in Threads \ {t} : history'.elapsed[u] = history.elapsed[u]
  BY <1>1, <1>2 DEF history, TypeOK
<1>6. t \in whole => snap = "idle"
  BY <1>1 DEF RowType
<1>7. ASSUME NEW w \in [Durations -> Nat], NEW cur \in Nat, NEW r \in [Sides -> Nat],
             NEW S, Known(history, S), t \in S, Account(history, w, cur, r, S),
             snap = "idle" => Open(history, w, cur, S)
      PROVE  /\ Account(history', w, cur, r, S \ {t})
             /\ Open(history, w, cur, S) => Open(history', w, cur, S \ {t})
             /\ snap # "idle" /\ Taken(history, w, r) => Taken(history', w, r)
  <2>1. \A u \in S \ {t} : history'.elapsed[u] = history.elapsed[u]
    BY <1>5, <1>7 DEF Known
  <2>2. CASE t \in whole
    <3>1. /\ history'.torn = history.torn
          /\ history'.recent = [history.recent EXCEPT ![history.elapsed[t]] =
                                   history.recent[history.elapsed[t]] + 1]
      BY <2>2 DEF RowStopBin, history
    <3>2. Open(history, w, cur, S) /\ snap = "idle"
      BY <1>6, <1>7, <2>2
    <3>3. Account(history', w, cur, r, S \ {t}) /\ Open(history', w, cur, S \ {t})
      BY <1>4, <1>5, <1>7, <2>1, <2>2, <3>1, <3>2, AccountKeeps
    <3>4. QED
      BY <3>2, <3>3
  <2>3. CASE t \notin whole
    <3>1. /\ history'.recent = history.recent /\ history'.whole = history.whole
          /\ history'.torn = [history.torn EXCEPT ![history.elapsed[t]] =
                                 history.torn[history.elapsed[t]] + 1]
      BY <1>5, <2>3 DEF RowStopBin, history
    <3>2. QED
      BY <1>4, <1>5, <1>7, <2>1, <2>3, <3>1, AccountTears
  <2>4. QED
    BY <2>2, <2>3
<1>8. CountAccount'
  <2>1. /\ Account(history, Ones, count, Counts, Counting)
        /\ snap = "idle" => Open(history, Ones, count, Counting)
    BY DEF RowInv, CountAccount
  <2>2. /\ Account(history', Ones, count, Counts, Counting \ {t})
        /\ Open(history, Ones, count, Counting) => Open(history', Ones, count, Counting \ {t})
        /\ snap # "idle" /\ Taken(history, Ones, Counts) => Taken(history', Ones, Counts)
    BY <1>3, <1>7, <2>1, RowFacts
  <2>3. QED
    BY <1>2, <1>3, <2>2 DEF RowInv, CountAccount, Ones
<1>9. TicksAccount'
  <2>1. /\ Account(history, Lengths, ticks, AllTicks, Timing)
        /\ snap = "idle" => Open(history, Lengths, ticks, Timing)
    BY DEF RowInv, TicksAccount
  <2>2. /\ Account(history', Lengths, ticks, AllTicks, Timing \ {t})
        /\ Open(history, Lengths, ticks, Timing) => Open(history', Lengths, ticks, Timing \ {t})
        /\ snap # "idle" /\ Taken(history, Lengths, AllTicks) => Taken(history', Lengths, AllTicks)
    BY <1>3, <1>7, <2>1, RowFacts
  <2>3. QED
    BY <1>2, <1>3, <2>2 DEF RowInv, TicksAccount, Lengths
<1>10. ASSUME NEW b \in Bins
       PROVE  BinAccount(b)'
  <2> DEFINE w == OfBin(b)
             cur == histogram[b] + OfBin(b)[history.elapsed[t]]
  <2>1. /\ Account(history, w, histogram[b], AllBins(b), {})
        /\ snap = "idle" => Open(history, w, histogram[b], {})
    BY DEF RowInv, BinAccount
  <2>2. /\ w \in [Durations -> Nat] /\ histogram[b] \in Nat /\ AllBins(b) \in [Sides -> Nat]
        /\ t \in Threads \ {} /\ Known(history, {t}) /\ {} \union {t} = {t} /\ {t} \ {t} = {}
    BY <1>3, RowFacts
  <2>3. histogram'[b] = cur
    <3>1. elapsed[t] \in Durations /\ elapsed[t] \in Nat /\ histogram \in [Bins -> Nat]
          /\ history.elapsed[t] = elapsed[t] /\ Bin(elapsed[t]) \in Bins
      BY <1>1, <1>3, BinType DEF RowType, TypeOK, history
    <3>2. OfBin(b)[elapsed[t]] = IF Bin(elapsed[t]) = b THEN 1 ELSE 0
      BY <3>1 DEF OfBin
    <3>3. histogram'[b] = IF Bin(elapsed[t]) = b THEN histogram[b] + 1 ELSE histogram[b]
      BY <1>2, <3>1
    <3>4. histogram[b] \in Nat
      BY <3>1
    <3>5. QED
      BY <3>1, <3>2, <3>3, <3>4
  <2> HIDE DEF w
  <2>4. /\ w[history.elapsed[t]] \in Nat
        /\ Account(history, w, histogram[b] + w[history.elapsed[t]], AllBins(b), {} \union {t})
        /\ Open(history, w, histogram[b], {})
             => Open(history, w, histogram[b] + w[history.elapsed[t]], {} \union {t})
    BY <1>4, <2>1, <2>2, AccountAdds
  <2>5. /\ cur \in Nat /\ Account(history, w, cur, AllBins(b), {t})
        /\ Open(history, w, histogram[b], {}) => Open(history, w, cur, {t})
    BY <2>2, <2>4 DEF w
  <2> HIDE DEF cur
  <2>6. /\ Account(history', w, cur, AllBins(b), {t} \ {t})
        /\ Open(history, w, cur, {t}) => Open(history', w, cur, {t} \ {t})
        /\ snap # "idle" /\ Taken(history, w, AllBins(b)) => Taken(history', w, AllBins(b))
    BY <1>7, <2>1, <2>2, <2>5
  <2>7. /\ Account(history', w, histogram'[b], AllBins(b)', {})
        /\ Open(history, w, histogram[b], {}) => Open(history', w, histogram'[b], {})
        /\ snap # "idle" /\ Taken(history, w, AllBins(b)) => Taken(history', w, AllBins(b)')
    BY <1>3, <2>2, <2>3, <2>5, <2>6
  <2>8. QED
    BY <1>2, <2>7 DEF RowInv, BinAccount, OfBin, w
<1>11. QED
  BY <1>8, <1>9, <1>10 DEF Accounts

LEMMA AccountsOpen ==
    ASSUME IsFiniteSet(Threads), IsFiniteSet(Durations), RowInv,
           NEW c \in Scenes, NEW within \in BOOLEAN, RowSnapshot(c, within)
    PROVE  Accounts'
<1>1. TypeOK /\ RowType
  BY DEF RowInv, IInv
<1>2. /\ UNCHANGED <<rows, calls, recent, torn, pc, elapsed, next, count, ticks, histogram>>
      /\ whole' = {} /\ snap = "idle" /\ snap' = "bins" /\ next = 0
  BY <1>1 DEF RowSnapshot, Snapshot, stopVars, counterVars, RowType
<1>3. /\ Counts' = Counts /\ AllTicks' = AllTicks /\ \A b \in Bins : AllBins(b)' = AllBins(b)
      /\ Counting' = Counting /\ Timing' = Timing
  BY <1>2 DEF Counts, AllTicks, AllBins, Counting, Timing
<1>4. /\ history'.calls = history.calls /\ history'.recent = history.recent
      /\ history'.torn = history.torn /\ history'.elapsed = history.elapsed
      /\ history'.whole = {}
  BY <1>2 DEF history
<1>5. /\ Account(history, Ones, count, Counts, Counting) /\ Open(history, Ones, count, Counting)
      /\ Account(history, Lengths, ticks, AllTicks, Timing) /\ Open(history, Lengths, ticks, Timing)
      /\ \A b \in Bins : /\ Account(history, OfBin(b), histogram[b], AllBins(b), {})
                         /\ Open(history, OfBin(b), histogram[b], {})
  BY <1>2 DEF RowInv, CountAccount, TicksAccount, BinAccount
<1>6. Account(history', Ones, count, Counts, Counting) /\ Open(history', Ones, count, Counting)
  BY <1>4, <1>5, RowFacts, AccountOpens
<1>7. CountAccount'
  BY <1>2, <1>3, <1>6 DEF CountAccount, Ones
<1>8. /\ Account(history', Lengths, ticks, AllTicks, Timing)
      /\ Open(history', Lengths, ticks, Timing)
  BY <1>4, <1>5, RowFacts, AccountOpens
<1>9. TicksAccount'
  BY <1>2, <1>3, <1>8 DEF TicksAccount, Lengths
<1>10. ASSUME NEW b \in Bins
       PROVE  BinAccount(b)'
  <2>1. /\ Account(history', OfBin(b), histogram[b], AllBins(b), {})
        /\ Open(history', OfBin(b), histogram[b], {})
    BY <1>4, <1>5, RowFacts, AccountOpens
  <2>2. ~(b < next') /\ histogram'[b] = histogram[b]
    BY <1>2
  <2>3. QED
    BY <1>2, <1>3, <2>1, <2>2 DEF BinAccount, OfBin
<1>11. QED
  BY <1>7, <1>9, <1>10 DEF Accounts

\* What the snapshot's steps over the counters have in common.
LEMMA TakingFacts ==
    ASSUME RowInv, RowBin \/ RowCount \/ RowTicks
    PROVE  /\ history' = history /\ history.whole = {} /\ history.side = side
           /\ Counting' = Counting /\ Timing' = Timing
<1>1. /\ UNCHANGED <<calls, recent, torn, whole, side, pc, elapsed>> /\ snap # "idle"
  BY DEF RowBin, RowCount, RowTicks, SnapBin, SnapCount, SnapTicks, stopVars, historyVars
<1>2. whole = {}
  BY <1>1 DEF RowInv, RowType
<1>3. QED
  BY <1>1, <1>2 DEF history, Counting, Timing

LEMMA AccountsTake ==
    ASSUME IsFiniteSet(Threads), IsFiniteSet(Durations), RowInv, RowBin \/ RowCount \/ RowTicks
    PROVE  Accounts'
<1>1. TypeOK /\ RowType
  BY DEF RowInv, IInv
<1> DEFINE R == [count : Nat, ticks : Nat, maximum : Nat, bins : [Bins -> Nat]]
<1>2. /\ history' = history /\ history.whole = {} /\ history.side = side
      /\ Counting' = Counting /\ Timing' = Timing
      /\ rows \in [Sides -> R] /\ side \in Sides /\ rows[side] \in R
  BY <1>1, TakingFacts DEF RowType
<1>3. CASE RowCount
  <2>1. /\ rows' = [rows EXCEPT ![side].count = @ + count] /\ count' = 0
        /\ snap = "count" /\ snap' = "ticks" /\ UNCHANGED <<ticks, histogram, next>>
    BY <1>3 DEF RowCount, SnapCount
  <2>2. Counts' = [Counts EXCEPT ![history.side] = Counts[history.side] + count]
    BY <1>2, <2>1 DEF Counts
  <2>3. AllTicks' = AllTicks /\ \A b \in Bins : AllBins(b)' = AllBins(b)
    BY <1>2, <2>1 DEF AllTicks, AllBins
  <2>4. /\ Account(history, Ones, count, Counts, Counting)
        /\ Open(history, Ones, count, Counting)
    BY <2>1 DEF RowInv, CountAccount
  <2>5. Account(history, Ones, 0, Counts', Counting) /\ Taken(history, Ones, Counts')
    BY <1>2, <2>2, <2>4, RowFacts, AccountTakes
  <2>6. CountAccount'
    BY <1>2, <2>1, <2>5 DEF CountAccount, Ones
  <2>7. TicksAccount'
    BY <1>2, <2>1, <2>3 DEF RowInv, TicksAccount, Lengths
  <2>8. \A b \in Bins : BinAccount(b)'
    BY <1>2, <2>1, <2>3 DEF RowInv, BinAccount, OfBin
  <2>9. QED
    BY <2>6, <2>7, <2>8 DEF Accounts
<1>4. CASE RowTicks
  <2>1. /\ rows' = [rows EXCEPT ![side].ticks = @ + ticks] /\ ticks' = 0
        /\ snap = "ticks" /\ snap' = "maximum" /\ UNCHANGED <<count, histogram, next>>
    BY <1>4 DEF RowTicks, SnapTicks
  <2>2. AllTicks' = [AllTicks EXCEPT ![history.side] = AllTicks[history.side] + ticks]
    BY <1>2, <2>1 DEF AllTicks
  <2>3. Counts' = Counts /\ \A b \in Bins : AllBins(b)' = AllBins(b)
    BY <1>2, <2>1 DEF Counts, AllBins
  <2>4. /\ Account(history, Lengths, ticks, AllTicks, Timing)
        /\ Open(history, Lengths, ticks, Timing)
    BY <2>1 DEF RowInv, TicksAccount
  <2>5. Account(history, Lengths, 0, AllTicks', Timing) /\ Taken(history, Lengths, AllTicks')
    BY <1>2, <2>2, <2>4, RowFacts, AccountTakes
  <2>6. TicksAccount'
    BY <1>2, <2>1, <2>5 DEF TicksAccount, Lengths
  <2>7. CountAccount'
    BY <1>2, <2>1, <2>3 DEF RowInv, CountAccount, Ones
  <2>8. \A b \in Bins : BinAccount(b)'
    BY <1>2, <2>1, <2>3 DEF RowInv, BinAccount, OfBin
  <2>9. QED
    BY <2>6, <2>7, <2>8 DEF Accounts
<1>5. CASE RowBin
  <2> DEFINE new == [rows[side].bins EXCEPT ![next] = rows[side].bins[next] + histogram[next]]
  <2>1. /\ rows' = [rows EXCEPT ![side] = [rows[side] EXCEPT !.bins = new]]
        /\ histogram' = [histogram EXCEPT ![next] = 0] /\ snap = "bins"
        /\ \/ next < Last /\ next' = next + 1 /\ snap' = "bins"
           \/ next = Last /\ next' = 0 /\ snap' = "count"
        /\ UNCHANGED <<count, ticks>>
    BY <1>5 DEF RowBin, SnapBin
  <2>2. /\ histogram \in [Bins -> Nat] /\ next \in Bins /\ next \in Nat /\ Last \in Nat
        /\ new \in [Bins -> Nat] /\ new[next] = rows[side].bins[next] + histogram[next]
        /\ \A b \in Bins : b # next => new[b] = rows[side].bins[b]
    <3>1. histogram \in [Bins -> Nat] /\ next \in Bins /\ rows[side].bins \in [Bins -> Nat]
      BY <1>1, <1>2 DEF TypeOK
    <3>2. rows[side].bins[next] + histogram[next] \in Nat
      BY <3>1, RowGrows
    <3>3. QED
      BY <3>1, <3>2
  <2> HIDE DEF new
  <2>3. Counts' = Counts /\ AllTicks' = AllTicks
    BY <1>2, <2>1 DEF Counts, AllTicks
  <2>4. \A k \in Sides : rows'[k].bins = IF k = side THEN new ELSE rows[k].bins
    BY <1>2, <2>1
  <2>5. CountAccount'
    BY <1>2, <2>1, <2>3 DEF RowInv, CountAccount, Ones
  <2>6. TicksAccount'
    BY <1>2, <2>1, <2>3 DEF RowInv, TicksAccount, Lengths
  <2>7. ASSUME NEW b \in Bins, b # next
        PROVE  BinAccount(b)'
    <3>1. AllBins(b)' = AllBins(b) /\ histogram'[b] = histogram[b]
      BY <2>1, <2>2, <2>4, <2>7 DEF AllBins
    <3>2. b < next <=> snap' = "count" \/ (snap' = "bins" /\ b < next')
      BY <2>1, <2>2, <2>7
    <3>3. QED
      BY <1>2, <2>1, <3>1, <3>2 DEF RowInv, BinAccount, OfBin
  <2>8. ASSUME NEW b \in Bins, b = next
        PROVE  BinAccount(b)'
    <3>1. /\ AllBins(b)' = [AllBins(b) EXCEPT ![history.side] =
                               AllBins(b)[history.side] + histogram[b]]
          /\ histogram'[b] = 0
      BY <1>2, <2>1, <2>2, <2>4, <2>8 DEF AllBins
    <3>2. /\ Account(history, OfBin(b), histogram[b], AllBins(b), {})
          /\ Open(history, OfBin(b), histogram[b], {})
      <4>1. BinAccount(b) /\ ~(b < next)
        BY <2>2, <2>8 DEF RowInv
      <4>2. QED
        BY <2>1, <4>1 DEF BinAccount
    <3>3. Account(history, OfBin(b), 0, AllBins(b)', {}) /\ Taken(history, OfBin(b), AllBins(b)')
      BY <1>2, <3>1, <3>2, RowFacts, AccountTakes
    <3>4. snap' = "count" \/ (snap' = "bins" /\ b < next')
      BY <2>1, <2>2, <2>8
    <3>5. QED
      BY <1>2, <3>1, <3>3, <3>4 DEF BinAccount, OfBin
  <2>9. QED
    BY <2>5, <2>6, <2>7, <2>8 DEF Accounts
<1>6. QED
  BY <1>3, <1>4, <1>5

LEMMA AccountsClose ==
    ASSUME IsFiniteSet(Threads), IsFiniteSet(Durations), RowInv, RowMaximum
    PROVE  Accounts'
<1>1. TypeOK /\ RowType
  BY DEF RowInv, IInv
<1>2. /\ UNCHANGED <<torn, whole, pc, elapsed, next, count, ticks, histogram>>
      /\ snap = "maximum" /\ snap' = "idle" /\ recent' = None
      /\ calls' = [calls EXCEPT ![side] = [d \in Durations |-> calls[side][d] + recent[d]]]
      /\ \E m : rows' = [rows EXCEPT ![side].maximum = m]
  BY DEF RowMaximum, SnapMaximum, stopVars
<1>3. /\ Counts' = Counts /\ AllTicks' = AllTicks /\ \A b \in Bins : AllBins(b)' = AllBins(b)
      /\ Counting' = Counting /\ Timing' = Timing
  <2>1. \A k \in Sides : /\ rows'[k].count = rows[k].count /\ rows'[k].ticks = rows[k].ticks
                         /\ rows'[k].bins = rows[k].bins
    BY <1>1, <1>2 DEF RowType
  <2>2. QED
    BY <1>2, <2>1 DEF Counts, AllTicks, AllBins, Counting, Timing
<1>4. /\ history'.calls = [history.calls EXCEPT ![history.side] =
                             [d \in Durations |-> history.calls[history.side][d] + history.recent[d]]]
      /\ history'.recent = None /\ history'.torn = history.torn
      /\ history'.elapsed = history.elapsed /\ history'.whole = history.whole
  BY <1>2 DEF history
<1>5. /\ Account(history, Ones, count, Counts, Counting) /\ Taken(history, Ones, Counts)
      /\ Account(history, Lengths, ticks, AllTicks, Timing) /\ Taken(history, Lengths, AllTicks)
      /\ \A b \in Bins : /\ Account(history, OfBin(b), histogram[b], AllBins(b), {})
                         /\ Taken(history, OfBin(b), AllBins(b))
  BY <1>2 DEF RowInv, CountAccount, TicksAccount, BinAccount
<1>6. Account(history', Ones, count, Counts, Counting) /\ Open(history', Ones, count, Counting)
  BY <1>4, <1>5, RowFacts, AccountCloses
<1>7. CountAccount'
  BY <1>2, <1>3, <1>6 DEF CountAccount, Ones
<1>8. /\ Account(history', Lengths, ticks, AllTicks, Timing)
      /\ Open(history', Lengths, ticks, Timing)
  BY <1>4, <1>5, RowFacts, AccountCloses
<1>9. TicksAccount'
  BY <1>2, <1>3, <1>8 DEF TicksAccount, Lengths
<1>10. ASSUME NEW b \in Bins
       PROVE  BinAccount(b)'
  <2>1. /\ Account(history', OfBin(b), histogram[b], AllBins(b), {})
        /\ Open(history', OfBin(b), histogram[b], {})
    BY <1>4, <1>5, RowFacts, AccountCloses
  <2>2. QED
    BY <1>2, <1>3, <2>1 DEF BinAccount, OfBin
<1>11. QED
  BY <1>7, <1>9, <1>10 DEF Accounts

(***************************************************************************)
(* The maxima of the rows.                                                 *)
(***************************************************************************)
LEMMA SomeOne ==
    ASSUME NEW f \in [Durations -> Nat], NEW d \in Durations
    PROVE  Some([f EXCEPT ![d] = f[d] + 1]) = Some(f) \union {d}
<1> DEFINE g == [f EXCEPT ![d] = f[d] + 1]
<1>1. g[d] = f[d] + 1 /\ f[d] \in Nat /\ \A e \in Durations : e # d => g[e] = f[e]
  OBVIOUS
<1> HIDE DEF g
<1>2. g[d] > 0
  BY <1>1
<1>3. Some(g) = Some(f) \union {d}
  BY <1>1, <1>2 DEF Some
<1>4. QED
  BY <1>3 DEF g

LEMMA SomePlus ==
    ASSUME NEW f \in [Durations -> Nat], NEW g \in [Durations -> Nat]
    PROVE  Some([d \in Durations |-> f[d] + g[d]]) = Some(f) \union Some(g)
<1>1. \A d \in Durations : f[d] + g[d] > 0 <=> f[d] > 0 \/ g[d] > 0
  <2> TAKE d \in Durations
  <2>1. f[d] \in Nat /\ g[d] \in Nat
    OBVIOUS
  <2>2. QED
    BY <2>1
<1>2. QED
  BY <1>1 DEF Some

\* A Stop that begins, counts or adds its ticks.
LEMMA MaximaStop ==
    ASSUME RowInv, NEW t \in Threads,
           (\E d \in Durations : RowStop(t, d))
              \/ (RowStopping(t) /\ (StopCount(t) \/ StopTicks(t)))
    PROVE  MaximumAccount'
<1>1. TypeOK /\ RowType /\ MaximumAccount
  BY DEF RowInv, IInv
<1>2. PICK step \in {"count", "ticks", "read"} :
        /\ pc' = [pc EXCEPT ![t] = step] /\ UNCHANGED <<maximum, rows, calls, recent, torn>>
        /\ \A u \in Threads : u # t => elapsed'[u] = elapsed[u]
        /\ pc[t] # "idle" => elapsed'[t] = elapsed[t] /\ whole' = whole
        /\ whole' \subseteq whole \union {t}
  BY <1>1 DEF RowStop, RowStopping, Stop, StopCount, StopTicks, Goto, TypeOK, counterVars, snapVars,
              rowVars, historyVars
<1>3. /\ \A u \in Busy : elapsed'[u] = elapsed[u] /\ u \in Busy'
      /\ \A u \in Busy \ whole : u \in Busy' \ whole'
      /\ \A u \in whole' : pc'[u] = "bin" => u \in whole /\ pc[u] = "bin" /\ u \in Busy
  BY <1>1, <1>2, ZenonT(30) DEF Busy, TypeOK, RowType
<1>4. /\ {elapsed[u] : u \in Busy} \subseteq {elapsed'[u] : u \in Busy'}
      /\ {elapsed[u] : u \in Busy \ whole} \subseteq {elapsed'[u] : u \in Busy' \ whole'}
  BY <1>3
<1>5. QED
  BY <1>1, <1>2, <1>3, <1>4 DEF MaximumAccount, Some

\* The loop over the maximum.
LEMMA MaximaLoop ==
    ASSUME RowInv, NEW t \in Threads, RowStopping(t), ReadMaximum(t) \/ Raise(t)
    PROVE  MaximumAccount'
<1>1. TypeOK /\ RowType /\ MaximumAccount /\ LoopPassed
  BY DEF RowInv, IInv
<1>2. /\ UNCHANGED <<rows, calls, recent, torn, whole, elapsed>>
      /\ pc[t] \in {"read", "raise"} /\ pc'[t] \in {"raise", "bin"}
      /\ \A u \in Threads : u # t => pc'[u] = pc[u]
  BY <1>1 DEF RowStopping, ReadMaximum, Raise, See, Goto, TypeOK, rowVars, historyVars
<1>3. Busy' = Busy /\ t \in Busy
  BY <1>2 DEF Busy
<1>4. /\ maximum \in Nat /\ elapsed[t] \in Nat /\ maximum' \in {maximum, elapsed[t]}
      /\ maximum <= maximum' /\ (pc'[t] = "bin" => elapsed[t] <= maximum')
  <2>1. maximum \in Nat /\ elapsed[t] \in Nat
    BY <1>1 DEF TypeOK
  <2>2. CASE maximum' = maximum /\ See(t)
    BY <1>1, <2>1, <2>2 DEF See, Goto, TypeOK
  <2>3. CASE Raise(t) /\ maximum = old[t]
    <3>1. old[t] < elapsed[t] /\ maximum' = elapsed[t]
      BY <1>1, <2>3 DEF Raise, LoopPassed
    <3>2. QED
      BY <2>1, <2>3, <3>1
  <2>4. QED
    BY <2>2, <2>3 DEF ReadMaximum, Raise, counterVars
<1>5. \A d \in Nat : d <= maximum => d <= maximum'
  BY <1>4
<1>6. \A d \in Some(recent) : d <= maximum'
  BY <1>1, <1>5, DurationAssumption DEF MaximumAccount, Some
<1>7. \A u \in whole : pc'[u] = "bin" => elapsed[u] <= maximum'
  <2> SUFFICES ASSUME NEW u \in whole, pc'[u] = "bin" PROVE elapsed[u] <= maximum'
    OBVIOUS
  <2>1. CASE u = t
    BY <1>4, <2>1
  <2>2. CASE u # t
    <3>1. u \in Threads /\ elapsed[u] \in Nat
      BY <1>1 DEF RowType, Busy, TypeOK
    <3>2. elapsed[u] <= maximum
      BY <1>1, <1>2, <2>2, <3>1 DEF MaximumAccount
    <3>3. QED
      BY <1>5, <3>1, <3>2
  <2>3. QED
    BY <2>1, <2>2
<1>8. maximum' \in {0} \union Some(recent) \union Some(torn) \union {elapsed[u] : u \in Busy}
  BY <1>1, <1>3, <1>4 DEF MaximumAccount
<1>9. QED
  BY <1>1, <1>2, <1>3, <1>6, <1>7, <1>8 DEF MaximumAccount

LEMMA MaximaReturn ==
    ASSUME RowInv, NEW t \in Threads, RowStopBin(t)
    PROVE  MaximumAccount'
<1>1. TypeOK /\ RowType /\ MaximumAccount
  BY DEF RowInv, IInv
<1>2. /\ UNCHANGED <<rows, calls, maximum>> /\ whole' = whole \ {t}
      /\ pc[t] = "bin" /\ pc' = [pc EXCEPT ![t] = "idle"]
      /\ elapsed' = [elapsed EXCEPT ![t] = 0]
  BY DEF RowStopBin, StopBin, Goto, snapVars
<1>3. /\ t \in Busy /\ elapsed[t] \in Durations /\ Busy' = Busy \ {t}
      /\ \A u \in Threads : u # t => elapsed'[u] = elapsed[u] /\ pc'[u] = pc[u]
      /\ pc'[t] = "idle"
  BY <1>1, <1>2 DEF Busy, RowType, TypeOK
<1>4. /\ Some(recent') = IF t \in whole THEN Some(recent) \union {elapsed[t]} ELSE Some(recent)
      /\ Some(torn') = IF t \in whole THEN Some(torn) ELSE Some(torn) \union {elapsed[t]}
  <2>1. recent \in [Durations -> Nat] /\ torn \in [Durations -> Nat]
    BY <1>1 DEF RowType
  <2>2. CASE t \in whole
    <3>1. torn' = torn /\ recent' = [recent EXCEPT ![elapsed[t]] = recent[elapsed[t]] + 1]
      BY <2>2 DEF RowStopBin
    <3>2. Some(recent') = Some(recent) \union {elapsed[t]}
      BY <1>3, <2>1, <3>1, SomeOne
    <3>3. QED
      BY <2>2, <3>1, <3>2
  <2>3. CASE t \notin whole
    <3>1. recent' = recent /\ torn' = [torn EXCEPT ![elapsed[t]] = torn[elapsed[t]] + 1]
      BY <2>3 DEF RowStopBin
    <3>2. Some(torn') = Some(torn) \union {elapsed[t]}
      BY <1>3, <2>1, <3>1, SomeOne
    <3>3. QED
      BY <2>3, <3>1, <3>2
  <2>4. QED
    BY <2>2, <2>3
<1>5. \A d \in Some(recent') : d <= maximum'
  BY <1>1, <1>2, <1>4 DEF MaximumAccount
<1>6. \A u \in whole' : pc'[u] = "bin" => elapsed'[u] <= maximum'
  BY <1>1, <1>2, <1>3 DEF MaximumAccount, RowType, Busy
<1>7. \A x \in {elapsed[u] : u \in Busy} : x = elapsed[t] \/ x \in {elapsed'[u] : u \in Busy'}
  BY <1>3 DEF Busy
<1>8. \A x \in {elapsed[u] : u \in Busy \ whole} :
        (x = elapsed[t] /\ t \notin whole) \/ x \in {elapsed'[u] : u \in Busy' \ whole'}
  BY <1>2, <1>3 DEF Busy
<1>9. maximum' \in {0} \union Some(recent') \union Some(torn') \union {elapsed'[u] : u \in Busy'}
  BY <1>1, <1>2, <1>4, <1>7 DEF MaximumAccount
<1>10. \A k \in Sides :
          rows'[k].maximum \in {0} \union Some(calls'[k]) \union Some(torn')
                                   \union {elapsed'[u] : u \in Busy' \ whole'}
  BY <1>1, <1>2, <1>4, <1>8 DEF MaximumAccount
<1>11. \A k \in Sides : \A d \in Some(calls'[k]) : d <= rows'[k].maximum
  BY <1>1, <1>2 DEF MaximumAccount
<1>12. QED
  BY <1>5, <1>6, <1>9, <1>10, <1>11 DEF MaximumAccount

LEMMA MaximaSnap ==
    ASSUME RowInv,
           (\E c \in Scenes, within \in BOOLEAN : RowSnapshot(c, within))
              \/ RowBin \/ RowCount \/ RowTicks
    PROVE  MaximumAccount'
<1>1. TypeOK /\ RowType /\ MaximumAccount
  BY DEF RowInv, IInv
<1>2. /\ UNCHANGED <<calls, recent, torn, pc, elapsed, maximum>>
      /\ whole' = whole \/ whole' = {}
  BY DEF RowSnapshot, RowBin, RowCount, RowTicks, Snapshot, SnapBin, SnapCount, SnapTicks,
         stopVars, counterVars, historyVars
<1>3. \A k \in Sides : rows'[k].maximum = rows[k].maximum
  <2>1. \/ rows' = rows
        \/ \E x : \/ rows' = [rows EXCEPT ![side] = [rows[side] EXCEPT !.bins = x]]
                  \/ rows' = [rows EXCEPT ![side] = [rows[side] EXCEPT !.count = x]]
                  \/ rows' = [rows EXCEPT ![side] = [rows[side] EXCEPT !.ticks = x]]
    BY DEF RowSnapshot, RowBin, RowCount, RowTicks
  <2>2. /\ rows = [k \in Sides |-> rows[k]] /\ side \in Sides
        /\ rows[side] \in [count : Nat, ticks : Nat, maximum : Nat, bins : [Bins -> Nat]]
    BY <1>1 DEF RowType
  <2>3. ASSUME NEW r, r.maximum = rows[side].maximum, rows' = [rows EXCEPT ![side] = r]
        PROVE  \A k \in Sides : rows'[k].maximum = rows[k].maximum
    <3> TAKE k \in Sides
    <3>1. rows'[k] = IF k = side THEN r ELSE rows[k]
      BY <2>2, <2>3
    <3>2. QED
      BY <2>3, <3>1
  <2>4. \A x : /\ [rows[side] EXCEPT !.bins = x].maximum = rows[side].maximum
               /\ [rows[side] EXCEPT !.count = x].maximum = rows[side].maximum
               /\ [rows[side] EXCEPT !.ticks = x].maximum = rows[side].maximum
    BY <2>2
  <2>5. QED
    BY <2>1, <2>3, <2>4
<1>4. Busy' = Busy /\ Busy \ whole \subseteq Busy' \ whole'
  BY <1>2 DEF Busy
<1>5. {elapsed[u] : u \in Busy \ whole} \subseteq {elapsed'[u] : u \in Busy' \ whole'}
  BY <1>2, <1>4
<1>6. QED
  BY <1>1, <1>2, <1>3, <1>4, <1>5 DEF MaximumAccount

LEMMA MaximaClose ==
    ASSUME RowInv, RowMaximum
    PROVE  MaximumAccount'
<1>1. TypeOK /\ RowType /\ MaximumAccount
  BY DEF RowInv, IInv
<1>2. /\ UNCHANGED <<torn, whole, pc, elapsed>> /\ maximum' = 0 /\ whole = {} /\ recent' = None
      /\ calls' = [calls EXCEPT ![side] = [d \in Durations |-> calls[side][d] + recent[d]]]
      /\ rows' = [rows EXCEPT ![side].maximum = IF maximum > @ THEN maximum ELSE @]
      /\ side \in Sides
  BY <1>1 DEF RowMaximum, SnapMaximum, stopVars, RowType
<1> DEFINE s == side
           m == IF maximum > rows[s].maximum THEN maximum ELSE rows[s].maximum
<1>3. /\ maximum \in Nat /\ rows[s].maximum \in Nat
      /\ rows'[s].maximum = m
      /\ \A k \in Sides : k # s => rows'[k].maximum = rows[k].maximum /\ calls'[k] = calls[k]
  BY <1>1, <1>2 DEF RowType, TypeOK
<1>4. Some(calls'[s]) = Some(calls[s]) \union Some(recent)
  <2>1. calls'[s] = [d \in Durations |-> calls[s][d] + recent[d]]
    BY <1>1, <1>2 DEF RowType
  <2>2. calls[s] \in [Durations -> Nat] /\ recent \in [Durations -> Nat]
    BY <1>1, <1>2 DEF RowType
  <2>3. QED
    BY <2>1, <2>2, SomePlus
<1>5. Some(recent') = {}
  BY <1>2 DEF None, Some
<1>6. Busy' = Busy
  BY <1>2 DEF Busy
<1>7. \A d \in Some(calls'[s]) : d <= m
  <2>1. \A d \in Some(calls'[s]) : d \in Nat /\ (d <= rows[s].maximum \/ d <= maximum)
    BY <1>1, <1>2, <1>4, DurationAssumption DEF MaximumAccount, Some
  <2>2. QED
    BY <1>3, <2>1
<1>8. m \in {0} \union Some(calls'[s]) \union Some(torn') \union {elapsed'[u] : u \in Busy' \ whole'}
  <2>1. m = maximum \/ m = rows[s].maximum
    OBVIOUS
  <2>2. Busy \ whole = Busy
    BY <1>2
  <2>3. /\ maximum \in {0} \union Some(recent) \union Some(torn) \union {elapsed[u] : u \in Busy}
        /\ rows[s].maximum \in {0} \union Some(calls[s]) \union Some(torn)
                                   \union {elapsed[u] : u \in Busy \ whole}
    BY <1>1, <1>2 DEF MaximumAccount
  <2> HIDE DEF m, s
  <2>4. QED
    BY <1>2, <1>4, <1>6, <2>1, <2>2, <2>3
<1> HIDE DEF m, s
<1>9. \A k \in Sides :
         /\ \A d \in Some(calls'[k]) : d <= rows'[k].maximum
         /\ rows'[k].maximum \in {0} \union Some(calls'[k]) \union Some(torn')
                                     \union {elapsed'[u] : u \in Busy' \ whole'}
  <2> TAKE k \in Sides
  <2>1. CASE k = s
    BY <1>3, <1>7, <1>8, <2>1
  <2>2. CASE k # s
    BY <1>1, <1>2, <1>3, <1>6, <2>2 DEF MaximumAccount
  <2>3. QED
    BY <2>1, <2>2
<1>10. QED
  BY <1>2, <1>5, <1>9 DEF MaximumAccount

(***************************************************************************)
(* The invariant of the row.                                               *)
(***************************************************************************)
LEMMA RowStarts ==
    ASSUME IsFiniteSet(Threads), IsFiniteSet(Durations), RowInit
    PROVE  RowInv
<1>1. IInv /\ TypeOK
  BY InitHolds DEF RowInit, IInv
<1>2. /\ count = 0 /\ ticks = 0 /\ maximum = 0 /\ \A b \in Bins : histogram[b] = 0
      /\ snap = "idle" /\ next = 0 /\ Busy = {} /\ Counting = {} /\ Timing = {}
      /\ side = "rest" /\ calls = [k \in Sides |-> None] /\ recent = None /\ torn = None
      /\ whole = {}
      /\ \A k \in Sides : /\ rows[k].count = 0 /\ rows[k].ticks = 0 /\ rows[k].maximum = 0
                          /\ \A b \in Bins : rows[k].bins[b] = 0
  BY DEF RowInit, Init, Zero, Busy, Counting, Timing
<1>3. None \in [Durations -> Nat]
  BY DEF None
<1>4. RowType
  <2>1. rows \in [Sides -> [count : Nat, ticks : Nat, maximum : Nat, bins : [Bins -> Nat]]]
    BY DEF RowInit, Zero
  <2>2. QED
    BY <1>2, <1>3, <2>1 DEF RowType, Sides
<1>5. ASSUME NEW w \in [Durations -> Nat], NEW r, \A k \in Sides : r[k] = 0
      PROVE  Account(history, w, 0, r, {}) /\ Open(history, w, 0, {})
  <2>1. /\ \A k \in Sides : history.calls[k] = None
        /\ history.recent = None /\ history.torn = None
    BY <1>2 DEF history
  <2>2. /\ history.calls.row = None /\ history.calls.rest = None /\ r.row = 0 /\ r.rest = 0
    BY <1>5, <2>1 DEF Sides
  <2>3. Weighed(w, None) = 0
    BY WeighedNone
  <2>4. Load(w, history.elapsed, {}) = 0 /\ {} \intersect history.whole = {}
    BY LoadNone
  <2>5. QED
    BY <1>5, <2>1, <2>2, <2>3, <2>4 DEF Account, Open
<1>6. /\ Ones \in [Durations -> Nat] /\ Lengths \in [Durations -> Nat]
      /\ \A b \in Bins : OfBin(b) \in [Durations -> Nat]
  BY DurationAssumption DEF Ones, Lengths, OfBin
<1>7. /\ \A k \in Sides : Counts[k] = 0 /\ AllTicks[k] = 0
      /\ \A b \in Bins : \A k \in Sides : AllBins(b)[k] = 0
  BY <1>2 DEF Counts, AllTicks, AllBins
<1>8. CountAccount /\ TicksAccount
  BY <1>2, <1>5, <1>6, <1>7 DEF CountAccount, TicksAccount
<1>9. \A b \in Bins : BinAccount(b)
  BY <1>2, <1>5, <1>6, <1>7 DEF BinAccount
<1>10. MaximumAccount
  <2>1. Some(None) = {}
    BY DEF Some, None
  <2>2. QED
    BY <1>2, <2>1 DEF MaximumAccount
<1>11. QED
  BY <1>1, <1>4, <1>8, <1>9, <1>10 DEF RowInv

LEMMA RowSteps ==
    ASSUME [RowNext]_<<vars, rowVars>>
    PROVE  [Next]_vars
BY DEF RowNext, RowStop, RowStopping, RowStopBin, RowSnapshot, RowSnapping, RowBin, RowCount,
       RowTicks, RowMaximum, Next, Stopping, Snapping

LEMMA RowKeeps ==
    ASSUME IsFiniteSet(Threads), IsFiniteSet(Durations), RowInv, [RowNext]_<<vars, rowVars>>
    PROVE  RowInv'
<1>1. IInv' /\ TypeOK'
  BY RowSteps, NextHolds DEF RowInv, IInv
<1>2. ASSUME NEW t \in Threads,
             (\E d \in Durations : RowStop(t, d)) \/ RowStopping(t) \/ RowStopBin(t)
      PROVE  RowType' /\ Accounts' /\ MaximumAccount'
  <2>1. RowType'
    BY <1>2, RowTypeStop
  <2>2. Accounts'
    BY <1>1, <1>2, <2>1, AccountsStop, AccountsStopping, AccountsReturn
  <2>3. CASE RowStopping(t)
    BY <2>1, <2>2, <2>3, MaximaStop, MaximaLoop DEF RowStopping
  <2>4. CASE (\E d \in Durations : RowStop(t, d)) \/ RowStopBin(t)
    BY <2>1, <2>2, <2>4, MaximaStop, MaximaReturn
  <2>5. QED
    BY <1>2, <2>3, <2>4
<1>3. CASE \E c \in Scenes, within \in BOOLEAN : RowSnapshot(c, within)
  <2>1. RowType' /\ MaximumAccount'
    BY <1>3, RowTypeSnap, MaximaSnap
  <2>2. Accounts'
    BY <1>3, AccountsOpen
  <2>3. QED
    BY <1>1, <2>1, <2>2 DEF RowInv, Accounts
<1>4. CASE RowSnapping
  <2>1. RowType'
    BY <1>4, RowTypeSnap
  <2>2. Accounts' /\ MaximumAccount'
    BY <1>4, AccountsTake, AccountsClose, MaximaSnap, MaximaClose DEF RowSnapping
  <2>3. QED
    BY <1>1, <2>1, <2>2 DEF RowInv, Accounts
<1>5. CASE UNCHANGED <<vars, rowVars>>
  <2>1. UNCHANGED <<count, ticks, maximum, histogram, pc, elapsed, snap, next, side, rows,
                    calls, recent, torn, whole>>
    BY <1>5 DEF vars, counterVars, stopVars, snapVars, rowVars, historyVars
  <2>2. /\ history' = history /\ Busy' = Busy /\ Counting' = Counting /\ Timing' = Timing
        /\ Counts' = Counts /\ AllTicks' = AllTicks /\ \A b \in Bins : AllBins(b)' = AllBins(b)
    BY <2>1 DEF history, Busy, Counting, Timing, Counts, AllTicks, AllBins
  <2>3. RowType' /\ MaximumAccount'
    BY <2>1, <2>2 DEF RowInv, RowType, MaximumAccount
  <2>4. CountAccount' /\ TicksAccount' /\ \A b \in Bins : BinAccount(b)'
    BY <2>1, <2>2 DEF RowInv, CountAccount, TicksAccount, BinAccount, Ones, Lengths, OfBin
  <2>5. QED
    BY <1>1, <2>3, <2>4 DEF RowInv
<1>6. QED
  BY <1>1, <1>2, <1>3, <1>4, <1>5 DEF RowNext, RowInv, Accounts

LEMMA RowInvHolds ==
    ASSUME IsFiniteSet(Threads), IsFiniteSet(Durations)
    PROVE  RowSpec => []RowInv
<1>1. RowInit => RowInv
  BY RowStarts
<1>2. RowInv /\ [RowNext]_<<vars, rowVars>> => RowInv'
  BY RowKeeps
<1>3. QED
  BY <1>1, <1>2, PTL DEF RowSpec

(***************************************************************************)
(* Sums over parts of a function's domain.                                 *)
(***************************************************************************)
Part(f, A) == [x \in A |-> f[x]]

LEMMA PartType ==
    ASSUME NEW D, IsFiniteSet(D), NEW f \in [D -> Nat], NEW A \in SUBSET D
    PROVE  /\ IsFiniteSet(A) /\ Part(f, A) \in [A -> Nat]
           /\ IsFiniteSet(Units(Part(f, A))) /\ Sum(Part(f, A)) \in Nat
<1>1. IsFiniteSet(A)
  BY FS_Subset
<1>2. Part(f, A) \in [A -> Nat]
  BY DEF Part
<1>3. QED
  BY <1>1, <1>2, SumType

LEMMA PartUnion ==
    ASSUME NEW D, IsFiniteSet(D), NEW f \in [D -> Nat], NEW A \in SUBSET D, NEW B \in SUBSET D,
           A \intersect B = {}
    PROVE  Sum(Part(f, A \union B)) = Sum(Part(f, A)) + Sum(Part(f, B))
<1>1. /\ IsFiniteSet(Units(Part(f, A))) /\ IsFiniteSet(Units(Part(f, B)))
      /\ Sum(Part(f, A)) \in Nat /\ Sum(Part(f, B)) \in Nat
  BY PartType
<1>2. Units(Part(f, A \union B)) = Units(Part(f, A)) \union Units(Part(f, B))
  BY DEF Units, Part
<1>3. Units(Part(f, A)) \intersect Units(Part(f, B)) = {}
  BY DEF Units, Part
<1> DEFINE a == Units(Part(f, A))
           b == Units(Part(f, B))
<1>4. Cardinality(a \union b) = Cardinality(a) + Cardinality(b) - Cardinality({})
  <2>1. IsFiniteSet(a) /\ IsFiniteSet(b) /\ a \intersect b = {}
    BY <1>1, <1>3
  <2> HIDE DEF a, b
  <2>2. Cardinality(a \union b) = Cardinality(a) + Cardinality(b) - Cardinality(a \intersect b)
    BY <2>1, FS_Union
  <2>3. QED
    BY <2>1, <2>2
<1>5. /\ Sum(Part(f, A \union B)) = Cardinality(a \union b)
      /\ Sum(Part(f, A)) = Cardinality(a) /\ Sum(Part(f, B)) = Cardinality(b)
  BY <1>2, Zenon DEF Sum
<1> HIDE DEF a, b
<1>6. Cardinality(a) \in Nat /\ Cardinality(b) \in Nat
  BY <1>1, <1>5
<1>7. QED
  BY <1>4, <1>5, <1>6, FS_EmptySet

LEMMA PartOne ==
    ASSUME NEW D, NEW f \in [D -> Nat], NEW x \in D
    PROVE  Sum(Part(f, {x})) = f[x]
<1>1. Units(Part(f, {x})) = {x} \X (1 .. f[x])
  BY DEF Units, Part
<1>2. f[x] \in Nat
  OBVIOUS
<1>3. QED
  BY <1>1, <1>2, UnitsOfOne DEF Sum

LEMMA PartLess ==
    ASSUME NEW D, IsFiniteSet(D), NEW f \in [D -> Nat], NEW B \in SUBSET D, NEW A \in SUBSET B
    PROVE  Sum(Part(f, A)) <= Sum(Part(f, B))
<1>1. A \in SUBSET D /\ B \ A \in SUBSET D /\ A \union (B \ A) = B /\ A \intersect (B \ A) = {}
  OBVIOUS
<1>2. Sum(Part(f, B)) = Sum(Part(f, A)) + Sum(Part(f, B \ A))
  BY <1>1, PartUnion
<1>3. Sum(Part(f, A)) \in Nat /\ Sum(Part(f, B \ A)) \in Nat
  BY <1>1, PartType
<1>4. QED
  BY <1>2, <1>3

LEMMA PartZero ==
    ASSUME NEW D, NEW f \in [D -> Nat], NEW A \in SUBSET D, \A x \in A : f[x] = 0
    PROVE  Sum(Part(f, A)) = 0
<1>1. Part(f, A) \in [A -> Nat] /\ \A x \in A : Part(f, A)[x] = 0
  BY DEF Part
<1>2. QED
  BY <1>1, SumZero

LEMMA PartWhole ==
    ASSUME NEW D, NEW f \in [D -> Nat]
    PROVE  Part(f, D) = f
BY DEF Part

\* A set of numbers has a least one, and a largest one if it is bounded.
LEMMA LeastExists ==
    ASSUME NEW T \in SUBSET Nat, T # {}
    PROVE  \E x \in T : \A y \in T : x <= y
<1>1. PICK x \in T : \A y \in T : <<y, x>> \notin OpToRel(<, Nat)
  BY NatLessThanWellFounded, WFMin
<1>2. \A y \in T : ~(y < x)
  BY <1>1 DEF OpToRel
<1>3. QED
  BY <1>2

LEMMA LargestExists ==
    ASSUME NEW S \in SUBSET Nat, S # {}, NEW bound \in Nat, \A x \in S : x <= bound
    PROVE  \E m \in S : \A x \in S : x <= m
<1> DEFINE T == {bound - x : x \in S}
<1>1. T \in SUBSET Nat /\ T # {}
  <2>1. \A x \in S : bound - x \in Nat
    OBVIOUS
  <2>2. QED
    BY <2>1
<1> HIDE DEF T
<1>2. PICK y \in T : \A z \in T : y <= z
  BY <1>1, LeastExists
<1>3. PICK m \in S : y = bound - m
  BY <1>2 DEF T
<1>4. \A x \in S : x <= m
  <2> TAKE x \in S
  <2>1. bound - m <= bound - x
    BY <1>2, <1>3 DEF T
  <2>2. QED
    BY <2>1
<1>5. QED
  BY <1>4

(***************************************************************************)
(* The calls by duration, and the ranks.                                   *)
(***************************************************************************)
LEMMA KeptType ==
    ASSUME RowType
    PROVE  /\ kept \in [Durations -> Nat] /\ torn \in [Durations -> Nat]
           /\ row.bins \in [Bins -> Nat] /\ row.count \in Nat /\ row.ticks \in Nat
           /\ row.maximum \in Nat
BY DEF RowType, kept, row, Sides

CallsIn(A) == Sum(Part(kept, A))

Shorter(d) == {e \in Durations : e < d}
NotLonger(d) == {e \in Durations : e <= d}
InBins(b) == {e \in Durations : Bin(e) <= b}

LEMMA CallsForms ==
    ASSUME RowType
    PROVE  /\ Calls = CallsIn(Durations)
           /\ \A d : UpTo(d) = CallsIn(NotLonger(d))
           /\ \A b : Sum(BinOf(b, kept)) = CallsIn({e \in Durations : Bin(e) = b})
<1>1. kept \in [Durations -> Nat]
  BY KeptType
<1>2. Calls = CallsIn(Durations)
  BY <1>1, PartWhole DEF Calls, CallsIn
<1>3. \A d : UpTo(d) = CallsIn(NotLonger(d))
  BY DEF UpTo, CallsIn, Part, NotLonger
<1>4. \A b : Sum(BinOf(b, kept)) = CallsIn({e \in Durations : Bin(e) = b})
  BY DEF BinOf, CallsIn, Part
<1>5. QED
  BY <1>2, <1>3, <1>4

LEMMA CallsLess ==
    ASSUME IsFiniteSet(Durations), RowType, NEW A \in SUBSET Durations, NEW B \in SUBSET Durations,
           A \subseteq B
    PROVE  CallsIn(A) \in Nat /\ CallsIn(B) \in Nat /\ CallsIn(A) <= CallsIn(B)
<1>1. kept \in [Durations -> Nat]
  BY KeptType
<1>2. QED
  BY <1>1, PartType, PartLess DEF CallsIn

LEMMA CallsUpTo ==
    ASSUME IsFiniteSet(Durations), RowType, NEW d \in Durations
    PROVE  CallsIn(NotLonger(d)) = CallsIn(Shorter(d)) + kept[d]
<1>1. kept \in [Durations -> Nat]
  BY KeptType
<1>2. NotLonger(d) = Shorter(d) \union {d} /\ Shorter(d) \intersect {d} = {}
  <2>1. \A e \in Durations : (e <= d <=> e < d \/ e = d) /\ (e < d => e # d)
    BY DurationAssumption
  <2>2. QED
    BY <2>1, Zenon DEF NotLonger, Shorter
<1>3. Shorter(d) \in SUBSET Durations /\ {d} \in SUBSET Durations
  BY DEF Shorter
<1>4. CallsIn(Shorter(d) \union {d}) = CallsIn(Shorter(d)) + CallsIn({d})
  BY <1>1, <1>2, <1>3, PartUnion DEF CallsIn
<1>5. CallsIn({d}) = kept[d]
  BY <1>1, PartOne DEF CallsIn
<1>6. QED
  BY <1>2, <1>4, <1>5

\* The running sum of the percentile's loop counts the calls of all bins so far.
LEMMA SeenCounts ==
    ASSUME IsFiniteSet(Durations), RowType, \A b \in Bins : row.bins[b] = Sum(BinOf(b, kept))
    PROVE  \A b \in Bins : Seen(b) = CallsIn(InBins(b))
<1> DEFINE bad == {b \in Bins : Seen(b) # CallsIn(InBins(b))}
<1>1. SUFFICES ASSUME bad # {} PROVE FALSE
  OBVIOUS
<1>2. PICK b \in bad : \A c \in bad : b <= c
  <2>1. bad \in SUBSET Nat
    OBVIOUS
  <2>2. QED
    BY <1>1, <2>1, LeastExists
<1>3. b \in Bins /\ b \in Nat /\ 0 .. b \subseteq Bins
  BY <1>2
<1>4. kept \in [Durations -> Nat] /\ row.bins \in [Bins -> Nat]
  BY KeptType
<1>5. row.bins[b] = CallsIn({e \in Durations : Bin(e) = b})
  BY <1>3, CallsForms
<1>6. Seen(b) = Sum(Part(row.bins, 0 .. b))
  BY DEF Seen, Part
<1>7. Sum(Part(row.bins, {b})) = row.bins[b]
  BY <1>3, <1>4, PartOne
<1>8. CASE b = 0
  <2>1. 0 .. b = {b}
    BY <1>8
  <2>2. \A e \in Durations : Bin(e) <= b <=> Bin(e) = b
    BY <1>8, BinType, DurationAssumption
  <2>3. InBins(b) = {e \in Durations : Bin(e) = b}
    BY <2>2, Zenon DEF InBins
  <2>4. Seen(b) = CallsIn(InBins(b))
    BY <1>5, <1>6, <1>7, <2>1, <2>3
  <2>5. QED
    BY <1>2, <2>4
<1>9. CASE b # 0
  <2>1. b - 1 \in Bins /\ b - 1 \in Nat /\ ~(b <= b - 1)
    BY <1>3, <1>9
  <2>2. Seen(b - 1) = CallsIn(InBins(b - 1))
    BY <1>2, <2>1
  <2>3. /\ 0 .. b = (0 .. b - 1) \union {b} /\ (0 .. b - 1) \intersect {b} = {}
        /\ 0 .. b - 1 \in SUBSET Bins /\ {b} \in SUBSET Bins
    BY <1>3, <2>1
  <2>4. Seen(b) = Seen(b - 1) + row.bins[b]
    <3> DEFINE D == Bins
               A == 0 .. b - 1
               B == {b}
    <3>1. /\ row.bins \in [D -> Nat] /\ IsFiniteSet(D)
          /\ A \in SUBSET D /\ B \in SUBSET D /\ A \intersect B = {}
      BY <1>4, <2>3, FiniteBins
    <3>2. Seen(b - 1) = Sum(Part(row.bins, A)) /\ Seen(b) = Sum(Part(row.bins, A \union B))
      BY <1>6, <2>3 DEF Seen, Part
    <3>3. row.bins[b] = Sum(Part(row.bins, B))
      BY <1>7
    <3> HIDE DEF A, B, D
    <3>4. Sum(Part(row.bins, A \union B)) = Sum(Part(row.bins, A)) + Sum(Part(row.bins, B))
      BY <3>1, PartUnion
    <3>5. QED
      BY <3>2, <3>3, <3>4
  <2>5. CallsIn(InBins(b)) = CallsIn(InBins(b - 1)) + CallsIn({e \in Durations : Bin(e) = b})
    <3> DEFINE A == InBins(b - 1)
               B == {e \in Durations : Bin(e) = b}
    <3>1. \A e \in Durations : /\ Bin(e) <= b <=> Bin(e) <= b - 1 \/ Bin(e) = b
                               /\ Bin(e) <= b - 1 => Bin(e) # b
      BY <1>3, BinType, DurationAssumption
    <3>2. InBins(b) = A \union B /\ A \intersect B = {}
      BY <3>1, Zenon DEF InBins
    <3>3. A \in SUBSET Durations /\ B \in SUBSET Durations
      BY DEF InBins
    <3> HIDE DEF A, B
    <3>4. Sum(Part(kept, A \union B)) = Sum(Part(kept, A)) + Sum(Part(kept, B))
      BY <1>4, <3>2, <3>3, PartUnion
    <3>5. QED
      BY <3>2, <3>4 DEF CallsIn, A, B
  <2>6. Seen(b) = CallsIn(InBins(b))
    BY <1>5, <2>2, <2>4, <2>5
  <2>7. QED
    BY <1>2, <2>6
<1>10. QED
  BY <1>8, <1>9

\* There are calls of the rank, and all shorter ones together fall short of it.
HasRank(d, k) == d \in Some(kept) /\ UpTo(d) >= k /\ UpTo(d) - kept[d] < k

LEMMA RankExists ==
    ASSUME IsFiniteSet(Durations), RowType, NEW k \in Nat \ {0}, NEW top \in Durations,
           UpTo(top) >= k
    PROVE  /\ HasRank(Ranked(k), k)
           /\ \A d : HasRank(d, k) => d = Ranked(k)
<1> DEFINE Enough == {d \in Durations : UpTo(d) >= k}
<1>1. PICK d \in Enough : \A e \in Enough : d <= e
  <2>1. Enough \in SUBSET Nat /\ Enough # {}
    BY DurationAssumption
  <2> HIDE DEF Enough
  <2>2. QED
    BY <2>1, LeastExists
<1>2. d \in Durations /\ UpTo(d) >= k /\ d \in Nat
  BY <1>1, DurationAssumption
<1>3. kept \in [Durations -> Nat] /\ kept[d] \in Nat
  BY <1>2, KeptType
<1>4. /\ UpTo(d) = CallsIn(Shorter(d)) + kept[d] /\ CallsIn(Shorter(d)) \in Nat
  <2>1. UpTo(d) = CallsIn(NotLonger(d)) /\ Shorter(d) \in SUBSET Durations
    BY CallsForms DEF Shorter
  <2>2. QED
    BY <1>2, <2>1, CallsUpTo, CallsLess
<1>5. CallsIn(Shorter(d)) < k
  <2> DEFINE Below == {e \in Shorter(d) : kept[e] # 0}
  <2>1. CASE Below = {}
    <3>1. Shorter(d) \in SUBSET Durations /\ \A e \in Shorter(d) : kept[e] = 0
      BY <2>1 DEF Shorter
    <3>2. CallsIn(Shorter(d)) = 0
      BY <1>3, <3>1, PartZero DEF CallsIn
    <3>3. QED
      BY <3>2
  <2>2. CASE Below # {}
    <3>1. PICK m \in Below : \A e \in Below : e <= m
      <4>1. Below \in SUBSET Nat /\ \A e \in Below : e <= d
        <5>1. \A e \in Durations : e \in Nat /\ (e < d => e <= d)
          BY <1>2, DurationAssumption
        <5>2. QED
          BY <5>1, Zenon DEF Shorter
      <4> HIDE DEF Below
      <4>2. QED
        BY <1>2, <2>2, <4>1, LargestExists
    <3>2. m \in Durations /\ m < d /\ m \in Nat
      BY <3>1, DurationAssumption DEF Shorter
    <3> DEFINE rest == Shorter(d) \ NotLonger(m)
    <3>3. /\ Shorter(d) = NotLonger(m) \union rest /\ NotLonger(m) \intersect rest = {}
          /\ NotLonger(m) \in SUBSET Durations /\ rest \in SUBSET Durations
      <4>1. \A e \in Durations : e <= m => e < d
        BY <1>2, <3>2, DurationAssumption
      <4>2. NotLonger(m) \subseteq Shorter(d)
        BY <4>1, Zenon DEF NotLonger, Shorter
      <4>3. QED
        BY <4>2 DEF NotLonger, Shorter
    <3>4. \A e \in rest : kept[e] = 0
      <4>1. \A e \in Shorter(d) : kept[e] # 0 => e \in NotLonger(m)
        BY <3>1 DEF Shorter, NotLonger
      <4>2. QED
        BY <4>1
    <3> HIDE DEF rest
    <3>5. CallsIn(rest) = 0
      BY <1>3, <3>3, <3>4, PartZero DEF CallsIn
    <3>6. CallsIn(Shorter(d)) = CallsIn(NotLonger(m)) + CallsIn(rest)
      BY <1>3, <3>3, PartUnion DEF CallsIn
    <3>7. CallsIn(NotLonger(m)) = UpTo(m) /\ CallsIn(NotLonger(m)) \in Nat
      BY <3>3, CallsForms, CallsLess
    <3>8. ~(UpTo(m) >= k)
      BY <1>1, <1>2, <3>2
    <3>9. QED
      BY <3>5, <3>6, <3>7, <3>8
  <2>3. QED
    BY <2>1, <2>2
<1>6. HasRank(d, k)
  <2>1. kept[d] > 0 /\ UpTo(d) - kept[d] < k
    BY <1>2, <1>3, <1>4, <1>5
  <2>2. QED
    BY <1>2, <2>1 DEF HasRank, Some
<1>7. ASSUME NEW e, NEW f, HasRank(e, k), HasRank(f, k), e < f
      PROVE  FALSE
  <2>1. /\ e \in Durations /\ f \in Durations /\ e \in Nat /\ f \in Nat
        /\ UpTo(e) >= k /\ UpTo(f) - kept[f] < k
    BY <1>7, DurationAssumption DEF HasRank, Some
  <2>2. NotLonger(e) \subseteq Shorter(f)
    <3>1. \A x \in Durations : x <= e => x < f
      BY <1>7, <2>1, DurationAssumption
    <3>2. QED
      BY <3>1, Zenon DEF NotLonger, Shorter
  <2>3. /\ CallsIn(NotLonger(e)) <= CallsIn(Shorter(f))
        /\ CallsIn(NotLonger(e)) \in Nat /\ CallsIn(Shorter(f)) \in Nat
    <3>1. NotLonger(e) \in SUBSET Durations /\ Shorter(f) \in SUBSET Durations
      BY DEF NotLonger, Shorter
    <3>2. QED
      BY <2>2, <3>1, CallsLess
  <2>4. UpTo(e) = CallsIn(NotLonger(e)) /\ UpTo(f) = CallsIn(Shorter(f)) + kept[f]
    BY <2>1, CallsForms, CallsUpTo
  <2>5. kept[f] \in Nat
    BY <1>3, <2>1
  <2>6. QED
    BY <2>1, <2>3, <2>4, <2>5
<1>8. Ranked(k) = CHOOSE e : HasRank(e, k)
  BY DEF Ranked, HasRank
<1>9. HasRank(Ranked(k), k)
  BY <1>6, <1>8
<1>10. ASSUME NEW e, HasRank(e, k) PROVE e = Ranked(k)
  <2>1. e \in Nat /\ Ranked(k) \in Nat
    BY <1>9, <1>10, DurationAssumption DEF HasRank, Some
  <2>2. ~(e < Ranked(k)) /\ ~(Ranked(k) < e)
    BY <1>7, <1>9, <1>10
  <2>3. QED
    BY <2>1, <2>2
<1>11. QED
  BY <1>9, <1>10

\* Both sides of the test of the percentile, in calls.
LEMMA RankOf ==
    ASSUME NEW n \in Nat \ {0}
    PROVE  LET rank == (n * Percent + 99) \div 100
           IN  /\ rank \in Nat \ {0} /\ rank <= n
               /\ \A seen \in Nat : seen * 100 >= n * Percent <=> seen >= rank
<1> DEFINE x == n * Percent
           rank == (x + 99) \div 100
<1>1. x \in Nat /\ x >= n /\ x <= n * 100 /\ x # 0
  <2>1. Percent \in Nat /\ Percent >= 1 /\ Percent <= 100
    BY PercentAssumption
  <2>2. QED
    BY <2>1
<1> HIDE DEF x
<1>2. rank \in Nat /\ 100 * rank <= x + 99 /\ x + 99 < 100 * rank + 100
  BY <1>1
<1> HIDE DEF rank
<1>3. rank # 0 /\ rank <= n
  BY <1>1, <1>2
<1>4. \A seen \in Nat : seen * 100 >= x <=> seen >= rank
  BY <1>1, <1>2
<1>5. QED
  BY <1>2, <1>3, <1>4 DEF x, rank

(***************************************************************************)
(* What the accounts say of the row when no Stop and no snapshot is under  *)
(* way.                                                                    *)
(***************************************************************************)
LEMMA SumOfOnes ==
    ASSUME NEW f \in [Durations -> Nat]
    PROVE  Weighed(Ones, f) = Sum(f)
<1>1. [d \in Durations |-> Ones[d] * f[d]] = f
  <2>1. \A d \in Durations : Ones[d] * f[d] = f[d]
    BY DEF Ones
  <2>2. QED
    BY <2>1
<1>2. QED
  BY <1>1 DEF Weighed

LEMMA SumOfLengths ==
    ASSUME NEW f \in [Durations -> Nat]
    PROVE  Weighed(Lengths, f) = Sum(TimesOf(f))
<1>1. [d \in Durations |-> Lengths[d] * f[d]] = TimesOf(f)
  BY DEF Lengths, TimesOf
<1>2. QED
  BY <1>1 DEF Weighed

LEMMA SumOfBin ==
    ASSUME IsFiniteSet(Durations), NEW f \in [Durations -> Nat], NEW b \in Bins
    PROVE  Weighed(OfBin(b), f) = Sum(BinOf(b, f))
<1> DEFINE F == [d \in Durations |-> OfBin(b)[d] * f[d]]
           A == {d \in Durations : Bin(d) = b}
           B == Durations \ A
<1>1. \A d \in A : F[d] = f[d]
  BY DEF OfBin
<1>2. \A d \in B : F[d] = 0
  BY DEF OfBin
<1>3. F \in [Durations -> Nat]
  <2>1. \A d \in Durations : F[d] \in Nat
    BY <1>1, <1>2
  <2>2. QED
    BY <2>1
<1>4. BinOf(b, f) = [d \in A |-> f[d]]
  BY DEF BinOf
<1>5. /\ A \in SUBSET Durations /\ B \in SUBSET Durations
      /\ A \union B = Durations /\ A \intersect B = {}
  OBVIOUS
<1>6. Weighed(OfBin(b), f) = Sum(F)
  BY DEF Weighed
<1> HIDE DEF F, A, B
<1>7. Part(F, A) = BinOf(b, f)
  BY <1>1, <1>4 DEF Part
<1>8. Sum(F) = Sum(Part(F, A)) + Sum(Part(F, B))
  BY <1>3, <1>5, PartUnion, PartWhole
<1>9. Sum(Part(F, B)) = 0 /\ Sum(Part(F, A)) \in Nat
  BY <1>2, <1>3, <1>5, PartZero, PartType
<1>10. QED
  BY <1>6, <1>7, <1>8, <1>9

LEMMA QuietFacts ==
    ASSUME RowInv, Quiet
    PROVE  /\ RowType /\ Busy = {} /\ Counting = {} /\ Timing = {} /\ snap = "idle"
           /\ whole = {}
BY DEF RowInv, RowType, Quiet, Busy, Counting, Timing

LEMMA AccountQuiet ==
    ASSUME IsFiniteSet(Threads), IsFiniteSet(Durations), RowInv, NEW w \in [Durations -> Nat],
           NEW cur \in Nat, NEW r \in [Sides -> Nat],
           Account(history, w, cur, r, {}), Open(history, w, cur, {})
    PROVE  r.row - Weighed(w, kept) \in 0 .. Weighed(w, torn)
<1>1. history \in Histories /\ Known(history, {})
  BY RowFacts
<1>2. /\ history.calls.row = kept /\ history.calls = calls /\ history.torn = torn
      /\ history.recent = recent
  BY DEF history, kept
<1>3. /\ Weighed(w, kept) \in Nat /\ Weighed(w, calls.rest) \in Nat
      /\ Weighed(w, recent) \in Nat /\ Weighed(w, torn) \in Nat
  BY <1>1, <1>2, AccountType
<1>4. Load(w, history.elapsed, {}) = 0 /\ Load(w, history.elapsed, {} \intersect history.whole) = 0
  <2>1. {} \intersect history.whole = {}
    OBVIOUS
  <2>2. QED
    BY <2>1, LoadNone
<1>5. /\ r.row >= Weighed(w, kept) /\ r.rest >= Weighed(w, calls.rest)
      /\ r.row \in Nat /\ r.rest \in Nat
  BY <1>2 DEF Account, Sides, kept
<1>6. cur >= Weighed(w, recent)
  <2>1. cur >= 0 + Weighed(w, recent)
    BY <1>2, <1>4 DEF Open
  <2>2. QED
    BY <1>3, <2>1
<1>7. cur + r.row + r.rest = Weighed(w, kept) + Weighed(w, calls.rest) + Weighed(w, recent)
                                 + Weighed(w, torn) + 0
  BY <1>2, <1>4 DEF Account, kept
<1> DEFINE k == Weighed(w, kept)
           o == Weighed(w, calls.rest)
           n == Weighed(w, recent)
           m == Weighed(w, torn)
<1> HIDE DEF k, o, n, m
<1>8. /\ k \in Nat /\ o \in Nat /\ n \in Nat /\ m \in Nat
      /\ r.row >= k /\ r.rest >= o /\ cur >= n /\ cur + r.row + r.rest = k + o + n + m + 0
  BY <1>3, <1>5, <1>6, <1>7 DEF k, o, n, m
<1>9. r.row - k \in 0 .. m
  BY <1>5, <1>8
<1>10. QED
  BY <1>9 DEF k, m

LEMMA RowQuiet ==
    ASSUME IsFiniteSet(Threads), IsFiniteSet(Durations), RowInv, Quiet
    PROVE  /\ row.count - Sum(kept) \in 0 .. Sum(torn)
           /\ row.ticks - Sum(TimesOf(kept)) \in 0 .. Sum(TimesOf(torn))
           /\ \A b \in Bins : row.bins[b] - Sum(BinOf(b, kept)) \in 0 .. Sum(BinOf(b, torn))
           /\ \A d \in Some(kept) : d <= row.maximum
           /\ row.maximum \in {0} \union Some(kept) \union Some(torn)
<1>1. /\ RowType /\ Busy = {} /\ Counting = {} /\ Timing = {} /\ snap = "idle"
  BY QuietFacts
<1>2. /\ kept \in [Durations -> Nat] /\ torn \in [Durations -> Nat]
  BY <1>1, KeptType
<1>3. /\ Ones \in [Durations -> Nat] /\ Lengths \in [Durations -> Nat]
      /\ \A b \in Bins : OfBin(b) \in [Durations -> Nat]
      /\ Counts \in [Sides -> Nat] /\ AllTicks \in [Sides -> Nat]
      /\ \A b \in Bins : AllBins(b) \in [Sides -> Nat]
      /\ count \in Nat /\ ticks \in Nat /\ \A b \in Bins : histogram[b] \in Nat
  BY RowFacts
<1>4. row.count - Sum(kept) \in 0 .. Sum(torn)
  <2>1. Account(history, Ones, count, Counts, {}) /\ Open(history, Ones, count, {})
    BY <1>1 DEF RowInv, CountAccount
  <2>2. Counts.row - Weighed(Ones, kept) \in 0 .. Weighed(Ones, torn)
    BY <1>3, <2>1, AccountQuiet
  <2>3. Counts.row = row.count
    BY DEF Counts, Sides, row
  <2>4. QED
    BY <1>2, <2>2, <2>3, SumOfOnes
<1>5. row.ticks - Sum(TimesOf(kept)) \in 0 .. Sum(TimesOf(torn))
  <2>1. Account(history, Lengths, ticks, AllTicks, {}) /\ Open(history, Lengths, ticks, {})
    BY <1>1 DEF RowInv, TicksAccount
  <2>2. AllTicks.row - Weighed(Lengths, kept) \in 0 .. Weighed(Lengths, torn)
    BY <1>3, <2>1, AccountQuiet
  <2>3. AllTicks.row = row.ticks
    BY DEF AllTicks, Sides, row
  <2>4. QED
    BY <1>2, <2>2, <2>3, SumOfLengths
<1>6. ASSUME NEW b \in Bins
      PROVE  row.bins[b] - Sum(BinOf(b, kept)) \in 0 .. Sum(BinOf(b, torn))
  <2>1. /\ Account(history, OfBin(b), histogram[b], AllBins(b), {})
        /\ Open(history, OfBin(b), histogram[b], {})
    BY <1>1 DEF RowInv, BinAccount
  <2>2. AllBins(b).row - Weighed(OfBin(b), kept) \in 0 .. Weighed(OfBin(b), torn)
    <3>1. histogram[b] \in Nat /\ AllBins(b) \in [Sides -> Nat] /\ OfBin(b) \in [Durations -> Nat]
      BY <1>3
    <3>2. QED
      BY <2>1, <3>1, AccountQuiet
  <2>3. AllBins(b).row = row.bins[b]
    BY DEF AllBins, Sides, row
  <2>4. QED
    BY <1>2, <2>2, <2>3, SumOfBin
<1>7. /\ \A d \in Some(kept) : d <= row.maximum
      /\ row.maximum \in {0} \union Some(kept) \union Some(torn)
  <2>1. /\ \A d \in Some(calls["row"]) : d <= rows["row"].maximum
        /\ rows["row"].maximum \in {0} \union Some(calls["row"]) \union Some(torn)
                                       \union {elapsed[t] : t \in Busy \ whole}
    BY DEF RowInv, MaximumAccount, Sides
  <2>2. {elapsed[t] : t \in Busy \ whole} = {}
    BY <1>1
  <2>3. kept = calls["row"] /\ row = rows["row"]
    BY DEF kept, row
  <2>4. QED
    BY <2>1, <2>2, <2>3
<1>8. QED
  BY <1>4, <1>5, <1>6, <1>7

\* If no call is torn the row shows exactly the kept ones.
LEMMA RowExact ==
    ASSUME IsFiniteSet(Threads), IsFiniteSet(Durations), RowInv, Quiet, torn = None
    PROVE  /\ row.count = Calls /\ row.ticks = Sum(TimesOf(kept))
           /\ \A b \in Bins : row.bins[b] = Sum(BinOf(b, kept))
           /\ row.maximum \in {0} \union Some(kept)
           /\ Calls \in Nat
<1>1. /\ RowType /\ kept \in [Durations -> Nat] /\ None \in [Durations -> Nat]
      /\ row.count \in Nat /\ row.ticks \in Nat /\ row.bins \in [Bins -> Nat]
  BY QuietFacts, KeptType
<1>2. /\ Sum(None) = 0 /\ Sum(TimesOf(None)) = 0
      /\ \A b \in Bins : Sum(BinOf(b, None)) = 0
  <2>1. /\ Weighed(Ones, None) = 0 /\ Weighed(Lengths, None) = 0
        /\ \A b \in Bins : Weighed(OfBin(b), None) = 0
    BY RowFacts, WeighedNone
  <2>2. QED
    BY <1>1, <2>1, SumOfOnes, SumOfLengths, SumOfBin
<1>3. /\ Sum(kept) \in Nat /\ Sum(TimesOf(kept)) \in Nat
      /\ \A b \in Bins : Sum(BinOf(b, kept)) \in Nat
  <2>1. /\ Weighed(Ones, kept) \in Nat /\ Weighed(Lengths, kept) \in Nat
        /\ \A b \in Bins : Weighed(OfBin(b), kept) \in Nat
    BY <1>1, RowFacts, WeighedType
  <2>2. QED
    BY <1>1, <2>1, SumOfOnes, SumOfLengths, SumOfBin
<1>4. \A x \in Nat, y \in Nat : x - y \in 0 .. 0 => x = y
  OBVIOUS
<1>5. row.count = Sum(kept) /\ row.ticks = Sum(TimesOf(kept))
  <2>1. /\ row.count - Sum(kept) \in 0 .. 0 /\ row.ticks - Sum(TimesOf(kept)) \in 0 .. 0
    BY <1>2, RowQuiet
  <2>2. QED
    BY <1>1, <1>3, <1>4, <2>1
<1>6. ASSUME NEW b \in Bins PROVE row.bins[b] = Sum(BinOf(b, kept))
  <2>1. row.bins[b] - Sum(BinOf(b, kept)) \in 0 .. 0
    BY <1>2, RowQuiet
  <2>2. row.bins[b] \in Nat /\ Sum(BinOf(b, kept)) \in Nat
    BY <1>1, <1>3
  <2>3. QED
    BY <1>4, <2>1, <2>2
<1>7. row.maximum \in {0} \union Some(kept)
  <2>1. Some(torn) = {}
    BY DEF Some, None
  <2>2. QED
    BY <2>1, RowQuiet
<1>8. QED
  BY <1>3, <1>5, <1>6, <1>7 DEF Calls

LEMMA LongestShown ==
    ASSUME IsFiniteSet(Threads), IsFiniteSet(Durations), RowInv, Quiet, torn = None, Calls # 0
    PROVE  /\ row.maximum \in Some(kept)
           /\ UpTo(row.maximum) = Calls /\ Ranked(Calls) = row.maximum
<1>1. RowType
  BY QuietFacts
<1>2. kept \in [Durations -> Nat] /\ row.maximum \in Nat
  BY <1>1, KeptType
<1>3. \A d \in Some(kept) : d \in Nat /\ d <= row.maximum
  BY RowQuiet, DurationAssumption DEF Some
<1>4. Some(kept) # {}
  <2> SUFFICES ASSUME Some(kept) = {} PROVE FALSE
    OBVIOUS
  <2>1. \A d \in Durations : kept[d] = 0
    BY <1>2 DEF Some
  <2>2. Sum(kept) = 0
    BY <1>2, <2>1, SumZero
  <2>3. QED
    BY <2>2 DEF Calls
<1>5. row.maximum \in Some(kept)
  <2>1. CASE row.maximum = 0
    <3>1. \A d \in Some(kept) : d = 0
      BY <1>3, <2>1
    <3>2. QED
      BY <1>4, <2>1, <3>1
  <2>2. CASE row.maximum # 0
    BY <2>2, RowExact
  <2>3. QED
    BY <2>1, <2>2
<1> DEFINE top == row.maximum
<1>6. top \in Durations /\ kept[top] \in Nat /\ kept[top] > 0
  BY <1>2, <1>5 DEF Some
<1>7. UpTo(top) = Calls
  <2> DEFINE rest == Durations \ NotLonger(top)
  <2>1. \A d \in rest : kept[d] = 0
    <3> SUFFICES ASSUME NEW d \in Durations, kept[d] # 0 PROVE d \in NotLonger(top)
      OBVIOUS
    <3>1. d \in Some(kept)
      BY <1>2 DEF Some
    <3>2. QED
      BY <1>3, <3>1 DEF NotLonger
  <2>2. /\ NotLonger(top) \in SUBSET Durations /\ rest \in SUBSET Durations
        /\ Durations = NotLonger(top) \union rest /\ NotLonger(top) \intersect rest = {}
    BY DEF NotLonger
  <2> HIDE DEF rest
  <2>3. CallsIn(rest) = 0
    BY <1>2, <2>1, <2>2, PartZero DEF CallsIn
  <2>4. CallsIn(Durations) = CallsIn(NotLonger(top)) + CallsIn(rest)
    BY <1>2, <2>2, PartUnion DEF CallsIn
  <2>5. CallsIn(NotLonger(top)) \in Nat /\ CallsIn(NotLonger(top)) = UpTo(top)
    BY <1>1, <2>2, CallsForms, CallsLess
  <2>6. QED
    BY <1>1, <2>3, <2>4, <2>5, CallsForms
<1>8. Calls \in Nat \ {0}
  BY <1>2, SumType DEF Calls
<1>9. HasRank(top, Calls)
  BY <1>5, <1>6, <1>7, <1>8 DEF HasRank
<1>10. top = Ranked(Calls)
  BY <1>1, <1>6, <1>7, <1>8, <1>9, RankExists
<1>11. QED
  BY <1>5, <1>7, <1>10

LEMMA PercentileShown ==
    ASSUME IsFiniteSet(Threads), IsFiniteSet(Durations), RowInv, Quiet, torn = None, Calls # 0
    PROVE  PercentileBin = {Bin(Ranked(Rank))}
<1>1. /\ RowType /\ kept \in [Durations -> Nat]
      /\ row.count = Calls /\ \A b \in Bins : row.bins[b] = Sum(BinOf(b, kept))
  BY QuietFacts, KeptType, RowExact
<1>2. Calls \in Nat \ {0}
  BY <1>1, SumType DEF Calls
<1>3. /\ Rank \in Nat \ {0} /\ Rank <= Calls
      /\ \A seen \in Nat : seen * 100 >= Calls * Percent <=> seen >= Rank
  BY <1>2, RankOf DEF Rank
<1> DEFINE r == Ranked(Rank)
           bin == Bin(Ranked(Rank))
<1>4. HasRank(r, Rank)
  <2>1. /\ row.maximum \in Durations /\ UpTo(row.maximum) >= Rank
    BY <1>2, <1>3, LongestShown DEF Some
  <2>2. QED
    BY <1>1, <1>3, <2>1, RankExists
<1>5. /\ r \in Durations /\ r \in Nat /\ UpTo(r) >= Rank /\ UpTo(r) - kept[r] < Rank
      /\ bin \in Bins
  BY <1>4, DurationAssumption, BinType DEF HasRank, Some
<1>6. /\ UpTo(r) = CallsIn(NotLonger(r)) /\ CallsIn(NotLonger(r)) = CallsIn(Shorter(r)) + kept[r]
      /\ kept[r] \in Nat
  BY <1>1, <1>5, CallsForms, CallsUpTo
<1> HIDE DEF r, bin
<1>7. \A b \in Bins : Seen(b) = CallsIn(InBins(b)) /\ Seen(b) \in Nat
  <2>1. \A b \in Bins : InBins(b) \in SUBSET Durations
    BY DEF InBins
  <2>2. QED
    BY <1>1, <2>1, SeenCounts, CallsLess
<1>8. \A b \in Bins : Reaches(b) <=> Seen(b) >= Rank
  BY <1>1, <1>3, <1>7 DEF Reaches
<1>9. Reaches(bin)
  <2>1. NotLonger(r) \subseteq InBins(bin)
    <3>1. \A e \in Durations : e <= r => Bin(e) <= bin
      BY <1>5, DurationAssumption DEF Bin, bin, r
    <3>2. QED
      BY <3>1, Zenon DEF NotLonger, InBins
  <2>2. NotLonger(r) \in SUBSET Durations /\ InBins(bin) \in SUBSET Durations
    BY DEF NotLonger, InBins
  <2>3. /\ CallsIn(NotLonger(r)) <= CallsIn(InBins(bin))
        /\ CallsIn(NotLonger(r)) \in Nat /\ CallsIn(InBins(bin)) \in Nat
    BY <1>1, <2>1, <2>2, CallsLess
  <2>4. QED
    BY <1>3, <1>5, <1>6, <1>7, <1>8, <2>3
<1>10. ASSUME NEW c \in Bins, c < bin
       PROVE  ~Reaches(c)
  <2>1. InBins(c) \subseteq Shorter(r)
    <3>1. \A e \in Durations : Bin(e) <= c => e < r
      BY <1>5, <1>10, DurationAssumption DEF Bin, bin, r
    <3>2. QED
      BY <3>1, Zenon DEF Shorter, InBins
  <2>2. Shorter(r) \in SUBSET Durations /\ InBins(c) \in SUBSET Durations
    BY DEF Shorter, InBins
  <2>3. /\ CallsIn(InBins(c)) <= CallsIn(Shorter(r))
        /\ CallsIn(InBins(c)) \in Nat /\ CallsIn(Shorter(r)) \in Nat
    BY <1>1, <2>1, <2>2, CallsLess
  <2>4. QED
    BY <1>3, <1>5, <1>6, <1>7, <1>8, <2>3
<1>11. ASSUME NEW b \in Bins
       PROVE  Reaches(b) /\ (\A c \in 0 .. b : Reaches(c) => c = b) <=> b = bin
  <2>1. b \in Nat /\ bin \in Nat /\ 0 .. b \subseteq Bins /\ bin \in Bins
    BY <1>5
  <2>2. CASE b < bin
    BY <1>10, <2>1, <2>2
  <2>3. CASE b = bin
    <3>1. \A c \in 0 .. bin : Reaches(c) => c = bin
      <4> TAKE c \in 0 .. bin
      <4>1. c = bin \/ c < bin
        BY <2>1
      <4>2. c \in Bins
        BY <2>1, <2>3
      <4>3. QED
        BY <1>10, <4>1, <4>2
    <3>2. QED
      BY <1>9, <2>3, <3>1
  <2>4. CASE b > bin
    <3>1. bin \in 0 .. b /\ bin # b
      BY <2>1, <2>4
    <3>2. QED
      BY <1>9, <3>1
  <2>5. QED
    BY <2>1, <2>2, <2>3, <2>4
<1>12. PercentileBin = {bin}
  BY <1>5, <1>11 DEF PercentileBin
<1>13. QED
  BY <1>12 DEF bin

(***************************************************************************)
(* Any finite number of threads and durations, and any scenes: the row of  *)
(* a scene shows the calls of its windows, off by at most the torn ones,   *)
(* and is exactly theirs, the bin of the percentile included, if no call   *)
(* was torn.                                                               *)
(***************************************************************************)
THEOREM RowIsRight ==
    ASSUME IsFiniteSet(Threads), IsFiniteSet(Durations)
    PROVE  RowSpec => []RowAccounts
<1>1. ASSUME RowInv, Quiet, torn = None
      PROVE  Phase = Exact
  <2>1. row.count = Calls /\ row.ticks = Sum(TimesOf(kept))
    BY <1>1, RowExact
  <2>2. CASE Calls = 0
    BY <2>1, <2>2 DEF Phase, Exact
  <2>3. CASE Calls # 0
    <3>1. Ranked(Calls) = row.maximum
      BY <1>1, <2>3, LongestShown
    <3>2. PercentileBin = {Bin(Ranked(Rank))}
      BY <1>1, <2>3, PercentileShown
    <3>3. QED
      BY <2>1, <2>3, <3>1, <3>2 DEF Phase, Exact
  <2>4. QED
    BY <2>2, <2>3
<1>2. RowInv => RowAccounts
  BY <1>1, RowQuiet DEF RowAccounts
<1>3. QED
  BY <1>2, RowInvHolds, PTL
==============================================================================
