-------------------------------- MODULE Meter --------------------------------
(***************************************************************************)
(* A meter of the performance module (Meter.cs).  Hooks on any thread Stop *)
(* it after each measured call, with interlocked steps and no lock; the    *)
(* main thread takes a Snapshot of it for every window, counter after      *)
(* counter, while the hooks of other threads go on.                        *)
(*                                                                         *)
(* A duration is a number of quarter milliseconds.  What the windows show  *)
(* is added up in shown: count, ticks and bins as sums over all windows,   *)
(* maximum as the largest one.                                             *)
(***************************************************************************)
EXTENDS Naturals, FiniteSets

CONSTANTS
    Threads,    \* the threads whose hooks use the meter
    Main,       \* the one of them that takes snapshots
    Durations,  \* the durations a call may take
    Last,       \* the last bin, of all longer durations: 127
    MaxStops    \* bound: number of measured calls

ASSUME MainAssumption     == Main \in Threads
ASSUME DurationAssumption == Durations \subseteq Nat
ASSUME BoundAssumption    == Last \in Nat /\ MaxStops \in Nat

VARIABLES
    count, ticks, maximum, histogram,   \* the counters
    pc,         \* "idle", or the next step of Stop: "count", "ticks",
                \* "read": the maximum, "raise": it, "bin"
    elapsed,    \* the duration each Stop records, 0 outside of it
    old,        \* the maximum it has seen
    snap,       \* "idle", or what Snapshot takes next: "bins", "count",
                \* "ticks", "maximum"
    next,       \* the next bin it takes
    shown,      \* what the windows have shown so far
    samples,    \* history: how often each duration was measured
    returned    \* history: the durations whose Stop has returned

counterVars == <<count, ticks, maximum, histogram>>
stopVars    == <<pc, elapsed, old, samples, returned>>
snapVars    == <<snap, next, shown>>
vars == <<counterVars, stopVars, snapVars>>

Bins == 0 .. Last

\* The bin of a duration.
Bin(d) == IF d < Last THEN d ELSE Last

Zero == [b \in Bins |-> 0]

\* The sum of the values of f, by the number of their units.
Units(f) == UNION {{x} \X (1 .. f[x]) : x \in DOMAIN f}
Sum(f)   == Cardinality(Units(f))

Init ==
    /\ count = 0 /\ ticks = 0 /\ maximum = 0 /\ histogram = Zero
    /\ pc = [t \in Threads |-> "idle"]
    /\ elapsed = [t \in Threads |-> 0] /\ old = [t \in Threads |-> 0]
    /\ snap = "idle" /\ next = 0
    /\ shown = [count |-> 0, ticks |-> 0, maximum |-> 0, bins |-> Zero]
    /\ samples = [d \in Durations |-> 0] /\ returned = {}

\* Mutated form, for the mutation runs: the bins last, as Stop writes them.
CountFirst == [idle |-> "count", count |-> "ticks", ticks |-> "maximum",
               maximum |-> "bins", bins |-> "idle"]

\* What Snapshot takes after each step.
SnapOrder == [idle |-> "bins", bins |-> "count", count |-> "ticks",
              ticks |-> "maximum", maximum |-> "idle"]

Goto(t, step) == pc' = [pc EXCEPT ![t] = step]

(***************************************************************************)
(* Mutated forms, for the mutation runs.                                   *)
(***************************************************************************)

\* The maximum is stored without a comparison: a larger one may be lost.
RaiseStores(t) ==
    /\ pc[t] = "raise"
    /\ maximum' = elapsed[t]
    /\ Goto(t, "bin")
    /\ UNCHANGED <<count, ticks, histogram, elapsed, old, samples, returned, snapVars>>

\* The counter is read when the window's record is built, and zeroed later.
SnapTicksStale ==
    /\ snap = "ticks"
    /\ shown' = [shown EXCEPT !.ticks = shown.ticks + ticks]
    /\ snap' = SnapOrder.ticks
    /\ UNCHANGED <<counterVars, stopVars, next>>

(***************************************************************************)
(* Stop                                                                    *)
(***************************************************************************)

\* A measured call is over.
Stop(t, d) ==
    /\ pc[t] = "idle" /\ (t = Main => snap = "idle")
    /\ Sum(samples) < MaxStops
    /\ elapsed' = [elapsed EXCEPT ![t] = d]
    /\ samples' = [samples EXCEPT ![d] = samples[d] + 1]
    /\ Goto(t, "count")
    /\ UNCHANGED <<counterVars, old, returned, snapVars>>

StopCount(t) ==
    /\ pc[t] = "count"
    /\ count' = count + 1
    /\ Goto(t, "ticks")
    /\ UNCHANGED <<ticks, maximum, histogram, elapsed, old, samples, returned, snapVars>>

StopTicks(t) ==
    /\ pc[t] = "ticks"
    /\ ticks' = ticks + elapsed[t]
    /\ Goto(t, "read")
    /\ UNCHANGED <<count, maximum, histogram, elapsed, old, samples, returned, snapVars>>

\* The test of the loop, with the maximum as it is seen now.
See(t) ==
    /\ old' = [old EXCEPT ![t] = maximum]
    /\ Goto(t, IF elapsed[t] > maximum THEN "raise" ELSE "bin")

ReadMaximum(t) ==
    /\ pc[t] = "read"
    /\ See(t)
    /\ UNCHANGED <<counterVars, elapsed, samples, returned, snapVars>>

\* CompareExchange: it stores the duration if the maximum is still the one
\* seen before, and sees the maximum again if not.
Raise(t) ==
    /\ pc[t] = "raise"
    /\ \/ /\ maximum = old[t]
          /\ maximum' = elapsed[t]
          /\ Goto(t, "bin")
          /\ UNCHANGED old
       \/ /\ maximum # old[t]
          /\ See(t)
          /\ UNCHANGED maximum
    /\ UNCHANGED <<count, ticks, histogram, elapsed, samples, returned, snapVars>>

StopBin(t) ==
    /\ pc[t] = "bin"
    /\ histogram' = [histogram EXCEPT ![Bin(elapsed[t])] = histogram[Bin(elapsed[t])] + 1]
    /\ returned' = returned \union {elapsed[t]}
    /\ elapsed' = [elapsed EXCEPT ![t] = 0] /\ old' = [old EXCEPT ![t] = 0]
    /\ Goto(t, "idle")
    /\ UNCHANGED <<count, ticks, maximum, samples, snapVars>>

Stopping(t) == StopCount(t) \/ StopTicks(t) \/ ReadMaximum(t) \/ Raise(t) \/ StopBin(t)

(***************************************************************************)
(* Snapshot: an exchange with zero for each counter, the bins first.       *)
(***************************************************************************)

Snapshot ==
    /\ snap = "idle" /\ pc[Main] = "idle"
    /\ snap' = SnapOrder.idle
    /\ UNCHANGED <<counterVars, stopVars, next, shown>>

SnapBin ==
    /\ snap = "bins"
    /\ shown' = [shown EXCEPT !.bins =
                    [shown.bins EXCEPT ![next] = shown.bins[next] + histogram[next]]]
    /\ histogram' = [histogram EXCEPT ![next] = 0]
    /\ \/ next < Last /\ next' = next + 1 /\ UNCHANGED snap
       \/ next = Last /\ next' = 0 /\ snap' = SnapOrder.bins
    /\ UNCHANGED <<count, ticks, maximum, stopVars>>

SnapCount ==
    /\ snap = "count"
    /\ shown' = [shown EXCEPT !.count = shown.count + count]
    /\ count' = 0
    /\ snap' = SnapOrder.count
    /\ UNCHANGED <<ticks, maximum, histogram, stopVars, next>>

SnapTicks ==
    /\ snap = "ticks"
    /\ shown' = [shown EXCEPT !.ticks = shown.ticks + ticks]
    /\ ticks' = 0
    /\ snap' = SnapOrder.ticks
    /\ UNCHANGED <<count, maximum, histogram, stopVars, next>>

SnapMaximum ==
    /\ snap = "maximum"
    /\ shown' = [shown EXCEPT !.maximum =
                    IF maximum > shown.maximum THEN maximum ELSE shown.maximum]
    /\ maximum' = 0
    /\ snap' = SnapOrder.maximum
    /\ UNCHANGED <<count, ticks, histogram, stopVars, next>>

Snapping == SnapBin \/ SnapCount \/ SnapTicks \/ SnapMaximum

Next ==
    \/ \E t \in Threads : (\E d \in Durations : Stop(t, d)) \/ Stopping(t)
    \/ Snapshot \/ Snapping

Spec == Init /\ [][Next]_vars

(***************************************************************************)
(* Properties                                                              *)
(***************************************************************************)

TypeOK ==
    /\ count \in Nat /\ ticks \in Nat /\ maximum \in Nat
    /\ histogram \in [Bins -> Nat]
    /\ pc \in [Threads -> {"idle", "count", "ticks", "read", "raise", "bin"}]
    /\ elapsed \in [Threads -> Nat] /\ old \in [Threads -> Nat]
    /\ snap \in {"idle", "bins", "count", "ticks", "maximum"} /\ next \in Bins
    /\ shown \in [count : Nat, ticks : Nat, maximum : Nat, bins : [Bins -> Nat]]
    /\ samples \in [Durations -> Nat] /\ returned \in SUBSET Nat

\* The calls' times, and the calls of a bin, by duration.
Times    == [d \in Durations |-> d * samples[d]]
InBin(b) == [d \in {e \in Durations : Bin(e) = b} |-> samples[d]]

\* Each measured call is in exactly one window, or still in the counters: its
\* count, its ticks and its bin are neither lost nor shown twice, whatever
\* snapshots happen in the middle of its Stop.
SamplesKept ==
    (\A t \in Threads : pc[t] = "idle") =>
        /\ count + shown.count = Sum(samples)
        /\ ticks + shown.ticks = Sum(Times)
        /\ \A b \in Bins : histogram[b] + shown.bins[b] = Sum(InBin(b))

\* The longest calls are never lost: a duration whose Stop has returned is at
\* most the maximum of the window that is open or of one that was shown.
MaximumKept == \A d \in returned : d <= maximum \/ d <= shown.maximum

\* Between snapshots, all windows together show no more calls in the bins
\* than they count, and no longer calls than their maximum: the bins are the
\* last thing Stop writes and the first thing Snapshot takes.
BinsCovered ==
    snap = "idle" =>
        /\ Sum(shown.bins) <= shown.count
        /\ \A b \in Bins : shown.bins[b] > 0 => b <= shown.maximum

(***************************************************************************)
(* The inductive invariant of MaximumKept.                                 *)
(***************************************************************************)

\* A Stop that has passed the loop has its duration covered, and one that is
\* about to raise the maximum has seen a smaller one.
LoopPassed ==
    \A t \in Threads :
        /\ pc[t] = "bin" => elapsed[t] <= maximum \/ elapsed[t] <= shown.maximum
        /\ pc[t] = "raise" => old[t] < elapsed[t]

IInv == TypeOK /\ LoopPassed /\ MaximumKept

(***************************************************************************)
(* The inductive invariant of SamplesKept: what the Stops under way have   *)
(* yet to add makes up the difference, counter by counter.                 *)
(***************************************************************************)

\* What each thread has yet to add: to the count, to the ticks, to a bin.
ToCount  == [t \in Threads |-> IF pc[t] = "count" THEN 1 ELSE 0]
ToTicks  == [t \in Threads |-> IF pc[t] \in {"count", "ticks"} THEN elapsed[t] ELSE 0]
ToBin(b) == [t \in Threads |-> IF pc[t] # "idle" /\ Bin(elapsed[t]) = b THEN 1 ELSE 0]

CountKept == count + shown.count + Sum(ToCount) = Sum(samples)
TicksKept == ticks + shown.ticks + Sum(ToTicks) = Sum(Times)
BinsKept  == \A b \in Bins : histogram[b] + shown.bins[b] + Sum(ToBin(b)) = Sum(InBin(b))

(***************************************************************************)
(* The inductive invariant of BinsCovered.                                 *)
(***************************************************************************)

\* The calls that are counted and have no bin.
Counted == [t \in Threads |-> IF pc[t] \in {"idle", "count"} THEN 0 ELSE 1]

\* Each call in a bin was counted, and has been shown as counted as soon as
\* a snapshot that shows it in a bin has got past the count.
BinsCounted ==
    /\ Sum(histogram) + Sum(shown.bins) + Sum(Counted) = count + shown.count
    /\ snap \notin {"bins", "count"} => Sum(shown.bins) <= shown.count

\* No bin is used above the longest call, and none is shown above the longest
\* call shown, but for a snapshot that has yet to take the maximum.
BinsBelow ==
    \A b \in Bins :
        /\ histogram[b] > 0 => b <= maximum \/ b <= shown.maximum
        /\ shown.bins[b] > 0 =>
               b <= shown.maximum \/ (snap # "idle" /\ b <= maximum)

KeptInv    == IInv /\ CountKept /\ TicksKept /\ BinsKept
CoveredInv == IInv /\ BinsCounted /\ BinsBelow
==============================================================================
