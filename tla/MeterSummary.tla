---------------------------- MODULE MeterSummary ----------------------------
(***************************************************************************)
(* What summarize-performance.py makes of the windows of one meter for one *)
(* scene.  A window counts for the scene if the game was in it when the    *)
(* window began and when it ended; the first one, which began at startup,  *)
(* counts for none.  The windows that count are added up to a row, and it  *)
(* shows the number of calls, their time, the longest one and the bin that *)
(* holds the percentile.  All windows were written (see ProfileWriter).    *)
(*                                                                         *)
(* Histories follow the calls: a call whose Stop met no snapshot belongs   *)
(* to one window; one whose Stop did may be torn between two.              *)
(***************************************************************************)
EXTENDS Meter

CONSTANTS
    Scenes,     \* the contexts in which a window can begin and end
    Scene,      \* the one the row is for
    Startup,    \* where the first window begins
    Percent     \* the percentile: 95

ASSUME SceneAssumption   == Scene \in Scenes /\ Startup \notin Scenes
ASSUME PercentAssumption == Percent \in 1 .. 100

VARIABLES
    contextStart,   \* where the open window began
    side,           \* where the window that is being taken counts
    rows,           \* what the windows that count, the row, and the rest show
    calls,          \* history: the calls in them that met no snapshot
    recent,         \* history: such calls in the open window
    torn,           \* history: the calls whose Stop met a snapshot
    whole           \* the Stops under way that have met none

historyVars == <<calls, recent, torn, whole>>
rowVars == <<contextStart, side, rows, historyVars>>

Sides == {"row", "rest"}

None == [d \in Durations |-> 0]

RowInit ==
    /\ Init
    /\ contextStart = Startup /\ side = "rest"
    /\ rows = [k \in Sides |-> [count |-> 0, ticks |-> 0, maximum |-> 0, bins |-> Zero]]
    /\ calls = [k \in Sides |-> None] /\ recent = None /\ torn = None /\ whole = {}

(***************************************************************************)
(* Stop, with the histories                                                *)
(***************************************************************************)

RowStop(t, d) ==
    /\ Stop(t, d)
    /\ whole' = IF snap = "idle" THEN whole \union {t} ELSE whole
    /\ UNCHANGED <<contextStart, side, rows, calls, recent, torn>>

RowStopping(t) ==
    /\ StopCount(t) \/ StopTicks(t) \/ ReadMaximum(t) \/ Raise(t)
    /\ UNCHANGED rowVars

RowStopBin(t) ==
    /\ StopBin(t)
    /\ IF t \in whole
       THEN recent' = [recent EXCEPT ![elapsed[t]] = recent[elapsed[t]] + 1] /\ UNCHANGED torn
       ELSE torn' = [torn EXCEPT ![elapsed[t]] = torn[elapsed[t]] + 1] /\ UNCHANGED recent
    /\ whole' = whole \ {t}
    /\ UNCHANGED <<contextStart, side, rows, calls>>

(***************************************************************************)
(* Snapshot and the row                                                    *)
(***************************************************************************)

\* The window ends in context c, and may lie outside of the first and the last
\* window that are asked for.
RowSnapshot(c, within) ==
    /\ Snapshot
    /\ side' = IF within /\ contextStart = c /\ c = Scene THEN "row" ELSE "rest"
    /\ contextStart' = c
    /\ whole' = {}
    /\ UNCHANGED <<rows, calls, recent, torn>>

RowBin ==
    /\ SnapBin
    /\ rows' = [rows EXCEPT ![side].bins =
                   [@ EXCEPT ![next] = rows[side].bins[next] + histogram[next]]]
    /\ UNCHANGED <<contextStart, side, historyVars>>

RowCount ==
    /\ SnapCount
    /\ rows' = [rows EXCEPT ![side].count = @ + count]
    /\ UNCHANGED <<contextStart, side, historyVars>>

RowTicks ==
    /\ SnapTicks
    /\ rows' = [rows EXCEPT ![side].ticks = @ + ticks]
    /\ UNCHANGED <<contextStart, side, historyVars>>

RowMaximum ==
    /\ SnapMaximum
    /\ rows' = [rows EXCEPT ![side].maximum = IF maximum > @ THEN maximum ELSE @]
    /\ calls' = [calls EXCEPT ![side] = [d \in Durations |-> calls[side][d] + recent[d]]]
    /\ recent' = None /\ side' = "rest"
    /\ UNCHANGED <<contextStart, torn, whole>>

RowSnapping == RowBin \/ RowCount \/ RowTicks \/ RowMaximum

RowNext ==
    \/ \E t \in Threads : (\E d \in Durations : RowStop(t, d)) \/ RowStopping(t) \/ RowStopBin(t)
    \/ \E c \in Scenes, within \in BOOLEAN : RowSnapshot(c, within)
    \/ RowSnapping

RowSpec == RowInit /\ [][RowNext]_<<vars, rowVars>>

(***************************************************************************)
(* The row                                                                 *)
(***************************************************************************)

row == rows.row

\* The calls in the bins up to b, the running sum of the loop.
Seen(b) == Sum([c \in 0 .. b |-> row.bins[c]])

\* Mutated form, for the mutation runs: a bin that holds the percentile
\* exactly is passed over.
ReachesLate(b) == Seen(b) * 100 > row.count * Percent

Reaches(b) == Seen(b) * 100 >= row.count * Percent

\* The first bin at which the loop breaks, or none.
PercentileBin == {b \in Bins : Reaches(b) /\ \A c \in 0 .. b : Reaches(c) => c = b}

\* The meter's row, if it has any calls.
Phase ==
    IF row.count = 0 THEN {}
    ELSE {[calls |-> row.count, ticks |-> row.ticks,
           maximum |-> row.maximum, percentile |-> PercentileBin]}

(***************************************************************************)
(* The property                                                            *)
(***************************************************************************)

\* The calls that are certain to be in the row.
kept == calls.row

\* Times and bins of calls, by duration.
TimesOf(f)    == [d \in Durations |-> d * f[d]]
BinOf(b, f) == [d \in {e \in Durations : Bin(e) = b} |-> f[d]]

Some(f) == {d \in Durations : f[d] > 0}

\* How many of the kept calls took at most d.
UpTo(d) == Sum([e \in {x \in Durations : x <= d} |-> kept[e]])

\* The duration of the given rank among them, the shortest first.
Ranked(k) == CHOOSE d \in Some(kept) : UpTo(d) >= k /\ UpTo(d) - kept[d] < k

Calls == Sum(kept)

\* The rank of the percentile, rounded up.
Rank == (Calls * Percent + 99) \div 100

Exact == IF Calls = 0 THEN {}
         ELSE {[calls |-> Calls,
                ticks |-> Sum(TimesOf(kept)),
                maximum |-> Ranked(Calls),
                percentile |-> {Bin(Ranked(Rank))}]}

\* No hook is inside Stop, and no snapshot is being taken.
Quiet == snap = "idle" /\ \A t \in Threads : pc[t] = "idle"

\* The row of a scene shows the calls of its windows: none of them is missing
\* in its count, its time, a bin or its maximum, and each is off by at most the
\* calls whose Stop met a snapshot (SwitchPerformance/README.md:73-77).  If none
\* ever did, the row is that of the calls: their number, their time, the longest
\* one, and the bin of the call at the percentile's rank, whatever scenes the
\* other windows began and ended in.
RowAccounts ==
    Quiet =>
        /\ row.count - Sum(kept) \in 0 .. Sum(torn)
        /\ row.ticks - Sum(TimesOf(kept)) \in 0 .. Sum(TimesOf(torn))
        /\ \A b \in Bins : row.bins[b] - Sum(BinOf(b, kept)) \in 0 .. Sum(BinOf(b, torn))
        /\ \A d \in Some(kept) : d <= row.maximum
        /\ row.maximum \in {0} \union Some(kept) \union Some(torn)
        /\ torn = None => Phase = Exact

(***************************************************************************)
(* The inductive invariant of RowAccounts: an account of each of the       *)
(* counters that are added up, in calls weighed by what one adds to it.    *)
(***************************************************************************)

\* What a call of each duration adds: to the count, to the time, to a bin.
Ones     == [d \in Durations |-> 1]
Lengths  == [d \in Durations |-> d]
OfBin(b) == [d \in Durations |-> IF Bin(d) = b THEN 1 ELSE 0]

\* What calls add, and what the threads of S do, for the durations in e.
Weighed(w, f) == Sum([d \in Durations |-> w[d] * f[d]])
Load(w, e, S) == Sum([t \in Threads |-> IF t \in S THEN w[e[t]] ELSE 0])

history == [calls |-> calls, recent |-> recent, torn |-> torn, whole |-> whole,
            side |-> side, elapsed |-> elapsed]

\* An account: r is what the rows show, cur the counter, S the Stops under way
\* that have added to it.  The rows show at least the calls of their windows,
\* and with the counter they show each call once.
Account(h, w, cur, r, S) ==
    /\ \A k \in Sides : r[k] >= Weighed(w, h.calls[k])
    /\ cur >= Load(w, h.elapsed, S \intersect h.whole)
    /\ cur + r.row + r.rest =
          Weighed(w, h.calls.row) + Weighed(w, h.calls.rest) + Weighed(w, h.recent)
              + Weighed(w, h.torn) + Load(w, h.elapsed, S)

\* The calls of the open window are in the counter, until the snapshot takes
\* it, and are in the row from then on.
Open(h, w, cur, S) == cur >= Load(w, h.elapsed, S \intersect h.whole) + Weighed(w, h.recent)
Taken(h, w, r)     == r[h.side] >= Weighed(w, h.calls[h.side]) + Weighed(w, h.recent)

Counting == {t \in Threads : pc[t] \notin {"idle", "count"}}
Timing   == {t \in Threads : pc[t] \in {"read", "raise", "bin"}}
Busy     == {t \in Threads : pc[t] # "idle"}

Counts     == [k \in Sides |-> rows[k].count]
AllTicks   == [k \in Sides |-> rows[k].ticks]
AllBins(b) == [k \in Sides |-> rows[k].bins[b]]

CountAccount ==
    /\ Account(history, Ones, count, Counts, Counting)
    /\ IF snap \in {"ticks", "maximum"} THEN Taken(history, Ones, Counts)
       ELSE Open(history, Ones, count, Counting)

TicksAccount ==
    /\ Account(history, Lengths, ticks, AllTicks, Timing)
    /\ IF snap = "maximum" THEN Taken(history, Lengths, AllTicks)
       ELSE Open(history, Lengths, ticks, Timing)

BinAccount(b) ==
    /\ Account(history, OfBin(b), histogram[b], AllBins(b), {})
    /\ IF snap \in {"count", "ticks", "maximum"} \/ (snap = "bins" /\ b < next)
       THEN Taken(history, OfBin(b), AllBins(b))
       ELSE Open(history, OfBin(b), histogram[b], {})

\* The maxima cover the calls of their windows, and each is of a call.
MaximumAccount ==
    /\ \A k \in Sides :
          /\ \A d \in Some(calls[k]) : d <= rows[k].maximum
          /\ rows[k].maximum \in {0} \union Some(calls[k]) \union Some(torn)
                                     \union {elapsed[t] : t \in Busy \ whole}
    /\ \A d \in Some(recent) : d <= maximum
    /\ \A t \in whole : pc[t] = "bin" => elapsed[t] <= maximum
    /\ maximum \in {0} \union Some(recent) \union Some(torn) \union {elapsed[t] : t \in Busy}

RowType ==
    /\ rows \in [Sides -> [count : Nat, ticks : Nat, maximum : Nat, bins : [Bins -> Nat]]]
    /\ calls \in [Sides -> [Durations -> Nat]] /\ side \in Sides
    /\ recent \in [Durations -> Nat] /\ torn \in [Durations -> Nat]
    /\ whole \subseteq Busy /\ \A t \in Busy : elapsed[t] \in Durations
    /\ snap # "idle" => whole = {}
    /\ snap # "bins" => next = 0

RowInv ==
    IInv /\ RowType /\ CountAccount /\ TicksAccount /\ (\A b \in Bins : BinAccount(b))
        /\ MaximumAccount
==============================================================================
