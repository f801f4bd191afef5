--------------------------- MODULE ProfileSummary ---------------------------
(***************************************************************************)
(* What the records of a profile say, and what summarize-performance.py    *)
(* can tell from those that reached a complete file.  Load emits the start *)
(* record before any hook is installed; then the main thread emits the     *)
(* windows of Snapshot, and every thread the records of its hooks; Unload  *)
(* emits the stop record.  Windows and the stop record carry the counter   *)
(* of dropped records as it was when they were made.                       *)
(*                                                                         *)
(* An incomplete last file is not in written: the script does not get past *)
(* it.                                                                     *)
(***************************************************************************)
EXTENDS ProfileWriter, SequencesExt, FiniteSetsExt

VARIABLES
    content,    \* the content of the records emitted so far, by number
    window,     \* the index of the next window
    ended       \* has Snapshot failed? No window is taken any more.

summaryVars == <<content, window, ended>>
allVars     == <<vars, summaryVars>>

SummaryInit == Init /\ content = <<>> /\ window = 0 /\ ended = FALSE

\* The start record has gone through Emit, and hooks are being installed.
Loaded == content # <<>> /\ emitting[Main] # 1

Record(kind) == [kind |-> kind, index |-> 0, dropped |-> 0]

Says(record) == content' = Append(content, record)

\* Load emits the start record.
LoadStart ==
    /\ content = <<>>
    /\ EmitEnter(Main) /\ Says(Record("start"))
    /\ UNCHANGED <<window, ended>>

\* A hook emits a record of its own.
Hook(t) ==
    /\ Loaded
    /\ EmitEnter(t) /\ Says(Record("hook"))
    /\ UNCHANGED <<window, ended>>

\* Mutated form, for the mutation runs: only the stop record has the counter.
SnapshotUncounted ==
    /\ Loaded /\ ~ended
    /\ EmitEnter(Main)
    /\ Says([Record("window") EXCEPT !.index = window])
    /\ window' = window + 1
    /\ UNCHANGED ended

\* Snapshot, up to the test of stopped in Emit.
Snapshot ==
    /\ Loaded /\ ~ended
    /\ EmitEnter(Main)
    /\ Says([kind |-> "window", index |-> window, dropped |-> dropped])
    /\ window' = window + 1
    /\ UNCHANGED ended

\* Something in Snapshot throws, before or after the index was taken.
SnapshotFails ==
    /\ Loaded /\ ~ended
    /\ EmitEnter(Main) /\ Says(Record("snapshotFailure"))
    /\ window' \in {window, window + 1}
    /\ ended' = TRUE

UnloadEmits ==
    /\ Loaded
    /\ UnloadEnter
    /\ Says([Record("stop") EXCEPT !.dropped = dropped])
    /\ UNCHANGED <<window, ended>>

\* The steps that make no record.
Elsewhere == (\E t \in Threads : EmitAdd(t)) \/ Writer \/ Unload \/ Exit

SummaryNext ==
    \/ LoadStart \/ Snapshot \/ SnapshotFails \/ UnloadEmits
    \/ \E t \in Threads : Hook(t)
    \/ Elsewhere /\ UNCHANGED summaryVars

SummarySpec == SummaryInit /\ [][SummaryNext]_allVars /\ Fairness

(***************************************************************************)
(* The summary.                                                            *)
(***************************************************************************)

\* The records of the files.
Read == {content[r] : r \in Range(written)}

Dropped == Max({record.dropped : record \in Read})

Starts == {r \in Range(written) : content[r].kind = "start"}

\* The script stops unless it finds one start record.  windows is what it has
\* read, not yet divided into scenes.
Summary ==
    IF Cardinality(Starts) # 1 THEN {}
    ELSE {[windows  |-> {r.index : r \in {x \in Read : x.kind = "window"}},
           failures |-> \E r \in Read : r.kind = "snapshotFailure",
           dropped  |-> Dropped]}

(***************************************************************************)
(* The property                                                            *)
(***************************************************************************)

\* The windows that should be there, the last one being there.
Missing(windows) == IF windows = {} THEN {} ELSE (0 .. Max(windows)) \ windows

\* However many records were dropped, and wherever a write error or the end of
\* the process cut the files short, there is a summary of them, and it never
\* passes a profile with holes for a whole one: it reports at least as many
\* dropped records as windows are missing (summarize-performance.py:17-32,
\* README.md of SwitchPerformance:68-70).
GapsReported ==
    written # <<>> =>
        \E summary \in Summary :
            Cardinality(Missing(summary.windows)) <= summary.dropped

(***************************************************************************)
(* The inductive invariant.                                                *)
(***************************************************************************)

IsWindow(r) == content[r].kind = "window"

Indexes(records) == {content[r].index : r \in {x \in records : IsWindow(x)}}

\* The windows made, those the queue took, and the one being added.
Taken  == Indexes(DOMAIN content)
Kept   == Indexes(Range(accepted))
InHand == Indexes({emitting[Main]} \ {0})

Kinds == {"start", "hook", "window", "snapshotFailure", "stop"}

\* Every record that passed the test of stopped has a content.
Contents == /\ content \in Seq([kind : Kinds, index : Nat, dropped : Nat])
            /\ Len(content) = emitted
            /\ \A r \in DOMAIN content : content[r].dropped <= dropped
            /\ \A k \in 1 .. Len(accepted) : accepted[k] \in DOMAIN content
            /\ window \in Nat /\ ended \in BOOLEAN

\* Load emits into an empty queue, before any other thread knows of it.
StartFirst == /\ \A r \in DOMAIN content : content[r].kind = "start" <=> r = 1
              /\ accepted # <<>> => accepted[1] = 1
              /\ Loaded => accepted # <<>>
              /\ ~Loaded => /\ accepted = <<>> /\ unload = "no"
                            /\ \A t \in Threads \ {Main} : emitting[t] = 0

\* The main thread is outside Emit when it completes the queue.
Teardown == /\ completed => unload \in {"join", "done"}
            /\ unload \in {"complete", "join", "done"} => emitting[Main] = 0

\* One window at a time: the one being added is the last one made.
MainOnly == /\ \A t \in Threads \ {Main} : emitting[t] # 0 => ~IsWindow(emitting[t])
            /\ emitting[Main] # 0 =>
                  \A r \in DOMAIN content : IsWindow(r) => r <= emitting[Main]

\* The indexes grow with the records and in the order of the queue, and a
\* window has one only if all smaller ones were given to windows before it.
WindowsInOrder ==
    /\ \A r \in DOMAIN content : IsWindow(r) => content[r].index < window
    /\ \A r, s \in DOMAIN content :
          IsWindow(r) /\ IsWindow(s) /\ r <= s => content[r].index <= content[s].index
    /\ \A j, k \in 1 .. Len(accepted) :
          IsWindow(accepted[j]) /\ IsWindow(accepted[k]) /\ j <= k =>
              content[accepted[j]].index <= content[accepted[k]].index

NoneSkipped == /\ \A i \in Taken : 0 .. i \subseteq Taken
               /\ ~ended => 0 .. window - 1 \subseteq Taken

\* A window the queue did not take was counted before the next one was made,
\* and that one has the count.
LostCounted ==
    /\ Cardinality(Taken \ (Kept \union InHand)) <= dropped
    /\ \A r \in DOMAIN content : IsWindow(r) =>
          Cardinality((0 .. content[r].index - 1) \ Kept) <= content[r].dropped

SummaryInv == /\ IInv /\ Contents /\ StartFirst /\ Teardown /\ MainOnly
              /\ WindowsInOrder /\ NoneSkipped /\ LostCounted
==============================================================================
