---------------------------- MODULE ProfileWriter ----------------------------
(***************************************************************************)
(* The profile output of PerformanceModule.cs with Diagnostics on: hooks   *)
(* on any thread Emit records into a bounded queue, a background thread    *)
(* batches them into files, and Unload, on the main thread, emits a last   *)
(* record, closes the queue and waits a while for the writer.              *)
(*                                                                         *)
(* Emit looks at stopped and then calls TryAdd: between the two, Unload    *)
(* can go all the way to CompleteAdding.  The operations of                *)
(* BlockingCollection are atomic.                                          *)
(***************************************************************************)
EXTENDS Naturals, Sequences, FiniteSets

CONSTANTS
    Threads,        \* the threads that run hooks
    Main,           \* the one of them that calls Unload
    Capacity,       \* capacity of the queue: 512
    Limit,          \* records in a batch: 64
    MaxEmits,       \* bound of the records emitted by hooks
    WritesMayFail   \* can serialising or writing a file throw?

ASSUME ThreadsAssumption  == Main \in Threads
ASSUME CapacityAssumption == Capacity \in Nat \ {0} /\ Limit \in Nat \ {0}
ASSUME BoundAssumption    == MaxEmits \in Nat /\ WritesMayFail \in BOOLEAN

VARIABLES
    emitting,   \* the record each thread is about to add, 0 if none
    emitted,    \* number of records that passed the test of stopped
    queue,      \* output: records waiting for the writer
    completed,  \* has CompleteAdding been called?
    stopped,    \* the flag Emit tests
    dropped,    \* the counter of the records
    writer,     \* "loop", "fill": batching, "write", "done", "failed",
                \* "killed": ended with the process
    batch,      \* the batch being collected
    written,    \* the records of all complete files, in order
    unload,     \* "no", "stop": emitting the last record, "complete",
                \* "join", "done"
    accepted,   \* history: all records the queue ever took
    refused     \* history: records that met a completed queue

queueVars  == <<queue, completed, accepted>>
writerVars == <<writer, batch, written>>
countVars  == <<emitted, dropped, refused>>
vars == <<emitting, queueVars, writerVars, countVars, stopped, unload>>

Records == 1 .. MaxEmits + 1

Init ==
    /\ emitting = [t \in Threads |-> 0]
    /\ queue = <<>> /\ completed = FALSE /\ accepted = <<>>
    /\ writer = "loop" /\ batch = <<>> /\ written = <<>>
    /\ emitted = 0 /\ dropped = 0 /\ refused = 0
    /\ stopped = FALSE /\ unload = "no"

IsCompleted == completed /\ queue = <<>>

(***************************************************************************)
(* Mutated forms, for the mutation runs.                                   *)
(***************************************************************************)

\* A full queue makes room by dropping its oldest record.
EmitAddEvicts(t) ==
    /\ emitting[t] # 0 /\ ~completed
    /\ emitting' = [emitting EXCEPT ![t] = 0]
    /\ queue' = Append(IF Len(queue) < Capacity THEN queue ELSE Tail(queue),
                       emitting[t])
    /\ accepted' = Append(accepted, emitting[t])
    /\ dropped' = IF Len(queue) < Capacity THEN dropped ELSE dropped + 1
    /\ UNCHANGED <<completed, writerVars, emitted, refused, stopped, unload>>

\* A full queue is not counted.
EmitAddForgets(t) ==
    /\ emitting[t] # 0
    /\ emitting' = [emitting EXCEPT ![t] = 0]
    /\ \/ /\ ~completed /\ Len(queue) < Capacity
          /\ queue' = Append(queue, emitting[t])
          /\ accepted' = Append(accepted, emitting[t])
          /\ UNCHANGED countVars
       \/ /\ ~completed /\ Len(queue) = Capacity
          /\ UNCHANGED <<countVars, queue, accepted>>
       \/ /\ completed
          /\ refused' = refused + 1
          /\ UNCHANGED <<emitted, dropped, queue, accepted>>
    /\ UNCHANGED <<completed, writerVars, stopped, unload>>

\* A batch with no deadline.
FillEndsFull ==
    /\ writer = "fill" /\ Len(batch) = Limit
    /\ writer' = "write"
    /\ UNCHANGED <<emitting, queueVars, batch, written, countVars, stopped, unload>>

(***************************************************************************)
(* Emit                                                                    *)
(***************************************************************************)

\* The test of stopped.
EmitEnter(t) ==
    /\ emitting[t] = 0 /\ ~stopped /\ emitted < MaxEmits
    /\ t = Main => unload = "no"
    /\ emitted' = emitted + 1
    /\ emitting' = [emitting EXCEPT ![t] = emitted + 1]
    /\ UNCHANGED <<queueVars, writerVars, dropped, refused, stopped, unload>>

\* TryAdd: it takes the record, or returns false, or throws because adding
\* is completed, which is caught and ignored.
EmitAdd(t) ==
    /\ emitting[t] # 0
    /\ emitting' = [emitting EXCEPT ![t] = 0]
    /\ \/ /\ ~completed /\ Len(queue) < Capacity
          /\ queue' = Append(queue, emitting[t])
          /\ accepted' = Append(accepted, emitting[t])
          /\ UNCHANGED countVars
       \/ /\ ~completed /\ Len(queue) >= Capacity
          /\ dropped' = dropped + 1
          /\ UNCHANGED <<emitted, refused, queue, accepted>>
       \/ /\ completed
          /\ refused' = refused + 1
          /\ UNCHANGED <<emitted, dropped, queue, accepted>>
    /\ UNCHANGED <<completed, writerVars, stopped, unload>>

(***************************************************************************)
(* WriteRecords                                                            *)
(***************************************************************************)

TakeFirst ==
    /\ writer = "loop" /\ queue # <<>>
    /\ batch' = <<Head(queue)>>
    /\ queue' = Tail(queue)
    /\ writer' = "fill"
    /\ UNCHANGED <<emitting, completed, accepted, written, countVars, stopped, unload>>

FillMore ==
    /\ writer = "fill" /\ queue # <<>> /\ Len(batch) < Limit
    /\ batch' = Append(batch, Head(queue))
    /\ queue' = Tail(queue)
    /\ UNCHANGED <<emitting, completed, accepted, writer, written, countVars,
                   stopped, unload>>

\* The batch is full, the queue is completed, or two seconds are over.
FillEnds ==
    /\ writer = "fill"
    /\ writer' = "write"
    /\ UNCHANGED <<emitting, queueVars, batch, written, countVars, stopped, unload>>

Write ==
    /\ writer = "write"
    /\ written' = written \o batch
    /\ batch' = <<>>
    /\ writer' = "loop"
    /\ UNCHANGED <<emitting, queueVars, countVars, stopped, unload>>

\* The writer ends for good; the batch and the queue stay where they are.
WriteFails ==
    /\ writer = "write" /\ WritesMayFail
    /\ dropped' = dropped + 1
    /\ writer' = "failed"
    /\ UNCHANGED <<emitting, queueVars, batch, written, emitted, refused,
                   stopped, unload>>

Finish ==
    /\ writer = "loop" /\ IsCompleted
    /\ writer' = "done"
    /\ UNCHANGED <<emitting, queueVars, batch, written, countVars, stopped, unload>>

(***************************************************************************)
(* Unload                                                                  *)
(***************************************************************************)

\* The hooks are removed, but other threads may still be inside one.
UnloadEnter ==
    /\ unload = "no" /\ emitting[Main] = 0
    /\ unload' = "stop"
    /\ emitted' = emitted + 1
    /\ emitting' = [emitting EXCEPT ![Main] = emitted + 1]
    /\ UNCHANGED <<queueVars, writerVars, dropped, refused, stopped>>

UnloadStop ==
    /\ unload = "stop" /\ emitting[Main] = 0
    /\ stopped' = TRUE
    /\ unload' = "complete"
    /\ UNCHANGED <<emitting, queueVars, writerVars, countVars>>

UnloadComplete ==
    /\ unload = "complete"
    /\ completed' = TRUE
    /\ unload' = "join"
    /\ UNCHANGED <<emitting, queue, accepted, writerVars, countVars, stopped>>

\* Join(2000) returns when the writer has ended and when the time is over.
UnloadJoin ==
    /\ unload = "join"
    /\ unload' = "done"
    /\ UNCHANGED <<emitting, queueVars, writerVars, countVars, stopped>>

\* The process ends after Unload, and the writer, a background thread, with it.
Exit ==
    /\ unload = "done" /\ writer \in {"loop", "fill", "write"}
    /\ writer' = "killed"
    /\ UNCHANGED <<emitting, queueVars, batch, written, countVars, stopped, unload>>

Writer == TakeFirst \/ FillMore \/ FillEnds \/ Write \/ WriteFails \/ Finish

Unload == UnloadStop \/ UnloadComplete \/ UnloadJoin

Next ==
    \/ \E t \in Threads : EmitEnter(t) \/ EmitAdd(t)
    \/ Writer \/ UnloadEnter \/ Unload \/ Exit

Spec == Init /\ [][Next]_vars

\* Every thread that is inside Emit, WriteRecords or Unload goes on.
Fairness == /\ \A t \in Threads : WF_vars(EmitAdd(t))
            /\ WF_vars(Writer) /\ WF_vars(Unload)

(***************************************************************************)
(* Properties                                                              *)
(***************************************************************************)

TypeOK ==
    /\ emitting \in [Threads -> Nat]
    /\ queue \in Seq(Nat) /\ batch \in Seq(Nat)
    /\ written \in Seq(Nat) /\ accepted \in Seq(Nat)
    /\ completed \in BOOLEAN /\ stopped \in BOOLEAN
    /\ emitted \in Nat /\ dropped \in Nat /\ refused \in Nat
    /\ writer \in {"loop", "fill", "write", "done", "failed", "killed"}
    /\ unload \in {"no", "stop", "complete", "join", "done"}
    /\ Len(queue) <= Capacity /\ Len(batch) <= Limit

\* What the queue accepted is in the files, in the batch or in the queue, in
\* the order it was accepted: nothing is lost, repeated or reordered on the
\* way, even by a writer that failed or was killed.
InOrder == accepted = written \o batch \o queue

\* A writer that came to its end by itself has written all that was accepted:
\* Join returning true means that the log is complete.
DoneMeansWritten == writer = "done" => written = accepted /\ completed

\* All of the records emitted so far are in files, or were counted as dropped,
\* or lost the race with the teardown.
Accounted == emitted = Len(written) + dropped + refused

\* The profile is over: Unload has returned and no hook is inside Emit.
Over == unload = "done" /\ \A t \in Threads : emitting[t] = 0

\* A profile whose writer came to its end by itself accounts for each record
\* any thread emitted, whatever the queue refused on the way.
CleanLogAccounts == Over /\ writer = "done" => Accounted

\* The same, of a writer that stopped on a write error (README.md of
\* SwitchPerformance:68-71: dropped records are explicit).
DroppedExplicit == Over /\ writer \in {"done", "failed"} => Accounted

\* A record the queue accepted reaches a file, unless the writer fails or the
\* process ends first.
AcceptedWritten ==
    \A r \in Records :
        (\E k \in 1 .. Len(queue) : queue[k] = r) ~>
            \/ \E k \in 1 .. Len(written) : written[k] = r
            \/ writer \in {"failed", "killed"}

(***************************************************************************)
(* The inductive invariant.                                                *)
(***************************************************************************)

\* There is a batch exactly while the writer collects or writes one, and a
\* writer that ended by itself left nothing in the queue.
BatchPhases == /\ writer = "loop" => batch = <<>>
               /\ writer \in {"fill", "write"} => batch # <<>>
               /\ writer = "done" => batch = <<>> /\ IsCompleted

\* Unload's record is the only one beyond the bound of the hooks.
Numbered == /\ emitted <= MaxEmits + (IF unload = "no" THEN 0 ELSE 1)
            /\ \A t \in Threads : emitting[t] <= emitted

IInv == TypeOK /\ BatchPhases /\ Numbered /\ InOrder

\* The threads between the test of stopped and TryAdd.
Adding == {t \in Threads : emitting[t] # 0}

\* Every record that passed the test is accounted for, until a write fails.
Counted == writer # "failed" =>
    emitted = Cardinality(Adding) + Len(accepted) + dropped + refused

\* The output implements the abstract log.
Log == INSTANCE ProfileLog WITH
    Room    <- Capacity + Limit,
    open    <- ~completed,
    backlog <- batch \o queue,
    log     <- written

ImplementsLog == Log!Spec
==============================================================================
