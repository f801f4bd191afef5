----------------------------- MODULE BuildStages -----------------------------
(***************************************************************************)
(* The staged build of build.py on one output directory: successive runs,  *)
(* any of which may be interrupted at any step, its commands may fail, and *)
(* between two runs the inputs or completed outputs may change.  A stage   *)
(* is recorded with the digests of its outputs in build-state.json; a run  *)
(* with --resume verifies the recorded stages and does the others again.   *)
(*                                                                         *)
(* The contents of a stage's recorded outputs stand for their digests:     *)
(* "made" from a version of the inputs, "partial", or "foreign": touched   *)
(* by others.  The rest of what a stage writes is digested by nobody, and  *)
(* of a runtime tree given with --runtime-root only the path is: such      *)
(* files may be changed from outside, or be left by an earlier run of the  *)
(* command, and the stages that read them are built from them.  So "made"  *)
(* carries the stages, 0 for the runtime tree, whose stray files it may    *)
(* have been made with.  A stage may read all the stages before it and     *)
(* what its own directory holds.  Nothing changes under a run.             *)
(***************************************************************************)
EXTENDS Naturals

CONSTANTS
    N,           \* number of stages
    Fresh,       \* the stages that need a new directory
    MaxVersion,  \* bound: versions of the inputs and recipes
    MaxRuns,     \* bound: runs of the build
    MaxTampers   \* bound: changes of outputs, recorded or not, from outside

ASSUME StagesAssumption == N \in Nat /\ Fresh \subseteq 1 .. N
ASSUME BoundsAssumption == MaxVersion \in Nat \ {0} /\ MaxRuns \in Nat /\ MaxTampers \in Nat

VARIABLES
    inputs,     \* version of the inputs and recipes
    exists,     \* does the output directory exist?
    file,       \* build-state.json: "none", "torn" or "whole"
    record,     \* its contents while it is whole: identity and stages
    outputs,    \* what each stage's recorded outputs hold
    stray,      \* the stages whose other files are not all their command's
                \* own last work, 0 for the tree of --runtime-root
    saved,      \* how often each stage's leftovers were moved to incomplete/
    pc,         \* "idle", "start", "open", "stage", "running", "record",
                \* "writing"
    resume,     \* was the run given --resume?
    state,      \* the run's stages: what it read or recorded
    at,         \* the stage the run is at; 0 for the first record
    outcome,    \* how the last run ended
    runs, tampers,  \* counters for the bounds
    begun,      \* history: how often each stage began to write its outputs
    everStray   \* history: the stages ever in stray

diskVars == <<exists, file, record>>
memVars  == <<resume, state, at>>
envVars  == <<inputs, runs, tampers>>
strayVars == <<stray, everStray>>
vars == <<envVars, diskVars, memVars, strayVars, outputs, saved, pc, outcome, begun>>

Stages   == 1 .. N
Versions == 1 .. MaxVersion

Origins == 0 .. N

Made(v, S) == [kind |-> "made", of |-> v, with |-> S]
Nothing  == [kind |-> "none", of |-> 0, with |-> {}]
Partial  == [kind |-> "partial", of |-> 0, with |-> {}]
Foreign  == [kind |-> "foreign", of |-> 0, with |-> {}]
Contents == {Nothing, Partial, Foreign} \union {Made(v, S) : v \in Versions, S \in SUBSET Origins}

\* No digest: the stage is not recorded.
Unrecorded == Nothing

Init ==
    /\ inputs = 1 /\ exists = FALSE
    /\ file = "none" /\ record = [identity |-> 1, stages |-> [s \in Stages |-> Unrecorded]]
    /\ outputs = [s \in Stages |-> Nothing] /\ saved = [s \in Stages |-> 0]
    /\ pc = "idle" /\ resume = FALSE /\ at = 1
    /\ state = [s \in Stages |-> Unrecorded]
    /\ outcome = "none" /\ runs = 0 /\ tampers = 0
    /\ begun = [s \in Stages |-> 0] /\ stray = {} /\ everStray = {}

\* What the command of stage s makes of the inputs, the stages before it, with
\* their stray files, and the files it finds and keeps in its own directory.
Product(s, kept) ==
    IF \A u \in 1 .. s - 1 : outputs[u].kind = "made" /\ outputs[u].of = inputs
    THEN Made(inputs, kept \union (stray \intersect 0 .. s - 1)
                           \union UNION {outputs[u].with : u \in 1 .. s - 1})
    ELSE Foreign

FindsStray(S) == stray' = stray \union S /\ everStray' = everStray \union S

End(how) == pc' = "idle" /\ outcome' = how

(***************************************************************************)
(* Mutated forms, for the mutation runs.                                   *)
(***************************************************************************)

\* A recorded stage is skipped without a look at its outputs.
VerifyNothing ==
    /\ pc = "stage" /\ at \in Stages /\ state[at] # Unrecorded
    /\ at' = at + 1
    /\ UNCHANGED <<envVars, diskVars, resume, state, outputs, saved, pc, outcome, begun, strayVars>>

\* Leftovers are deleted.
SetAsideDeletes ==
    /\ pc = "stage" /\ at \in Stages /\ state[at] = Unrecorded
    /\ at \in Fresh /\ outputs[at] # Nothing
    /\ outputs' = [outputs EXCEPT ![at] = Nothing]
    /\ stray' = stray \ {at}
    /\ UNCHANGED <<envVars, diskVars, memVars, saved, pc, outcome, begun, everStray>>

\* A changed output of a recorded stage is built again.
RunChanged ==
    /\ pc = "stage" /\ at \in Stages
    /\ state[at] = Unrecorded \/ outputs[at] # state[at]
    /\ at \in Fresh => outputs[at] = Nothing
    /\ pc' = "running"
    /\ FindsStray(IF outputs[at] = Nothing THEN {} ELSE {at})
    /\ UNCHANGED <<envVars, diskVars, memVars, outputs, saved, outcome, begun>>

(***************************************************************************)
(* The start of a run                                                      *)
(***************************************************************************)

\* The arguments; a directory that exists is only accepted with --resume.
Start(r) ==
    /\ pc = "idle" /\ runs < MaxRuns
    /\ runs' = runs + 1
    /\ resume' = r
    /\ IF exists /\ ~r THEN End("refused") ELSE pc' = "start" /\ outcome' = "none"
    /\ UNCHANGED <<inputs, tampers, diskVars, state, at, outputs, saved, begun, strayVars>>

MakeOutput ==
    /\ pc = "start"
    /\ exists' = TRUE
    /\ pc' = "open"
    /\ UNCHANGED <<envVars, file, record, memVars, outputs, saved, outcome, begun, strayVars>>

\* A record is read and compared with the inputs; one that cannot be parsed
\* raises.  Without a record only a run without --resume goes on.
OpenRecord ==
    /\ pc = "open"
    /\ \/ /\ file = "whole" /\ record.identity = inputs
          /\ state' = record.stages
          /\ at' = 1
          /\ pc' = "stage" /\ UNCHANGED outcome
       \/ /\ file = "none" /\ ~resume
          /\ state' = [s \in Stages |-> Unrecorded]
          /\ at' = 0
          /\ pc' = "record" /\ UNCHANGED outcome
       \/ /\ \/ file = "whole" /\ record.identity # inputs
             \/ file = "none" /\ resume
             \/ file = "torn"
          /\ End("refused")
          /\ UNCHANGED <<state, at>>
    /\ UNCHANGED <<envVars, diskVars, resume, outputs, saved, begun, strayVars>>

(***************************************************************************)
(* A stage                                                                 *)
(***************************************************************************)

\* A recorded stage is verified, not run.
Verify ==
    /\ pc = "stage" /\ at \in Stages /\ state[at] # Unrecorded
    /\ IF outputs[at] = state[at] THEN at' = at + 1 /\ UNCHANGED <<pc, outcome>>
       ELSE End("refused") /\ UNCHANGED at
    /\ UNCHANGED <<envVars, diskVars, resume, state, outputs, saved, begun, strayVars>>

\* Leftovers of an interrupted stage are moved away.
SetAside ==
    /\ pc = "stage" /\ at \in Stages /\ state[at] = Unrecorded
    /\ at \in Fresh /\ outputs[at] # Nothing
    /\ outputs' = [outputs EXCEPT ![at] = Nothing]
    /\ saved' = [saved EXCEPT ![at] = @ + 1]
    /\ stray' = stray \ {at}
    /\ UNCHANGED <<envVars, diskVars, memVars, pc, outcome, begun, everStray>>

\* A stage that needs no new directory is built over what an earlier run of
\* its command left there.
Run ==
    /\ pc = "stage" /\ at \in Stages /\ state[at] = Unrecorded
    /\ at \in Fresh => outputs[at] = Nothing
    /\ pc' = "running"
    /\ FindsStray(IF outputs[at] = Nothing THEN {} ELSE {at})
    /\ UNCHANGED <<envVars, diskVars, memVars, outputs, saved, outcome, begun>>

\* The command writes some of its outputs.
WriteSome ==
    /\ pc = "running" /\ outputs[at] # Partial
    /\ outputs' = [outputs EXCEPT ![at] = Partial]
    /\ begun' = [begun EXCEPT ![at] = @ + 1]
    /\ UNCHANGED <<envVars, diskVars, memVars, saved, pc, outcome, strayVars>>

RunFails ==
    /\ pc = "running"
    /\ End("failed")
    /\ UNCHANGED <<envVars, diskVars, memVars, outputs, saved, begun, strayVars>>

\* The command succeeds, having replaced or kept what was there before it; its
\* outputs, not the rest of what it wrote, are digested into the state.
RunDone ==
    /\ pc = "running" /\ outputs[at] = Partial
    /\ \E kept \in SUBSET (stray \intersect {at}) :
          /\ outputs' = [outputs EXCEPT ![at] = Product(at, kept)]
          /\ state' = [state EXCEPT ![at] = Product(at, kept)]
          /\ stray' = (stray \ {at}) \union kept
    /\ pc' = "record"
    /\ UNCHANGED <<envVars, diskVars, resume, at, saved, outcome, begun, everStray>>

\* write_text empties the file and then fills it.
TruncateRecord ==
    /\ pc = "record"
    /\ file' = "torn"
    /\ pc' = "writing"
    /\ UNCHANGED <<envVars, exists, record, memVars, outputs, saved, outcome, begun, strayVars>>

WriteRecord ==
    /\ pc = "writing"
    /\ file' = "whole"
    /\ record' = [identity |-> inputs, stages |-> state]
    /\ at' = at + 1
    /\ pc' = "stage"
    /\ UNCHANGED <<envVars, exists, resume, state, outputs, saved, outcome, begun, strayVars>>

Finish ==
    /\ pc = "stage" /\ at = N + 1
    /\ End("finished")
    /\ UNCHANGED <<envVars, diskVars, memVars, outputs, saved, begun, strayVars>>

(***************************************************************************)
(* The environment                                                         *)
(***************************************************************************)

\* The run is killed, or the machine stops.
Interrupt ==
    /\ pc # "idle"
    /\ End("interrupted")
    /\ UNCHANGED <<envVars, diskVars, memVars, outputs, saved, begun, strayVars>>

\* Also back to a version they had before.
ChangeInputs ==
    /\ pc = "idle"
    /\ \E v \in Versions \ {inputs} : inputs' = v
    /\ outcome' = "none"
    /\ UNCHANGED <<runs, tampers, diskVars, memVars, outputs, saved, pc, begun, strayVars>>

\* A recorded output is changed or replaced.
Tamper(s) ==
    /\ pc = "idle" /\ tampers < MaxTampers /\ outputs[s] \notin {Nothing, Foreign}
    /\ tampers' = tampers + 1
    /\ outputs' = [outputs EXCEPT ![s] = Foreign]
    /\ outcome' = "none"
    /\ UNCHANGED <<inputs, runs, diskVars, memVars, saved, pc, begun, strayVars>>

\* A file that no record names is changed in, added to or removed from a
\* stage's directory or the runtime tree.
ChangeUnrecorded(o) ==
    /\ pc = "idle" /\ tampers < MaxTampers /\ o \notin stray
    /\ o \in Stages => outputs[o] # Nothing
    /\ tampers' = tampers + 1
    /\ FindsStray({o})
    /\ outcome' = "none"
    /\ UNCHANGED <<inputs, runs, diskVars, memVars, outputs, saved, pc, begun>>

Stage == \/ Verify \/ SetAside \/ Run \/ WriteSome \/ RunFails \/ RunDone
         \/ TruncateRecord \/ WriteRecord \/ Finish

Build == MakeOutput \/ OpenRecord \/ Stage

Next ==
    \/ \E r \in BOOLEAN : Start(r)
    \/ Build \/ Interrupt \/ ChangeInputs
    \/ \E s \in Stages : Tamper(s)
    \/ \E o \in Origins : ChangeUnrecorded(o)

Spec == Init /\ [][Next]_vars

(***************************************************************************)
(* Properties                                                              *)
(***************************************************************************)

TypeOK ==
    /\ inputs \in Nat /\ exists \in BOOLEAN /\ resume \in BOOLEAN
    /\ file \in {"none", "torn", "whole"}
    /\ record \in [identity : Nat, stages : [Stages -> Contents]]
    /\ outputs \in [Stages -> Contents] /\ state \in [Stages -> Contents]
    /\ saved \in [Stages -> Nat] /\ begun \in [Stages -> Nat]
    /\ pc \in {"idle", "start", "open", "stage", "running", "record", "writing"}
    /\ at \in 0 .. N + 1 /\ runs \in Nat /\ tampers \in Nat
    /\ outcome \in {"none", "refused", "failed", "interrupted", "finished"}
    /\ \A s \in Stages : saved[s] <= runs
    /\ stray \subseteq everStray /\ everStray \subseteq Origins

\* What may enter stage s unseen: stray files of the stages before it, of the
\* runtime tree and, when it needs no new directory, of its own.
Unseen(s) == everStray \intersect ((0 .. s - 1) \union ({s} \ Fresh))

MadeFrom(c, v, s) == c.kind = "made" /\ c.of = v /\ c.with \subseteq Unseen(s)

\* A finished build is coherent: every stage's recorded outputs are the ones its
\* command made and the record names, from the inputs of the record and of this
\* run, however many runs it took; whatever happened to recorded outputs between
\* them, no stage is built from one that is not.  Only files that no record
\* names can have entered a stage unseen (docs/BUILDING.md:181-182), never from
\* a later stage nor from the leftovers of a stage that needs a new directory:
\* a build whose directories held none is what the inputs make.
FinishedIsCoherent ==
    outcome = "finished" =>
        /\ file = "whole" /\ record.identity = inputs
        /\ \A s \in Stages : /\ MadeFrom(outputs[s], inputs, s)
                              /\ outputs[s] = record.stages[s]

\* The record is never ahead of the disk's history: a recorded stage was
\* completely made, from the inputs of the record.
RecordTrue ==
    file = "whole" =>
        \A s \in Stages : \/ record.stages[s] = Unrecorded
                          \/ MadeFrom(record.stages[s], record.identity, s)

Recorded(s) == file = "whole" /\ record.stages[s] # Unrecorded

\* A build never touches what a recorded stage made, recorded output or not.
CompletedUntouched ==
    [][pc # "idle" => \A s \in Stages : Recorded(s) =>
          outputs'[s] = outputs[s] /\ (s \in stray' <=> s \in stray)]_vars

\* What a stage that needs a new directory left behind is preserved, each
\* time: it never builds over leftovers and never discards them
\* (docs/BUILDING.md:124-125).
LeftoversPreserved ==
    \A s \in Fresh : begun[s] = saved[s] + (IF outputs[s] = Nothing THEN 0 ELSE 1)

\* A build that was interrupted after it completed a stage can be continued:
\* its record can be read (build.py:19, --resume: "Verify completed stages and
\* resume an interrupted build").
Resumable ==
    outcome = "interrupted" /\ (\E s \in Stages : s < at /\ state[s] # Unrecorded) =>
        file = "whole"

(***************************************************************************)
(* The inductive invariant.                                                *)
(***************************************************************************)

Going == pc \in {"stage", "running", "record", "writing"}

\* What a run knows is what the inputs of this run make.
StateTrue ==
    Going => \A s \in Stages : state[s] = Unrecorded \/ MadeFrom(state[s], inputs, s)

\* While a stage is looked at or run, the record is what the run knows.
RecordCurrent ==
    pc \in {"stage", "running"} =>
        file = "whole" /\ record = [identity |-> inputs, stages |-> state]

\* All stages before the current one are complete and as recorded, and so is
\* the current one while it is being recorded.
Behind ==
    /\ Going => \A u \in Stages :
                   u < at \/ (u = at /\ pc \in {"record", "writing"}) =>
                       (MadeFrom(state[u], inputs, u) /\ outputs[u] = state[u])
    /\ pc = "running" => /\ at \in Stages /\ state[at] = Unrecorded
                         /\ at \in Fresh => outputs[at] \in {Nothing, Partial} /\ at \notin stray
    /\ pc \in {"stage", "running"} => at # 0
    /\ pc \in {"record", "writing"} => at # N + 1

\* In one run a stage's leftovers are moved away at most once.
SavedBound ==
    \A s \in Stages :
        (\/ pc \in {"start", "open"}
         \/ Going /\ s > at
         \/ pc = "stage" /\ s = at /\ state[s] = Unrecorded /\ outputs[s] # Nothing) =>
            saved[s] < runs

\* A directory that was never made holds nothing.
NothingStray == \A s \in Stages : outputs[s] = Nothing => s \notin stray

FinishedIdle == outcome = "finished" => pc = "idle"

IInv == /\ TypeOK /\ inputs \in Versions
        /\ RecordTrue /\ StateTrue /\ RecordCurrent /\ Behind /\ SavedBound
        /\ NothingStray /\ FinishedIdle /\ FinishedIsCoherent /\ LeftoversPreserved
==============================================================================
