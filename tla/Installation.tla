----------------------------- MODULE Installation -----------------------------
(***************************************************************************)
(* One installation from the user's inputs to the ZIP: the stages of       *)
(* build.py in order, and in each the script it runs, file by file.  A     *)
(* run may be killed, or a command fail, between any two effects on the    *)
(* disk, and be resumed; between runs files are changed or lost.           *)
(* BuildStages models the record of the stages and its torn states; here   *)
(* the record is whole, and it covers only some files of each stage.       *)
(*                                                                         *)
(* A file, which may stand for a directory, is the set of what is wrong    *)
(* with it: nothing, that it is missing, that it is torn, or, by its own   *)
(* name, that it was changed.  What is made from a file inherits its set,  *)
(* and a digest tells any two sets apart.  The stages of the dependency    *)
(* forks are external.                                                     *)
(***************************************************************************)
EXTENDS DependencyClosure, Sequences, SequencesExt

CONSTANTS
    MaxKills,    \* bound: interrupted or failed runs
    MaxChanges   \* bound: changes from outside

ASSUME InstallationBounds == MaxKills \in Nat /\ MaxChanges \in Nat

VARIABLES
    file,       \* the contents of each file
    dirs,       \* the stages whose output directory exists
    vouch,      \* what each manifest says of the files it lists
    out,        \* the output directory: "none", "empty" (of records), "recorded"
    done,       \* the recorded stages
    digest,     \* the recorded contents of their outputs, and of the inputs
    pc,         \* "idle", "first", "stage", "step", "writing"
    at,         \* the stage the run is at
    step,       \* the step of its script
    outcome,    \* of the last run: "none", "finished", "refused", "interrupted"
    kills, changes

diskVars   == <<file, dirs, vouch>>
recordVars == <<out, done, digest>>
runVars    == <<pc, at, step, outcome>>
vars == <<diskVars, recordVars, runVars, kills, changes, closureVars>>

\* A file that is not there, and a manifest that lists nothing.
NoFile == {"missing"}
Silent == [f \in {} |-> NoFile]

(***************************************************************************)
(* The scripts, as the steps they take on the disk                         *)
(***************************************************************************)

\* A file is written from others, or a manifest of others.
Make(f, S) == [do |-> "make", what |-> f, of |-> S]
Seal(m, S) == [do |-> "seal", what |-> m, of |-> S]

\* Files are compared with a manifest or with a digest in the source, or only
\* have to be there; a directory must not be there, or is made.
Check(m, S) == [do |-> "check", what |-> m, of |-> S]
Valid(S) == [do |-> "valid", what |-> "none", of |-> S]
Need(S)  == [do |-> "need", what |-> "none", of |-> S]
Absent   == [do |-> "absent", what |-> "none", of |-> {}]
Mkdir    == [do |-> "mkdir", what |-> "none", of |-> {}]
Closure  == [do |-> "closure", what |-> "none", of |-> {}]

\* Mutated forms, for the mutation runs: the FMOD libraries are not compared,
\* the manifest does not come last, and a stage is missing from the list.
HostInputsTrusted == <<Mkdir, Need({"fmod.json", "sdk"}),
                       Check("graphics.json", {"fna3d", "sdl", "mesa"}),
                       Check("sdl.json", {"sdl"}), Check("lua.json", {"lua"})>>
HostOutputsSealedEarly ==
    <<Make("managed", {"celeste", "libraries"}),
      Make("nro", {"objects", "fna3d", "sdl", "mesa", "lua", "imports.json"}),
      Seal("host.json", {"nro"}), Make("payload", {"sdk"})>>
FreshButMod == {"prepare-game", "mesa", "fmod", "lua", "graphics", "host", "content", "package"}

\* The game's assemblies must be the supported ones; the installer patches
\* them next to Everest's libraries.
PrepareGame == <<Mkdir, Make("libraries", {"everest"}), Valid({"game"}),
                 Make("celeste", {"game", "everest", "libraries", "fna"}),
                 Need({"celeste"}), Seal("outputs.json", {"celeste"})>>

\* The sources are downloaded by digest.
Mesa == <<Absent, Mkdir, Make("mesa", {}), Seal("mesa.json", {"mesa"})>>

\* loader: so_util.c from a pinned checkout, and the table of the imports the
\* libraries ask for.
Fmod == <<Valid({"fmod.tar"}), Absent, Mkdir, Make("sdk", {"fmod.tar"}),
          Make("loader", {"sdk"}), Seal("fmod.json", {"sdk"})>>

\* KeraLua's imports must all be exported.
Lua == <<Mkdir, Make("lua", {}), Need({"libraries"}), Seal("lua.json", {"lua"})>>

Graphics == <<Need({"fna", "fna3d", "sdl", "mesa"}), Mkdir,
              Make("imports.json", {"fna", "fna3d", "sdl"}),
              Seal("graphics.json", {"fna3d", "sdl", "mesa"})>>

HostInputs == <<Mkdir, Check("fmod.json", {"sdk"}),
                Check("graphics.json", {"fna3d", "sdl", "mesa"}),
                Check("sdl.json", {"sdl"}), Check("lua.json", {"lua"})>>
HostObjects == <<Make("objects", {"loader", "sdk"})>>
HostOutputs == <<Make("managed", {"celeste", "libraries"}),
                 Make("nro", {"objects", "fna3d", "sdl", "mesa", "lua", "imports.json"}),
                 Make("payload", {"sdk"}), Seal("host.json", {"nro"})>>

Host == HostInputs \o HostObjects \o <<Closure>> \o HostOutputs

\* Unsafe or colliding paths and implausible sizes are refused beforehand.
\* content: the files the manifest lists; unlisted: what else is in the
\* directory they are copied to, which is new and so empty.
Content == <<Absent, Valid({"assets"}), Mkdir, Make("unlisted", {}),
             Make("content", {"assets"}), Seal("content.json", {"content"})>>

Performance == <<Mkdir, Make("mod", {"celeste", "libraries"}), Seal("package.json", {"mod"})>>

Card == {"card.managed", "card.lib", "card.content", "card.nro", "card.mod"}

\* The listed files of Content are compared, and all of its directory copied.
\* The ZIP is sealed last: testzip reads every member again.
Package == <<Absent, Check("host.json", {"nro"}), Check("content.json", {"content"}),
             Need({"managed", "payload"}), Mkdir,
             Make("card.managed", {"managed"}), Make("card.lib", {"payload"}),
             Make("card.content", {"content", "unlisted"}), Make("card.nro", {"nro"}),
             Make("card.mod", {"mod"}), Seal("installation.json", Card), Seal("zip", Card)>>

\* The stages of build.py, in order.
Order == <<"fna", "sdl", "fna3d", "everest", "prepare-game", "mesa", "fmod", "lua",
           "graphics", "host", "content", "performance-mod", "package">>
Stages == ToSet(Order)

Script == [s \in Stages |->
    CASE s = "sdl" -> <<Make("sdl", {}), Seal("sdl.json", {"sdl"})>>
      [] s = "everest" -> <<Make("everest", {}), Seal("everest.json", {})>>
      [] s = "prepare-game" -> PrepareGame
      [] s = "mesa" -> Mesa
      [] s = "fmod" -> Fmod
      [] s = "lua" -> Lua
      [] s = "graphics" -> Graphics
      [] s = "host" -> Host
      [] s = "content" -> Content
      [] s = "performance-mod" -> Performance
      [] s = "package" -> Package
      [] OTHER -> <<Make(s, {})>>]

\* The files whose digests are recorded with a stage.
Outputs == [s \in Stages |->
    CASE s = "prepare-game" -> {"celeste", "outputs.json"}
      [] s = "everest" -> {"everest.json"}
      [] s = "fmod" -> {"fmod.json"}
      [] s = "graphics" -> {"graphics.json", "imports.json"}
      [] s = "host" -> {"nro", "host.json"}
      [] s = "content" -> {"content.json"}
      [] s = "performance-mod" -> {"mod"}
      [] s = "package" -> {"installation.json", "zip"}
      [] s = "sdl" -> {"sdl", "sdl.json"}
      [] s = "mesa" -> {"mesa", "mesa.json"}
      [] s = "lua" -> {"lua", "lua.json"}
      [] OTHER -> {s}]

\* The stages whose leftovers are moved to incomplete/.
Fresh == {"prepare-game", "mesa", "fmod", "lua", "graphics", "host", "content",
          "performance-mod", "package"}

Inputs == {"game", "assets", "fmod.tar"}

\* What a script writes, and what stands for all of it.
Wrote == [s \in Stages |->
    {c.what : c \in {d \in ToSet(Script[s]) : d.do \in {"make", "seal"}}}]
Final == [s \in Fresh |->
    CASE s = "prepare-game" -> "outputs.json" [] s = "host" -> "host.json"
      [] s = "performance-mod" -> "package.json" [] s = "package" -> "zip"
      [] s = "mesa" -> "mesa.json" [] s = "fmod" -> "fmod.json"
      [] s = "lua" -> "lua.json" [] s = "graphics" -> "graphics.json"
      [] s = "content" -> "content.json"]

Files == Inputs \union (UNION {Wrote[s] : s \in Stages})

Init ==
    /\ \E bad \in SUBSET Inputs :
        file = [f \in Files |-> IF f \in Inputs THEN {f} \intersect bad ELSE NoFile]
    /\ dirs = {} /\ vouch = [f \in Files |-> Silent]
    /\ out = "none" /\ done = {} /\ digest = [f \in Files |-> NoFile]
    /\ pc = "idle" /\ at = 1 /\ step = 1 /\ outcome = "none"
    /\ kills = 0 /\ changes = 0
    /\ ClosureInit

Whole(f) == file[f] # NoFile /\ "torn" \notin file[f]

Stage == Order[at]
Now   == Script[Stage][step]

\* A run ends, and what it knew is gone.
Stop(how) ==
    /\ pc' = "idle" /\ outcome' = how /\ at' = 1 /\ step' = 1
    /\ IF verdict = "none" THEN UNCHANGED closureVars ELSE Leave

NextStep == step' = step + 1 /\ UNCHANGED <<pc, at, outcome, closureVars>>

(***************************************************************************)
(* build.py                                                                *)
(***************************************************************************)

\* A directory that exists is only accepted with --resume, a record only with
\* the same inputs, and --resume only with a record: the directory is made
\* before that is known.
Begin(resume) ==
    /\ pc = "idle"
    /\ out' = IF out = "none" THEN "empty" ELSE out
    /\ \/ /\ out = "none" /\ ~resume
          /\ pc' = "first" /\ outcome' = "none" /\ UNCHANGED <<at, step, closureVars>>
       \/ /\ out = "recorded" /\ resume /\ \A f \in Inputs : file[f] = digest[f]
          /\ pc' = "stage" /\ outcome' = "none" /\ UNCHANGED <<at, step, closureVars>>
       \/ /\ \/ out = "none" /\ resume
             \/ out = "empty"
             \/ out = "recorded" /\ (~resume \/ \E f \in Inputs : file[f] # digest[f])
          /\ Stop("refused")
    /\ UNCHANGED <<diskVars, done, digest, kills, changes>>

\* The first record holds the digests of the inputs.
FirstRecord ==
    /\ pc = "first"
    /\ pc' = "stage"
    /\ out' = "recorded"
    /\ digest' = [f \in Files |-> IF f \in Inputs THEN file[f] ELSE digest[f]]
    /\ UNCHANGED <<diskVars, done, at, step, outcome, kills, changes, closureVars>>

\* A recorded stage is verified by its recorded outputs.
Verify ==
    /\ pc = "stage" /\ at <= Len(Order) /\ Stage \in done
    /\ IF \A f \in Outputs[Stage] : file[f] # NoFile /\ file[f] = digest[f]
       THEN at' = at + 1 /\ UNCHANGED <<pc, step, outcome, closureVars>>
       ELSE Stop("refused")
    /\ UNCHANGED <<diskVars, recordVars, kills, changes>>

\* What an interrupted script left is moved away.
SetAside ==
    /\ pc = "stage" /\ at <= Len(Order)
    /\ Stage \in dirs \intersect Fresh /\ Stage \notin done
    /\ dirs' = dirs \ {Stage}
    /\ file' = [f \in Files |-> IF f \in Wrote[Stage] THEN NoFile ELSE file[f]]
    /\ vouch' = [f \in Files |-> IF f \in Wrote[Stage] THEN Silent ELSE vouch[f]]
    /\ UNCHANGED <<recordVars, runVars, kills, changes, closureVars>>

Enter ==
    /\ pc = "stage" /\ at <= Len(Order)
    /\ Stage \notin done /\ Stage \notin dirs \intersect Fresh
    /\ pc' = "step"
    /\ UNCHANGED <<diskVars, recordVars, at, step, outcome, kills, changes, closureVars>>

\* The script has ended well: its outputs are digested and recorded.
Record ==
    /\ pc = "step" /\ step > Len(Script[Stage])
    /\ done' = done \union {Stage}
    /\ digest' = [f \in Files |-> IF f \in Outputs[Stage] THEN file[f] ELSE digest[f]]
    /\ pc' = "stage" /\ at' = at + 1 /\ step' = 1
    /\ UNCHANGED <<diskVars, out, outcome, kills, changes, closureVars>>

Finish ==
    /\ pc = "stage" /\ at > Len(Order)
    /\ Stop("finished")
    /\ UNCHANGED <<diskVars, recordVars, kills, changes>>

(***************************************************************************)
(* A script                                                                *)
(***************************************************************************)

AtStep(what) == pc = "step" /\ step <= Len(Script[Stage]) /\ Now.do \in what

Holds(c) ==
    CASE c.do = "absent" -> Stage \notin dirs
      [] c.do = "valid"  -> \A f \in c.of : file[f] = {}
      [] c.do = "need"   -> \A f \in c.of : file[f] # NoFile
      [] c.do = "check"  -> /\ vouch[c.what] # Silent /\ file[c.what] # NoFile
                            /\ \A f \in c.of : file[f] = vouch[c.what][f]

Test ==
    /\ AtStep({"absent", "valid", "need", "check"})
    /\ IF Holds(Now) THEN NextStep ELSE Stop("refused")
    /\ UNCHANGED <<diskVars, recordVars, kills, changes>>

MakeDirectory ==
    /\ AtStep({"mkdir"})
    /\ IF Stage \notin dirs THEN dirs' = dirs \union {Stage} /\ NextStep
       ELSE UNCHANGED dirs /\ Stop("refused")
    /\ UNCHANGED <<file, vouch, recordVars, kills, changes>>

\* A file is emptied and written; one that is read must be there.
WriteBegins ==
    /\ AtStep({"make", "seal"})
    /\ IF \A f \in Now.of : file[f] # NoFile
       THEN /\ file' = [file EXCEPT ![Now.what] = {"torn"}]
            /\ dirs' = dirs \union {Stage}
            /\ pc' = "writing" /\ UNCHANGED <<at, step, outcome, closureVars>>
       ELSE Stop("refused") /\ UNCHANGED <<file, dirs>>
    /\ UNCHANGED <<vouch, recordVars, kills, changes>>

WriteEnds ==
    /\ pc = "writing"
    /\ file' = [file EXCEPT ![Now.what] =
                    IF Now.do = "seal" THEN {} ELSE UNION {file[f] : f \in Now.of}]
    /\ vouch' = [vouch EXCEPT ![Now.what] =
                    IF Now.do = "seal" THEN [f \in Now.of |-> file[f]] ELSE Silent]
    /\ pc' = "step" /\ step' = step + 1
    /\ UNCHANGED <<dirs, recordVars, at, outcome, kills, changes, closureVars>>

\* The search for the referenced assemblies.
StepClosure ==
    /\ AtStep({"closure"})
    /\ \/ /\ verdict = "none" /\ BeginSearch
          /\ UNCHANGED runVars
       \/ /\ Search
          /\ UNCHANGED runVars
       \/ /\ verdict = "resolved" /\ Leave
          /\ step' = step + 1 /\ UNCHANGED <<pc, at, outcome>>
       \/ /\ verdict = "refused" /\ Stop("refused")
    /\ UNCHANGED <<diskVars, recordVars, kills, changes>>

(***************************************************************************)
(* What may go wrong                                                       *)
(***************************************************************************)

\* The run is killed, or a command of the script fails.
Interrupt ==
    /\ pc # "idle" /\ kills < MaxKills
    /\ kills' = kills + 1
    /\ Stop("interrupted")
    /\ UNCHANGED <<diskVars, recordVars, changes>>

\* Between two runs a file is changed or lost; of what no manifest lists there
\* is nothing to lose.
Change(f) ==
    /\ pc = "idle" /\ out = "recorded" /\ changes < MaxChanges /\ file[f] # NoFile
    /\ changes' = changes + 1 /\ outcome' = "none"
    /\ \/ f \notin file[f] /\ file' = [file EXCEPT ![f] = @ \union {f}]
       \/ f \notin Inputs \union {"unlisted"} /\ file' = [file EXCEPT ![f] = NoFile]
    /\ UNCHANGED <<dirs, vouch, recordVars, pc, at, step, kills, closureVars>>

Build == \/ FirstRecord
         \/ Verify \/ SetAside \/ Enter \/ Record \/ Finish
         \/ Test \/ MakeDirectory \/ WriteBegins \/ WriteEnds \/ StepClosure

Next == \/ \E resume \in BOOLEAN : Begin(resume)
        \/ Build \/ Interrupt
        \/ \E f \in Files : Change(f)

Spec == Init /\ [][Next]_vars

\* A run goes on, and the user runs the build again until it finishes, with
\* --resume once there is a record.
FairSpec == Spec /\ WF_vars(Build) /\ SF_vars(Begin(out = "recorded"))

(***************************************************************************)
(* Properties                                                              *)
(***************************************************************************)

\* What the checks of the stages together let pass: the files through which a
\* change from outside may reach each part of the installation.  The others,
\* among them the game's Content as it was staged, the audio libraries until
\* they are copied and the archives that are linked, it cannot pass through
\* unseen (docs/BUILDING.md:179-187: "listed Content hashes"; a file added to
\* the staged directory is not listed, and is copied).
MayCarry == [p \in Card |->
    CASE p = "card.content" -> {"unlisted"}
      [] p = "card.lib"     -> {"payload"}
      [] p = "card.nro"     -> {"loader"}
      [] p = "card.mod"     -> {"everest", "libraries"}
      [] p = "card.managed" -> {"everest", "libraries", "managed"}]

\* However often a build was interrupted and resumed, and whatever was changed
\* or lost between its runs, a build that finishes left a ZIP without torn
\* files, that carries changes from outside only where no stage looks, and
\* that installation.json describes.
FinishedAccounts ==
    outcome = "finished" =>
        /\ file["zip"] = {} /\ vouch["zip"] = vouch["installation.json"]
        /\ \A p \in Card : vouch["zip"][p] \subseteq MayCarry[p]

Sealed(s) == Whole(Final[s])

\* The last file a script writes stands for all of its directory: from then on
\* the directory is whole, and no run changes a file of it, but may move it
\* away as a whole.
SealedOnce ==
    [][pc # "idle" => \A s \in Fresh :
        /\ Sealed(s)' /\ ~Sealed(s) => \A f \in Wrote[s] : Whole(f)'
        /\ Sealed(s) => \/ \A f \in Wrote[s] : file'[f] = file[f]
                        \/ \A f \in Wrote[s] : file'[f] = NoFile]_vars

(***************************************************************************)
(* The inductive invariant of the proofs                                   *)
(***************************************************************************)

\* The files that no stage protects, and those that may carry them when they
\* are made; later a file may carry itself, too.
Carries(f) == {g \in {"everest", "libraries", "managed", "loader", "payload", "unlisted"} :
    \/ g = "everest" /\ f \in {"libraries", "celeste", "managed", "mod", "card.managed", "card.mod"}
    \/ g = "libraries" /\ f \in {"celeste", "managed", "mod", "card.managed", "card.mod"}
    \/ g = "managed" /\ f = "card.managed"
    \/ g = "loader" /\ f \in {"objects", "nro", "card.nro"}
    \/ g = "payload" /\ f = "card.lib"
    \/ g = "unlisted" /\ f = "card.content"}
Sound(c, f) == c # NoFile /\ c \subseteq Carries(f)
Bounded == \A f \in Files : file[f] # NoFile => file[f] \subseteq Carries(f) \union {f, "torn"}

Contents == {NoFile} \union SUBSET (Files \union {"torn"})
InstallationTypeOK ==
    /\ file \in [Files -> Contents] /\ digest \in [Files -> Contents]
    /\ vouch = [f \in Files |-> vouch[f]]
    /\ dirs \subseteq Stages /\ done \subseteq Stages
    /\ out \in {"none", "empty", "recorded"}
    /\ pc \in {"idle", "first", "stage", "step", "writing"}
    /\ at \in 1 .. Len(Order) + 1 /\ step \in Nat \ {0}
    /\ outcome \in {"none", "finished", "refused", "interrupted"}

\* Where a run can be, and what it has completed.
InScript == pc \in {"step", "writing"}
Place ==
    /\ ~InScript => step = 1
    /\ pc \in {"idle", "first"} => at = 1
    /\ pc # "idle" => outcome = "none" /\ \A i \in 1 .. at - 1 : Order[i] \in done
    /\ InScript => at <= Len(Order) /\ Stage \notin done /\ step <= Len(Script[Stage]) + 1
    /\ pc = "writing" =>
          /\ step <= Len(Script[Stage]) /\ Now.do \in {"make", "seal"}
          /\ file[Now.what] = {"torn"} /\ \A f \in Now.of : file[f] # NoFile

\* A run knows the outputs it verified or recorded and the files it wrote or
\* compared; all of them are as they were made.
Gained(c) == CASE c.do \in {"make", "seal"} -> {c.what}
               [] c.do \in {"check", "valid"} -> c.of
               [] OTHER -> {}
Trusted == (UNION {Outputs[Order[i]] : i \in 1 .. at - 1})
           \union (UNION {Gained(Script[Stage][k]) : k \in 1 .. step - 1})
KnownSound == pc # "idle" => \A f \in Trusted : Sound(file[f], f)

\* What is recorded and what the manifests say is as it was made, and no
\* file of a completed stage is torn.
RecordSound == \A s \in done : \A f \in Outputs[s] : Sound(digest[f], f)
VouchSound == \A s \in Stages : \A c \in ToSet(Script[s]) :
    c.do = "seal" /\ vouch[c.what] # Silent => \A f \in c.of : Sound(vouch[c.what][f], f)
DoneWhole == \A f \in Inputs \union (UNION {Wrote[s] : s \in done}) :
    file[f] # NoFile => "torn" \notin file[f]

\* A manifest describes what is there while its script goes on; the ZIP and
\* its manifest agree from then on.
SealsFit == InScript => \A k \in 1 .. step - 1 : LET c == Script[Stage][k] IN
    c.do = "seal" => vouch[c.what] = [f \in c.of |-> file[f]]
ZipFits == "package" \in done =>
    vouch["zip"] # Silent /\ vouch["zip"] = vouch["installation.json"]

\* A stage that needs a new directory has no file outside of it, and in it
\* none that its script is still to write.
DirectoryFirst == \A s \in Fresh \ dirs : \A f \in Wrote[s] : file[f] = NoFile
NothingAhead == InScript /\ Stage \in Fresh =>
    \A k \in step .. Len(Script[Stage]) : LET c == Script[Stage][k] IN
        c.do \in {"make", "seal"} => file[c.what] = NoFile \/ (pc = "writing" /\ k = step)

DiskInv == Bounded /\ RecordSound /\ VouchSound /\ DoneWhole /\ ZipFits /\ DirectoryFirst
RunInv == Place /\ KnownSound /\ SealsFit /\ NothingAhead
InstallationInv == InstallationTypeOK /\ DiskInv /\ RunInv /\ FinishedAccounts

\* The inputs are supported, and the references can be resolved.
Buildable ==
    /\ \A f \in Inputs : file[f] = {}
    /\ \A n \in Support : IsFile(n)
    /\ \E S \in SUBSET Names : Sufficient(S) /\ \A n \in S : library[n].kind = "managed"

\* The output directory was made, by a run that was killed before it wrote the
\* first record or was given --resume too soon: a run without --resume refuses
\* the directory, and one with it misses the record.
Blocked == out = "empty" /\ pc = "idle"

\* Interruptions and failures do not otherwise stand in the way: a build of
\* good inputs that is resumed again and again finishes, if nobody touches its
\* directory (and if no interruption tears the record, or a checkout of a
\* source: see BuildStages and SourceCheckout).
ResumeFinishes == []<>(outcome = "finished" \/ changes > 0 \/ ~Buildable \/ Blocked)
==============================================================================
