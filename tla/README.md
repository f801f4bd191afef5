# Verification of Celeste-Switch

TLA+ models of Celeste-Switch, the TLC runs that check them and the TLAPS proofs
about them. Celeste-Switch builds a Celeste installation with Everest for a
Nintendo Switch running homebrew: Python scripts build pinned sources into a
package, and at run time CoreCLR hosts the game, with FMOD's Android libraries
behind a small native adapter and a performance mod written in C#.

Everything here is translated from the code at this commit. What lies outside of
the repository (FMOD, libnx, the audio service, .NET's collections, the commands
of a build) is modelled from how the code uses it and named as such below.

To repeat a run: `tlc -config MCMeter.cfg MCMeter`. To repeat the proofs:
`tlapm MeterProofs.tla`.

## The system

| Component | Source | State it keeps | Operations | Modelled in |
|---|---|---|---|---|
| FMOD output plugin | `native/fmod/output.c` | `device_owned`, one `Output` per FMOD system (ring of 4 buffers, pending flags, `next`, `deadline`), 4 counters, an error flag | `init`, `start`, `stop`, `close_output`, `mix`, `CelesteFmodConfigure` | AudioOutput, AudioPacing, FmodRuntime |
| FMOD library loader | `native/fmod/runtime.c` | `load_lock`, `loaded`, `log_lock` | `CelesteFmodResolve`, `create_studio`, `create_low` | FmodRuntime |
| Bionic adapter | `native/fmod/android.c` | `adapter_lock`, words of FMOD's mutexes and `pthread_once`, process handle, loaded modules | mutexes, `once`, threads, semaphores, `acquire_process`, `android_load` | BionicMutex, FmodRuntime (partly) |
| JNI facade | `native/fmod/jni.c` | none: constant answers | startup queries | no |
| FMOD preparation | `native/fmod/prepare.py`, `fmod_imports.py` | files | extraction, loader source, import table | Installation (one stage) |
| Performance mod: profile output | `SwitchPerformance/PerformanceModule.cs` | queue of 512 records, `stopped`, `dropped`, `window`, writer thread, files | `Load`, `Snapshot`, `Emit`, `WriteRecords`, `Unload` | ProfileWriter, ProfileSummary |
| Performance mod: meters | `Meter.cs` | count, ticks, maximum, 128 bins | `Stop`, `Snapshot` | Meter, MeterSummary |
| Performance mod: sampling, checksums | `EntitySampling.cs`, `ChecksumBuffering.cs` | sampling flags, `checksumDepth`, both thread-local | hooks of the game's methods | no |
| Profile summary | `scripts/summarize-performance.py` | none: a report over the files | records, totals, percentile | ProfileSummary, MeterSummary |
| Build pipeline | `build.py` | output directory, `build-state.json` | stages, `--resume` | BuildStages, Installation |
| Source support | `eng/horizon/support.py` | checkouts, SDK, downloads | `git_source`, `submodules`, `libnx`, `download` | SourceCheckout |
| Host build | `host/build.py` | `known`, `pending`, `dependencies`; files | verification of inputs, reference closure, link, manifest | DependencyClosure, Installation |
| Host imports | `host/imports.c` | heap and GC settings, once at start-up | configuration, symbol tables | no |
| Mesa, Lua, graphics builds | `native/mesa/build.py`, `native/lua/build.py`, `native/graphics/manifest.py` | files | compile, test, seal | Installation (a stage each) |
| Staging, packaging | `tools/prepare-everest/run.py`, `tools/stage-content/stage.py`, `tools/package/package.py`, `scripts/build-performance-mod.py` | files | validate, copy, seal | Installation (a stage each) |
| Mesa patches, inventories | `native/mesa/*`, `scripts/inventory_*.py`, `check_sources.py` | none here | source patches, reports | no |

### How they interact, and what is hard

* The game calls FMOD through P/Invokes that `CelesteFmodResolve` answers on any
  thread. The first one loads the libraries, under `load_lock`; systems are
  created through wrappers that configure the plugin before the game sees them.
* FMOD runs on threads of its own. It calls `init`, `start`, `stop` and
  `close_output` for a system on the game's thread and `mix` on its mixer thread;
  it joins that thread between `stop` and `close_output`. The audio service plays
  the buffers meanwhile. Several systems may be created, and one device exists.
* FMOD's mutexes are words in its own memory, which the adapter replaces at the
  first call by mutexes of the system; any thread may make that first call.
* Hooks of the performance mod run on the game's main thread and on loader
  threads. They stop meters without a lock and emit records into a bounded queue;
  a background thread writes files; `Unload` runs on the main thread.
* The records that reach a file are all that `summarize-performance.py` knows of a
  session: for each scene it adds up the windows that began and ended in it, which were
  taken while hooks were running, and reports the counter of dropped records that the
  surviving records carry.
* A build may be killed at any moment, its commands may fail, and the directory
  may change before the next run with `--resume`. Each stage is a script that
  checks its inputs, makes files one after the other and seals them with a manifest;
  the next one reads them, perhaps days later, in another run. Only some of the files are
  recorded or listed, and only those are checked.

The behaviours that are hard to test are the interleavings of these threads,
partial failures (every call of the service, of FMOD's API, of the file system),
timeouts (the 200 ms wait of `mix`, the one second of the handshake, the two
seconds of `Join`), bounded resources (the ring, the queue), counters that wrap,
and interruptions. `PROJECT.json` lists them with their lines and properties.

### What makes each component correct

* Output plugin: one owner of the device; no buffer overwritten or freed while the
  service has it; every failure undone; blocks played once, in order; a stop that
  cannot hang; a pace that never outruns real time by more than the ring.
* Loader: libraries loaded once and completely before use; a handshake that ends
  and leaves nothing; no half configured system.
* Adapter: a word is one mutex of its type, for its whole life; an initialiser
  runs once.
* Profile output: accepted records written once and in order; none unaccounted for;
  a profile with holes never passes for a whole one.
* Meter and its summary: no call lost or shown twice, the longest ones among them;
  the row of a scene shows the calls of its windows, and is off by no more than the
  calls that were torn between two windows.
* Sources: a run that ends well has every checkout at its pin and every file of the
  pinned SDK; no work of the user is touched; a download is the right file or none.
* Host build: the link gets the closure of the game's references, and nothing of the
  framework's from elsewhere.
* Scripts: a directory with its last file is whole, and stays so; what was changed
  from outside reaches the card only where no stage looks.
* Build: the recorded outputs of a finished build are of one version throughout, and
  only files that nobody records can enter it unseen; completed outputs and leftovers
  are never destroyed; an interrupted build can be continued.

## The modules

### AudioOutput, AudioStream: the device and its buffers

`AudioStream` is what the plugin promises: a stream of blocks with at most one
owner, who gives blocks that are played in order. `AudioOutput` is `output.c`:
`ctl[s]` is the point the control thread of system `s` has reached in `init`,
`start`, `stop` or `close_output`, `mixer[s]` the point its mixer thread has
reached in `mix`, `output[s]` its `Output`. Each action is the code between two
calls of the service, so the two threads, other systems and the device interleave
at every call. `queue` and `finished` are the audio service: appended buffers that
it has not played, and played ones that were not collected. Each call may fail;
`Faults` says which kinds do.

`ImplementsStream` maps the ring onto the stream: the owner is the system between
the compare-and-swap on `device_owned` and the final store, and the stream is the
contents, now, of the buffers queued, so a buffer that was overwritten too early
breaks it.

| Run | What it shows |
|---|---|
| `audio_output` | Two systems, the four buffers of the code, all faults: `ExclusiveOwner`, `NoOverwrite`, `HeldMemory`, `CleanFailure`, `PendingMirrorsDevice`, `Accounting`, `ImplementsStream`. |
| `audio_stops` | `StopJoins`, `CloseReleases`: a stop gets its thread back although the device may never finish a buffer, and a close frees the device. |

Bounds: two systems are enough for a refused one and a playing one, with one
being closed while the other begins. `next` wraps at `NextMod` (8; 2^32 in the
code), which the ring divides as it does there; the counters wrap at `CounterMod`
(2; 2^64 in the code). `audio_stops` uses two buffers. Two blocks, silent and
audible, tell contents apart.

Fairness (`audio_stops`): the control and the mixer threads go on (weak fairness
of `Callback` and `Mix`); nothing is assumed of the device.

### AudioPacing: the deadline of mix

The clock, the deadline and the sleep of `mix`; a call may come at any time and
take any time. `SleepBounded` and `RateBounded`, checked by `audio_pacing` over all
behaviours of 60 ticks with a block of 2, a ring of 4 and a slack of 19 (in the
code: 10.7 ms, 4, 100 ms, and a slack that is likewise longer than the ring but no
multiple of a block). Times wrap at `TimeMod`, so an unsigned subtraction that goes
below zero is seen. Assumption: the mixer runs at least 32 ms after the console's
boot (`Boot`), where `now - (BUFFERS - 1) * duration` does not wrap.

### FmodRuntime: loading and configuring FMOD

`pc[t]` is the point a thread of the game has reached in `CelesteFmodResolve`,
`android_load`, `acquire_process`, `pthread_once` or the creation of a system.
`session`, `request` and `sender` are the session on which the loading thread
sends itself the handle of the process; `lib` is how many of the loops of
`android_load` each library has passed; `system[t]` is how much of
`CelesteFmodConfigure` the system of `t` has been through. The run `fmod_runtime`
checks `LoadedBeforeUse`, `HandshakeClean`, `OnceDone`, `ConfiguredOrNone`,
`WaitsAnswered`, `CallsAdvance` and `CallsReturn` for two threads, one system each and one
`pthread_once_t`. The state space is finite without any bound.

Fairness: each call and the sender go on; strong fairness of `Lock`, because a
libnx mutex wakes a waiting thread each time it is released and no thread
takes it infinitely often without need. An initialiser of `pthread_once` returns.

The result of `threadStart` is ignored (`android.c:349`), so the sender may not run at
all, and its request may fail at once. External: the kernel's session (a request waits
until its server's end is closed), the loader's library, FMOD's API, whose steps may all fail.

### BionicMutex: mutexes at their first call

`word[p]` is a mutex of FMOD as `android.c` keeps it: a type, and the address of
the system's mutex once there is one; `live` and `native` are the heap and the
system's mutexes; `pc[t]` the point a thread has reached in `get_mutex` and the
operation after it. An address that was freed may be allocated again. The run
`bionic_mutex` has two threads, two words, memory for two mutexes and recursion up to
two: `MutualExclusion`, `RightMutex`, `NoLeak`. Threads, words and addresses are
interchangeable, so the run uses symmetry.

Assumption (`Legal`): FMOD keeps to POSIX. In particular no thread is in a call on a
mutex that another initialises or destroys; without it the free in
`mutex_destroy`, outside `adapter_lock`, would be reachable by a waiting lock.

### ProfileWriter, ProfileLog, ProfileSummary: the profile output

`ProfileLog` is the promise: a log that accepts records while it is open, up to a
backlog, and writes them in order. `ProfileWriter` is the bounded queue, the writer
and `Unload`. `emitting[t]` is the record a hook is about to add, after it saw that
`stopped` is false; between the two, `Unload` may do all of its steps. Writes may
fail, and the process may end under the writer after `Unload`. `accepted` and
`refused` are history.

`ProfileSummary` extends it with what the records say: `Load` emits the start record
before it installs a hook; the main thread emits windows, numbered from 0, each with
the counter of dropped records read when it was made; `Snapshot` may throw, with or
without having used up a number, and is not called again; `Unload` emits the stop
record. `Summary` is what `summarize-performance.py` reads from the complete files.
Every state is one the process may have ended in, so `GapsReported` covers a crash
at any time: there is exactly one start record in a log that is not empty, and the
number of windows missing before the last one is at most the number of dropped
records the summary reports, although any of the records that carry the counter may be lost.
A torn last file makes the script stop with an error; it is not counted as written.

`profile_writer` checks `CleanLogAccounts`, `ImplementsLog`, `GapsReported` and, with
fairness, `AcceptedWritten`; two threads, a queue of two, batches of two and four
records before the last, so that the queue and a batch are full, and a window is
dropped between two others, while the teardown runs. In the code these are 512 and
64; the proofs hold for all values.

`profile_write_error` is a finding, see below; it uses ProfileWriter alone.

Fairness: a thread inside `Emit`, `WriteRecords` or `Unload` goes on; the waits of
the writer have timeouts. Nothing is assumed of the end of the process.

### Meter, MeterSummary

`Stop` and `Snapshot` of `Meter.cs`, one interlocked operation per action, and the
compare-and-swap loop with its failing iterations. `shown` sums what the windows
have shown; `samples` and `returned` are history. The README of SwitchPerformance
(lines 72-77) says that a snapshot is no transaction; the model says what
holds nevertheless: `SamplesKept`, `MaximumKept`, `BinsCovered` (over all windows,
the bins never show more calls than the count, because `Stop` writes the bin last
and `Snapshot` takes the bins first).

`MeterSummary` is the row that `summarize-performance.py` makes of one meter for one scene:
the windows whose `contextStart` and `contextEnd` are both that scene and whose index is
asked for (lines 22-26), added up; and from them the calls, the time, the maximum and the
first bin whose running sum reaches the percentile. The first window began at
`"startup"` (`PerformanceModule.cs:20`) and counts for no scene. `contextStart` is where
the open window began, `side` whether the window that is being taken counts, `rows` what
the windows that count (`row`) and the others (`rest`) show.

A call whose `Stop` met no snapshot belongs to one window (`recent`, then `calls`); one
whose `Stop` did may be torn (`torn`): its count may be in a window of the scene and its
bin in the next one, which is of another scene. `RowAccounts` says how far that goes.
When nothing is under way, the row's count, its time and each bin show the calls of the
row's windows and at most the torn ones besides; its maximum is none below theirs and is
one of theirs or of a torn call. If no call was torn, the row is exactly that of the
calls, the percentile by its rank among the sorted calls, whatever happened in the
windows that do not count.

The run `meter` has the main thread, which also takes the snapshots, and a loader thread,
three calls of three durations, two of them in the overflow bin, two scenes besides
`startup`, and the median for the 95th percentile, which with three calls would be the
longest; the calls are bounded by `MaxStops`, the snapshots are not (3.4 million states).
Left out: records lost on the way (ProfileSummary has those) and the figures per second.

### SourceCheckout

`support.py`: the pinned repositories with their submodules, parents first, the libnx
SDK copied from one of them, and an archive with its digest. A checkout is its `.git`
(which an interrupted `git init` leaves partial, and a killed Git locked), its HEAD and
the state of its tree; Git is external. A part of the SDK is the revision whose copy was
last, or torn (`sdk`), and all the revisions that may have files in it (`layers`): a folder
is merged into the one that is there (`support.py:110-112`), a file is replaced. A run
may be killed, or a command fail, between any two effects; between runs the user edits,
switches or removes checkouts, the archive is damaged, and the lock moves.

`sources` checks that a run that ends well has every checkout at its pin and every file of
the pinned libnx in the SDK (`ReadyIsPinned`; the folders of the SDK may also hold files of
revisions that the lock pinned before, because they are merged, but never of one that
libnx was only switched to), that no run touches work of the user (`UserWorkKept`,
`support.py:26`), that the archive only ever becomes the right one
(`DownloadAtomic`), and that after any interruptions and changes a later run
succeeds unless something is in the way that only the user can remove (`Recovers`).
What is in the way is named in `Obstructed`: besides the work of the user, the remains of an
interrupted `git checkout`, which a later run takes for edits and refuses, a `.git` that
an interrupted `git init` left, which is no repository and is not initialised again, and
the lock file of a Git that was killed outright. That is in keeping with `support.py:26`, although `docs/BUILDING.md:122` promises to resume
interrupted builds: it speaks of stages, and checkouts are not stages.

Bounds: a repository with one submodule, libnx with a folder and a file to copy, three
revisions, one of which lacks the submodule, and three events. Fairness: a run goes on, the user starts it again,
and the right bytes arrive if a download is tried for ever (strong fairness of
`Start` and `Receive`).

### DependencyClosure, Installation: from the inputs to the ZIP

`DependencyClosure` is the search of `host/build.py:83-111` through the references of the
game's assemblies, on any graph. `ResolvedIsClosure`: a search that ends well has
loaded the least set that contains the starts and is closed under references
outside the framework, and hands each file over once, but for Everest's patch, which
is handed over unread and a second time where an assembly references it.

`Installation` is the order of the stages of `build.py` and, for each stage, its script as the
steps it takes on the disk: a directory made or required to be absent, files
made from others, compared with a manifest or with a digest in the source, or only
required to be there, and the manifest written. A file is what is wrong with it: torn,
or changed from outside, which whatever is made from it inherits. So the model knows
where a change can travel. A file's contents are the set of what is wrong with it (that it is
missing, or torn, or which files were changed), and a file made from others has the
union of their sets. A run may be killed or a command fail at each step, also
inside a file; between runs a file is changed or lost. `InstallationProofs` holds the
proofs of both modules.

`installation` runs three prepared games through it, one of which lacks an assembly, with good
and bad inputs, two kills or failures and one change:

* `FinishedAccounts`: the ZIP of a finished build holds whole files only, those
  `installation.json` describes, and a change from outside reaches a part of the card
  only through the files in `MayCarry`. That set is what the code's checks leave
  open, and agrees with what `docs/BUILDING.md:179-187` says of the recorded subset: Everest's
  and the prepared libraries, the managed directory and the audio libraries of the
  application, the loader source, and what was added to the staged Content
  (`unlisted`: `package.py:23-26` compares the listed files, line 35 copies the whole
  directory). The Content files that were staged and the archives that are linked are
  not in it.
* `SealedOnce`: once the last file of a stage's directory is whole, all of the
  directory is, and no run changes a file of it; it may be moved away as a whole.
* `ResumeFinishes`: good inputs, resumed after each interruption, lead to a finished
  build, unless a run ended between making the directory and the first record
  (`Blocked`; `build.py:36-44`): neither a plain run nor `--resume` accepts an output
  directory without a record. Every script refuses an existing directory, so this depends on the list
  of stages whose leftovers are set aside (`build.py:52`).
* `ResolvedIsClosure` where the search is part of a build that is interrupted.

With one kill and two changes (2.0 million states) it holds as well. The record of
stages is written whole here; its torn states are in BuildStages. External: the stages
of the ports (FNA, SDL, FNA3D, Everest), which are one step each, and the optional
runtime stage, which is left out. The performance mod is always built. Fairness: a
run goes on, and the user runs the build again, with `--resume` once there is a
record (strong fairness of `Begin`).

### BuildStages

`build.py` on one output directory: a run starts with or without `--resume`, reads
`build-state.json`, verifies recorded stages, moves leftovers of stages that need a
new directory to `incomplete/`, runs commands, digests their outputs and rewrites
the record, in place: emptied, then filled. A run may be killed at each step and its
commands may fail; between runs the inputs change, and change back, recorded outputs
are changed, and so is what nobody records.

The contents of a stage's recorded outputs stand for their digests: `build.py:48,63`
digests the listed files only. The rest of a stage's directory, and the tree of
`--runtime-root`, of which the identity has only the path (`build.py:33`), is clean or
stray (`stray`, 0 for the tree): changed from outside, or left by an earlier run of
the command in a directory that need not be new. What is made while such files may be
read says so (`with`); nobody notices.

`build_stages` checks three properties. `FinishedIsCoherent`: the recorded outputs of a
finished build are those that its commands made from the inputs of this run, each from
the recorded outputs before it; only files that no record names can have entered,
never from a later stage nor from leftovers that were set aside. This is what
`docs/BUILDING.md:181-182` leaves: the recorded subset is verified, not the directory.
`LeftoversPreserved` and `CompletedUntouched` are about leftovers and about all that a
completed stage wrote. There are three stages, two of which need a new directory, two
versions of the inputs, four runs and two changes from outside: enough for an
interruption, a change, a refused run and a continued one (617 thousand states).
`build_resume` is a finding.

Assumptions: one run at a time; inputs and outputs do not change during a run;
each stage reads all earlier ones; a command that finds leftovers of its own stage
in a directory that need not be new replaces its outputs, and may keep any other file.

Liveness is not claimed here: a build ends when its commands do (Installation claims
that a resumed one finishes).

## What is proved

All safety properties of the passing runs, invariants and action properties, and both
refinements are theorems: for every value of the constants, under the named assumptions
of the modules.

| Theorem | What it says |
|---|---|
| `AudioOutputProofs!TypeCorrect` | The types of AudioOutput. |
| `AudioOutputProofs!DeviceExclusive` | At most one owner, for any number of systems and any faults. |
| `AudioOutputProofs!BuffersRespected`, `MemorySafe`, `FailureCleans` | No buffer is written while the service has it; the service has allocated memory only; a failed or closed system leaves nothing. |
| `AudioOutputProofs!FlagsExact` | Without a driver error the pending flags are the buffers the device has, for any number of buffers. |
| `AudioOutputProofs!PluginImplementsStream` | AudioOutput implements AudioStream: blocks are played once, in order and as they were given, whatever fails. |
| `AudioOutputProofs!StatisticsBalance`, `StatisticsQuiet` | The counters balance, through their wrap and over any number of sessions; they move only while an output plays. |
| `AudioOutputProofs!SleepIsBounded`, `RateIsBounded` | AudioPacing, for every ring and block and every slack no shorter than the ring. |
| `ProfileWriterProofs!TypeCorrect`, `LogInOrder`, `DoneIsWritten` | For every capacity and batch limit and any threads. |
| `ProfileWriterProofs!QueueImplementsLog` | ProfileWriter implements ProfileLog with room for a full queue and a full batch. |
| `ProfileWriterProofs!CleanLogsAccount` | For finitely many threads, a writer that ended by itself accounts for every record. |
| `ProfileWriterProofs!SummaryIsProfile`, `SummariesReportGaps` | The records of a session are records of a ProfileWriter, and whatever is lost of them, the dropped records a summary reports cover the missing windows before its last one. |
| `FmodRuntimeProofs!TypeCorrect`, `LoadsFirst`, `HandshakeIsClean`, `OnceIsDone`, `NeverHalfConfigured` | For any number of threads: one load, complete before use; a handshake that leaves nothing; initialisers that run once; no half configured system. |
| `FmodRuntimeProofs!NobodyWaitsInVain`, `CallsGoForward` | Whoever waits in a call waits for somebody who can go on; a call is never thrown back, and takes at most twenty steps of its own. |
| `BionicMutexProofs!TypeCorrect`, `Exclusive`, `MutexIsRight`, `NothingLeaks` | For any threads, words, addresses and depth of recursion. |
| `MeterProofs!TypeCorrect`, `LongestKept` | For any threads, durations and bins. |
| `MeterProofs!CallsKept`, `BinsAreCovered` | For finitely many threads and durations: no call or tick is lost or shown twice, and the bins never run ahead of the count. |
| `MeterProofs!RowIsRight` | For finitely many threads and durations, any scenes and every percentile: the row of a scene shows the calls of its windows, off by at most the torn ones, and is exactly theirs if there are none. |
| `SourceCheckoutProofs!CheckoutTypeCorrect`, `ReadyMeansPinned` | For any repositories, order, revisions and links, and any number of kills and edits: a run that ends well has every checkout at its pin and every file of the pinned SDK, whose folders hold nothing but files of revisions the lock has pinned. |
| `SourceCheckoutProofs!UserWorkSafe`, `DownloadIsAtomic` | No run touches work of the user, and an archive only becomes the right one. |
| `InstallationProofs!ClosureTypeCorrect`, `SearchIsClosure`, `FrameworkRetained` | For every set of assemblies and every graph of references: a search that ends well has the closure, and nothing else, once; no file of the directory ever replaces an assembly of the framework. |
| `InstallationProofs!InstallationTypeCorrect`, `FinishedBuildAccounts` | For any number of kills and changes: what a finished build left on the card, and what it may carry. |
| `InstallationProofs!SealedIsWhole` | The last file of a directory stands for all of it. |
| `InstallationProofs!BuildImplementsClosure`, `BuildLinksClosure` | Every build implements the specification of the search, so its link gets the closure, too. |
| `BuildStagesProofs!TypeCorrect`, `FinishCoherent`, `RecordIsTrue`, `LeftoversKept`, `CompletedStays` | For any number of stages, runs, versions and changes: the recorded outputs of a finished build are of one version, and the record never claims more; unrecorded files enter only from earlier stages, the runtime tree and directories that need not be new. |

The arguments:

* AudioOutput: none of the properties is inductive. `ExclusiveOwner` is inductive
  with the flag; the others need `OutputPhases` (how much of an `Output` exists at
  each point of the control thread), `MixerJoined` (no `mix` outside start and
  join), `OneSession`, `HeldPending` (what the service has is allocated and
  flagged), `HeldOnce` and `SlotFree`. Exclusion of `mix` from a freed ring rests
  on FMOD's join, which is an assumption of the model (`CloseRequest`). For
  `FlagsExact` the converse of `HeldPending` is added (`FlagsBacked`). The
  refinement then goes step by step: `HeldOnce` says that a block written into the ring is in
  no queued buffer, so that only an append lengthens the stream and only the device shortens
  it. For the accounting the pending flags are counted as a set, and each wrap of a
  counter is one subtraction of `CounterMod`.
* AudioPacing: since the first call the deadline is at most one block ahead of the
  clock, and the time granted is at most the advance of the deadline since the
  start of the first schedule, which lies a ring less one block before that call.
  A restart only moves the deadline forward, because the slack is no shorter
  than the ring.
* FmodRuntime: between `Lock` and `Unlock` the lock is held (`LockHeld`), so one
  thread at most is loading; `Progress(p)` says what of the session, the sender and
  the libraries exists when it is at point `p`, and `AtRest` what does when nobody
  is. `InStep`: the second library follows the first one by at most one loop. That nobody
  waits in vain rests on `Busy`: the holder of the lock is inside, and an
  initialiser that was begun is being run until `once` says it is done. `Ahead` numbers the
  points of a call, loops of the libraries and steps of the configuration included:
  with fairness, `WaitsAnswered` and `CallsAdvance` are why `CallsReturn` holds, whose last
  step is TLC's.
* BionicMutex: the addresses of words and the allocated mutexes correspond one to one
  (`Belongs`), except for a word between the free and the store that clears it, whose
  address may already be another word's; `Mirrors` says that the mutex of a word is
  held as the word is. Both rest on `Alone`, the rule of POSIX that nobody else is
  in a call on a word that is initialised or destroyed.
* ProfileWriter: `accepted = written \o batch \o queue` is inductive with the phases
  of the batch. For the accounting, the threads between the test of `stopped` and
  `TryAdd` are counted as a set, so that each step of one of them changes its
  cardinality by one.
* ProfileSummary: windows are accepted in the order of their numbers
  (`WindowsInOrder`), none of which is skipped (`NoneSkipped`), and a window carries a
  count of dropped records no smaller than the number of windows before it that the
  queue did not take (`LostCounted`). What reached the files is a prefix of what was
  accepted, so the windows missing before the last one read are among those.
* Meter: a `Stop` that has left its loop is covered by the open window or by a shown
  one, and one that is about to exchange has seen a smaller maximum (`LoopPassed`).
  What was shown, what the counters hold and what is still to be added by the threads
  inside `Stop` and to be shown by the one inside `Snapshot` is all that was measured
  (`KeptInv`). Sums over threads are cardinalities of sets of units (`Sum`), so that a
  step changes them by one fact about finite sets. 
* MeterSummary: each counter that is added up has an account (`RowInv`). The counter and the
  two rows together show each call once, weighed by what it adds, whether it is in a
  window, torn, or still being made; each row shows at least the calls of its windows;
  and the counter holds those of the open window until `Snapshot` takes it, from when on
  the row does (`Open`, `Taken`). When nothing is under way the surplus of the row is
  therefore between nothing and the torn calls. The percentile follows from a bin
  holding exactly the calls of its durations.
* SourceCheckout: a visit writes only into a checkout it found without commits and without
  work in it (`WritesOwn`). What has been visited is at its pin and stays there
  (`VisitedPinned`), because a child is visited after its parent and at the revision the
  parent links to (`LinkAssumption`); the copied parts of the SDK are of the pinned libnx
  (`CopiedPinned`), over files of what the lock pinned before (`LayersPinned`), because
  libnx is only copied when its checkout is at the lock's revision.
* DependencyClosure: what has been read has its references known, and what is being
  read those that are not left (`ReadKnown`); every sufficient set contains what is
  loaded (`OnlyNeeded`), which is inductive because a new name is a reference of one
  that is in every sufficient set. When nothing is pending, `ReadKnown` is closure.
* Installation: a run knows the outputs of the stages it verified or recorded, the
  files its script has written, and those it compared (`Trusted`); all of them are as they
  were made, that is there, whole, and with nothing in them that no check stops
  (`KnownSound`, `Sound`). That holds because the record and the manifests describe
  such files only (`RecordSound`, `VouchSound`), and because a script reads files it
  knows, or ones that what it makes may carry on. The latter is a fact about each
  of the 13 scripts: it is proved for each (`StageFits`), with who writes a file and
  when (`Maker`, `Turn`), so a command added to a script concerns one lemma. `SealedOnce`
  needs that a stage has no file outside of its directory (`DirectoryFirst`), and in it
  none that is still to be written (`NothingAhead`): the reason why leftovers are set
  aside before a script is entered.
* BuildStages: what a run knows is made from its inputs, with nothing but unrecorded files that
  the stage may read (`StateTrue`, `RecordTrue`), all stages before
  the current one are complete (`Behind`), the record is what the run knows
  (`RecordCurrent`), and one run moves the leftovers of a stage away at most once
  (`SavedBound`), which bounds the type of `saved`.

The type invariants are proved and are therefore not repeated in the runs; so are
`RecordTrue`, `InOrder` and `QuietWhenReleased`.

Assumptions on constants that restrict what the theorems are about: threads and durations
are finite sets where they are counted; `NextMod` is a multiple of the ring (2^32 and 4 in
the code); the slack of AudioPacing is no shorter than the ring; the repositories are
visited parents first (`LinkAssumption`), as `support.py` does; the framework and
the game's assemblies are not Everest's two support files (`NamesAssumption`).

Only model-checked: the liveness properties (`StopJoins`, `CloseReleases`, `CallsReturn`,
`AcceptedWritten`, `Recovers`, `ResumeFinishes`), because TLAPS proves neither
liveness under fairness nor `ENABLED`; and that the actions can all be taken, which the
coverage of the runs shows. The two findings are counterexamples of runs.

## Findings

* `profile_write_error` violates `DroppedExplicit`: after a write error the writer
  counts one dropped record (`PerformanceModule.cs:182`), while the batch, the queue
  and what the queue still accepts are lost without being counted, against the
  README's "dropped records are explicit". `CleanLogAccounts` is what does hold.
* `build_resume` violates `Resumable`: the record is rewritten in place
  (`build.py:64`), so an interruption between emptying and filling it leaves a file
  that `--resume` cannot read, and the build cannot be continued although stages
  were completed. No wrong build follows (`FinishedIsCoherent`).

## Plan

What is left, in the order of importance:

1. BuildStages as the record of Installation: that the order and recording of the stages in
   Installation implement those of BuildStages, its torn record apart.
2. Step properties of BionicMutex that the invariants imply, such as that a word's mutex
   never changes between its creation and its destruction.
3. The reports of `inventory_*.py` and `check_sources.py`, if they come to decide
   anything.

## Not modelled

* `jni.c`, the table of forwarded libc functions, the inventory scripts and the
  generators of headers: stateless.
* Thread creation, semaphores, clocks and priorities of the adapter: forwarded one to
  one to libnx or newlib.
* `EntitySampling.cs` and `ChecksumBuffering.cs`: thread-local depths and flags, restored
  in `finally` blocks; no thread sees another's.
* `host/imports.c`: settings made once, before the runtime starts, with an early return for each
  failure; what they bound is in the runtime, which is not in this repository.
* The patches of `native/mesa` change the source of Mesa, which is not in this repository.
* The collector's deltas and the entity samples of the summary: sums without a state.
* The samples themselves (clamping, conversion), the wording of records and logs, the
  rules for single paths in an archive, symlinks and ZIP checksums.
* Tests and fixtures.
