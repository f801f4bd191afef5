----------------------------- MODULE AudioOutput -----------------------------
(***************************************************************************)
(* The FMOD output plugin of native/fmod/output.c: FMOD systems contend    *)
(* for one Horizon audio device; the system that gets it runs a mixer      *)
(* thread that renders blocks into a ring of Buffers buffers.              *)
(*                                                                         *)
(* Three kinds of process take steps:                                      *)
(*   - the control thread of each FMOD system (ctl), inside init, start,   *)
(*     stop or close_output, or between those callbacks;                   *)
(*   - the mixer thread of each started system (mixer), inside mix or      *)
(*     between two calls of it;                                            *)
(*   - the audio service (external), which finishes the buffers it holds.  *)
(*                                                                         *)
(* A step ends wherever another process can observe or disturb what has    *)
(* been done so far.  The deadline that paces mix is in AudioPacing: it    *)
(* delays a call and decides nothing else.                                 *)
(*                                                                         *)
(* FMOD is external.  It is assumed to call start only on an initialised   *)
(* output, to call mix from one thread per started output, and to join     *)
(* that thread before it calls close or start again.                       *)
(***************************************************************************)
EXTENDS Integers, Sequences, FiniteSets, Functions

CONSTANTS
    Systems,      \* the FMOD systems of the process
    Buffers,      \* BUFFERS, the length of the ring
    NextMod,      \* 2^32: next is an unsigned
    CounterMod,   \* 2^64: the statistics are uint64_t
    Blocks,       \* what a rendered block may contain
    Silence,      \* the block with no sample above the audible threshold
    Faults        \* which calls of the environment may fail

FaultKinds ==
    {"memory", "open", "format", "start", "stop", "wait", "release", "read",
     "samples", "append"}

ASSUME BuffersAssumption    == Buffers \in Nat \ {0}
ASSUME NextModAssumption    == NextMod \in Nat \ {0} /\ NextMod % Buffers = 0
ASSUME CounterModAssumption == CounterMod \in Nat \ {0}
ASSUME BlocksAssumption     == Silence \in Blocks
ASSUME FaultsAssumption     == Faults \subseteq FaultKinds

VARIABLES
    device_owned,  \* the process-wide flag that init acquires
    ctl,           \* where the control thread of each system is
    mixer,         \* where the mixer thread of each system is
    output,        \* the Output of each system, reached through plugindata
    opened,        \* sessions of the audio service (libnx counts them)
    queue,         \* buffers the service holds, oldest first
    finished,      \* buffers it is done with, not yet collected
    stats,         \* the statistics, modulo CounterMod
    output_error   \* has a driver error been recorded?

deviceVars == <<opened, queue, finished>>
statVars   == <<stats, output_error>>
vars == <<device_owned, ctl, mixer, output, deviceVars, statVars>>

Slots == 0 .. Buffers - 1

\* A ring buffer is known to the service by its address.
Address == Systems \X Slots

\* Where a control thread may be.  "none": no output.  "calloc" to "buffers":
\* inside init.  "ready": init returned FMOD_OK.  "started" to "halted":
\* start returned, FMOD wants the mixer to stop, stop returned.  "exit" to
\* "disown": inside close_output.
CtlStates == {"none", "calloc", "open", "format", "buffers", "ready",
              "started", "stopping", "halted", "exit", "free", "disown"}

MixerStates == {"idle", "slot", "wait", "read", "convert", "append", "commit"}

\* attached: plugindata is not NULL.  memory: the buffers memalign returned.
\* pcm: their contents.  pending: given to the device and not taken back.
\* next: the number of blocks appended.
Output == [attached : BOOLEAN, memory : SUBSET Slots, pcm : [Slots -> Blocks],
           pending : SUBSET Slots, next : 0 .. NextMod - 1]

NoOutput == [attached |-> FALSE, memory |-> {}, pcm |-> [i \in Slots |-> Silence],
             pending |-> {}, next |-> 0]

\* lost is a history variable: the blocks appended that no release will count.
Counter == 0 .. CounterMod - 1
Stats == [mixed : Counter, nonzero : Counter, released : Counter,
          timeouts : Counter, lost : Counter]

IncNext(n)    == IF n + 1 = NextMod THEN 0 ELSE n + 1
IncCounter(n) == IF n + 1 = CounterMod THEN 0 ELSE n + 1

Slot(s) == output[s].next % Buffers

\* Buffer i has been appended.
Appended(o, i) == [o EXCEPT !.pending = @ \union {i}, !.next = IncNext(@)]

\* Has the service got the buffer, played or not?
Held(s, i) == <<s, i>> \in Range(queue) \/ <<s, i>> \in Range(finished)

Init ==
    /\ device_owned = 0
    /\ ctl = [s \in Systems |-> "none"]
    /\ mixer = [s \in Systems |-> "idle"]
    /\ output = [s \in Systems |-> NoOutput]
    /\ opened = 0 /\ queue = <<>> /\ finished = <<>>
    /\ stats = [mixed |-> 0, nonzero |-> 0, released |-> 0, timeouts |-> 0,
                lost |-> 0]
    /\ output_error = FALSE

CtlStep(s, from, to) ==
    /\ ctl[s] = from /\ ctl' = [ctl EXCEPT ![s] = to]
    /\ UNCHANGED mixer

MixStep(s, from, to) ==
    /\ mixer[s] = from /\ mixer' = [mixer EXCEPT ![s] = to]
    /\ UNCHANGED <<device_owned, ctl>>

\* fail(): the error is recorded and never cleared.
Fail(kind) == kind \in Faults /\ output_error' = TRUE

Joined(s) == mixer[s] = "idle"

(***************************************************************************)
(* Mutated forms: plausible mistakes in the code, each of which one of the *)
(* properties at the end has to notice.  No specification uses them.       *)
(***************************************************************************)

\* close_output without its test of plugindata.
CloseRequestUnchecked(s) ==
    /\ Joined(s)
    /\ \E from \in {"none", "ready", "halted"} : CtlStep(s, from, "exit")
    /\ UNCHANGED <<device_owned, output, deviceVars, statVars>>

\* A format mismatch that returns without closing.
InitFormatLeaks(s) ==
    /\ \/ CtlStep(s, "format", "buffers")
       \/ "format" \in Faults /\ CtlStep(s, "format", "none")
    /\ UNCHANGED <<device_owned, output, deviceVars, statVars>>

\* A failed memalign that ends the loop and not init.
InitBuffersPartial(s) ==
    /\ CtlStep(s, "buffers", "ready")
    /\ \E i \in 0 .. Buffers :
          output' = [output EXCEPT ![s].memory = 0 .. i - 1]
    /\ UNCHANGED <<device_owned, deviceVars, statVars>>

\* close_output without the final store.
CloseDisownForgets(s) ==
    /\ CtlStep(s, "disown", "none")
    /\ UNCHANGED <<device_owned, output, deviceVars, statVars>>

\* No look at pending at all.
MixSlotUnchecked(s) ==
    /\ MixStep(s, "slot", "read")
    /\ UNCHANGED <<output, deviceVars, statVars>>

\* A timeout that leaves the loop and not mix ...
MixTimeoutMixesOn(s) ==
    /\ finished = <<>>
    /\ MixStep(s, "wait", "read")
    /\ stats' = [stats EXCEPT !.timeouts = IncCounter(@)]
    /\ UNCHANGED <<output, deviceVars, output_error>>

\* ... that waits again ...
MixTimeoutRetries(s) ==
    /\ finished = <<>>
    /\ MixStep(s, "wait", "wait")
    /\ stats' = [stats EXCEPT !.timeouts = IncCounter(@)]
    /\ UNCHANGED <<output, deviceVars, output_error>>

\* ... that gives the buffer up ...
MixTimeoutForgets(s) ==
    /\ finished = <<>>
    /\ MixStep(s, "wait", "idle")
    /\ output' = [output EXCEPT ![s].pending = @ \ {Slot(s)}]
    /\ UNCHANGED <<deviceVars, statVars>>

\* released counted before the look at count.
MixNoneCounts(s) ==
    /\ finished = <<>>
    /\ MixStep(s, "wait", "idle")
    /\ stats' = [stats EXCEPT !.released = IncCounter(@)]
    /\ UNCHANGED <<output, deviceVars, output_error>>

(***************************************************************************)
(* init                                                                    *)
(***************************************************************************)

\* The compare-and-swap on device_owned.  Arguments the plugin cannot serve
\* and a device that is taken are refused before anything changes.
InitClaim(s) ==
    /\ device_owned = 0 /\ device_owned' = 1
    /\ CtlStep(s, "none", "calloc")
    /\ UNCHANGED <<output, deviceVars, statVars>>

InitCalloc(s) ==
    /\ \/ CtlStep(s, "calloc", "open") /\ UNCHANGED device_owned
       \/ "memory" \in Faults /\ CtlStep(s, "calloc", "none") /\ device_owned' = 0
    /\ UNCHANGED <<output, deviceVars, statVars>>

\* audoutInitialize; the Output, zeroed, is attached only when it succeeds.
InitOpen(s) ==
    /\ CtlStep(s, "open", "format")
    /\ opened' = opened + 1
    /\ output' = [output EXCEPT ![s].attached = TRUE]
    /\ UNCHANGED <<device_owned, queue, finished, statVars>>

InitOpenFails(s) ==
    /\ CtlStep(s, "open", "none")
    /\ Fail("open")
    /\ device_owned' = 0
    /\ UNCHANGED <<output, deviceVars, stats>>

\* A device of another rate or channel count is closed again.
InitFormat(s) ==
    /\ \/ CtlStep(s, "format", "buffers")
       \/ "format" \in Faults /\ CtlStep(s, "format", "exit")
    /\ UNCHANGED <<device_owned, output, deviceVars, statVars>>

\* memalign in a loop: the first failure leaves the buffers below it
\* allocated and closes the output.
InitBuffers(s) ==
    /\ \E i \in 0 .. Buffers :
          /\ output' = [output EXCEPT ![s].memory = 0 .. i - 1]
          /\ \/ i = Buffers /\ CtlStep(s, "buffers", "ready")
             \/ i < Buffers /\ "memory" \in Faults /\ CtlStep(s, "buffers", "exit")
    /\ UNCHANGED <<device_owned, deviceVars, statVars>>

(***************************************************************************)
(* start, stop, close_output                                               *)
(***************************************************************************)

\* An output that has been stopped can be started again.  A start that fails
\* records the error and leaves the output as it was.
Start(s) ==
    /\ Joined(s)
    /\ \E from \in {"ready", "halted"} :
          \/ CtlStep(s, from, "started") /\ UNCHANGED output_error
          \/ CtlStep(s, from, from) /\ Fail("start")
    /\ UNCHANGED <<device_owned, output, deviceVars, stats>>

\* FMOD decides to stop the output: it will not call mix again.
StopRequest(s) ==
    /\ CtlStep(s, "started", "stopping")
    /\ UNCHANGED <<device_owned, output, deviceVars, statVars>>

\* The mixer may still be inside mix; whether audoutStopAudioOut succeeds
\* or fails, the output can only be restarted or closed afterwards.
Stop(s) ==
    /\ CtlStep(s, "stopping", "halted")
    /\ UNCHANGED output_error \/ Fail("stop")
    /\ UNCHANGED <<device_owned, output, deviceVars, stats>>

\* close_output on a system with an Output.  Without one (never initialised,
\* refused, or closed before) it returns FMOD_OK and changes nothing.
CloseRequest(s) ==
    /\ output[s].attached /\ Joined(s)
    /\ \E from \in {"none", "ready", "halted"} : CtlStep(s, from, "exit")
    /\ UNCHANGED <<device_owned, output, deviceVars, statVars>>

\* audoutExit: with its last session the service lets go of every buffer.
CloseExit(s) ==
    /\ CtlStep(s, "exit", "free")
    /\ opened' = opened - 1
    /\ IF opened = 1 THEN queue' = <<>> /\ finished' = <<>>
                     ELSE UNCHANGED <<queue, finished>>
    /\ UNCHANGED <<device_owned, output, statVars>>

\* The buffers and the Output are freed; what was pending is never counted.
CloseFree(s) ==
    /\ CtlStep(s, "free", "disown")
    /\ output' = [output EXCEPT ![s] = NoOutput]
    /\ stats' = [stats EXCEPT !.lost =
                    (@ + Cardinality(output[s].pending)) % CounterMod]
    /\ UNCHANGED <<device_owned, deviceVars, output_error>>

CloseDisown(s) ==
    /\ CtlStep(s, "disown", "none")
    /\ device_owned' = 0
    /\ UNCHANGED <<output, deviceVars, statVars>>

(***************************************************************************)
(* mix                                                                     *)
(***************************************************************************)

\* FMOD's mixer thread calls mix, which first sleeps until its deadline.
MixEnter(s) ==
    /\ ctl[s] = "started"
    /\ MixStep(s, "idle", "slot")
    /\ UNCHANGED <<output, deviceVars, statVars>>

\* while(o->pending[slot])
MixSlot(s) ==
    /\ MixStep(s, "slot", IF Slot(s) \in output[s].pending THEN "wait" ELSE "read")
    /\ UNCHANGED <<output, deviceVars, statVars>>

\* audoutWaitPlayFinish ran for 200 ms: mix returns and keeps the buffer.
MixTimeout(s) ==
    /\ finished = <<>>
    /\ MixStep(s, "wait", "idle")
    /\ stats' = [stats EXCEPT !.timeouts = IncCounter(@)]
    /\ UNCHANGED <<output, deviceVars, output_error>>

\* The service signalled and had nothing to hand back.
MixNone(s) ==
    /\ finished = <<>>
    /\ MixStep(s, "wait", "idle")
    /\ UNCHANGED <<output, deviceVars, statVars>>

\* One pending buffer comes back: its flag is cleared and the slot is looked
\* at again, for it need not be the buffer mix is waiting for.
MixReleased(s) ==
    /\ finished # <<>>
    /\ \E i \in output[s].pending :
          /\ Head(finished) = <<s, i>>
          /\ output' = [output EXCEPT ![s].pending = @ \ {i}]
    /\ MixStep(s, "wait", "slot")
    /\ finished' = Tail(finished)
    /\ stats' = [stats EXCEPT !.released = IncCounter(@)]
    /\ UNCHANGED <<opened, queue, output_error>>

\* A service that names one buffer and reports two: the named one is taken
\* back but not counted, the other one is never heard of again.
MixSurplus(s) ==
    /\ Len(finished) >= 2
    /\ \E i \in output[s].pending :
          /\ Head(finished) = <<s, i>>
          /\ output' = [output EXCEPT ![s].pending = @ \ {i}]
    /\ MixStep(s, "wait", "idle")
    /\ finished' = Tail(Tail(finished))
    /\ Fail("release")
    /\ stats' = [stats EXCEPT !.lost = IncCounter(@)]
    /\ UNCHANGED <<opened, queue>>

\* readfrommixer renders a block into o->mix.
MixRead(s) ==
    /\ MixStep(s, "read", "convert")
    /\ UNCHANGED <<output, deviceVars, statVars>>

\* The samples are converted into the buffer and flushed to memory.  One that
\* is not finite ends mix half way, with the buffer perhaps overwritten.
MixConvert(s) ==
    /\ \E block \in Blocks : output' = [output EXCEPT ![s].pcm[Slot(s)] = block]
    /\ \/ MixStep(s, "convert", "append") /\ UNCHANGED output_error
       \/ MixStep(s, "convert", "idle") /\ Fail("samples")
    /\ UNCHANGED <<deviceVars, stats>>

\* audoutAppendAudioOutBuffer: the device has the buffer from here on, which
\* mix has not recorded yet.
MixAppend(s) ==
    /\ MixStep(s, "append", "commit")
    /\ queue' = Append(queue, <<s, Slot(s)>>)
    /\ UNCHANGED <<output, opened, finished, statVars>>

MixCommit(s) ==
    /\ MixStep(s, "commit", "idle")
    /\ output' = [output EXCEPT ![s] = Appended(@, Slot(s))]
    /\ stats' = [stats EXCEPT
          !.mixed = IncCounter(@),
          !.nonzero = IF output[s].pcm[Slot(s)] = Silence THEN @ ELSE IncCounter(@)]
    /\ UNCHANGED <<deviceVars, output_error>>

\* A wait, a read or an append that fails, and a service that names a buffer
\* which is not pending, end mix and change nothing but the recorded error.
MixFails(s) ==
    /\ \/ MixStep(s, "wait", "idle") /\ (Fail("wait") \/ Fail("release"))
       \/ MixStep(s, "read", "idle") /\ Fail("read")
       \/ MixStep(s, "append", "idle") /\ Fail("append")
    /\ UNCHANGED <<output, deviceVars, stats>>

(***************************************************************************)
(* The audio service plays its buffers in the order it was given them.     *)
(***************************************************************************)
Complete ==
    /\ opened > 0 /\ queue # <<>>
    /\ queue' = Tail(queue)
    /\ finished' = Append(finished, Head(queue))
    /\ UNCHANGED <<device_owned, ctl, mixer, output, opened, statVars>>

\* What the game, through FMOD, may ask for at any time.
Request(s) == InitClaim(s) \/ Start(s) \/ StopRequest(s) \/ CloseRequest(s)

\* Steps a control thread takes by itself once a callback has been entered.
Callback(s) ==
    \/ InitCalloc(s) \/ InitOpen(s) \/ InitOpenFails(s) \/ InitFormat(s)
    \/ InitBuffers(s) \/ Stop(s) \/ CloseExit(s) \/ CloseFree(s)
    \/ CloseDisown(s)

Mix(s) ==
    \/ MixSlot(s) \/ MixTimeout(s) \/ MixNone(s) \/ MixReleased(s)
    \/ MixSurplus(s) \/ MixRead(s) \/ MixConvert(s) \/ MixAppend(s)
    \/ MixCommit(s) \/ MixFails(s)

Next ==
    \/ \E s \in Systems : Request(s) \/ Callback(s) \/ MixEnter(s) \/ Mix(s)
    \/ Complete

Spec == Init /\ [][Next]_vars

\* A callback that was entered runs to its end, and so does a call of mix.
\* Nothing is assumed of the service, nor of what FMOD asks for.
Fairness == \A s \in Systems : WF_vars(Callback(s)) /\ WF_vars(Mix(s))

FairSpec == Spec /\ Fairness

(***************************************************************************)
(* Properties                                                              *)
(***************************************************************************)

\* Every variable stays in its type.
TypeOK ==
    /\ device_owned \in {0, 1}
    /\ ctl \in [Systems -> CtlStates]
    /\ mixer \in [Systems -> MixerStates]
    /\ output \in [Systems -> Output]
    /\ opened \in Int
    /\ queue \in Seq(Address) /\ finished \in Seq(Address)
    /\ stats \in Stats
    /\ output_error \in BOOLEAN

Owns(s) == ctl[s] # "none"

\* Only one system is anywhere between claiming the device and giving it up,
\* and the flag says so, whatever init attempts, failures and closes of the
\* others come in between (README.md of native/fmod: only one system can own
\* the device).
ExclusiveOwner ==
    /\ \A s, t \in Systems : Owns(s) /\ Owns(t) => s = t
    /\ (device_owned = 1) <=> \E s \in Systems : Owns(s)

\* While the mixer converts samples into a buffer or hands it over, the
\* device does not hold that buffer, played or not: nothing audible is ever
\* overwritten and no buffer is appended twice.
NoOverwrite ==
    \A s \in Systems :
        mixer[s] \in {"convert", "append"} => ~Held(s, Slot(s))

\* The device never holds a buffer that has been freed or was never
\* allocated, and nobody mixes without a complete ring: close_output frees
\* only after audoutExit, and a partial init never gets as far as mix.
HeldMemory ==
    /\ \A s \in Systems, i \in Slots :
          Held(s, i) => i \in output[s].memory
    /\ \A s \in Systems :
          mixer[s] # "idle" =>
              output[s].attached /\ output[s].memory = Slots /\ opened = 1

\* A system that does not own the device left nothing behind, however far its
\* init got before it failed: no Output, no buffer, no session.
CleanFailure ==
    /\ \A s \in Systems :
          ctl[s] = "none" => output[s] = NoOutput
    /\ (\A s \in Systems : ctl[s] = "none") =>
          opened = 0 /\ queue = <<>> /\ finished = <<>>

\* As long as no driver error has been recorded, the pending flags are exactly
\* the buffers the device has, apart from the one that is just being appended:
\* no buffer is waited for in vain and none is forgotten.
PendingMirrorsDevice ==
    ~output_error =>
        \A s \in Systems, i \in Slots :
            Held(s, i) <=>
                \/ i \in output[s].pending /\ ctl[s] # "free"
                \/ mixer[s] = "commit" /\ i = Slot(s)

\* The statistics balance at every moment, across sessions and through the
\* wrap of the counters: what was mixed was released, is pending, or was
\* dropped by a close or by a faulty service.
Accounting ==
    LET inFlight == Cardinality(UNION {{s} \X output[s].pending : s \in Systems})
    IN  stats.mixed = (stats.released + stats.lost + inFlight) % CounterMod

\* The statistics of the mixer only move while an output is started or its
\* mixer has not been joined: after a release they stand still until the next
\* session (tests/fmod-managed/Probe.cs:22-30).
QuietWhenReleased ==
    [][\A counter \in {"mixed", "nonzero", "released", "timeouts"} :
          stats'[counter] # stats[counter] =>
              \E s \in Systems : ctl[s] \in {"started", "stopping", "halted"}]_vars

\* A system that was asked to stop gets its mixer thread back even if the
\* device never finishes another buffer: the 200 ms timeout leaves mix.
StopJoins == \A s \in Systems : ctl[s] = "halted" ~> Joined(s)

\* A close, whether asked for or the end of a failed init, frees the device.
CloseReleases == \A s \in Systems : ctl[s] = "exit" ~> device_owned = 0

\* The owner as the other systems see it.
Owner == IF \E s \in Systems : Owns(s) THEN CHOOSE s \in Systems : Owns(s)
                                       ELSE "nobody"

\* The plugin implements the abstract audio stream: blocks are played once,
\* in the order and with the contents the mixer gave them, and only the owner
\* touches the device.
Stream == INSTANCE AudioStream WITH
    Nobody <- "nobody",
    Depth  <- Buffers,
    owner  <- Owner,
    stream <- [k \in 1 .. Len(queue) |-> output[queue[k][1]].pcm[queue[k][2]]]

ImplementsStream == Stream!Spec

(***************************************************************************)
(* Why the safety properties hold: the inductive invariant of the proofs.  *)
(***************************************************************************)

Playing     == {"ready", "started", "stopping", "halted"}
SessionOpen == Playing \union {"format", "buffers", "exit"}
OutputAlive == SessionOpen \union {"free"}

\* mix runs only between a start and the join that precedes a close.
MixerJoined ==
    \A s \in Systems :
        mixer[s] # "idle" => ctl[s] \in {"started", "stopping", "halted"}

\* An Output exists exactly from the open to the free, and is complete while
\* it may be played.
OutputPhases ==
    \A s \in Systems :
        /\ ctl[s] \notin OutputAlive => output[s] = NoOutput
        /\ ctl[s] \in OutputAlive => output[s].attached
        /\ ctl[s] \in Playing => output[s].memory = Slots

\* There is one session of the service for the one owner, and without a
\* session the service holds nothing.
OneSession ==
    /\ (\E s \in Systems : ctl[s] \in SessionOpen) => opened = 1
    /\ (\A s \in Systems : ctl[s] \notin SessionOpen) =>
          opened = 0 /\ queue = <<>> /\ finished = <<>>

\* Whatever the service holds is allocated and flagged, but for the buffer
\* that was appended and is not committed yet.
HeldPending ==
    \A s \in Systems, i \in Slots :
        Held(s, i) =>
            /\ ctl[s] \in Playing \union {"exit"}
            /\ i \in output[s].memory
            /\ i \in output[s].pending \/ (mixer[s] = "commit" /\ i = Slot(s))

\* The service holds no buffer twice.
HeldOnce ==
    /\ IsInjective(queue) /\ IsInjective(finished)
    /\ Range(queue) \intersect Range(finished) = {}

\* A slot that mix is filling is not flagged.
SlotFree ==
    \A s \in Systems :
        mixer[s] \in {"read", "convert", "append", "commit"} =>
            Slot(s) \notin output[s].pending

\* Without a recorded error the converse holds too: what is flagged, or just
\* being appended, is with the service.
FlagsBacked ==
    ~output_error =>
        \A s \in Systems, i \in Slots :
            \/ i \in output[s].pending /\ ctl[s] # "free"
            \/ mixer[s] = "commit" /\ i = Slot(s)
            => Held(s, i)

IInv == /\ ExclusiveOwner /\ MixerJoined /\ OutputPhases
        /\ OneSession /\ HeldPending /\ HeldOnce /\ SlotFree
==============================================================================
