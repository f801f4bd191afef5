----------------------------- MODULE AudioPacing -----------------------------
(***************************************************************************)
(* The deadline with which mix in native/fmod/output.c paces FMOD's mixer  *)
(* thread, which otherwise would render as fast as it can until the ring   *)
(* is full.  Each call sleeps until the deadline and moves it on by the    *)
(* duration of a block; a call that comes too late starts a new schedule,  *)
(* far enough back to fill the ring again.                                 *)
(*                                                                         *)
(* Time is the tick counter of the console, which starts at its boot.      *)
(***************************************************************************)
EXTENDS Integers

CONSTANTS
    Ring,      \* BUFFERS, the length of the ring
    Duration,  \* the time a block plays: 512 samples at 48 kHz
    Slack,     \* how late a call may be and keep its schedule: 100 ms
    TimeMod,   \* 2^64: times are uint64_t
    Boot,      \* the earliest time at which a mixer can run
    MaxTime    \* bound of the explored times

ASSUME PacingAssumption ==
    /\ Ring \in Nat \ {0} /\ Duration \in Nat \ {0}
    /\ Slack \in Nat /\ Slack >= (Ring - 1) * Duration
    /\ Boot \in Nat /\ Boot >= (Ring - 1) * Duration
    /\ TimeMod \in Nat /\ MaxTime \in Nat
    /\ TimeMod > MaxTime + Slack + Duration

VARIABLES
    now,       \* the time
    call,      \* "idle", "sleep": in svcSleepThread, "mix": rendering
    deadline,  \* when the next block is due; 0 before the first call
    granted,   \* history: the playing time of all blocks granted so far
    origin     \* history: when the first call came

pacingVars == <<now, call, deadline, granted, origin>>

\* Mutated forms, for the mutation runs: a schedule that starts ahead of time,
\* or a block too far back.
RingAfter(t)      == t + (Ring - 1) * Duration
RingBeforeFull(t) == t - Ring * Duration

\* What lies the whole ring but one block before t.
RingBefore(t) ==
    LET lead == (Ring - 1) * Duration
    IN  IF t >= lead THEN t - lead ELSE t - lead + TimeMod

PacingInit ==
    /\ now \in Boot .. MaxTime
    /\ call = "idle" /\ deadline = 0 /\ granted = 0 /\ origin = 0

Late(t) == deadline = 0 \/ t > deadline + Slack

\* mix up to svcSleepThread: read the clock, restart a schedule that is not
\* there or too far behind, and sleep if the block is not due yet.
Enter ==
    /\ call = "idle"
    /\ deadline' = IF Late(now) THEN RingBefore(now) ELSE deadline
    /\ call' = "sleep"
    /\ origin' = IF deadline = 0 THEN now ELSE origin
    /\ UNCHANGED <<now, granted>>

\* svcSleepThread returns, not before the deadline.
Wake ==
    /\ call = "sleep" /\ now >= deadline
    /\ deadline' = deadline + Duration
    /\ call' = "mix"
    /\ granted' = granted + Duration
    /\ UNCHANGED <<now, origin>>

\* The rest of mix, which may take any time.
Return ==
    /\ call = "mix"
    /\ call' = "idle"
    /\ UNCHANGED <<now, deadline, granted, origin>>

Tick ==
    /\ now < MaxTime
    /\ now' = now + 1
    /\ UNCHANGED <<call, deadline, granted, origin>>

PacingNext == Enter \/ Wake \/ Return \/ Tick

PacingSpec == PacingInit /\ [][PacingNext]_pacingVars

(***************************************************************************)
(* Properties                                                              *)
(***************************************************************************)

PacingTypeOK ==
    /\ now \in 0 .. MaxTime
    /\ call \in {"idle", "sleep", "mix"}
    /\ deadline \in Nat /\ granted \in Nat /\ origin \in Nat

\* A call of mix never sleeps longer than one block plays, whenever it comes
\* and however long the calls before it took.
SleepBounded == call = "sleep" => deadline - now <= Duration

\* The mixer is never granted more than real time plus one ring: however the
\* calls bunch up after stalls, the blocks rendered since the first call play
\* for no longer than has passed since then and the ring together.
RateBounded == granted <= (now - origin) + Ring * Duration
==============================================================================
