----------------------------- MODULE AudioStream -----------------------------
(***************************************************************************)
(* What the FMOD output plugin of native/fmod/output.c promises, with none *)
(* of its mechanism.  One audio device is owned by at most one FMOD system *)
(* at a time.  Its owner gives it blocks of samples; the device plays the  *)
(* blocks it was given in the order it was given them, each exactly as it  *)
(* was given, and never holds more than Depth of them.                     *)
(*                                                                         *)
(* There are no buffers here, hence nothing to recycle: that a block stays *)
(* as it was given until the device is done with it is what the ring of    *)
(* AudioOutput has to achieve.                                             *)
(***************************************************************************)
EXTENDS Naturals, Sequences

CONSTANTS Systems,  \* the FMOD systems of the process
          Nobody,   \* the owner of a free device, no system
          Blocks,   \* what a block of samples may contain
          Depth     \* how many unfinished blocks the device may hold

VARIABLES owner,   \* the system that owns the device
          stream   \* the blocks given and not yet played, oldest first

vars == <<owner, stream>>

Init == owner = Nobody /\ stream = <<>>

\* A free device is taken; every other attempt is refused and changes nothing.
Acquire(s) ==
    /\ owner = Nobody
    /\ owner' = s
    /\ UNCHANGED stream

Give(s, block) ==
    /\ owner = s
    /\ Len(stream) < Depth
    /\ stream' = Append(stream, block)
    /\ UNCHANGED owner

Play ==
    /\ stream # <<>>
    /\ stream' = Tail(stream)
    /\ UNCHANGED owner

\* Closing the device silences whatever it still held ...
Discard(s) ==
    /\ owner = s
    /\ stream' = <<>>
    /\ UNCHANGED owner

\* ... and only a silent device is given up.
Release(s) ==
    /\ owner = s
    /\ stream = <<>>
    /\ owner' = Nobody
    /\ UNCHANGED stream

Next ==
    \/ \E s \in Systems : Acquire(s) \/ Discard(s) \/ Release(s)
    \/ \E s \in Systems, block \in Blocks : Give(s, block)
    \/ Play

Spec == Init /\ [][Next]_vars
==============================================================================
