-------------------------- MODULE AudioOutputProofs --------------------------
(***************************************************************************)
(* Proofs about the output plugin: AudioOutput, for any set of systems,    *)
(* any length of the ring and any set of failures, and at the end          *)
(* AudioPacing, for any block and any slack no shorter than the ring.      *)
(***************************************************************************)
EXTENDS AudioOutput, AudioPacing, FiniteSetTheorems, SequenceTheorems, TLAPS

(***************************************************************************)
(* The slot mix works on is a buffer of the ring, and the counters wrap    *)
(* inside their ranges.                                                    *)
(***************************************************************************)
LEMMA SlotInRing ==
    ASSUME NEW n \in Nat
    PROVE  n % Buffers \in Slots
BY BuffersAssumption DEF Slots

LEMMA IncInRange ==
    /\ \A n \in 0 .. NextMod - 1 : IncNext(n) \in 0 .. NextMod - 1
    /\ \A n \in Counter : IncCounter(n) \in Counter
BY NextModAssumption, CounterModAssumption DEF IncNext, IncCounter, Counter

LEMMA ModInRange ==
    ASSUME NEW n \in Nat
    PROVE  n % CounterMod \in Counter
BY CounterModAssumption DEF Counter

LEMMA SlotsFinite ==
    ASSUME NEW set \in SUBSET Slots
    PROVE  Cardinality(set) \in Nat
<1>1. IsFiniteSet(Slots)
  BY BuffersAssumption, FS_Interval DEF Slots
<1>2. QED
  BY <1>1, FS_Subset, FS_CardinalityType

(***************************************************************************)
(* Membership in the service's two queues.                                 *)
(***************************************************************************)
LEMMA RangeAppend ==
    ASSUME NEW q \in Seq(Address), NEW a \in Address
    PROVE  /\ Range(Append(q, a)) = Range(q) \union {a}
           /\ IsInjective(q) /\ a \notin Range(q) => IsInjective(Append(q, a))
<1> DEFINE p == Append(q, a)
<1>1. /\ DOMAIN q = 1 .. Len(q) /\ DOMAIN p = 1 .. Len(q) + 1
      /\ Len(q) \in Nat
      /\ \A k \in 1 .. Len(q) : p[k] = q[k]
      /\ p[Len(q) + 1] = a
  OBVIOUS
<1> HIDE DEF p
<1>2. Range(p) = Range(q) \union {a}
  BY <1>1 DEF Range
<1>3. ASSUME IsInjective(q), a \notin Range(q),
             NEW j \in DOMAIN p, NEW k \in DOMAIN p, p[j] = p[k]
      PROVE  j = k
  BY <1>1, <1>3 DEF Range, IsInjective
<1>4. QED
  BY <1>2, <1>3 DEF p, IsInjective

LEMMA RangeTail ==
    ASSUME NEW q \in Seq(Address), q # <<>>
    PROVE  /\ Head(q) \in Range(q) /\ Head(q) \in Address
           /\ Range(q) = Range(Tail(q)) \union {Head(q)}
           /\ Tail(q) \in Seq(Address)
           /\ IsInjective(q) => IsInjective(Tail(q)) /\ Head(q) \notin Range(Tail(q))
<1> DEFINE p == Tail(q)
<1>1. /\ DOMAIN q = 1 .. Len(q) /\ DOMAIN p = 1 .. Len(q) - 1
      /\ Len(q) \in Nat \ {0}
      /\ \A k \in 1 .. Len(q) - 1 : p[k] = q[k + 1]
      /\ Head(q) = q[1] /\ q[1] \in Address
  OBVIOUS
<1>2. p \in Seq(Address)
  OBVIOUS
<1> HIDE DEF p
<1>3. Range(q) = Range(p) \union {Head(q)}
  <2>1. \A k \in DOMAIN q : k = 1 \/ (k - 1 \in DOMAIN p /\ q[k] = p[k - 1])
    BY <1>1
  <2>2. \A k \in DOMAIN p : k + 1 \in DOMAIN q /\ p[k] = q[k + 1]
    BY <1>1
  <2>3. 1 \in DOMAIN q
    BY <1>1
  <2>4. QED
    BY <1>1, <2>1, <2>2, <2>3 DEF Range
<1>4. ASSUME IsInjective(q) PROVE IsInjective(p) /\ Head(q) \notin Range(p)
  <2>1. ASSUME NEW j \in DOMAIN p, NEW k \in DOMAIN p, p[j] = p[k] PROVE j = k
    BY <1>1, <1>4, <2>1 DEF IsInjective
  <2>2. ASSUME NEW k \in DOMAIN p PROVE p[k] # Head(q)
    BY <1>1, <1>4 DEF IsInjective
  <2>3. QED
    BY <2>1, <2>2 DEF Range, IsInjective
<1>5. QED
  BY <1>1, <1>2, <1>3, <1>4 DEF p, Range

LEMMA TwoElements ==
    ASSUME NEW q \in Seq(Address), Len(q) >= 2
    PROVE  q # <<>> /\ Tail(q) # <<>>
OBVIOUS

LEMMA NothingHeld == Range(<<>>) = {} /\ IsInjective(<<>>)
BY DEF Range, IsInjective

(***************************************************************************)
(* Type correctness.  The step for each action is a step of its own, for   *)
(* the proof of the inductive invariant cites the same lemma.              *)
(***************************************************************************)
LEMMA TypeInit == Init => TypeOK
<1>1. 0 \in 0 .. NextMod - 1 /\ 0 \in Counter
  BY NextModAssumption, CounterModAssumption DEF Counter
<1>2. NoOutput \in Output
  BY <1>1, BlocksAssumption DEF NoOutput, Output
<1>3. SUFFICES ASSUME Init PROVE TypeOK
  OBVIOUS
<1>4. stats \in Stats
  BY <1>1, <1>3 DEF Init, Stats
<1>5. queue \in Seq(Address) /\ finished \in Seq(Address)
  BY <1>3 DEF Init
<1>6. /\ ctl \in [Systems -> CtlStates]
      /\ mixer \in [Systems -> MixerStates]
      /\ output \in [Systems -> Output]
  BY <1>2, <1>3 DEF Init, CtlStates, MixerStates
<1>7. device_owned \in {0, 1} /\ opened \in Int
  BY <1>3 DEF Init
<1>8. output_error \in BOOLEAN
  BY <1>3 DEF Init
<1>9. QED
  BY <1>4, <1>5, <1>6, <1>7, <1>8 DEF TypeOK

LEMMA TypeStep == TypeOK /\ [Next]_vars => TypeOK'
<1> SUFFICES ASSUME TypeOK, [Next]_vars PROVE TypeOK'
  OBVIOUS
<1> USE DEF TypeOK
<1>typed. /\ NoOutput \in Output
          /\ \A s \in Systems : Slot(s) \in Slots /\ output[s] \in Output
  <2>1. 0 \in 0 .. NextMod - 1
    BY NextModAssumption
  <2>2. NoOutput \in Output
    BY <2>1, BlocksAssumption DEF NoOutput, Output
  <2>3. \A s \in Systems : output[s].next \in Nat
    BY NextModAssumption DEF Output
  <2>4. QED
    BY <2>2, <2>3, SlotInRing DEF Slot
<1>request. ASSUME NEW s \in Systems, Request(s) PROVE TypeOK'
  <2>1. CASE InitClaim(s)
    BY <2>1 DEF InitClaim, CtlStep, deviceVars, statVars, CtlStates
  <2>2. CASE Start(s)
    <3>1. PICK from \in {"ready", "halted"} :
             \/ CtlStep(s, from, "started") /\ UNCHANGED output_error
             \/ CtlStep(s, from, from) /\ Fail("start")
      BY <2>2 DEF Start
    <3>2. ctl' \in [Systems -> CtlStates] /\ UNCHANGED mixer
      BY <3>1 DEF CtlStep, CtlStates
    <3>3. output_error' \in BOOLEAN
      BY <3>1 DEF Fail
    <3>4. QED
      BY <2>2, <3>2, <3>3 DEF Start, deviceVars
  <2>3. CASE StopRequest(s)
    BY <2>3 DEF StopRequest, CtlStep, deviceVars, statVars, CtlStates
  <2>4. CASE CloseRequest(s)
    BY <2>4 DEF CloseRequest, CtlStep, deviceVars, statVars, CtlStates
  <2>5. QED
    BY <1>request, <2>1, <2>2, <2>3, <2>4 DEF Request
<1>callback. ASSUME NEW s \in Systems, Callback(s) PROVE TypeOK'
  <2>1. CASE InitCalloc(s)
    BY <2>1 DEF InitCalloc, CtlStep, deviceVars, statVars, CtlStates
  <2>2. CASE InitOpen(s)
    <3>1. opened' \in Int
      BY <2>2 DEF InitOpen
    <3>2. output' \in [Systems -> Output]
      BY <1>typed, <2>2 DEF InitOpen, Output
    <3>3. QED
      BY <2>2, <3>1, <3>2 DEF InitOpen, CtlStep, statVars, CtlStates
  <2>3. CASE InitOpenFails(s)
    BY <2>3 DEF InitOpenFails, CtlStep, Fail, deviceVars, CtlStates
  <2>4. CASE InitFormat(s)
    BY <2>4 DEF InitFormat, CtlStep, deviceVars, statVars, CtlStates
  <2>5. CASE InitBuffers(s)
    <3>1. PICK i \in 0 .. Buffers :
             output' = [output EXCEPT ![s].memory = 0 .. i - 1]
      BY <2>5 DEF InitBuffers
    <3>2. 0 .. i - 1 \in SUBSET Slots
      BY BuffersAssumption DEF Slots
    <3>3. output' \in [Systems -> Output]
      BY <3>1, <3>2 DEF Output
    <3>4. ctl' \in [Systems -> CtlStates] /\ UNCHANGED mixer
      BY <2>5 DEF InitBuffers, CtlStep, CtlStates
    <3>5. QED
      BY <2>5, <3>3, <3>4 DEF InitBuffers, deviceVars, statVars
  <2>6. CASE Stop(s)
    BY <2>6 DEF Stop, CtlStep, Fail, deviceVars, CtlStates
  <2>7. CASE CloseExit(s)
    <3>1. opened' \in Int
      BY <2>7 DEF CloseExit
    <3>2. queue' \in Seq(Address) /\ finished' \in Seq(Address)
      <4>1. CASE opened = 1
        BY <2>7, <4>1 DEF CloseExit
      <4>2. CASE opened # 1
        BY <2>7, <4>2 DEF CloseExit
      <4>3. QED
        BY <4>1, <4>2
    <3>3. QED
      BY <2>7, <3>1, <3>2 DEF CloseExit, CtlStep, statVars, CtlStates
  <2>8. CASE CloseFree(s)
    <3>1. (stats.lost + Cardinality(output[s].pending)) % CounterMod \in Counter
      <4>1. Cardinality(output[s].pending) \in Nat
        BY <1>typed, SlotsFinite DEF Output
      <4>2. stats.lost \in Nat
        BY CounterModAssumption DEF Stats, Counter
      <4>3. stats.lost + Cardinality(output[s].pending) \in Nat
        BY <4>1, <4>2
      <4>4. QED
        BY <4>3, ModInRange
    <3>2. stats' \in Stats
      BY <2>8, <3>1 DEF CloseFree, Stats
    <3>3. QED
      BY <1>typed, <2>8, <3>2 DEF CloseFree, CtlStep, deviceVars, CtlStates
  <2>9. CASE CloseDisown(s)
    BY <2>9 DEF CloseDisown, CtlStep, deviceVars, statVars, CtlStates
  <2>10. QED
    BY <1>callback, <2>1, <2>2, <2>3, <2>4, <2>5, <2>6, <2>7, <2>8, <2>9 DEF Callback
<1>enter. ASSUME NEW s \in Systems, MixEnter(s) PROVE TypeOK'
  BY <1>enter DEF MixEnter, MixStep, deviceVars, statVars, MixerStates
<1>mix. ASSUME NEW s \in Systems, Mix(s) PROVE TypeOK'
  <2>1. CASE MixSlot(s) \/ MixNone(s) \/ MixRead(s) \/ MixFails(s)
    BY <2>1 DEF MixSlot, MixNone, MixRead, MixFails, MixStep, Fail, deviceVars,
       statVars, MixerStates
  <2>2. CASE MixTimeout(s)
    BY <2>2, IncInRange DEF MixTimeout, MixStep, deviceVars, MixerStates, Stats
  <2>3. CASE MixReleased(s)
    <3>1. PICK i \in output[s].pending :
             output' = [output EXCEPT ![s].pending = @ \ {i}]
      BY <2>3 DEF MixReleased
    <3>2. output' \in [Systems -> Output]
      BY <3>1 DEF Output
    <3>3. stats' \in Stats
      BY <2>3, IncInRange DEF MixReleased, Stats
    <3>4. finished' \in Seq(Address)
      BY <2>3 DEF MixReleased
    <3>5. QED
      BY <2>3, <3>2, <3>3, <3>4 DEF MixReleased, MixStep, MixerStates
  <2>4. CASE MixSurplus(s)
    <3>1. PICK i \in output[s].pending :
             output' = [output EXCEPT ![s].pending = @ \ {i}]
      BY <2>4 DEF MixSurplus
    <3>2. output' \in [Systems -> Output]
      BY <3>1 DEF Output
    <3>3. stats' \in Stats
      BY <2>4, IncInRange DEF MixSurplus, Stats
    <3>4. finished' \in Seq(Address)
      <4>1. finished # <<>> /\ Tail(finished) # <<>>
        BY <2>4, TwoElements DEF MixSurplus
      <4>2. QED
        BY <2>4, <4>1, RangeTail DEF MixSurplus
    <3>5. QED
      BY <2>4, <3>2, <3>3, <3>4 DEF MixSurplus, MixStep, Fail, MixerStates
  <2>5. CASE MixConvert(s)
    <3>1. PICK block \in Blocks :
             output' = [output EXCEPT ![s].pcm[Slot(s)] = block]
      BY <2>5 DEF MixConvert
    <3>2. output' \in [Systems -> Output]
      BY <1>typed, <3>1 DEF Output
    <3>3. QED
      BY <2>5, <3>2 DEF MixConvert, MixStep, Fail, deviceVars, MixerStates
  <2>6. CASE MixAppend(s)
    BY <1>typed, <2>6 DEF MixAppend, MixStep, statVars, MixerStates, Address
  <2>7. CASE MixCommit(s)
    <3>1. output' \in [Systems -> Output]
      <4>1. Appended(output[s], Slot(s)) \in Output
        BY <1>typed, IncInRange DEF Appended, Output
      <4>2. QED
        BY <2>7, <4>1 DEF MixCommit
    <3>2. stats' \in Stats
      BY <2>7, IncInRange DEF MixCommit, Stats
    <3>3. QED
      BY <2>7, <3>1, <3>2 DEF MixCommit, MixStep, deviceVars, MixerStates
  <2>8. QED
    BY <1>mix, <2>1, <2>2, <2>3, <2>4, <2>5, <2>6, <2>7 DEF Mix
<1>complete. CASE Complete
  BY <1>complete DEF Complete, statVars
<1>stutter. CASE UNCHANGED vars
  BY <1>stutter DEF vars, deviceVars, statVars
<1>qed. QED
  BY <1>request, <1>callback, <1>enter, <1>mix, <1>complete, <1>stutter DEF Next

(***************************************************************************)
(* Every variable of the plugin model keeps its type, for any ring length, *)
(* any set of systems and any set of failures.                             *)
(***************************************************************************)
THEOREM TypeCorrect == Spec => []TypeOK
BY TypeInit, TypeStep, PTL DEF Spec

LEMMA SlotOfOutput ==
    ASSUME TypeOK, NEW s \in Systems
    PROVE  Slot(s) \in Slots
<1>1. output[s].next \in Nat
  BY NextModAssumption DEF TypeOK, Output
<1>2. QED
  BY <1>1, SlotInRing DEF Slot

(***************************************************************************)
(* The inductive invariant.                                                *)
(***************************************************************************)
LEMMA IInvInit == Init => IInv
BY NothingHeld DEF Init, IInv, ExclusiveOwner, Owns, MixerJoined, OutputPhases,
   OneSession, HeldPending, Held, HeldOnce, SlotFree, Playing, SessionOpen,
   OutputAlive

LEMMA AttachedAlive ==
    ASSUME OutputPhases, NEW s \in Systems, output[s].attached
    PROVE  ctl[s] \in OutputAlive
BY DEF OutputPhases, NoOutput

\* A step of a control thread: the owner, if there is one, is this system, so
\* every other one is at "none" and has nothing to lose.
LEMMA ControlKeepsIInv ==
    ASSUME TypeOK, TypeOK', IInv, NEW s \in Systems, Request(s) \/ Callback(s)
    PROVE  IInv'
<1> USE DEF TypeOK, IInv, CtlStep, deviceVars, statVars,
           ExclusiveOwner, Owns, MixerJoined, OutputPhases, OutputAlive,
           SessionOpen, Playing, OneSession, HeldPending, Held, Slot, SlotFree
<1>once. HeldOnce'
  BY NothingHeld DEF HeldOnce, Request, Callback, InitClaim, InitCalloc, InitOpen,
     InitOpenFails, InitFormat, InitBuffers, Start, StopRequest, Stop, CloseRequest,
     CloseExit, CloseFree, CloseDisown
<1>1. CASE InitClaim(s)
  BY <1>once, <1>1 DEF InitClaim, Output, NoOutput
<1>2. CASE InitCalloc(s)
  <2>1. ExclusiveOwner'
    BY <1>2 DEF InitCalloc
  <2>2. MixerJoined'
    BY <1>2 DEF InitCalloc
  <2>3. OutputPhases'
    BY <1>2 DEF InitCalloc, Output, NoOutput
  <2>4. OneSession'
    BY <1>2 DEF InitCalloc
  <2>5. HeldPending'
    BY <1>2 DEF InitCalloc
  <2>6. SlotFree'
    BY <1>2 DEF InitCalloc
  <2>7. QED
    BY <1>once, <2>1, <2>2, <2>3, <2>4, <2>5, <2>6 DEF IInv
<1>3. CASE InitOpen(s)
  <2>1. ExclusiveOwner'
    BY <1>3 DEF InitOpen
  <2>2. MixerJoined'
    BY <1>3 DEF InitOpen
  <2>3. OutputPhases'
    BY <1>3 DEF InitOpen, Output, NoOutput
  <2>4. OneSession'
    <3>1. \A t \in Systems : ctl[t] \notin SessionOpen
      BY <1>3 DEF InitOpen
    <3>2. opened' = 1 /\ ctl'[s] \in SessionOpen
      BY <1>3, <3>1 DEF InitOpen
    <3>3. QED
      BY <3>2 DEF OneSession
  <2>5. HeldPending'
    BY <1>3 DEF InitOpen
  <2>6. SlotFree'
    BY <1>3 DEF InitOpen
  <2>7. QED
    BY <1>once, <2>1, <2>2, <2>3, <2>4, <2>5, <2>6 DEF IInv
<1>4. CASE InitOpenFails(s)
  BY <1>once, <1>4 DEF InitOpenFails, Fail, Output, NoOutput
<1>5. CASE InitFormat(s)
  <2>1. ExclusiveOwner'
    BY <1>5 DEF InitFormat
  <2>2. MixerJoined'
    BY <1>5 DEF InitFormat
  <2>3. OutputPhases'
    BY <1>5 DEF InitFormat, Output, NoOutput
  <2>4. OneSession'
    BY <1>5 DEF InitFormat
  <2>5. HeldPending'
    BY <1>5 DEF InitFormat
  <2>6. SlotFree'
    BY <1>5 DEF InitFormat
  <2>7. QED
    BY <1>once, <2>1, <2>2, <2>3, <2>4, <2>5, <2>6 DEF IInv
<1>6. CASE InitBuffers(s)
  <2>1. ExclusiveOwner'
    <3>1. /\ ctl[s] = "buffers" /\ UNCHANGED device_owned
          /\ \E to \in {"ready", "exit"} : ctl' = [ctl EXCEPT ![s] = to]
      BY <1>6 DEF InitBuffers
    <3>2. \A t \in Systems : Owns(t)' <=> Owns(t)
      BY <3>1
    <3>3. QED
      BY <3>1, <3>2
  <2>2. MixerJoined'
    BY <1>6 DEF InitBuffers
  <2>3. OutputPhases'
    <3>1. PICK i \in 0 .. Buffers :
             /\ output' = [output EXCEPT ![s].memory = 0 .. i - 1]
             /\ \/ i = Buffers /\ CtlStep(s, "buffers", "ready")
                \/ i < Buffers /\ "memory" \in Faults /\ CtlStep(s, "buffers", "exit")
      BY <1>6 DEF InitBuffers
    <3>2. \A t \in Systems \ {s} : output'[t] = output[t] /\ ctl'[t] = ctl[t]
      BY <3>1
    <3>3. /\ output'[s].attached
          /\ i = Buffers => output'[s].memory = Slots
      BY <1>6, <3>1 DEF InitBuffers, Slots
    <3>4. /\ ctl'[s] \in {"ready", "exit"}
          /\ ctl'[s] = "ready" => i = Buffers
      BY <3>1
    <3>5. QED
      BY <3>2, <3>3, <3>4 DEF OutputPhases, OutputAlive, SessionOpen, Playing
  <2>4. OneSession'
    BY <1>6 DEF InitBuffers
  <2>5. HeldPending'
    BY <1>6 DEF InitBuffers
  <2>6. SlotFree'
    BY <1>6 DEF InitBuffers
  <2>7. QED
    BY <1>once, <2>1, <2>2, <2>3, <2>4, <2>5, <2>6 DEF IInv
<1>7. CASE Start(s)
  <2>1. ExclusiveOwner'
    BY <1>7 DEF Start, Fail
  <2>2. MixerJoined'
    BY <1>7 DEF Start, Fail
  <2>3. OutputPhases'
    BY <1>7 DEF Start, Fail, Output, NoOutput
  <2>4. OneSession'
    BY <1>7 DEF Start, Fail
  <2>5. HeldPending'
    BY <1>7 DEF Start, Fail
  <2>6. SlotFree'
    BY <1>7 DEF Start, Fail
  <2>7. QED
    BY <1>once, <2>1, <2>2, <2>3, <2>4, <2>5, <2>6 DEF IInv
<1>8. CASE StopRequest(s)
  BY <1>once, <1>8 DEF StopRequest, Output, NoOutput
<1>9. CASE Stop(s)
  BY <1>once, <1>9 DEF Stop, Fail, Output, NoOutput
<1>10. CASE CloseRequest(s)
  <2>1. ExclusiveOwner'
    <3>1. ctl[s] # "none" /\ ctl' = [ctl EXCEPT ![s] = "exit"]
      BY <1>10, AttachedAlive DEF CloseRequest, OutputAlive
    <3>2. QED
      BY <1>10, <3>1 DEF CloseRequest
  <2>2. MixerJoined'
    BY <1>10 DEF CloseRequest, Joined
  <2>3. OutputPhases'
    BY <1>10 DEF CloseRequest, Joined, Output, NoOutput
  <2>4. OneSession'
    <3>1. ctl[s] \in SessionOpen /\ ctl' = [ctl EXCEPT ![s] = "exit"]
      BY <1>10, AttachedAlive DEF CloseRequest, OutputAlive
    <3>2. QED
      BY <1>10, <3>1 DEF CloseRequest
  <2>5. HeldPending'
    BY <1>10 DEF CloseRequest, Joined
  <2>6. SlotFree'
    BY <1>10 DEF CloseRequest, Joined
  <2>7. QED
    BY <1>once, <2>1, <2>2, <2>3, <2>4, <2>5, <2>6 DEF IInv
<1>11. CASE CloseExit(s)
  <2>1. ExclusiveOwner'
    BY <1>11 DEF CloseExit
  <2>2. MixerJoined'
    BY <1>11 DEF CloseExit
  <2>3. OutputPhases'
    BY <1>11 DEF CloseExit, Output, NoOutput
  <2>4. OneSession'
    <3>1. opened = 1 /\ \A t \in Systems \ {s} : ctl[t] = "none"
      BY <1>11 DEF CloseExit
    <3>2. opened' = 0 /\ queue' = <<>> /\ finished' = <<>>
      BY <1>11, <3>1 DEF CloseExit
    <3>3. \A t \in Systems : ctl'[t] \notin SessionOpen
      BY <1>11, <3>1 DEF CloseExit
    <3>4. QED
      BY <3>2, <3>3 DEF OneSession
  <2>5. HeldPending'
    <3>1. opened = 1 /\ queue' = <<>> /\ finished' = <<>>
      BY <1>11 DEF CloseExit
    <3>2. \A t \in Systems, i \in Slots : ~Held(t, i)'
      BY <3>1, NothingHeld
    <3>3. QED
      BY <3>2
  <2>6. SlotFree'
    BY <1>11 DEF CloseExit
  <2>7. QED
    BY <1>once, <2>1, <2>2, <2>3, <2>4, <2>5, <2>6 DEF IInv
<1>12. CASE CloseFree(s)
  BY <1>once, <1>12 DEF CloseFree, Output, NoOutput
<1>13. CASE CloseDisown(s)
  BY <1>once, <1>13 DEF CloseDisown, Output, NoOutput
<1>14. QED
  BY <1>1, <1>2, <1>3, <1>4, <1>5, <1>6, <1>7, <1>8, <1>9, <1>10, <1>11,
     <1>12, <1>13 DEF Request, Callback

\* A step of a mixer thread: its system is started, no control thread moves,
\* and only the pending flags and the queues change hands.
LEMMA MixerKeepsControl ==
    ASSUME TypeOK, TypeOK', IInv, NEW s \in Systems, MixEnter(s) \/ Mix(s)
    PROVE  ExclusiveOwner' /\ MixerJoined'
<1>1. UNCHANGED <<device_owned, ctl>>
  BY DEF MixEnter, Mix, MixSlot, MixTimeout, MixNone, MixReleased, MixSurplus,
     MixRead, MixConvert, MixAppend, MixCommit, MixFails, MixStep
<1>2. ctl[s] \in {"started", "stopping", "halted"}
  BY DEF MixEnter, Mix, MixSlot, MixTimeout, MixNone, MixReleased, MixSurplus,
     MixRead, MixConvert, MixAppend, MixCommit, MixFails, MixStep, IInv, MixerJoined
<1>3. \A t \in Systems \ {s} : mixer'[t] = mixer[t]
  BY DEF TypeOK, MixEnter, Mix, MixSlot, MixTimeout, MixNone, MixReleased,
     MixSurplus, MixRead, MixConvert, MixAppend, MixCommit, MixFails, MixStep
<1>4. QED
  BY <1>1, <1>2, <1>3 DEF IInv, ExclusiveOwner, Owns, MixerJoined

LEMMA MixerKeepsOutput ==
    ASSUME TypeOK, TypeOK', IInv, NEW s \in Systems, MixEnter(s) \/ Mix(s)
    PROVE  OutputPhases'
<1>1. \A t \in Systems :
         /\ output'[t].attached = output[t].attached
         /\ output'[t].memory = output[t].memory
         /\ t # s => output'[t] = output[t]
  <2> USE DEF TypeOK, Output
  <2>1. CASE UNCHANGED output
    BY <2>1
  <2>2. CASE MixReleased(s) \/ MixSurplus(s)
    <3>1. PICK i \in output[s].pending :
             output' = [output EXCEPT ![s].pending = @ \ {i}]
      BY <2>2 DEF MixReleased, MixSurplus
    <3>2. QED
      BY <3>1
  <2>3. CASE MixConvert(s)
    <3>1. PICK block \in Blocks :
             output' = [output EXCEPT ![s].pcm[Slot(s)] = block]
      BY <2>3 DEF MixConvert
    <3>2. QED
      BY <3>1
  <2>4. CASE MixCommit(s)
    BY <2>4 DEF MixCommit, Appended
  <2>5. QED
    BY <2>1, <2>2, <2>3, <2>4 DEF MixEnter, Mix, MixSlot, MixTimeout, MixNone,
       MixRead, MixAppend, MixFails
<1>2. UNCHANGED ctl /\ ctl[s] \in OutputAlive
  BY DEF MixEnter, Mix, MixSlot, MixTimeout, MixNone, MixReleased, MixSurplus,
     MixRead, MixConvert, MixAppend, MixCommit, MixFails, MixStep, IInv, MixerJoined,
     OutputAlive, SessionOpen, Playing
<1>3. QED
  BY <1>1, <1>2 DEF IInv, OutputPhases

\* What collecting a buffer does, whether the service behaved or not.
TakenBack(s, i) ==
    /\ output' = [output EXCEPT ![s].pending = @ \ {i}]
    /\ HeldOnce'
    /\ \A t \in Systems, k \in Slots :
          Held(t, k)' => Held(t, k) /\ <<t, k>> # <<s, i>>

LEMMA ReleasedTakesBack ==
    ASSUME TypeOK, HeldOnce, NEW s \in Systems, MixReleased(s)
    PROVE  \E i \in output[s].pending : TakenBack(s, i)
<1>1. PICK i \in output[s].pending :
         /\ Head(finished) = <<s, i>>
         /\ output' = [output EXCEPT ![s].pending = @ \ {i}]
  BY DEF MixReleased
<1>2. finished \in Seq(Address) /\ finished # <<>>
  BY DEF TypeOK, MixReleased
<1>3. finished' = Tail(finished) /\ queue' = queue
  BY DEF MixReleased
<1>4. /\ Range(finished) = Range(Tail(finished)) \union {<<s, i>>}
      /\ <<s, i>> \notin Range(Tail(finished))
      /\ IsInjective(Tail(finished))
  BY <1>1, <1>2, RangeTail DEF HeldOnce
<1>5. HeldOnce'
  BY <1>3, <1>4 DEF HeldOnce
<1>6. \A t \in Systems, k \in Slots :
         Held(t, k)' => Held(t, k) /\ <<t, k>> # <<s, i>>
  BY <1>3, <1>4 DEF Held, HeldOnce
<1>7. QED
  BY <1>1, <1>5, <1>6 DEF TakenBack

LEMMA SurplusTakesBack ==
    ASSUME TypeOK, HeldOnce, NEW s \in Systems, MixSurplus(s)
    PROVE  \E i \in output[s].pending : TakenBack(s, i)
<1>1. PICK i \in output[s].pending :
         /\ Head(finished) = <<s, i>>
         /\ output' = [output EXCEPT ![s].pending = @ \ {i}]
  BY DEF MixSurplus
<1>2. finished \in Seq(Address) /\ finished # <<>> /\ Tail(finished) # <<>>
  BY TwoElements DEF TypeOK, MixSurplus
<1>3. finished' = Tail(Tail(finished)) /\ queue' = queue
  BY DEF MixSurplus
<1>4. /\ Range(finished) = Range(Tail(finished)) \union {<<s, i>>}
      /\ <<s, i>> \notin Range(Tail(finished))
      /\ IsInjective(Tail(finished)) /\ Tail(finished) \in Seq(Address)
  BY <1>1, <1>2, RangeTail DEF HeldOnce
<1>5. /\ Range(Tail(Tail(finished))) \subseteq Range(Tail(finished))
      /\ IsInjective(Tail(Tail(finished)))
  <2> DEFINE rest == Tail(finished)
  <2>1. rest \in Seq(Address) /\ rest # <<>> /\ IsInjective(rest)
    BY <1>2, <1>4
  <2> HIDE DEF rest
  <2>2. Range(rest) = Range(Tail(rest)) \union {Head(rest)} /\ IsInjective(Tail(rest))
    BY <2>1, RangeTail
  <2>3. QED
    BY <2>2 DEF rest
<1>6. HeldOnce'
  BY <1>3, <1>4, <1>5 DEF HeldOnce
<1>7. \A t \in Systems, k \in Slots :
         Held(t, k)' => Held(t, k) /\ <<t, k>> # <<s, i>>
  BY <1>3, <1>4, <1>5 DEF Held, HeldOnce
<1>8. QED
  BY <1>1, <1>6, <1>7 DEF TakenBack

LEMMA AppendHandsOver ==
    ASSUME TypeOK, HeldOnce, HeldPending, SlotFree, NEW s \in Systems, MixAppend(s)
    PROVE  /\ HeldOnce'
           /\ \A t \in Systems, k \in Slots :
                 Held(t, k)' => Held(t, k) \/ (t = s /\ k = Slot(s))
<1>1. Slot(s) \in Slots /\ <<s, Slot(s)>> \in Address
  BY SlotOfOutput DEF Address
<1>2. ~Held(s, Slot(s))
  BY <1>1 DEF HeldPending, SlotFree, MixAppend, MixStep
<1>3. queue' = Append(queue, <<s, Slot(s)>>) /\ finished' = finished
  BY DEF MixAppend
<1>4. /\ Range(queue') = Range(queue) \union {<<s, Slot(s)>>}
      /\ IsInjective(queue')
  BY <1>1, <1>2, <1>3, RangeAppend DEF TypeOK, HeldOnce, Held
<1>5. HeldOnce'
  BY <1>2, <1>3, <1>4 DEF HeldOnce, Held
<1>6. \A t \in Systems, k \in Slots :
         Held(t, k)' => Held(t, k) \/ (t = s /\ k = Slot(s))
  BY <1>3, <1>4 DEF Held
<1>7. QED
  BY <1>5, <1>6

LEMMA MixerKeepsIInv ==
    ASSUME TypeOK, TypeOK', IInv, NEW s \in Systems, MixEnter(s) \/ Mix(s)
    PROVE  IInv'
<1> USE DEF TypeOK, IInv, MixStep, deviceVars, statVars
<1>1. ExclusiveOwner' /\ MixerJoined' /\ OutputPhases'
  BY MixerKeepsControl, MixerKeepsOutput
<1>2. OneSession'
  BY DEF MixEnter, Mix, MixSlot, MixTimeout, MixNone, MixReleased, MixSurplus,
     MixRead, MixConvert, MixAppend, MixCommit, MixFails, OneSession, SessionOpen,
     Playing, MixerJoined
<1>3. HeldPending' /\ HeldOnce' /\ SlotFree'
  <2> USE DEF HeldPending, HeldOnce, SlotFree, Held, Slot, Playing, MixerJoined
  <2>1. CASE MixEnter(s) \/ MixSlot(s) \/ MixTimeout(s) \/ MixNone(s)
    BY <2>1 DEF MixEnter, MixSlot, MixTimeout, MixNone
  <2>2. CASE MixReleased(s) \/ MixSurplus(s)
    <3>1. PICK i \in output[s].pending : TakenBack(s, i)
      BY <2>2, ReleasedTakesBack, SurplusTakesBack
    <3>2. /\ \A t \in Systems : t # s => output'[t] = output[t]
          /\ output'[s].pending = output[s].pending \ {i}
          /\ output'[s].memory = output[s].memory
          /\ output'[s].next = output[s].next
      BY <3>1 DEF TakenBack, Output
    <3>3. /\ ctl' = ctl /\ mixer[s] = "wait"
          /\ \E pc \in {"slot", "idle"} : mixer' = [mixer EXCEPT ![s] = pc]
      BY <2>2 DEF MixReleased, MixSurplus
    <3>4. HeldPending'
      BY <3>1, <3>2, <3>3 DEF TakenBack
    <3>5. QED
      BY <3>1, <3>2, <3>3, <3>4 DEF TakenBack
  <2>4. CASE MixRead(s) \/ MixFails(s)
    BY <2>4 DEF MixRead, MixFails, Fail
  <2>5. CASE MixConvert(s)
    BY <2>5 DEF MixConvert, Fail, Output
  <2>6. CASE MixAppend(s)
    <3>1. HeldOnce' /\ \A t \in Systems, k \in Slots :
             Held(t, k)' => Held(t, k) \/ (t = s /\ k = Slot(s))
      BY <2>6, AppendHandsOver
    <3>2. /\ UNCHANGED <<ctl, output>>
          /\ mixer[s] = "append" /\ mixer' = [mixer EXCEPT ![s] = "commit"]
      BY <2>6 DEF MixAppend
    <3>3. ctl[s] \in Playing /\ output[s].memory = Slots
      BY <3>2 DEF OutputPhases
    <3>4. HeldPending'
      BY <3>1, <3>2, <3>3
    <3>5. SlotFree'
      BY <3>2
    <3>6. QED
      BY <3>1, <3>4, <3>5
  <2>7. CASE MixCommit(s)
    BY <2>7 DEF MixCommit, Appended, Output
  <2>8. QED
    BY <2>1, <2>2, <2>4, <2>5, <2>6, <2>7 DEF Mix
<1>4. QED
  BY <1>1, <1>2, <1>3

\* The service moves a buffer from one of its queues to the other.
LEMMA DeviceKeepsIInv ==
    ASSUME TypeOK, TypeOK', IInv, Complete
    PROVE  IInv'
<1> USE DEF TypeOK, IInv, Complete, statVars
<1>1. \A t \in Systems, i \in Slots : Held(t, i)' => Held(t, i)
  BY RangeTail, RangeAppend DEF Held
<1>once. HeldOnce'
  BY RangeTail, RangeAppend DEF HeldOnce
<1>2. HeldPending'
  BY <1>1 DEF HeldPending, Slot
<1>3. OneSession'
  BY DEF OneSession, SessionOpen, Playing
<1>4. ExclusiveOwner' /\ MixerJoined' /\ OutputPhases' /\ SlotFree'
  BY DEF ExclusiveOwner, Owns, MixerJoined, OutputPhases, OutputAlive, SessionOpen,
     Playing, SlotFree, Slot
<1>5. QED
  BY <1>once, <1>2, <1>3, <1>4

LEMMA IInvStep == TypeOK /\ TypeOK' /\ IInv /\ [Next]_vars => IInv'
<1> SUFFICES ASSUME TypeOK, TypeOK', IInv, [Next]_vars PROVE IInv'
  OBVIOUS
<1>1. CASE UNCHANGED vars
  BY <1>1 DEF vars, deviceVars, statVars, IInv, ExclusiveOwner, Owns, MixerJoined,
     OutputPhases, OutputAlive, SessionOpen, Playing, OneSession, HeldPending, Held,
     HeldOnce, Slot, SlotFree
<1>2. QED
  BY <1>1, ControlKeepsIInv, MixerKeepsIInv, DeviceKeepsIInv DEF Next

LEMMA IInvHolds == Spec => [](TypeOK /\ IInv)
<1>1. Init => TypeOK /\ IInv
  BY TypeInit, IInvInit
<1>2. TypeOK /\ IInv /\ [Next]_vars => (TypeOK /\ IInv)'
  BY TypeStep, IInvStep
<1>3. QED
  BY <1>1, <1>2, PTL DEF Spec

(***************************************************************************)
(* Only one system is ever anywhere between claiming the device and giving *)
(* it up, for any number of systems and any failures.                      *)
(***************************************************************************)
THEOREM DeviceExclusive == Spec => []ExclusiveOwner
<1>1. IInv => ExclusiveOwner
  BY DEF IInv
<1>2. QED
  BY <1>1, IInvHolds, PTL

(***************************************************************************)
(* A buffer is never written or appended while the device has it, for any  *)
(* length of the ring and in the presence of every failure.                *)
(***************************************************************************)
THEOREM BuffersRespected == Spec => []NoOverwrite
<1>1. TypeOK /\ IInv => NoOverwrite
  <2> SUFFICES ASSUME TypeOK, IInv, NEW s \in Systems,
                      mixer[s] \in {"convert", "append"}
               PROVE  ~Held(s, Slot(s))
    BY DEF NoOverwrite
  <2>1. Slot(s) \in Slots
    BY SlotOfOutput
  <2>2. Slot(s) \notin output[s].pending /\ mixer[s] # "commit"
    BY DEF IInv, SlotFree
  <2>3. QED
    BY <2>1, <2>2 DEF IInv, HeldPending
<1>2. QED
  BY <1>1, IInvHolds, PTL

(***************************************************************************)
(* The device only holds allocated buffers, and nobody mixes without a     *)
(* complete ring and an open session.                                      *)
(***************************************************************************)
THEOREM MemorySafe == Spec => []HeldMemory
<1>1. IInv => HeldMemory
  BY DEF IInv, HeldMemory, HeldPending, MixerJoined, OutputPhases, OneSession,
     OutputAlive, SessionOpen, Playing
<1>2. QED
  BY <1>1, IInvHolds, PTL

(***************************************************************************)
(* However an init fails and whenever an output is closed, a system that   *)
(* does not own the device has left nothing behind.                        *)
(***************************************************************************)
THEOREM FailureCleans == Spec => []CleanFailure
<1>1. IInv => CleanFailure
  BY DEF IInv, CleanFailure, OutputPhases, OneSession, OutputAlive, SessionOpen,
     Playing
<1>2. QED
  BY <1>1, IInvHolds, PTL

(***************************************************************************)
(* The mixer's statistics move only while some output is started or its    *)
(* mixer is not joined yet.                                                *)
(***************************************************************************)
THEOREM StatisticsQuiet == Spec => QuietWhenReleased
<1> DEFINE Counts == {"mixed", "nonzero", "released", "timeouts"}
<1>1. ASSUME TypeOK, IInv, Next, NEW counter \in Counts,
             stats'[counter] # stats[counter]
      PROVE  \E s \in Systems : ctl[s] \in {"started", "stopping", "halted"}
  <2>1. ASSUME NEW s \in Systems, Mix(s) PROVE mixer[s] # "idle"
    BY <2>1 DEF Mix, MixSlot, MixTimeout, MixNone, MixReleased, MixSurplus, MixRead,
       MixConvert, MixAppend, MixCommit, MixFails, MixStep
  <2>2. ASSUME NEW s \in Systems, MixEnter(s) PROVE FALSE
    BY <1>1, <2>2 DEF MixEnter, statVars
  <2>3. ASSUME NEW s \in Systems, Request(s) PROVE FALSE
    BY <1>1, <2>3 DEF Request, InitClaim, Start, StopRequest, CloseRequest, statVars
  <2>4. ASSUME NEW s \in Systems, Callback(s) PROVE FALSE
    <3>1. \A c \in Counts : stats'[c] = stats[c]
      <4>1. CASE CloseFree(s)
        <5>1. /\ stats'.mixed = stats.mixed /\ stats'.nonzero = stats.nonzero
              /\ stats'.released = stats.released /\ stats'.timeouts = stats.timeouts
          BY <1>1, <4>1 DEF CloseFree, TypeOK, Stats
        <5>2. QED
          BY <5>1
      <4>2. CASE UNCHANGED stats
        BY <4>2
      <4>3. QED
        BY <2>4, <4>1, <4>2 DEF Callback, InitCalloc, InitOpen, InitOpenFails,
           InitFormat, InitBuffers, Stop, CloseExit, CloseDisown, statVars
    <3>2. QED
      BY <1>1, <3>1
  <2>5. CASE Complete
    BY <1>1, <2>5 DEF Complete, statVars
  <2>6. QED
    BY <1>1, <2>1, <2>2, <2>3, <2>4, <2>5 DEF Next, IInv, MixerJoined
<1>2. TypeOK /\ IInv /\ [Next]_vars =>
         [\A counter \in Counts :
             stats'[counter] # stats[counter] =>
                 \E s \in Systems : ctl[s] \in {"started", "stopping", "halted"}]_vars
  BY <1>1
<1>3. QED
  BY <1>2, IInvHolds, PTL DEF Spec, QuietWhenReleased

(***************************************************************************)
(* The pending flags and the service: without a recorded error they agree. *)
(***************************************************************************)
LEMMA ControlKeepsFlags ==
    ASSUME TypeOK, TypeOK', IInv, FlagsBacked,
           NEW s \in Systems, Request(s) \/ Callback(s)
    PROVE  FlagsBacked'
<1> USE DEF TypeOK, FlagsBacked, CtlStep, deviceVars, statVars, Held, Slot
<1>1. CASE Request(s)
  BY <1>1 DEF Request, InitClaim, Start, StopRequest, CloseRequest, Fail, IInv,
     OutputPhases, OutputAlive, SessionOpen, Playing
<1>2. CASE InitCalloc(s) \/ InitOpenFails(s) \/ InitFormat(s) \/ Stop(s)
  BY <1>2 DEF InitCalloc, InitOpenFails, InitFormat, Stop, Fail
<1>3. CASE InitOpen(s)
  BY <1>3 DEF InitOpen, Output
<1>4. CASE InitBuffers(s)
  BY <1>4 DEF InitBuffers, Output
<1>5. CASE CloseExit(s)
  BY <1>5 DEF CloseExit, IInv, ExclusiveOwner, Owns, MixerJoined, OutputPhases,
     OutputAlive, SessionOpen, Playing, NoOutput
<1>6. CASE CloseFree(s)
  BY <1>6 DEF CloseFree, IInv, MixerJoined, NoOutput
<1>7. CASE CloseDisown(s)
  BY <1>7 DEF CloseDisown, IInv, OutputPhases, OutputAlive, SessionOpen, Playing,
     NoOutput
<1>8. QED
  BY <1>1, <1>2, <1>3, <1>4, <1>5, <1>6, <1>7 DEF Callback

\* Collecting a buffer takes exactly that one from the service.
LEMMA ReleasedTakesOne ==
    ASSUME TypeOK, NEW s \in Systems, MixReleased(s)
    PROVE  \E i \in output[s].pending :
              /\ output' = [output EXCEPT ![s].pending = @ \ {i}]
              /\ \A t \in Systems, k \in Slots :
                    Held(t, k) /\ <<t, k>> # <<s, i>> => Held(t, k)'
<1>1. PICK i \in output[s].pending :
         /\ Head(finished) = <<s, i>>
         /\ output' = [output EXCEPT ![s].pending = @ \ {i}]
  BY DEF MixReleased
<1>2. /\ finished \in Seq(Address) /\ finished # <<>>
      /\ finished' = Tail(finished) /\ queue' = queue
  BY DEF TypeOK, MixReleased
<1>3. Range(finished) = Range(finished') \union {<<s, i>>}
  BY <1>1, <1>2, RangeTail
<1>4. QED
  BY <1>1, <1>2, <1>3 DEF Held

LEMMA MixerKeepsFlags ==
    ASSUME TypeOK, TypeOK', IInv, FlagsBacked,
           NEW s \in Systems, MixEnter(s) \/ Mix(s)
    PROVE  FlagsBacked'
<1> USE DEF TypeOK, FlagsBacked, MixStep, deviceVars, statVars, Held, Slot
<1>1. CASE MixEnter(s) \/ MixSlot(s) \/ MixTimeout(s) \/ MixNone(s) \/ MixRead(s)
           \/ MixFails(s)
  BY <1>1 DEF MixEnter, MixSlot, MixTimeout, MixNone, MixRead, MixFails, Fail
<1>2. CASE MixReleased(s)
  <2>1. PICK i \in output[s].pending :
           /\ output' = [output EXCEPT ![s].pending = @ \ {i}]
           /\ \A t \in Systems, k \in Slots :
                 Held(t, k) /\ <<t, k>> # <<s, i>> => Held(t, k)'
    BY <1>2, ReleasedTakesOne
  <2>2. /\ \A t \in Systems \ {s} : output'[t] = output[t]
        /\ output'[s].pending = output[s].pending \ {i}
        /\ output'[s].next = output[s].next
    BY <2>1 DEF Output
  <2>3. /\ UNCHANGED <<ctl, output_error>>
        /\ mixer[s] = "wait" /\ mixer' = [mixer EXCEPT ![s] = "slot"]
    BY <1>2 DEF MixReleased
  <2>4. QED
    <3> SUFFICES ASSUME ~output_error', NEW t \in Systems, NEW k \in Slots,
                        \/ k \in output'[t].pending /\ ctl'[t] # "free"
                        \/ mixer'[t] = "commit" /\ k = Slot(t)'
                 PROVE  Held(t, k)'
      BY DEF FlagsBacked
    <3>1. Held(t, k) /\ <<t, k>> # <<s, i>>
      BY <2>2, <2>3
    <3>2. QED
      BY <2>1, <3>1
<1>3. CASE MixSurplus(s)
  BY <1>3 DEF MixSurplus, Fail
<1>4. CASE MixConvert(s)
  BY <1>4 DEF MixConvert, Fail, Output
<1>5. CASE MixAppend(s)
  <2>1. Range(queue') = Range(queue) \union {<<s, Slot(s)>>} /\ finished' = finished
    BY <1>5, SlotOfOutput, RangeAppend DEF MixAppend, Address
  <2>2. /\ UNCHANGED <<ctl, output, output_error>>
        /\ mixer' = [mixer EXCEPT ![s] = "commit"]
    BY <1>5 DEF MixAppend
  <2>3. QED
    BY <2>1, <2>2
<1>6. CASE MixCommit(s)
  BY <1>6 DEF MixCommit, Appended, Output
<1>7. QED
  BY <1>1, <1>2, <1>3, <1>4, <1>5, <1>6 DEF Mix

LEMMA DeviceKeepsFlags ==
    ASSUME TypeOK, TypeOK', FlagsBacked, Complete
    PROVE  FlagsBacked'
<1>1. /\ Range(queue) = Range(queue') \union {Head(queue)}
      /\ Range(finished') = Range(finished) \union {Head(queue)}
  BY RangeTail, RangeAppend DEF Complete, TypeOK
<1>2. \A t \in Systems, i \in Slots : Held(t, i) => Held(t, i)'
  BY <1>1 DEF Held
<1>3. QED
  BY <1>2 DEF Complete, statVars, FlagsBacked, Slot

LEMMA FlagsHold == Spec => [](TypeOK /\ IInv /\ FlagsBacked)
<1>1. Init => FlagsBacked
  BY DEF Init, FlagsBacked, NoOutput
<1>2. TypeOK /\ TypeOK' /\ IInv /\ FlagsBacked /\ [Next]_vars => FlagsBacked'
  <2> SUFFICES ASSUME TypeOK, TypeOK', IInv, FlagsBacked, [Next]_vars
               PROVE  FlagsBacked'
    OBVIOUS
  <2>1. CASE UNCHANGED vars
    BY <2>1 DEF vars, deviceVars, statVars, FlagsBacked, Held, Slot
  <2>2. QED
    BY <2>1, ControlKeepsFlags, MixerKeepsFlags, DeviceKeepsFlags DEF Next
<1>3. QED
  BY <1>1, <1>2, IInvHolds, TypeCorrect, PTL DEF Spec

(***************************************************************************)
(* As long as no driver error has been recorded, the pending flags are     *)
(* exactly the buffers the device has, but for the one being appended: mix *)
(* waits for no buffer in vain and forgets none.                           *)
(***************************************************************************)
THEOREM FlagsExact == Spec => []PendingMirrorsDevice
<1>1. IInv /\ FlagsBacked => PendingMirrorsDevice
  BY DEF IInv, HeldPending, FlagsBacked, PendingMirrorsDevice, Playing
<1>2. QED
  BY <1>1, FlagsHold, PTL

(***************************************************************************)
(* The plugin implements the abstract audio stream.  Owner is the one      *)
(* system that owns the device, and Given the blocks the service holds.    *)
(***************************************************************************)
Given == [k \in 1 .. Len(queue) |-> output[queue[k][1]].pcm[queue[k][2]]]

LEMMA OwnerUnique ==
    ASSUME IInv, NEW s \in Systems, Owns(s)
    PROVE  Owner = s
BY DEF Owner, IInv, ExclusiveOwner

LEMMA OwnerStays ==
    ASSUME IInv, IInv', \A t \in Systems : Owns(t)' <=> Owns(t)
    PROVE  Owner' = Owner
<1>1. CASE \E t \in Systems : Owns(t)
  <2>1. PICK t \in Systems : Owns(t)
    BY <1>1
  <2>2. Owner = t /\ Owner' = t
    BY <2>1 DEF Owner, IInv, ExclusiveOwner
  <2>3. QED
    BY <2>2
<1>2. CASE ~\E t \in Systems : Owns(t)
  BY <1>2 DEF Owner
<1>3. QED
  BY <1>1, <1>2

LEMMA QueueElements ==
    ASSUME TypeOK, IInv, NEW s \in Systems, Owns(s), NEW k \in 1 .. Len(queue)
    PROVE  \E i \in Slots : queue[k] = <<s, i>> /\ Held(s, i)
<1>1. queue[k] \in Address /\ queue[k] \in Range(queue)
  BY DEF TypeOK, Range
<1>2. PICK t \in Systems, i \in Slots : queue[k] = <<t, i>>
  BY <1>1 DEF Address
<1>3. Held(t, i)
  BY <1>1, <1>2 DEF Held
<1>4. ctl[t] \in Playing \union {"exit"}
  BY <1>3 DEF IInv, HeldPending
<1>5. t = s
  BY <1>4 DEF IInv, ExclusiveOwner, Owns, Playing
<1>6. QED
  BY <1>2, <1>3, <1>5

\* A mixer with a free buffer in hand: the service cannot hold the whole ring.
LEMMA QueueBound ==
    ASSUME TypeOK, IInv, NEW s \in Systems, mixer[s] = "append"
    PROVE  Len(queue) < Buffers
<1> DEFINE Others == Slots \ {Slot(s)}
           place  == [k \in 1 .. Len(queue) |-> queue[k][2]]
<1>1. Owns(s) /\ Slot(s) \in Slots /\ ~Held(s, Slot(s))
  <2>1. ctl[s] \in {"started", "stopping", "halted"} /\ Slot(s) \notin output[s].pending
    BY DEF IInv, MixerJoined, SlotFree
  <2>2. Slot(s) \in Slots
    BY SlotOfOutput
  <2>3. QED
    BY <2>1, <2>2 DEF IInv, HeldPending, Owns
<1>2. \A k \in 1 .. Len(queue) : queue[k] = <<s, place[k]>> /\ place[k] \in Others
  <2> TAKE k \in 1 .. Len(queue)
  <2>1. PICK i \in Slots : queue[k] = <<s, i>> /\ Held(s, i)
    BY <1>1, QueueElements
  <2>2. QED
    BY <1>1, <2>1
<1>3. place \in Injection(1 .. Len(queue), Others)
  <2>1. ASSUME NEW j \in 1 .. Len(queue), NEW k \in 1 .. Len(queue), place[j] = place[k]
        PROVE  j = k
    <3>1. queue[j] = queue[k]
      BY <1>2, <2>1
    <3>2. j \in DOMAIN queue /\ k \in DOMAIN queue
      BY DEF TypeOK
    <3>3. QED
      BY <3>1, <3>2 DEF IInv, HeldOnce, IsInjective
  <2>2. place \in [1 .. Len(queue) -> Others]
    BY <1>2
  <2>3. QED
    BY <2>1, <2>2 DEF Injection, IsInjective
<1>4. IsFiniteSet(Others) /\ Cardinality(Others) = Buffers - 1
  <2>1. IsFiniteSet(Slots) /\ Cardinality(Slots) = Buffers
    BY BuffersAssumption, FS_Interval DEF Slots
  <2>2. QED
    BY <1>1, <2>1, FS_RemoveElement
<1>5. Cardinality(1 .. Len(queue)) <= Buffers - 1
  BY <1>3, <1>4, FS_Injection
<1>6. Len(queue) \in Nat /\ Cardinality(1 .. Len(queue)) = Len(queue)
  <2>1. Len(queue) \in Nat
    BY DEF TypeOK
  <2>2. Cardinality(1 .. Len(queue)) = IF 1 > Len(queue) THEN 0 ELSE Len(queue) - 1 + 1
    BY <2>1, FS_Interval
  <2>3. QED
    BY <2>1, <2>2
<1>7. QED
  BY <1>5, <1>6, BuffersAssumption

\* What the service holds reads as before if no slot it holds was written.
LEMMA GivenStays ==
    ASSUME TypeOK, queue' = queue,
           \A t \in Systems, i \in Slots :
               Held(t, i) => output'[t].pcm[i] = output[t].pcm[i]
    PROVE  Given' = Given
<1>1. ASSUME NEW k \in 1 .. Len(queue)
      PROVE  output'[queue[k][1]].pcm[queue[k][2]] = output[queue[k][1]].pcm[queue[k][2]]
  <2>1. queue[k] \in Address /\ queue[k] \in Range(queue)
    BY DEF TypeOK, Range
  <2>2. QED
    BY <2>1 DEF Held, Address
<1>2. QED
  BY <1>1 DEF Given

LEMMA NothingGiven == queue = <<>> => Given = <<>>
BY DEF Given

\* The abstract steps, in terms of Owner and Given.
LEMMA StreamSteps ==
    /\ Owner = "nobody" /\ Given = <<>> => Stream!Init
    /\ Owner' = Owner /\ Given' = Given => UNCHANGED Stream!vars
    /\ \A s \in Systems : Owner = "nobody" /\ Owner' = s /\ Given' = Given => Stream!Next
    /\ \A s \in Systems : Owner = s /\ Owner' = s /\ Given' = <<>> => Stream!Next
    /\ \A s \in Systems :
          Owner = s /\ Owner' = "nobody" /\ Given = <<>> /\ Given' = <<>> => Stream!Next
    /\ \A s \in Systems, block \in Blocks :
          /\ Owner = s /\ Owner' = s
          /\ Len(Given) < Buffers /\ Given' = Append(Given, block)
          => Stream!Next
    /\ Given # <<>> /\ Given' = Tail(Given) /\ Owner' = Owner => Stream!Next
BY DEF Given, Stream!Init, Stream!vars, Stream!Next, Stream!Acquire, Stream!Discard,
   Stream!Release, Stream!Give, Stream!Play

StreamStep == Stream!Next \/ UNCHANGED Stream!vars

\* Claiming the device acquires the stream, and nothing else FMOD asks for
\* touches it.
LEMMA RequestRefines ==
    ASSUME TypeOK, TypeOK', IInv, IInv', NEW s \in Systems, Request(s)
    PROVE  StreamStep
<1> USE DEF CtlStep, deviceVars, statVars
<1>1. Given' = Given
  BY GivenStays DEF Request, InitClaim, Start, StopRequest, CloseRequest
<1>2. CASE InitClaim(s)
  <2>1. ~\E t \in Systems : Owns(t)
    BY <1>2 DEF InitClaim, IInv, ExclusiveOwner
  <2>2. Owner = "nobody"
    BY <2>1 DEF Owner
  <2>3. Owns(s)'
    BY <1>2 DEF InitClaim, Owns, TypeOK
  <2>4. Owner' = s
    BY <2>3 DEF Owner, IInv, ExclusiveOwner
  <2>5. QED
    BY <1>1, <2>2, <2>4, StreamSteps DEF StreamStep
<1>3. CASE Start(s) \/ StopRequest(s)
  <2>1. \A t \in Systems : Owns(t)' <=> Owns(t)
    BY <1>3 DEF Start, StopRequest, Owns, TypeOK
  <2>2. QED
    BY <1>1, <2>1, OwnerStays, StreamSteps DEF StreamStep
<1>4. CASE CloseRequest(s)
  <2>1. ctl[s] # "none"
    BY <1>4, AttachedAlive DEF CloseRequest, IInv, OutputAlive, SessionOpen, Playing
  <2>2. \A t \in Systems : Owns(t)' <=> Owns(t)
    BY <1>4, <2>1 DEF CloseRequest, Owns, TypeOK
  <2>3. QED
    BY <1>1, <2>2, OwnerStays, StreamSteps DEF StreamStep
<1>5. QED
  BY <1>2, <1>3, <1>4 DEF Request

\* An init that fails and a close release the stream, empty as it is by then.
LEMMA ReleaseRefines ==
    ASSUME TypeOK, TypeOK', IInv, IInv', NEW s \in Systems,
           CtlStep(s, "calloc", "none") \/ CtlStep(s, "open", "none")
              \/ CtlStep(s, "disown", "none"),
           UNCHANGED queue
    PROVE  Stream!Next
<1>1. /\ Owns(s) /\ ~Owns(s)'
      /\ \A t \in Systems \ {s} : ctl'[t] = ctl[t]
  BY DEF CtlStep, Owns, TypeOK
<1>2. Owner = s
  BY <1>1, OwnerUnique
<1>3. \A t \in Systems : ctl[t] \notin SessionOpen
  BY <1>1 DEF IInv, ExclusiveOwner, Owns, CtlStep, SessionOpen, Playing
<1>4. queue = <<>> /\ queue' = <<>>
  BY <1>3 DEF IInv, OneSession
<1>5. Given = <<>> /\ Given' = <<>>
  BY <1>4, NothingGiven DEF Given
<1>6. ~\E t \in Systems : Owns(t)'
  BY <1>1 DEF IInv, ExclusiveOwner, Owns
<1>7. Owner' = "nobody"
  BY <1>6 DEF Owner
<1>8. QED
  BY <1>2, <1>5, <1>7, StreamSteps

LEMMA CallbackRefines ==
    ASSUME TypeOK, TypeOK', IInv, IInv', NEW s \in Systems, Callback(s)
    PROVE  StreamStep
<1> USE DEF deviceVars, statVars
<1>1. CASE CtlStep(s, "calloc", "none") \/ CtlStep(s, "open", "none")
              \/ CtlStep(s, "disown", "none")
  <2>1. UNCHANGED queue
    BY <1>1 DEF Callback, InitCalloc, InitOpen, InitOpenFails, InitFormat, InitBuffers,
       Stop, CloseExit, CloseFree, CloseDisown, CtlStep
  <2>2. QED
    BY <1>1, <2>1, ReleaseRefines DEF StreamStep
<1>2. CASE CloseExit(s)
  <2>1. Owns(s) /\ Owns(s)'
    BY <1>2 DEF CloseExit, CtlStep, Owns, TypeOK
  <2>2. Owner = s /\ Owner' = s
    BY <2>1 DEF Owner, IInv, ExclusiveOwner
  <2>3. opened = 1
    BY <1>2 DEF CloseExit, CtlStep, IInv, OneSession, SessionOpen
  <2>4. Given' = <<>>
    BY <1>2, <2>3 DEF CloseExit, Given
  <2>5. QED
    BY <2>2, <2>4, StreamSteps DEF StreamStep
<1>3. CASE CloseFree(s)
  <2>1. \A t \in Systems : ctl[t] \notin SessionOpen
    BY <1>3 DEF CloseFree, CtlStep, IInv, ExclusiveOwner, Owns, SessionOpen, Playing
  <2>2. queue = <<>> /\ queue' = <<>>
    BY <1>3, <2>1 DEF CloseFree, IInv, OneSession
  <2>3. Given' = Given
    BY <2>2 DEF Given
  <2>4. \A t \in Systems : Owns(t)' <=> Owns(t)
    BY <1>3 DEF CloseFree, CtlStep, Owns, TypeOK
  <2>5. QED
    BY <2>3, <2>4, OwnerStays, StreamSteps DEF StreamStep
<1>4. CASE (InitCalloc(s) /\ CtlStep(s, "calloc", "open")) \/ InitOpen(s)
              \/ InitFormat(s) \/ InitBuffers(s) \/ Stop(s)
  <2>1. \A t \in Systems : Owns(t)' <=> Owns(t)
    BY <1>4 DEF InitOpen, InitFormat, InitBuffers, Stop, CtlStep, Owns, TypeOK
  <2>2. UNCHANGED queue /\ \A t \in Systems : output'[t].pcm = output[t].pcm
    <3>1. CASE InitOpen(s)
      BY <3>1 DEF InitOpen, TypeOK, Output
    <3>2. CASE InitBuffers(s)
      <4>1. PICK i \in 0 .. Buffers :
               output' = [output EXCEPT ![s].memory = 0 .. i - 1]
        BY <3>2 DEF InitBuffers
      <4>2. QED
        BY <3>2, <4>1 DEF InitBuffers, TypeOK, Output
    <3>3. QED
      BY <1>4, <3>1, <3>2 DEF InitCalloc, InitFormat, Stop
  <2>3. Given' = Given
    BY <2>2, GivenStays
  <2>4. QED
    BY <2>1, <2>3, OwnerStays, StreamSteps DEF StreamStep
<1>5. QED
  BY <1>1, <1>2, <1>3, <1>4 DEF Callback, InitCalloc, InitOpenFails, CloseDisown

\* Appending gives the stream a block; every other step of a mixer, and above
\* all the conversion, leaves what was given as it is.
LEMMA MixerRefines ==
    ASSUME TypeOK, TypeOK', IInv, IInv', NEW s \in Systems, MixEnter(s) \/ Mix(s)
    PROVE  StreamStep
<1> USE DEF MixStep, deviceVars, statVars
<1>1. Owns(s) /\ Owner' = Owner
  <2>1. ctl' = ctl /\ ctl[s] # "none"
    BY DEF MixEnter, Mix, MixSlot, MixTimeout, MixNone, MixReleased, MixSurplus,
       MixRead, MixConvert, MixAppend, MixCommit, MixFails, IInv, MixerJoined
  <2>2. QED
    BY <2>1, OwnerStays DEF Owns
<1>2. CASE MixAppend(s)
  <2> DEFINE block == output[s].pcm[Slot(s)]
  <2>1. queue' = Append(queue, <<s, Slot(s)>>) /\ output' = output
    BY <1>2 DEF MixAppend
  <2>2. queue \in Seq(Address) /\ Slot(s) \in Slots /\ block \in Blocks
    BY SlotOfOutput DEF TypeOK, Output
  <2>3. Given' = Append(Given, block)
    <3>1. /\ DOMAIN Given = 1 .. Len(queue) /\ Len(Given) = Len(queue)
          /\ Given \in Seq(Blocks)
      <4>1. \A k \in 1 .. Len(queue) : queue[k] \in Address
        BY <2>2
      <4>2. \A k \in 1 .. Len(queue) : Given[k] \in Blocks
        BY <4>1 DEF Given, Address, TypeOK, Output
      <4>3. Len(queue) \in Nat
        BY <2>2
      <4>4. Given \in [1 .. Len(queue) -> Blocks]
        BY <4>2 DEF Given
      <4>5. QED
        BY <4>3, <4>4
    <3>2. /\ Len(queue') = Len(queue) + 1
          /\ \A k \in 1 .. Len(queue) : queue'[k] = queue[k]
          /\ queue'[Len(queue) + 1] = <<s, Slot(s)>>
      BY <2>1, <2>2
    <3>3. Given' = [k \in 1 .. Len(queue) + 1 |->
                       IF k = Len(queue) + 1 THEN block ELSE Given[k]]
      BY <2>1, <2>2, <3>2 DEF Given
    <3>4. QED
      BY <2>2, <3>1, <3>3
  <2>4. Len(Given) < Buffers
    <3>1. Len(queue) < Buffers /\ Len(queue) \in Nat
      BY <1>2, <2>2, QueueBound DEF MixAppend
    <3>2. QED
      BY <3>1 DEF Given
  <2>5. Owner = s
    BY <1>1, OwnerUnique
  <2>6. QED
    BY <1>1, <2>2, <2>3, <2>4, <2>5, StreamSteps DEF StreamStep
<1>3. CASE MixConvert(s)
  <2>1. PICK block \in Blocks : output' = [output EXCEPT ![s].pcm[Slot(s)] = block]
    BY <1>3 DEF MixConvert
  <2>2. ~Held(s, Slot(s))
    BY <1>3, SlotOfOutput DEF MixConvert, IInv, SlotFree, HeldPending
  <2>3. \A t \in Systems, i \in Slots :
           Held(t, i) => output'[t].pcm[i] = output[t].pcm[i]
    BY <2>1, <2>2, SlotOfOutput DEF TypeOK, Output
  <2>4. QED
    BY <1>1, <1>3, <2>3, GivenStays, StreamSteps DEF MixConvert, StreamStep
<1>4. CASE ~MixAppend(s) /\ ~MixConvert(s)
  <2>1. UNCHANGED queue
    BY <1>4 DEF MixEnter, Mix, MixSlot, MixTimeout, MixNone, MixReleased, MixSurplus,
       MixRead, MixCommit, MixFails
  <2>2. \A t \in Systems : output'[t].pcm = output[t].pcm
    <3>1. CASE UNCHANGED output
      BY <3>1
    <3>2. CASE MixReleased(s) \/ MixSurplus(s)
      <4>1. PICK i \in output[s].pending :
               output' = [output EXCEPT ![s].pending = @ \ {i}]
        BY <3>2 DEF MixReleased, MixSurplus
      <4>2. QED
        BY <4>1 DEF TypeOK, Output
    <3>3. CASE MixCommit(s)
      BY <3>3 DEF MixCommit, Appended, TypeOK, Output
    <3>4. QED
      BY <1>4, <3>1, <3>2, <3>3 DEF MixEnter, Mix, MixSlot, MixTimeout, MixNone,
         MixRead, MixFails
  <2>3. QED
    BY <1>1, <2>1, <2>2, GivenStays, StreamSteps DEF StreamStep
<1>5. QED
  BY <1>2, <1>3, <1>4

LEMMA TailShifts ==
    ASSUME NEW set, NEW q \in Seq(set), q # <<>>
    PROVE  Tail(q) = [k \in 1 .. Len(q) - 1 |-> q[k + 1]]
<1>1. Tail(q) \in Seq(set) /\ Len(Tail(q)) = Len(q) - 1 /\ Len(q) \in Nat \ {0}
  OBVIOUS
<1>2. Tail(q) = [k \in 1 .. Len(q) - 1 |-> Tail(q)[k]]
  <2>1. Tail(q) \in [1 .. Len(Tail(q)) -> set]
    BY <1>1, LenProperties
  <2>2. QED
    BY <1>1, <2>1
<1>3. \A k \in 1 .. Len(q) - 1 : Tail(q)[k] = q[k + 1]
  OBVIOUS
<1>4. QED
  BY <1>2, <1>3

LEMMA DeviceRefines ==
    ASSUME TypeOK, TypeOK', IInv, IInv', Complete
    PROVE  StreamStep
<1>1. queue \in Seq(Address) /\ queue # <<>> /\ queue' = Tail(queue)
      /\ UNCHANGED <<ctl, output>>
  BY DEF Complete, TypeOK
<1>2. /\ Len(queue) \in Nat \ {0} /\ Len(queue') = Len(queue) - 1
      /\ \A k \in 1 .. Len(queue) - 1 : queue'[k] = queue[k + 1]
  BY <1>1
<1>3. Given \in Seq(Blocks) /\ Len(Given) = Len(queue)
  <2>1. \A k \in 1 .. Len(queue) : queue[k] \in Address
    BY <1>1
  <2>2. \A k \in 1 .. Len(queue) : Given[k] \in Blocks
    BY <2>1 DEF Given, Address, TypeOK, Output
  <2>3. Given \in [1 .. Len(queue) -> Blocks]
    BY <2>2 DEF Given
  <2>4. QED
    BY <1>2, <2>3
<1>4. Given' = [k \in 1 .. Len(Given) - 1 |-> Given[k + 1]]
  BY <1>1, <1>2, <1>3 DEF Given
<1>5. Given # <<>> /\ Given' = Tail(Given)
  <2>1. Given # <<>>
    BY <1>2, <1>3
  <2>2. Tail(Given) = [k \in 1 .. Len(Given) - 1 |-> Given[k + 1]]
    BY <1>3, <2>1, TailShifts
  <2>3. QED
    BY <1>4, <2>1, <2>2
<1>6. Owner' = Owner
  BY <1>1, OwnerStays DEF Owns
<1>7. QED
  BY <1>5, <1>6, StreamSteps DEF StreamStep

(***************************************************************************)
(* The plugin implements the abstract audio stream: the device plays what  *)
(* its one owner gave it, each block once, in order and as it was given,   *)
(* although the blocks live in a ring of buffers that are written again.   *)
(***************************************************************************)
THEOREM PluginImplementsStream == Spec => ImplementsStream
<1>1. Init => Stream!Init
  <2> SUFFICES ASSUME Init PROVE Stream!Init
    OBVIOUS
  <2>1. Owner = "nobody"
    BY DEF Init, Owner, Owns
  <2>2. Given = <<>>
    BY NothingGiven DEF Init
  <2>3. QED
    BY <2>1, <2>2, StreamSteps
<1>2. TypeOK /\ TypeOK' /\ IInv /\ IInv' /\ [Next]_vars => [Stream!Next]_(Stream!vars)
  <2> SUFFICES ASSUME TypeOK, TypeOK', IInv, IInv', [Next]_vars PROVE StreamStep
    BY DEF StreamStep
  <2>1. CASE UNCHANGED vars
    <3>1. Owner' = Owner /\ Given' = Given
      BY <2>1 DEF vars, deviceVars, statVars, Owner, Owns, Given
    <3>2. QED
      BY <3>1, StreamSteps DEF StreamStep
  <2>2. QED
    BY <2>1, RequestRefines, CallbackRefines, MixerRefines, DeviceRefines DEF Next
<1>3. QED
  BY <1>1, <1>2, IInvHolds, PTL DEF Spec, ImplementsStream, Stream!Spec

(***************************************************************************)
(* The counters wrap: arithmetic modulo CounterMod.                        *)
(***************************************************************************)
LEMMA CounterDivided ==
    ASSUME NEW n \in Nat
    PROVE  \E q \in Nat, r \in Counter :
              n = (CounterMod * q) + r /\ n % CounterMod = r
<1>1. n = (CounterMod * (n \div CounterMod)) + (n % CounterMod)
  BY CounterModAssumption
<1>2. n \div CounterMod \in Nat /\ n % CounterMod \in Counter
  BY CounterModAssumption DEF Counter
<1>3. QED
  BY <1>1, <1>2

LEMMA CounterRemainder ==
    ASSUME NEW q \in Int, NEW r \in Counter
    PROVE  ((CounterMod * q) + r) % CounterMod = r
BY CounterModAssumption DEF Counter

\* A wrap in a summand is no wrap of the sum's remainder.
LEMMA CounterSum ==
    ASSUME NEW a \in Nat, NEW b \in Nat
    PROVE  (a + (b % CounterMod)) % CounterMod = (a + b) % CounterMod
<1> USE CounterModAssumption
<1>1. PICK q \in Nat, r \in Counter : b = (CounterMod * q) + r /\ b % CounterMod = r
  BY CounterDivided
<1>2. PICK p \in Nat, t \in Counter :
         a + r = (CounterMod * p) + t /\ (a + r) % CounterMod = t
  <2>1. a + r \in Nat
    BY DEF Counter
  <2>2. QED
    BY <2>1, CounterDivided
<1>3. a + b = (CounterMod * (p + q)) + t
  <2>1. CounterMod * (p + q) = (CounterMod * p) + (CounterMod * q)
    OBVIOUS
  <2>2. CounterMod * p \in Int /\ CounterMod * q \in Int
    OBVIOUS
  <2>3. QED
    BY <1>1, <1>2, <2>1, <2>2 DEF Counter
<1>4. ((CounterMod * (p + q)) + t) % CounterMod = t
  <2>1. p + q \in Int
    OBVIOUS
  <2>2. QED
    BY <2>1, CounterRemainder, Zenon
<1>5. QED
  BY <1>1, <1>2, <1>3, <1>4

LEMMA IncIsMod ==
    ASSUME NEW n \in Counter
    PROVE  IncCounter(n) = (n + 1) % CounterMod
<1>1. CASE n + 1 = CounterMod
  <2>1. CounterMod % CounterMod = 0
    BY CounterModAssumption
  <2>2. QED
    BY <1>1, <2>1 DEF IncCounter
<1>2. CASE n + 1 # CounterMod
  <2>1. n + 1 \in 0 .. CounterMod - 1
    BY <1>2, CounterModAssumption DEF Counter
  <2>2. \A r \in 0 .. CounterMod - 1 : r % CounterMod = r
    BY CounterModAssumption
  <2>3. QED
    BY <1>2, <2>1, <2>2 DEF IncCounter
<1>3. QED
  BY <1>1, <1>2

\* What the five kinds of step do to the balance.
LEMMA BalanceSteps ==
    ASSUME NEW a \in Counter, NEW b \in Counter, NEW n \in Nat
    PROVE  /\ IncCounter((a + b + n) % CounterMod) = (a + b + (n + 1)) % CounterMod
           /\ n > 0 => (IncCounter(a) + b + (n - 1)) % CounterMod = (a + b + n) % CounterMod
           /\ n > 0 => (a + IncCounter(b) + (n - 1)) % CounterMod = (a + b + n) % CounterMod
           /\ (a + ((b + n) % CounterMod) + 0) % CounterMod = (a + b + n) % CounterMod
<1>0. a \in Nat /\ b \in Nat
  BY CounterModAssumption DEF Counter
<1>1. IncCounter((a + b + n) % CounterMod) = (a + b + (n + 1)) % CounterMod
  <2>1. a + b + n \in Nat
    BY <1>0
  <2> DEFINE m == (a + b + n) % CounterMod
  <2>2. m \in Counter /\ m \in Nat
    BY <2>1, ModInRange, CounterModAssumption DEF Counter
  <2>3. (1 + m) % CounterMod = (1 + (a + b + n)) % CounterMod
    BY <2>1, CounterSum
  <2>4. 1 + (a + b + n) = a + b + (n + 1)
    BY <1>0
  <2> HIDE DEF m
  <2>5. IncCounter(m) = (m + 1) % CounterMod /\ m + 1 = 1 + m
    BY <2>2, IncIsMod
  <2>6. IncCounter(m) = (a + b + (n + 1)) % CounterMod
    BY <2>3, <2>4, <2>5
  <2>7. QED
    BY <2>6 DEF m
<1>2. ASSUME NEW x \in Counter, NEW y \in Counter, n > 0
      PROVE  ((y + (n - 1)) + IncCounter(x)) % CounterMod = (x + y + n) % CounterMod
  <2>1. x \in Nat /\ y \in Nat /\ x + 1 \in Nat /\ y + (n - 1) \in Nat
    BY <1>2, CounterModAssumption DEF Counter
  <2>2. ((y + (n - 1)) + ((x + 1) % CounterMod)) % CounterMod
           = ((y + (n - 1)) + (x + 1)) % CounterMod
    BY <2>1, CounterSum
  <2>3. (y + (n - 1)) + (x + 1) = x + y + n
    BY <2>1
  <2>4. IncCounter(x) = (x + 1) % CounterMod
    BY IncIsMod
  <2>5. QED
    BY <2>2, <2>3, <2>4
<1>3. ASSUME n > 0
      PROVE  /\ (IncCounter(a) + b + (n - 1)) % CounterMod = (a + b + n) % CounterMod
             /\ (a + IncCounter(b) + (n - 1)) % CounterMod = (a + b + n) % CounterMod
  <2>1. /\ ((b + (n - 1)) + IncCounter(a)) % CounterMod = (a + b + n) % CounterMod
        /\ ((a + (n - 1)) + IncCounter(b)) % CounterMod = (b + a + n) % CounterMod
    BY <1>2, <1>3
  <2>2. IncCounter(a) \in Nat /\ IncCounter(b) \in Nat
    BY IncInRange, CounterModAssumption DEF Counter
  <2>3. /\ (b + (n - 1)) + IncCounter(a) = IncCounter(a) + b + (n - 1)
        /\ (a + (n - 1)) + IncCounter(b) = a + IncCounter(b) + (n - 1)
        /\ b + a + n = a + b + n
    BY <1>0, <2>2
  <2>4. QED
    BY <2>1, <2>3
<1>4. (a + ((b + n) % CounterMod) + 0) % CounterMod = (a + b + n) % CounterMod
  <2>1. b + n \in Nat
    BY <1>0
  <2>2. (b + n) % CounterMod \in Nat
    BY <2>1, CounterModAssumption
  <2>3. a + ((b + n) % CounterMod) + 0 = a + ((b + n) % CounterMod) /\ a + (b + n) = a + b + n
    BY <1>0, <2>2
  <2>4. (a + ((b + n) % CounterMod)) % CounterMod = (a + (b + n)) % CounterMod
    BY <1>0, <2>1, CounterSum
  <2>5. QED
    BY <2>3, <2>4
<1>5. QED
  BY <1>1, <1>3, <1>4

(***************************************************************************)
(* The blocks in flight.  They all belong to the owner of the device, so   *)
(* there are finitely many of them whatever the number of systems.         *)
(***************************************************************************)
InFlight == UNION {{s} \X output[s].pending : s \in Systems}

Balance == stats.released + stats.lost + Cardinality(InFlight)

Balanced == stats.mixed = Balance % CounterMod

LEMMA InFlightElement ==
    \A s, i : <<s, i>> \in InFlight <=> s \in Systems /\ i \in output[s].pending
BY DEF InFlight

LEMMA InFlightPairs ==
    \A a \in InFlight : \E s \in Systems : \E i \in output[s].pending : a = <<s, i>>
BY DEF InFlight

LEMMA InFlightFinite ==
    ASSUME TypeOK, IInv
    PROVE  /\ IsFiniteSet(InFlight) /\ Cardinality(InFlight) \in Nat
           /\ \A s \in Systems : Owns(s) =>
                 /\ InFlight = {s} \X output[s].pending
                 /\ Cardinality(InFlight) = Cardinality(output[s].pending)
<1>1. \A t \in Systems : output[t].pending # {} => Owns(t)
  BY DEF IInv, OutputPhases, OutputAlive, SessionOpen, Playing, Owns, NoOutput
<1>2. ASSUME NEW s \in Systems, Owns(s)
      PROVE  /\ InFlight = {s} \X output[s].pending
             /\ IsFiniteSet(InFlight)
             /\ Cardinality(InFlight) = Cardinality(output[s].pending)
  <2>1. \A t \in Systems : t # s => output[t].pending = {}
    BY <1>1, <1>2 DEF IInv, ExclusiveOwner
  <2>2. InFlight = {s} \X output[s].pending
    BY <2>1 DEF InFlight
  <2>3. IsFiniteSet(output[s].pending) /\ Cardinality(output[s].pending) \in Nat
    <3>1. output[s].pending \in SUBSET Slots
      BY DEF TypeOK, Output
    <3>2. IsFiniteSet(Slots)
      BY BuffersAssumption, FS_Interval DEF Slots
    <3>3. QED
      BY <3>1, <3>2, FS_Subset, FS_CardinalityType
  <2>4. IsFiniteSet({s}) /\ Cardinality({s}) = 1
    BY FS_Singleton
  <2>5. /\ IsFiniteSet({s} \X output[s].pending)
        /\ Cardinality({s} \X output[s].pending) = 1 * Cardinality(output[s].pending)
    BY <2>3, <2>4, FS_Product
  <2>6. QED
    BY <2>2, <2>3, <2>5
<1>3. CASE \E s \in Systems : Owns(s)
  BY <1>2, <1>3, FS_CardinalityType
<1>4. CASE ~\E s \in Systems : Owns(s)
  <2>1. InFlight = {}
    BY <1>1, <1>4 DEF InFlight
  <2>2. QED
    BY <1>4, <2>1, FS_EmptySet
<1>5. QED
  BY <1>3, <1>4

\* Only the pending flags matter.
LEMMA InFlightStays ==
    ASSUME \A s \in Systems : output'[s].pending = output[s].pending
    PROVE  InFlight' = InFlight
BY DEF InFlight

LEMMA InFlightLoses ==
    ASSUME TypeOK, IInv, NEW s \in Systems, NEW i \in output[s].pending,
           output' = [output EXCEPT ![s].pending = @ \ {i}]
    PROVE  /\ Cardinality(InFlight) > 0
           /\ Cardinality(InFlight') = Cardinality(InFlight) - 1
<1>1. /\ \A t \in Systems : t # s => output'[t].pending = output[t].pending
      /\ output'[s].pending = output[s].pending \ {i}
  BY DEF TypeOK, Output
<1>2. InFlight' = InFlight \ {<<s, i>>}
  BY <1>1 DEF InFlight
<1>3. <<s, i>> \in InFlight
  BY InFlightElement
<1>4. IsFiniteSet(InFlight) /\ Cardinality(InFlight) \in Nat
  BY InFlightFinite
<1>5. Cardinality(InFlight) # 0
  BY <1>3, <1>4, FS_EmptySet
<1>6. Cardinality(InFlight \ {<<s, i>>}) = Cardinality(InFlight) - 1
  BY <1>3, <1>4, FS_RemoveElement
<1>7. QED
  BY <1>2, <1>4, <1>5, <1>6

LEMMA InFlightGains ==
    ASSUME TypeOK, IInv, NEW s \in Systems, MixCommit(s)
    PROVE  Cardinality(InFlight') = Cardinality(InFlight) + 1
<1>1. /\ \A t \in Systems : t # s => output'[t].pending = output[t].pending
      /\ output'[s].pending = output[s].pending \union {Slot(s)}
  BY DEF MixCommit, Appended, TypeOK, Output
<1>2. InFlight' = InFlight \union {<<s, Slot(s)>>}
  BY <1>1 DEF InFlight
<1>3. <<s, Slot(s)>> \notin InFlight
  <2>1. Slot(s) \notin output[s].pending
    BY DEF MixCommit, MixStep, IInv, SlotFree
  <2>2. QED
    BY <2>1, InFlightElement
<1>4. IsFiniteSet(InFlight)
  BY InFlightFinite
<1>5. QED
  BY <1>2, <1>3, <1>4, FS_AddElement

LEMMA AccountingStep ==
    ASSUME TypeOK, IInv, IInv', [Next]_vars, stats.mixed = Balance % CounterMod
    PROVE  stats'.mixed = Balance' % CounterMod
<1> DEFINE n == Cardinality(InFlight)
<1>typed. /\ stats.released \in Counter /\ stats.lost \in Counter
          /\ n \in Nat
  BY InFlightFinite DEF TypeOK, Stats
<1>mod. /\ IncCounter(stats.mixed) = (stats.released + stats.lost + (n + 1)) % CounterMod
        /\ n > 0 => stats.mixed = (IncCounter(stats.released) + stats.lost + (n - 1)) % CounterMod
        /\ n > 0 => stats.mixed = (stats.released + IncCounter(stats.lost) + (n - 1)) % CounterMod
        /\ stats.mixed = (stats.released + ((stats.lost + n) % CounterMod) + 0) % CounterMod
  BY <1>typed, BalanceSteps DEF Balance
<1> HIDE DEF n
<1>same. ASSUME UNCHANGED stats, \A t \in Systems : output'[t].pending = output[t].pending
         PROVE  stats'.mixed = Balance' % CounterMod
  BY <1>same, InFlightStays DEF Balance
<1>1. ASSUME NEW s \in Systems, Request(s) PROVE stats'.mixed = Balance' % CounterMod
  <2>1. UNCHANGED <<stats, output>>
    BY <1>1 DEF Request, InitClaim, Start, StopRequest, CloseRequest, statVars
  <2>2. QED
    BY <1>same, <2>1
<1>2. ASSUME NEW s \in Systems, Callback(s) PROVE stats'.mixed = Balance' % CounterMod
  <2>1. CASE CloseFree(s)
    <3>1. Owns(s)
      BY <2>1 DEF CloseFree, CtlStep, Owns
    <3>2. n = Cardinality(output[s].pending)
      BY <3>1, InFlightFinite DEF n
    <3>3. InFlight' = {}
      <4>1. \A t \in Systems : t # s => output[t] = NoOutput
        BY <3>1 DEF IInv, ExclusiveOwner, OutputPhases, OutputAlive, SessionOpen,
           Playing, Owns
      <4>2. \A t \in Systems : output'[t].pending = {}
        BY <2>1, <4>1 DEF CloseFree, TypeOK, NoOutput
      <4>3. QED
        BY <4>2 DEF InFlight
    <3>4. Cardinality(InFlight') = 0
      BY <3>3, FS_EmptySet
    <3>5. /\ stats'.mixed = stats.mixed /\ stats'.released = stats.released
          /\ stats'.lost = (stats.lost + n) % CounterMod
      BY <2>1, <3>2 DEF CloseFree, TypeOK, Stats
    <3>6. QED
      BY <1>mod, <3>4, <3>5 DEF Balance
  <2>2. CASE InitOpen(s)
    BY <1>same, <2>2 DEF InitOpen, statVars, TypeOK, Output
  <2>3. CASE InitBuffers(s)
    <3>1. PICK i \in 0 .. Buffers :
             output' = [output EXCEPT ![s].memory = 0 .. i - 1]
      BY <2>3 DEF InitBuffers
    <3>2. QED
      BY <1>same, <2>3, <3>1 DEF InitBuffers, statVars, TypeOK, Output
  <2>4. CASE UNCHANGED <<stats, output>>
    BY <1>same, <2>4
  <2>5. QED
    BY <1>2, <2>1, <2>2, <2>3, <2>4 DEF Callback, InitCalloc, InitOpenFails, InitFormat,
       Stop, CloseExit, CloseDisown, statVars
<1>3. ASSUME NEW s \in Systems, MixEnter(s) \/ Mix(s)
      PROVE  stats'.mixed = Balance' % CounterMod
  <2>1. CASE MixReleased(s)
    <3>1. PICK i \in output[s].pending :
             output' = [output EXCEPT ![s].pending = @ \ {i}]
      BY <2>1 DEF MixReleased
    <3>2. n > 0 /\ Cardinality(InFlight') = n - 1
      BY <3>1, InFlightLoses DEF n
    <3>3. /\ stats'.mixed = stats.mixed /\ stats'.lost = stats.lost
          /\ stats'.released = IncCounter(stats.released)
      BY <2>1 DEF MixReleased, TypeOK, Stats
    <3>4. QED
      BY <1>mod, <3>2, <3>3 DEF Balance
  <2>2. CASE MixSurplus(s)
    <3>1. PICK i \in output[s].pending :
             output' = [output EXCEPT ![s].pending = @ \ {i}]
      BY <2>2 DEF MixSurplus
    <3>2. n > 0 /\ Cardinality(InFlight') = n - 1
      BY <3>1, InFlightLoses DEF n
    <3>3. /\ stats'.mixed = stats.mixed /\ stats'.released = stats.released
          /\ stats'.lost = IncCounter(stats.lost)
      BY <2>2 DEF MixSurplus, TypeOK, Stats
    <3>4. QED
      BY <1>mod, <3>2, <3>3 DEF Balance
  <2>3. CASE MixCommit(s)
    <3>1. Cardinality(InFlight') = n + 1
      BY <2>3, InFlightGains DEF n
    <3>2. /\ stats'.released = stats.released /\ stats'.lost = stats.lost
          /\ stats'.mixed = IncCounter(stats.mixed)
      BY <2>3 DEF MixCommit, TypeOK, Stats
    <3>3. QED
      BY <1>mod, <3>1, <3>2 DEF Balance
  <2>4. CASE MixTimeout(s)
    <3>1. /\ stats'.mixed = stats.mixed /\ stats'.released = stats.released
          /\ stats'.lost = stats.lost /\ output' = output
      BY <2>4 DEF MixTimeout, TypeOK, Stats
    <3>2. QED
      BY <3>1, InFlightStays DEF Balance
  <2>5. CASE MixConvert(s)
    <3>1. PICK block \in Blocks : output' = [output EXCEPT ![s].pcm[Slot(s)] = block]
      BY <2>5 DEF MixConvert
    <3>2. QED
      BY <1>same, <2>5, <3>1 DEF MixConvert, TypeOK, Output
  <2>6. CASE UNCHANGED <<stats, output>>
    BY <1>same, <2>6
  <2>7. QED
    BY <1>3, <2>1, <2>2, <2>3, <2>4, <2>5, <2>6 DEF MixEnter, Mix, MixSlot, MixNone,
       MixRead, MixAppend, MixFails, statVars
<1>4. CASE Complete \/ UNCHANGED vars
  <2>1. UNCHANGED <<stats, output>>
    BY <1>4 DEF Complete, vars, statVars
  <2>2. QED
    BY <1>same, <2>1
<1>5. QED
  BY <1>1, <1>2, <1>3, <1>4 DEF Next

(***************************************************************************)
(* The statistics balance at every moment, through the wrap of every one   *)
(* of the counters and across sessions: a block that was mixed has been    *)
(* released, is pending, or was dropped by a close or a faulty service.    *)
(***************************************************************************)
THEOREM StatisticsBalance == Spec => []Accounting
<1>1. Balanced => Accounting
  BY DEF Accounting, Balanced, Balance, InFlight
<1>2. Init => Balanced
  <2> SUFFICES ASSUME Init PROVE Balanced
    OBVIOUS
  <2>1. InFlight = {}
    BY DEF Init, InFlight, NoOutput
  <2>2. Cardinality(InFlight) = 0
    BY <2>1, FS_EmptySet
  <2>3. 0 % CounterMod = 0
    BY CounterModAssumption
  <2>4. QED
    BY <2>2, <2>3 DEF Init, Balanced, Balance
<1>3. TypeOK /\ IInv /\ IInv' /\ Balanced /\ [Next]_vars => Balanced'
  BY AccountingStep DEF Balanced
<1>4. QED
  BY <1>1, <1>2, <1>3, IInvHolds, PTL DEF Spec

(***************************************************************************)
(* The deadline of mix: AudioPacing, for any length of the ring, any       *)
(* duration of a block and any slack that is no shorter than the ring.     *)
(***************************************************************************)

\* The playing time of a ring less one block.  It is a product of constants,
\* so it is named here and its two properties are all the proofs need.
Lead == (Ring - 1) * Duration

LEMMA LeadProperties ==
    /\ Lead \in Nat /\ Lead <= Slack /\ Lead <= Boot
    /\ Ring * Duration = Lead + Duration
<1>1. Ring - 1 \in Nat /\ Duration \in Nat
  BY PacingAssumption
<1>2. Lead \in Nat
  BY <1>1 DEF Lead
<1>3. Ring * Duration = (Ring - 1) * Duration + Duration
  BY PacingAssumption
<1>4. QED
  BY <1>2, <1>3, PacingAssumption DEF Lead

\* Has the first call come?
Scheduled == call # "idle" \/ deadline # 0

\* The schedule is anchored: since the first call the deadline has moved by
\* at least what was granted, and it is never more than a block ahead.
PacingInv ==
    /\ PacingTypeOK
    /\ now >= Boot
    /\ deadline = 0 /\ call = "idle" => granted = 0 /\ origin = 0
    /\ Scheduled =>
          /\ granted <= deadline - origin + Lead
          /\ deadline <= now + Duration
    /\ call = "mix" => deadline # 0
    /\ origin <= now

LEMMA PacingInvInit == PacingInit => PacingInv
BY PacingAssumption DEF PacingInit, PacingInv, PacingTypeOK, Scheduled

LEMMA Restart ==
    ASSUME now \in Nat, now >= Boot
    PROVE  RingBefore(now) = now - Lead
BY LeadProperties, PacingAssumption DEF RingBefore, Lead

LEMMA PacingInvStep == PacingInv /\ [PacingNext]_pacingVars => PacingInv'
<1> SUFFICES ASSUME PacingInv, [PacingNext]_pacingVars PROVE PacingInv'
  OBVIOUS
<1> USE LeadProperties DEF PacingInv, PacingTypeOK, Scheduled
<1>const. Duration \in Nat \ {0} /\ Slack \in Nat /\ Boot \in Nat /\ MaxTime \in Nat
  BY PacingAssumption
<1>1. CASE Enter
  <2>1. CASE deadline = 0
    <3>1. deadline' = now - Lead /\ origin' = now
      BY <1>1, <2>1, Restart DEF Enter, Late, PacingTypeOK
    <3>2. QED
      BY <1>const, <1>1, <2>1, <3>1 DEF Enter
  <2>2. CASE deadline # 0 /\ now > deadline + Slack
    <3>1. deadline' = now - Lead /\ origin' = origin
      BY <1>1, <2>2, Restart DEF Enter, Late
    <3>2. QED
      BY <1>const, <1>1, <2>2, <3>1 DEF Enter
  <2>3. CASE deadline # 0 /\ ~(now > deadline + Slack)
    BY <1>const, <1>1, <2>3 DEF Enter, Late
  <2>4. QED
    BY <2>1, <2>2, <2>3
<1>2. CASE Wake
  BY <1>const, <1>2 DEF Wake
<1>3. CASE Return
  BY <1>const, <1>3 DEF Return
<1>4. CASE Tick
  BY <1>const, <1>4 DEF Tick
<1>5. CASE UNCHANGED pacingVars
  BY <1>5 DEF pacingVars
<1>6. QED
  BY <1>1, <1>2, <1>3, <1>4, <1>5 DEF PacingNext

LEMMA PacingInvHolds == PacingSpec => []PacingInv
BY PacingInvInit, PacingInvStep, PTL DEF PacingSpec

(***************************************************************************)
(* No call of mix sleeps longer than one block plays.                      *)
(***************************************************************************)
THEOREM SleepIsBounded == PacingSpec => []SleepBounded
<1>1. PacingInv => SleepBounded
  BY PacingAssumption DEF PacingInv, PacingTypeOK, Scheduled, SleepBounded
<1>2. QED
  BY <1>1, PacingInvHolds, PTL

(***************************************************************************)
(* The mixer is never granted more than real time plus one ring.           *)
(***************************************************************************)
THEOREM RateIsBounded == PacingSpec => []RateBounded
<1>1. PacingInv => RateBounded
  BY PacingAssumption, LeadProperties DEF PacingInv, PacingTypeOK, Scheduled, RateBounded
<1>2. QED
  BY <1>1, PacingInvHolds, PTL
==============================================================================
