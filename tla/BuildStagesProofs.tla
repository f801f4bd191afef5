-------------------------- MODULE BuildStagesProofs --------------------------
(***************************************************************************)
(* Proofs about BuildStages, for any number of stages, any set of them     *)
(* that needs a new directory, and any number of runs, changes of the      *)
(* inputs and changed outputs and other files.                             *)
(***************************************************************************)
EXTENDS BuildStages, TLAPS

LEMMA ContentsFacts ==
    /\ Nothing \in Contents /\ Partial \in Contents /\ Foreign \in Contents
    /\ Nothing # Partial /\ Nothing # Foreign
    /\ Unrecorded = Nothing
BY DEF Contents, Nothing, Partial, Foreign, Unrecorded

LEMMA MadeFacts ==
    ASSUME NEW v \in Versions, NEW S \in SUBSET Origins
    PROVE  /\ Made(v, S) \in Contents /\ Made(v, S) # Nothing /\ Made(v, S) # Partial
           /\ Made(v, S).kind = "made" /\ Made(v, S).of = v /\ Made(v, S).with = S
BY DEF Contents, Made, Nothing, Partial

(***************************************************************************)
(* The command of a stage that comes after verified stages makes what the  *)
(* inputs make.                                                            *)
(***************************************************************************)
LEMMA ProductMade ==
    ASSUME IInv, pc = "running", NEW kept \in SUBSET (stray \intersect {at})
    PROVE  /\ at \in Stages /\ state[at] = Unrecorded
           /\ Product(at, kept) \in Contents /\ Product(at, kept) # Nothing
           /\ MadeFrom(Product(at, kept), inputs, at)
<1> USE StagesAssumption DEF IInv, Stages
<1> DEFINE Earlier == UNION {outputs[u].with : u \in 1 .. at - 1}
           S == kept \union (stray \intersect 0 .. at - 1) \union Earlier
<1>1. at \in Stages /\ state[at] = Unrecorded /\ (at \in Fresh => at \notin stray)
  BY DEF Behind
<1>2. \A u \in 1 .. at - 1 : u \in Stages /\ u < at /\ MadeFrom(outputs[u], inputs, u)
  <2>1. \A u \in Stages : u < at => MadeFrom(outputs[u], inputs, u)
    BY DEF Behind, Going
  <2>2. \A u \in 1 .. at - 1 : u \in Stages /\ u < at
    BY <1>1
  <2>3. QED
    BY <2>1, <2>2
<1>3. Product(at, kept) = Made(inputs, S)
  BY <1>2 DEF Product, MadeFrom
<1>4. S \subseteq Unseen(at)
  <2>1. kept \subseteq Unseen(at) /\ stray \intersect 0 .. at - 1 \subseteq Unseen(at)
    BY <1>1 DEF TypeOK, Unseen
  <2>2. \A u \in 1 .. at - 1 : outputs[u].with \subseteq Unseen(at)
    <3>1. \A u \in 1 .. at - 1 : Unseen(u) \subseteq Unseen(at)
      BY <1>1 DEF Unseen
    <3>2. QED
      BY <1>2, <3>1 DEF MadeFrom
  <2>3. Earlier \subseteq Unseen(at)
    BY <2>2
  <2>4. QED
    BY <2>1, <2>3
<1>5. S \in SUBSET Origins /\ inputs \in Versions
  BY <1>4 DEF TypeOK, Unseen
<1>6. QED
  <2> HIDE DEF S
  <2>1. QED
    BY <1>1, <1>3, <1>4, <1>5, MadeFacts DEF MadeFrom

LEMMA IInvInit == Init => IInv
<1> SUFFICES ASSUME Init PROVE IInv
  OBVIOUS
<1>1. inputs \in Versions
  BY BoundsAssumption DEF Init, Versions
<1>2. TypeOK
  <2>1. /\ record \in [identity : Nat, stages : [Stages -> Contents]]
        /\ outputs \in [Stages -> Contents] /\ state \in [Stages -> Contents]
        /\ saved \in [Stages -> Nat] /\ begun \in [Stages -> Nat]
    BY ContentsFacts DEF Init
  <2>2. at \in 0 .. N + 1 /\ \A s \in Stages : saved[s] <= runs
    BY StagesAssumption DEF Init
  <2>3. QED
    BY <2>1, <2>2 DEF Init, TypeOK
<1>3. /\ RecordTrue /\ StateTrue /\ RecordCurrent /\ Behind /\ SavedBound
      /\ NothingStray /\ FinishedIdle /\ FinishedIsCoherent
  BY DEF Init, RecordTrue, StateTrue, RecordCurrent, Behind, SavedBound, NothingStray, FinishedIdle,
         FinishedIsCoherent, Going
<1>4. LeftoversPreserved
  BY StagesAssumption DEF Init, LeftoversPreserved, Stages
<1>5. QED
  BY <1>1, <1>2, <1>3, <1>4 DEF IInv

LEMMA IInvStart ==
    ASSUME IInv, \E r \in BOOLEAN : Start(r)
    PROVE  IInv'
<1> USE ContentsFacts, StagesAssumption DEF Start, IInv, Stages, envVars, diskVars, memVars,
                                              strayVars, End, MadeFrom, Unseen
<1>1. TypeOK' /\ inputs' \in Versions
  BY DEF TypeOK
<1>2. RecordTrue' /\ StateTrue' /\ RecordCurrent'
  BY DEF RecordTrue, StateTrue, RecordCurrent, Going
<1>3. Behind'
  BY DEF TypeOK, Behind, StateTrue, RecordTrue, Going
<1>4. SavedBound'
  BY DEF TypeOK, SavedBound, Going
<1>5. NothingStray' /\ FinishedIdle' /\ FinishedIsCoherent'
  BY DEF TypeOK, NothingStray, FinishedIdle, FinishedIsCoherent, RecordCurrent, Behind
<1>6. LeftoversPreserved'
  BY DEF TypeOK, LeftoversPreserved
<1>7. QED
  BY <1>1, <1>2, <1>3, <1>4, <1>5, <1>6 DEF IInv

LEMMA IInvMakeOutput ==
    ASSUME IInv, MakeOutput
    PROVE  IInv'
<1> USE ContentsFacts, StagesAssumption DEF MakeOutput, IInv, Stages, envVars, diskVars, memVars,
                                              strayVars, End, MadeFrom, Unseen
<1>1. TypeOK' /\ inputs' \in Versions
  BY DEF TypeOK
<1>2. RecordTrue' /\ StateTrue' /\ RecordCurrent'
  BY DEF RecordTrue, StateTrue, RecordCurrent, Going
<1>3. Behind'
  BY DEF TypeOK, Behind, StateTrue, RecordTrue, Going
<1>4. SavedBound'
  BY DEF TypeOK, SavedBound, Going
<1>5. NothingStray' /\ FinishedIdle' /\ FinishedIsCoherent'
  BY DEF TypeOK, NothingStray, FinishedIdle, FinishedIsCoherent, RecordCurrent, Behind
<1>6. LeftoversPreserved'
  BY DEF TypeOK, LeftoversPreserved
<1>7. QED
  BY <1>1, <1>2, <1>3, <1>4, <1>5, <1>6 DEF IInv

LEMMA IInvOpenRecord ==
    ASSUME IInv, OpenRecord
    PROVE  IInv'
<1> USE ContentsFacts, StagesAssumption DEF OpenRecord, IInv, Stages, envVars, diskVars, memVars,
                                              strayVars, End, MadeFrom, Unseen
<1>1. TypeOK' /\ inputs' \in Versions
  <2>1. record.stages \in [Stages -> Contents]
    BY DEF TypeOK
  <2>2. state' \in [Stages -> Contents] /\ at' \in 0 .. N + 1
    BY <2>1 DEF TypeOK
  <2>3. QED
    BY <2>2 DEF TypeOK
<1>2. RecordTrue' /\ StateTrue' /\ RecordCurrent'
  <2>1. RecordTrue' /\ StateTrue'
    BY DEF RecordTrue, StateTrue, Going
  <2>2. RecordCurrent'
    <3>1. record = [identity |-> record.identity, stages |-> record.stages]
      BY DEF TypeOK
    <3>2. QED
      BY <3>1 DEF RecordCurrent
  <2>3. QED
    BY <2>1, <2>2
<1>3. Behind'
  <2>1. at' \in Stages => \A u \in Stages : ~(u < at' /\ at' = 1)
    OBVIOUS
  <2>2. QED
    BY <2>1 DEF Behind, Going
<1>4. SavedBound'
  BY DEF TypeOK, SavedBound, Going
<1>5. NothingStray' /\ FinishedIdle' /\ FinishedIsCoherent'
  BY DEF TypeOK, NothingStray, FinishedIdle, FinishedIsCoherent, RecordCurrent, Behind
<1>6. LeftoversPreserved'
  BY DEF TypeOK, LeftoversPreserved
<1>7. QED
  BY <1>1, <1>2, <1>3, <1>4, <1>5, <1>6 DEF IInv

LEMMA IInvVerify ==
    ASSUME IInv, Verify
    PROVE  IInv'
<1> USE ContentsFacts, StagesAssumption DEF Verify, IInv, Stages, envVars, diskVars, memVars,
                                              strayVars, End, MadeFrom, Unseen
<1>1. TypeOK' /\ inputs' \in Versions
  <2>1. at' \in 0 .. N + 1 /\ pc' \in {"stage", "idle"} /\ outcome' \in {outcome, "refused"}
    BY DEF TypeOK
  <2>2. QED
    BY <2>1 DEF TypeOK
<1>2. RecordTrue' /\ StateTrue' /\ RecordCurrent'
  BY DEF RecordTrue, StateTrue, RecordCurrent, Going
<1>3. Behind'
  <2>1. at \in Stages /\ state[at] # Unrecorded
        /\ UNCHANGED <<inputs, state, outputs, stray, everStray>>
    OBVIOUS
  <2>2. CASE outputs[at] = state[at]
    <3>1. at' = at + 1 /\ pc' = "stage"
      BY <2>2
    <3>2. \A u \in Stages : u < at + 1 => (MadeFrom(state[u], inputs, u) /\ outputs[u] = state[u])
      BY <2>1, <2>2, SMTT(20) DEF TypeOK, Behind, StateTrue, Going
    <3>3. QED
      BY <2>1, <3>1, <3>2 DEF TypeOK, Behind, Going
  <2>3. CASE outputs[at] # state[at]
    BY <2>3 DEF Behind, Going
  <2>4. QED
    BY <2>2, <2>3
<1>4. SavedBound'
  BY DEF TypeOK, SavedBound, Going
<1>5. NothingStray' /\ FinishedIdle' /\ FinishedIsCoherent'
  BY DEF TypeOK, NothingStray, FinishedIdle, FinishedIsCoherent, RecordCurrent, Behind
<1>6. LeftoversPreserved'
  BY DEF TypeOK, LeftoversPreserved
<1>7. QED
  BY <1>1, <1>2, <1>3, <1>4, <1>5, <1>6 DEF IInv

LEMMA IInvSetAside ==
    ASSUME IInv, SetAside
    PROVE  IInv'
<1> USE ContentsFacts, StagesAssumption DEF SetAside, IInv, Stages, envVars, diskVars, memVars,
                                              strayVars, End, MadeFrom, Unseen
<1>1. TypeOK' /\ inputs' \in Versions
  <2>1. outputs' \in [Stages -> Contents] /\ saved' \in [Stages -> Nat]
    BY DEF TypeOK
  <2>2. \A s \in Stages : saved'[s] <= runs
    BY DEF TypeOK, SavedBound
  <2>3. QED
    BY <2>1, <2>2 DEF TypeOK
<1>2. RecordTrue' /\ StateTrue' /\ RecordCurrent'
  BY DEF RecordTrue, StateTrue, RecordCurrent, Going
<1>3. Behind'
  <2>1. at \in Stages /\ pc = "stage" /\ pc' = "stage" /\ UNCHANGED <<inputs, state, at, everStray>>
        /\ outputs' = [outputs EXCEPT ![at] = Nothing]
    OBVIOUS
  <2>2. \A u \in Stages : u < at => (MadeFrom(state[u], inputs, u) /\ outputs'[u] = state[u])
    BY <2>1 DEF TypeOK, Behind, Going
  <2>3. QED
    BY <2>1, <2>2 DEF TypeOK, Behind, Going
<1>4. SavedBound'
  BY DEF TypeOK, SavedBound, Going
<1>5. NothingStray' /\ FinishedIdle' /\ FinishedIsCoherent'
  BY DEF TypeOK, NothingStray, FinishedIdle, FinishedIsCoherent, RecordCurrent, Behind
<1>6. LeftoversPreserved'
  BY DEF TypeOK, LeftoversPreserved
<1>7. QED
  BY <1>1, <1>2, <1>3, <1>4, <1>5, <1>6 DEF IInv

LEMMA IInvRun ==
    ASSUME IInv, Run
    PROVE  IInv'
<1> USE ContentsFacts, StagesAssumption DEF Run, FindsStray, Origins, IInv, Stages, envVars, diskVars, memVars,
                                              strayVars, End, MadeFrom, Unseen
<1>1. TypeOK' /\ inputs' \in Versions
  BY DEF TypeOK
<1>2. RecordTrue' /\ StateTrue' /\ RecordCurrent'
  BY DEF RecordTrue, StateTrue, RecordCurrent, Going
<1>3. Behind'
  <2>1. /\ at \in Stages /\ pc = "stage" /\ pc' = "running" /\ state[at] = Unrecorded
        /\ everStray \subseteq everStray'
        /\ UNCHANGED <<inputs, state, outputs, at>>
    OBVIOUS
  <2>2. \A u \in Stages : u < at => (MadeFrom(state[u], inputs, u)' /\ outputs[u] = state[u])
    BY <2>1 DEF Behind, Going
  <2>3. at \in Fresh => outputs[at] = Nothing /\ at \notin stray'
    BY DEF NothingStray
  <2>4. QED
    BY <2>1, <2>2, <2>3 DEF Behind, Going
<1>4. SavedBound'
  BY DEF TypeOK, SavedBound, Going
<1>5. NothingStray' /\ FinishedIdle' /\ FinishedIsCoherent'
  BY DEF TypeOK, NothingStray, FinishedIdle, FinishedIsCoherent, RecordCurrent, Behind
<1>6. LeftoversPreserved'
  BY DEF TypeOK, LeftoversPreserved
<1>7. QED
  BY <1>1, <1>2, <1>3, <1>4, <1>5, <1>6 DEF IInv

LEMMA IInvWriteSome ==
    ASSUME IInv, WriteSome
    PROVE  IInv'
<1> USE ContentsFacts, StagesAssumption DEF WriteSome, IInv, Stages, envVars, diskVars, memVars,
                                              strayVars, End, MadeFrom, Unseen
<1>1. TypeOK' /\ inputs' \in Versions
  <2>1. outputs' \in [Stages -> Contents]
    BY DEF TypeOK
  <2>2. begun' \in [Stages -> Nat]
    <3>1. begun \in [Stages -> Nat] /\ begun' = [begun EXCEPT ![at] = begun[at] + 1]
      BY DEF TypeOK
    <3>2. at \in Stages
      BY DEF Behind
    <3>3. QED
      BY <3>1, <3>2
  <2>3. QED
    BY <2>1, <2>2 DEF TypeOK
<1>2. RecordTrue' /\ StateTrue' /\ RecordCurrent'
  BY DEF RecordTrue, StateTrue, RecordCurrent, Going
<1>3. Behind'
  <2>1. /\ at \in Stages /\ pc = "running" /\ outputs' = [outputs EXCEPT ![at] = Partial]
        /\ UNCHANGED <<inputs, pc, state, at, stray, everStray>>
    BY DEF Behind
  <2>2. \A u \in Stages : u < at => (MadeFrom(state[u], inputs, u) /\ outputs'[u] = state[u])
    BY <2>1 DEF TypeOK, Behind, Going
  <2>3. at \in Fresh => outputs'[at] = Partial /\ at \notin stray
    BY <2>1 DEF TypeOK, Behind
  <2>4. QED
    BY <2>1, <2>2, <2>3 DEF TypeOK, Behind, Going
<1>4. SavedBound'
  BY DEF TypeOK, SavedBound, Going
<1>5. NothingStray' /\ FinishedIdle' /\ FinishedIsCoherent'
  BY DEF TypeOK, NothingStray, FinishedIdle, FinishedIsCoherent, RecordCurrent, Behind
<1>6. LeftoversPreserved'
  <2>1. at \in Stages /\ (at \in Fresh => outputs[at] = Nothing)
    BY DEF Behind
  <2>2. ASSUME NEW s \in Fresh
        PROVE  begun'[s] = saved'[s] + (IF outputs'[s] = Nothing THEN 0 ELSE 1)
    <3>1. s \in Stages /\ begun[s] = saved[s] + (IF outputs[s] = Nothing THEN 0 ELSE 1)
      BY DEF LeftoversPreserved
    <3>2. CASE s = at
      <4>1. begun[s] = saved[s] /\ saved[s] \in Nat
        BY <2>1, <3>1, <3>2 DEF TypeOK
      <4>2. begun'[s] = begun[s] + 1 /\ outputs'[s] = Partial
        BY <3>1, <3>2 DEF TypeOK
      <4>3. QED
        BY <4>1, <4>2
    <3>3. CASE s # at
      BY <3>1, <3>3 DEF TypeOK
    <3>4. QED
      BY <3>2, <3>3
  <2>3. QED
    BY <2>2 DEF LeftoversPreserved
<1>7. QED
  BY <1>1, <1>2, <1>3, <1>4, <1>5, <1>6 DEF IInv

LEMMA IInvRunFails ==
    ASSUME IInv, RunFails
    PROVE  IInv'
<1> USE ContentsFacts, StagesAssumption DEF RunFails, IInv, Stages, envVars, diskVars, memVars,
                                              strayVars, End, MadeFrom, Unseen
<1>1. TypeOK' /\ inputs' \in Versions
  BY DEF TypeOK
<1>2. RecordTrue' /\ StateTrue' /\ RecordCurrent'
  BY DEF RecordTrue, StateTrue, RecordCurrent, Going
<1>3. Behind'
  BY DEF TypeOK, Behind, StateTrue, RecordTrue, Going
<1>4. SavedBound'
  BY DEF TypeOK, SavedBound, Going
<1>5. NothingStray' /\ FinishedIdle' /\ FinishedIsCoherent'
  BY DEF TypeOK, NothingStray, FinishedIdle, FinishedIsCoherent, RecordCurrent, Behind
<1>6. LeftoversPreserved'
  BY DEF TypeOK, LeftoversPreserved
<1>7. QED
  BY <1>1, <1>2, <1>3, <1>4, <1>5, <1>6 DEF IInv

LEMMA IInvRunDone ==
    ASSUME IInv, RunDone
    PROVE  IInv'
<1> USE ContentsFacts, StagesAssumption DEF IInv, Stages
<1>1. PICK kept \in SUBSET (stray \intersect {at}) :
        /\ outputs' = [outputs EXCEPT ![at] = Product(at, kept)]
        /\ state' = [state EXCEPT ![at] = Product(at, kept)]
        /\ stray' = (stray \ {at}) \union kept
  BY DEF RunDone
<1> DEFINE c == Product(at, kept)
<1>2. /\ at \in Stages /\ state[at] = Unrecorded /\ c \in Contents /\ c # Nothing
      /\ MadeFrom(c, inputs, at)
      /\ outputs[at] = Partial /\ pc = "running" /\ pc' = "record"
      /\ outputs' = [outputs EXCEPT ![at] = c] /\ state' = [state EXCEPT ![at] = c]
      /\ stray' \subseteq stray /\ stray' \ {at} = stray \ {at}
      /\ UNCHANGED <<envVars, diskVars, resume, at, saved, outcome, begun, everStray>>
  BY <1>1, ProductMade DEF RunDone
<1> HIDE DEF c
<1> USE DEF envVars, diskVars, MadeFrom, Unseen
<1>3. TypeOK' /\ inputs' \in Versions
  <2>1. outputs' \in [Stages -> Contents] /\ state' \in [Stages -> Contents]
    BY <1>2 DEF TypeOK
  <2>2. QED
    BY <1>2, <2>1 DEF TypeOK
<1>4. RecordTrue' /\ StateTrue' /\ RecordCurrent'
  <2>1. RecordTrue' /\ RecordCurrent'
    BY <1>2 DEF RecordTrue, RecordCurrent
  <2>2. StateTrue'
    BY <1>2 DEF TypeOK, StateTrue, Going
  <2>3. QED
    BY <2>1, <2>2
<1>5. Behind'
  <2>1. \A u \in Stages : u < at \/ u = at =>
            (MadeFrom(state'[u], inputs, u) /\ outputs'[u] = state'[u])
    BY <1>2 DEF TypeOK, Behind, Going
  <2>2. QED
    BY <1>2, <2>1 DEF TypeOK, Behind, Going
<1>6. SavedBound'
  BY <1>2 DEF TypeOK, SavedBound, Going
<1>7. NothingStray' /\ FinishedIdle' /\ FinishedIsCoherent'
  BY <1>2 DEF TypeOK, NothingStray, FinishedIdle, FinishedIsCoherent
<1>8. LeftoversPreserved'
  <2>1. \A s \in Stages : outputs'[s] = Nothing <=> outputs[s] = Nothing
    BY <1>2, ContentsFacts DEF TypeOK
  <2>2. QED
    BY <1>2, <2>1 DEF LeftoversPreserved
<1>9. QED
  BY <1>3, <1>4, <1>5, <1>6, <1>7, <1>8 DEF IInv

LEMMA IInvTruncateRecord ==
    ASSUME IInv, TruncateRecord
    PROVE  IInv'
<1> USE ContentsFacts, StagesAssumption DEF TruncateRecord, IInv, Stages, envVars, diskVars, memVars,
                                              strayVars, End, MadeFrom, Unseen
<1>1. TypeOK' /\ inputs' \in Versions
  BY DEF TypeOK
<1>2. RecordTrue' /\ StateTrue' /\ RecordCurrent'
  BY DEF RecordTrue, StateTrue, RecordCurrent, Going
<1>3. Behind'
  BY DEF TypeOK, Behind, StateTrue, RecordTrue, Going
<1>4. SavedBound'
  BY DEF TypeOK, SavedBound, Going
<1>5. NothingStray' /\ FinishedIdle' /\ FinishedIsCoherent'
  BY DEF TypeOK, NothingStray, FinishedIdle, FinishedIsCoherent, RecordCurrent, Behind
<1>6. LeftoversPreserved'
  BY DEF TypeOK, LeftoversPreserved
<1>7. QED
  BY <1>1, <1>2, <1>3, <1>4, <1>5, <1>6 DEF IInv

LEMMA IInvWriteRecord ==
    ASSUME IInv, WriteRecord
    PROVE  IInv'
<1> USE ContentsFacts, StagesAssumption DEF WriteRecord, IInv, Stages, envVars, diskVars, memVars,
                                              strayVars, End, MadeFrom, Unseen
<1>1. TypeOK' /\ inputs' \in Versions
  <2>1. record' \in [identity : Nat, stages : [Stages -> Contents]]
    BY DEF TypeOK
  <2>2. at' \in 0 .. N + 1
    BY DEF TypeOK, Behind
  <2>3. QED
    BY <2>1, <2>2 DEF TypeOK
<1>2. RecordTrue' /\ StateTrue' /\ RecordCurrent'
  BY DEF RecordTrue, StateTrue, RecordCurrent, Going
<1>3. Behind'
  BY DEF TypeOK, Behind, StateTrue, RecordTrue, Going
<1>4. SavedBound'
  BY DEF TypeOK, SavedBound, Going
<1>5. NothingStray' /\ FinishedIdle' /\ FinishedIsCoherent'
  BY DEF TypeOK, NothingStray, FinishedIdle, FinishedIsCoherent, RecordCurrent, Behind
<1>6. LeftoversPreserved'
  BY DEF TypeOK, LeftoversPreserved
<1>7. QED
  BY <1>1, <1>2, <1>3, <1>4, <1>5, <1>6 DEF IInv

LEMMA IInvFinish ==
    ASSUME IInv, Finish
    PROVE  IInv'
<1> USE ContentsFacts, StagesAssumption DEF Finish, IInv, Stages, envVars, diskVars, memVars,
                                              strayVars, End, MadeFrom, Unseen
<1>1. TypeOK' /\ inputs' \in Versions
  BY DEF TypeOK
<1>2. RecordTrue' /\ StateTrue' /\ RecordCurrent'
  BY DEF RecordTrue, StateTrue, RecordCurrent, Going
<1>3. Behind'
  BY DEF TypeOK, Behind, StateTrue, RecordTrue, Going
<1>4. SavedBound'
  BY DEF TypeOK, SavedBound, Going
<1>5. NothingStray' /\ FinishedIdle' /\ FinishedIsCoherent'
  <2>1. file = "whole" /\ record.identity = inputs /\ record.stages = state
    BY DEF RecordCurrent
  <2>2. \A u \in Stages : MadeFrom(state[u], inputs, u) /\ outputs[u] = state[u]
    BY DEF Behind, Going
  <2>3. QED
    BY <2>1, <2>2 DEF NothingStray, FinishedIdle, FinishedIsCoherent
<1>6. LeftoversPreserved'
  BY DEF TypeOK, LeftoversPreserved
<1>7. QED
  BY <1>1, <1>2, <1>3, <1>4, <1>5, <1>6 DEF IInv

LEMMA IInvInterrupt ==
    ASSUME IInv, Interrupt
    PROVE  IInv'
<1> USE ContentsFacts, StagesAssumption DEF Interrupt, IInv, Stages, envVars, diskVars, memVars,
                                              strayVars, End, MadeFrom, Unseen
<1>1. TypeOK' /\ inputs' \in Versions
  BY DEF TypeOK
<1>2. RecordTrue' /\ StateTrue' /\ RecordCurrent'
  BY DEF RecordTrue, StateTrue, RecordCurrent, Going
<1>3. Behind'
  BY DEF TypeOK, Behind, StateTrue, RecordTrue, Going
<1>4. SavedBound'
  BY DEF TypeOK, SavedBound, Going
<1>5. NothingStray' /\ FinishedIdle' /\ FinishedIsCoherent'
  BY DEF TypeOK, NothingStray, FinishedIdle, FinishedIsCoherent, RecordCurrent, Behind
<1>6. LeftoversPreserved'
  BY DEF TypeOK, LeftoversPreserved
<1>7. QED
  BY <1>1, <1>2, <1>3, <1>4, <1>5, <1>6 DEF IInv

LEMMA IInvChangeInputs ==
    ASSUME IInv, ChangeInputs
    PROVE  IInv'
<1> USE ContentsFacts, StagesAssumption DEF ChangeInputs, IInv, Stages, envVars, diskVars, memVars,
                                              strayVars, End, MadeFrom, Unseen
<1>1. TypeOK' /\ inputs' \in Versions
  <2>1. inputs' \in Versions
    BY BoundsAssumption DEF Versions, TypeOK
  <2>2. QED
    BY <2>1 DEF TypeOK, Versions
<1>2. RecordTrue' /\ StateTrue' /\ RecordCurrent'
  BY DEF RecordTrue, StateTrue, RecordCurrent, Going
<1>3. Behind'
  BY DEF TypeOK, Behind, StateTrue, RecordTrue, Going
<1>4. SavedBound'
  BY DEF TypeOK, SavedBound, Going
<1>5. NothingStray' /\ FinishedIdle' /\ FinishedIsCoherent'
  BY DEF TypeOK, NothingStray, FinishedIdle, FinishedIsCoherent, RecordCurrent, Behind
<1>6. LeftoversPreserved'
  BY DEF TypeOK, LeftoversPreserved
<1>7. QED
  BY <1>1, <1>2, <1>3, <1>4, <1>5, <1>6 DEF IInv

LEMMA IInvTamper ==
    ASSUME IInv, \E s \in Stages : Tamper(s)
    PROVE  IInv'
<1> USE ContentsFacts, StagesAssumption DEF Tamper, IInv, Stages, envVars, diskVars, memVars,
                                              strayVars, End, MadeFrom, Unseen
<1>1. TypeOK' /\ inputs' \in Versions
  BY DEF TypeOK
<1>2. RecordTrue' /\ StateTrue' /\ RecordCurrent'
  BY DEF RecordTrue, StateTrue, RecordCurrent, Going
<1>3. Behind'
  BY DEF TypeOK, Behind, StateTrue, RecordTrue, Going
<1>4. SavedBound'
  BY DEF TypeOK, SavedBound, Going
<1>5. NothingStray' /\ FinishedIdle' /\ FinishedIsCoherent'
  BY DEF TypeOK, NothingStray, FinishedIdle, FinishedIsCoherent, RecordCurrent, Behind
<1>6. LeftoversPreserved'
  BY DEF TypeOK, LeftoversPreserved
<1>7. QED
  BY <1>1, <1>2, <1>3, <1>4, <1>5, <1>6 DEF IInv

LEMMA IInvChangeUnrecorded ==
    ASSUME IInv, \E o \in Origins : ChangeUnrecorded(o)
    PROVE  IInv'
<1> USE ContentsFacts, StagesAssumption DEF ChangeUnrecorded, FindsStray, IInv, Stages, envVars, diskVars, memVars,
                                              strayVars, End, MadeFrom, Unseen
<1>1. TypeOK' /\ inputs' \in Versions
  BY DEF TypeOK
<1>2. RecordTrue' /\ StateTrue' /\ RecordCurrent'
  BY DEF RecordTrue, StateTrue, RecordCurrent, Going
<1>3. Behind'
  BY DEF TypeOK, Behind, StateTrue, RecordTrue, Going
<1>4. SavedBound'
  BY DEF TypeOK, SavedBound, Going
<1>5. NothingStray' /\ FinishedIdle' /\ FinishedIsCoherent'
  BY DEF TypeOK, NothingStray, FinishedIdle, FinishedIsCoherent, RecordCurrent, Behind
<1>6. LeftoversPreserved'
  BY DEF TypeOK, LeftoversPreserved
<1>7. QED
  BY <1>1, <1>2, <1>3, <1>4, <1>5, <1>6 DEF IInv

LEMMA IInvStep == IInv /\ [Next]_vars => IInv'
<1> SUFFICES ASSUME IInv, [Next]_vars PROVE IInv'
  OBVIOUS
<1>1. CASE UNCHANGED vars
  BY <1>1 DEF vars, envVars, diskVars, memVars, strayVars, IInv, TypeOK, RecordTrue, StateTrue,
              RecordCurrent, Behind, SavedBound, FinishedIdle, FinishedIsCoherent,
              LeftoversPreserved, Going, NothingStray, MadeFrom, Unseen
<1>2. CASE (\E r \in BOOLEAN : Start(r)) \/ Interrupt \/ ChangeInputs
           \/ (\E s \in Stages : Tamper(s)) \/ (\E o \in Origins : ChangeUnrecorded(o))
  BY <1>2, IInvStart, IInvInterrupt, IInvChangeInputs, IInvTamper, IInvChangeUnrecorded
<1>3. CASE MakeOutput \/ OpenRecord
  BY <1>3, IInvMakeOutput, IInvOpenRecord
<1>4. CASE Verify \/ SetAside \/ Run \/ WriteSome \/ RunFails
  BY <1>4, IInvVerify, IInvSetAside, IInvRun, IInvWriteSome, IInvRunFails
<1>5. CASE RunDone \/ TruncateRecord \/ WriteRecord \/ Finish
  BY <1>5, IInvRunDone, IInvTruncateRecord, IInvWriteRecord, IInvFinish
<1>6. QED
  BY <1>1, <1>2, <1>3, <1>4, <1>5 DEF Next, Build, Stage

LEMMA IInvHolds == Spec => []IInv
BY IInvInit, IInvStep, PTL DEF Spec

(***************************************************************************)
(* The variables have their types, and a run moves a stage's leftovers     *)
(* away at most once.                                                      *)
(***************************************************************************)
THEOREM TypeCorrect == Spec => []TypeOK
<1>1. IInv => TypeOK
  BY DEF IInv
<1>2. QED
  BY <1>1, IInvHolds, PTL

(***************************************************************************)
(* A finished build holds in each stage the recorded outputs its command   *)
(* made from the present inputs, over any number of runs; only files that  *)
(* no record names may have entered it unseen, from the stages before it.  *)
(***************************************************************************)
THEOREM FinishCoherent == Spec => []FinishedIsCoherent
<1>1. IInv => FinishedIsCoherent
  BY DEF IInv
<1>2. QED
  BY <1>1, IInvHolds, PTL

(***************************************************************************)
(* What the record says of a stage is what the inputs of the record made.  *)
(***************************************************************************)
THEOREM RecordIsTrue == Spec => []RecordTrue
<1>1. IInv => RecordTrue
  BY DEF IInv
<1>2. QED
  BY <1>1, IInvHolds, PTL

(***************************************************************************)
(* The leftovers of stages that need a new directory are never lost.       *)
(***************************************************************************)
THEOREM LeftoversKept == Spec => []LeftoversPreserved
<1>1. IInv => LeftoversPreserved
  BY DEF IInv
<1>2. QED
  BY <1>1, IInvHolds, PTL

(***************************************************************************)
(* No step of a run touches the outputs of a recorded stage.               *)
(***************************************************************************)
THEOREM CompletedStays == Spec => CompletedUntouched
<1>1. ASSUME IInv, [Next]_vars, pc # "idle", NEW s \in Stages, Recorded(s)
      PROVE  outputs'[s] = outputs[s] /\ (s \in stray' <=> s \in stray)
  <2>1. CASE SetAside \/ Run \/ WriteSome \/ RunDone
    <3>1. s # at
      BY <1>1, <2>1, ContentsFacts
         DEF IInv, RecordCurrent, Behind, Recorded, SetAside, Run, WriteSome, RunDone
    <3>2. \/ outputs' = outputs
          \/ \E c : outputs' = [outputs EXCEPT ![at] = c]
      BY <2>1 DEF SetAside, Run, WriteSome, RunDone
    <3>3. stray' \ {at} = stray \ {at}
      BY <2>1 DEF SetAside, Run, WriteSome, RunDone, FindsStray, strayVars
    <3>4. QED
      BY <1>1, <3>1, <3>2, <3>3 DEF IInv, TypeOK
  <2>2. CASE ~(SetAside \/ Run \/ WriteSome \/ RunDone)
    BY <1>1, <2>2
       DEF Next, Build, Stage, Start, MakeOutput, OpenRecord, Verify, RunFails,
           TruncateRecord, WriteRecord, Finish, Interrupt, ChangeInputs, Tamper,
           ChangeUnrecorded, strayVars, vars
  <2>3. QED
    BY <2>1, <2>2
<1>2. IInv /\ [Next]_vars =>
        [pc # "idle" => \A s \in Stages : Recorded(s) =>
            outputs'[s] = outputs[s] /\ (s \in stray' <=> s \in stray)]_vars
  BY <1>1
<1>3. QED
  BY <1>2, IInvHolds, PTL DEF Spec, CompletedUntouched
==============================================================================
