------------------------- MODULE ProfileWriterProofs -------------------------
(***************************************************************************)
(* Proofs about ProfileWriter and ProfileSummary, for any set of threads,  *)
(* any capacity, any batch limit and any number of records.                *)
(***************************************************************************)
EXTENDS ProfileSummary, FiniteSetTheorems, SequenceTheorems, WellFoundedInduction, TLAPS

(***************************************************************************)
(* The three parts of the accepted records under the steps of the writer.  *)
(***************************************************************************)
LEMMA Associative == \A s, t, u \in Seq(Nat) : (s \o t) \o u = s \o (t \o u)
<1> DEFINE S == Nat
<1> HIDE DEF S
<1>1. \A s, t, u \in Seq(S) : (s \o t) \o u = s \o (t \o u)
  <2> TAKE s, t, u \in Seq(S)
  <2>1. QED
    BY ConcatAssociative
<1>2. QED
  BY <1>1 DEF S

LEMMA AppendToLast ==
    ASSUME NEW w \in Seq(Nat), NEW b \in Seq(Nat), NEW q \in Seq(Nat), NEW r \in Nat
    PROVE  Append(w \o b \o q, r) = w \o b \o Append(q, r)
<1>1. w \o b \in Seq(Nat) /\ w \o b \o q \in Seq(Nat) /\ <<r>> \in Seq(Nat)
  OBVIOUS
<1>2. (w \o b \o q) \o <<r>> = (w \o b) \o (q \o <<r>>)
  BY <1>1, Associative
<1>3. QED
  BY <1>1, <1>2, AppendIsConcat

LEMMA OrderKept ==
    ASSUME written \in Seq(Nat), batch \in Seq(Nat), queue \in Seq(Nat), NEW r \in Nat
    PROVE  Append(written \o batch \o queue, r) = written \o batch \o Append(queue, r)
BY AppendToLast

LEMMA HeadMoves ==
    ASSUME NEW w \in Seq(Nat), NEW b \in Seq(Nat), NEW q \in Seq(Nat), q # <<>>
    PROVE  /\ Head(q) \in Nat /\ Tail(q) \in Seq(Nat) /\ Len(Tail(q)) = Len(q) - 1
           /\ b \o q = Append(b, Head(q)) \o Tail(q)
           /\ w \o b \o q = w \o Append(b, Head(q)) \o Tail(q)
<1>1. /\ Head(q) \in Nat /\ Tail(q) \in Seq(Nat) /\ Len(Tail(q)) = Len(q) - 1
      /\ q = <<Head(q)>> \o Tail(q) /\ <<Head(q)>> \in Seq(Nat)
  BY HeadTailProperties, ConcatProperties, SeqEqual
<1>2. b \o (<<Head(q)>> \o Tail(q)) = (b \o <<Head(q)>>) \o Tail(q)
  BY <1>1, Associative
<1>3. Append(b, Head(q)) \in Seq(Nat) /\ Append(b, Head(q)) = b \o <<Head(q)>>
  BY <1>1, AppendIsConcat
<1>4. w \o (b \o q) = (w \o b) \o q
  BY Associative
<1>5. w \o (Append(b, Head(q)) \o Tail(q)) = (w \o Append(b, Head(q))) \o Tail(q)
  BY <1>1, <1>3, Associative
<1>6. QED
  BY <1>1, <1>2, <1>3, <1>4, <1>5

LEMMA EmptySecond ==
    ASSUME NEW w \in Seq(Nat), NEW q \in Seq(Nat)
    PROVE  w \o <<>> \o q = w \o q /\ w \o <<>> = w /\ <<>> \o q = q
OBVIOUS

(***************************************************************************)
(* The inductive invariant holds.                                          *)
(***************************************************************************)
LEMMA IInvInit == Init => IInv
<1> SUFFICES ASSUME Init PROVE IInv
  OBVIOUS
<1> USE DEF Init
<1>1. TypeOK
  <2>1. emitting \in [Threads -> Nat] /\ Len(queue) = 0 /\ Len(batch) = 0
    OBVIOUS
  <2>2. /\ queue \in Seq(Nat) /\ batch \in Seq(Nat)
        /\ written \in Seq(Nat) /\ accepted \in Seq(Nat)
    OBVIOUS
  <2>3. Len(queue) <= Capacity /\ Len(batch) <= Limit
    BY <2>1, CapacityAssumption
  <2>4. QED
    BY <2>1, <2>2, <2>3 DEF TypeOK
<1>2. BatchPhases /\ Numbered
  BY BoundAssumption DEF BatchPhases, Numbered
<1>3. InOrder
  BY DEF InOrder
<1>4. QED
  BY <1>1, <1>2, <1>3 DEF IInv

LEMMA IInvEmitAdd ==
    ASSUME IInv, NEW t \in Threads, EmitAdd(t)
    PROVE  IInv'
<1> USE CapacityAssumption, BoundAssumption
<1>1. CASE ~completed /\ Len(queue) < Capacity
  <2>1. /\ queue' = Append(queue, emitting[t]) /\ accepted' = Append(accepted, emitting[t])
        /\ emitting' = [emitting EXCEPT ![t] = 0]
        /\ UNCHANGED <<completed, writerVars, countVars, stopped, unload>>
    BY <1>1 DEF EmitAdd, IInv, TypeOK
  <2>2. emitting[t] \in Nat
    BY DEF IInv, TypeOK
  <2>3. TypeOK'
    BY <1>1, <2>1, <2>2 DEF IInv, TypeOK, writerVars, countVars
  <2>4. BatchPhases' /\ Numbered'
    BY <1>1, <2>1, <2>2 DEF IInv, TypeOK, BatchPhases, Numbered, IsCompleted, writerVars, countVars
  <2>5. InOrder'
    <3>1. /\ written \in Seq(Nat) /\ batch \in Seq(Nat) /\ queue \in Seq(Nat)
          /\ accepted = written \o batch \o queue
      BY DEF IInv, TypeOK, InOrder
    <3>2. \A r \in Nat : Append(written \o batch \o queue, r)
                          = written \o batch \o Append(queue, r)
      BY <3>1, OrderKept
    <3>3. accepted' = written \o batch \o queue'
      BY <2>1, <2>2, <3>1, <3>2
    <3>4. QED
      BY <2>1, <3>3 DEF InOrder, writerVars
  <2>6. QED
    BY <2>3, <2>4, <2>5 DEF IInv
<1>2. CASE ~(~completed /\ Len(queue) < Capacity)
  <2>1. /\ UNCHANGED <<queueVars, writerVars, emitted, stopped, unload>>
        /\ emitting' = [emitting EXCEPT ![t] = 0]
        /\ dropped' \in Nat /\ refused' \in Nat
    BY <1>2 DEF EmitAdd, IInv, TypeOK, queueVars, countVars
  <2>2. TypeOK'
    BY <2>1 DEF IInv, TypeOK, queueVars, writerVars
  <2>3. BatchPhases' /\ Numbered' /\ InOrder'
    BY <2>1 DEF IInv, TypeOK, BatchPhases, Numbered, InOrder, IsCompleted, queueVars, writerVars
  <2>4. QED
    BY <2>2, <2>3 DEF IInv
<1>3. QED
  BY <1>1, <1>2

LEMMA IInvEmit ==
    ASSUME IInv,
           \/ \E t \in Threads : EmitEnter(t)
           \/ UnloadEnter
    PROVE  IInv'
<1>1. PICK t \in Threads : /\ emitting' = [emitting EXCEPT ![t] = emitted + 1]
                           /\ emitted' = emitted + 1
                           /\ UNCHANGED <<queueVars, writerVars, dropped, refused, stopped>>
                           /\ \/ emitted < MaxEmits /\ unload' = unload
                              \/ unload = "no" /\ unload' = "stop"
  BY ThreadsAssumption DEF EmitEnter, UnloadEnter
<1>2. TypeOK'
  BY <1>1 DEF IInv, TypeOK, queueVars, writerVars
<1>3. Numbered'
  BY <1>1, BoundAssumption DEF IInv, TypeOK, Numbered
<1>4. BatchPhases' /\ InOrder'
  BY <1>1 DEF IInv, BatchPhases, InOrder, IsCompleted, queueVars, writerVars
<1>5. QED
  BY <1>2, <1>3, <1>4 DEF IInv

LEMMA IInvTake ==
    ASSUME IInv, TakeFirst \/ FillMore
    PROVE  IInv'
<1>1. /\ queue # <<>> /\ queue' = Tail(queue) /\ batch' = Append(batch, Head(queue))
      /\ writer' = "fill" /\ Len(batch) < Limit
      /\ UNCHANGED <<emitting, completed, accepted, written, countVars, stopped, unload>>
  <2>1. CASE TakeFirst
    <3>1. batch = <<>> /\ batch' = <<Head(queue)>>
      BY <2>1 DEF TakeFirst, IInv, BatchPhases
    <3>2. batch' = Append(batch, Head(queue)) /\ Len(batch) < Limit
      BY <3>1, CapacityAssumption
    <3>3. QED
      BY <2>1, <3>2 DEF TakeFirst
  <2>2. QED
    BY <2>1 DEF FillMore
<1>2. /\ queue \in Seq(Nat) /\ batch \in Seq(Nat) /\ written \in Seq(Nat)
      /\ Len(queue) <= Capacity
  BY DEF IInv, TypeOK
<1>3. /\ Head(queue) \in Nat /\ Tail(queue) \in Seq(Nat) /\ Len(Tail(queue)) = Len(queue) - 1
      /\ written \o batch \o queue = written \o Append(batch, Head(queue)) \o Tail(queue)
  <2>1. queue # <<>>
    BY <1>1
  <2>2. QED
    BY <1>2, <2>1, HeadMoves
<1>4. /\ Append(batch, Head(queue)) \in Seq(Nat) /\ Append(batch, Head(queue)) # <<>>
      /\ Len(Append(batch, Head(queue))) = Len(batch) + 1
  BY <1>2, <1>3, AppendProperties
<1>5. TypeOK'
  BY <1>1, <1>2, <1>3, <1>4, CapacityAssumption DEF IInv, TypeOK, countVars
<1>6. BatchPhases' /\ Numbered' /\ InOrder'
  BY <1>1, <1>3, <1>4 DEF IInv, BatchPhases, Numbered, InOrder, countVars
<1>7. QED
  BY <1>5, <1>6 DEF IInv

LEMMA IInvWrite ==
    ASSUME IInv, Write
    PROVE  IInv'
<1>1. /\ written' = written \o batch /\ batch' = <<>> /\ writer' = "loop"
      /\ UNCHANGED <<emitting, queueVars, countVars, stopped, unload>>
  BY DEF Write
<1>2. written \in Seq(Nat) /\ batch \in Seq(Nat) /\ queue \in Seq(Nat)
  BY DEF IInv, TypeOK
<1>3. written \o batch \in Seq(Nat)
  BY <1>2
<1>4. TypeOK'
  BY <1>1, <1>3, CapacityAssumption DEF IInv, TypeOK, queueVars, countVars
<1>5. InOrder'
  <2>1. (written \o batch) \o <<>> \o queue = written \o batch \o queue
    BY <1>2, <1>3, EmptySecond
  <2>2. QED
    BY <1>1, <2>1 DEF IInv, InOrder, queueVars
<1>6. BatchPhases' /\ Numbered'
  BY <1>1 DEF IInv, BatchPhases, Numbered, countVars
<1>7. QED
  BY <1>4, <1>5, <1>6 DEF IInv

LEMMA IInvWriterEnds ==
    ASSUME IInv, FillEnds \/ WriteFails \/ Finish \/ Exit
    PROVE  IInv'
<1>1. TypeOK'
  BY DEF IInv, TypeOK, FillEnds, WriteFails, Finish, Exit, queueVars, countVars
<1>2. BatchPhases'
  BY DEF IInv, BatchPhases, IsCompleted, FillEnds, WriteFails, Finish, Exit, queueVars
<1>3. Numbered' /\ InOrder'
  BY DEF IInv, Numbered, InOrder, FillEnds, WriteFails, Finish, Exit, queueVars, countVars
<1>4. QED
  BY <1>1, <1>2, <1>3 DEF IInv

LEMMA IInvUnload ==
    ASSUME IInv, Unload
    PROVE  IInv'
<1>1. TypeOK'
  BY DEF IInv, TypeOK, Unload, UnloadStop, UnloadComplete, UnloadJoin, queueVars, writerVars, countVars
<1>2. BatchPhases' /\ InOrder'
  BY DEF IInv, BatchPhases, IsCompleted, InOrder, Unload, UnloadStop, UnloadComplete, UnloadJoin,
         queueVars, writerVars
<1>3. Numbered'
  BY BoundAssumption
     DEF IInv, TypeOK, Numbered, Unload, UnloadStop, UnloadComplete, UnloadJoin, countVars
<1>4. QED
  BY <1>1, <1>2, <1>3 DEF IInv

LEMMA IInvStep == IInv /\ [Next]_vars => IInv'
<1> SUFFICES ASSUME IInv, [Next]_vars PROVE IInv'
  OBVIOUS
<1>1. CASE \E t \in Threads : EmitAdd(t)
  BY <1>1, IInvEmitAdd
<1>2. CASE UnloadEnter \/ \E t \in Threads : EmitEnter(t)
  BY <1>2, IInvEmit
<1>3. CASE Writer
  BY <1>3, IInvTake, IInvWrite, IInvWriterEnds DEF Writer
<1>4. CASE Unload
  BY <1>4, IInvUnload
<1>5. CASE Exit
  BY <1>5, IInvWriterEnds
<1>6. CASE UNCHANGED vars
  BY <1>6 DEF vars, IInv, TypeOK, BatchPhases, IsCompleted, Numbered, InOrder, queueVars,
              writerVars, countVars
<1>7. QED
  BY <1>1, <1>2, <1>3, <1>4, <1>5, <1>6 DEF Next

LEMMA IInvHolds == Spec => []IInv
BY IInvInit, IInvStep, PTL DEF Spec

(***************************************************************************)
(* The variables have their types, the queue and the batch their bounds.   *)
(***************************************************************************)
THEOREM TypeCorrect == Spec => []TypeOK
<1>1. IInv => TypeOK
  BY DEF IInv
<1>2. QED
  BY <1>1, IInvHolds, PTL

(***************************************************************************)
(* Nothing the queue accepted is lost, repeated or reordered on its way to *)
(* the files, whatever fails and whenever the teardown comes.              *)
(***************************************************************************)
THEOREM LogInOrder == Spec => []InOrder
<1>1. IInv => InOrder
  BY DEF IInv
<1>2. QED
  BY <1>1, IInvHolds, PTL

(***************************************************************************)
(* A writer that came to its end by itself has written all that the queue  *)
(* accepted, and the queue accepts nothing more.                           *)
(***************************************************************************)
THEOREM DoneIsWritten == Spec => []DoneMeansWritten
<1>1. IInv => DoneMeansWritten
  <2> SUFFICES ASSUME IInv, writer = "done" PROVE written = accepted /\ completed
    BY DEF DoneMeansWritten
  <2>1. batch = <<>> /\ queue = <<>> /\ completed
    BY DEF IInv, BatchPhases, IsCompleted
  <2>2. written \in Seq(Nat) /\ accepted = written \o batch \o queue
    BY DEF IInv, TypeOK, InOrder
  <2>3. written \o <<>> \o <<>> = written
    BY <2>2
  <2>4. QED
    BY <2>1, <2>2, <2>3
<1>2. QED
  BY <1>1, IInvHolds, PTL

(***************************************************************************)
(* The abstract log: a batch is a first part of the backlog.               *)
(***************************************************************************)
LEMMA BatchFirst ==
    ASSUME NEW b \in Seq(Nat), NEW q \in Seq(Nat), b # <<>>
    PROVE  /\ Len(b) \in 1 .. Len(b \o q)
           /\ SubSeq(b \o q, 1, Len(b)) = b
           /\ SubSeq(b \o q, Len(b) + 1, Len(b \o q)) = q
<1>1. /\ Len(b) \in Nat \ {0} /\ Len(q) \in Nat /\ Len(b \o q) = Len(b) + Len(q)
      /\ \A i \in 1 .. Len(b) + Len(q) :
            (b \o q)[i] = IF i <= Len(b) THEN b[i] ELSE q[i - Len(b)]
      /\ b \o q \in Seq(Nat)
  BY ConcatProperties
<1> DEFINE a == b \o q
           n == Len(b)
           m == Len(q)
<1>2. /\ \A i \in 1 .. n + m : a[i] \in Nat
      /\ \A i \in 1 .. n : b[i] = a[i]
      /\ \A i \in 1 .. m : q[i] = a[n + i]
  BY <1>1
<1>3. n \in Nat \ {0} /\ m \in Nat /\ Len(a) = n + m /\ Len(b) = n /\ Len(q) = m
  BY <1>1
<1> HIDE DEF a, n, m
<1>4. SubSeq(a, 1, n) = b
  <2>1. /\ SubSeq(a, 1, n) \in Seq(Nat) /\ Len(SubSeq(a, 1, n)) = n
        /\ \A i \in 1 .. n : SubSeq(a, 1, n)[i] = a[i]
    BY <1>2, <1>3, SubSeqProperties
  <2>2. QED
    BY <1>2, <1>3, <2>1, SeqEqual
<1>5. SubSeq(a, n + 1, n + m) = q
  <2>1. /\ SubSeq(a, n + 1, n + m) \in Seq(Nat) /\ Len(SubSeq(a, n + 1, n + m)) = m
        /\ \A i \in 1 .. m : SubSeq(a, n + 1, n + m)[i] = a[n + i]
    BY <1>2, <1>3, SubSeqProperties
  <2>2. QED
    BY <1>2, <1>3, <2>1, SeqEqual
<1>6. QED
  BY <1>3, <1>4, <1>5 DEF a, n, m

LEMMA BacklogAppends ==
    ASSUME NEW b \in Seq(Nat), NEW q \in Seq(Nat), NEW r \in Nat
    PROVE  /\ Append(b \o q, r) = b \o Append(q, r)
           /\ Len(b \o q) = Len(b) + Len(q)
<1>1. b \o q \in Seq(Nat) /\ <<r>> \in Seq(Nat)
  OBVIOUS
<1>2. (b \o q) \o <<r>> = b \o (q \o <<r>>)
  BY <1>1, Associative
<1>3. Append(b \o q, r) = b \o Append(q, r)
  BY <1>1, <1>2, AppendIsConcat
<1>4. QED
  BY <1>3, ConcatProperties

LEMMA BacklogKept ==
    ASSUME batch \in Seq(Nat), queue \in Seq(Nat), NEW r \in Nat
    PROVE  /\ Append(batch \o queue, r) = batch \o Append(queue, r)
           /\ Len(batch \o queue) = Len(batch) + Len(queue)
BY BacklogAppends

LEMMA LogInit == Init => Log!Init
BY DEF Init, Log!Init

LEMMA LogAccept ==
    ASSUME IInv, NEW t \in Threads, EmitAdd(t)
    PROVE  [Log!Next]_(Log!vars)
<1>1. CASE ~completed /\ Len(queue) < Capacity
  <2>1. /\ queue' = Append(queue, emitting[t]) /\ batch' = batch
        /\ written' = written /\ completed' = completed
    <3>1. ~(Len(queue) >= Capacity)
      BY <1>1, CapacityAssumption DEF IInv, TypeOK
    <3>2. QED
      BY <1>1, <3>1 DEF EmitAdd, writerVars
  <2>2. emitting[t] \in Records
    BY <1>1, BoundAssumption DEF EmitAdd, IInv, TypeOK, Numbered, Records
  <2>3. /\ Append(batch \o queue, emitting[t]) = batch \o Append(queue, emitting[t])
        /\ Len(batch \o queue) = Len(batch) + Len(queue)
    <3>1. emitting[t] \in Nat /\ batch \in Seq(Nat) /\ queue \in Seq(Nat)
      BY DEF IInv, TypeOK
    <3>2. \A r \in Nat : /\ Append(batch \o queue, r) = batch \o Append(queue, r)
                         /\ Len(batch \o queue) = Len(batch) + Len(queue)
      BY <3>1, BacklogKept
    <3>3. QED
      BY <3>1, <3>2
  <2>4. Len(batch \o queue) < Capacity + Limit
    BY <1>1, <2>3, CapacityAssumption DEF IInv, TypeOK
  <2>5. Log!Accept(emitting[t])
    BY <1>1, <2>1, <2>3, <2>4 DEF Log!Accept
  <2>6. QED
    BY <2>2, <2>5 DEF Log!Next
<1>2. CASE ~(~completed /\ Len(queue) < Capacity)
  BY <1>2 DEF EmitAdd, IInv, TypeOK, queueVars, writerVars, Log!vars
<1>3. QED
  BY <1>1, <1>2

LEMMA LogFile ==
    ASSUME IInv, Write
    PROVE  Log!Next
<1>1. /\ written' = written \o batch /\ batch' = <<>> /\ queue' = queue
      /\ completed' = completed
  BY DEF Write, queueVars
<1>2. batch \in Seq(Nat) /\ queue \in Seq(Nat) /\ batch # <<>> /\ Len(batch) <= Limit
  BY DEF IInv, TypeOK, BatchPhases, Write
<1>3. /\ Len(batch) \in 1 .. Len(batch \o queue)
      /\ SubSeq(batch \o queue, 1, Len(batch)) = batch
      /\ SubSeq(batch \o queue, Len(batch) + 1, Len(batch \o queue)) = queue
  BY <1>2, BatchFirst
<1>4. batch' \o queue' = queue
  BY <1>1, <1>2
<1>5. Log!File(Len(batch))
  BY <1>1, <1>3, <1>4 DEF Log!File
<1>6. Len(batch) \in 1 .. Limit
  BY <1>2, <1>3, CapacityAssumption
<1>7. QED
  BY <1>5, <1>6 DEF Log!Next

LEMMA LogTake ==
    ASSUME IInv, TakeFirst \/ FillMore
    PROVE  UNCHANGED Log!vars
<1>1. /\ queue # <<>> /\ queue' = Tail(queue) /\ batch' = Append(batch, Head(queue))
      /\ UNCHANGED <<completed, written>>
  <2>1. CASE TakeFirst
    <3>1. batch = <<>> /\ batch' = <<Head(queue)>>
      BY <2>1 DEF TakeFirst, IInv, BatchPhases
    <3>2. batch' = Append(batch, Head(queue))
      BY <3>1
    <3>3. QED
      BY <2>1, <3>2 DEF TakeFirst
  <2>2. QED
    BY <2>1 DEF FillMore
<1>2. written \in Seq(Nat) /\ batch \in Seq(Nat) /\ queue \in Seq(Nat)
  BY DEF IInv, TypeOK
<1>3. batch \o queue = Append(batch, Head(queue)) \o Tail(queue)
  <2>1. queue # <<>>
    BY <1>1
  <2>2. QED
    BY <1>2, <2>1, HeadMoves
<1>4. QED
  BY <1>1, <1>3 DEF Log!vars

LEMMA LogStep == IInv /\ [Next]_vars => [Log!Next]_(Log!vars)
<1> SUFFICES ASSUME IInv, [Next]_vars PROVE [Log!Next]_(Log!vars)
  OBVIOUS
<1>1. CASE \E t \in Threads : EmitAdd(t)
  BY <1>1, LogAccept
<1>2. CASE Write
  BY <1>2, LogFile
<1>3. CASE TakeFirst \/ FillMore
  BY <1>3, LogTake
<1>4. CASE UnloadComplete
  BY <1>4 DEF UnloadComplete, writerVars, Log!Next, Log!Close
<1>5. CASE \/ UnloadEnter \/ UnloadStop \/ UnloadJoin \/ FillEnds \/ WriteFails \/ Finish
           \/ Exit \/ (\E t \in Threads : EmitEnter(t)) \/ UNCHANGED vars
  BY <1>5 DEF UnloadEnter, UnloadStop, UnloadJoin, FillEnds, WriteFails, Finish, Exit,
              EmitEnter, vars, queueVars, writerVars, Log!vars
<1>6. QED
  BY <1>1, <1>2, <1>3, <1>4, <1>5 DEF Next, Writer, Unload

(***************************************************************************)
(* The bounded queue, the batches and the files implement the abstract     *)
(* log, with room for a full queue and a full batch.                       *)
(***************************************************************************)
THEOREM QueueImplementsLog == Spec => ImplementsLog
BY IInvHolds, LogInit, LogStep, PTL DEF Spec, ImplementsLog, Log!Spec

(***************************************************************************)
(* While no write fails, each record that passed the test of stopped is    *)
(* about to be added, accepted, dropped or refused.                        *)
(***************************************************************************)
LEMMA AddingChanges ==
    ASSUME IsFiniteSet(Threads), TypeOK, NEW t \in Threads, NEW r \in Nat,
           emitting' = [emitting EXCEPT ![t] = r]
    PROVE  /\ Cardinality(Adding) \in Nat /\ Cardinality(Adding') \in Nat
           /\ emitting[t] = 0 /\ r # 0 => Cardinality(Adding') = Cardinality(Adding) + 1
           /\ emitting[t] # 0 /\ r = 0 => Cardinality(Adding) = Cardinality(Adding') + 1
<1>1. IsFiniteSet(Adding) /\ IsFiniteSet(Adding')
  BY FS_Subset DEF Adding
<1>2. Cardinality(Adding) \in Nat /\ Cardinality(Adding') \in Nat
  BY <1>1, FS_CardinalityType
<1>3. ASSUME emitting[t] = 0, r # 0
      PROVE  Adding' = Adding \union {t} /\ t \notin Adding
  BY <1>3 DEF Adding, TypeOK
<1>4. ASSUME emitting[t] # 0, r = 0
      PROVE  Adding = Adding' \union {t} /\ t \notin Adding'
  BY <1>4 DEF Adding, TypeOK
<1>5. QED
  BY <1>1, <1>2, <1>3, <1>4, FS_AddElement

LEMMA CountedInit == Init => Counted
<1> SUFFICES ASSUME Init PROVE Counted
  OBVIOUS
<1>1. Adding = {}
  BY DEF Init, Adding
<1>2. Cardinality(Adding) = 0
  BY <1>1, FS_EmptySet
<1>3. QED
  BY <1>2 DEF Init, Counted

LEMMA CountedStep ==
    ASSUME IsFiniteSet(Threads), IInv, Counted, [Next]_vars
    PROVE  Counted'
<1> SUFFICES ASSUME writer' # "failed"
             PROVE  Counted'
  BY DEF Counted
<1>a. writer # "failed"
  BY DEF Next, Writer, Unload, TakeFirst, FillMore, FillEnds, Write, WriteFails, Finish, Exit,
         EmitEnter, EmitAdd, UnloadEnter, UnloadStop, UnloadComplete, UnloadJoin, vars, writerVars
<1>b. emitted = Cardinality(Adding) + Len(accepted) + dropped + refused
  BY <1>a DEF Counted
<1> DEFINE Same == UNCHANGED <<emitting, accepted, countVars>>
<1>1. CASE Same
  BY <1>b, <1>1 DEF Counted, Adding, countVars
<1>2. CASE \E t \in Threads : EmitEnter(t) \/ (UnloadEnter /\ t = Main)
  <2>1. PICK t \in Threads : /\ emitting[t] = 0 /\ emitting' = [emitting EXCEPT ![t] = emitted + 1]
                             /\ emitted' = emitted + 1
                             /\ UNCHANGED <<accepted, writer, dropped, refused>>
    BY <1>2 DEF EmitEnter, UnloadEnter, queueVars, writerVars
  <2>2. emitted \in Nat /\ emitted + 1 \in Nat /\ emitted + 1 # 0
    BY DEF IInv, TypeOK
  <2>3. /\ Cardinality(Adding) \in Nat
        /\ Cardinality(Adding') = Cardinality(Adding) + 1
    BY <2>1, <2>2, AddingChanges DEF IInv
  <2>4. QED
    BY <1>b, <2>1, <2>2, <2>3 DEF Counted, IInv, TypeOK
<1>3. CASE \E t \in Threads : EmitAdd(t)
  <2>1. PICK t \in Threads : EmitAdd(t)
    BY <1>3
  <2>2. emitting[t] # 0 /\ emitting' = [emitting EXCEPT ![t] = 0] /\ emitted' = emitted
    BY <2>1 DEF EmitAdd, countVars
  <2>3. /\ Cardinality(Adding) \in Nat /\ Cardinality(Adding') \in Nat
        /\ Cardinality(Adding) = Cardinality(Adding') + 1
    BY <2>2, AddingChanges DEF IInv
  <2>4. writer' = writer
    BY <2>1 DEF EmitAdd, writerVars
  <2>5. /\ emitted \in Nat /\ dropped \in Nat /\ refused \in Nat /\ Len(accepted) \in Nat
        /\ emitted = Cardinality(Adding) + Len(accepted) + dropped + refused
    BY <1>b DEF IInv, TypeOK
  <2>6. CASE accepted' = Append(accepted, emitting[t]) /\ UNCHANGED countVars
    <3>1. Len(accepted') = Len(accepted) + 1
      BY <2>6 DEF IInv, TypeOK
    <3>2. emitted = Cardinality(Adding') + Len(accepted') + dropped + refused
      BY <2>3, <2>5, <3>1
    <3>3. QED
      BY <2>4, <2>6, <3>2 DEF Counted, countVars
  <2>7. CASE dropped' = dropped + 1 /\ UNCHANGED <<refused, accepted>>
    <3>1. emitted = Cardinality(Adding') + Len(accepted) + (dropped + 1) + refused
      BY <2>3, <2>5
    <3>2. QED
      BY <2>2, <2>4, <2>7, <3>1 DEF Counted
  <2>8. CASE refused' = refused + 1 /\ UNCHANGED <<dropped, accepted>>
    <3> DEFINE sum  == Cardinality(Adding) + Len(accepted) + dropped
               rest == Cardinality(Adding') + Len(accepted) + dropped
    <3>1. sum \in Nat /\ rest \in Nat /\ sum = rest + 1 /\ emitted = sum + refused
      BY <2>3, <2>5
    <3> HIDE DEF sum, rest
    <3>2. emitted = rest + (refused + 1)
      BY <2>5, <3>1
    <3>3. QED
      BY <2>2, <2>4, <2>8, <3>2 DEF Counted, rest
  <2>9. QED
    BY <2>1, <2>6, <2>7, <2>8 DEF EmitAdd
<1>4. CASE Writer \/ Exit
  BY <1>1, <1>4 DEF Writer, TakeFirst, FillMore, FillEnds, Write, WriteFails, Finish, Exit,
              queueVars, countVars, Counted
<1>5. CASE Unload \/ UNCHANGED vars
  BY <1>1, <1>5 DEF Unload, UnloadStop, UnloadComplete, UnloadJoin, vars, queueVars, writerVars,
              countVars, Counted
<1>6. QED
  BY <1>2, <1>3, <1>4, <1>5, ThreadsAssumption DEF Next

LEMMA CountedHolds ==
    ASSUME IsFiniteSet(Threads)
    PROVE  Spec => []Counted
<1>1. IInv /\ Counted /\ [Next]_vars => Counted'
  BY CountedStep
<1>2. QED
  BY <1>1, IInvHolds, CountedInit, PTL DEF Spec

(***************************************************************************)
(* Any finite number of threads: a profile whose writer ended by itself    *)
(* accounts for each record.                                               *)
(***************************************************************************)
THEOREM CleanLogsAccount ==
    ASSUME IsFiniteSet(Threads)
    PROVE  Spec => []CleanLogAccounts
<1>1. IInv /\ Counted => CleanLogAccounts
  <2> SUFFICES ASSUME IInv, Counted, writer = "done",
                      \A t \in Threads : emitting[t] = 0
               PROVE  Accounted
    BY DEF CleanLogAccounts, Over
  <2>1. Cardinality(Adding) = 0
    <3>1. Adding = {}
      BY DEF Adding
    <3>2. QED
      BY <3>1, FS_EmptySet
  <2>2. emitted = 0 + Len(accepted) + dropped + refused
    BY <2>1 DEF Counted
  <2>3. batch = <<>> /\ queue = <<>>
    BY DEF IInv, BatchPhases, IsCompleted
  <2>4. written \in Seq(Nat) /\ accepted = written \o batch \o queue
    BY DEF IInv, TypeOK, InOrder
  <2>5. written \o <<>> \o <<>> = written
    BY <2>4
  <2>6. accepted = written
    BY <2>3, <2>4, <2>5
  <2>7. QED
    BY <2>2, <2>6 DEF IInv, TypeOK, Accounted
<1>2. QED
  BY <1>1, IInvHolds, CountedHolds, PTL

(***************************************************************************)
(* What the records say.  The steps of ProfileSummary are steps of         *)
(* ProfileWriter; they are of three sorts.                                 *)
(***************************************************************************)

Content == [kind : Kinds, index : Nat, dropped : Nat]

\* A thread enters Emit with a record that says what.
Makes(t, what) ==
    /\ emitting[t] = 0 /\ emitting' = [emitting EXCEPT ![t] = emitted + 1]
    /\ emitted' = emitted + 1
    /\ content' = Append(content, what)
    /\ t = Main => unload = "no"
    /\ UNCHANGED <<queueVars, writerVars, dropped, stopped>>

\* The steps after which the records and the queue's past are what they were.
Aside == UNCHANGED <<emitting, emitted, accepted, summaryVars>>

LEMMA SummaryInvInit == SummaryInit => SummaryInv
<1> SUFFICES ASSUME SummaryInit PROVE SummaryInv
  OBVIOUS
<1>1. IInv
  BY IInvInit DEF SummaryInit
<1>2. /\ content = <<>> /\ accepted = <<>> /\ emitted = 0 /\ dropped = 0 /\ window = 0
      /\ ended = FALSE /\ completed = FALSE /\ unload = "no"
      /\ \A t \in Threads : emitting[t] = 0
  BY DEF SummaryInit, Init
<1>3. emitting[Main] = 0
  BY <1>2, ThreadsAssumption
<1>4. /\ DOMAIN content = {} /\ Len(content) = 0 /\ content \in Seq(Content)
      /\ 1 .. Len(accepted) = {}
  BY <1>2
<1>5. Contents
  BY <1>2, <1>4 DEF Contents, Content
<1>6. StartFirst /\ Teardown /\ MainOnly /\ WindowsInOrder
  BY <1>2, <1>3, <1>4 DEF StartFirst, Teardown, MainOnly, WindowsInOrder, Loaded
<1>7. Taken = {} /\ 0 .. window - 1 = {}
  BY <1>2, <1>4 DEF Taken, Indexes
<1>8. NoneSkipped
  BY <1>7 DEF NoneSkipped
<1>9. LostCounted
  <2>1. Cardinality(Taken \ (Kept \union InHand)) = 0
    BY <1>7, FS_EmptySet
  <2>2. QED
    BY <1>2, <1>4, <2>1 DEF LostCounted
<1>10. QED
  BY <1>1, <1>5, <1>6, <1>8, <1>9 DEF SummaryInv

LEMMA SummaryStepIsStep == [SummaryNext]_allVars => [Next]_vars
BY ThreadsAssumption
   DEF SummaryNext, allVars, LoadStart, Hook, Snapshot, SnapshotFails, UnloadEmits, Elsewhere, Next

LEMMA SequencePrefix ==
    ASSUME NEW S, NEW s \in Seq(S), NEW e \in S
    PROVE  /\ Append(s, e) \in Seq(S) /\ Len(Append(s, e)) = Len(s) + 1
           /\ DOMAIN Append(s, e) = DOMAIN s \union {Len(s) + 1}
           /\ \A i \in DOMAIN s : Append(s, e)[i] = s[i] /\ i \in Nat /\ i <= Len(s) /\ i >= 1
           /\ Append(s, e)[Len(s) + 1] = e
           /\ Range(Append(s, e)) = Range(s) \union {e}
<1>1. /\ Append(s, e) \in Seq(S) /\ Len(Append(s, e)) = Len(s) + 1
      /\ DOMAIN Append(s, e) = 1 .. Len(s) + 1 /\ DOMAIN s = 1 .. Len(s)
      /\ \A i \in 1 .. Len(s) : Append(s, e)[i] = s[i]
      /\ Append(s, e)[Len(s) + 1] = e
      /\ Len(s) \in Nat
  OBVIOUS
<1>2. DOMAIN Append(s, e) = DOMAIN s \union {Len(s) + 1}
  BY <1>1
<1>3. Range(Append(s, e)) = Range(s) \union {e}
  BY <1>1, <1>2, Zenon DEF Range
<1>4. QED
  BY <1>1, <1>2, <1>3

(***************************************************************************)
(* A record is made.                                                       *)
(***************************************************************************)
LEMMA MakesAppends ==
    ASSUME SummaryInv, NEW t \in Threads, NEW what \in Content, Makes(t, what)
    PROVE  /\ emitted \in Nat /\ emitted = Len(content) /\ emitted + 1 \notin DOMAIN content
           /\ DOMAIN content' = DOMAIN content \union {emitted + 1}
           /\ \A r \in DOMAIN content :
                 content'[r] = content[r] /\ r \in Nat /\ r >= 1 /\ r <= emitted
           /\ content'[emitted + 1] = what
           /\ content' \in Seq(Content) /\ Len(content') = emitted'
<1>1. /\ content \in Seq(Content) /\ content' = Append(content, what)
      /\ emitted = Len(content) /\ emitted \in Nat /\ emitted' = emitted + 1
  BY DEF Makes, SummaryInv, Contents, Content, IInv, TypeOK
<1>2. QED
  BY <1>1, SequencePrefix

LEMMA ContentTypes ==
    ASSUME Contents
    PROVE  \A r \in DOMAIN content :
              /\ r \in Nat /\ content[r].kind \in Kinds
              /\ content[r].index \in Nat /\ content[r].dropped \in Nat
<1>1. content \in Seq(Content)
  BY DEF Contents, Content
<1>2. \A r \in DOMAIN content : r \in Nat /\ content[r] \in Content
  BY <1>1
<1>3. QED
  BY <1>2 DEF Content

LEMMA IndexesStay ==
    ASSUME NEW records, \A r \in records : content'[r] = content[r]
    PROVE  {content'[r].index : r \in {x \in records : content'[x].kind = "window"}}
             = Indexes(records)
BY DEF Indexes, IsWindow

LEMMA MakesIndexes ==
    ASSUME SummaryInv, NEW t \in Threads, NEW what \in Content, Makes(t, what)
    PROVE  /\ Kept' = Kept
           /\ Taken' = Taken \union (IF what.kind = "window" THEN {what.index} ELSE {})
           /\ InHand' = IF t = Main
                        THEN (IF what.kind = "window" THEN {what.index} ELSE {})
                        ELSE InHand
           /\ t = Main => InHand = {}
<1>1. /\ emitted \in Nat /\ emitted + 1 \notin DOMAIN content
      /\ DOMAIN content' = DOMAIN content \union {emitted + 1}
      /\ \A r \in DOMAIN content : content'[r] = content[r]
      /\ content'[emitted + 1] = what
      /\ emitting[t] = 0 /\ emitting' = [emitting EXCEPT ![t] = emitted + 1]
      /\ accepted' = accepted /\ emitting \in [Threads -> Nat]
  BY MakesAppends DEF Makes, queueVars, SummaryInv, IInv, TypeOK
<1>2. Kept' = Kept
  <2>1. Range(accepted) \subseteq DOMAIN content
    BY DEF SummaryInv, Contents, IInv, TypeOK, Range
  <2>2. Kept' = {content'[r].index : r \in {x \in Range(accepted) : content'[x].kind = "window"}}
    BY <1>1 DEF Kept, Indexes, IsWindow
  <2>3. QED
    BY <1>1, <2>1, <2>2, IndexesStay DEF Kept
<1>3. Taken' = Taken \union (IF what.kind = "window" THEN {what.index} ELSE {})
  BY <1>1, Zenon DEF Taken, Indexes, IsWindow
<1>4. t = Main => InHand = {}
  BY <1>1 DEF InHand, Indexes
<1>5. CASE t = Main
  <2>1. emitting'[Main] = emitted + 1 /\ emitted + 1 # 0
    BY <1>1, <1>5
  <2>2. InHand' = IF what.kind = "window" THEN {what.index} ELSE {}
    BY <1>1, <2>1 DEF InHand, Indexes, IsWindow
  <2>3. QED
    BY <1>2, <1>3, <1>4, <1>5, <2>2
<1>6. CASE t # Main
  <2>1. emitting'[Main] = emitting[Main] /\ emitting[Main] <= emitted /\ emitting[Main] \in Nat
    BY <1>1, <1>6, ThreadsAssumption DEF SummaryInv, IInv, Numbered
  <2>2. {emitting[Main]} \ {0} \subseteq DOMAIN content
    <3>1. DOMAIN content = 1 .. emitted
      BY DEF SummaryInv, Contents
    <3>2. QED
      BY <1>1, <2>1, <3>1
  <2>3. InHand' = InHand
    <3>1. InHand' = {content'[r].index : r \in {x \in {emitting[Main]} \ {0} :
                                                  content'[x].kind = "window"}}
      BY <2>1 DEF InHand, Indexes, IsWindow
    <3>2. QED
      BY <1>1, <2>2, <3>1, IndexesStay DEF InHand
  <2>4. QED
    BY <1>2, <1>3, <1>6, <2>3
<1>7. QED
  BY <1>5, <1>6

LEMMA MakesKeeps ==
    ASSUME SummaryInv, NEW t \in Threads, NEW what \in Content, Makes(t, what),
           what.dropped <= dropped, window' \in Nat, ended' \in BOOLEAN,
           UNCHANGED unload \/ (t = Main /\ unload' = "stop")
    PROVE  Contents' /\ Teardown'
<1>1. /\ emitted \in Nat /\ Len(content') = emitted' /\ content' \in Seq(Content)
      /\ DOMAIN content' = DOMAIN content \union {emitted + 1}
      /\ \A r \in DOMAIN content : content'[r] = content[r]
      /\ content'[emitted + 1] = what
  BY MakesAppends
<1>2. Contents'
  <2>1. \A r \in DOMAIN content' : content'[r].dropped <= dropped'
    BY <1>1 DEF Makes, SummaryInv, Contents
  <2>2. \A k \in 1 .. Len(accepted') : accepted'[k] \in DOMAIN content'
    BY <1>1 DEF Makes, queueVars, SummaryInv, Contents
  <2>3. QED
    BY <1>1, <2>1, <2>2 DEF Contents, Content
<1>3. Teardown'
  BY ThreadsAssumption DEF Makes, queueVars, SummaryInv, Teardown, IInv, TypeOK
<1>4. QED
  BY <1>2, <1>3

LEMMA MakesStart ==
    ASSUME SummaryInv, NEW t \in Threads, NEW what \in Content, Makes(t, what),
           UNCHANGED unload \/ (t = Main /\ unload' = "stop"),
           \/ content = <<>> /\ t = Main /\ what.kind = "start" /\ UNCHANGED unload
           \/ Loaded /\ what.kind # "start"
    PROVE  StartFirst'
<1>1. /\ emitted \in Nat /\ emitted = Len(content) /\ emitted + 1 \notin DOMAIN content
      /\ DOMAIN content' = DOMAIN content \union {emitted + 1}
      /\ \A r \in DOMAIN content :
            content'[r] = content[r] /\ r \in Nat /\ r >= 1 /\ r <= emitted
      /\ content'[emitted + 1] = what
      /\ Len(content') = emitted + 1 /\ content \in Seq(Content) /\ content' \in Seq(Content)
  BY MakesAppends DEF Makes, SummaryInv, Contents, Content
<1>2. /\ emitting \in [Threads -> Nat] /\ emitting' = [emitting EXCEPT ![t] = emitted + 1]
      /\ accepted' = accepted
  BY DEF Makes, SummaryInv, IInv, TypeOK, queueVars
<1>3. content' # <<>>
  BY <1>1
<1>4. CASE content = <<>> /\ t = Main /\ what.kind = "start" /\ UNCHANGED unload
  <2>1. emitted = 0 /\ DOMAIN content = {} /\ ~Loaded
    BY <1>1, <1>4 DEF Loaded
  <2>2. ~Loaded'
    BY <1>2, <1>4, <2>1 DEF Loaded
  <2>3. \A r \in DOMAIN content' : content'[r].kind = "start" <=> r = 1
    BY <1>1, <1>4, <2>1
  <2>4. /\ accepted = <<>> /\ unload = "no" /\ \A u \in Threads \ {Main} : emitting[u] = 0
    BY <2>1 DEF SummaryInv, StartFirst
  <2>5. \A u \in Threads \ {Main} : emitting'[u] = 0
    BY <1>2, <1>4, <2>4
  <2>6. QED
    BY <1>2, <1>4, <2>2, <2>3, <2>4, <2>5 DEF StartFirst
<1>5. CASE Loaded /\ what.kind # "start"
  <2>1. emitted >= 1
    BY <1>1, <1>5 DEF Loaded
  <2>2. Loaded'
    BY <1>1, <1>2, <1>3, <1>5, <2>1, ThreadsAssumption DEF Loaded
  <2>3. \A r \in DOMAIN content' : content'[r].kind = "start" <=> r = 1
    BY <1>1, <1>5, <2>1 DEF SummaryInv, StartFirst
  <2>4. QED
    BY <1>2, <1>5, <2>2, <2>3 DEF SummaryInv, StartFirst
<1>6. QED
  BY <1>4, <1>5

LEMMA MakesMain ==
    ASSUME SummaryInv, NEW t \in Threads, NEW what \in Content, Makes(t, what),
           what.kind = "window" => t = Main
    PROVE  MainOnly'
<1>1. /\ emitted \in Nat
      /\ DOMAIN content' = DOMAIN content \union {emitted + 1}
      /\ \A r \in DOMAIN content :
            content'[r] = content[r] /\ r \in Nat /\ r >= 1 /\ r <= emitted
      /\ content'[emitted + 1] = what
      /\ DOMAIN content = 1 .. emitted
  BY MakesAppends DEF SummaryInv, Contents
<1>2. emitting \in [Threads -> Nat] /\ emitting' = [emitting EXCEPT ![t] = emitted + 1]
  BY DEF Makes, SummaryInv, IInv, TypeOK
<1>3. \A u \in Threads : emitting[u] # 0 => emitting[u] \in DOMAIN content
  BY <1>1, <1>2 DEF SummaryInv, IInv, Numbered
<1>4. ASSUME NEW u \in Threads \ {Main}, emitting'[u] # 0
      PROVE  ~IsWindow(emitting[u])'
  <2>1. CASE u = t
    BY <1>1, <1>2, <2>1 DEF IsWindow
  <2>2. CASE u # t
    <3>1. emitting'[u] = emitting[u] /\ emitting[u] \in DOMAIN content /\ ~IsWindow(emitting[u])
      BY <1>2, <1>3, <1>4, <2>2 DEF SummaryInv, MainOnly
    <3>2. QED
      BY <1>1, <3>1 DEF IsWindow
  <2>3. QED
    BY <2>1, <2>2
<1>5. ASSUME emitting'[Main] # 0, NEW r \in DOMAIN content', content'[r].kind = "window"
      PROVE  r <= emitting'[Main]
  <2>1. CASE t = Main
    BY <1>1, <1>2, <2>1
  <2>2. CASE t # Main
    <3>1. emitting'[Main] = emitting[Main]
      BY <1>2, <2>2
    <3>2. r \in DOMAIN content /\ IsWindow(r)
      BY <1>1, <1>5, <2>2 DEF IsWindow
    <3>3. QED
      BY <1>5, <3>1, <3>2 DEF SummaryInv, MainOnly
  <2>3. QED
    BY <2>1, <2>2
<1>6. QED
  BY <1>4, <1>5 DEF MainOnly, IsWindow

LEMMA MakesOrdered ==
    ASSUME SummaryInv, NEW t \in Threads, NEW what \in Content, Makes(t, what),
           window' \in Nat, window <= window',
           what.kind = "window" => what.index = window /\ window' = window + 1
    PROVE  WindowsInOrder'
<1>1. /\ emitted \in Nat
      /\ DOMAIN content' = DOMAIN content \union {emitted + 1}
      /\ \A r \in DOMAIN content :
            content'[r] = content[r] /\ r \in Nat /\ r >= 1 /\ r <= emitted
      /\ content'[emitted + 1] = what
      /\ \A r \in DOMAIN content : content[r].index \in Nat
      /\ accepted' = accepted /\ window \in Nat
      /\ \A k \in 1 .. Len(accepted) : accepted[k] \in DOMAIN content
  BY MakesAppends, ContentTypes DEF SummaryInv, Contents, Makes, queueVars
<1>2. \A r \in DOMAIN content' : content'[r].kind = "window" => content'[r].index < window'
  BY <1>1 DEF SummaryInv, WindowsInOrder, IsWindow
<1>3. ASSUME NEW r \in DOMAIN content', NEW s \in DOMAIN content',
             content'[r].kind = "window", content'[s].kind = "window", r <= s
      PROVE  content'[r].index <= content'[s].index
  <2>1. CASE s \in DOMAIN content
    <3>1. r \in DOMAIN content
      BY <1>1, <1>3, <2>1
    <3>2. QED
      BY <1>1, <1>3, <2>1, <3>1 DEF SummaryInv, WindowsInOrder, IsWindow
  <2>2. CASE s = emitted + 1
    <3>1. CASE r \in DOMAIN content
      BY <1>1, <1>3, <2>2, <3>1 DEF SummaryInv, WindowsInOrder, IsWindow
    <3>2. CASE r = emitted + 1
      BY <1>1, <1>3, <2>2, <3>2
    <3>3. QED
      BY <1>1, <3>1, <3>2
  <2>3. QED
    BY <1>1, <2>1, <2>2
<1>4. \A j, k \in 1 .. Len(accepted) :
          content'[accepted[j]].kind = "window" /\ content'[accepted[k]].kind = "window" /\ j <= k
            => content'[accepted[j]].index <= content'[accepted[k]].index
  BY <1>1 DEF SummaryInv, WindowsInOrder, IsWindow
<1>5. QED
  BY <1>1, <1>2, <1>3, <1>4 DEF WindowsInOrder, IsWindow

\* The indexes given out are below window.
LEMMA TakenBelow ==
    ASSUME SummaryInv
    PROVE  /\ Taken \subseteq 0 .. window - 1 /\ Taken \in SUBSET Nat
           /\ IsFiniteSet(Taken) /\ window \in Nat
<1>1. \A r \in DOMAIN content : IsWindow(r) => content[r].index \in 0 .. window - 1
  BY ContentTypes DEF SummaryInv, Contents, WindowsInOrder
<1>2. Taken \subseteq 0 .. window - 1 /\ window \in Nat
  BY <1>1, Zenon DEF Taken, Indexes, SummaryInv, Contents
<1>3. IsFiniteSet(0 .. window - 1)
  BY <1>2, FS_Interval
<1>4. Taken \in SUBSET (0 .. window - 1) /\ Taken \in SUBSET Nat
  BY <1>2
<1>5. QED
  BY <1>2, <1>3, <1>4, FS_Subset

LEMMA MakesCounted ==
    ASSUME SummaryInv, NEW t \in Threads, NEW what \in Content, Makes(t, what),
           what.kind = "window" =>
               /\ t = Main /\ ~ended
               /\ what.index = window /\ what.dropped = dropped
    PROVE  LostCounted'
<1>1. /\ emitted \in Nat
      /\ DOMAIN content' = DOMAIN content \union {emitted + 1}
      /\ \A r \in DOMAIN content : content'[r] = content[r]
      /\ content'[emitted + 1] = what
      /\ dropped' = dropped
  BY MakesAppends DEF Makes
<1>2. /\ Kept' = Kept
      /\ Taken' = Taken \union (IF what.kind = "window" THEN {what.index} ELSE {})
      /\ InHand' = IF t = Main
                   THEN (IF what.kind = "window" THEN {what.index} ELSE {})
                   ELSE InHand
      /\ t = Main => InHand = {}
  BY MakesIndexes
<1> DEFINE Lost == Taken \ (Kept \union InHand)
<1>3. (Taken' \ (Kept' \union InHand')) = Lost \/ (Taken' \ (Kept' \union InHand')) = Lost \ {what.index}
  <2>1. CASE what.kind = "window"
    BY <1>2, <2>1
  <2>2. CASE what.kind # "window"
    BY <1>2, <2>2
  <2>3. QED
    BY <2>1, <2>2
<1>4. IsFiniteSet(Lost) /\ Cardinality(Lost) <= dropped
  BY TakenBelow, FS_Subset DEF SummaryInv, LostCounted
<1>5. Cardinality(Lost \ {what.index}) <= Cardinality(Lost) /\ IsFiniteSet(Lost \ {what.index})
  BY <1>4, FS_Subset
<1>6. Cardinality(Taken' \ (Kept' \union InHand')) <= dropped'
  <2>1. dropped \in Nat /\ Cardinality(Lost) \in Nat /\ Cardinality(Lost \ {what.index}) \in Nat
    BY <1>4, <1>5, FS_CardinalityType DEF SummaryInv, IInv, TypeOK
  <2>2. Cardinality(Taken' \ (Kept' \union InHand'))
          \in {Cardinality(Lost), Cardinality(Lost \ {what.index})}
    BY <1>3
  <2>3. QED
    BY <1>1, <1>4, <1>5, <2>1, <2>2
<1>7. ASSUME NEW r \in DOMAIN content', content'[r].kind = "window"
      PROVE  Cardinality((0 .. content'[r].index - 1) \ Kept') <= content'[r].dropped
  <2>1. CASE r \in DOMAIN content
    BY <1>1, <1>2, <1>7, <2>1 DEF SummaryInv, LostCounted, IsWindow
  <2>2. CASE r = emitted + 1
    <3>1. content'[r] = what /\ what.kind = "window" /\ t = Main /\ InHand = {}
      BY <1>1, <1>2, <1>7, <2>2
    <3>2. Taken = 0 .. window - 1
      BY <3>1, TakenBelow DEF SummaryInv, NoneSkipped
    <3>3. (0 .. what.index - 1) \ Kept' = Lost
      BY <1>2, <3>1, <3>2
    <3>4. QED
      BY <1>4, <3>1, <3>3
  <2>3. QED
    BY <1>1, <2>1, <2>2
<1>8. QED
  BY <1>6, <1>7 DEF LostCounted, IsWindow

LEMMA MakesNone ==
    ASSUME SummaryInv, NEW t \in Threads, NEW what \in Content, Makes(t, what),
           \/ what.kind = "window" /\ ~ended /\ what.index = window /\ window' = window + 1
           \/ what.kind # "window" /\ (ended' \/ UNCHANGED <<window, ended>>)
    PROVE  NoneSkipped'
<1>1. Taken' = Taken \union (IF what.kind = "window" THEN {what.index} ELSE {})
  BY MakesIndexes
<1>2. Taken \subseteq 0 .. window - 1 /\ window \in Nat
  BY TakenBelow
<1>3. CASE what.kind # "window"
  BY <1>1, <1>3 DEF SummaryInv, NoneSkipped
<1>4. CASE what.kind = "window"
  <2>1. Taken' = Taken \union {window} /\ Taken = 0 .. window - 1 /\ window' = window + 1
    BY <1>1, <1>2, <1>4 DEF SummaryInv, NoneSkipped
  <2>2. Taken' = 0 .. window
    BY <1>2, <2>1
  <2>3. \A i \in Taken' : 0 .. i \subseteq Taken'
    BY <1>2, <2>2
  <2>4. 0 .. window' - 1 \subseteq Taken'
    BY <1>2, <2>1, <2>2
  <2>5. QED
    BY <2>3, <2>4 DEF NoneSkipped
<1>5. QED
  BY <1>3, <1>4

LEMMA RecordMade ==
    ASSUME SummaryInv, SummaryNext, NEW t \in Threads, NEW what \in Content, Makes(t, what),
           what.dropped <= dropped, window' \in Nat, window <= window', ended' \in BOOLEAN,
           UNCHANGED unload \/ (t = Main /\ unload' = "stop"),
           \/ content = <<>> /\ t = Main /\ what.kind = "start" /\ UNCHANGED unload
           \/ Loaded /\ what.kind # "start",
           \/ /\ what.kind = "window" /\ t = Main /\ ~ended
              /\ what.index = window /\ window' = window + 1 /\ what.dropped = dropped
           \/ what.kind # "window" /\ (ended' \/ UNCHANGED <<window, ended>>)
    PROVE  SummaryInv'
<1>1. IInv'
  BY SummaryStepIsStep, IInvStep DEF SummaryInv
<1>2. Contents' /\ Teardown'
  BY MakesKeeps
<1>3. StartFirst'
  BY MakesStart
<1>4. MainOnly'
  BY MakesMain
<1>5. WindowsInOrder'
  BY MakesOrdered
<1>6. NoneSkipped'
  BY MakesNone
<1>7. LostCounted'
  BY MakesCounted
<1>8. QED
  BY <1>1, <1>2, <1>3, <1>4, <1>5, <1>6, <1>7 DEF SummaryInv

LEMMA RecordContent ==
    ASSUME Contents, dropped \in Nat
    PROVE  /\ \A kind \in Kinds : /\ Record(kind) \in Content
                                  /\ Record(kind).kind = kind /\ Record(kind).dropped <= dropped
           /\ /\ [kind |-> "window", index |-> window, dropped |-> dropped] \in Content
              /\ [kind |-> "window", index |-> window, dropped |-> dropped].dropped <= dropped
           /\ /\ [Record("stop") EXCEPT !.dropped = dropped] \in Content
              /\ [Record("stop") EXCEPT !.dropped = dropped].kind = "stop"
              /\ [Record("stop") EXCEPT !.dropped = dropped].dropped <= dropped
BY DEF Contents, Content, Record, Kinds

LEMMA SummaryInvMakes ==
    ASSUME SummaryInv, SummaryNext,
           \/ LoadStart \/ Snapshot \/ SnapshotFails \/ UnloadEmits
           \/ \E t \in Threads : Hook(t)
    PROVE  SummaryInv'
<1>1. Contents /\ dropped \in Nat /\ window \in Nat /\ ended \in BOOLEAN
  BY DEF SummaryInv, Contents, IInv, TypeOK
<1>2. CASE LoadStart
  <2>1. Makes(Main, Record("start"))
    BY <1>2, ThreadsAssumption DEF LoadStart, EmitEnter, Says, Makes, writerVars
  <2>2. /\ Record("start") \in Content /\ Record("start").kind = "start"
        /\ Record("start").dropped <= dropped
    BY <1>1, RecordContent DEF Kinds
  <2>3. content = <<>> /\ UNCHANGED <<window, ended, unload>>
    BY <1>2 DEF LoadStart, EmitEnter
  <2>4. QED
    BY <1>1, <2>1, <2>2, <2>3, RecordMade, ThreadsAssumption
<1>3. CASE Snapshot
  <2> DEFINE what == [kind |-> "window", index |-> window, dropped |-> dropped]
  <2>1. Makes(Main, what)
    BY <1>3, ThreadsAssumption DEF Snapshot, EmitEnter, Says, Makes, writerVars
  <2>2. what \in Content /\ what.dropped <= dropped
    BY <1>1, RecordContent
  <2>3. what.kind = "window" /\ what.index = window /\ what.dropped = dropped
    OBVIOUS
  <2>4. Loaded /\ ~ended /\ window' = window + 1 /\ ended' = ended /\ UNCHANGED unload
    BY <1>3 DEF Snapshot, EmitEnter
  <2>5. window' \in Nat /\ window <= window' /\ ended' \in BOOLEAN
    BY <1>1, <2>4
  <2> HIDE DEF what
  <2>6. QED
    BY <2>1, <2>2, <2>3, <2>4, <2>5, RecordMade, ThreadsAssumption
<1>4. CASE SnapshotFails
  <2>1. Makes(Main, Record("snapshotFailure"))
    BY <1>4, ThreadsAssumption DEF SnapshotFails, EmitEnter, Says, Makes, writerVars
  <2>2. /\ Record("snapshotFailure") \in Content
        /\ Record("snapshotFailure").kind = "snapshotFailure"
        /\ Record("snapshotFailure").dropped <= dropped
    BY <1>1, RecordContent DEF Kinds
  <2>3. /\ Loaded /\ UNCHANGED unload
        /\ window' \in Nat /\ window <= window' /\ ended' \in BOOLEAN /\ ended'
    BY <1>1, <1>4 DEF SnapshotFails, EmitEnter
  <2>4. QED
    BY <2>1, <2>2, <2>3, RecordMade, ThreadsAssumption
<1>5. CASE UnloadEmits
  <2> DEFINE what == [Record("stop") EXCEPT !.dropped = dropped]
  <2>1. Makes(Main, what)
    BY <1>5, ThreadsAssumption DEF UnloadEmits, UnloadEnter, Says, Makes, writerVars
  <2>2. what \in Content /\ what.kind = "stop" /\ what.dropped <= dropped
    BY <1>1, RecordContent
  <2>3. Loaded /\ unload' = "stop" /\ UNCHANGED <<window, ended>>
    BY <1>5 DEF UnloadEmits, UnloadEnter
  <2> HIDE DEF what
  <2>4. QED
    BY <1>1, <2>1, <2>2, <2>3, RecordMade, ThreadsAssumption
<1>6. CASE \E t \in Threads : Hook(t)
  <2>1. PICK t \in Threads : Hook(t)
    BY <1>6
  <2>2. Makes(t, Record("hook"))
    BY <2>1 DEF Hook, EmitEnter, Says, Makes, writerVars
  <2>3. /\ Record("hook") \in Content /\ Record("hook").kind = "hook"
        /\ Record("hook").dropped <= dropped
    BY <1>1, RecordContent DEF Kinds
  <2>4. Loaded /\ UNCHANGED <<window, ended, unload>>
    BY <2>1 DEF Hook, EmitEnter
  <2>5. QED
    BY <1>1, <2>2, <2>3, <2>4, RecordMade
<1>7. QED
  BY <1>2, <1>3, <1>4, <1>5, <1>6

(***************************************************************************)
(* The queue takes, drops or refuses a record.                             *)
(***************************************************************************)

\* r is the number of the record a thread adds.
Adds(t, r) ==
    /\ emitting[t] = r /\ r # 0 /\ emitting' = [emitting EXCEPT ![t] = 0]
    /\ UNCHANGED <<emitted, completed, unload, summaryVars>>
    /\ \/ ~completed /\ accepted' = Append(accepted, r) /\ UNCHANGED dropped
       \/ ~completed /\ queue # <<>> /\ UNCHANGED accepted /\ dropped' = dropped + 1
       \/ completed /\ UNCHANGED <<accepted, dropped>>

LEMMA AddsForms ==
    ASSUME SummaryInv, NEW t \in Threads, EmitAdd(t), UNCHANGED summaryVars
    PROVE  /\ Adds(t, emitting[t])
           /\ emitting[t] \in DOMAIN content /\ emitting[t] \in Nat
           /\ t # Main => ~IsWindow(emitting[t])
           /\ completed => t # Main
<1>1. /\ emitting \in [Threads -> Nat] /\ emitting[t] # 0 /\ emitting[t] <= emitted
      /\ queue \in Seq(Nat) /\ dropped \in Nat /\ emitted \in Nat
      /\ DOMAIN content = 1 .. emitted
  BY DEF EmitAdd, SummaryInv, IInv, TypeOK, Numbered, Contents
<1>2. emitting[t] \in DOMAIN content /\ emitting[t] \in Nat
  BY <1>1
<1>3. Len(queue) >= Capacity => queue # <<>>
  BY CapacityAssumption
<1>4. Adds(t, emitting[t])
  BY <1>1, <1>3, Zenon DEF EmitAdd, Adds, countVars, summaryVars
<1>5. /\ t # Main => ~IsWindow(emitting[t])
      /\ completed => t # Main
  BY <1>1 DEF SummaryInv, MainOnly, Teardown
<1>6. QED
  BY <1>2, <1>4, <1>5

LEMMA AddsKeeps ==
    ASSUME SummaryInv, NEW t \in Threads, NEW r \in DOMAIN content, Adds(t, r),
           t # Main => ~IsWindow(r)
    PROVE  Contents' /\ Teardown' /\ MainOnly' /\ NoneSkipped'
<1>1. /\ emitting \in [Threads -> Nat] /\ emitting' = [emitting EXCEPT ![t] = 0]
      /\ content' = content /\ emitted' = emitted /\ window' = window /\ ended' = ended
      /\ completed' = completed /\ unload' = unload
      /\ dropped \in Nat /\ dropped' \in Nat /\ dropped <= dropped'
      /\ accepted \in Seq(Nat) /\ r \in Nat
      /\ accepted' = accepted \/ accepted' = Append(accepted, r)
  BY ContentTypes DEF Adds, summaryVars, SummaryInv, IInv, TypeOK
<1>2. Contents'
  <2>1. \A s \in DOMAIN content : content[s].dropped <= dropped'
    <3>1. \A s \in DOMAIN content : content[s].dropped <= dropped /\ content[s].dropped \in Nat
      BY ContentTypes DEF SummaryInv, Contents
    <3>2. QED
      BY <1>1, <3>1
  <2>2. \A k \in 1 .. Len(accepted') : accepted'[k] \in DOMAIN content
    <3>1. \A k \in 1 .. Len(accepted) : accepted[k] \in DOMAIN content
      BY DEF SummaryInv, Contents
    <3>2. \A k \in 1 .. Len(Append(accepted, r)) : Append(accepted, r)[k] \in DOMAIN content
      BY <1>1, <3>1
    <3>3. QED
      BY <1>1, <3>1, <3>2
  <2>3. QED
    BY <1>1, <2>1, <2>2 DEF SummaryInv, Contents
<1>3. Teardown'
  BY <1>1, ThreadsAssumption DEF SummaryInv, Teardown
<1>4. MainOnly'
  BY <1>1, ThreadsAssumption DEF SummaryInv, MainOnly, IsWindow
<1>5. NoneSkipped'
  BY <1>1 DEF SummaryInv, NoneSkipped, Taken, Indexes, IsWindow
<1>6. QED
  BY <1>2, <1>3, <1>4, <1>5

LEMMA AddsStart ==
    ASSUME SummaryInv, NEW t \in Threads, NEW r \in DOMAIN content, Adds(t, r)
    PROVE  StartFirst'
<1>1. /\ emitting \in [Threads -> Nat] /\ emitting' = [emitting EXCEPT ![t] = 0]
      /\ content' = content /\ unload' = unload
      /\ accepted \in Seq(Nat) /\ r \in Nat /\ emitting[t] = r /\ r # 0
      /\ accepted' = accepted \/ accepted' = Append(accepted, r)
  BY ContentTypes DEF Adds, summaryVars, SummaryInv, IInv, TypeOK
<1>2. CASE Loaded
  <2>1. Loaded'
    BY <1>1, <1>2, ThreadsAssumption DEF Loaded
  <2>2. accepted # <<>> /\ accepted[1] = 1
    BY <1>2 DEF SummaryInv, StartFirst
  <2>3. accepted' # <<>> /\ accepted'[1] = 1
    BY <1>1, <2>2
  <2>4. QED
    BY <1>1, <2>1, <2>3 DEF SummaryInv, StartFirst
<1>3. CASE ~Loaded
  <2>1. accepted = <<>> /\ unload = "no" /\ t = Main
    BY <1>1, <1>3 DEF SummaryInv, StartFirst
  <2>2. r = 1
    <3>1. content # <<>>
      BY DEF SummaryInv, Contents
    <3>2. QED
      BY <1>1, <1>3, <2>1, <3>1 DEF Loaded
  <2>3. ~completed
    BY <2>1 DEF SummaryInv, Teardown
  <2>4. queue = <<>>
    <3>1. /\ accepted = written \o batch \o queue
          /\ written \in Seq(Nat) /\ batch \in Seq(Nat) /\ queue \in Seq(Nat)
      BY DEF SummaryInv, IInv, TypeOK, InOrder
    <3>2. /\ Len(written \o batch \o queue) = Len(written) + Len(batch) + Len(queue)
          /\ Len(written) \in Nat /\ Len(batch) \in Nat /\ Len(queue) \in Nat
      BY <3>1
    <3>3. Len(written \o batch \o queue) = 0
      <4>1. Len(accepted) = 0
        BY <2>1
      <4>2. QED
        BY <3>1, <4>1
    <3>4. Len(queue) = 0
      BY <3>2, <3>3
    <3>5. QED
      BY <3>1, <3>4
  <2>5. accepted' = Append(accepted, 1)
    BY <2>2, <2>3, <2>4 DEF Adds
  <2>6. accepted' # <<>> /\ accepted'[1] = 1
    BY <2>1, <2>5
  <2>7. Loaded'
    BY <1>1, <2>1, <2>2, ThreadsAssumption DEF Loaded
  <2>8. QED
    BY <1>1, <2>6, <2>7 DEF SummaryInv, StartFirst
<1>4. QED
  BY <1>2, <1>3

LEMMA AddsOrdered ==
    ASSUME SummaryInv, NEW t \in Threads, NEW r \in DOMAIN content, Adds(t, r),
           t # Main => ~IsWindow(r)
    PROVE  WindowsInOrder'
<1>1. /\ content' = content /\ window' = window /\ emitting[t] = r /\ r # 0
      /\ accepted \in Seq(Nat) /\ r \in Nat
      /\ accepted' = accepted \/ accepted' = Append(accepted, r)
      /\ \A k \in 1 .. Len(accepted) : accepted[k] \in DOMAIN content
  BY ContentTypes DEF Adds, summaryVars, SummaryInv, IInv, TypeOK, Contents
<1>2. /\ \A s \in DOMAIN content : IsWindow(s) => content[s].index < window
      /\ \A s, u \in DOMAIN content :
            IsWindow(s) /\ IsWindow(u) /\ s <= u => content[s].index <= content[u].index
      /\ \A j, k \in 1 .. Len(accepted) :
            IsWindow(accepted[j]) /\ IsWindow(accepted[k]) /\ j <= k =>
                content[accepted[j]].index <= content[accepted[k]].index
  BY DEF SummaryInv, WindowsInOrder
<1>3. IsWindow(r) => \A s \in DOMAIN content : IsWindow(s) => s <= r
  BY <1>1 DEF SummaryInv, MainOnly
<1>4. ASSUME NEW j \in 1 .. Len(accepted'), NEW k \in 1 .. Len(accepted'), j <= k,
             IsWindow(accepted'[j]), IsWindow(accepted'[k])
      PROVE  content[accepted'[j]].index <= content[accepted'[k]].index
  <2>1. CASE accepted' = accepted
    BY <1>2, <1>4, <2>1
  <2>2. CASE accepted' = Append(accepted, r)
    <3>1. /\ Len(accepted') = Len(accepted) + 1 /\ accepted'[Len(accepted) + 1] = r
          /\ \A i \in 1 .. Len(accepted) : accepted'[i] = accepted[i]
          /\ Len(accepted) \in Nat
      BY <1>1, <2>2
    <3>2. CASE k \in 1 .. Len(accepted)
      BY <1>2, <1>4, <3>1, <3>2
    <3>3. CASE k = Len(accepted) + 1
      <4>1. accepted'[k] = r /\ accepted'[j] \in DOMAIN content
        BY <1>1, <3>1, <3>3
      <4>2. accepted'[j] <= r
        BY <1>3, <1>4, <4>1
      <4>3. QED
        BY <1>2, <1>4, <4>1, <4>2
    <3>4. QED
      BY <3>1, <3>2, <3>3
  <2>3. QED
    BY <1>1, <2>1, <2>2
<1>5. QED
  BY <1>1, <1>2, <1>4 DEF WindowsInOrder, IsWindow

LEMMA AddsCounted ==
    ASSUME SummaryInv, NEW t \in Threads, NEW r \in DOMAIN content, Adds(t, r),
           t # Main => ~IsWindow(r), completed => t # Main
    PROVE  LostCounted'
<1> DEFINE Its  == IF IsWindow(r) THEN {content[r].index} ELSE {}
           Lost == Taken \ (Kept \union InHand)
<1>1. /\ emitting \in [Threads -> Nat] /\ emitting' = [emitting EXCEPT ![t] = 0]
      /\ content' = content /\ emitting[t] = r /\ r # 0 /\ r \in Nat
      /\ accepted \in Seq(Nat)
      /\ dropped \in Nat
      /\ \A s \in DOMAIN content : content[s].index \in Nat
  BY ContentTypes DEF Adds, summaryVars, SummaryInv, IInv, TypeOK
<1>2. Taken' = Taken
  BY <1>1 DEF Taken, Indexes, IsWindow
<1>3. /\ t = Main => InHand = Its /\ InHand' = {}
      /\ t # Main => InHand' = InHand /\ Its = {}
  <2>1. CASE t = Main
    <3>1. {emitting[Main]} \ {0} = {r} /\ {emitting'[Main]} \ {0} = {}
      BY <1>1, <2>1
    <3>2. InHand = Its
      BY <3>1, Zenon DEF InHand, Indexes
    <3>3. InHand' = {}
      BY <3>1 DEF InHand, Indexes
    <3>4. QED
      BY <2>1, <3>2, <3>3
  <2>2. CASE t # Main
    <3>1. emitting'[Main] = emitting[Main]
      BY <1>1, <2>2, ThreadsAssumption
    <3>2. QED
      BY <1>1, <2>2, <3>1 DEF InHand, Indexes, IsWindow
  <2>3. QED
    BY <2>1, <2>2
<1>4. /\ accepted' = accepted => Kept' = Kept
      /\ accepted' = Append(accepted, r) => Kept' = Kept \union Its
  <2>1. ASSUME accepted' = accepted PROVE Kept' = Kept
    BY <1>1, <2>1 DEF Kept, Indexes, IsWindow
  <2>2. ASSUME accepted' = Append(accepted, r) PROVE Kept' = Kept \union Its
    <3>1. Range(accepted') = Range(accepted) \union {r}
      BY <1>1, <2>2, SequencePrefix
    <3>2. Kept' = {content[s].index : s \in {x \in Range(accepted) \union {r} :
                                               content[x].kind = "window"}}
      BY <1>1, <3>1 DEF Kept, Indexes, IsWindow
    <3>3. Kept = {content[s].index : s \in {x \in Range(accepted) : content[x].kind = "window"}}
      BY DEF Kept, Indexes, IsWindow
    <3>4. Its = IF content[r].kind = "window" THEN {content[r].index} ELSE {}
      BY DEF IsWindow
    <3> HIDE DEF Its
    <3>5. QED
      BY <3>2, <3>3, <3>4, Zenon
  <2>3. QED
    BY <2>1, <2>2
<1>5. IsFiniteSet(Lost) /\ Cardinality(Lost) \in Nat /\ Cardinality(Lost) <= dropped
  <2>1. IsFiniteSet(Lost)
    BY TakenBelow, FS_Subset
  <2>2. QED
    BY <2>1, FS_CardinalityType DEF SummaryInv, LostCounted
<1>6. Kept \subseteq Kept' /\ dropped <= dropped'
  BY <1>1, <1>4 DEF Adds
<1>7. \A s \in DOMAIN content : IsWindow(s) =>
          Cardinality((0 .. content[s].index - 1) \ Kept') <= content[s].dropped
  <2> TAKE s \in DOMAIN content
  <2> HAVE IsWindow(s)
  <2>1. Cardinality((0 .. content[s].index - 1) \ Kept) <= content[s].dropped
    BY DEF SummaryInv, LostCounted
  <2> DEFINE all == 0 .. content[s].index - 1
  <2>2. IsFiniteSet(all)
    <3>1. 0 \in Int /\ content[s].index - 1 \in Int
      BY <1>1
    <3>2. QED
      BY <3>1, FS_Interval
  <2> HIDE DEF all
  <2>3. IsFiniteSet(all \ Kept)
    BY <2>2, FS_Subset
  <2>4. all \ Kept' \in SUBSET (all \ Kept)
    BY <1>6
  <2>5. /\ Cardinality(all \ Kept') <= Cardinality(all \ Kept)
        /\ Cardinality(all \ Kept') \in Nat /\ Cardinality(all \ Kept) \in Nat
    BY <2>3, <2>4, FS_Subset, FS_CardinalityType
  <2>6. content[s].dropped \in Nat
    BY ContentTypes DEF SummaryInv
  <2>7. QED
    BY <2>1, <2>5, <2>6 DEF all
<1>8. Cardinality(Taken \ (Kept' \union InHand')) <= dropped'
  <2>1. CASE ~completed /\ accepted' = Append(accepted, r) /\ UNCHANGED dropped
    <3>1. Taken \ (Kept' \union InHand') \in SUBSET Lost
      BY <1>3, <1>4, <2>1
    <3>2. Cardinality(Taken \ (Kept' \union InHand')) <= Cardinality(Lost)
      BY <1>5, <3>1, FS_Subset
    <3>3. Cardinality(Taken \ (Kept' \union InHand')) \in Nat
      BY <1>5, <3>1, FS_Subset, FS_CardinalityType
    <3> HIDE DEF Lost
    <3>4. QED
      BY <1>1, <1>5, <2>1, <3>2, <3>3
  <2>2. CASE ~completed /\ UNCHANGED accepted /\ dropped' = dropped + 1
    <3>1. Taken \ (Kept' \union InHand') \in SUBSET (Lost \union {content[r].index})
      BY <1>3, <1>4, <2>2
    <3>2. /\ IsFiniteSet(Lost \union {content[r].index})
          /\ Cardinality(Lost \union {content[r].index})
               \in {Cardinality(Lost), Cardinality(Lost) + 1}
      BY <1>5, FS_AddElement
    <3>3. /\ Cardinality(Taken \ (Kept' \union InHand'))
               <= Cardinality(Lost \union {content[r].index})
          /\ Cardinality(Taken \ (Kept' \union InHand')) \in Nat
      BY <3>1, <3>2, FS_Subset, FS_CardinalityType
    <3> HIDE DEF Lost
    <3>4. QED
      BY <1>1, <1>5, <2>2, <3>2, <3>3
  <2>3. CASE completed /\ UNCHANGED <<accepted, dropped>>
    <3>1. Taken \ (Kept' \union InHand') = Lost
      BY <1>3, <1>4, <2>3
    <3>2. QED
      BY <1>5, <2>3, <3>1
  <2>4. QED
    BY <2>1, <2>2, <2>3 DEF Adds
<1>9. QED
  BY <1>1, <1>2, <1>7, <1>8 DEF LostCounted, IsWindow

LEMMA SummaryInvAdds ==
    ASSUME SummaryInv, SummaryNext, NEW t \in Threads, EmitAdd(t), UNCHANGED summaryVars
    PROVE  SummaryInv'
<1>1. IInv'
  BY SummaryStepIsStep, IInvStep DEF SummaryInv
<1>2. /\ Adds(t, emitting[t])
      /\ emitting[t] \in DOMAIN content
      /\ t # Main => ~IsWindow(emitting[t])
      /\ completed => t # Main
  BY AddsForms
<1>3. QED
  BY <1>1, <1>2, AddsKeeps, AddsStart, AddsOrdered, AddsCounted DEF SummaryInv

LEMMA SummaryInvAside ==
    ASSUME SummaryInv, [SummaryNext]_allVars, Aside, dropped <= dropped', dropped' \in Nat,
           \/ UNCHANGED <<completed, unload>>
           \/ unload = "stop" /\ emitting[Main] = 0 /\ unload' = "complete" /\ UNCHANGED completed
           \/ unload = "complete" /\ unload' = "join"
           \/ unload = "join" /\ unload' = "done" /\ UNCHANGED completed
    PROVE  SummaryInv'
<1>1. IInv'
  BY SummaryStepIsStep, IInvStep DEF SummaryInv
<1>2. /\ content' = content /\ emitting' = emitting /\ emitted' = emitted
      /\ accepted' = accepted /\ window' = window /\ ended' = ended
      /\ dropped \in Nat /\ \A r \in DOMAIN content : content[r].dropped \in Nat
  BY ContentTypes DEF Aside, summaryVars, SummaryInv, IInv, TypeOK
<1>3. Contents'
  <2>1. \A r \in DOMAIN content : content[r].dropped <= dropped'
    BY <1>2 DEF SummaryInv, Contents
  <2>2. QED
    BY <1>2, <2>1 DEF SummaryInv, Contents
<1>4. StartFirst'
  <2>1. ~Loaded => unload' = "no"
    BY DEF SummaryInv, StartFirst
  <2>2. QED
    BY <1>2, <2>1 DEF SummaryInv, StartFirst, Loaded
<1>5. Teardown'
  BY <1>2 DEF SummaryInv, Teardown
<1>6. MainOnly' /\ WindowsInOrder'
  BY <1>2 DEF SummaryInv, MainOnly, WindowsInOrder, IsWindow
<1>7. Taken' = Taken /\ Kept' = Kept /\ InHand' = InHand
  BY <1>2 DEF Taken, Kept, InHand, Indexes, IsWindow
<1>8. NoneSkipped'
  BY <1>2, <1>7 DEF SummaryInv, NoneSkipped
<1>9. LostCounted'
  <2>1. Cardinality(Taken \ (Kept \union InHand)) \in Nat
    BY TakenBelow, FS_Subset, FS_CardinalityType
  <2>2. Cardinality(Taken \ (Kept \union InHand)) <= dropped'
    BY <1>2, <2>1 DEF SummaryInv, LostCounted
  <2>3. QED
    BY <1>2, <1>7, <2>2 DEF SummaryInv, LostCounted, IsWindow
<1>10. QED
  BY <1>1, <1>3, <1>4, <1>5, <1>6, <1>8, <1>9 DEF SummaryInv

LEMMA SummaryInvStep == SummaryInv /\ [SummaryNext]_allVars => SummaryInv'
<1> SUFFICES ASSUME SummaryInv, [SummaryNext]_allVars PROVE SummaryInv'
  OBVIOUS
<1>1. CASE LoadStart \/ Snapshot \/ SnapshotFails \/ UnloadEmits \/ \E t \in Threads : Hook(t)
  <2>1. SummaryNext
    BY <1>1 DEF SummaryNext
  <2>2. QED
    BY <1>1, <2>1, SummaryInvMakes
<1>2. CASE (\E t \in Threads : EmitAdd(t)) /\ UNCHANGED summaryVars
  <2>1. SummaryNext
    BY <1>2 DEF SummaryNext, Elsewhere
  <2>2. QED
    BY <1>2, <2>1, SummaryInvAdds
<1>3. dropped \in Nat
  BY DEF SummaryInv, IInv, TypeOK
<1>4. CASE (Writer \/ Exit) /\ UNCHANGED summaryVars
  <2>1. Aside /\ UNCHANGED <<completed, unload>> /\ dropped' \in {dropped, dropped + 1}
    BY <1>4 DEF Aside, Writer, TakeFirst, FillMore, FillEnds, Write, WriteFails, Finish, Exit,
                queueVars, countVars
  <2>2. QED
    BY <1>3, <2>1, SummaryInvAside
<1>5. CASE Unload /\ UNCHANGED summaryVars
  <2>1. Aside /\ dropped' = dropped
    BY <1>5 DEF Aside, Unload, UnloadStop, UnloadComplete, UnloadJoin, queueVars, countVars
  <2>2. \/ unload = "stop" /\ emitting[Main] = 0 /\ unload' = "complete" /\ UNCHANGED completed
        \/ unload = "complete" /\ unload' = "join"
        \/ unload = "join" /\ unload' = "done" /\ UNCHANGED completed
    BY <1>5 DEF Unload, UnloadStop, UnloadComplete, UnloadJoin, queueVars
  <2>3. QED
    BY <1>3, <2>1, <2>2, SummaryInvAside
<1>6. CASE UNCHANGED allVars
  <2>1. Aside /\ UNCHANGED <<completed, unload>> /\ dropped' = dropped
    BY <1>6 DEF allVars, vars, Aside, summaryVars, queueVars, countVars
  <2>2. QED
    BY <1>3, <2>1, SummaryInvAside
<1>7. QED
  BY <1>1, <1>2, <1>4, <1>5, <1>6 DEF SummaryNext, Elsewhere

LEMMA SummaryInvHolds == SummarySpec => []SummaryInv
BY SummaryInvInit, SummaryInvStep, PTL DEF SummarySpec

(***************************************************************************)
(* The largest element of a bounded set of numbers.                        *)
(***************************************************************************)
LEMMA LeastExists ==
    ASSUME NEW T \in SUBSET Nat, T # {}
    PROVE  \E x \in T : \A y \in T : x <= y
<1>1. PICK x \in T : \A y \in T : <<y, x>> \notin OpToRel(<, Nat)
  BY NatLessThanWellFounded, WFMin
<1>2. \A y \in T : ~(y < x)
  BY <1>1 DEF OpToRel
<1>3. QED
  BY <1>2

LEMMA MaxIsLargest ==
    ASSUME NEW S \in SUBSET Nat, S # {}, NEW bound \in Nat, \A x \in S : x <= bound
    PROVE  Max(S) \in S /\ \A x \in S : x <= Max(S)
<1> DEFINE T == {bound - x : x \in S}
<1>1. T \in SUBSET Nat /\ T # {}
  <2>1. \A x \in S : bound - x \in Nat
    OBVIOUS
  <2>2. QED
    BY <2>1
<1> HIDE DEF T
<1>2. PICK y \in T : \A z \in T : y <= z
  BY <1>1, LeastExists
<1>3. PICK m \in S : y = bound - m
  BY <1>2 DEF T
<1>4. \A x \in S : m >= x
  <2> TAKE x \in S
  <2>1. bound - m <= bound - x
    BY <1>2, <1>3 DEF T
  <2>2. QED
    BY <2>1
<1>5. Max(S) \in S /\ \A x \in S : Max(S) >= x
  BY <1>4 DEF Max
<1>6. QED
  BY <1>5

(***************************************************************************)
(* The files of any profile that got as far as one file have a summary, in *)
(* which the dropped records are at least as many as the windows missing   *)
(* before the last one.                                                    *)
(***************************************************************************)
LEMMA RangeOf ==
    ASSUME NEW s \in Seq(Nat)
    PROVE  \A e : e \in Range(s) <=> \E k \in 1 .. Len(s) : s[k] = e
<1>1. DOMAIN s = 1 .. Len(s)
  OBVIOUS
<1>2. QED
  BY <1>1, Zenon DEF Range

LEMMA StartIsWritten ==
    ASSUME SummaryInv, written # <<>>
    PROVE  Starts = {1}
<1>1. /\ accepted = written \o batch \o queue
      /\ written \in Seq(Nat) /\ batch \in Seq(Nat) /\ queue \in Seq(Nat)
  BY DEF SummaryInv, IInv, TypeOK, InOrder
<1>2. /\ Len(written) \in Nat \ {0} /\ Len(accepted) >= Len(written)
      /\ \A k \in 1 .. Len(written) : accepted[k] = written[k]
  BY <1>1
<1>3. accepted # <<>>
  BY <1>1, <1>2
<1>4. accepted[1] = 1
  BY <1>3 DEF SummaryInv, StartFirst
<1>5. 1 \in Range(written)
  BY <1>1, <1>2, <1>4 DEF Range
<1>6. Range(written) \subseteq DOMAIN content
  <2>1. \A k \in 1 .. Len(written) : written[k] \in DOMAIN content
    <3>1. \A k \in 1 .. Len(written) : k \in 1 .. Len(accepted) /\ written[k] = accepted[k]
      BY <1>1, <1>2
    <3>2. \A k \in 1 .. Len(accepted) : accepted[k] \in DOMAIN content
      BY DEF SummaryInv, Contents
    <3>3. QED
      BY <3>1, <3>2
  <2>2. QED
    BY <1>1, <2>1, RangeOf
<1>7. QED
  BY <1>5, <1>6 DEF Starts, SummaryInv, StartFirst

LEMMA ReportIsEnough ==
    ASSUME SummaryInv, written # <<>>
    PROVE  Cardinality(Missing({r.index : r \in {x \in Read : x.kind = "window"}})) <= Dropped
<1> DEFINE windows == {r.index : r \in {x \in Read : x.kind = "window"}}
<1>1. /\ accepted = written \o batch \o queue
      /\ written \in Seq(Nat) /\ batch \in Seq(Nat) /\ queue \in Seq(Nat)
      /\ dropped \in Nat
  BY DEF SummaryInv, IInv, TypeOK, InOrder
<1>2. /\ Len(written) \in Nat \ {0} /\ Len(accepted) \in Nat /\ Len(accepted) >= Len(written)
      /\ \A k \in 1 .. Len(written) : accepted[k] = written[k]
  BY <1>1
<1>3. /\ Range(written) \subseteq DOMAIN content /\ Range(written) # {}
      /\ \A r \in Range(written) : \E k \in 1 .. Len(written) : accepted[k] = r
  <2>1. \A k \in 1 .. Len(written) : accepted[k] \in DOMAIN content
    BY <1>1, <1>2 DEF SummaryInv, Contents
  <2>2. 1 \in 1 .. Len(written)
    BY <1>2
  <2>3. \A e : e \in Range(written) <=> \E k \in 1 .. Len(written) : written[k] = e
    BY <1>1, RangeOf
  <2>4. Range(written) \subseteq DOMAIN content
    <3>1. \A k \in 1 .. Len(written) : written[k] \in DOMAIN content
      BY <1>2, <2>1
    <3>2. QED
      BY <2>3, <3>1
  <2>5. Range(written) # {}
    BY <2>2, <2>3
  <2>6. \A r \in Range(written) : \E k \in 1 .. Len(written) : accepted[k] = r
    BY <1>2, <2>3
  <2>7. QED
    BY <2>4, <2>5, <2>6
<1>4. \A r \in DOMAIN content : /\ content[r].index \in Nat /\ content[r].dropped \in Nat
                                /\ content[r].dropped <= dropped
  BY ContentTypes DEF SummaryInv, Contents
<1>5. /\ Dropped \in Nat
      /\ \A r \in Range(written) : content[r].dropped <= Dropped
  <2> DEFINE counts == {record.dropped : record \in Read}
  <2>1. counts \in SUBSET Nat /\ counts # {} /\ \A x \in counts : x <= dropped
    BY <1>3, <1>4 DEF Read
  <2>2. \A r \in Range(written) : content[r].dropped \in counts
    BY DEF Read
  <2> HIDE DEF counts
  <2>3. Max(counts) \in counts /\ \A x \in counts : x <= Max(counts)
    BY <1>1, <2>1, MaxIsLargest
  <2>4. QED
    BY <2>1, <2>2, <2>3 DEF Dropped, counts
<1>6. windows = {content[r].index : r \in {x \in Range(written) : IsWindow(x)}}
  BY DEF Read, IsWindow
<1>7. CASE windows = {}
  <2>1. Missing(windows) = {}
    BY <1>7 DEF Missing
  <2>2. QED
    BY <1>5, <2>1, FS_EmptySet
<1>8. CASE windows # {}
  <2>1. windows \in SUBSET Nat /\ \A i \in windows : i <= window
    <3>1. \A r \in DOMAIN content : IsWindow(r) =>
              content[r].index \in Nat /\ content[r].index <= window
      BY <1>4 DEF SummaryInv, WindowsInOrder, Contents
    <3>2. QED
      BY <1>3, <1>6, <3>1
  <2>2. Max(windows) \in windows /\ \A i \in windows : i <= Max(windows)
    BY <1>8, <2>1, MaxIsLargest DEF SummaryInv, Contents
  <2>3. PICK last \in Range(written) : IsWindow(last) /\ content[last].index = Max(windows)
    BY <1>6, <2>2
  <2> DEFINE n == content[last].index
  <2>4. n \in Nat /\ n = Max(windows) /\ n \in windows
    BY <1>3, <1>4, <2>2, <2>3
  <2>5. ASSUME NEW i \in 0 .. n, i \notin windows
        PROVE  i \in (0 .. n - 1) \ Kept
    <3>1. i \in 0 .. n - 1
      BY <1>5, <2>4, <2>5
    <3>2. SUFFICES ASSUME i \in Kept PROVE FALSE
      BY <3>1
    <3>3. PICK j \in 1 .. Len(accepted) : IsWindow(accepted[j]) /\ content[accepted[j]].index = i
      <4>1. PICK r \in Range(accepted) : IsWindow(r) /\ content[r].index = i
        BY <3>2 DEF Kept, Indexes
      <4>2. accepted \in Seq(Nat)
        BY DEF SummaryInv, IInv, TypeOK
      <4>3. QED
        BY <4>1, <4>2, RangeOf
    <3>4. PICK k \in 1 .. Len(written) : accepted[k] = last
      BY <1>3
    <3>5. ~(k <= j)
      <4>1. k \in 1 .. Len(accepted)
        BY <1>2
      <4>2. k <= j => content[accepted[k]].index <= content[accepted[j]].index
        BY <2>3, <3>3, <3>4, <4>1 DEF SummaryInv, WindowsInOrder
      <4>3. QED
        BY <2>4, <3>1, <3>3, <3>4, <4>2
    <3>6. j \in 1 .. Len(written)
      BY <1>2, <3>5
    <3>7. accepted[j] \in Range(written)
      BY <1>1, <1>2, <3>6 DEF Range
    <3>8. i \in windows
      BY <1>6, <3>3, <3>7
    <3>9. QED
      BY <2>5, <3>8
  <2>6. Missing(windows) = (0 .. n) \ windows
    BY <1>8, <2>4 DEF Missing
  <2>7. Missing(windows) \in SUBSET ((0 .. n - 1) \ Kept)
    BY <2>5, <2>6
  <2>8. IsFiniteSet((0 .. n - 1) \ Kept)
    <3>1. 0 \in Int /\ n - 1 \in Int
      BY <2>4
    <3>2. IsFiniteSet(0 .. n - 1)
      BY <3>1, FS_Interval
    <3>3. QED
      BY <3>2, FS_Subset
  <2>9. /\ Cardinality(Missing(windows)) <= Cardinality((0 .. n - 1) \ Kept)
        /\ Cardinality(Missing(windows)) \in Nat /\ Cardinality((0 .. n - 1) \ Kept) \in Nat
    BY <2>7, <2>8, FS_Subset, FS_CardinalityType
  <2>10. Cardinality((0 .. n - 1) \ Kept) <= content[last].dropped
    BY <1>3, <2>3 DEF SummaryInv, LostCounted
  <2>11. content[last].dropped <= Dropped /\ content[last].dropped \in Nat
    BY <1>3, <1>4, <1>5
  <2>12. QED
    BY <1>5, <2>9, <2>10, <2>11
<1>9. QED
  BY <1>7, <1>8

THEOREM SummariesReportGaps == SummarySpec => []GapsReported
<1>1. SummaryInv => GapsReported
  <2> SUFFICES ASSUME SummaryInv, written # <<>>
               PROVE  \E summary \in Summary :
                         Cardinality(Missing(summary.windows)) <= summary.dropped
    BY DEF GapsReported
  <2>1. Cardinality(Starts) = 1
    BY StartIsWritten, FS_Singleton
  <2> DEFINE summary == [windows  |-> {r.index : r \in {x \in Read : x.kind = "window"}},
                         failures |-> \E r \in Read : r.kind = "snapshotFailure",
                         dropped  |-> Dropped]
  <2>2. summary \in Summary
    BY <2>1 DEF Summary
  <2>3. Cardinality(Missing(summary.windows)) <= summary.dropped
    BY ReportIsEnough
  <2>4. QED
    BY <2>2, <2>3
<1>2. QED
  BY <1>1, SummaryInvHolds, PTL

(***************************************************************************)
(* A profile with contents is a profile: what is proved of Spec holds of   *)
(* SummarySpec.                                                            *)
(***************************************************************************)
THEOREM SummaryIsProfile == SummarySpec => Spec
<1>1. SummaryInit => Init
  BY DEF SummaryInit
<1>2. QED
  BY <1>1, SummaryStepIsStep, PTL DEF SummarySpec, Spec
==============================================================================
