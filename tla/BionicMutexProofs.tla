-------------------------- MODULE BionicMutexProofs --------------------------
(***************************************************************************)
(* Proofs about BionicMutex, for any threads, any words, any addresses and *)
(* any depth of recursion.                                                 *)
(***************************************************************************)
EXTENDS BionicMutex, TLAPS

(***************************************************************************)
(* The inductive invariant.                                                *)
(***************************************************************************)

\* The code inside of get_mutex is under adapter_lock.
AdapterHeld ==
    \A t \in Threads : pc[t] \in {"test", "store", "leave"} => adapter = t

\* Nobody else is in a call on a word that is initialised or destroyed.
Alone ==
    \A t, u \in Threads :
        /\ pc[t] # "idle" /\ op[t] \in {"init", "destroy"}
        /\ pc[u] # "idle" /\ on[u] = on[t]
        => u = t

\* What a thread knows of its word at each point of its call.
Phase(t) ==
    /\ pc[t] = "init" => op[t] = "init" /\ word[on[t]].at = None
    /\ pc[t] = "store" => word[on[t]].at = None
    /\ pc[t] = "leave" => word[on[t]].at # None
    /\ pc[t] \in {"op", "free"} => got[t] # None /\ got[t] = word[on[t]].at
    /\ pc[t] \in {"free", "clear"} => op[t] = "destroy"
    /\ pc[t] = "free" => \A u \in Threads : held[on[t]][u] = 0

Phases == \A t \in Threads : Phase(t)

\* The rules of POSIX hold until the operation.
Request(t) ==
    pc[t] # "idle" =>
        /\ op[t] = "unlock" => held[on[t]][t] > 0
        /\ op[t] = "trylock" => held[on[t]][t] < MaxDepth
        /\ op[t] = "lock" =>
              \/ held[on[t]][t] = 0 \/ declared[on[t]] = "errorcheck"
              \/ declared[on[t]] = "recursive" /\ held[on[t]][t] < MaxDepth

Requests == \A t \in Threads : Request(t)

\* The address of a word is stale between the free and the store that
\* clears it.
Clearing(p) == \E t \in Threads : pc[t] = "clear" /\ on[t] = p

Has(p, a) == word[p].at = a /\ a # None /\ ~Clearing(p)

\* Allocated mutexes and words that have one correspond one to one.
Belongs ==
    /\ \A p \in Words, a \in Natives : Has(p, a) => a \in live
    /\ \A p, q \in Words, a \in Natives : Has(p, a) /\ Has(q, a) => p = q
    /\ \A a \in live : \E p \in Words : Has(p, a)

Declared == \A p \in Words : word[p].type = declared[p]

\* The mutex of a word is held as the word is.
Mirrored(p, a) ==
    /\ native[a].type = word[p].type
    /\ \A t \in Threads :
          held[p][t] = IF native[a].owner = t THEN native[a].depth ELSE 0
    /\ native[a].depth > 1 => word[p].type = "recursive"

Mirrors ==
    /\ \A p \in Words, a \in Natives : Has(p, a) => Mirrored(p, a)
    /\ \A p \in Words : word[p].at = None \/ Clearing(p) =>
          \A t \in Threads : held[p][t] = 0

IInv ==
    /\ TypeOK /\ AdapterHeld /\ Alone /\ Phases /\ Requests
    /\ Belongs /\ Declared /\ Mirrors
(***************************************************************************)
(* The addresses of the words and what they say of the mutexes stay as     *)
(* they are while no word, no mutex and no holder changes.                 *)
(***************************************************************************)
LEMMA Frame ==
    ASSUME UNCHANGED <<word, live, native, held>>,
           \A p \in Words : Clearing(p)' <=> Clearing(p)
    PROVE  Belongs /\ Mirrors => Belongs' /\ Mirrors'
<1>1. \A p \in Words, a \in Natives : Has(p, a)' <=> Has(p, a)
  BY DEF Has
<1>2. \A p \in Words, a \in Natives : Mirrored(p, a)' <=> Mirrored(p, a)
  BY DEF Mirrored
<1>3. Belongs => Belongs'
  <2> SUFFICES ASSUME Belongs PROVE Belongs'
    OBVIOUS
  <2>1. (\A p \in Words, a \in Natives : Has(p, a) => a \in live)'
    BY <1>1 DEF Belongs
  <2>2. (\A p, q \in Words, a \in Natives : Has(p, a) /\ Has(q, a) => p = q)'
    BY <1>1 DEF Belongs
  <2>3. (\A a \in live : \E p \in Words : Has(p, a))'
    BY <1>1 DEF Belongs, Has
  <2>4. QED
    BY <2>1, <2>2, <2>3 DEF Belongs
<1>4. Mirrors => Mirrors'
  BY <1>1, <1>2 DEF Mirrors
<1>5. QED
  BY <1>3, <1>4

\* A thread at its operation, or at the free, has the mutex of its word.
LEMMA OpWord ==
    ASSUME IInv, NEW t \in Threads, pc[t] \in {"op", "free"}
    PROVE  /\ on[t] \in Words /\ got[t] \in Natives
           /\ Has(on[t], got[t]) /\ Mirrored(on[t], got[t])
<1>1. on[t] \in Words /\ got[t] \in Natives /\ got[t] = word[on[t]].at /\ got[t] # None
  BY DEF IInv, TypeOK, Phases, Phase
<1>2. ~Clearing(on[t])
  BY DEF IInv, Clearing, Alone, Phases, Phase
<1>3. QED
  BY <1>1, <1>2 DEF Has, IInv, Mirrors

(***************************************************************************)
(* Every step preserves the invariant.                                     *)
(***************************************************************************)

LEMMA StepCall ==
    ASSUME IInv, NEW t \in Threads, NEW o \in Ops, NEW p \in Words, Call(t, o, p)
    PROVE  IInv'
<1> USE NoneAssumption, DepthAssumption
    DEF IInv, Call, heapVars, callVars, ghostVars, TypeOK
<1>1. TypeOK'
  BY DEF NativeMutex, Types
<1>2. AdapterHeld'
  BY DEF AdapterHeld
<1>3. Alone'
  BY DEF Alone, Legal, Busy
<1>4. Phases'
  BY DEF Phases, Phase, Legal, Busy
<1>5. Requests'
  BY DEF Requests, Request, Legal, Busy
<1>6. \A p0 \in Words : Clearing(p0)' <=> Clearing(p0)
  BY DEF Clearing
<1>7. Declared'
  BY DEF Declared
<1>8. Belongs' /\ Mirrors'
  BY <1>6, Frame
<1>9. QED
  BY <1>1, <1>2, <1>3, <1>4, <1>5, <1>6, <1>7, <1>8

LEMMA StepInitStore ==
    ASSUME IInv, NEW t \in Threads, InitStore(t)
    PROVE  IInv'
<1> USE NoneAssumption, DepthAssumption
    DEF IInv, InitStore, Raw, heapVars, callVars, ghostVars, TypeOK
<1>1. TypeOK'
  BY DEF NativeMutex, Types
<1>2. AdapterHeld'
  BY DEF AdapterHeld
<1>3. Alone'
  BY DEF Alone
<1>4. Phases'
  BY DEF Phases, Phase
<1>5. Requests'
  <2> SUFFICES ASSUME NEW u \in Threads PROVE Request(u)'
    BY DEF Requests
  <2>1. CASE u = t
    BY <2>1 DEF Request, Phases, Phase
  <2>2. CASE u # t
    <3>1. pc[u] # "idle" => on[u] # on[t]
      BY <2>2 DEF Alone, Phases, Phase
    <3>2. pc[u] # "idle" => declared'[on[u]] = declared[on[u]]
      BY <3>1
    <3>3. QED
      BY <2>2, <3>2 DEF Requests, Request
  <2>3. QED
    BY <2>1, <2>2
<1>a. \A q \in Words : Clearing(q)' <=> Clearing(q)
  BY DEF Clearing
<1>b. word[on[t]].at = None /\ word'[on[t]].at = None
  BY DEF Phases, Phase
<1>c. \A q \in Words : q # on[t] => word'[q] = word[q]
  OBVIOUS
<1>d. \A q \in Words : word'[q].at = word[q].at
  BY <1>b, <1>c
<1>e. \A q \in Words, a \in Natives : Has(q, a)' <=> Has(q, a)
  BY <1>a, <1>d DEF Has
<1>6. Belongs'
  <2>1. (\A q \in Words, a \in Natives : Has(q, a) => a \in live)'
    BY <1>e DEF Belongs
  <2>2. (\A p, q \in Words, a \in Natives : Has(p, a) /\ Has(q, a) => p = q)'
    BY <1>e DEF Belongs
  <2>3. (\A a \in live : \E p \in Words : Has(p, a))'
    BY <1>e DEF Belongs
  <2>4. QED
    BY <2>1, <2>2, <2>3 DEF Belongs
<1>7. Declared'
  BY DEF Declared
<1>8. Mirrors'
  <2>1. ASSUME NEW q \in Words, NEW a \in Natives, Has(q, a)' PROVE Mirrored(q, a)'
    <3>1. q # on[t] /\ Has(q, a)
      BY <1>b, <1>e, <2>1 DEF Has
    <3>2. word'[q] = word[q] /\ Mirrored(q, a)
      BY <1>c, <3>1 DEF Mirrors
    <3>3. QED
      BY <3>2 DEF Mirrored
  <2>2. ASSUME NEW q \in Words, word'[q].at = None \/ Clearing(q)', NEW u \in Threads
        PROVE  held'[q][u] = 0
    BY <1>a, <1>d, <2>2 DEF Mirrors
  <2>3. QED
    BY <2>1, <2>2 DEF Mirrors
<1>9. QED
  BY <1>1, <1>2, <1>3, <1>4, <1>5, <1>6, <1>7, <1>8

LEMMA StepEnter ==
    ASSUME IInv, NEW t \in Threads, Enter(t)
    PROVE  IInv'
<1> USE NoneAssumption, DepthAssumption
    DEF IInv, Enter, heapVars, callVars, ghostVars, TypeOK
<1>1. TypeOK'
  BY DEF NativeMutex, Types
<1>2. AdapterHeld'
  BY DEF AdapterHeld
<1>3. Alone'
  BY DEF Alone
<1>4. Phases'
  BY DEF Phases, Phase
<1>5. Requests'
  BY DEF Requests, Request
<1>6. \A p0 \in Words : Clearing(p0)' <=> Clearing(p0)
  BY DEF Clearing
<1>7. Declared'
  BY DEF Declared
<1>8. Belongs' /\ Mirrors'
  BY <1>6, Frame
<1>9. QED
  BY <1>1, <1>2, <1>3, <1>4, <1>5, <1>6, <1>7, <1>8

LEMMA StepTest ==
    ASSUME IInv, NEW t \in Threads, Test(t)
    PROVE  IInv'
<1> USE NoneAssumption, DepthAssumption
    DEF IInv, Test, heapVars, callVars, ghostVars, TypeOK
<1>1. TypeOK'
  BY DEF NativeMutex, Types
<1>2. AdapterHeld'
  BY DEF AdapterHeld
<1>3. Alone'
  BY DEF Alone
<1>4. Phases'
  BY DEF Phases, Phase
<1>5. Requests'
  BY DEF Requests, Request
<1>6. \A p0 \in Words : Clearing(p0)' <=> Clearing(p0)
  BY DEF Clearing
<1>7. Declared'
  BY DEF Declared
<1>8. Belongs' /\ Mirrors'
  BY <1>6, Frame
<1>9. QED
  BY <1>1, <1>2, <1>3, <1>4, <1>5, <1>6, <1>7, <1>8

LEMMA StepLeave ==
    ASSUME IInv, NEW t \in Threads, Leave(t)
    PROVE  IInv'
<1> USE NoneAssumption, DepthAssumption
    DEF IInv, Leave, heapVars, callVars, ghostVars, TypeOK
<1>1. TypeOK'
  BY DEF NativeMutex, Types
<1>2. AdapterHeld'
  BY DEF AdapterHeld
<1>3. Alone'
  BY DEF Alone
<1>4. Phases'
  BY DEF Phases, Phase
<1>5. Requests'
  BY DEF Requests, Request
<1>6. \A p0 \in Words : Clearing(p0)' <=> Clearing(p0)
  BY DEF Clearing
<1>7. Declared'
  BY DEF Declared
<1>8. Belongs' /\ Mirrors'
  BY <1>6, Frame
<1>9. QED
  BY <1>1, <1>2, <1>3, <1>4, <1>5, <1>6, <1>7, <1>8

LEMMA StepDoInit ==
    ASSUME IInv, NEW t \in Threads, DoInit(t)
    PROVE  IInv'
<1> USE NoneAssumption, DepthAssumption
    DEF IInv, DoInit, Return, heapVars, callVars, ghostVars, TypeOK
<1>1. TypeOK'
  BY DEF NativeMutex, Types
<1>2. AdapterHeld'
  BY DEF AdapterHeld
<1>3. Alone'
  BY DEF Alone
<1>4. Phases'
  BY DEF Phases, Phase
<1>5. Requests'
  BY DEF Requests, Request
<1>6. \A p0 \in Words : Clearing(p0)' <=> Clearing(p0)
  BY DEF Clearing
<1>7. Declared'
  BY DEF Declared
<1>8. Belongs' /\ Mirrors'
  BY <1>6, Frame
<1>9. QED
  BY <1>1, <1>2, <1>3, <1>4, <1>5, <1>6, <1>7, <1>8

LEMMA StepDoDestroy ==
    ASSUME IInv, NEW t \in Threads, DoDestroy(t)
    PROVE  IInv'
<1> USE NoneAssumption, DepthAssumption
    DEF IInv, DoDestroy, heapVars, callVars, ghostVars, TypeOK
<1>1. TypeOK'
  BY DEF NativeMutex, Types
<1>2. AdapterHeld'
  BY DEF AdapterHeld
<1>3. Alone'
  BY DEF Alone
<1>4. Phases'
  <2>1. native[got[t]].owner = None => \A u \in Threads : held[on[t]][u] = 0
    BY OpWord DEF Mirrored
  <2>2. QED
    BY <2>1 DEF Phases, Phase
<1>5. Requests'
  BY DEF Requests, Request
<1>6. \A p0 \in Words : Clearing(p0)' <=> Clearing(p0)
  BY DEF Clearing
<1>7. Declared'
  BY DEF Declared
<1>8. Belongs' /\ Mirrors'
  BY <1>6, Frame
<1>9. QED
  BY <1>1, <1>2, <1>3, <1>4, <1>5, <1>6, <1>7, <1>8

LEMMA StepStoreFails ==
    ASSUME IInv, NEW t \in Threads, StoreFails(t)
    PROVE  IInv'
<1> USE DEF IInv, StoreFails, heapVars, callVars, ghostVars
<1>1. TypeOK'
  BY DEF TypeOK
<1>2. AdapterHeld' /\ Alone' /\ Phases' /\ Requests' /\ Declared'
  BY DEF AdapterHeld, Alone, Phases, Phase, Requests, Request, Declared
<1>3. Belongs' /\ Mirrors'
  BY Frame DEF Clearing
<1>4. QED
  BY <1>1, <1>2, <1>3

LEMMA StepStore ==
    ASSUME IInv, NEW t \in Threads, Store(t)
    PROVE  IInv'
<1> USE NoneAssumption, DepthAssumption
    DEF IInv, Store, callVars, ghostVars, TypeOK
<1> DEFINE p == on[t]
<1>1. PICK a \in Natives \ live :
          /\ live' = live \union {a}
          /\ native' = [native EXCEPT ![a] = Unowned(word[p].type)]
          /\ word' = [word EXCEPT ![p] = [type |-> word[p].type, at |-> a]]
  OBVIOUS
<1>2. p \in Words /\ word[p].at = None /\ a # None
  BY DEF Phases, Phase
<1>3. /\ word'[p] = [type |-> word[p].type, at |-> a]
      /\ \A q \in Words : q # p => word'[q] = word[q]
  BY <1>1, <1>2
<1>4. /\ native'[a] = Unowned(word[p].type)
      /\ \A b \in Natives : b # a => native'[b] = native[b]
  BY <1>1
<1> HIDE DEF p
<1>5. TypeOK'
  <2>1. word' \in [Words -> [type : Types, at : Natives \union {None}]]
    BY <1>1, <1>2
  <2>2. Unowned(word[p].type) \in NativeMutex
    BY <1>2 DEF Unowned, NativeMutex
  <2>3. native' \in [Natives -> NativeMutex]
    BY <1>1, <2>2
  <2>4. \A b \in Natives : native'[b].owner = None <=> native'[b].depth = 0
    BY <1>4 DEF Unowned
  <2>5. QED
    BY <1>1, <2>1, <2>3, <2>4
<1>6. AdapterHeld'
  BY DEF AdapterHeld
<1>7. Alone'
  BY DEF Alone
<1>8. Phases'
  <2> SUFFICES ASSUME NEW u \in Threads PROVE Phase(u)'
    BY DEF Phases
  <2>1. CASE u = t
    BY <1>3, <2>1 DEF Phase, p
  <2>2. CASE u # t /\ on[u] = p
    <3>1. pc[u] \notin {"init", "store"}
      BY <2>2 DEF Alone, AdapterHeld, Phases, Phase, p
    <3>2. pc[u] \notin {"op", "free"}
      BY <1>2, <2>2 DEF Phases, Phase
    <3>3. word'[on[u]].at # None
      BY <1>2, <1>3, <2>2
    <3>4. QED
      BY <2>2, <3>1, <3>2, <3>3 DEF Phases, Phase
  <2>3. CASE u # t /\ on[u] # p
    <3>1. word'[on[u]] = word[on[u]]
      BY <1>3, <2>3
    <3>2. QED
      BY <2>3, <3>1 DEF Phases, Phase
  <2>4. QED
    BY <2>1, <2>2, <2>3
<1>9. Requests'
  BY DEF Requests, Request
<1>10. Declared'
  <2>1. \A q \in Words : word'[q].type = word[q].type
    BY <1>2, <1>3
  <2>2. QED
    BY <2>1 DEF Declared
<1>11. \A q \in Words : Clearing(q)' <=> Clearing(q)
  BY DEF Clearing
<1>12. ~Clearing(p)
  BY DEF Clearing, Alone, Phases, Phase, p
<1>13. \A q \in Words, b \in Natives : Has(q, b)' <=> Has(q, b) \/ (q = p /\ b = a)
  BY <1>2, <1>3, <1>11, <1>12 DEF Has
<1>14. \A q \in Words : ~Has(q, a)
  BY <1>1 DEF Belongs
<1>15. \A b \in Natives : ~Has(p, b)
  BY <1>2 DEF Has
<1>16. Belongs'
  <2>1. (\A q \in Words, b \in Natives : Has(q, b) => b \in live)'
    BY <1>1, <1>13 DEF Belongs
  <2>2. (\A q, r \in Words, b \in Natives : Has(q, b) /\ Has(r, b) => q = r)'
    <3> SUFFICES ASSUME NEW q \in Words, NEW r \in Words, NEW b \in Natives,
                        Has(q, b)', Has(r, b)'
                 PROVE  q = r
      BY DEF Belongs
    <3>1. CASE b = a
      BY <1>13, <1>14, <3>1
    <3>2. CASE b # a
      <4>1. Has(q, b) /\ Has(r, b)
        BY <1>13, <3>2
      <4>2. QED
        BY <4>1 DEF Belongs
    <3>3. QED
      BY <3>1, <3>2
  <2>3. (\A b \in live : \E q \in Words : Has(q, b))'
    BY <1>1, <1>2, <1>13 DEF Belongs
  <2>4. QED
    BY <2>1, <2>2, <2>3 DEF Belongs
<1>17. Mirrors'
  <2>1. ASSUME NEW q \in Words, NEW b \in Natives, Has(q, b)' PROVE Mirrored(q, b)'
    <3>1. CASE q = p /\ b = a
      <4>1. \A u \in Threads : held[p][u] = 0
        BY <1>2 DEF Mirrors
      <4>2. QED
        BY <1>2, <1>3, <1>4, <3>1, <4>1 DEF Mirrored, Unowned
    <3>2. CASE ~(q = p /\ b = a)
      <4>1. Has(q, b) /\ q # p /\ b # a
        BY <1>13, <1>14, <1>15, <2>1, <3>2
      <4>2. Mirrored(q, b) /\ word'[q] = word[q] /\ native'[b] = native[b]
        BY <1>3, <1>4, <4>1 DEF Mirrors
      <4>3. QED
        BY <4>2 DEF Mirrored
    <3>3. QED
      BY <3>1, <3>2
  <2>2. ASSUME NEW q \in Words, word'[q].at = None \/ Clearing(q)', NEW u \in Threads
        PROVE  held'[q][u] = 0
    BY <1>2, <1>3, <1>11, <2>2 DEF Mirrors
  <2>3. QED
    BY <2>1, <2>2 DEF Mirrors
<1>18. QED
  BY <1>5, <1>6, <1>7, <1>8, <1>9, <1>10, <1>16, <1>17

LEMMA StepFree ==
    ASSUME IInv, NEW t \in Threads, Free(t)
    PROVE  IInv'
<1> USE NoneAssumption DEF IInv, Free, callVars, ghostVars, TypeOK
<1> DEFINE p == on[t]
           a == got[t]
<1>1. /\ p \in Words /\ a \in Natives /\ Has(p, a) /\ op[t] = "destroy"
      /\ \A u \in Threads : held[p][u] = 0
  BY OpWord DEF Phases, Phase
<1> HIDE DEF a
<1>2. \A q \in Words : Clearing(q)' <=> Clearing(q) \/ q = p
  BY DEF Clearing
<1> HIDE DEF p
<1>3. \A q \in Words, b \in Natives : Has(q, b)' <=> Has(q, b) /\ q # p
  BY <1>2 DEF Has
<1>4. live' = live \ {a}
  BY DEF a
<1>5. TypeOK'
  BY <1>4
<1>6. AdapterHeld' /\ Alone' /\ Requests' /\ Declared'
  BY DEF AdapterHeld, Alone, Requests, Request, Declared
<1>7. Phases'
  BY DEF Phases, Phase
<1>8. Belongs'
  <2>1. (\A q \in Words, b \in Natives : Has(q, b) => b \in live)'
    <3> SUFFICES ASSUME NEW q \in Words, NEW b \in Natives, Has(q, b)' PROVE b \in live'
      OBVIOUS
    <3>1. Has(q, b) /\ q # p
      BY <1>3
    <3>2. b \in live /\ b # a
      BY <1>1, <3>1 DEF Belongs
    <3>3. QED
      BY <1>4, <3>2
  <2>2. (\A q, r \in Words, b \in Natives : Has(q, b) /\ Has(r, b) => q = r)'
    BY <1>3 DEF Belongs
  <2>3. (\A b \in live : \E q \in Words : Has(q, b))'
    <3> SUFFICES ASSUME NEW b \in live, b # a PROVE \E q \in Words : Has(q, b)'
      BY <1>4
    <3>1. PICK q \in Words : Has(q, b)
      BY DEF Belongs
    <3>2. q # p
      BY <1>1, <3>1 DEF Has
    <3>3. QED
      BY <1>3, <3>1, <3>2
  <2>4. QED
    BY <2>1, <2>2, <2>3 DEF Belongs
<1>9. Mirrors'
  <2>1. ASSUME NEW q \in Words, NEW b \in Natives, Has(q, b)' PROVE Mirrored(q, b)'
    BY <1>3, <2>1 DEF Mirrors, Mirrored
  <2>2. ASSUME NEW q \in Words, word'[q].at = None \/ Clearing(q)', NEW u \in Threads
        PROVE  held'[q][u] = 0
    BY <1>1, <1>2, <2>2 DEF Mirrors
  <2>3. QED
    BY <2>1, <2>2 DEF Mirrors
<1>10. QED
  BY <1>5, <1>6, <1>7, <1>8, <1>9

LEMMA StepClear ==
    ASSUME IInv, NEW t \in Threads, Clear(t)
    PROVE  IInv'
<1> USE NoneAssumption DEF IInv, Clear, Return, callVars, TypeOK
<1> DEFINE p == on[t]
<1>1. p \in Words /\ op[t] = "destroy" /\ Clearing(p)
  BY DEF Phases, Phase, Clearing
<1>2. \A u \in Threads : pc[u] # "idle" /\ on[u] = p => u = t
  BY <1>1 DEF Alone
<1>3. \A q \in Words : Clearing(q)' <=> Clearing(q) /\ q # p
  BY <1>1, <1>2 DEF Clearing
<1>4. /\ word'[p] = Raw("normal") /\ declared'[p] = "normal"
      /\ \A q \in Words : q # p => word'[q] = word[q] /\ declared'[q] = declared[q]
  BY <1>1
<1> HIDE DEF p
<1>5. \A q \in Words, b \in Natives : Has(q, b)' <=> Has(q, b)
  BY <1>1, <1>3, <1>4 DEF Has, Raw
<1>6. TypeOK'
  BY DEF Raw, Types
<1>7. AdapterHeld' /\ Alone'
  BY DEF AdapterHeld, Alone
<1>8. Phases' /\ Requests'
  <2>1. \A u \in Threads : pc'[u] # "idle" =>
            on[u] # p /\ word'[on[u]] = word[on[u]] /\ declared'[on[u]] = declared[on[u]]
            /\ pc'[u] = pc[u]
    BY <1>2, <1>4 DEF p
  <2> SUFFICES ASSUME NEW u \in Threads PROVE Phase(u)' /\ Request(u)'
    BY DEF Phases, Requests
  <2>2. CASE pc'[u] = "idle"
    BY <2>2 DEF Phase, Request
  <2>3. CASE pc'[u] # "idle"
    <3>1. Phase(u) /\ Request(u)
      BY DEF Phases, Requests
    <3>2. Phase(u)'
      BY <2>1, <2>3, <3>1 DEF Phase
    <3>3. Request(u)'
      BY <2>1, <2>3, <3>1 DEF Request
    <3>4. QED
      BY <3>2, <3>3
  <2>4. QED
    BY <2>2, <2>3
<1>9. Declared'
  BY <1>4 DEF Declared, Raw
<1>10. Belongs'
  <2>1. (\A q \in Words, b \in Natives : Has(q, b) => b \in live)'
    BY <1>5 DEF Belongs
  <2>2. (\A q, r \in Words, b \in Natives : Has(q, b) /\ Has(r, b) => q = r)'
    BY <1>5 DEF Belongs
  <2>3. (\A b \in live : \E q \in Words : Has(q, b))'
    BY <1>5 DEF Belongs
  <2>4. QED
    BY <2>1, <2>2, <2>3 DEF Belongs
<1>11. Mirrors'
  <2>1. ASSUME NEW q \in Words, NEW b \in Natives, Has(q, b)' PROVE Mirrored(q, b)'
    <3>1. Has(q, b) /\ q # p
      BY <1>1, <1>5, <2>1 DEF Has
    <3>2. QED
      BY <1>4, <3>1 DEF Mirrors, Mirrored
  <2>2. ASSUME NEW q \in Words, word'[q].at = None \/ Clearing(q)', NEW u \in Threads
        PROVE  held'[q][u] = 0
    BY <1>1, <1>3, <1>4, <2>2 DEF Mirrors
  <2>3. QED
    BY <2>1, <2>2 DEF Mirrors
<1>12. QED
  BY <1>6, <1>7, <1>8, <1>9, <1>10, <1>11

(***************************************************************************)
(* A native operation by which thread t comes to hold its word h times.    *)
(***************************************************************************)
LEMMA Hold ==
    ASSUME IInv, NEW t \in Threads, pc[t] = "op", op[t] # "destroy",
           NEW h \in 0 .. MaxDepth,
           h > 1 => word[on[t]].type = "recursive",
           native[got[t]].owner \in {t, None},
           native' = [native EXCEPT ![got[t]] =
                         [type |-> native[got[t]].type,
                          owner |-> IF h = 0 THEN None ELSE t,
                          depth |-> h]],
           held' = [held EXCEPT ![on[t]] = [held[on[t]] EXCEPT ![t] = h]],
           pc' = [pc EXCEPT ![t] = "idle"],
           UNCHANGED <<word, live, adapter, op, on, got, exited, declared>>
    PROVE  IInv'
<1> USE NoneAssumption, DepthAssumption DEF IInv, TypeOK
<1> DEFINE p == on[t]
           a == got[t]
           m == [type |-> native[a].type, owner |-> IF h = 0 THEN None ELSE t,
                 depth |-> h]
<1>1. p \in Words /\ a \in Natives /\ Has(p, a) /\ Mirrored(p, a)
  BY OpWord
<1>2. native'[a] = m /\ \A b \in Natives : b # a => native'[b] = native[b]
  BY <1>1
<1>3. /\ held'[p][t] = h
      /\ \A u \in Threads : u # t => held'[p][u] = held[p][u]
      /\ \A q \in Words : q # p => held'[q] = held[q]
  BY <1>1
<1>4. \A u \in Threads : u # t => pc'[u] = pc[u]
  OBVIOUS
<1>5. \A q \in Words : Clearing(q)' <=> Clearing(q)
  BY DEF Clearing
<1>6. \A q \in Words, b \in Natives : Has(q, b)' <=> Has(q, b)
  BY <1>5 DEF Has
<1>7. TypeOK'
  <2>1. m \in NativeMutex
    BY <1>1 DEF NativeMutex
  <2>2. native' \in [Natives -> NativeMutex]
    BY <2>1
  <2>3. \A b \in Natives : native'[b].owner = None <=> native'[b].depth = 0
    BY <1>2
  <2>4. held' \in [Words -> [Threads -> 0 .. MaxDepth]]
    OBVIOUS
  <2>5. QED
    BY <2>2, <2>3, <2>4
<1>8. AdapterHeld' /\ Alone' /\ Declared'
  BY DEF AdapterHeld, Alone, Declared
<1>9. Phases'
  <2> SUFFICES ASSUME NEW u \in Threads, u # t PROVE Phase(u)'
    BY DEF Phases, Phase
  <2>1. pc[u] = "free" => on[u] # p
    BY DEF Alone, Phases, Phase
  <2>2. pc[u] = "free" => held'[on[u]] = held[on[u]]
    BY <1>3, <2>1
  <2>3. QED
    BY <1>4, <2>2 DEF Phases, Phase
<1>10. Requests'
  <2> SUFFICES ASSUME NEW u \in Threads, u # t PROVE Request(u)'
    BY DEF Requests, Request
  <2>1. held'[on[u]][u] = held[on[u]][u]
    BY <1>3
  <2>2. QED
    BY <1>4, <2>1 DEF Requests, Request
<1> HIDE DEF p, a, m
<1>11. Belongs'
  <2>1. (\A q \in Words, b \in Natives : Has(q, b) => b \in live)'
    BY <1>6 DEF Belongs
  <2>2. (\A q, r \in Words, b \in Natives : Has(q, b) /\ Has(r, b) => q = r)'
    BY <1>6 DEF Belongs
  <2>3. (\A b \in live : \E q \in Words : Has(q, b))'
    BY <1>6 DEF Belongs
  <2>4. QED
    BY <2>1, <2>2, <2>3 DEF Belongs
<1>12. Mirrors'
  <2>1. ASSUME NEW q \in Words, NEW b \in Natives, Has(q, b)' PROVE Mirrored(q, b)'
    <3>1. CASE q = p
      <4>1. b = a
        BY <1>1, <1>6, <2>1, <3>1 DEF Has
      <4>2. /\ m.type = word[p].type /\ m.depth = h
            /\ m.owner = IF h = 0 THEN None ELSE t
        BY <1>1 DEF m, Mirrored
      <4>3. \A u \in Threads : u # t => held'[p][u] = 0
        BY <1>1, <1>3 DEF Mirrored, a
      <4>4. ASSUME NEW u \in Threads
            PROVE  held'[p][u] = IF m.owner = u THEN m.depth ELSE 0
        BY <1>3, <4>2, <4>3
      <4>5. m.depth > 1 => word[p].type = "recursive"
        BY <4>2 DEF p
      <4>6. QED
        BY <1>2, <3>1, <4>1, <4>2, <4>4, <4>5 DEF Mirrored
    <3>2. CASE q # p
      <4>1. Has(q, b) /\ b # a
        BY <1>1, <1>6, <2>1, <3>2 DEF Belongs
      <4>2. Mirrored(q, b) /\ native'[b] = native[b] /\ held'[q] = held[q]
        BY <1>2, <1>3, <3>2, <4>1 DEF Mirrors
      <4>3. QED
        BY <4>2 DEF Mirrored
    <3>3. QED
      BY <3>1, <3>2
  <2>2. ASSUME NEW q \in Words, word'[q].at = None \/ Clearing(q)', NEW u \in Threads
        PROVE  held'[q][u] = 0
    <3>1. q # p
      BY <1>1, <1>5, <2>2 DEF Has
    <3>2. QED
      BY <1>3, <1>5, <2>2, <3>1 DEF Mirrors
  <2>3. QED
    BY <2>1, <2>2 DEF Mirrors
<1>13. QED
  BY <1>7, <1>8, <1>9, <1>10, <1>11, <1>12

\* A lock or a trylock that takes the mutex.
LEMMA StepTake ==
    ASSUME IInv, NEW t \in Threads, pc[t] = "op", op[t] \in {"lock", "trylock"},
           Takeable(t, got[t]), Take(t, got[t]), Return(t),
           UNCHANGED <<word, live, adapter, callVars, got, exited, declared>>
    PROVE  IInv'
<1> DEFINE h == native[got[t]].depth + 1
<1>1. /\ on[t] \in Words /\ got[t] \in Natives
      /\ native[got[t]] \in NativeMutex /\ Mirrored(on[t], got[t])
  BY OpWord DEF IInv, TypeOK
<1>2. native[got[t]].depth \in 0 .. MaxDepth
  BY <1>1 DEF NativeMutex
<1>3. held[on[t]][t] = native[got[t]].depth
  BY <1>1, NoneAssumption DEF Takeable, Mirrored, IInv, TypeOK
<1>4. native[got[t]].owner = t => native[got[t]].type = "recursive"
  BY NoneAssumption DEF Takeable
<1>5. native[got[t]].owner = None => native[got[t]].depth = 0
  BY <1>1 DEF IInv, TypeOK
<1>6. native[got[t]].depth < MaxDepth
  <2>1. CASE native[got[t]].owner = None
    BY <1>5, <2>1, DepthAssumption
  <2>2. CASE native[got[t]].owner = t
    <3>1. declared[on[t]] = "recursive"
      BY <1>1, <1>4, <2>2 DEF Mirrored, IInv, Declared
    <3>2. held[on[t]][t] = 0 \/ held[on[t]][t] < MaxDepth
      BY <3>1 DEF IInv, Requests, Request
    <3>3. QED
      BY <1>3, <3>2, DepthAssumption
  <2>3. QED
    BY <2>1, <2>2 DEF Takeable
<1>7. h \in 0 .. MaxDepth /\ h # 0
  BY <1>2, <1>6, DepthAssumption
<1>8. h > 1 => word[on[t]].type = "recursive"
  BY <1>1, <1>2, <1>4, <1>5 DEF Takeable, Mirrored
<1>9. held' = [held EXCEPT ![on[t]] = [held[on[t]] EXCEPT ![t] = h]]
  BY <1>3 DEF Take
<1>10. native' = [native EXCEPT ![got[t]] =
                     [type |-> native[got[t]].type,
                      owner |-> IF h = 0 THEN None ELSE t, depth |-> h]]
  BY <1>7 DEF Take
<1> HIDE DEF h
<1>11. QED
  BY <1>7, <1>8, <1>9, <1>10, Hold DEF Takeable, Return, callVars

\* An operation that only returns.
LEMMA StepReturn ==
    ASSUME IInv, NEW t \in Threads, pc[t] = "op", Return(t),
           UNCHANGED <<heapVars, adapter, callVars, got, exited, ghostVars>>
    PROVE  IInv'
<1> USE DEF IInv, Return, heapVars, callVars, ghostVars
<1>1. TypeOK'
  BY DEF TypeOK
<1>2. AdapterHeld' /\ Alone' /\ Phases' /\ Requests' /\ Declared'
  BY DEF TypeOK, AdapterHeld, Alone, Phases, Phase, Requests, Request, Declared
<1>3. \A p \in Words : Clearing(p)' <=> Clearing(p)
  BY DEF TypeOK, Clearing
<1>4. QED
  BY <1>1, <1>2, <1>3, Frame

LEMMA StepDoLock ==
    ASSUME IInv, NEW t \in Threads, DoLock(t)
    PROVE  IInv'
<1>1. CASE Takeable(t, got[t]) /\ Take(t, got[t])
  BY <1>1, StepTake DEF DoLock
<1>2. CASE UNCHANGED <<native, held>>
  BY <1>2, StepReturn DEF DoLock, heapVars, ghostVars
<1>3. QED
  BY <1>1, <1>2 DEF DoLock

LEMMA StepDoTryLock ==
    ASSUME IInv, NEW t \in Threads, DoTryLock(t)
    PROVE  IInv'
<1>1. CASE Takeable(t, got[t]) /\ Take(t, got[t])
  BY <1>1, StepTake DEF DoTryLock
<1>2. CASE UNCHANGED <<native, held>>
  BY <1>2, StepReturn DEF DoTryLock, heapVars, ghostVars
<1>3. QED
  BY <1>1, <1>2 DEF DoTryLock

LEMMA StepDoUnlock ==
    ASSUME IInv, NEW t \in Threads, DoUnlock(t)
    PROVE  IInv'
<1> DEFINE d == native[got[t]].depth
           h == d - 1
<1>1. /\ on[t] \in Words /\ got[t] \in Natives
      /\ native[got[t]] \in NativeMutex /\ Mirrored(on[t], got[t])
  BY OpWord DEF DoUnlock, IInv, TypeOK
<1>2. held[on[t]][t] > 0
  BY DEF DoUnlock, IInv, Requests, Request
<1>3. native[got[t]].owner = t /\ held[on[t]][t] = d
  BY <1>1, <1>2 DEF Mirrored
<1>4. d \in 0 .. MaxDepth /\ d > 0
  BY <1>1, <1>2, <1>3 DEF NativeMutex
<1>5. h \in 0 .. MaxDepth /\ (h = 0 <=> d = 1) /\ (h > 1 => d > 1)
  BY <1>4, DepthAssumption
<1>6. h > 1 => word[on[t]].type = "recursive"
  BY <1>1, <1>5 DEF Mirrored
<1>7. held' = [held EXCEPT ![on[t]] = [held[on[t]] EXCEPT ![t] = h]]
  BY <1>3 DEF DoUnlock
<1>8. native' = [native EXCEPT ![got[t]] =
                    [type |-> native[got[t]].type,
                     owner |-> IF h = 0 THEN None ELSE t, depth |-> h]]
  BY <1>3, <1>5 DEF DoUnlock
<1> HIDE DEF h, d
<1>9. QED
  BY <1>3, <1>5, <1>6, <1>7, <1>8, Hold DEF DoUnlock, Return, callVars

LEMMA IInvInit == Init => IInv
<1> SUFFICES ASSUME Init PROVE IInv
  OBVIOUS
<1> USE NoneAssumption, DepthAssumption DEF Init
<1>1. TypeOK
  <2>1. word \in [Words -> [type : Types, at : Natives \union {None}]]
    BY DEF Raw
  <2>2. \A a \in Natives : native[a] \in NativeMutex /\ native[a].owner = None
                           /\ native[a].depth = 0
    BY DEF Unowned, NativeMutex, Types
  <2>3. native \in [Natives -> NativeMutex]
    BY <2>2
  <2>4. held \in [Words -> [Threads -> 0 .. MaxDepth]]
    OBVIOUS
  <2>5. QED
    BY <2>1, <2>2, <2>3, <2>4 DEF TypeOK, Ops
<1>2. AdapterHeld /\ Alone /\ Phases /\ Requests
  BY DEF AdapterHeld, Alone, Phases, Phase, Requests, Request
<1>3. Declared /\ \A p \in Words : word[p].at = None
  BY DEF Declared, Raw
<1>4. Belongs /\ Mirrors
  BY <1>3 DEF Belongs, Mirrors, Has
<1>5. QED
  BY <1>1, <1>2, <1>3, <1>4 DEF IInv

LEMMA IInvStep == IInv /\ [Next]_vars => IInv'
<1> SUFFICES ASSUME IInv, [Next]_vars PROVE IInv'
  OBVIOUS
<1>1. CASE UNCHANGED vars
  <2> USE <1>1 DEF IInv, vars, heapVars, callVars, ghostVars
  <2>1. TypeOK'
    BY DEF TypeOK
  <2>2. AdapterHeld' /\ Alone' /\ Phases' /\ Requests' /\ Declared'
    BY DEF AdapterHeld, Alone, Phases, Phase, Requests, Request, Declared
  <2>3. Belongs' /\ Mirrors'
    BY Frame DEF Clearing
  <2>4. QED
    BY <2>1, <2>2, <2>3
<1>2. ASSUME NEW t \in Threads, NEW o \in Ops, NEW p \in Words, Call(t, o, p)
      PROVE  IInv'
  BY <1>2, StepCall
<1>3. ASSUME NEW t \in Threads, Step(t)
      PROVE  IInv'
  BY <1>3, StepInitStore, StepEnter, StepTest, StepStore, StepStoreFails, StepLeave,
     StepDoInit, StepDoLock, StepDoTryLock, StepDoUnlock, StepDoDestroy, StepFree,
     StepClear
     DEF Step
<1>4. QED
  BY <1>1, <1>2, <1>3 DEF Next

LEMMA IInvHolds == Spec => []IInv
BY IInvInit, IInvStep, PTL DEF Spec

(***************************************************************************)
(* The variables have their types: in particular no depth exceeds the      *)
(* bound and a mutex has an owner just when its depth is not zero.         *)
(***************************************************************************)
THEOREM TypeCorrect == Spec => []TypeOK
<1>1. IInv => TypeOK
  BY DEF IInv
<1>2. QED
  BY <1>1, IInvHolds, PTL

(***************************************************************************)
(* One thread at a time holds a word, and only a recursive word is held    *)
(* more than once.                                                         *)
(***************************************************************************)
THEOREM Exclusive == Spec => []MutualExclusion
<1>1. IInv => MutualExclusion
  <2> SUFFICES ASSUME IInv, NEW p \in Words, NEW t \in Threads, NEW u \in Threads
               PROVE  /\ held[p][t] > 0 /\ held[p][u] > 0 => t = u
                      /\ held[p][t] > 1 => declared[p] = "recursive"
    BY DEF MutualExclusion
  <2>1. CASE word[p].at = None \/ Clearing(p)
    BY <2>1 DEF IInv, Mirrors
  <2>2. CASE ~(word[p].at = None \/ Clearing(p))
    <3>1. PICK a \in Natives : Has(p, a) /\ Mirrored(p, a)
      BY <2>2 DEF IInv, TypeOK, Has, Mirrors
    <3>2. QED
      BY <3>1 DEF Mirrored, IInv, Declared
  <2>3. QED
    BY <2>1, <2>2
<1>2. QED
  BY <1>1, IInvHolds, PTL

(***************************************************************************)
(* An operation works on the allocated mutex that its word has, and that   *)
(* mutex has the type the word was given.                                  *)
(***************************************************************************)
THEOREM MutexIsRight == Spec => []RightMutex
<1>1. IInv => RightMutex
  <2> SUFFICES ASSUME IInv PROVE RightMutex
    OBVIOUS
  <2>1. ASSUME NEW t \in Threads, pc[t] = "op"
        PROVE  got[t] \in live /\ got[t] = word[on[t]].at
    BY <2>1, OpWord DEF IInv, Belongs, Has
  <2>2. ASSUME NEW p \in Words, word[p].at # None, ~Busy(p, {"init", "destroy"})
        PROVE  native[word[p].at].type = declared[p]
    <3>1. ~Clearing(p)
      BY <2>2 DEF Clearing, Busy, IInv, Phases, Phase
    <3>2. word[p].at \in Natives /\ Has(p, word[p].at)
      BY <2>2, <3>1 DEF Has, IInv, TypeOK
    <3>3. QED
      BY <3>2 DEF IInv, Mirrors, Mirrored, Declared
  <2>3. QED
    BY <2>1, <2>2 DEF RightMutex
<1>2. QED
  BY <1>1, IInvHolds, PTL

(***************************************************************************)
(* Between calls, allocated mutexes and words correspond one to one.       *)
(***************************************************************************)
THEOREM NothingLeaks == Spec => []NoLeak
<1>1. IInv => NoLeak
  <2> SUFFICES ASSUME IInv, \A t \in Threads : pc[t] = "idle"
               PROVE  /\ live = {word[p].at : p \in Words} \ {None}
                      /\ \A p, q \in Words :
                            word[p].at = word[q].at /\ p # q => word[p].at = None
    BY DEF NoLeak
  <2>1. \A p \in Words : ~Clearing(p)
    BY DEF Clearing
  <2>2. \A p \in Words : word[p].at # None =>
            word[p].at \in Natives /\ Has(p, word[p].at)
    BY <2>1 DEF Has, IInv, TypeOK
  <2>3. live \subseteq Natives
    BY DEF IInv, TypeOK
  <2>4. live = {word[p].at : p \in Words} \ {None}
    BY <2>2, <2>3 DEF IInv, Belongs, Has
  <2>5. \A p, q \in Words : word[p].at = word[q].at /\ p # q => word[p].at = None
    BY <2>2 DEF IInv, Belongs
  <2>6. QED
    BY <2>4, <2>5
<1>2. QED
  BY <1>1, IInvHolds, PTL
==============================================================================
