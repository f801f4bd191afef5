----------------------------- MODULE BionicMutex -----------------------------
(***************************************************************************)
(* The mutexes of android.c.  A Bionic mutex is one word of the caller; it *)
(* starts as a small number, its type, and the first call that needs it    *)
(* allocates a native mutex and stores its address in the word.  The look  *)
(* at the word and the store are done under adapter_lock; mutex_init and   *)
(* mutex_destroy also write the word, outside of it.                       *)
(*                                                                         *)
(* The callers keep to the rules of POSIX: nobody else is in a call on a   *)
(* mutex that is being initialised or destroyed, only a raw word is        *)
(* initialised, only the holder unlocks, and a plain mutex is not locked   *)
(* again by its holder.  malloc may give a freed mutex's address again.    *)
(***************************************************************************)
EXTENDS Naturals

CONSTANTS
    Threads,    \* the threads of FMOD
    Words,      \* the mutexes of FMOD, by the address of their word
    Natives,    \* addresses malloc may return
    None,       \* no thread, no address
    MaxDepth    \* bound: depth of recursive locking

ASSUME NoneAssumption  == None \notin Threads /\ None \notin Natives
ASSUME DepthAssumption == MaxDepth \in Nat \ {0}

VARIABLES
    word,       \* the word: its type bits and its address, or None
    live,       \* the addresses that are allocated
    native,     \* the native mutexes: type, owner and depth
    adapter,    \* holder of adapter_lock, or None
    pc,         \* "idle", "init": about to store the type, "get": at
                \* adapter_lock, "test", "store", "leave": inside of it, "op",
                \* "free", "clear": about to clear the word
    op, on,     \* the call and its word
    got,        \* what get_mutex returned
    exited,     \* has an allocation failed?  The process exits then.
    held,       \* history: how often each thread holds each word
    declared    \* history: the type each word was given

heapVars  == <<word, live, native>>
callVars  == <<op, on>>
ghostVars == <<held, declared>>
vars == <<heapVars, adapter, pc, callVars, got, exited, ghostVars>>

Types == {"normal", "recursive", "errorcheck"}
Ops   == {"init", "lock", "trylock", "unlock", "destroy"}

Raw(type) == [type |-> type, at |-> None]
Unowned(type) == [type |-> type, owner |-> None, depth |-> 0]

\* Static initialisers give a word any of the types.
Init ==
    /\ declared \in [Words -> Types]
    /\ word = [p \in Words |-> Raw(declared[p])]
    /\ live = {} /\ native = [a \in Natives |-> Unowned("normal")]
    /\ adapter = None /\ pc = [t \in Threads |-> "idle"]
    /\ op \in [Threads -> {"lock"}] /\ on \in [Threads -> Words]
    /\ got = [t \in Threads |-> None]
    /\ held = [p \in Words |-> [t \in Threads |-> 0]]
    /\ exited = FALSE

(***************************************************************************)
(* Mutated forms, for the mutation runs.                                   *)
(***************************************************************************)

\* get_mutex without adapter_lock.
EnterUnlocked(t) ==
    /\ pc[t] = "get"
    /\ pc' = [pc EXCEPT ![t] = "test"]
    /\ UNCHANGED <<heapVars, adapter, callVars, got, exited, ghostVars>>

\* The word is cleared and the mutex forgotten.
FreeNothing(t) ==
    /\ pc[t] = "free"
    /\ pc' = [pc EXCEPT ![t] = "clear"]
    /\ UNCHANGED <<heapVars, adapter, callVars, got, exited, ghostVars>>

\* The word keeps its address.
ClearNothing(t) ==
    /\ pc[t] = "clear"
    /\ pc' = [pc EXCEPT ![t] = "idle"]
    /\ UNCHANGED <<heapVars, adapter, callVars, got, exited, ghostVars>>

(***************************************************************************)
(* The calls                                                               *)
(***************************************************************************)

Busy(p, ops) == \E t \in Threads : pc[t] # "idle" /\ on[t] = p /\ op[t] \in ops

\* The rules of POSIX.
Legal(t, o, p) ==
    \/ o = "init" /\ word[p].at = None /\ ~Busy(p, Ops)
    \/ o = "destroy" /\ ~Busy(p, Ops)
    \/ /\ o = "lock" /\ ~Busy(p, {"init", "destroy"})
       /\ held[p][t] = 0 \/ declared[p] = "errorcheck"
            \/ (declared[p] = "recursive" /\ held[p][t] < MaxDepth)
    \/ o = "trylock" /\ ~Busy(p, {"init", "destroy"}) /\ held[p][t] < MaxDepth
    \/ o = "unlock" /\ ~Busy(p, {"init", "destroy"}) /\ held[p][t] > 0

Call(t, o, p) ==
    /\ pc[t] = "idle" /\ Legal(t, o, p)
    /\ op' = [op EXCEPT ![t] = o] /\ on' = [on EXCEPT ![t] = p]
    /\ pc' = [pc EXCEPT ![t] = IF o = "init" THEN "init" ELSE "get"]
    /\ UNCHANGED <<heapVars, adapter, got, exited, ghostVars>>

\* mutex_init stores the type, then allocates.
InitStore(t) ==
    /\ pc[t] = "init"
    /\ \E type \in Types :
        /\ word' = [word EXCEPT ![on[t]] = Raw(type)]
        /\ declared' = [declared EXCEPT ![on[t]] = type]
    /\ pc' = [pc EXCEPT ![t] = "get"]
    /\ UNCHANGED <<live, native, adapter, callVars, got, exited, held>>

(***************************************************************************)
(* get_mutex                                                               *)
(***************************************************************************)

Enter(t) ==
    /\ pc[t] = "get" /\ adapter = None
    /\ adapter' = t
    /\ pc' = [pc EXCEPT ![t] = "test"]
    /\ UNCHANGED <<heapVars, callVars, got, exited, ghostVars>>

Test(t) ==
    /\ pc[t] = "test"
    /\ pc' = [pc EXCEPT ![t] = IF word[on[t]].at = None THEN "store" ELSE "leave"]
    /\ UNCHANGED <<heapVars, adapter, callVars, got, exited, ghostVars>>

\* A new mutex of the word's type, and its address in the word.
Store(t) ==
    /\ pc[t] = "store"
    /\ \E a \in Natives \ live :
        /\ live' = live \union {a}
        /\ native' = [native EXCEPT ![a] = Unowned(word[on[t]].type)]
        /\ word' = [word EXCEPT ![on[t]] = [type |-> word[on[t]].type, at |-> a]]
    /\ pc' = [pc EXCEPT ![t] = "leave"]
    /\ UNCHANGED <<adapter, callVars, got, exited, ghostVars>>

\* No memory, or no mutex of the system: fatal_error.
StoreFails(t) ==
    /\ pc[t] = "store"
    /\ exited' = TRUE
    /\ UNCHANGED <<heapVars, adapter, pc, callVars, got, ghostVars>>

Leave(t) ==
    /\ pc[t] = "leave"
    /\ got' = [got EXCEPT ![t] = word[on[t]].at]
    /\ adapter' = None
    /\ pc' = [pc EXCEPT ![t] = "op"]
    /\ UNCHANGED <<heapVars, callVars, exited, ghostVars>>

(***************************************************************************)
(* The native operations, and what follows them                            *)
(***************************************************************************)

Return(t) == pc' = [pc EXCEPT ![t] = "idle"]

Take(t, a) ==
    /\ native' = [native EXCEPT ![a] = [type |-> native[a].type, owner |-> t,
                                        depth |-> native[a].depth + 1]]
    /\ held' = [held EXCEPT ![on[t]] = [held[on[t]] EXCEPT ![t] = held[on[t]][t] + 1]]

Takeable(t, a) ==
    \/ native[a].owner = None
    \/ native[a].owner = t /\ native[a].type = "recursive"

DoInit(t) ==
    /\ pc[t] = "op" /\ op[t] = "init"
    /\ Return(t)
    /\ UNCHANGED <<heapVars, adapter, callVars, got, exited, ghostVars>>

\* A lock waits for a mutex of others; an error-checking one reports its own.
DoLock(t) ==
    /\ pc[t] = "op" /\ op[t] = "lock"
    /\ \/ Takeable(t, got[t]) /\ Take(t, got[t])
       \/ /\ native[got[t]].owner = t /\ native[got[t]].type = "errorcheck"
          /\ UNCHANGED <<native, held>>
    /\ Return(t)
    /\ UNCHANGED <<word, live, adapter, callVars, got, exited, declared>>

DoTryLock(t) ==
    /\ pc[t] = "op" /\ op[t] = "trylock"
    /\ IF Takeable(t, got[t]) THEN Take(t, got[t]) ELSE UNCHANGED <<native, held>>
    /\ Return(t)
    /\ UNCHANGED <<word, live, adapter, callVars, got, exited, declared>>

DoUnlock(t) ==
    /\ pc[t] = "op" /\ op[t] = "unlock"
    /\ native' = [native EXCEPT ![got[t]] =
                     [type |-> native[got[t]].type,
                      owner |-> IF native[got[t]].depth = 1 THEN None ELSE native[got[t]].owner,
                      depth |-> native[got[t]].depth - 1]]
    /\ held' = [held EXCEPT ![on[t]] = [held[on[t]] EXCEPT ![t] = held[on[t]][t] - 1]]
    /\ Return(t)
    /\ UNCHANGED <<word, live, adapter, callVars, got, exited, declared>>

\* A mutex that is locked is not destroyed.
DoDestroy(t) ==
    /\ pc[t] = "op" /\ op[t] = "destroy"
    /\ pc' = [pc EXCEPT ![t] = IF native[got[t]].owner = None THEN "free" ELSE "idle"]
    /\ UNCHANGED <<heapVars, adapter, callVars, got, exited, ghostVars>>

Free(t) ==
    /\ pc[t] = "free"
    /\ live' = live \ {got[t]}
    /\ pc' = [pc EXCEPT ![t] = "clear"]
    /\ UNCHANGED <<word, native, adapter, callVars, got, exited, ghostVars>>

Clear(t) ==
    /\ pc[t] = "clear"
    /\ word' = [word EXCEPT ![on[t]] = Raw("normal")]
    /\ declared' = [declared EXCEPT ![on[t]] = "normal"]
    /\ Return(t)
    /\ UNCHANGED <<live, native, adapter, callVars, got, exited, held>>

Step(t) ==
    \/ InitStore(t) \/ Enter(t) \/ Test(t) \/ Store(t) \/ StoreFails(t) \/ Leave(t)
    \/ DoInit(t) \/ DoLock(t) \/ DoTryLock(t) \/ DoUnlock(t) \/ DoDestroy(t)
    \/ Free(t) \/ Clear(t)

Next ==
    /\ ~exited
    /\ \E t \in Threads :
        \/ \E o \in Ops, p \in Words : Call(t, o, p)
        \/ Step(t)

Spec == Init /\ [][Next]_vars

(***************************************************************************)
(* Properties                                                              *)
(***************************************************************************)

NativeMutex == [type : Types, owner : Threads \union {None}, depth : 0 .. MaxDepth]

TypeOK ==
    /\ word \in [Words -> [type : Types, at : Natives \union {None}]]
    /\ live \in SUBSET Natives /\ native \in [Natives -> NativeMutex]
    /\ \A a \in Natives : native[a].owner = None <=> native[a].depth = 0
    /\ adapter \in Threads \union {None}
    /\ pc \in [Threads -> {"idle", "init", "get", "test", "store", "leave", "op",
                           "free", "clear"}]
    /\ op \in [Threads -> Ops] /\ on \in [Threads -> Words]
    /\ got \in [Threads -> Natives \union {None}]
    /\ exited \in BOOLEAN
    /\ held \in [Words -> [Threads -> 0 .. MaxDepth]] /\ declared \in [Words -> Types]

\* A word is held by one thread at a time, also when several threads meet at
\* its first use, and only a recursive one more than once.
MutualExclusion ==
    \A p \in Words : \A t, u \in Threads :
        /\ held[p][t] > 0 /\ held[p][u] > 0 => t = u
        /\ held[p][t] > 1 => declared[p] = "recursive"

\* An operation works on an allocated mutex, the one its word has; and between
\* an initialisation and a destruction that mutex has the type its word was
\* given.
RightMutex ==
    /\ \A t \in Threads :
        pc[t] = "op" => got[t] \in live /\ got[t] = word[on[t]].at
    /\ \A p \in Words : word[p].at # None /\ ~Busy(p, {"init", "destroy"}) =>
        native[word[p].at].type = declared[p]

\* Between calls each allocated mutex belongs to one word: none is leaked, and
\* no word has a freed one.
NoLeak ==
    (\A t \in Threads : pc[t] = "idle") =>
        /\ live = {word[p].at : p \in Words} \ {None}
        /\ \A p, q \in Words : word[p].at = word[q].at /\ p # q => word[p].at = None
==============================================================================
