-------------------------- MODULE FmodRuntimeProofs --------------------------
(***************************************************************************)
(* Proofs about FmodRuntime, for any number of threads.                    *)
(***************************************************************************)
EXTENDS FmodRuntime, FiniteSetTheorems, TLAPS

(***************************************************************************)
(* The inductive invariant.                                                *)
(***************************************************************************)

\* The points between Lock and Unlock.
Inside == Loading \union {"check", "unlock"}

LockHeld == \A t \in Threads : pc[t] \in Inside => load_lock = t

Blank == \A i \in Libraries : lib[i] = 0
Whole == \A i \in Libraries : lib[i] = Running

\* The handshake and the libraries when the loading thread is at point p.
Progress(p) ==
    /\ p # "libraries" => Blank
    /\ p = "process" =>
          session = {} /\ sender = "none" /\ ~request /\ probe_process = "none"
    /\ p = "start" => session = {"server", "client"} /\ sender = "none" /\ ~request
    /\ p = "receive" =>
          /\ session = {"server", "client"}
          /\ sender = "sent" <=> request
    /\ p = "close" =>
          /\ session = {"server", "client"} /\ sender = "sent" /\ ~request
          /\ probe_process # "none"
    /\ p = "join" =>
          /\ session = {"client"} /\ sender \in {"sent", "ended"}
          /\ probe_process # "none"
    /\ p = "client" =>
          session = {"client"} /\ sender = "ended" /\ probe_process # "none"
    /\ p = "libraries" =>
          session = {} /\ sender \in {"none", "ended"} /\ probe_process # "none"

Loader ==
    \A t \in Threads : pc[t] \in Loading => ~loaded /\ loads = 1 /\ Progress(pc[t])

\* Before the first load and after it.
AtRest ==
    (\A t \in Threads : pc[t] \notin Loading) =>
        IF loaded THEN loads = 1 /\ Whole /\ Progress("libraries")
                  ELSE loads = 0 /\ Blank /\ Progress("process")

\* The second library follows the first one, by at most one loop.
InStep == lib[2] <= lib[1] /\ lib[1] <= lib[2] + 1

Resolved ==
    \A t \in Threads : t \in symbols \/ pc[t] \in {"unlock", "lookup"} => loaded

OneInit ==
    /\ \A t \in Threads : pc[t] = "init" => once = 1
    /\ \A t, u \in Threads : pc[t] = "init" /\ pc[u] = "init" => t = u
    /\ passed # {} => once = 2

Configured ==
    \A t \in Threads :
        /\ pc[t] \notin {"configure", "release"} => system[t] \in {Absent, Ready}
        /\ pc[t] \in {"configure", "release"} => system[t] \in Bare .. Ready

LoadInv == LockHeld /\ Loader /\ AtRest /\ InStep /\ Resolved
FmodInv == OneInit /\ Configured
IInv == TypeOK /\ LoadInv /\ FmodInv
(***************************************************************************)
(* Every step preserves the types and what the threads know of FMOD.       *)
(***************************************************************************)

LEMMA TypeStep == TypeOK /\ FmodInv /\ [Next]_vars => TypeOK'
<1> SUFFICES ASSUME TypeOK, FmodInv, [Next]_vars PROVE TypeOK'
  OBVIOUS
<1> USE NoneAssumption DEF TypeOK, Loading, Step, loadVars, handleVars, fmodVars,
        Libraries, Loops, Running, Finalized, Absent, Bare, Ready, Stages
<1>1. ASSUME NEW t \in Threads, Call(t) PROVE TypeOK'
  <2>1. CASE Resolve(t)
    BY <2>1 DEF Resolve
  <2>2. CASE Once(t)
    <3>1. pc' = [pc EXCEPT ![t] = "init"] \/ pc' = [pc EXCEPT ![t] = "spin"]
      BY <2>2 DEF Once
    <3>2. once' \in 0 .. 2
      BY <2>2 DEF Once
    <3>3. QED
      BY <2>2, <3>1, <3>2 DEF Once
  <2>3. CASE Create(t)
    BY <2>3 DEF Create
  <2>4. CASE GameReleases(t)
    BY <2>4 DEF GameReleases
  <2>5. QED
    BY <1>1, <2>1, <2>2, <2>3, <2>4 DEF Call
<1>2. ASSUME NEW t \in Threads, Lock(t) \/ Check(t) \/ Unlock(t) \/ Lookup(t)
      PROVE  TypeOK'
  <2>1. CASE Lock(t) \/ Unlock(t)
    BY <2>1 DEF Lock, Unlock
  <2>2. CASE Check(t)
    <3>1. loads' \in Nat
      BY <2>2 DEF Check
    <3>2. pc' = [pc EXCEPT ![t] = "unlock"] \/ pc' = [pc EXCEPT ![t] = "process"]
      BY <2>2 DEF Check
    <3>3. QED
      BY <2>2, <3>1, <3>2 DEF Check
  <2>3. CASE Lookup(t)
    <3>1. symbols' \in SUBSET Threads
      BY <2>3 DEF Lookup
    <3>2. QED
      BY <2>3, <3>1 DEF Lookup
  <2>4. QED
    BY <1>2, <2>1, <2>2, <2>3
<1>3. ASSUME NEW t \in Threads, AcquireProcess(t) PROVE TypeOK'
  BY <1>3, ZenonT(30) DEF AcquireProcess, ProcessHinted, CreateSession, StartSender, Receive,
              CloseServer, Join, CloseClient
<1>4. ASSUME NEW t \in Threads, LoadStep(t) PROVE TypeOK'
  BY <1>4 DEF LoadStep
<1>5. ASSUME NEW t \in Threads, LoadDone(t) \/ LoadFails(t) PROVE TypeOK'
  BY <1>5 DEF LoadDone, LoadFails
<1>6. ASSUME NEW t \in Threads, InitDone(t) \/ Spin(t) PROVE TypeOK'
  <2>1. passed' \in SUBSET Threads
    BY <1>6 DEF InitDone, Spin
  <2>2. pc' = [pc EXCEPT ![t] = "idle"] /\ once' \in 0 .. 2
    BY <1>6 DEF InitDone, Spin
  <2>3. QED
    BY <1>6, <2>1, <2>2 DEF InitDone, Spin
<1>7. ASSUME NEW t \in Threads,
             Configure(t) \/ ConfigureFails(t) \/ ConfigureDone(t) \/ Release(t)
      PROVE  TypeOK'
  <2>1. CASE Configure(t)
    <3>1. system[t] + 1 \in 0 .. 5
      BY <2>1 DEF Configure
    <3>2. system' \in [Threads -> 0 .. 5]
      BY <2>1, <3>1 DEF Configure
    <3>3. QED
      BY <2>1, <3>2 DEF Configure
  <2>2. CASE ConfigureFails(t) \/ ConfigureDone(t)
    BY <2>2 DEF ConfigureFails, ConfigureDone
  <2>3. CASE Release(t)
    BY <2>3 DEF Release
  <2>4. QED
    BY <1>7, <2>1, <2>2, <2>3
<1>8. CASE Sender
  BY <1>8 DEF Sender, Send, SendFails, SendReturns
<1>9. CASE UNCHANGED vars
  BY <1>9 DEF vars
<1>10. QED
  BY <1>1, <1>2, <1>3, <1>4, <1>5, <1>6, <1>7, <1>8, <1>9
     DEF Next, GoOn, AndroidLoad

\* Nothing that FMOD's own state depends on changes while a thread resolves a
\* symbol or loads the libraries.
LEMMA FmodFrame ==
    ASSUME TypeOK, FmodInv, UNCHANGED <<once, passed, system>>,
           \A u \in Threads : pc'[u] = pc[u]
               \/ {pc[u], pc'[u]} \intersect {"init", "configure", "release"} = {}
    PROVE  FmodInv'
BY DEF FmodInv, OneInit, Configured

LEMMA FmodStep == TypeOK /\ FmodInv /\ [Next]_vars => FmodInv'
<1> SUFFICES ASSUME TypeOK, FmodInv, [Next]_vars PROVE FmodInv'
  OBVIOUS
<1> USE DEF Step, loadVars, handleVars, fmodVars
<1>1. ASSUME NEW t \in Threads, Once(t) PROVE FmodInv'
  BY <1>1 DEF TypeOK, FmodInv, OneInit, Configured, Once
<1>2. ASSUME NEW t \in Threads, InitDone(t) \/ Spin(t) PROVE FmodInv'
  BY <1>2 DEF TypeOK, FmodInv, OneInit, Configured, InitDone, Spin
<1>3. ASSUME NEW t \in Threads,
             \/ Create(t) \/ GameReleases(t) \/ Release(t)
             \/ Configure(t) \/ ConfigureFails(t) \/ ConfigureDone(t)
      PROVE  FmodInv'
  <2>1. OneInit'
    BY <1>3 DEF TypeOK, FmodInv, OneInit, Create, GameReleases, Release, Configure,
                ConfigureFails, ConfigureDone
  <2>2. Configured'
    BY <1>3 DEF TypeOK, FmodInv, Configured, Create, GameReleases, Release, Configure,
                ConfigureFails, ConfigureDone, Stages, Absent, Bare, Ready
  <2>3. QED
    BY <2>1, <2>2 DEF FmodInv
<1>4. ASSUME NEW t \in Threads,
             Resolve(t) \/ Lock(t) \/ Check(t) \/ Unlock(t) \/ Lookup(t)
      PROVE  FmodInv'
  BY <1>4, FmodFrame DEF TypeOK, Resolve, Lock, Check, Unlock, Lookup
<1>5. ASSUME NEW t \in Threads, AndroidLoad(t)
      PROVE  FmodInv'
  BY <1>5, FmodFrame DEF TypeOK, AndroidLoad, AcquireProcess, ProcessHinted,
     CreateSession, StartSender, Receive, CloseServer, Join, CloseClient, LoadStep,
     LoadDone, LoadFails
<1>6. CASE Sender \/ UNCHANGED vars
  BY <1>6, FmodFrame DEF Sender, Send, SendFails, SendReturns, vars
<1>7. QED
  BY <1>1, <1>2, <1>3, <1>4, <1>5, <1>6 DEF Next, Call, GoOn

(***************************************************************************)
(* Every step preserves what is known of the loading.                      *)
(***************************************************************************)

\* A step outside of load_lock changes nothing of it; only a thread that looks
\* a symbol up comes to have one.
LEMMA Outside ==
    ASSUME LoadInv, UNCHANGED <<loadVars, lib, handleVars>>,
           \A u \in Threads : pc'[u] = pc[u]
               \/ (pc[u] \notin Inside /\ pc'[u] \notin Inside /\ pc'[u] # "lookup"),
           \A u \in symbols' : u \in symbols \/ pc[u] = "lookup"
    PROVE  LoadInv'
<1> USE DEF LoadInv, loadVars, handleVars
<1>1. \A u \in Threads : pc'[u] = pc[u] \/ (pc[u] \notin Loading /\ pc'[u] \notin Loading)
  BY DEF Inside
<1>2. \A p : Progress(p)' <=> Progress(p)
  BY DEF Progress, Blank
<1>3. LockHeld'
  BY DEF LockHeld
<1>4. Loader'
  BY <1>1, <1>2 DEF Loader
<1>5. AtRest'
  BY <1>1, <1>2 DEF AtRest, Blank, Whole
<1>6. InStep' /\ Resolved'
  BY DEF InStep, Resolved, Inside
<1>7. QED
  BY <1>3, <1>4, <1>5, <1>6

\* A step of the thread that has load_lock.
LEMMA Within ==
    ASSUME TypeOK, LoadInv, NEW t \in Threads, pc[t] \in Inside,
           NEW p \in Inside, pc' = [pc EXCEPT ![t] = p],
           UNCHANGED <<load_lock, symbols>>,
           loaded => loaded',
           p = "unlock" => loaded',
           p \in Loading => ~loaded' /\ loads' = 1 /\ Progress(p)',
           p \notin Loading =>
               IF loaded' THEN loads' = 1 /\ Whole' /\ Progress("libraries")'
                          ELSE loads' = 0 /\ Blank' /\ Progress("process")',
           InStep'
    PROVE  LoadInv'
<1>1. pc'[t] = p /\ \A u \in Threads : u # t => pc'[u] = pc[u] /\ pc[u] \notin Inside
  BY DEF TypeOK, LoadInv, LockHeld
<1>2. LockHeld'
  BY <1>1 DEF LoadInv, LockHeld
<1>3. Loader'
  BY <1>1 DEF Loader, Inside
<1>4. AtRest'
  BY <1>1 DEF AtRest
<1>5. Resolved'
  BY <1>1 DEF LoadInv, Resolved, Inside, Loading
<1>6. QED
  BY <1>2, <1>3, <1>4, <1>5 DEF LoadInv

\* Within load_lock one thread at most is loading.
LEMMA Rest ==
    ASSUME LoadInv, NEW t \in Threads, pc[t] \in {"check", "unlock"}
    PROVE  IF loaded THEN loads = 1 /\ Whole /\ Progress("libraries")
                     ELSE loads = 0 /\ Blank /\ Progress("process")
<1>1. \A u \in Threads : pc[u] \notin Loading
  BY DEF LoadInv, LockHeld, Inside, Loading
<1>2. QED
  BY <1>1 DEF LoadInv, AtRest

LEMMA StepResolve ==
    ASSUME TypeOK, LoadInv, NEW t \in Threads,
           Lock(t) \/ Check(t) \/ Unlock(t) \/ Lookup(t)
    PROVE  LoadInv'
<1> USE NoneAssumption DEF Step, loadVars, handleVars, fmodVars, TypeOK
<1>1. CASE Lock(t)
  <2>1. \A u \in Threads : pc[u] \notin Inside
    BY <1>1 DEF Lock, LoadInv, LockHeld
  <2>2. \A p : Progress(p)' <=> Progress(p)
    BY <1>1 DEF Lock, Progress, Blank
  <2>3. \A u \in Threads : pc[u] \notin Loading /\ pc'[u] \notin Loading
    BY <1>1, <2>1 DEF Lock, Inside, Loading
  <2>4. LockHeld' /\ Loader'
    BY <1>1, <2>1, <2>3 DEF Lock, LockHeld, Loader
  <2>5. AtRest'
    BY <1>1, <2>2, <2>3 DEF Lock, LoadInv, AtRest, Blank, Whole
  <2>6. InStep' /\ Resolved'
    BY <1>1 DEF Lock, LoadInv, InStep, Resolved
  <2>7. QED
    BY <2>4, <2>5, <2>6 DEF LoadInv
<1>2. CASE Check(t)
  <2>1. pc[t] = "check" /\ InStep'
    BY <1>2 DEF Check, LoadInv, InStep
  <2>2. \A p : Progress(p)' <=> Progress(p)
    BY <1>2 DEF Check, Progress, Blank
  <2>3. CASE loaded
    BY <1>2, <2>1, <2>2, <2>3, Rest, Within DEF Check, Inside, Loading, Blank, Whole
  <2>4. CASE ~loaded
    <3>1. loads' = 1 /\ Progress("process")'
      BY <1>2, <2>1, <2>2, <2>4, Rest DEF Check
    <3>2. QED
      BY <1>2, <2>1, <2>4, <3>1, Within DEF Check, Inside, Loading
  <2>5. QED
    BY <2>3, <2>4
<1>3. CASE Unlock(t)
  <2>1. /\ pc[t] = "unlock" /\ loaded
        /\ \A u \in Threads : u # t => pc'[u] = pc[u] /\ pc[u] \notin Inside
    BY <1>3 DEF Unlock, LoadInv, LockHeld, Resolved, Inside
  <2>2. \A p : Progress(p)' <=> Progress(p)
    BY <1>3 DEF Unlock, Progress, Blank
  <2>3. \A u \in Threads : pc'[u] \notin Inside
    BY <1>3, <2>1 DEF Unlock, Inside, Loading
  <2>4. LockHeld' /\ Loader'
    BY <2>3 DEF LockHeld, Loader, Inside
  <2>5. AtRest'
    BY <1>3, <2>1, <2>2, Rest DEF Unlock, AtRest, Blank, Whole
  <2>6. InStep' /\ Resolved'
    BY <1>3, <2>1 DEF Unlock, LoadInv, InStep, Resolved
  <2>7. QED
    BY <2>4, <2>5, <2>6 DEF LoadInv
<1>4. CASE Lookup(t)
  <2>1. \A u \in symbols' : u \in symbols \/ pc[u] = "lookup"
    BY <1>4 DEF Lookup
  <2>2. /\ pc[t] \notin Inside /\ pc'[t] \notin Inside /\ pc'[t] # "lookup"
        /\ \A u \in Threads : u # t => pc'[u] = pc[u]
    BY <1>4 DEF Lookup, Inside, Loading
  <2>3. UNCHANGED <<loadVars, lib, handleVars>>
    BY <1>4 DEF Lookup
  <2> HIDE DEF TypeOK, Step, loadVars, handleVars, fmodVars
  <2>4. \A u \in Threads : pc'[u] = pc[u]
            \/ (pc[u] \notin Inside /\ pc'[u] \notin Inside /\ pc'[u] # "lookup")
    BY <2>2
  <2>5. QED
    BY <2>1, <2>3, <2>4, Outside
<1>5. QED
  BY <1>1, <1>2, <1>3, <1>4

LEMMA StepAcquire ==
    ASSUME TypeOK, LoadInv, NEW t \in Threads, AcquireProcess(t)
    PROVE  LoadInv'
<1> USE DEF Step, loadVars, handleVars, fmodVars
<1>1. PICK p \in Inside : pc' = [pc EXCEPT ![t] = p] /\ p \in Loading
  BY DEF AcquireProcess, ProcessHinted, CreateSession, StartSender, Receive,
         CloseServer, Join, CloseClient, Inside, Loading
<1>2. pc[t] \in Loading /\ pc[t] # "libraries"
  BY DEF AcquireProcess, ProcessHinted, CreateSession, StartSender, Receive,
         CloseServer, Join, CloseClient, Loading
<1>3. ~loaded /\ loads = 1 /\ Progress(pc[t]) /\ Blank
  BY <1>2 DEF LoadInv, Loader, Progress
<1>4. UNCHANGED <<load_lock, loaded, loads, lib, symbols>>
  BY DEF AcquireProcess, ProcessHinted, CreateSession, StartSender, Receive,
         CloseServer, Join, CloseClient
<1>5. Blank' /\ InStep'
  BY <1>3, <1>4 DEF Blank, LoadInv, InStep
<1>6. pc'[t] = p
  BY <1>1 DEF TypeOK
<1>7. Progress(p)'
  <2> USE <1>2, <1>3, <1>5, <1>6 DEF Progress, TypeOK
  <2>1. CASE ProcessHinted(t)
    BY <2>1 DEF ProcessHinted
  <2>2. CASE CreateSession(t)
    BY <2>2 DEF CreateSession
  <2>3. CASE StartSender(t)
    BY <2>3 DEF StartSender
  <2>4. CASE Receive(t)
    BY <2>4 DEF Receive
  <2>5. CASE CloseServer(t)
    BY <2>5 DEF CloseServer
  <2>6. CASE Join(t)
    BY <2>6 DEF Join
  <2>7. CASE CloseClient(t)
    BY <2>7 DEF CloseClient
  <2>8. QED
    BY <2>1, <2>2, <2>3, <2>4, <2>5, <2>6, <2>7 DEF AcquireProcess
<1>8. pc[t] \in Inside /\ p # "unlock"
  BY <1>1, <1>2 DEF Inside, Loading
<1>9. ~loaded' /\ loads' = 1 /\ Progress(p)'
  BY <1>3, <1>4, <1>6, <1>7
<1>10. QED
  BY <1>1, <1>3, <1>4, <1>5, <1>8, <1>9, Within

LEMMA StepLoad ==
    ASSUME TypeOK, LoadInv, NEW t \in Threads, LoadStep(t) \/ LoadDone(t)
    PROVE  LoadInv'
<1> USE DEF Step, loadVars, handleVars, fmodVars
<1>1. /\ pc[t] = "libraries" /\ pc[t] \in Loading
      /\ ~loaded /\ loads = 1 /\ Progress("libraries") /\ InStep
  BY DEF LoadStep, LoadDone, LoadInv, Loader, Loading
<1>2. CASE LoadStep(t)
  <2>1. Progress("libraries")'
    BY <1>1, <1>2 DEF LoadStep, Progress
  <2>2. InStep'
    BY <1>1, <1>2 DEF LoadStep, Turn, InStep, Libraries, TypeOK, Loops
  <2>3. pc' = [pc EXCEPT ![t] = "libraries"]
    BY <1>1, <1>2 DEF LoadStep, TypeOK
  <2>4. QED
    BY <1>1, <1>2, <2>1, <2>2, <2>3, Within DEF LoadStep, Inside, Loading
<1>3. CASE LoadDone(t)
  <2>1. Progress("libraries")' /\ Whole' /\ InStep'
    BY <1>1, <1>3 DEF LoadDone, Progress, Whole, InStep
  <2>2. QED
    BY <1>1, <1>3, <2>1, Within DEF LoadDone, Inside, Loading
<1>4. QED
  BY <1>2, <1>3

LEMMA StepSender ==
    ASSUME TypeOK, LoadInv, Sender
    PROVE  LoadInv'
<1> USE DEF loadVars, handleVars, fmodVars
<1>1. PICK t \in Threads : pc[t] \in Loading
  BY DEF Sender, Send, SendFails, SendReturns, LoadInv, AtRest, Progress
<1>2. PICK p \in Inside : p = pc[t] /\ p \in Loading
  BY <1>1 DEF Inside
<1>3. ~loaded /\ loads = 1 /\ Progress(p)
  BY <1>1, <1>2 DEF LoadInv, Loader
<1>4. Progress(p)'
  BY <1>3 DEF Sender, Send, SendFails, SendReturns, Progress, Blank
<1>5. pc' = [pc EXCEPT ![t] = p]
  BY <1>2 DEF Sender, Send, SendFails, SendReturns, TypeOK
<1>6. InStep'
  BY DEF Sender, Send, SendFails, SendReturns, LoadInv, InStep
<1>7. UNCHANGED <<load_lock, loaded, loads, symbols>>
  BY DEF Sender, Send, SendFails, SendReturns
<1>8. ~loaded' /\ loads' = 1 /\ p # "unlock" /\ pc[t] \in Inside
  BY <1>2, <1>3, <1>7 DEF Loading
<1> HIDE DEF loadVars, handleVars, fmodVars
<1>9. QED
  BY <1>2, <1>3, <1>4, <1>5, <1>6, <1>7, <1>8, Within

LEMMA LoadInvStep == TypeOK /\ LoadInv /\ [Next]_vars => LoadInv'
<1> SUFFICES ASSUME TypeOK, LoadInv, [Next]_vars PROVE LoadInv'
  OBVIOUS
<1> USE DEF Step, loadVars, handleVars, fmodVars
<1>1. ASSUME NEW t \in Threads,
             \/ Call(t) \/ LoadFails(t) \/ InitDone(t) \/ Spin(t)
             \/ Configure(t) \/ ConfigureFails(t) \/ ConfigureDone(t) \/ Release(t)
      PROVE  LoadInv'
  <2> USE <1>1 DEF Call, Resolve, Once, Create, GameReleases, LoadFails, InitDone,
          Spin, Configure, ConfigureFails, ConfigureDone, Release
  <2>1. UNCHANGED <<loadVars, lib, handleVars>> /\ symbols' = symbols
    OBVIOUS
  <2>2. \/ pc' = pc
        \/ /\ pc[t] \in {"idle", "init", "spin", "configure", "release"}
           /\ pc'[t] \in {"idle", "lock", "init", "spin", "configure", "release"}
           /\ \A u \in Threads : u # t => pc'[u] = pc[u]
    BY DEF TypeOK
  <2>3. \A u \in Threads : pc'[u] = pc[u]
            \/ (pc[u] \notin Inside /\ pc'[u] \notin Inside /\ pc'[u] # "lookup")
    <3>1. \A x \in {"idle", "lock", "init", "spin", "configure", "release"} :
              x \notin Inside /\ x # "lookup"
      BY DEF Inside, Loading
    <3>2. QED
      BY <2>2, <3>1
  <2> HIDE <1>1 DEF Step, loadVars, handleVars, fmodVars, Call, Resolve, Once, Create,
          GameReleases, LoadFails, InitDone, Spin, Configure, ConfigureFails,
          ConfigureDone, Release
  <2>4. QED
    BY <2>1, <2>3, Outside
<1>2. CASE UNCHANGED vars
  <2>1. UNCHANGED <<loadVars, lib, handleVars>> /\ symbols' = symbols /\ pc' = pc
    BY <1>2 DEF vars
  <2> HIDE DEF Step, loadVars, handleVars, fmodVars
  <2>2. \A u \in Threads : pc'[u] = pc[u]
    BY <2>1
  <2>3. \A u \in symbols' : u \in symbols
    BY <2>1
  <2>4. QED
    BY <2>1, <2>2, <2>3, Outside
<1>3. QED
  BY <1>1, <1>2, StepResolve, StepAcquire, StepLoad, StepSender
     DEF Next, GoOn, AndroidLoad

LEMMA IInvInit == Init => IInv
<1> SUFFICES ASSUME Init PROVE IInv
  OBVIOUS
<1> USE DEF Init
<1>1. TypeOK
  <2>1. lib \in [Libraries -> Loops] /\ system \in [Threads -> Stages]
    BY DEF Loops, Stages, Absent, Ready
  <2>2. pc \in [Threads -> Loading \union {"idle", "lock", "check", "unlock", "lookup",
                        "init", "spin", "configure", "release"}]
    OBVIOUS
  <2>3. /\ session \in SUBSET {"server", "client"}
        /\ symbols \in SUBSET Threads /\ passed \in SUBSET Threads
    BY Zenon
  <2>4. /\ probe_process = "none" /\ sender = "none" /\ request \in BOOLEAN
        /\ loaded \in BOOLEAN /\ exited \in BOOLEAN
    BY Zenon
  <2>5. QED
    BY <2>1, <2>2, <2>3, <2>4 DEF TypeOK
<1>2. FmodInv
  BY DEF FmodInv, OneInit, Configured
<1>3. LoadInv
  BY DEF LoadInv, LockHeld, Loader, AtRest, InStep, Resolved, Inside, Loading, Blank,
         Progress, Libraries
<1>4. QED
  BY <1>1, <1>2, <1>3 DEF IInv

LEMMA IInvHolds == Spec => []IInv
<1>1. IInv /\ [Next]_vars => IInv'
  BY TypeStep, FmodStep, LoadInvStep DEF IInv
<1>2. QED
  BY <1>1, IInvInit, PTL DEF Spec

(***************************************************************************)
(* The types of the loader: in particular no system is configured beyond   *)
(* its last step, and no library loaded beyond its last loop.              *)
(***************************************************************************)
THEOREM TypeCorrect == Spec => []TypeOK
<1>1. IInv => TypeOK
  BY DEF IInv
<1>2. QED
  BY <1>1, IInvHolds, PTL

(***************************************************************************)
(* The libraries are loaded once, completely before any use, and no        *)
(* constructor runs before the other library is finalized.                 *)
(***************************************************************************)
THEOREM LoadsFirst == Spec => []LoadedBeforeUse
<1>1. IInv => LoadedBeforeUse
  <2> SUFFICES ASSUME IInv PROVE LoadedBeforeUse
    OBVIOUS
  <2>1. loads <= 1
    BY DEF IInv, LoadInv, Loader, AtRest
  <2>2. ASSUME NEW t \in Threads, t \in symbols \/ pc[t] = "lookup" PROVE Whole
    <3>1. loaded
      BY <2>2 DEF IInv, LoadInv, Resolved
    <3>2. QED
      BY <3>1 DEF IInv, LoadInv, Loader, AtRest
  <2>3. \A i, j \in Libraries : lib[i] = Running => lib[j] >= Finalized
    BY DEF IInv, LoadInv, InStep, TypeOK, Libraries, Loops, Running, Finalized
  <2>4. QED
    BY <2>1, <2>2, <2>3 DEF LoadedBeforeUse, Whole
<1>2. QED
  BY <1>1, IInvHolds, PTL

(***************************************************************************)
(* The sender ends before the variable it reads, both ends of the session  *)
(* are closed, and the handle is there before a library is loaded.         *)
(***************************************************************************)
THEOREM HandshakeIsClean == Spec => []HandshakeClean
<1>1. IInv => HandshakeClean
  <2> SUFFICES ASSUME IInv PROVE HandshakeClean
    OBVIOUS
  <2>1. CASE \E t \in Threads : pc[t] \in Loading
    <3>1. PICK t \in Threads : pc[t] \in Loading
      BY <2>1
    <3>2. Progress(pc[t])
      BY <3>1 DEF IInv, LoadInv, Loader
    <3>3. QED
      BY <3>1, <3>2 DEF HandshakeClean, Progress, Blank, Loading
  <2>2. CASE ~\E t \in Threads : pc[t] \in Loading
    BY <2>2 DEF IInv, LoadInv, AtRest, HandshakeClean, Progress, Blank
  <2>3. QED
    BY <2>1, <2>2
<1>2. QED
  BY <1>1, IInvHolds, PTL

(***************************************************************************)
(* The initialiser of a pthread_once runs once, and pthread_once returns   *)
(* to nobody before it has.                                                *)
(***************************************************************************)
THEOREM OnceIsDone == Spec => []OnceDone
<1>1. IInv => OnceDone
  <2> SUFFICES ASSUME IInv PROVE OnceDone
    OBVIOUS
  <2> DEFINE running == {t \in Threads : pc[t] = "init"}
  <2>1. Cardinality(running) <= 1
    <3>1. CASE running = {}
      BY <3>1, FS_EmptySet
    <3>2. CASE running # {}
      <4>1. PICK t \in running : TRUE
        BY <3>2
      <4>2. running = {t}
        BY <4>1 DEF IInv, FmodInv, OneInit
      <4>3. QED
        <5>1. Cardinality({t}) = 1
          BY FS_Singleton
        <5>2. QED
          BY <4>2, <5>1
    <3>3. QED
      BY <3>1, <3>2
  <2>2. passed # {} => once = 2 /\ \A t \in Threads : pc[t] # "init"
    BY DEF IInv, FmodInv, OneInit
  <2>3. QED
    BY <2>1, <2>2 DEF OnceDone
<1>2. QED
  BY <1>1, IInvHolds, PTL

(***************************************************************************)
(* Between calls a game has a configured system, or none.                  *)
(***************************************************************************)
THEOREM NeverHalfConfigured == Spec => []ConfiguredOrNone
<1>1. IInv => ConfiguredOrNone
  BY DEF IInv, FmodInv, Configured, ConfiguredOrNone
<1>2. QED
  BY <1>1, IInvHolds, PTL

(***************************************************************************)
(* Calls end: nobody waits in vain, and nobody is thrown back.             *)
(***************************************************************************)

\* While the libraries are loaded there is always one whose turn it is.
LEMMA SomebodysTurn ==
    ASSUME TypeOK, InStep, ~Whole
    PROVE  \E i \in Libraries : lib[i] < Running /\ Turn(i)
<1>1. lib[1] \in 0 .. 4 /\ lib[2] \in 0 .. 4
  BY DEF TypeOK, Libraries, Loops
<1>2. CASE lib[1] = lib[2]
  <2>1. lib[1] < 4
    BY <1>1, <1>2 DEF Whole, Libraries, Running
  <2>2. Turn(1)
    BY <1>1, <1>2 DEF Turn, Libraries
  <2> QED
    BY <2>1, <2>2 DEF Libraries, Running
<1>3. CASE lib[1] = lib[2] + 1
  <2>1. lib[2] < 4
    BY <1>1, <1>3
  <2>2. Turn(2)
    BY <1>1, <1>3 DEF Turn, Libraries
  <2> QED
    BY <2>1, <2>2 DEF Libraries, Running
<1> QED
  BY <1>1, <1>2, <1>3 DEF InStep

\* Once the lock is held, its holder is inside; once an initialiser was
\* begun, it runs or has ended.
Busy == /\ load_lock # None => load_lock \in Threads /\ pc[load_lock] \in Inside
        /\ once = 1 => \E t \in Threads : pc[t] = "init"
        /\ once = 0 => \A t \in Threads : pc[t] # "spin"

\* No step leaves the lock or the initialiser behind.
LEMMA BusyStep == IInv /\ Busy /\ [Next]_vars => Busy'
<1> SUFFICES ASSUME IInv, Busy, [Next]_vars PROVE Busy'
  OBVIOUS
<1> USE NoneAssumption DEF Inside, Loading, Step, loadVars, handleVars, fmodVars
<1>1. pc \in [Threads -> Loading \union {"idle", "lock", "check", "unlock", "lookup",
                  "init", "spin", "configure", "release"}] /\ once \in 0 .. 2
  BY DEF IInv, TypeOK
<1>2. \A t \in Threads : pc[t] \in Inside => load_lock = t
  BY DEF IInv, LoadInv, LockHeld
<1>3. ASSUME NEW t \in Threads, Call(t) PROVE Busy'
  <2>1. CASE Resolve(t)
    BY <1>1, <1>2, <2>1 DEF Busy, Resolve
  <2>2. CASE Once(t)
    BY <1>1, <1>2, <2>2 DEF Busy, Once
  <2>3. CASE Create(t) \/ GameReleases(t)
    BY <1>1, <1>2, <2>3 DEF Busy, Create, GameReleases
  <2> QED
    BY <1>3, <2>1, <2>2, <2>3 DEF Call
<1>4. ASSUME NEW t \in Threads, Lock(t) \/ Check(t) \/ Unlock(t) \/ Lookup(t)
      PROVE  Busy'
  <2>1. CASE Lock(t)
    BY <1>1, <1>2, <2>1 DEF Busy, Lock
  <2>2. CASE Check(t)
    BY <1>1, <1>2, <2>2 DEF Busy, Check
  <2>3. CASE Unlock(t)
    BY <1>1, <1>2, <2>3 DEF Busy, Unlock
  <2>4. CASE Lookup(t)
    BY <1>1, <1>2, <2>4 DEF Busy, Lookup
  <2> QED
    BY <1>4, <2>1, <2>2, <2>3, <2>4
<1>5. ASSUME NEW t \in Threads, AcquireProcess(t) PROVE Busy'
  <2>1. /\ UNCHANGED <<load_lock, once>>
        /\ \E p, q \in Loading : pc[t] = p /\ pc' = [pc EXCEPT ![t] = q]
    BY <1>5 DEF AcquireProcess, ProcessHinted, CreateSession, StartSender, Receive,
                CloseServer, Join, CloseClient
  <2> QED
    BY <1>1, <1>2, <2>1 DEF Busy
<1>6. ASSUME NEW t \in Threads, LoadStep(t) \/ LoadDone(t) \/ LoadFails(t) PROVE Busy'
  <2>1. CASE LoadStep(t) \/ LoadFails(t)
    BY <2>1 DEF Busy, LoadStep, LoadFails
  <2>2. CASE LoadDone(t)
    BY <1>1, <1>2, <2>2 DEF Busy, LoadDone
  <2> QED
    BY <1>6, <2>1, <2>2
<1>7. ASSUME NEW t \in Threads, InitDone(t) \/ Spin(t) PROVE Busy'
  BY <1>1, <1>2, <1>7 DEF Busy, InitDone, Spin
<1>8. ASSUME NEW t \in Threads,
             Configure(t) \/ ConfigureFails(t) \/ ConfigureDone(t) \/ Release(t)
      PROVE  Busy'
  BY <1>1, <1>2, <1>8 DEF Busy, Configure, ConfigureFails, ConfigureDone, Release
<1>9. CASE Sender
  BY <1>9 DEF Busy, Sender, Send, SendFails, SendReturns
<1>10. CASE UNCHANGED vars
  BY <1>10 DEF Busy, vars
<1> QED
  BY <1>3, <1>4, <1>5, <1>6, <1>7, <1>8, <1>9, <1>10 DEF Next, GoOn, AndroidLoad

\* Neither load_lock, nor the handshake, nor pthread_once can leave threads
\* waiting for each other, however many there are (runtime.c:47,
\* android.c:104 and 334-360).
THEOREM NobodyWaitsInVain == Spec => []WaitsAnswered
<1>1. Init => Busy
  BY DEF Init, Busy
<1>2. IInv /\ Busy => WaitsAnswered
  <2> SUFFICES ASSUME IInv, Busy, NEW t \in Threads
               PROVE  /\ pc[t] = "lock" /\ load_lock # None =>
                            pc[load_lock] \in Loading \union {"check", "unlock"}
                      /\ pc[t] = "join" => \/ sender = "ended"
                                           \/ sender = "sent" /\ "server" \notin session
                      /\ pc[t] = "spin" => once = 2 \/ \E u \in Threads : pc[u] = "init"
                      /\ pc[t] = "libraries" =>
                            \/ \A i \in Libraries : lib[i] = Running
                            \/ \E i \in Libraries : lib[i] < Running /\ Turn(i)
    BY DEF WaitsAnswered
  <2>1. pc[t] = "lock" /\ load_lock # None => pc[load_lock] \in Loading \union {"check", "unlock"}
    BY DEF Busy, Inside
  <2>2. pc[t] \in Loading => Progress(pc[t])
    BY DEF IInv, LoadInv, Loader
  <2>4. pc[t] = "join" => sender = "ended" \/ (sender = "sent" /\ "server" \notin session)
    BY <2>2 DEF Progress, Loading
  <2>5. pc[t] = "spin" => once = 2 \/ \E u \in Threads : pc[u] = "init"
    BY DEF IInv, TypeOK, Busy
  <2>6. Whole \/ \E i \in Libraries : lib[i] < Running /\ Turn(i)
    BY SomebodysTurn DEF IInv, LoadInv
  <2> QED
    BY <2>1, <2>4, <2>5, <2>6 DEF Whole
<1> QED
  BY <1>1, <1>2, BusyStep, IInvHolds, PTL DEF Spec
\* The points of a call, counted.
LEMMA PointsAre ==
    /\ Points["lock"] = 1 /\ Points["check"] = 2 /\ Points["process"] = 3
    /\ Points["start"] = 4 /\ Points["receive"] = 5 /\ Points["close"] = 6
    /\ Points["join"] = 7 /\ Points["client"] = 8 /\ Points["libraries"] = 9
    /\ Points["unlock"] = 18 /\ Points["lookup"] = 19 /\ Points["init"] = 1
    /\ Points["spin"] = 1 /\ Points["configure"] = 1 /\ Points["release"] = 7
BY DEF Points

\* How far a thread at p is, by the loops of the libraries and by what is
\* configured.
LEMMA FarIs ==
    ASSUME NEW p \in Loading \union {"lock", "check", "unlock", "lookup", "init", "spin",
                                     "configure", "release"},
           NEW l \in [Libraries -> Loops], NEW s \in Stages,
           NEW n, n = Points[p] + (IF p = "libraries" THEN l[1] + l[2] ELSE 0)
                                + (IF p = "configure" THEN s ELSE 0)
    PROVE  /\ n \in 1 .. 19
           /\ p = "libraries" => n = 9 + l[1] + l[2] /\ n \in 9 .. 17
           /\ p = "configure" => n = 1 + s /\ n \in 1 .. 6
           /\ p \notin {"libraries", "configure"} => n = Points[p]
<1>1. l[1] \in 0 .. 4 /\ l[2] \in 0 .. 4 /\ s \in 0 .. 5
  BY DEF Libraries, Loops, Stages, Absent, Ready
<1>2. CASE p = "libraries"
  BY <1>1, <1>2, PointsAre
<1>3. CASE p = "configure"
  BY <1>1, <1>3, PointsAre
<1>4. CASE p \notin {"libraries", "configure"}
  <2>1. n = Points[p] + 0 + 0
    BY <1>4
  <2>2. Points[p] \in 1 .. 19
    BY <1>4, PointsAre DEF Loading
  <2> QED
    BY <1>4, <2>1, <2>2
<1> QED
  BY <1>2, <1>3, <1>4

\* How far a thread is, point by point.
LEMMA AheadIs ==
    ASSUME TypeOK, NEW t \in Threads, pc[t] # "idle"
    PROVE  /\ Ahead(t) \in 1 .. 19
           /\ pc[t] = "libraries" => Ahead(t) = 9 + lib[1] + lib[2] /\ Ahead(t) \in 9 .. 17
           /\ pc[t] = "configure" => Ahead(t) = 1 + system[t] /\ Ahead(t) \in 1 .. 6
           /\ pc[t] \notin {"libraries", "configure"} => Ahead(t) = Points[pc[t]]
BY FarIs DEF TypeOK, Ahead

\* The same of the next state.
LEMMA AheadWillBe ==
    ASSUME TypeOK', NEW t \in Threads, pc'[t] # "idle"
    PROVE  /\ Ahead(t)' \in 1 .. 19
           /\ pc'[t] = "libraries" => Ahead(t)' = 9 + lib'[1] + lib'[2] /\ Ahead(t)' \in 9 .. 17
           /\ pc'[t] = "configure" => Ahead(t)' = 1 + system'[t] /\ Ahead(t)' \in 1 .. 6
           /\ pc'[t] \notin {"libraries", "configure"} => Ahead(t)' = Points[pc'[t]]
BY FarIs DEF TypeOK, Ahead

\* Each step of a call brings its thread forward, ends the call, or is the
\* process's last.
LEMMA GoesForward ==
    ASSUME IInv, TypeOK', NEW t \in Threads, GoOn(t)
    PROVE  \/ exited' /\ UNCHANGED <<pc, lib, system>>
           \/ pc'[t] = "idle"
           \/ Ahead(t)' > Ahead(t)
<1> USE DEF Step, loadVars, handleVars, fmodVars
<1>1. TypeOK /\ t \in DOMAIN pc
  BY DEF IInv, TypeOK
<1>2. /\ pc'[t] = "libraries" => Ahead(t)' \in 9 .. 17
      /\ pc'[t] \notin {"idle", "libraries", "configure"} => Ahead(t)' = Points[pc'[t]]
  BY AheadWillBe
<1>3. CASE Lock(t) \/ Check(t) \/ Unlock(t)
  <2>1. \/ pc[t] = "lock" /\ pc'[t] = "check"
        \/ pc[t] = "check" /\ pc'[t] \in {"unlock", "process"}
        \/ pc[t] = "unlock" /\ pc'[t] = "lookup"
    BY <1>1, <1>3 DEF Lock, Check, Unlock
  <2> QED
    BY <1>1, <1>2, <2>1, AheadIs, PointsAre
<1>4. CASE Lookup(t) \/ InitDone(t) \/ Spin(t) \/ ConfigureDone(t) \/ Release(t)
  BY <1>1, <1>4 DEF Lookup, InitDone, Spin, ConfigureDone, Release
<1>5. CASE AcquireProcess(t)
  <2>1. \/ pc[t] = "process" /\ pc'[t] \in {"libraries", "start"}
        \/ pc[t] = "start" /\ pc'[t] = "receive"
        \/ pc[t] = "receive" /\ pc'[t] = "close"
        \/ pc[t] = "close" /\ pc'[t] = "join"
        \/ pc[t] = "join" /\ pc'[t] = "client"
        \/ pc[t] = "client" /\ pc'[t] = "libraries"
    BY <1>1, <1>5 DEF AcquireProcess, ProcessHinted, CreateSession, StartSender, Receive,
                      CloseServer, Join, CloseClient
  <2> QED
    BY <1>1, <1>2, <2>1, AheadIs, PointsAre
<1>6. CASE LoadStep(t)
  <2>1. PICK i \in Libraries : lib' = [lib EXCEPT ![i] = lib[i] + 1]
    BY <1>6 DEF LoadStep
  <2>2. pc[t] = "libraries" /\ pc'[t] = "libraries"
    BY <1>6 DEF LoadStep
  <2>3. lib[1] \in 0 .. 4 /\ lib[2] \in 0 .. 4
    BY <1>1 DEF TypeOK, Libraries, Loops
  <2>4. lib'[1] + lib'[2] = lib[1] + lib[2] + 1
    BY <1>1, <2>1, <2>3 DEF TypeOK, Libraries
  <2>5. lib'[1] \in 0 .. 4 /\ lib'[2] \in 0 .. 4
    BY DEF TypeOK, Libraries, Loops
  <2>6. Ahead(t)' = 9 + lib'[1] + lib'[2]
    BY <2>2, AheadWillBe
  <2>7. Ahead(t) = 9 + lib[1] + lib[2]
    BY <1>1, <2>2, AheadIs
  <2> QED
    BY <2>3, <2>4, <2>5, <2>6, <2>7
<1>7. CASE LoadDone(t)
  <2>1. pc[t] = "libraries" /\ pc'[t] = "unlock"
    BY <1>1, <1>7 DEF LoadDone
  <2> QED
    BY <1>1, <1>2, <2>1, AheadIs, PointsAre
<1>8. CASE LoadFails(t)
  BY <1>8 DEF LoadFails
<1>9. CASE Configure(t)
  <2>1. pc[t] = "configure" /\ pc'[t] = "configure" /\ system'[t] = system[t] + 1
    BY <1>1, <1>9 DEF Configure, TypeOK
  <2>2. system[t] \in 0 .. 5 /\ system'[t] \in 0 .. 5
    BY <1>1 DEF TypeOK, Stages, Absent, Ready
  <2>3. Ahead(t)' = 1 + system'[t]
    BY <2>1, AheadWillBe
  <2>4. Ahead(t) = 1 + system[t]
    BY <1>1, <2>1, AheadIs
  <2> QED
    BY <2>1, <2>2, <2>3, <2>4
<1>10. CASE ConfigureFails(t)
  <2>1. pc[t] = "configure" /\ pc'[t] = "release"
    BY <1>1, <1>10 DEF ConfigureFails
  <2> QED
    BY <1>1, <1>2, <2>1, AheadIs, PointsAre
<1> QED
  BY <1>3, <1>4, <1>5, <1>6, <1>7, <1>8, <1>9, <1>10 DEF GoOn, AndroidLoad

\* A step of another thread, or of the sender, leaves a thread where it is.
LEMMA OthersLeaveAlone ==
    ASSUME IInv, NEW t \in Threads, pc[t] # "idle",
           Sender \/ \E u \in Threads \ {t} : Call(u) \/ GoOn(u)
    PROVE  UNCHANGED <<pc[t], Ahead(t)>>
<1> USE DEF Step, loadVars, handleVars, fmodVars
<1>1. TypeOK /\ LockHeld
  BY DEF IInv, LoadInv
<1>2. CASE Sender
  BY <1>2 DEF Sender, Send, SendFails, SendReturns, Ahead
<1>3. CASE \E u \in Threads \ {t} : Call(u) \/ GoOn(u)
  <2>1. PICK u \in Threads \ {t} : Call(u) \/ GoOn(u)
    BY <1>3
  <2>2. pc'[t] = pc[t] /\ system'[t] = system[t]
    <3>1. CASE Call(u)
      BY <1>1, <2>1, <3>1 DEF Call, Resolve, Once, Create, GameReleases, TypeOK
    <3>2. CASE Lock(u) \/ Check(u) \/ Unlock(u) \/ Lookup(u) \/ InitDone(u) \/ Spin(u)
      BY <1>1, <2>1, <3>2 DEF Lock, Check, Unlock, Lookup, InitDone, Spin, TypeOK
    <3>3. CASE AcquireProcess(u)
      BY <1>1, <2>1, <3>3 DEF AcquireProcess, ProcessHinted, CreateSession, StartSender,
                              Receive, CloseServer, Join, CloseClient, TypeOK
    <3>4. CASE LoadStep(u) \/ LoadDone(u) \/ LoadFails(u)
      BY <1>1, <2>1, <3>4 DEF LoadStep, LoadDone, LoadFails, TypeOK
    <3>5. CASE Configure(u) \/ ConfigureFails(u) \/ ConfigureDone(u) \/ Release(u)
      BY <1>1, <2>1, <3>5 DEF Configure, ConfigureFails, ConfigureDone, Release, TypeOK
    <3> QED
      BY <2>1, <3>1, <3>2, <3>3, <3>4, <3>5 DEF GoOn, AndroidLoad
  <2>3. pc[t] = "libraries" => lib' = lib
    <3>1. LoadStep(u) => pc[u] = "libraries"
      BY DEF LoadStep
    <3>2. pc[t] = "libraries" => pc[u] # "libraries"
      BY <1>1, <2>1 DEF LockHeld, Inside, Loading
    <3>3. LoadStep(u) \/ lib' = lib
      BY <2>1 DEF Call, GoOn, AndroidLoad, AcquireProcess, Resolve, Once, Create, GameReleases,
                  Lock, Check, Unlock, Lookup, InitDone, Spin, ProcessHinted, CreateSession,
                  StartSender, Receive, CloseServer, Join, CloseClient, LoadDone, LoadFails,
                  Configure, ConfigureFails, ConfigureDone, Release
    <3> QED
      BY <3>1, <3>2, <3>3
  <2> QED
    BY <2>2, <2>3 DEF Ahead
<1> QED
  BY <1>2, <1>3

\* A call of a thread takes a bounded number of its own steps, whatever the
\* other threads do meanwhile: no step of anybody throws it back.
THEOREM CallsGoForward == Spec => CallsAdvance
<1> DEFINE P(t) == /\ pc'[t] = "idle" \/ Ahead(t)' >= Ahead(t)
                   /\ GoOn(t) => exited' \/ pc'[t] = "idle" \/ Ahead(t)' > Ahead(t)
<1>1. IInv /\ IInv' /\ [Next]_vars => [\A t \in Threads : pc[t] # "idle" => P(t)]_vars
  <2> SUFFICES ASSUME IInv, IInv', Next, NEW t \in Threads, pc[t] # "idle" PROVE P(t)
    OBVIOUS
  <2>1. TypeOK /\ TypeOK' /\ Ahead(t) \in Nat
    <3>1. TypeOK /\ TypeOK'
      BY DEF IInv
    <3> QED
      BY <3>1, AheadIs
  <2>2. CASE GoOn(t)
    <3>1. UNCHANGED <<pc, lib, system>> => Ahead(t)' = Ahead(t)
      BY DEF Ahead
    <3>2. pc'[t] # "idle" => Ahead(t)' \in Nat
      BY <2>1, AheadWillBe
    <3> QED
      BY <2>1, <2>2, <3>1, <3>2, GoesForward
  <2>3. CASE ~GoOn(t)
    <3>1. ~Call(t)
      BY DEF Call, Resolve, Once, Create, GameReleases, Step
    <3>2. Sender \/ \E u \in Threads \ {t} : Call(u) \/ GoOn(u)
      BY <2>3, <3>1 DEF Next
    <3>3. Ahead(t)' = Ahead(t)
      BY <3>2, OthersLeaveAlone
    <3> QED
      BY <2>1, <2>3, <3>3
  <2> QED
    BY <2>2, <2>3
<1> QED
  BY <1>1, IInvHolds, PTL DEF Spec, CallsAdvance
==============================================================================
