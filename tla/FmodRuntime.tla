----------------------------- MODULE FmodRuntime -----------------------------
(***************************************************************************)
(* How FMOD gets into the process: runtime.c resolves the P/Invokes of the *)
(* game, on any of its threads, and loads the Android libraries at the     *)
(* first one (android_load of android.c); what it resolves creates FMOD    *)
(* systems, which are configured for Horizon before the game sees them     *)
(* (CelesteFmodConfigure of output.c).                                     *)
(*                                                                         *)
(* Loading needs the handle of the process itself.  Unless the launcher    *)
(* provides it, the loading thread sends it to itself: a sender thread     *)
(* makes a request with the handle on a session, the loading thread        *)
(* receives it and closes the session without a reply.                     *)
(***************************************************************************)
EXTENDS Naturals, FiniteSets

CONSTANTS
    Threads,    \* the threads of the game
    None        \* no thread

ASSUME NoneAssumption == None \notin Threads

VARIABLES
    load_lock,      \* its holder, or None
    loaded,         \* the flag it protects
    lib,            \* per library, the loops of android_load it has passed
    probe_process,  \* "none", "hinted": by the launcher, or "received"
    session,        \* the ends of the session that are open
    request,        \* has the sender's request arrived and not been received?
    sender,         \* "none", "started", "sent": waits for a reply, "ended"
    pc,             \* "idle", "lock", "check", "process", "start", "receive",
                    \* "close", "join", "client", "libraries", "unlock",
                    \* "lookup", "init", "spin", "configure", "release"
    symbols,        \* the threads that have resolved a symbol of FMOD
    once,           \* a pthread_once_t of FMOD: 0, 1: running, 2: done
    passed,         \* history: the threads whose pthread_once has returned
    system,         \* the system each thread has, by what is configured
    loads,          \* history: how often android_load began
    exited          \* fatal_error has ended the process

loadVars   == <<load_lock, loaded, loads>>
handleVars == <<probe_process, session, request, sender>>
fmodVars   == <<symbols, once, passed, system>>
vars == <<loadVars, lib, handleVars, pc, fmodVars, exited>>

\* libfmod and libfmodstudio, and the loops of android_load: a library is
\* loaded and relocated, resolved, finalized, and constructed.
Libraries == 1 .. 2
Loops     == 0 .. 4
Finalized == 3
Running   == 4

\* The steps of CelesteFmodConfigure, and a system that is not there.
Absent == 0
Bare   == 1
Ready  == 5
Stages == Absent .. Ready   \* Bare, registered, selected, format, buffer

Init ==
    /\ load_lock = None /\ loaded = FALSE /\ loads = 0
    /\ lib = [i \in Libraries |-> 0]
    /\ probe_process = "none" /\ session = {} /\ request = FALSE /\ sender = "none"
    /\ pc = [t \in Threads |-> "idle"]
    /\ symbols = {} /\ once = 0 /\ passed = {}
    /\ system = [t \in Threads |-> Absent]
    /\ exited = FALSE

Step(t, from, to) == pc[t] = from /\ pc' = [pc EXCEPT ![t] = to]

(***************************************************************************)
(* Mutated forms, for the mutation runs.                                   *)
(***************************************************************************)

\* CelesteFmodResolve without load_lock.
LockNothing(t) ==
    /\ Step(t, "lock", "check")
    /\ UNCHANGED <<loadVars, lib, handleVars, fmodVars, exited>>

\* The sender is not joined.
JoinNothing(t) ==
    /\ Step(t, "join", "client")
    /\ UNCHANGED <<loadVars, lib, handleVars, fmodVars, exited>>

\* The server's end is only closed after the join.
CloseServerLate(t) ==
    /\ Step(t, "close", "join")
    /\ UNCHANGED <<loadVars, lib, handleVars, fmodVars, exited>>

\* pthread_once waits for the start of the initialiser, not for its end.
SpinStarted(t) ==
    /\ Step(t, "spin", "idle")
    /\ once # 0
    /\ passed' = passed \union {t}
    /\ UNCHANGED <<loadVars, lib, handleVars, symbols, once, system, exited>>

\* The caller gets the error and the system.
ConfigureFailsOnly(t) ==
    /\ system[t] < Ready
    /\ Step(t, "configure", "idle")
    /\ UNCHANGED <<loadVars, lib, handleVars, fmodVars, exited>>

\* A configuration that fails is tried again on the same system.
ConfigureRetries(t) ==
    /\ pc[t] = "configure" /\ system[t] < Ready
    /\ system' = [system EXCEPT ![t] = Bare]
    /\ UNCHANGED <<loadVars, lib, handleVars, pc, symbols, once, passed, exited>>

(***************************************************************************)
(* CelesteFmodResolve                                                      *)
(***************************************************************************)

\* An entry of one of the FMOD libraries.
Resolve(t) ==
    /\ Step(t, "idle", "lock")
    /\ UNCHANGED <<loadVars, lib, handleVars, fmodVars, exited>>

Lock(t) ==
    /\ Step(t, "lock", "check")
    /\ load_lock = None /\ load_lock' = t
    /\ UNCHANGED <<loaded, loads, lib, handleVars, fmodVars, exited>>

Check(t) ==
    /\ \/ loaded /\ Step(t, "check", "unlock") /\ UNCHANGED loads
       \/ ~loaded /\ Step(t, "check", "process") /\ loads' = loads + 1
    /\ UNCHANGED <<load_lock, loaded, lib, handleVars, fmodVars, exited>>

Unlock(t) ==
    /\ Step(t, "unlock", "lookup")
    /\ load_lock' = None
    /\ UNCHANGED <<loaded, loads, lib, handleVars, fmodVars, exited>>

\* The entry may be missing.
Lookup(t) ==
    /\ Step(t, "lookup", "idle")
    /\ symbols' \in {symbols, symbols \union {t}}
    /\ UNCHANGED <<loadVars, lib, handleVars, once, passed, system, exited>>

(***************************************************************************)
(* acquire_process                                                         *)
(***************************************************************************)

ProcessHinted(t) ==
    /\ Step(t, "process", "libraries")
    /\ probe_process' = "hinted"
    /\ UNCHANGED <<loadVars, lib, session, request, sender, fmodVars, exited>>

CreateSession(t) ==
    /\ Step(t, "process", "start")
    /\ session' = {"server", "client"}
    /\ UNCHANGED <<loadVars, lib, probe_process, request, sender, fmodVars, exited>>

\* The sender gets the address of the local variable client.  Whether it could
\* be started is not looked at.
StartSender(t) ==
    /\ Step(t, "start", "receive")
    /\ sender' \in {"started", "none"}
    /\ UNCHANGED <<loadVars, lib, probe_process, session, request, fmodVars, exited>>

\* svcSendSyncRequest
Send ==
    /\ sender = "started"
    /\ sender' = "sent"
    /\ request' = TRUE
    /\ UNCHANGED <<loadVars, lib, probe_process, session, pc, fmodVars, exited>>

\* It fails at once, which is only logged.
SendFails ==
    /\ sender = "started"
    /\ sender' = "ended"
    /\ UNCHANGED <<loadVars, lib, probe_process, session, request, pc, fmodVars, exited>>

\* It returns with an error when the server's end is closed: nobody replies.
SendReturns ==
    /\ sender = "sent" /\ "server" \notin session
    /\ sender' = "ended"
    /\ UNCHANGED <<loadVars, lib, probe_process, session, request, pc, fmodVars, exited>>

Receive(t) ==
    /\ Step(t, "receive", "close")
    /\ request /\ request' = FALSE
    /\ probe_process' = "received"
    /\ UNCHANGED <<loadVars, lib, session, sender, fmodVars, exited>>

CloseServer(t) ==
    /\ Step(t, "close", "join")
    /\ session' = session \ {"server"}
    /\ UNCHANGED <<loadVars, lib, probe_process, request, sender, fmodVars, exited>>

Join(t) ==
    /\ Step(t, "join", "client")
    /\ sender = "ended"
    /\ UNCHANGED <<loadVars, lib, handleVars, fmodVars, exited>>

CloseClient(t) ==
    /\ Step(t, "client", "libraries")
    /\ session' = session \ {"client"}
    /\ UNCHANGED <<loadVars, lib, probe_process, request, sender, fmodVars, exited>>

(***************************************************************************)
(* The rest of android_load                                                *)
(***************************************************************************)

\* Each loop goes through all libraries before the next one begins.
Turn(i) == \A j \in Libraries : lib[j] >= lib[i] /\ (j < i => lib[j] > lib[i])

LoadStep(t) ==
    /\ pc[t] = "libraries"
    /\ \E i \in Libraries :
        /\ lib[i] < Running /\ Turn(i)
        /\ lib' = [lib EXCEPT ![i] = lib[i] + 1]
    /\ UNCHANGED <<loadVars, handleVars, pc, fmodVars, exited>>

LoadDone(t) ==
    /\ Step(t, "libraries", "unlock")
    /\ \A i \in Libraries : lib[i] = Running
    /\ loaded' = TRUE
    /\ UNCHANGED <<load_lock, loads, lib, handleVars, fmodVars, exited>>

\* fatal_error: the session, its thread, a request that has not come within one
\* second, if at all, or a library that cannot be loaded or resolved.
LoadFails(t) ==
    /\ \/ pc[t] \in {"process", "start", "receive"}
       \/ pc[t] = "libraries" /\ \E i \in Libraries : lib[i] < Finalized - 1
    /\ exited' = TRUE
    /\ UNCHANGED <<loadVars, lib, handleVars, pc, fmodVars>>

(***************************************************************************)
(* once, in the code of FMOD                                               *)
(***************************************************************************)

\* The compare-and-exchange of the word.
Once(t) ==
    /\ t \in symbols
    /\ \/ once = 0 /\ once' = 1 /\ Step(t, "idle", "init")
       \/ once # 0 /\ Step(t, "idle", "spin") /\ UNCHANGED once
    /\ UNCHANGED <<loadVars, lib, handleVars, symbols, passed, system, exited>>

InitDone(t) ==
    /\ Step(t, "init", "idle")
    /\ once' = 2
    /\ passed' = passed \union {t}
    /\ UNCHANGED <<loadVars, lib, handleVars, symbols, system, exited>>

\* The word is looked at again every 100 microseconds.
Spin(t) ==
    /\ Step(t, "spin", "idle")
    /\ once = 2
    /\ passed' = passed \union {t}
    /\ UNCHANGED <<loadVars, lib, handleVars, symbols, once, system, exited>>

(***************************************************************************)
(* create_studio and create_low                                            *)
(***************************************************************************)

Create(t) ==
    /\ t \in symbols /\ system[t] = Absent
    /\ Step(t, "idle", "configure")
    /\ system' = [system EXCEPT ![t] = Bare]
    /\ UNCHANGED <<loadVars, lib, handleVars, symbols, once, passed, exited>>

\* CelesteFmodConfigure: plugin, output, format, buffer.
Configure(t) ==
    /\ pc[t] = "configure" /\ system[t] < Ready
    /\ system' = [system EXCEPT ![t] = system[t] + 1]
    /\ UNCHANGED <<loadVars, lib, handleVars, pc, symbols, once, passed, exited>>

\* GetLowLevelSystem, the version, an export or a step of the configuration.
ConfigureFails(t) ==
    /\ system[t] < Ready
    /\ Step(t, "configure", "release")
    /\ UNCHANGED <<loadVars, lib, handleVars, fmodVars, exited>>

ConfigureDone(t) ==
    /\ system[t] = Ready
    /\ Step(t, "configure", "idle")
    /\ UNCHANGED <<loadVars, lib, handleVars, fmodVars, exited>>

\* The caller gets the error and no system.
Release(t) ==
    /\ Step(t, "release", "idle")
    /\ system' = [system EXCEPT ![t] = Absent]
    /\ UNCHANGED <<loadVars, lib, handleVars, symbols, once, passed, exited>>

\* The game releases its system.
GameReleases(t) ==
    /\ pc[t] = "idle" /\ system[t] # Absent
    /\ system' = [system EXCEPT ![t] = Absent]
    /\ UNCHANGED <<loadVars, lib, handleVars, pc, symbols, once, passed, exited>>

AcquireProcess(t) ==
    \/ ProcessHinted(t) \/ CreateSession(t) \/ StartSender(t) \/ Receive(t)
    \/ CloseServer(t) \/ Join(t) \/ CloseClient(t)

AndroidLoad(t) == AcquireProcess(t) \/ LoadStep(t) \/ LoadDone(t) \/ LoadFails(t)

Call(t) == Resolve(t) \/ Once(t) \/ Create(t) \/ GameReleases(t)

GoOn(t) ==
    \/ Lock(t) \/ Check(t) \/ Unlock(t) \/ Lookup(t) \/ AndroidLoad(t)
    \/ InitDone(t) \/ Spin(t)
    \/ Configure(t) \/ ConfigureFails(t) \/ ConfigureDone(t) \/ Release(t)

Sender == Send \/ SendFails \/ SendReturns

Next ==
    /\ ~exited
    /\ \/ \E t \in Threads : Call(t) \/ GoOn(t)
       \/ Sender

Spec == Init /\ [][Next]_vars

\* Every call goes on, and so does the sender; the lock is handed to a thread
\* that waits for it again and again.
Fairness == /\ \A t \in Threads : WF_vars(~exited /\ GoOn(t)) /\ SF_vars(~exited /\ Lock(t))
            /\ WF_vars(~exited /\ Sender)

FairSpec == Spec /\ Fairness

(***************************************************************************)
(* Properties                                                              *)
(***************************************************************************)

Loading == {"process", "start", "receive", "close", "join", "client", "libraries"}

TypeOK ==
    /\ load_lock \in Threads \union {None} /\ loaded \in BOOLEAN /\ loads \in Nat
    /\ lib \in [Libraries -> Loops]
    /\ probe_process \in {"none", "hinted", "received"}
    /\ session \in SUBSET {"server", "client"} /\ request \in BOOLEAN
    /\ sender \in {"none", "started", "sent", "ended"}
    /\ pc \in [Threads -> Loading \union {"idle", "lock", "check", "unlock", "lookup",
                  "init", "spin", "configure", "release"}]
    /\ symbols \in SUBSET Threads /\ passed \in SUBSET Threads
    /\ once \in 0 .. 2 /\ system \in [Threads -> Stages] /\ exited \in BOOLEAN

\* The libraries are loaded once, whichever threads resolve the first symbols
\* at the same time; nobody looks a symbol up before both are constructed; and
\* no constructor runs while the other library is not finalized.
LoadedBeforeUse ==
    /\ loads <= 1
    /\ \A t \in Threads : t \in symbols \/ pc[t] = "lookup" =>
          \A i \in Libraries : lib[i] = Running
    /\ \A i, j \in Libraries : lib[i] = Running => lib[j] >= Finalized

\* The sender reads a local variable of acquire_process: it has ended when
\* that function returns, and with it both ends of the session; the handle of
\* the process is there before a library is loaded.
HandshakeClean ==
    /\ sender \in {"started", "sent"} =>
          \E t \in Threads : pc[t] \in {"receive", "close", "join"}
    /\ (\E i \in Libraries : lib[i] > 0) => session = {} /\ probe_process # "none"

\* pthread_once runs the initialiser once, and has returned to nobody before
\* the initialiser has.
OnceDone ==
    /\ Cardinality({t \in Threads : pc[t] = "init"}) <= 1
    /\ passed # {} => once = 2 /\ \A t \in Threads : pc[t] # "init"

\* A game never gets a system with half a configuration: between calls it has
\* a configured one, or none.
ConfiguredOrNone == \A t \in Threads : pc[t] = "idle" => system[t] \in {Absent, Ready}

\* Whoever waits in a call without a timeout waits for somebody who can go on:
\* the lock has a holder that is at work, nobody can hold up the sender that is
\* joined, the initialiser runs, and of the libraries there is always one whose
\* turn it is.
WaitsAnswered ==
    \A t \in Threads :
        /\ pc[t] = "lock" /\ load_lock # None =>
              pc[load_lock] \in Loading \union {"check", "unlock"}
        /\ pc[t] = "join" => sender = "ended" \/ (sender = "sent" /\ "server" \notin session)
        /\ pc[t] = "spin" => once = 2 \/ \E u \in Threads : pc[u] = "init"
        /\ pc[t] = "libraries" =>
              \/ \A i \in Libraries : lib[i] = Running
              \/ \E i \in Libraries : lib[i] < Running /\ Turn(i)

\* Each call returns, or the process has exited: neither load_lock, nor the
\* handshake, nor the polling of pthread_once holds a thread up for ever.
CallsReturn == \A t \in Threads : pc[t] # "idle" ~> pc[t] = "idle" \/ exited

\* How far a thread is in its call.
Points == [lock |-> 1, check |-> 2, process |-> 3, start |-> 4, receive |-> 5, close |-> 6,
           join |-> 7, client |-> 8, libraries |-> 9, unlock |-> 18, lookup |-> 19,
           init |-> 1, spin |-> 1, configure |-> 1, release |-> 7]
Ahead(t) ==
    Points[pc[t]] + (IF pc[t] = "libraries" THEN lib[1] + lib[2] ELSE 0)
                  + (IF pc[t] = "configure" THEN system[t] ELSE 0)

\* A thread in a call is never thrown back, by its own steps or by those of
\* others, and each step of its own brings it forward or ends the call: it
\* takes at most twenty.
CallsAdvance ==
    [][\A t \in Threads : pc[t] # "idle" =>
        /\ pc'[t] = "idle" \/ Ahead(t)' >= Ahead(t)
        /\ GoOn(t) => exited' \/ pc'[t] = "idle" \/ Ahead(t)' > Ahead(t)]_vars
==============================================================================
