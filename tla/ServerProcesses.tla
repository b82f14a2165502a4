-------------------------- MODULE ServerProcesses --------------------------
(***************************************************************************)
(* The processes of the server (server.c): the master accepts connections  *)
(* and forks a worker for each, is told of its children's ends by SIGCHLD, *)
(* and is shut down by SIGQUIT, whose handler every worker inherits.  The  *)
(* processes share one mutex (gamestate.c) and inherit descriptors.        *)
(*                                                                         *)
(* Other than in RaidServer a critical section has a middle here: a worker *)
(* may be killed, interrupted or overtaken inside it.  Of the memory that  *)
(* it protects the online count is kept.                                   *)
(***************************************************************************)
EXTENDS Integers, FiniteSets

CONSTANTS
    Worker,              \* slots for worker processes
    Master, NoOne, Lost, \* the master; nobody; an owner that is no more
    listener,            \* the descriptor of server_fd
    MaxClients           \* bound on the connections that come in

ASSUME ProcessAssumption ==
    /\ IsFiniteSet(Worker)
    /\ Master \notin Worker /\ NoOne \notin Worker /\ Lost \notin Worker
    /\ NoOne # Lost
    /\ MaxClients \in Nat /\ listener \notin Nat

Process == Worker \cup {Master}

VARIABLES
    master,              \* where the master is in its loop
    accepted,            \* connections accepted so far; the last is new_socket
    chld,                \* SIGCHLD is pending; it does not count
    reaping,             \* whether the master runs sigchld_handler
    pc,                  \* where each worker is
    todo,                \* the critical section, or end, it is heading for
    loaded,              \* the online count it has read inside a section
    owner,               \* the worker that holds the mutex
    destroyed,           \* pthread_mutex_destroy has succeeded
    online_count,
    held,                \* the descriptors each process has open
    quit,                \* the processes with a SIGQUIT pending
    signalled,           \* SIGQUIT was sent
    (* History. *)
    joined,              \* workers counted in and not yet out
    ghosts               \* workers that ended without counting themselves out

masterVars == <<master, accepted, chld, reaping>>
workerVars == <<pc, todo, loaded>>
mutexVars == <<owner, destroyed, online_count>>
quitVars == <<quit, signalled>>
historyVars == <<joined, ghosts>>
vars == <<masterVars, workerVars, mutexVars, held, quitVars, historyVars>>

MasterPc == {"accept", "fork", "forked", "failed", "warn", "quitting", "stuck", "gone"}
WorkerPc == {"free", "forked", "handshake", "log", "idle", "lock", "inside",
             "logging", "asleep", "quitting", "stuck", "zombie"}

(* Inside a critical section; in a process that can still run.             *)
Inside(w) == pc[w] \in {"inside", "logging"}
Alive(w) == pc[w] \notin {"free", "zombie"}

Init ==
    /\ master = "accept" /\ accepted = 0 /\ chld = FALSE /\ reaping = "no"
    /\ pc = [w \in Worker |-> "free"]
    /\ todo = [w \in Worker |-> "join"]
    /\ loaded = [w \in Worker |-> 0]
    /\ owner = NoOne /\ destroyed = FALSE /\ online_count = 0
    /\ held = [p \in Process |-> IF p = Master THEN {listener} ELSE {}]
    /\ quit = {} /\ signalled = FALSE
    /\ joined = {} /\ ghosts = 0

-----------------------------------------------------------------------------
(* The master's loop.  sigchld_handler runs on top of it.                  *)

MasterGoes(from, to) ==
    /\ master = from /\ reaping = "no"
    /\ master' = to

Accept ==
    /\ accepted < MaxClients
    /\ MasterGoes("accept", "fork")
    /\ accepted' = accepted + 1
    /\ held' = [held EXCEPT ![Master] = @ \cup {accepted'}]
    /\ UNCHANGED <<chld, reaping, workerVars, mutexVars, quitVars, historyVars>>

AcceptFails ==
    /\ MasterGoes("accept", "warn")
    /\ UNCHANGED <<accepted, chld, reaping, workerVars, mutexVars, held,
                   quitVars, historyVars>>

WarnedOfAccept ==
    /\ MasterGoes("warn", "accept")
    /\ UNCHANGED <<accepted, chld, reaping, workerVars, mutexVars, held,
                   quitVars, historyVars>>

(* The child has whatever the master has open.                             *)
Fork ==
    /\ MasterGoes("fork", "forked")
    /\ \E w \in Worker :
         /\ pc[w] = "free"
         /\ pc' = [pc EXCEPT ![w] = "forked"]
         /\ todo' = [todo EXCEPT ![w] = "join"]
         /\ held' = [held EXCEPT ![w] = held[Master]]
    /\ UNCHANGED <<accepted, chld, reaping, loaded, mutexVars, quitVars, historyVars>>

ForkFails ==
    /\ MasterGoes("fork", "failed")
    /\ UNCHANGED <<accepted, chld, reaping, workerVars, mutexVars, held,
                   quitVars, historyVars>>

(* Mutant of CloseConnection: the master keeps the connections it has      *)
(* forked for.                                                             *)
KeepConnection ==
    /\ MasterGoes("forked", "accept") \/ MasterGoes("failed", "accept")
    /\ held' = IF master = "forked" THEN held
               ELSE [held EXCEPT ![Master] = @ \ {accepted}]
    /\ UNCHANGED <<accepted, chld, reaping, workerVars, mutexVars, quitVars,
                   historyVars>>

(* close(new_socket), after a fork and, behind the error message, after    *)
(* one that failed.                                                        *)
CloseConnection ==
    /\ MasterGoes("forked", "accept") \/ MasterGoes("failed", "accept")
    /\ held' = [held EXCEPT ![Master] = @ \ {accepted}]
    /\ UNCHANGED <<accepted, chld, reaping, workerVars, mutexVars, quitVars,
                   historyVars>>

(* SIGCHLD is delivered.                                                   *)
EnterReaping ==
    /\ chld /\ reaping = "no" /\ master # "gone"
    /\ chld' = FALSE /\ reaping' = "yes"
    /\ UNCHANGED <<master, accepted, workerVars, mutexVars, held, quitVars,
                   historyVars>>

(* Mutant of Reap: if instead of while.                                    *)
ReapOne ==
    /\ reaping = "yes"
    /\ \E w \in Worker : pc[w] = "zombie" /\ pc' = [pc EXCEPT ![w] = "free"]
    /\ reaping' = "no"
    /\ UNCHANGED <<master, accepted, chld, todo, loaded, mutexVars, held,
                   quitVars, historyVars>>

(* waitpid(-1, NULL, WNOHANG) > 0                                          *)
Reap ==
    /\ reaping = "yes"
    /\ \E w \in Worker : pc[w] = "zombie" /\ pc' = [pc EXCEPT ![w] = "free"]
    /\ UNCHANGED <<masterVars, todo, loaded, mutexVars, held, quitVars, historyVars>>

LeaveReaping ==
    /\ reaping = "yes" /\ \A w \in Worker : pc[w] # "zombie"
    /\ reaping' = "no"
    /\ UNCHANGED <<master, accepted, chld, workerVars, mutexVars, held,
                   quitVars, historyVars>>

-----------------------------------------------------------------------------
(* A worker's own steps.                                                   *)

WorkerGoes(w, from, to) ==
    /\ pc[w] = from
    /\ pc' = [pc EXCEPT ![w] = to]

(* What the end of process w changes but for its pc: the kernel closes its *)
(* descriptors, a mutex it holds stays locked, and the master, if there is *)
(* one, is told.                                                           *)
EndOf(w) ==
    /\ chld' = (master # "gone")
    /\ held' = [held EXCEPT ![w] = {}]
    /\ owner' = IF owner = w THEN Lost ELSE owner
    /\ quit' = quit \ {w}
    /\ joined' = joined \ {w}
    /\ ghosts' = IF w \in joined THEN ghosts + 1 ELSE ghosts
    /\ loaded' = [loaded EXCEPT ![w] = 0]
    /\ UNCHANGED <<master, accepted, reaping, todo, online_count, signalled>>

(* Without a master, init waits for it.                                    *)
Ended == IF master = "gone" THEN "free" ELSE "zombie"

EndWorker(w) ==
    /\ pc' = [pc EXCEPT ![w] = Ended]
    /\ EndOf(w)
    /\ UNCHANGED destroyed

(* Mutant of CloseListener: the child keeps server_fd.                     *)
KeepListener(w) ==
    /\ WorkerGoes(w, "forked", "handshake")
    /\ UNCHANGED <<masterVars, todo, loaded, mutexVars, held, quitVars, historyVars>>

CloseListener(w) ==
    /\ WorkerGoes(w, "forked", "handshake")
    /\ held' = [held EXCEPT ![w] = @ \ {listener}]
    /\ UNCHANGED <<masterVars, todo, loaded, mutexVars, quitVars, historyVars>>

(* tls_server_handshake: it waits for the peer, and logs how it ended.     *)
Handshake(w) ==
    /\ WorkerGoes(w, "handshake", "log")
    /\ \E t \in {"join", "exit"} : todo' = [todo EXCEPT ![w] = t]
    /\ UNCHANGED <<masterVars, loaded, mutexVars, held, quitVars, historyVars>>

(* log_write returns, outside of any critical section.  A worker that has  *)
(* logged the end of its session goes on to gamestate_player_leave.        *)
LogWritten(w) ==
    /\ WorkerGoes(w, "log", IF todo[w] = "leave" THEN "lock" ELSE "idle")
    /\ UNCHANGED <<masterVars, todo, loaded, mutexVars, held, quitVars, historyVars>>

(* handle_client takes a packet that needs the shared memory: OP_JOIN, or  *)
(* once joined anything that is no end of the session.                     *)
TakePacket(w) ==
    /\ todo[w] \in {"join", "play"}
    /\ WorkerGoes(w, "idle", "lock")
    /\ UNCHANGED <<masterVars, todo, loaded, mutexVars, held, quitVars, historyVars>>

(* The session ends, for a reason that is logged; cleanup_client gives the *)
(* online count back if the player had joined.                             *)
EndSession(w) ==
    /\ todo[w] \in {"join", "play"}
    /\ WorkerGoes(w, "idle", "log")
    /\ todo' = [todo EXCEPT ![w] = IF todo[w] = "play" THEN "leave" ELSE "exit"]
    /\ UNCHANGED <<masterVars, loaded, mutexVars, held, quitVars, historyVars>>

Exit(w) ==
    /\ pc[w] = "idle" /\ todo[w] = "exit"
    /\ EndWorker(w)

(* Mutant of Lock: the mutex is not shared between processes.              *)
LockPrivate(w) ==
    /\ WorkerGoes(w, "lock", "inside")
    /\ owner' = w
    /\ loaded' = [loaded EXCEPT ![w] = online_count]
    /\ UNCHANGED <<masterVars, todo, destroyed, online_count, held, quitVars,
                   historyVars>>

(* pthread_mutex_lock, and the first read of the section.  A destroyed     *)
(* mutex is refused by glibc at once (EINVAL), which nobody checks.        *)
Lock(w) ==
    /\ destroyed \/ owner = NoOne
    /\ WorkerGoes(w, "lock", "inside")
    /\ owner' = IF destroyed THEN owner ELSE w
    /\ loaded' = [loaded EXCEPT ![w] = online_count]
    /\ UNCHANGED <<masterVars, todo, destroyed, online_count, held, quitVars,
                   historyVars>>

(* gamestate_apply_damage and gamestate_spawn_next_boss log with the mutex *)
(* held.                                                                   *)
LogInside(w) ==
    /\ todo[w] = "play"
    /\ WorkerGoes(w, "inside", "logging")
    /\ UNCHANGED <<masterVars, todo, loaded, mutexVars, held, quitVars, historyVars>>

(* Mutant of StoreCount: gamestate_player_leave without its test.          *)
StoreCountUntested(w) ==
    CASE todo[w] = "join"  -> /\ online_count' = loaded[w] + 1
                              /\ joined' = joined \cup {w}
      [] todo[w] = "leave" -> /\ online_count' = loaded[w] - 1
                              /\ joined' = joined \ {w}
      [] OTHER             -> UNCHANGED <<online_count, joined>>

(* The last write of a section: gamestate_player_join counts from what it  *)
(* has read, gamestate_player_leave too, but not below 0.                  *)
StoreCount(w) ==
    CASE todo[w] = "join"  -> /\ online_count' = loaded[w] + 1
                              /\ joined' = joined \cup {w}
      [] todo[w] = "leave" -> /\ online_count' = IF loaded[w] > 0 THEN loaded[w] - 1 ELSE 0
                              /\ joined' = joined \ {w}
      [] OTHER             -> UNCHANGED <<online_count, joined>>

(* What follows a section: exit after the last, else log messages.         *)
AfterSection(w) ==
    /\ pc' = [pc EXCEPT ![w] = IF todo[w] = "leave" THEN "idle" ELSE "log"]
    /\ todo' = [todo EXCEPT ![w] = IF todo[w] = "leave" THEN "exit" ELSE "play"]
    /\ loaded' = [loaded EXCEPT ![w] = 0]

(* Mutant of Unlock: an attack on a boss that is down returns with the     *)
(* mutex locked.                                                           *)
UnlockNotAlways(w) ==
    /\ Inside(w)
    /\ owner' = IF owner = w /\ todo[w] # "play" THEN NoOne ELSE owner
    /\ StoreCount(w)
    /\ AfterSection(w)
    /\ UNCHANGED <<masterVars, destroyed, held, quitVars, ghosts>>

(* ... and pthread_mutex_unlock, at the end or before an early return.     *)
Unlock(w) ==
    /\ Inside(w)
    /\ owner' = IF owner = w THEN NoOne ELSE owner
    /\ StoreCount(w)
    /\ AfterSection(w)
    /\ UNCHANGED <<masterVars, destroyed, held, quitVars, ghosts>>

(* SIGPIPE, or any other signal that nothing handles, ends a worker at any *)
(* point.                                                                  *)
Killed(w) ==
    /\ Alive(w)
    /\ EndWorker(w)

-----------------------------------------------------------------------------
(* The shutdown.                                                           *)

(* SIGQUIT comes from the terminal, to the whole process group, or from    *)
(* kill(1), to the master alone.                                           *)
SigQuit ==
    /\ ~signalled /\ master # "gone"
    /\ signalled' = TRUE
    /\ \/ quit' = {Master}
       \/ quit' = {Master} \cup {w \in Worker : Alive(w)}
    /\ UNCHANGED <<masterVars, workerVars, mutexVars, held, historyVars>>

(* sigquit_handler begins, and logs.  If it interrupted log_write it may   *)
(* have come while localtime holds its own lock, and waits for itself.     *)
DeliverToMaster ==
    /\ Master \in quit
    /\ quit' = quit \ {Master}
    /\ \/ master' = "quitting"
       \/ master \in {"failed", "warn"} /\ master' = "stuck"
    /\ reaping' = IF reaping = "yes" THEN "suspended" ELSE reaping
    /\ UNCHANGED <<accepted, chld, workerVars, mutexVars, held, signalled,
                   historyVars>>

DeliverToWorker(w) ==
    /\ w \in quit
    /\ quit' = quit \ {w}
    /\ \/ pc' = [pc EXCEPT ![w] = "quitting"]
       \/ pc[w] \in {"log", "logging"} /\ pc' = [pc EXCEPT ![w] = "stuck"]
    /\ UNCHANGED <<masterVars, todo, loaded, mutexVars, held, signalled, historyVars>>

(* pthread_mutex_destroy refuses a locked mutex (EBUSY), and its result is *)
(* not looked at.                                                          *)
GamestateDestroy == destroyed' = (destroyed \/ owner = NoOne)

(* To destroy it under workers that are about to lock it is undefined: one *)
(* gets in, another may have gone to sleep behind it and is never woken.   *)
LeftAsleep ==
    LET waiting == {w \in Worker : pc[w] = "lock"}
    IN  IF ~destroyed /\ owner = NoOne
        THEN {{}} \cup (SUBSET waiting \ {waiting})
        ELSE {{}}

(* The handler destroys, and ends in exit(0).  The master's children go to *)
(* init, and the memory to the workers that still have it mapped.          *)
MasterExits ==
    /\ master = "quitting" /\ reaping # "yes"
    /\ GamestateDestroy
    /\ master' = "gone"
    /\ \E left \in LeftAsleep :
         pc' = [w \in Worker |-> IF w \in left THEN "asleep"
                                 ELSE IF pc[w] = "zombie" THEN "free" ELSE pc[w]]
    /\ held' = [held EXCEPT ![Master] = {}]
    /\ chld' = FALSE /\ reaping' = "no"
    /\ UNCHANGED <<accepted, todo, loaded, owner, online_count, quitVars,
                   historyVars>>

(* A worker that holds the mutex cannot destroy it.                        *)
WorkerExits(w) ==
    /\ pc[w] = "quitting"
    /\ GamestateDestroy
    /\ \E left \in LeftAsleep :
         pc' = [v \in Worker |-> IF v = w THEN Ended
                                 ELSE IF v \in left THEN "asleep" ELSE pc[v]]
    /\ EndOf(w)

-----------------------------------------------------------------------------
(* What a process does of itself once it is there, and what it waits for   *)
(* others to begin.                                                        *)
MasterRuns == WarnedOfAccept \/ Fork \/ ForkFails \/ CloseConnection \/ MasterExits

SigChldHandler == EnterReaping \/ Reap \/ LeaveReaping

MasterStep == Accept \/ AcceptFails \/ MasterRuns \/ SigChldHandler \/ DeliverToMaster

WorkerRuns(w) ==
    \/ CloseListener(w) \/ LogWritten(w) \/ Exit(w) \/ Lock(w) \/ Unlock(w)
    \/ WorkerExits(w)

WorkerStep(w) ==
    \/ Handshake(w) \/ TakePacket(w) \/ EndSession(w) \/ LogInside(w)
    \/ WorkerRuns(w) \/ DeliverToWorker(w)

Next == MasterStep \/ SigQuit \/ \E w \in Worker : WorkerStep(w) \/ Killed(w)

Spec == Init /\ [][Next]_vars

(* The kernel schedules every process and delivers every signal.  Nothing  *)
(* is assumed of peers (Accept, Handshake, TakePacket, EndSession), nor of *)
(* the order in which the mutex is handed on.                              *)
Fairness ==
    /\ WF_vars(MasterRuns) /\ WF_vars(SigChldHandler) /\ WF_vars(DeliverToMaster)
    /\ \A w \in Worker : WF_vars(WorkerRuns(w)) /\ WF_vars(DeliverToWorker(w))

LiveSpec == Spec /\ Fairness
-----------------------------------------------------------------------------
(* Properties.                                                             *)

(* Every variable keeps to its type.                                       *)
ProcessesTypeOK ==
    /\ master \in MasterPc /\ accepted \in 0..MaxClients
    /\ chld \in BOOLEAN /\ reaping \in {"no", "yes", "suspended"}
    /\ pc \in [Worker -> WorkerPc]
    /\ todo \in [Worker -> {"join", "play", "leave", "exit"}]
    /\ loaded \in [Worker -> Nat]
    /\ owner \in Worker \cup {NoOne, Lost} /\ destroyed \in BOOLEAN
    /\ online_count \in Nat
    /\ held \in [Process -> SUBSET (Nat \cup {listener})]
    /\ quit \subseteq Process /\ signalled \in BOOLEAN
    /\ joined \subseteq Worker /\ ghosts \in Nat

(* While the mutex exists no two workers are inside critical sections,     *)
(* whoever was killed or interrupted there.                                *)
MutualExclusion ==
    ~destroyed => \A v, w \in Worker : Inside(v) /\ Inside(w) => v = w

(* What the mutex is for: until the shutdown destroys it no update of the  *)
(* online count is lost.  It counts the players who joined and did not     *)
(* leave, with those whose workers ended before gamestate_player_leave.    *)
(* (Workers that outlive the master do lose updates.)                      *)
NoUpdateLost == ~destroyed => online_count = Cardinality(joined) + ghosts

(* A connection closes with the worker that serves it: no two workers have *)
(* the same one open, and back in accept() the master has none.  Only so   *)
(* does a client see the end of its worker.                                *)
ConnectionsArePrivate ==
    /\ \A v, w \in Worker : v # w => (held[v] \cap held[w]) \subseteq {listener}
    /\ master = "accept" => held[Master] = {listener}

(* SIGCHLD does not queue, yet no worker stays a zombie: however many end  *)
(* while the handler runs, it, or its next call, collects them, unless the *)
(* shutdown interrupts it and hangs.                                       *)
ZombiesAreReaped ==
    (\E w \in Worker : pc[w] = "zombie") ~>
        (\A w \in Worker : pc[w] # "zombie") \/ reaping = "suspended"

(* The mutex does not stay with a worker that lives: it is released, or    *)
(* its owner died with it, or hangs in the handler of SIGQUIT.  Those two  *)
(* leave it locked for ever, and with it the whole raid.                   *)
MutexIsReleased ==
    owner \in Worker ~> owner \notin Worker \/ pc[owner] = "stuck"

(* The shutdown ends: after SIGQUIT the master goes, and then no process   *)
(* keeps the port, so that a new server can start; unless the handler      *)
(* interrupts log_write in the master and waits for itself.                *)
ShutdownEnds ==
    Master \in quit ~>
        \/ master = "stuck"
        \/ /\ master = "gone"
           /\ \A p \in Process : listener \notin held[p]
=============================================================================
