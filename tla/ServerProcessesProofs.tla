----------------------- MODULE ServerProcessesProofs -----------------------
(***************************************************************************)
(* Theorems about ServerProcesses, for any number of worker slots and of   *)
(* connections.                                                            *)
(***************************************************************************)
EXTENDS ServerProcesses, FiniteSetTheorems, TLAPS

(* What each step does, for proofs that go through all of them.            *)
LEMMA Steps ==
  ASSUME [Next]_vars
  PROVE  \/ Accept \/ AcceptFails \/ WarnedOfAccept \/ Fork \/ ForkFails
         \/ CloseConnection \/ MasterExits \/ EnterReaping \/ Reap
         \/ LeaveReaping \/ DeliverToMaster \/ SigQuit
         \/ \E w \in Worker :
              \/ CloseListener(w) \/ Handshake(w) \/ LogWritten(w)
              \/ TakePacket(w) \/ EndSession(w) \/ Exit(w) \/ Lock(w)
              \/ LogInside(w) \/ Unlock(w) \/ DeliverToWorker(w)
              \/ WorkerExits(w) \/ Killed(w)
         \/ UNCHANGED vars
  BY DEF Next, MasterStep, MasterRuns, SigChldHandler, WorkerStep, WorkerRuns

-----------------------------------------------------------------------------
(* Where the workers are.  A worker counted in is one that lives and has   *)
(* still to count itself out; inside a critical section it has one of the  *)
(* three things to do there.                                               *)

Todo == {"join", "play", "leave", "exit"}

PlacesOK ==
    /\ pc \in [Worker -> WorkerPc]
    /\ todo \in [Worker -> Todo]
    /\ joined \subseteq Worker
    /\ \A w \in Worker :
         /\ w \in joined <=> Alive(w) /\ todo[w] \in {"play", "leave"}
         /\ pc[w] \in {"forked", "handshake"} => todo[w] = "join"
         /\ pc[w] \in {"lock", "inside", "logging"} => todo[w] # "exit"
         /\ w \in quit => Alive(w)

LEMMA PlacesInit == Init => PlacesOK
  BY DEF Init, PlacesOK, Alive, WorkerPc, Todo

(* Two ways for a process to end; the rest of what they do is EndOf.       *)
LEMMA EndKeepsPlaces ==
  ASSUME PlacesOK, NEW w \in Worker, EndOf(w), NEW left \in SUBSET Worker,
         \A v \in left : pc[v] = "lock",
         pc' = [v \in Worker |-> IF v = w THEN Ended
                                 ELSE IF v \in left THEN "asleep" ELSE pc[v]]
  PROVE  PlacesOK'
  <1>1. Ended \in {"free", "zombie"}
    BY DEF Ended
  <1>2. UNCHANGED todo /\ joined' = joined \ {w} /\ quit' = quit \ {w}
    BY DEF EndOf
  <1>3. pc' \in [Worker -> WorkerPc]
    BY <1>1 DEF PlacesOK, WorkerPc
  <1>4. ASSUME NEW v \in Worker
        PROVE  /\ v = w => ~Alive(v)'
               /\ v # w => /\ Alive(v)' <=> Alive(v)
                           /\ pc'[v] \in {pc[v], "asleep"}
    BY <1>1 DEF Alive
  <1> QED
    BY <1>1, <1>2, <1>3, <1>4 DEF PlacesOK, Alive

LEMMA PlacesStep == PlacesOK /\ [Next]_vars => PlacesOK'
  <1> SUFFICES ASSUME PlacesOK, [Next]_vars PROVE PlacesOK'
    OBVIOUS
  <1> USE DEF Alive, WorkerPc, Todo
  <1>1. CASE UNCHANGED <<pc, todo, joined, quit>>
    BY <1>1 DEF PlacesOK
  <1>2. CASE \/ Accept \/ AcceptFails \/ WarnedOfAccept \/ ForkFails
             \/ CloseConnection \/ EnterReaping \/ LeaveReaping
             \/ UNCHANGED vars
    BY <1>1, <1>2 DEF Accept, AcceptFails, WarnedOfAccept, ForkFails,
        CloseConnection, EnterReaping, LeaveReaping, vars, workerVars, quitVars,
        historyVars
  <1>12. CASE DeliverToMaster \/ SigQuit
    <2>1. /\ UNCHANGED <<pc, todo, joined>>
          /\ \A w \in Worker : w \in quit' => w \in quit \/ Alive(w)
      BY <1>12, ProcessAssumption DEF DeliverToMaster, SigQuit, workerVars, historyVars
    <2> QED
      BY <2>1 DEF PlacesOK
  <1>3. CASE Fork
    BY <1>3 DEF Fork, PlacesOK, historyVars, quitVars
  <1>4. CASE Reap
    BY <1>4 DEF Reap, PlacesOK, historyVars, quitVars
  <1>5. CASE MasterExits
    <2>1. PICK left \in LeftAsleep :
            pc' = [w \in Worker |-> IF w \in left THEN "asleep"
                                    ELSE IF pc[w] = "zombie" THEN "free" ELSE pc[w]]
      BY <1>5 DEF MasterExits
    <2>2. \A v \in left : pc[v] = "lock"
      BY DEF LeftAsleep
    <2>3. UNCHANGED <<todo, joined, quit>>
      BY <1>5 DEF MasterExits, quitVars, historyVars
    <2> QED
      BY <2>1, <2>2, <2>3 DEF PlacesOK
  <1>6. ASSUME NEW w \in Worker, CloseListener(w) \/ Handshake(w) \/ LogWritten(w)
        PROVE  PlacesOK'
    BY <1>6 DEF CloseListener, Handshake, LogWritten, WorkerGoes, PlacesOK, quitVars, historyVars
  <1>7. ASSUME NEW w \in Worker, TakePacket(w) \/ EndSession(w) \/ Lock(w)
        PROVE  PlacesOK'
    BY <1>7 DEF TakePacket, EndSession, Lock, WorkerGoes, PlacesOK, quitVars, historyVars
  <1>8. ASSUME NEW w \in Worker, LogInside(w) \/ DeliverToWorker(w)
        PROVE  PlacesOK'
    BY <1>8 DEF LogInside, DeliverToWorker, WorkerGoes, PlacesOK, quitVars, historyVars
  <1>9. ASSUME NEW w \in Worker, Unlock(w) PROVE PlacesOK'
    <2>1. /\ pc[w] \in {"inside", "logging"} /\ todo[w] # "exit" /\ quit' = quit
          /\ pc' = [pc EXCEPT ![w] = IF todo[w] = "leave" THEN "idle" ELSE "log"]
          /\ todo' = [todo EXCEPT ![w] = IF todo[w] = "leave" THEN "exit" ELSE "play"]
      BY <1>9 DEF Unlock, Inside, AfterSection, PlacesOK, quitVars
    <2>2. joined' = IF todo[w] = "leave" THEN joined \ {w} ELSE joined \cup {w}
      BY <1>9, <2>1 DEF Unlock, StoreCount, PlacesOK
    <2> QED
      BY <2>1, <2>2 DEF PlacesOK
  <1>10. ASSUME NEW w \in Worker, Exit(w) \/ Killed(w) PROVE PlacesOK'
    <2>1. EndOf(w) /\ pc' = [pc EXCEPT ![w] = Ended]
      BY <1>10 DEF Exit, Killed, EndWorker
    <2>2. pc' = [v \in Worker |-> IF v = w THEN Ended
                                  ELSE IF v \in {} THEN "asleep" ELSE pc[v]]
      BY <2>1 DEF PlacesOK
    <2>3. {} \in SUBSET Worker /\ \A v \in {} : pc[v] = "lock"
      OBVIOUS
    <2> HIDE DEF Alive, WorkerPc, Todo
    <2> QED
      BY <2>1, <2>2, <2>3, EndKeepsPlaces
  <1>11. ASSUME NEW w \in Worker, WorkerExits(w) PROVE PlacesOK'
    <2>1. PICK left \in LeftAsleep :
            pc' = [v \in Worker |-> IF v = w THEN Ended
                                    ELSE IF v \in left THEN "asleep" ELSE pc[v]]
      BY <1>11 DEF WorkerExits
    <2>2. left \in SUBSET Worker /\ \A v \in left : pc[v] = "lock"
      BY DEF LeftAsleep
    <2>3. EndOf(w)
      BY <1>11 DEF WorkerExits
    <2> QED
      BY <2>1, <2>2, <2>3, EndKeepsPlaces
  <1> QED
    BY <1>2, <1>3, <1>4, <1>5, <1>6, <1>7, <1>8, <1>9, <1>10, <1>11,
       <1>12, Steps

-----------------------------------------------------------------------------
(* The mutex.  Until it is destroyed, whoever is inside a section owns it, *)
(* and what he has read of the online count still holds: so what he writes *)
(* back takes nobody else's update away.                                   *)

CountTypeOK ==
    /\ online_count \in Nat /\ ghosts \in Nat
    /\ loaded \in [Worker -> Nat]

InsideOwns == \A w \in Worker : Inside(w) => owner = w /\ loaded[w] = online_count

MutexInv == CountTypeOK /\ (~destroyed => InsideOwns /\ NoUpdateLost)

(* Most steps neither enter nor leave a section, nor touch what is counted.*)
Quiet ==
    /\ UNCHANGED <<owner, online_count, loaded, joined, ghosts>>
    /\ destroyed => destroyed'
    /\ \A w \in Worker : Inside(w)' => Inside(w)

LEMMA QuietKeepsMutex == MutexInv /\ Quiet => MutexInv'
  <1> SUFFICES ASSUME MutexInv, Quiet PROVE MutexInv'
    OBVIOUS
  <1>1. CountTypeOK'
    BY DEF MutexInv, Quiet, CountTypeOK
  <1>2. ASSUME ~destroyed' PROVE InsideOwns' /\ NoUpdateLost'
    BY <1>2 DEF MutexInv, Quiet, InsideOwns, NoUpdateLost
  <1> QED
    BY <1>1, <1>2 DEF MutexInv

LEMMA QuietSteps ==
  ASSUME PlacesOK, [Next]_vars,
         ~ \E w \in Worker : Lock(w) \/ Unlock(w) \/ Exit(w) \/ Killed(w) \/ WorkerExits(w)
  PROVE  Quiet
  <1> USE DEF Quiet, Inside, PlacesOK, workerVars, mutexVars, historyVars
  <1>1. CASE \/ Accept \/ AcceptFails \/ WarnedOfAccept \/ ForkFails
             \/ CloseConnection \/ EnterReaping \/ LeaveReaping
             \/ DeliverToMaster \/ SigQuit \/ UNCHANGED vars
    BY <1>1 DEF Accept, AcceptFails, WarnedOfAccept, ForkFails, CloseConnection,
        EnterReaping, LeaveReaping, DeliverToMaster, SigQuit, vars
  <1>2. CASE Fork \/ Reap
    BY <1>2 DEF Fork, Reap
  <1>3. CASE MasterExits
    <2>1. /\ UNCHANGED <<owner, online_count, loaded, joined, ghosts>>
          /\ destroyed => destroyed'
      BY <1>3, Zenon DEF MasterExits, GamestateDestroy
    <2>2. \A w \in Worker : pc'[w] \in {"asleep", "free", pc[w]}
      BY <1>3 DEF MasterExits
    <2> QED
      BY <2>1, <2>2
  <1>4. ASSUME NEW w \in Worker, CloseListener(w) \/ Handshake(w) \/ LogWritten(w)
        PROVE  Quiet
    BY <1>4 DEF CloseListener, Handshake, LogWritten, WorkerGoes
  <1>5. ASSUME NEW w \in Worker, TakePacket(w) \/ EndSession(w)
        PROVE  Quiet
    BY <1>5 DEF TakePacket, EndSession, WorkerGoes
  <1>6. ASSUME NEW w \in Worker, LogInside(w) \/ DeliverToWorker(w)
        PROVE  Quiet
    BY <1>6 DEF LogInside, DeliverToWorker, WorkerGoes
  <1> QED
    BY <1>1, <1>2, <1>3, <1>4, <1>5, <1>6, Steps

LEMMA LockKeepsMutex ==
  ASSUME PlacesOK, MutexInv, NEW w \in Worker, Lock(w)
  PROVE  MutexInv'
  <1>1. /\ UNCHANGED <<destroyed, online_count, joined, ghosts>>
        /\ loaded' = [loaded EXCEPT ![w] = online_count]
        /\ pc' = [pc EXCEPT ![w] = "inside"]
        /\ ~destroyed => owner = NoOne /\ owner' = w
    BY DEF Lock, WorkerGoes, historyVars
  <1>2. CountTypeOK'
    BY <1>1 DEF MutexInv, CountTypeOK
  <1>3. ASSUME ~destroyed PROVE InsideOwns'
    <2>1. \A v \in Worker : ~Inside(v)
      BY <1>1, <1>3, ProcessAssumption DEF MutexInv, InsideOwns
    <2> QED
      BY <1>1, <1>3, <2>1 DEF PlacesOK, MutexInv, CountTypeOK, InsideOwns, Inside
  <1> QED
    BY <1>1, <1>2, <1>3 DEF MutexInv, NoUpdateLost

LEMMA JoinedFinite == PlacesOK => IsFiniteSet(joined) /\ Cardinality(joined) \in Nat
  BY ProcessAssumption, FS_Subset, FS_CardinalityType DEF PlacesOK

LEMMA UnlockKeepsMutex ==
  ASSUME PlacesOK, MutexInv, NEW w \in Worker, Unlock(w)
  PROVE  MutexInv'
  <1>1. /\ pc[w] \in {"inside", "logging"} /\ todo[w] # "exit"
        /\ pc' = [pc EXCEPT ![w] = IF todo[w] = "leave" THEN "idle" ELSE "log"]
        /\ loaded' = [loaded EXCEPT ![w] = 0]
        /\ UNCHANGED <<destroyed, ghosts>>
    BY DEF Unlock, Inside, AfterSection, PlacesOK
  <1>2. loaded[w] \in Nat /\ online_count \in Nat /\ ghosts \in Nat
    BY DEF MutexInv, CountTypeOK
  <1>3. /\ todo[w] = "join" => /\ online_count' = loaded[w] + 1
                               /\ joined' = joined \cup {w} /\ w \notin joined
        /\ todo[w] = "play" => UNCHANGED <<online_count, joined>>
        /\ todo[w] = "leave" => /\ online_count' = IF loaded[w] > 0 THEN loaded[w] - 1 ELSE 0
                                /\ joined' = joined \ {w} /\ w \in joined
        /\ todo[w] \in {"join", "play", "leave"}
    BY <1>1 DEF Unlock, StoreCount, PlacesOK, Alive, Todo
  <1>4. CountTypeOK'
    BY <1>1, <1>2, <1>3 DEF MutexInv, CountTypeOK
  <1>5. ASSUME ~destroyed PROVE InsideOwns' /\ NoUpdateLost'
    <2>1. owner = w /\ loaded[w] = online_count
      BY <1>1, <1>5 DEF MutexInv, InsideOwns, Inside
    <2>2. \A v \in Worker : ~Inside(v)'
      BY <1>1, <1>5, <2>1 DEF PlacesOK, MutexInv, InsideOwns, Inside
    <2>3. online_count = Cardinality(joined) + ghosts
      BY <1>5 DEF MutexInv, NoUpdateLost
    <2>4. CASE todo[w] = "join"
      <3>1. Cardinality(joined') = Cardinality(joined) + 1
        BY <1>3, <2>4, JoinedFinite, FS_AddElement
      <3> QED
        BY <1>1, <1>2, <1>3, <2>1, <2>2, <2>3, <2>4, <3>1, JoinedFinite
           DEF InsideOwns, NoUpdateLost
    <2>5. CASE todo[w] = "leave"
      <3>1. Cardinality(joined') = Cardinality(joined) - 1
        BY <1>3, <2>5, JoinedFinite, FS_RemoveElement
      <3>2. Cardinality(joined) # 0
        BY <1>3, <2>5, JoinedFinite, FS_EmptySet
      <3> QED
        BY <1>1, <1>2, <1>3, <2>1, <2>2, <2>3, <2>5, <3>1, <3>2, JoinedFinite
           DEF InsideOwns, NoUpdateLost
    <2>6. CASE todo[w] = "play"
      BY <1>1, <1>3, <2>2, <2>3, <2>6 DEF InsideOwns, NoUpdateLost
    <2> QED
      BY <1>3, <2>4, <2>5, <2>6
  <1> QED
    BY <1>1, <1>4, <1>5 DEF MutexInv

(* The end of a process, in a section or out of it.                        *)
LEMMA EndKeepsMutex ==
  ASSUME PlacesOK, MutexInv, NEW w \in Worker, EndOf(w), destroyed => destroyed',
         \A v \in Worker : Inside(v)' => v # w /\ Inside(v)
  PROVE  MutexInv'
  <1>1. /\ owner' = IF owner = w THEN Lost ELSE owner
        /\ loaded' = [loaded EXCEPT ![w] = 0]
        /\ joined' = joined \ {w}
        /\ ghosts' = IF w \in joined THEN ghosts + 1 ELSE ghosts
        /\ UNCHANGED online_count
    BY DEF EndOf
  <1>2. CountTypeOK'
    BY <1>1 DEF MutexInv, CountTypeOK
  <1>3. ASSUME ~destroyed' PROVE InsideOwns'
    BY <1>1, <1>3 DEF MutexInv, CountTypeOK, InsideOwns
  <1>4. ASSUME ~destroyed' PROVE NoUpdateLost'
    <2>1. online_count = Cardinality(joined) + ghosts /\ ghosts \in Nat
      BY <1>4 DEF MutexInv, NoUpdateLost, CountTypeOK
    <2>2. CASE w \in joined
      <3>1. Cardinality(joined') = Cardinality(joined) - 1
        BY <1>1, <2>2, JoinedFinite, FS_RemoveElement
      <3> QED
        BY <1>1, <2>1, <2>2, <3>1, JoinedFinite DEF NoUpdateLost
    <2>3. CASE w \notin joined
      <3>1. joined' = joined
        BY <1>1, <2>3
      <3> QED
        BY <1>1, <2>1, <2>3, <3>1 DEF NoUpdateLost
    <2> QED
      BY <2>2, <2>3
  <1> QED
    BY <1>2, <1>3, <1>4 DEF MutexInv

LEMMA MutexInit == Init => MutexInv
  <1> SUFFICES ASSUME Init PROVE MutexInv
    OBVIOUS
  <1>1. CountTypeOK /\ InsideOwns
    BY DEF Init, CountTypeOK, InsideOwns, Inside
  <1>2. NoUpdateLost
    BY FS_EmptySet DEF Init, NoUpdateLost
  <1> QED
    BY <1>1, <1>2 DEF MutexInv

LEMMA MutexStep == PlacesOK /\ MutexInv /\ [Next]_vars => MutexInv'
  <1> SUFFICES ASSUME PlacesOK, MutexInv, [Next]_vars PROVE MutexInv'
    OBVIOUS
  <1>1. ASSUME NEW w \in Worker, Exit(w) \/ Killed(w) \/ WorkerExits(w)
        PROVE  MutexInv'
    <2>1. EndOf(w)
      BY <1>1 DEF Exit, Killed, WorkerExits, EndWorker
    <2>2. destroyed => destroyed'
      BY <1>1, Zenon DEF Exit, Killed, WorkerExits, EndWorker, GamestateDestroy
    <2>3. pc'[w] = Ended /\ \A v \in Worker \ {w} : pc'[v] \in {"asleep", pc[v]}
      BY <1>1 DEF Exit, Killed, WorkerExits, EndWorker, PlacesOK
    <2>4. \A v \in Worker : Inside(v)' => v # w /\ Inside(v)
      BY <2>3 DEF Inside, Ended
    <2> QED
      BY <2>1, <2>2, <2>4, EndKeepsMutex
  <1>2. ASSUME NEW w \in Worker, Lock(w) \/ Unlock(w)
        PROVE  MutexInv'
    BY <1>2, LockKeepsMutex, UnlockKeepsMutex
  <1>3. CASE ~ \E w \in Worker :
                 Lock(w) \/ Unlock(w) \/ Exit(w) \/ Killed(w) \/ WorkerExits(w)
    BY <1>3, QuietSteps, QuietKeepsMutex
  <1> QED
    BY <1>1, <1>2, <1>3

LEMMA MutexAlways == Spec => [](PlacesOK /\ MutexInv)
  BY PlacesInit, PlacesStep, MutexInit, MutexStep, PTL DEF Spec

(* gamestate.c, shm_lock: one worker at a time is inside, whatever happens *)
(* to the others.                                                          *)
THEOREM MutualExclusionHolds == Spec => []MutualExclusion
  <1>1. MutexInv => MutualExclusion
    BY DEF MutexInv, InsideOwns, MutualExclusion
  <1> QED
    BY <1>1, MutexAlways, PTL

(* gamestate_player_join and gamestate_player_leave: every player who came *)
(* and went is counted once.                                               *)
THEOREM NoUpdateIsLost == Spec => []NoUpdateLost
  <1>1. PlacesOK /\ MutexInv => NoUpdateLost
    BY DEF MutexInv, NoUpdateLost
  <1> QED
    BY <1>1, MutexAlways, PTL

-----------------------------------------------------------------------------
(* Descriptors.  The master has at most the last connection besides the    *)
(* listening socket; no worker has that one before the fork.               *)

ConnInv ==
    /\ accepted \in Nat
    /\ held \in [Process -> SUBSET ({listener} \cup 1..accepted)]
    /\ \A v, w \in Worker : v # w => (held[v] \cap held[w]) \subseteq {listener}
    /\ held[Master] \subseteq {listener, accepted}
    /\ master \in {"accept", "warn"} => held[Master] = {listener}
    /\ master \in {"fork", "forked", "failed"} => listener \in held[Master]
    /\ master = "fork" => \A w \in Worker : accepted \notin held[w]

LEMMA ConnStep == ConnInv /\ [Next]_vars => ConnInv'
  <1> SUFFICES ASSUME ConnInv, [Next]_vars PROVE ConnInv'
    OBVIOUS
  <1>0. Master \in Process /\ Worker \subseteq Process /\ Master \notin Worker /\ listener \notin Nat
    BY ProcessAssumption DEF Process
  <1> USE DEF ConnInv
  <1>1. CASE Accept
    <2>1. /\ accepted' = accepted + 1 /\ master = "accept" /\ master' = "fork"
          /\ held' = [held EXCEPT ![Master] = @ \cup {accepted + 1}]
      BY <1>1 DEF Accept, MasterGoes
    <2>2. \A w \in Worker : held'[w] = held[w] /\ accepted + 1 \notin held[w]
      BY <1>0, <2>1
    <2>3. held'[Master] = {listener, accepted + 1}
      BY <1>0, <2>1
    <2>4. held' \in [Process -> SUBSET ({listener} \cup 1..accepted')]
      <3>1. 1..accepted \subseteq 1..accepted' /\ accepted + 1 \in 1..accepted'
        BY <2>1
      <3> DEFINE Old == {listener} \cup 1..accepted
                 New == {listener} \cup 1..accepted'
      <3>2. Old \subseteq New /\ accepted + 1 \in New
        BY <3>1
      <3>3. held \in [Process -> SUBSET Old]
        OBVIOUS
      <3> HIDE DEF Old, New, ConnInv
      <3>4. held' \in [Process -> SUBSET New]
        BY <2>1, <3>2, <3>3
      <3> QED
        BY <3>4 DEF New
    <2>5. /\ accepted' \in Nat
          /\ \A u, v \in Worker : u # v => (held'[u] \cap held'[v]) \subseteq {listener}
          /\ \A w \in Worker : accepted' \notin held'[w]
      BY <2>1, <2>2
    <2>6. held'[Master] \subseteq {listener, accepted'} /\ listener \in held'[Master]
      BY <2>1, <2>3
    <2>7. master' = "fork"
      BY <2>1
    <2> QED
      BY <2>4, <2>5, <2>6, <2>7
  <1>2. CASE Fork
    <2>1. PICK w \in Worker : held' = [held EXCEPT ![w] = held[Master]]
      BY <1>2 DEF Fork
    <2>2. master = "fork" /\ master' = "forked" /\ accepted' = accepted
      BY <1>2 DEF Fork, MasterGoes
    <2>3. held'[Master] = held[Master] /\ held'[w] = held[Master]
      BY <1>0, <2>1
    <2>4. \A v \in Worker \ {w} : held'[v] = held[v] /\ accepted \notin held[v]
      BY <1>0, <2>1, <2>2
    <2>5. held' \in [Process -> SUBSET ({listener} \cup 1..accepted')]
      BY <1>0, <2>1, <2>2
    <2>6. \A u, v \in Worker : u # v => (held'[u] \cap held'[v]) \subseteq {listener}
      <3> SUFFICES ASSUME NEW u \in Worker, NEW v \in Worker, u # v
                   PROVE  (held'[u] \cap held'[v]) \subseteq {listener}
        OBVIOUS
      <3>1. held[Master] \subseteq {listener, accepted}
        OBVIOUS
      <3>2. CASE u = w
        BY <2>3, <2>4, <3>1, <3>2
      <3>3. CASE v = w
        BY <2>3, <2>4, <3>1, <3>3
      <3>4. CASE u # w /\ v # w
        BY <2>4, <3>4
      <3> QED
        BY <3>2, <3>3, <3>4
    <2> QED
      BY <2>2, <2>3, <2>5, <2>6
  <1>3. CASE CloseConnection
    <2>1. /\ held' = [held EXCEPT ![Master] = @ \ {accepted}]
          /\ master \in {"forked", "failed"} /\ master' = "accept" /\ accepted' = accepted
      BY <1>3 DEF CloseConnection, MasterGoes
    <2>2. held'[Master] = {listener} /\ \A w \in Worker : held'[w] = held[w]
      BY <1>0, <2>1
    <2>3. held' \in [Process -> SUBSET ({listener} \cup 1..accepted')]
      BY <2>1
    <2> QED
      BY <2>1, <2>2, <2>3
  <1>4. ASSUME UNCHANGED accepted, master' \in {"gone", "quitting", "stuck", master},
               NEW p \in Process, NEW kept \in SUBSET held[p],
               held' = [held EXCEPT ![p] = kept],
               p = Master => master' \in {"gone", "quitting", "stuck"} \/ kept = held[p]
        PROVE  ConnInv'
    <2>1. \A q \in Process : held'[q] \subseteq held[q]
      BY <1>4
    <2>2. held' \in [Process -> SUBSET ({listener} \cup 1..accepted')]
      BY <1>4
    <2>3. held'[Master] = held[Master] \/ master' \in {"gone", "quitting", "stuck"}
      BY <1>0, <1>4
    <2> QED
      BY <1>0, <1>4, <2>1, <2>2, <2>3
  <1>5. ASSUME UNCHANGED <<accepted, held>>,
               \/ master' \in {"gone", "quitting", "stuck", master}
               \/ master = "fork" /\ master' = "failed"
               \/ master = "accept" /\ master' = "warn"
               \/ master = "warn" /\ master' = "accept"
        PROVE  ConnInv'
    BY <1>5
  <1>6. CASE AcceptFails \/ WarnedOfAccept \/ ForkFails \/ DeliverToMaster
    BY <1>5, <1>6 DEF AcceptFails, WarnedOfAccept, ForkFails, DeliverToMaster, MasterGoes
  <1>7. CASE EnterReaping \/ Reap \/ LeaveReaping \/ SigQuit \/ UNCHANGED vars
    BY <1>5, <1>7 DEF EnterReaping, Reap, LeaveReaping, SigQuit, masterVars, vars
  <1>8. CASE MasterExits
    BY <1>0, <1>4, <1>8 DEF MasterExits
  <1>9. ASSUME NEW w \in Worker, CloseListener(w) PROVE ConnInv'
    BY <1>0, <1>4, <1>9 DEF CloseListener, masterVars
  <1>10. ASSUME NEW w \in Worker, Exit(w) \/ Killed(w) \/ WorkerExits(w)
         PROVE  ConnInv'
    <2>1. held' = [held EXCEPT ![w] = {}] /\ UNCHANGED <<master, accepted>>
      BY <1>10 DEF Exit, Killed, WorkerExits, EndWorker, EndOf
    <2> QED
      BY <1>0, <1>4, <2>1
  <1>11. ASSUME NEW w \in Worker,
                \/ Handshake(w) \/ LogWritten(w) \/ TakePacket(w) \/ EndSession(w)
                \/ Lock(w) \/ LogInside(w) \/ Unlock(w) \/ DeliverToWorker(w)
         PROVE  ConnInv'
    BY <1>5, <1>11 DEF Handshake, LogWritten, TakePacket, EndSession, Lock, LogInside,
        Unlock, DeliverToWorker, masterVars
  <1> QED
    BY <1>1, <1>2, <1>3, <1>6, <1>7, <1>8, <1>9, <1>10, <1>11, Steps

(* server.c, the closes around fork(): a connection belongs to one worker. *)
THEOREM ConnectionsStayPrivate == Spec => []ConnectionsArePrivate
  <1>1. Init => ConnInv
    BY ProcessAssumption DEF Init, ConnInv, Process
  <1>2. ConnInv => ConnectionsArePrivate
    BY DEF ConnInv, ConnectionsArePrivate
  <1> QED
    BY <1>1, <1>2, ConnStep, PTL DEF Spec

-----------------------------------------------------------------------------
(* The types.  Those of the workers' places, of what is counted and of the *)
(* descriptors are parts of the invariants above; this is the rest.        *)

ControlTypeOK ==
    /\ master \in MasterPc /\ accepted \in 0..MaxClients
    /\ chld \in BOOLEAN /\ reaping \in {"no", "yes", "suspended"}
    /\ owner \in Worker \cup {NoOne, Lost} /\ destroyed \in BOOLEAN
    /\ quit \subseteq Process /\ signalled \in BOOLEAN

LEMMA ControlInit == Init => ControlTypeOK
  <1> SUFFICES ASSUME Init PROVE ControlTypeOK
    OBVIOUS
  <1>1. chld \in BOOLEAN /\ destroyed \in BOOLEAN /\ signalled \in BOOLEAN
    BY Zenon DEF Init
  <1> QED
    BY <1>1, ProcessAssumption DEF Init, ControlTypeOK, MasterPc

LEMMA ControlStep == ControlTypeOK /\ [Next]_vars => ControlTypeOK'
  <1> SUFFICES ASSUME ControlTypeOK, [Next]_vars PROVE ControlTypeOK'
    OBVIOUS
  <1>0. Worker \subseteq Process /\ MaxClients \in Nat
    BY ProcessAssumption DEF Process
  <1> USE DEF ControlTypeOK, masterVars, mutexVars, quitVars
  <1>1. CASE Accept \/ AcceptFails \/ WarnedOfAccept
    BY <1>0, <1>1 DEF Accept, AcceptFails, WarnedOfAccept, MasterGoes, MasterPc
  <1>2. CASE Fork \/ ForkFails \/ CloseConnection
    BY <1>2 DEF Fork, ForkFails, CloseConnection, MasterGoes, MasterPc
  <1>3. CASE EnterReaping \/ Reap \/ LeaveReaping
    <2>1. chld' \in BOOLEAN
      BY <1>3, Zenon DEF EnterReaping, Reap, LeaveReaping
    <2> QED
      BY <1>3, <2>1 DEF EnterReaping, Reap, LeaveReaping
  <1>4. CASE DeliverToMaster
    BY <1>4 DEF DeliverToMaster, MasterPc
  <1>5. CASE SigQuit
    <2>1. signalled' \in BOOLEAN
      BY <1>5, Zenon DEF SigQuit
    <2> QED
      BY <1>0, <1>5, <2>1 DEF SigQuit, Process
  <1>6. CASE MasterExits
    <2>1. chld' \in BOOLEAN /\ destroyed' \in BOOLEAN
      BY <1>6, Zenon DEF MasterExits, GamestateDestroy
    <2> QED
      BY <1>6, <2>1 DEF MasterExits, MasterPc
  <1>7. ASSUME NEW w \in Worker, Exit(w) \/ Killed(w) \/ WorkerExits(w)
        PROVE  ControlTypeOK'
    <2>1. chld' \in BOOLEAN /\ destroyed' \in BOOLEAN
      BY <1>7, Zenon DEF Exit, Killed, WorkerExits, EndWorker, EndOf, GamestateDestroy
    <2>2. /\ UNCHANGED <<master, accepted, reaping, signalled>>
          /\ owner' \in {owner, Lost} /\ quit' \subseteq quit
      BY <1>7 DEF Exit, Killed, WorkerExits, EndWorker, EndOf
    <2> QED
      BY <2>1, <2>2
  <1>8. ASSUME NEW w \in Worker, Lock(w) \/ Unlock(w) PROVE ControlTypeOK'
    BY <1>8 DEF Lock, Unlock
  <1>9. ASSUME NEW w \in Worker,
               \/ CloseListener(w) \/ Handshake(w) \/ LogWritten(w) \/ TakePacket(w)
               \/ EndSession(w) \/ LogInside(w) \/ DeliverToWorker(w)
        PROVE  ControlTypeOK'
    BY <1>9 DEF CloseListener, Handshake, LogWritten, TakePacket, EndSession,
        LogInside, DeliverToWorker
  <1>10. CASE UNCHANGED vars
    BY <1>10 DEF vars
  <1> QED
    BY <1>1, <1>2, <1>3, <1>4, <1>5, <1>6, <1>7, <1>8, <1>9, <1>10, Steps

(* Every variable keeps to its type: the count never falls below 0, though *)
(* a destroyed mutex lets workers overwrite each other's.                  *)
THEOREM ProcessTypeCorrect == Spec => []ProcessesTypeOK
  <1>1. Init => ConnInv
    BY ProcessAssumption DEF Init, ConnInv, Process
  <1>2. ControlTypeOK /\ PlacesOK /\ MutexInv /\ ConnInv => ProcessesTypeOK
    <2> SUFFICES ASSUME ControlTypeOK, PlacesOK, MutexInv, ConnInv
                 PROVE  ProcessesTypeOK
      OBVIOUS
    <2>1. held \in [Process -> SUBSET (Nat \cup {listener})]
      <3> DEFINE Now == {listener} \cup 1..accepted
                 Ever == Nat \cup {listener}
      <3>1. Now \subseteq Ever
        BY DEF ConnInv
      <3>2. held \in [Process -> SUBSET Now]
        BY DEF ConnInv
      <3> HIDE DEF Now, Ever
      <3>3. held \in [Process -> SUBSET Ever]
        BY <3>1, <3>2
      <3> QED
        BY <3>3 DEF Ever
    <2> QED
      BY <2>1, Zenon DEF ControlTypeOK, PlacesOK, MutexInv, CountTypeOK, Todo, ProcessesTypeOK
  <1> QED
    BY <1>1, <1>2, ControlInit, ControlStep, ConnStep, MutexAlways, PTL DEF Spec
-----------------------------------------------------------------------------
(* What the mutex and the port may be left with.  These are the sides of   *)
(* MutexIsReleased and of ShutdownEnds that need no fairness: the worker   *)
(* that has the mutex, or the port, is one whose next steps give it back.  *)

(* A worker that has the mutex is in a critical section, or in the handler *)
(* of SIGQUIT that interrupted it there: never at select(), behind the     *)
(* section in log_write, or back at the lock.  Destroyed, it is nobody's.  *)
OwnerIsAtWork ==
    /\ owner \in Worker => Inside(owner) \/ pc[owner] \in {"quitting", "stuck"}
    /\ destroyed => owner = NoOne

(* The port is open in the master, and in a worker only before it closes   *)
(* server_fd, or if the handler interrupted it before that and is about to *)
(* exit.                                                                   *)
PortIsMasters ==
    /\ \A w \in Worker : listener \in held[w] => pc[w] \in {"forked", "quitting"}
    /\ master = "gone" => held[Master] = {}

KeepersInv ==
    /\ pc \in [Worker -> WorkerPc] /\ held \in [Process -> SUBSET (Nat \cup {listener})]
    /\ owner \in Worker \cup {NoOne, Lost} /\ accepted \in Nat
    /\ OwnerIsAtWork /\ PortIsMasters

(* The end of a worker, with what a destroyed mutex may do to others.      *)
LEMMA EndKeepsKeepers ==
  ASSUME KeepersInv, NEW w \in Worker, EndOf(w),
         pc' \in [Worker -> WorkerPc], destroyed' => destroyed \/ owner = NoOne,
         \A v \in Worker \ {w} : pc'[v] = pc[v] \/ pc[v] = "lock"
  PROVE  KeepersInv'
  <1>0. Worker \subseteq Process /\ Master \in Process /\ Master \notin Worker
        /\ NoOne \notin Worker /\ Lost \notin Worker
    BY ProcessAssumption DEF Process
  <1>1. /\ held' = [held EXCEPT ![w] = {}] /\ UNCHANGED master
        /\ owner' = IF owner = w THEN Lost ELSE owner
    BY DEF EndOf
  <1>2. held' \in [Process -> SUBSET (Nat \cup {listener})] /\ PortIsMasters'
    <2>1. held \in [Process -> SUBSET (Nat \cup {listener})] /\ PortIsMasters
      BY DEF KeepersInv
    <2>2. held'[w] = {} /\ \A q \in Process \ {w} : held'[q] = held[q]
      BY <1>0, <1>1, <2>1
    <2> QED
      BY <1>0, <1>1, <2>1, <2>2 DEF PortIsMasters
  <1>3. owner' \in Worker \cup {NoOne, Lost} /\ OwnerIsAtWork'
    BY <1>0, <1>1 DEF KeepersInv, OwnerIsAtWork, Inside
  <1> QED
    BY <1>2, <1>3 DEF KeepersInv, EndOf

LEMMA KeepersStep == KeepersInv /\ [Next]_vars => KeepersInv'
  <1> SUFFICES ASSUME KeepersInv, [Next]_vars PROVE KeepersInv'
    OBVIOUS
  <1>0. /\ Worker \subseteq Process /\ Master \in Process /\ Master \notin Worker
        /\ NoOne \notin Worker /\ Lost \notin Worker /\ listener \notin Nat
    BY ProcessAssumption DEF Process
  <1> USE <1>0 DEF KeepersInv, OwnerIsAtWork, PortIsMasters, Inside, WorkerPc
  <1>1. ASSUME UNCHANGED <<pc, owner, destroyed>>, master' # "gone", accepted' \in Nat,
               \A w \in Worker : held'[w] = held[w],
               held' \in [Process -> SUBSET (Nat \cup {listener})]
        PROVE  KeepersInv'
    BY <1>1
  <1>2. ASSUME UNCHANGED <<owner, destroyed, accepted, held, master>>,
               pc' \in [Worker -> WorkerPc],
               \A w \in Worker : \/ pc'[w] \in {pc[w], "quitting", "stuck"}
                                 \/ Inside(w) /\ Inside(w)'
                                 \/ ~Inside(w) /\ pc[w] \notin {"forked", "quitting", "stuck"},
               \A w \in Worker : listener \in held[w] => pc'[w] \in {"forked", "quitting"}
        PROVE  KeepersInv'
    BY <1>2
  <1>3. CASE Accept \/ CloseConnection
    <2>1. /\ UNCHANGED <<pc, owner, destroyed>> /\ master' # "gone" /\ accepted' \in Nat
          /\ held' = [held EXCEPT ![Master] = held[Master] \cup {accepted'}]
             \/ held' = [held EXCEPT ![Master] = held[Master] \ {accepted}]
      BY <1>3 DEF Accept, CloseConnection, MasterGoes, workerVars, mutexVars
    <2> QED
      BY <1>1, <2>1
  <1>4. CASE AcceptFails \/ WarnedOfAccept \/ ForkFails \/ DeliverToMaster
    BY <1>1, <1>4 DEF AcceptFails, WarnedOfAccept, ForkFails, DeliverToMaster, MasterGoes,
        workerVars, mutexVars
  <1>5. CASE EnterReaping \/ LeaveReaping \/ SigQuit \/ UNCHANGED vars
    <2>1. UNCHANGED <<pc, owner, destroyed, accepted, held, master>>
      BY <1>5 DEF EnterReaping, LeaveReaping, SigQuit, vars, masterVars, workerVars, mutexVars
    <2> QED
      BY <2>1
  <1>6. CASE Reap
    <2>1. PICK w \in Worker : pc[w] = "zombie" /\ pc' = [pc EXCEPT ![w] = "free"]
      BY <1>6 DEF Reap
    <2>2. UNCHANGED <<owner, destroyed, accepted, held, master>>
      BY <1>6 DEF Reap, masterVars, mutexVars
    <2> QED
      BY <1>2, <2>1, <2>2
  <1>7. CASE Fork
    <2>1. PICK w \in Worker : /\ pc[w] = "free" /\ pc' = [pc EXCEPT ![w] = "forked"]
                              /\ held' = [held EXCEPT ![w] = held[Master]]
      BY <1>7 DEF Fork
    <2>2. UNCHANGED <<owner, destroyed, accepted>> /\ master' = "forked"
      BY <1>7 DEF Fork, MasterGoes, mutexVars
    <2>3. held' \in [Process -> SUBSET (Nat \cup {listener})]
      BY <2>1
    <2>4. \A v \in Worker \ {w} : held'[v] = held[v] /\ pc'[v] = pc[v]
      BY <2>1
    <2>5. pc'[w] = "forked" /\ pc' \in [Worker -> WorkerPc]
      BY <2>1
    <2>6. OwnerIsAtWork'
      BY <2>1, <2>2, <2>4, <2>5
    <2>7. PortIsMasters'
      BY <2>2, <2>4, <2>5
    <2> QED
      BY <2>2, <2>3, <2>5, <2>6, <2>7
  <1>8. CASE MasterExits
    <2>1. /\ UNCHANGED <<owner, accepted>> /\ master' = "gone"
          /\ held' = [held EXCEPT ![Master] = {}]
          /\ destroyed' => destroyed \/ owner = NoOne
      BY <1>8, Zenon DEF MasterExits, GamestateDestroy
    <2>2. /\ pc' \in [Worker -> WorkerPc]
          /\ \A w \in Worker : pc'[w] = pc[w] \/ pc[w] \in {"lock", "zombie"}
      <3>1. PICK left \in LeftAsleep :
              pc' = [w \in Worker |-> IF w \in left THEN "asleep"
                                      ELSE IF pc[w] = "zombie" THEN "free" ELSE pc[w]]
        BY <1>8 DEF MasterExits
      <3>2. \A w \in left : pc[w] = "lock"
        BY DEF LeftAsleep
      <3> QED
        BY <3>1, <3>2
    <2>3. held' \in [Process -> SUBSET (Nat \cup {listener})]
      BY <2>1
    <2>4. held'[Master] = {} /\ \A w \in Worker : held'[w] = held[w]
      BY <2>1
    <2> QED
      BY <2>1, <2>2, <2>3, <2>4
  <1>9. ASSUME NEW w \in Worker, CloseListener(w) PROVE KeepersInv'
    <2>1. /\ pc[w] = "forked" /\ pc' = [pc EXCEPT ![w] = "handshake"]
          /\ held' = [held EXCEPT ![w] = held[w] \ {listener}]
          /\ UNCHANGED <<owner, destroyed, accepted, master>>
      BY <1>9 DEF CloseListener, WorkerGoes, masterVars, mutexVars
    <2>2. /\ held' \in [Process -> SUBSET (Nat \cup {listener})] /\ held'[Master] = held[Master]
          /\ listener \notin held'[w]
      BY <2>1
    <2>3. \A v \in Worker \ {w} : held'[v] = held[v] /\ pc'[v] = pc[v]
      BY <2>1
    <2>4. pc' \in [Worker -> WorkerPc]
      BY <2>1
    <2>5. OwnerIsAtWork'
      BY <2>1, <2>3
    <2> QED
      BY <2>1, <2>2, <2>3, <2>4, <2>5
  <1>10. ASSUME NEW w \in Worker,
                \/ Handshake(w) \/ LogWritten(w) \/ TakePacket(w) \/ EndSession(w)
                \/ LogInside(w)
         PROVE  KeepersInv'
    <2>1. PICK from, to \in WorkerPc :
            /\ pc[w] = from /\ pc' = [pc EXCEPT ![w] = to]
            /\ \/ from \in {"handshake", "log", "idle"}
               \/ from = "inside" /\ to = "logging"
      BY <1>10 DEF Handshake, LogWritten, TakePacket, EndSession, LogInside, WorkerGoes
    <2>2. UNCHANGED <<owner, destroyed, accepted, held, master>>
      BY <1>10 DEF Handshake, LogWritten, TakePacket, EndSession, LogInside,
          masterVars, mutexVars
    <2>3. pc'[w] = to /\ \A v \in Worker \ {w} : pc'[v] = pc[v]
      BY <2>1
    <2> QED
      BY <1>2, <2>1, <2>2, <2>3
  <1>11. ASSUME NEW w \in Worker, DeliverToWorker(w) PROVE KeepersInv'
    <2>1. /\ UNCHANGED <<owner, destroyed, accepted, held, master>>
          /\ \/ pc' = [pc EXCEPT ![w] = "quitting"]
             \/ pc[w] \in {"log", "logging"} /\ pc' = [pc EXCEPT ![w] = "stuck"]
      BY <1>11 DEF DeliverToWorker, masterVars, mutexVars
    <2> QED
      BY <1>2, <2>1
  <1>12. ASSUME NEW w \in Worker, Lock(w) PROVE KeepersInv'
    <2>1. /\ pc[w] = "lock" /\ pc' = [pc EXCEPT ![w] = "inside"]
          /\ owner' = IF destroyed THEN owner ELSE w
          /\ UNCHANGED <<destroyed, accepted, held, master>>
      BY <1>12 DEF Lock, WorkerGoes, masterVars
    <2>2. pc' \in [Worker -> WorkerPc] /\ pc'[w] = "inside"
          /\ \A v \in Worker \ {w} : pc'[v] = pc[v]
      BY <2>1
    <2> QED
      BY <2>1, <2>2
  <1>13. ASSUME NEW w \in Worker, Unlock(w) PROVE KeepersInv'
    <2>1. /\ Inside(w) /\ pc' = [pc EXCEPT ![w] = IF todo[w] = "leave" THEN "idle" ELSE "log"]
          /\ owner' = IF owner = w THEN NoOne ELSE owner
          /\ UNCHANGED <<destroyed, accepted, held, master>>
      BY <1>13 DEF Unlock, AfterSection, masterVars
    <2>2. pc' \in [Worker -> WorkerPc] /\ pc'[w] \in {"idle", "log"}
          /\ \A v \in Worker \ {w} : pc'[v] = pc[v]
      BY <2>1
    <2> QED
      BY <2>1, <2>2
  <1>14. ASSUME NEW w \in Worker, Exit(w) \/ Killed(w) PROVE KeepersInv'
    <2>1. EndOf(w) /\ pc' = [pc EXCEPT ![w] = Ended] /\ destroyed' = destroyed
      BY <1>14 DEF Exit, Killed, EndWorker
    <2>2. Ended \in WorkerPc
      BY DEF Ended
    <2> QED
      BY <2>1, <2>2, EndKeepsKeepers
  <1>15. ASSUME NEW w \in Worker, WorkerExits(w) PROVE KeepersInv'
    <2>1. EndOf(w) /\ (destroyed' => destroyed \/ owner = NoOne)
      BY <1>15, Zenon DEF WorkerExits, GamestateDestroy
    <2>2. PICK left \in LeftAsleep :
            pc' = [v \in Worker |-> IF v = w THEN Ended
                                    ELSE IF v \in left THEN "asleep" ELSE pc[v]]
      BY <1>15 DEF WorkerExits
    <2>3. (\A v \in left : pc[v] = "lock") /\ Ended \in WorkerPc
      BY DEF LeftAsleep, Ended
    <2>4. pc' \in [Worker -> WorkerPc] /\ \A v \in Worker \ {w} : pc'[v] = pc[v] \/ pc[v] = "lock"
      BY <2>2, <2>3
    <2> QED
      BY <2>1, <2>4, EndKeepsKeepers
  <1> QED
    BY <1>3, <1>4, <1>5, <1>6, <1>7, <1>8, <1>9, <1>10, <1>11, <1>12, <1>13, <1>14,
       <1>15, Steps

LEMMA KeepersAlways == Spec => []KeepersInv
  <1>1. Init => KeepersInv
    BY ProcessAssumption
       DEF Init, KeepersInv, OwnerIsAtWork, PortIsMasters, WorkerPc, Process
  <1> QED
    BY <1>1, KeepersStep, PTL DEF Spec

(* gamestate.c, the unlock before each return: no way out of a section     *)
(* keeps the mutex, whatever ends or interrupts the others.                *)
THEOREM OwnerAlwaysAtWork == Spec => []OwnerIsAtWork
  BY KeepersAlways, PTL DEF KeepersInv

(* server.c, close(server_fd) in the child: when the master is gone, only  *)
(* workers on their way to that call or to exit() keep the port.           *)
THEOREM PortStaysWithMaster == Spec => []PortIsMasters
  BY KeepersAlways, PTL DEF KeepersInv
=============================================================================
