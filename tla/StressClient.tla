---------------------------- MODULE StressClient ----------------------------
(***************************************************************************)
(* Stress mode (client.c, stress_worker_thread): many threads of one       *)
(* process, each with a connection of its own, all numbering their packets *)
(* from the one counter g_seq_num, without a lock.  At the other end of    *)
(* each connection the server's replay protection looks at the numbers     *)
(* that arrive there.                                                      *)
(*                                                                         *)
(* g_seq_num++ is a data race.  What the build can produce is what a load  *)
(* and a store of the counter give, with other threads in between.  A      *)
(* thread sends, waits for the answer and only then numbers its next       *)
(* packet.  JOIN is the first of its packets.                              *)
(***************************************************************************)
EXTENDS ReplayProtection, FiniteSets

CONSTANTS
    Thread,              \* the worker threads (100)
    Packets              \* packets each of them sends (1 JOIN and 20 attacks)

ASSUME StressAssumption == IsFiniteSet(Thread) /\ Packets \in Nat \ {0}

VARIABLES
    g_seq_num,           \* the shared counter
    pc,                  \* where each thread is
    seq_num,             \* the number it has loaded
    left,                \* packets it has still to send
    rp,                  \* replay protection at the server's end
    set_back             \* history: a store has lowered the counter, or it rolled over

vars == <<g_seq_num, pc, seq_num, left, rp, set_back>>

Init ==
    /\ g_seq_num = 1
    /\ pc = [t \in Thread |-> "load"]
    /\ seq_num = [t \in Thread |-> 0]
    /\ left = [t \in Thread |-> Packets]
    /\ rp = [t \in Thread |-> ReplayInit]
    /\ set_back = FALSE

-----------------------------------------------------------------------------
(* pkt_init_local: seq_num = g_seq_num++, its two halves.                  *)
LoadSeq(t) ==
    /\ pc[t] = "load"
    /\ pc' = [pc EXCEPT ![t] = "store"]
    /\ seq_num' = [seq_num EXCEPT ![t] = g_seq_num]
    /\ UNCHANGED <<g_seq_num, left, rp, set_back>>

(* Mutant of StoreSeq: the counter is not advanced.                        *)
StoreSameSeq(t) ==
    /\ pc[t] = "store"
    /\ pc' = [pc EXCEPT ![t] = "send"]
    /\ g_seq_num' = seq_num[t]
    /\ set_back' = (set_back \/ g_seq_num' < g_seq_num)
    /\ UNCHANGED <<seq_num, left, rp>>

StoreSeq(t) ==
    /\ pc[t] = "store"
    /\ pc' = [pc EXCEPT ![t] = "send"]
    /\ g_seq_num' = Successor(seq_num[t])
    /\ set_back' = (set_back \/ g_seq_num' < g_seq_num)
    /\ UNCHANGED <<seq_num, left, rp>>

(* The packet is sent.  The server accepts it and answers; or it refuses   *)
(* it and closes the connection, and the thread gives up.                  *)
Exchange(t) ==
    /\ pc[t] = "send"
    /\ rp' = [rp EXCEPT ![t] = Validated(@, seq_num[t])]
    /\ \/ /\ Accepts(rp[t], seq_num[t])
          /\ left' = [left EXCEPT ![t] = @ - 1]
          /\ pc' = [pc EXCEPT ![t] = IF left[t] = 1 THEN "done" ELSE "load"]
       \/ /\ ~Accepts(rp[t], seq_num[t])
          /\ pc' = [pc EXCEPT ![t] = "refused"]
          /\ UNCHANGED left
    /\ UNCHANGED <<g_seq_num, seq_num, set_back>>

Next == \E t \in Thread : LoadSeq(t) \/ StoreSeq(t) \/ Exchange(t)

Spec == Init /\ [][Next]_vars
-----------------------------------------------------------------------------
(* Properties.                                                             *)

(* Every variable keeps to its type.                                       *)
TypeOK ==
    /\ g_seq_num \in SeqNum
    /\ pc \in [Thread -> {"load", "store", "send", "done", "refused"}]
    /\ seq_num \in [Thread -> SeqNum]
    /\ left \in [Thread -> 0..Packets]
    /\ rp \in [Thread -> ReplayState]
    /\ set_back \in BOOLEAN

Refused == {t \in Thread : pc[t] = "refused"}

(* Two threads that load the same number do each other no harm: as long as *)
(* no late store has lowered the counter, every thread's own numbers rise  *)
(* and none is refused.                                                    *)
RefusedOnlyIfSetBack == Refused # {} => set_back

(* client.c has a thread number every packet one higher than the last, and *)
(* README.md has one client program simulate 100 concurrent connections.   *)
(* With the counter shared, an honest thread may be taken for a replay.    *)
HonestThreadIsServed == Refused = {}
=============================================================================
