------------------------- MODULE StressClientProofs -------------------------
(***************************************************************************)
(* Theorems about the stress client, for any number of threads, packets    *)
(* and sequence numbers.                                                   *)
(***************************************************************************)
EXTENDS StressClient, ReplayProtectionProofs

-----------------------------------------------------------------------------
(* Types.  A thread at work has packets left: that keeps its count of them *)
(* from going below zero.                                                  *)

AtWork == \A t \in Thread : pc[t] \in {"load", "store", "send"} => left[t] > 0

TypeInv == TypeOK /\ AtWork

LEMMA TypeInit == Init => TypeInv
  <1> SUFFICES ASSUME Init PROVE TypeInv
    OBVIOUS
  <1>1. ReplayInit \in ReplayState /\ 0 \in SeqNum /\ 1 \in SeqNum
    BY SeqAssumption DEF ReplayInit, ReplayState, SeqNum
  <1>2. TypeOK
    <2>1. left \in [Thread -> 0..Packets]
      BY StressAssumption DEF Init
    <2>2. set_back \in BOOLEAN
      BY Zenon DEF Init
    <2>3. /\ seq_num \in [Thread -> SeqNum] /\ rp \in [Thread -> ReplayState]
          /\ g_seq_num \in SeqNum
      BY <1>1, Zenon DEF Init
    <2>4. pc \in [Thread -> {"load", "store", "send", "done", "refused"}]
      BY DEF Init
    <2> QED
      BY <2>1, <2>2, <2>3, <2>4, Zenon DEF TypeOK
  <1>3. AtWork
    BY StressAssumption DEF Init, AtWork
  <1> QED
    BY <1>2, <1>3 DEF TypeInv

LEMMA TypeStep == TypeInv /\ [Next]_vars => TypeInv'
  <1> SUFFICES ASSUME TypeOK, AtWork, [Next]_vars PROVE TypeOK' /\ AtWork'
    BY DEF TypeInv
  <1>1. ASSUME NEW t \in Thread, LoadSeq(t) PROVE TypeOK' /\ AtWork'
    BY <1>1 DEF TypeOK, AtWork, LoadSeq
  <1>2. ASSUME NEW t \in Thread, StoreSeq(t) PROVE TypeOK' /\ AtWork'
    <2>1. Successor(seq_num[t]) \in SeqNum
      BY SuccessorValue DEF TypeOK
    <2> QED
      BY <1>2, <2>1 DEF TypeOK, AtWork, StoreSeq
  <1>3. ASSUME NEW t \in Thread, Exchange(t) PROVE TypeOK' /\ AtWork'
    <2>1. Validated(rp[t], seq_num[t]) \in ReplayState
      BY ValidatedType DEF TypeOK
    <2>2. left[t] - 1 \in 0..Packets
      BY <1>3, StressAssumption DEF TypeOK, AtWork, Exchange
    <2>3. CASE Accepts(rp[t], seq_num[t])
      BY <1>3, <2>1, <2>2, <2>3, StressAssumption DEF TypeOK, AtWork, Exchange
    <2>4. CASE ~Accepts(rp[t], seq_num[t])
      BY <1>3, <2>1, <2>4 DEF TypeOK, AtWork, Exchange
    <2> QED
      BY <2>3, <2>4
  <1>4. CASE UNCHANGED vars
    BY <1>4 DEF TypeOK, AtWork, vars
  <1> QED
    BY <1>1, <1>2, <1>3, <1>4 DEF Next

(* Every variable keeps to its type.                                       *)
THEOREM TypeCorrect == Spec => []TypeOK
  <1>1. TypeInv => TypeOK
    BY DEF TypeInv
  <1> QED
    BY TypeInit, TypeStep, <1>1, PTL DEF Spec

-----------------------------------------------------------------------------
(* While the counter has not been set back, it is beyond every number a    *)
(* thread is done with, and a number taken from it is beyond the last one  *)
(* that thread used.  A counter of 0 has rolled over, which sets it back.  *)

Rising ==
    /\ g_seq_num > 0
    /\ \A t \in Thread :
         /\ pc[t] # "refused"
         /\ pc[t] = "load" /\ rp[t].initialized => rp[t].last_seq_num < g_seq_num
         /\ pc[t] \in {"store", "send"} /\ rp[t].initialized
              => rp[t].last_seq_num < seq_num[t]
         /\ pc[t] = "send" => seq_num[t] < g_seq_num

RisingInv == ~set_back => Rising

LEMMA RisingInit == Init => RisingInv
  BY DEF Init, RisingInv, Rising, ReplayInit

LEMMA RisingStep == TypeInv /\ RisingInv /\ [Next]_vars => RisingInv'
  <1> SUFFICES ASSUME TypeOK, RisingInv, [Next]_vars, ~set_back' PROVE Rising'
    BY DEF TypeInv, RisingInv
  <1> USE DEF SeqNum, ReplayState
  <1>1. ASSUME NEW t \in Thread, LoadSeq(t) PROVE Rising'
    BY <1>1 DEF TypeOK, RisingInv, Rising, LoadSeq
  <1>2. ASSUME NEW t \in Thread, StoreSeq(t) PROVE Rising'
    <2>1. ~set_back /\ Rising /\ g_seq_num' >= g_seq_num
      <3>1. ~set_back /\ ~(g_seq_num' < g_seq_num)
        BY <1>2, Zenon DEF StoreSeq
      <3>2. g_seq_num \in Nat /\ Successor(seq_num[t]) \in Nat
        BY SuccessorValue, SeqAssumption DEF TypeOK
      <3>3. g_seq_num' >= g_seq_num
        BY <1>2, <3>1, <3>2 DEF StoreSeq
      <3> QED
        BY <3>1, <3>3, Zenon DEF RisingInv
    <2>2. g_seq_num' = seq_num[t] + 1
      <3>1. seq_num[t] + 1 # SeqModulus
        BY <1>2, <2>1, SuccessorValue DEF TypeOK, Rising, StoreSeq
      <3> QED
        BY <1>2, <3>1, SuccessorValue, SeqAssumption DEF TypeOK, StoreSeq
    <2>3. ASSUME NEW u \in Thread, u # t
          PROVE  /\ pc'[u] = pc[u] /\ rp'[u] = rp[u] /\ seq_num'[u] = seq_num[u]
                 /\ rp[u].last_seq_num \in Nat /\ seq_num[u] \in Nat
      BY <1>2, <2>3, SeqAssumption DEF TypeOK, StoreSeq
    <2>4. /\ pc'[t] = "send" /\ rp'[t] = rp[t] /\ seq_num'[t] = seq_num[t]
          /\ rp[t].last_seq_num \in Nat /\ seq_num[t] \in Nat
      BY <1>2, SeqAssumption DEF TypeOK, StoreSeq
    <2>5. g_seq_num \in Nat
      BY SeqAssumption DEF TypeOK
    <2>6. pc[t] = "store"
      BY <1>2 DEF StoreSeq
    <2> QED
      BY <2>1, <2>2, <2>3, <2>4, <2>5, <2>6 DEF Rising
  <1>3. ASSUME NEW t \in Thread, Exchange(t) PROVE Rising'
    <2>1. ~set_back /\ Rising
      BY <1>3 DEF RisingInv, Exchange
    <2>2. Accepts(rp[t], seq_num[t])
      BY <1>3, <2>1 DEF TypeOK, Rising, Exchange, Accepts
    <2>3. Validated(rp[t], seq_num[t]).last_seq_num = seq_num[t]
      BY <2>2 DEF Validated
    <2> QED
      BY <1>3, <2>1, <2>2, <2>3 DEF TypeOK, Rising, Exchange
  <1>4. CASE UNCHANGED vars
    BY <1>4 DEF RisingInv, Rising, vars
  <1> QED
    BY <1>1, <1>2, <1>3, <1>4 DEF Next

(* client.c, pkt_init_local without a lock: two threads that get the same  *)
(* number do no harm; a thread is refused only after a late store.         *)
THEOREM RefusalNeedsSetBack == Spec => []RefusedOnlyIfSetBack
  <1>1. RisingInv => RefusedOnlyIfSetBack
    BY DEF RisingInv, Rising, RefusedOnlyIfSetBack, Refused
  <1> QED
    BY TypeInit, TypeStep, RisingInit, RisingStep, <1>1, PTL DEF Spec
=============================================================================
