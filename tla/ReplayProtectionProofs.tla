----------------------- MODULE ReplayProtectionProofs -----------------------
(***************************************************************************)
(* Theorems about the replay protection, for any number of sequence        *)
(* numbers.                                                                *)
(***************************************************************************)
EXTENDS ReplayProtection, TLAPS

LEMMA SuccessorValue ==
  ASSUME NEW n \in SeqNum
  PROVE  /\ Successor(n) \in SeqNum
         /\ n + 1 < SeqModulus => Successor(n) = n + 1
         /\ n + 1 = SeqModulus => Successor(n) = 0
  <1>1. CASE n + 1 < SeqModulus
    BY <1>1, SeqAssumption DEF SeqNum, Successor
  <1>2. CASE n + 1 = SeqModulus
    BY <1>2, SeqAssumption DEF SeqNum, Successor
  <1> QED
    BY <1>1, <1>2, SeqAssumption DEF SeqNum

(* replay_protection_validate: after any packet, the one that follows it   *)
(* in the sender's numbering passes, across the rollover as well.          *)
THEOREM NextNumberPasses ==
  \A n \in SeqNum :
      Accepts([last_seq_num |-> n, initialized |-> TRUE], Successor(n))
  <1> SUFFICES ASSUME NEW n \in SeqNum
               PROVE  Accepts([last_seq_num |-> n, initialized |-> TRUE], Successor(n))
    OBVIOUS
  <1>1. CASE n + 1 < SeqModulus
    BY <1>1, SuccessorValue, SeqAssumption DEF Accepts, SeqNum
  <1>2. CASE n + 1 = SeqModulus
    <2>1. n - 0 >= HalfRange
      BY <1>2, SeqAssumption DEF HalfRange, SeqNum
    <2> QED
      BY <1>2, <2>1, SuccessorValue, SeqAssumption DEF Accepts, SeqNum
  <1> QED
    BY <1>1, <1>2, SeqAssumption DEF SeqNum

LEMMA ValidatedType ==
  ASSUME NEW r \in ReplayState, NEW n \in SeqNum
  PROVE  Validated(r, n) \in ReplayState
  BY DEF Validated, ReplayState
=============================================================================
