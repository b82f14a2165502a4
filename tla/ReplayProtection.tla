-------------------------- MODULE ReplayProtection --------------------------
(***************************************************************************)
(* The replay protection of one connection (replay_protection.c): what is  *)
(* accepted after which sequence number.  Sequence numbers are unsigned    *)
(* integers that wrap around; SeqModulus is 2^32 in the code.              *)
(***************************************************************************)
EXTENDS Integers

CONSTANT SeqModulus      \* how many sequence numbers there are

ASSUME SeqAssumption ==
    /\ SeqModulus \in Nat
    /\ SeqModulus >= 4
    /\ SeqModulus % 2 = 0

SeqNum == 0..(SeqModulus - 1)

(* 0x7FFFFFFF: from this distance back on, a smaller number is taken for a *)
(* rollover.                                                               *)
HalfRange == SeqModulus \div 2 - 1

ReplayState == [last_seq_num : SeqNum, initialized : BOOLEAN]

ReplayInit == [last_seq_num |-> 0, initialized |-> FALSE]

(* Mutant of Accepts: no allowance for the rollover.                       *)
AcceptsGreaterOnly(rp, seq_num) ==
    ~rp.initialized \/ seq_num > rp.last_seq_num

(* Mutant of Accepts: the last number once more passes.                    *)
AcceptsEqual(rp, seq_num) ==
    \/ ~rp.initialized
    \/ seq_num >= rp.last_seq_num
    \/ rp.last_seq_num - seq_num >= HalfRange

(* replay_protection_validate returns TRUE.                                *)
Accepts(rp, seq_num) ==
    \/ ~rp.initialized
    \/ seq_num > rp.last_seq_num
    \/ rp.last_seq_num - seq_num >= HalfRange

(* ... and what it leaves in the connection's state.                       *)
Validated(rp, seq_num) ==
    IF Accepts(rp, seq_num)
    THEN [last_seq_num |-> seq_num, initialized |-> TRUE]
    ELSE rp

(* The sender's g_seq_num++.                                               *)
Successor(seq_num) == (seq_num + 1) % SeqModulus
=============================================================================
