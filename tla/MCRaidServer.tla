---------------------------- MODULE MCRaidServer ----------------------------
(***************************************************************************)
(* Instances of RaidServer for TLC.                                        *)
(***************************************************************************)
EXTENDS RaidServer, TLC

(* Faces enough for every outcome: a tie, a loss and a (double) win.       *)
OneAndSix == {1, 6}

(* Workers are interchangeable, and so are names.                          *)
Symmetry == Permutations(Worker) \cup Permutations(PlayerName)
=============================================================================
