---------------------------- MODULE MCLearnerViews ----------------------------
EXTENDS LearnerViews

(* Every concept has one spelling.                                          *)
OwnSpelling == [n \in Names |-> n]
Renamings == Permutations(Names)
=============================================================================
