---------------------------- MODULE MCWithdrawal ----------------------------
(***************************************************************************)
(* Instances of Withdrawal for TLC: two withdrawals of 2 out of funds and  *)
(* a daily limit of 3, so that either fits and both do not, and admin      *)
(* requests that fall on the same id or on different ones.                 *)
(***************************************************************************)
EXTENDS Withdrawal, TLC

CONSTANTS i1, i2, a1, a2, a3

MCAmount == [i \in Refs |-> 2]

MCCallers == Ids \cup Admins

Symmetry == Permutations(Ids) \cup Permutations(Admins)
=============================================================================
