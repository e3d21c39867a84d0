------------------------------ MODULE MCDeposit ------------------------------
(***************************************************************************)
(* Instances of Deposit for TLC: one order that two reports are about, at  *)
(* the same time as the worker; and two orders that only the worker deals  *)
(* with, on the same bank account or on two.                               *)
(***************************************************************************)
EXTENDS Deposit, TLC

CONSTANTS o1, o2, n1, n2, b1, b2

MCAmount == [o \in Refs |-> 1]

Symmetry == Permutations(Notices)
=============================================================================
