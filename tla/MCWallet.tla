------------------------------ MODULE MCWallet ------------------------------
(***************************************************************************)
(* Instances of Wallet for TLC: one wallet with a row and one id without,  *)
(* references that are shared across operations and wallets, an opening    *)
(* balance that covers one debit but not two, and a column limit that one  *)
(* credit can reach.                                                       *)
(***************************************************************************)
EXTENDS Wallet, TLC

CONSTANTS p1, p2, w1, ghost, r1, r2

MCOpening == [w \in {w1} |-> [balance |-> 30, hold |-> 20]]

Ask(op, w, a, r) == [op |-> op, wallet |-> w, amount |-> a, ref |-> r]

\* Whole satang: the operations that contend for the same money, a credit that
\* overflows the column, an unknown wallet and an amount that is refused.
WholeRequests ==
    {Ask("credit", w1, 20, r1), Ask("debit", w1, 20, r1), Ask("debit", w1, 20, r2),
     Ask("hold", w1, 30, r2), Ask("release", w1, 20, r2), Ask("credit", w1, 30, r2),
     Ask("credit", ghost, 10, r1), Ask("debit", w1, 0, r1)}

\* One request that every client repeats.
RepeatedRequests == {Ask("credit", w1, 20, r1)}

Symmetry == Permutations(Procs)
=============================================================================
