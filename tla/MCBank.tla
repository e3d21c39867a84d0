-------------------------------- MODULE MCBank --------------------------------
(***************************************************************************)
(* The instance of Bank for TLC: an account that two merchants share and   *)
(* that two reports fill, and one that a single report fills.              *)
(***************************************************************************)
EXTENDS Bank, TLC

CONSTANTS b1, b2, m1, m2, d1, d2, s1, u1, t1, x1

MCMapped == (m1 :> {b1, b2} @@ m2 :> {b1})

MCLimit == (b1 :> 2 @@ b2 :> 1)

MCPriority == (b1 :> 5 @@ b2 :> 2)

MCAmount == (d1 :> 1 @@ d2 :> 1)

\* The transfers share no variable with the accounts and the pools, and no
\* property relates the two: TLC lets one of them move in a behaviour.
Apart ==
    \/ \A t \in Transfers : transfer[t] = "none"
    \/ \A p \in Callers : bpc[p] = "idle"
=============================================================================
