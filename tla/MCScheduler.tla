----------------------------- MODULE MCScheduler -----------------------------
(***************************************************************************)
(* The instance of Commission and Scheduler for TLC: an agent and a        *)
(* partner that have a wallet under their own id, an owner that has none,  *)
(* amounts whose shares round, and a calendar of short months.             *)
(***************************************************************************)
EXTENDS Scheduler, TLC

CONSTANTS r1, r2, g1, g2, agent, partner, stray

In(amount, fee, agentPct, partnerPct, a, p) ==
    [amount |-> amount, fee |-> fee, agentPct |-> agentPct, partnerPct |-> partnerPct,
     agent |-> a, partner |-> p]

\* Shares that add up to the fee but not once they are rounded (10% and 10% of 5
\* of a fee of 20%), shares that round and leave nothing to the system, an agent
\* without a wallet and without a partner, no amount.
MCInputs ==
    {In(5, 2, 1, 1, agent, partner), In(19, 2, 1, 1, agent, partner),
     In(10, 3, 1, 0, stray, None), In(0, 2, 1, 0, agent, None)}

\* A short month before a longer one: AddDate runs over.
MCLength == <<1, 2>>

MCReports == {<<<<2, 1>>, agent>>}

Symmetry == Permutations(Requests) \cup Permutations(Runners)
=============================================================================
