---------------------------- MODULE AtomicWallet ----------------------------
(***************************************************************************)
(* What the wallet service promises its callers: each request takes effect *)
(* at one instant or not at all, with the exact amount, never beyond what  *)
(* the wallet holds, and the answer does not claim more than what          *)
(* happened.  Locks, transactions, rounding, versions and crashes are not  *)
(* part of the promise.                                                    *)
(***************************************************************************)
EXTENDS Integers

CONSTANTS Procs, Wallets, Ids, Refs, Requests, Opening

VARIABLES
    balance, hold,   \* the money of each wallet
    posted,          \* the requests that took effect
    req, answer      \* what each client asked and was told

vars == <<balance, hold, posted, req, answer>>

Init ==
    /\ balance = [w \in Wallets |-> Opening[w].balance]
    /\ hold = [w \in Wallets |-> Opening[w].hold]
    /\ posted = {}
    /\ req \in [Procs -> Requests]
    /\ answer = [p \in Procs |-> "none"]

\* The available and the held money once the operation took effect.
BalanceAfter(r) ==
    IF r.op \in {"credit", "release"} THEN balance[r.wallet] + r.amount
                                      ELSE balance[r.wallet] - r.amount

HeldAfter(r) ==
    CASE r.op = "hold" -> hold[r.wallet] + r.amount
      [] r.op = "release" -> hold[r.wallet] - r.amount
      [] OTHER -> hold[r.wallet]

\* The request takes effect, once and for all of its amount.
Post(p) ==
    LET r == req[p] IN
    /\ p \notin posted
    /\ answer[p] = "none"
    /\ r.amount > 0
    /\ r.wallet \in Wallets
    /\ BalanceAfter(r) >= 0
    /\ HeldAfter(r) >= 0
    /\ balance' = [balance EXCEPT ![r.wallet] = BalanceAfter(r)]
    /\ hold' = [hold EXCEPT ![r.wallet] = HeldAfter(r)]
    /\ posted' = posted \cup {p}
    /\ UNCHANGED <<req, answer>>

\* "ok" only for a reference that was posted, "not_found" only for a request
\* that never will be; "error" says nothing.
Reply(p) ==
    /\ answer[p] = "none"
    /\ \E a \in {"ok", "not_found", "error"} :
           /\ a = "ok" => \E q \in posted : req[q].ref = req[p].ref
           /\ a = "not_found" => req[p].wallet \notin Wallets
           /\ answer' = [answer EXCEPT ![p] = a]
    /\ UNCHANGED <<balance, hold, posted, req>>

Next == \E p \in Procs : Post(p) \/ Reply(p)

Spec == Init /\ [][Next]_vars
=============================================================================
