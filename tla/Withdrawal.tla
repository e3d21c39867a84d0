----------------------------- MODULE Withdrawal -----------------------------
(***************************************************************************)
(* The withdrawal service, services/withdrawal/internal/service: a request *)
(* checks the daily limit and the balance, takes the money from the        *)
(* merchant's wallet and inserts a row; admins approve it, reject it, or   *)
(* complete it.  The wallet is remote: a call to it may fail with or       *)
(* without its effect.  Any number of requests run at the same time on the *)
(* same rows, and the service may restart in the middle of all of them.    *)
(*                                                                         *)
(* The rows are in PostgreSQL when DATABASE_URL is set and otherwise in    *)
(* the memory of the service, where no call fails and a restart forgets    *)
(* every row.  PostgreSQL keeps the rows, but GetByID scans rejection_     *)
(* reason, transfer_proof_url and transfer_reference into plain strings,   *)
(* and Create leaves all three NULL: it fails for every row there is.      *)
(*                                                                         *)
(* All requests are of one merchant and of one UTC day.                    *)
(***************************************************************************)
EXTENDS WalletCalls, FiniteSetsExt

CONSTANTS
    Ids,          \* withdrawals: each id is also the process that creates it
    Admins,       \* approve, reject and complete requests, one process each
    DailyLimit,   \* the merchant's limit; 0 is unlimited
    Stores        \* where the rows may be: "memory", "postgres"

ASSUME WithdrawalAssumption ==
    /\ Ids = Refs
    /\ Callers = Ids \cup Admins
    /\ Ids \cap Admins = {}
    /\ DailyLimit \in Nat
    /\ Stores \subseteq {"memory", "postgres"}

AdminOps == {"approve", "reject", "complete"}

VARIABLES
    store,         \* where the rows are
    status,        \* the withdrawals: the status of each row, or "absent"
    job,           \* the operation and the id of each admin request
    pc,            \* the next call of each process
    reply,         \* what its client was told
    commissions,   \* the complete requests whose commission was recorded
    approved       \* history: the ids that were set to approved at some time

vars == <<balance, entries, flying, store, status, job, pc, reply, commissions,
          approved>>

repoVars == <<store, status, approved>>

Statuses == {"absent", "pending", "approved", "rejected", "completed"}

CreateSteps == {"limit", "funds", "hold", "holding", "insert", "undo", "undoing"}

AdminSteps == {"read", "release", "releasing", "debit", "debiting", "commission", "update"}

Steps == CreateSteps \cup AdminSteps \cup {"idle", "done", "crashed"}

Replies == {"none", "ok", "refused", "error"}

-----------------------------------------------------------------------------
(* Helpers                                                                 *)

Goto(p, step) == pc' = [pc EXCEPT ![p] = step]

End(p, answer) == Goto(p, "done") /\ reply' = [reply EXCEPT ![p] = answer]

\* SUM(amount) over the rows of the day that still count.
DailySum ==
    MapThenSumSet(LAMBDA i : Amount[i],
                  {i \in Ids : status[i] \in {"pending", "approved", "completed"}})

\* HoldBalance posts a debit, ReleaseHold a credit and DebitHold a debit, all
\* three with the id of the withdrawal as reference_id.
HoldBalance(i) == [ref |-> i, op |-> "debit", by |-> i]

ReleaseHold(p, i) == [ref |-> i, op |-> "credit", by |-> p]

DebitHold(a) == [ref |-> job[a].id, op |-> "debit", by |-> a]

\* The amount of withdrawal i left the available balance.
Held(i) == \E e \in entries : e.ref = i /\ e.op = "debit"

\* p calls the wallet at step "from" and waits for the reply at step "wait",
\* unless the service answers at once; success leads to "next".
CallWallet(p, c, from, wait, next) ==
    \/ /\ pc[p] = from
       /\ \/ Skip(c) /\ Goto(p, next)
          \/ Accept(c) /\ Goto(p, wait)
       /\ UNCHANGED <<repoVars, job, reply, commissions>>
    \/ /\ pc[p] = wait
       /\ Took(c)
       /\ Goto(p, next)
       /\ UNCHANGED <<walletVars, repoVars, job, reply, commissions>>

-----------------------------------------------------------------------------
Init ==
    /\ WalletInit
    /\ store \in Stores
    /\ status = [i \in Ids |-> "absent"]
    /\ job \in [Admins -> [op: AdminOps, id: Ids]]
    /\ pc = [p \in Callers |-> "idle"]
    /\ reply = [p \in Callers |-> "none"]
    /\ commissions = {}
    /\ approved = {}

\* The handler has decoded the request; the amount is positive.
Submit(p) ==
    /\ pc[p] = "idle"
    /\ Goto(p, IF p \in Ids THEN "limit" ELSE "read")
    /\ UNCHANGED <<walletVars, repoVars, job, reply, commissions>>

(* CreateWithdrawal *)

CheckDailyLimit(i) ==
    /\ pc[i] = "limit"
    /\ IF DailyLimit > 0 /\ DailySum + Amount[i] > DailyLimit
         THEN End(i, "refused")
         ELSE Goto(i, "funds") /\ UNCHANGED reply
    /\ UNCHANGED <<walletVars, repoVars, job, commissions>>

CheckBalance(i) ==
    /\ pc[i] = "funds"
    /\ IF balance < Amount[i]
         THEN End(i, "refused")
         ELSE Goto(i, "hold") /\ UNCHANGED reply
    /\ UNCHANGED <<walletVars, repoVars, job, commissions>>

\* Mutant of Hold: the row is inserted without waiting for the wallet.
HoldUnawaited(i) ==
    /\ pc[i] = "hold"
    /\ Accept(HoldBalance(i))
    /\ Goto(i, "insert")
    /\ UNCHANGED <<repoVars, job, reply, commissions>>

Hold(i) == CallWallet(i, HoldBalance(i), "hold", "holding", "insert")

Insert(i) ==
    /\ pc[i] = "insert"
    /\ status' = [status EXCEPT ![i] = "pending"]
    /\ End(i, "ok")
    /\ UNCHANGED <<walletVars, store, approved, job, commissions>>

\* Mutant of InsertFails: the error of repo.Create is dropped.
InsertFailsUnnoticed(i) ==
    /\ pc[i] = "insert"
    /\ store = "postgres"
    /\ End(i, "ok")
    /\ UNCHANGED <<walletVars, repoVars, job, commissions>>

\* The INSERT fails, or the reply to it is lost.
InsertFails(i) ==
    /\ pc[i] = "insert"
    /\ store = "postgres"
    /\ \/ status' = [status EXCEPT ![i] = "pending"]
       \/ UNCHANGED status
    /\ Goto(i, "undo")
    /\ UNCHANGED <<walletVars, store, approved, job, reply, commissions>>

\* The compensation.  Whatever comes of it, the client is told of an error.
Undo(i) ==
    /\ pc[i] = "undo"
    /\ \/ Skip(ReleaseHold(i, i)) /\ End(i, "error")
       \/ Accept(ReleaseHold(i, i)) /\ Goto(i, "undoing") /\ UNCHANGED reply
    /\ UNCHANGED <<repoVars, job, commissions>>

(* ApproveWithdrawal, RejectWithdrawal, CompleteWithdrawal *)

\* Mutant of Expected: a pending withdrawal can be completed as well.
ExpectedNotFinal(op) == IF op = "complete" THEN {"pending", "approved"} ELSE {"pending"}

\* The statuses in which each operation goes on.
Expected(op) == IF op = "complete" THEN {"approved"} ELSE {"pending"}

\* What each operation does next.
AfterCheck(op) ==
    CASE op = "approve" -> "update"
      [] op = "reject" -> "release"
      [] op = "complete" -> "debit"

\* GetByID finds the row and can read it.
Readable(i) == status[i] # "absent" /\ store = "memory"

\* GetByID and the check on the status it returned: ErrNotFound or a 409.
ReadStatus(a) ==
    /\ pc[a] = "read"
    /\ status[job[a].id] = "absent" \/ Readable(job[a].id)
    /\ IF status[job[a].id] \in Expected(job[a].op)
         THEN Goto(a, AfterCheck(job[a].op)) /\ UNCHANGED reply
         ELSE End(a, "refused")
    /\ UNCHANGED <<walletVars, repoVars, job, commissions>>

Release(a) == CallWallet(a, ReleaseHold(a, job[a].id), "release", "releasing", "update")

Debit(a) == CallWallet(a, DebitHold(a), "debit", "debiting", "commission")

\* The commission service records the split or not; an error is only logged.
RecordCommission(a) ==
    /\ pc[a] = "commission"
    /\ \/ commissions' = commissions \cup {a}
       \/ UNCHANGED commissions
    /\ Goto(a, "update")
    /\ UNCHANGED <<walletVars, repoVars, job, reply>>

\* Mutant of Outcome: a rejected withdrawal is filed as failed.
OutcomeFailed(op) ==
    CASE op = "approve" -> "approved"
      [] op = "reject" -> "failed"
      [] op = "complete" -> "completed"

Outcome(op) ==
    CASE op = "approve" -> "approved"
      [] op = "reject" -> "rejected"
      [] op = "complete" -> "completed"

\* UpdateStatus asks nothing of the status the row has by now.
UpdateStatus(a) ==
    /\ pc[a] = "update"
    /\ status' = [status EXCEPT ![job[a].id] = Outcome(job[a].op)]
    /\ approved' = IF job[a].op = "approve" THEN approved \cup {job[a].id} ELSE approved
    /\ End(a, "ok")
    /\ UNCHANGED <<walletVars, store, job, commissions>>

(* Failures *)

\* A call to the wallet fails: no connection, an error status, no reply within
\* ten seconds.  The request may still be underway.
WalletFails(p) ==
    /\ pc[p] \in {"funds", "hold", "holding", "undo", "undoing",
                  "release", "releasing", "debit", "debiting"}
    /\ End(p, "error")
    /\ UNCHANGED <<walletVars, repoVars, job, commissions>>

\* A query fails: SumDailyWithdrawals, or GetByID, which always does for a row
\* that is there.
QueryFails(p) ==
    /\ pc[p] \in {"limit", "read"}
    /\ store = "postgres"
    /\ End(p, "error")
    /\ UNCHANGED <<walletVars, repoVars, job, commissions>>

\* The service dies and starts again: no request survives, the rows in memory
\* do not either.
Restart ==
    /\ status' = IF store = "memory" THEN [i \in Ids |-> "absent"] ELSE status
    /\ pc' = [p \in Callers |-> IF pc[p] \in {"idle", "done"} THEN pc[p] ELSE "crashed"]
    /\ UNCHANGED <<walletVars, store, approved, job, reply, commissions>>

Create(i) ==
    \/ Submit(i) \/ CheckDailyLimit(i) \/ CheckBalance(i) \/ Hold(i)
    \/ Insert(i) \/ InsertFails(i) \/ Undo(i)

Administer(a) ==
    \/ Submit(a) \/ ReadStatus(a) \/ Release(a) \/ Debit(a) \/ RecordCommission(a)
    \/ UpdateStatus(a)

Wallet == WalletStep /\ UNCHANGED <<repoVars, job, pc, reply, commissions>>

Next ==
    \/ \E i \in Ids : Create(i)
    \/ \E a \in Admins : Administer(a)
    \/ \E p \in Callers : WalletFails(p) \/ QueryFails(p)
    \/ Restart
    \/ Wallet

Spec == Init /\ [][Next]_vars

-----------------------------------------------------------------------------
(* Properties                                                              *)

TypeOK ==
    /\ balance \in Int
    /\ entries \subseteq Call
    /\ flying \subseteq Call
    /\ store \in Stores
    /\ status \in [Ids -> Statuses]
    /\ job \in [Admins -> [op: AdminOps, id: Ids]]
    /\ pc \in [Callers -> Steps]
    /\ reply \in [Callers -> Replies]
    /\ commissions \subseteq Admins
    /\ approved \subseteq Ids

\* A withdrawal moves money once: whatever is approved, completed, repeated,
\* timed out or raced, the wallet's ledger has at most one entry for its id.
MovesMoneyOnce == \A e, f \in entries : e.ref = f.ref => e = f

\* A withdrawal that is on record is covered: its amount has left the
\* available balance before the row exists, and nobody else can spend it.
RecordedIsHeld == \A i \in Ids : status[i] # "absent" => Held(i)

\* Nothing is paid out and no commission is earned without an approval, in
\* whatever order the admins' requests overtake each other.
PaidWasApproved ==
    /\ \A i \in Ids : status[i] = "completed" => i \in approved
    /\ \A a \in commissions : job[a].id \in approved /\ Held(job[a].id)

\* The merchant is told the truth: "created" means that the money is held and
\* the row exists, for as long as the store remembers; a refusal means that
\* nothing was or will be taken.
TruthfulCreate ==
    \A i \in Ids :
        /\ reply[i] = "ok" => Held(i) /\ (status[i] = "absent" => store = "memory")
        /\ reply[i] = "refused" => ~ Posted(i) /\ HoldBalance(i) \notin flying

\* "Admin rejected, held balance released back" (docs/api/merchant-api.md:1045):
\* an admin who is told that the withdrawal is rejected can rely on the ledger
\* of the wallet showing the money coming back.
RejectedIsRefunded ==
    \A a \in Admins :
        reply[a] = "ok" /\ job[a].op = "reject" =>
            \E e \in entries : e.ref = job[a].id /\ e.op = "credit"

\* No admin request about i is past its check of the status.
Quiet(i) == \A a \in Admins : pc[a] \in AdminSteps \ {"read"} => job[a].id # i

Final(i) == status[i] \in {"rejected", "completed"} /\ Quiet(i)

\* UpdateStatus asks nothing of the status (withdrawal.go:343), so a final one
\* can be overwritten, but only by an admin who had read an earlier one.  When
\* those are through it stands, until a restart makes the memory forget the row.
FinalStands ==
    [][\A i \in Ids : Final(i) =>
          \/ status'[i] = status[i] /\ Final(i)'
          \/ status'[i] = "absent" /\ store = "memory"]_vars

\* What happens instead, always: no step of this service gives money back to the
\* available balance, neither the compensation of a failed insert nor a rejection
\* (withdrawal.go:218 and 327), since both carry the reference of the hold.
NothingComesBack == [][balance' <= balance /\ \A e \in entries' : e.op = "debit"]_vars
=============================================================================
