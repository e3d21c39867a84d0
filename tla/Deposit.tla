------------------------------ MODULE Deposit ------------------------------
(***************************************************************************)
(* The order service, services/order: deposit orders are created, matched  *)
(* to a bank notification, completed, or expired by a background worker.   *)
(* The orders are rows in PostgreSQL; two Redis sorted sets index the ones *)
(* that wait for money (by amount) and for their deadline (by time), and a *)
(* third one counts the orders of each bank account.  Nothing spans the    *)
(* two stores: each command is a step, and the errors of most Redis        *)
(* commands are dropped.                                                   *)
(***************************************************************************)
EXTENDS WalletCalls, FiniteSets

CONSTANTS
    Orders,      \* deposit orders: each id is also the request that creates it
    Notices,     \* reports of a payment: a client that matches and completes
    Accounts,    \* the bank accounts of the merchant's pool
    Offsets,     \* what adjustAmountForUniqueness may add to the amount
    Strategies,  \* the values MATCH_STRATEGY may have
    None         \* "no order" and "no account"

ASSUME DepositAssumption ==
    /\ Refs = Orders
    /\ Callers = Notices
    /\ Orders \cap Notices = {}
    /\ Offsets \subseteq Nat \ {0}
    /\ Strategies \subseteq {"unique_amount", "time_based"}
    /\ None \notin Orders \cup Accounts

VARIABLES
    status, amount, account,   \* table deposit_orders; locals of the request
                               \* while status is "absent"
    pending,     \* Redis pending_orders:{account}, for all accounts
    expiry,      \* Redis expiry_orders
    load,        \* Redis account_pool:{merchant}: the score of each account
    strategy,    \* MATCH_STRATEGY
    overdue,     \* the orders whose expires_at has passed
    job,         \* what each notice reports, and how
    target,      \* the order it was matched to
    pc, reply,   \* of the requests
    commissions, webhooks,     \* the notices that had these effects
    wpc, batch, current,       \* the expiry worker
    settled,     \* history: the orders that were set to completed
    late,        \* history: the notices that came after their order was closed
    lost         \* history: the orders whose ZADD expiry_orders failed

orderVars == <<status, amount, account, settled>>

redisVars == <<pending, expiry, load, lost>>

effectVars == <<commissions, webhooks>>

workerVars == <<wpc, batch, current>>

requestVars == <<target, pc, reply, late>>

\* What only the customer, the operator and the clock change.
constVars == <<job, strategy, overdue>>

vars == <<balance, entries, flying, orderVars, redisVars, effectVars, workerVars,
          requestVars, constVars>>

Requests == Orders \cup Notices

Statuses == {"absent", "pending", "completed", "expired"}

CreateSteps == {"pick", "count", "adjust", "create", "index", "schedule"}

NoticeSteps == {"match", "take", "report"}

CompleteSteps == {"load", "settle", "credit", "crediting", "tell", "cleanup"}

WorkerSteps == {"idle", "next", "expire", "cleanup"}

Steps == {"idle", "done", "crashed"} \cup CreateSteps \cup NoticeSteps \cup CompleteSteps

\* A notice is a payment for an order, seen in an SMS and matched by amount, or
\* a report that names the order itself (matched_by "slip" or "email").
Jobs == [by: {"sms", "slip"}, order: Orders]

-----------------------------------------------------------------------------
(* Helpers                                                                 *)

Goto(p, step) == pc' = [pc EXCEPT ![p] = step]

End(p, answer) == Goto(p, "done") /\ reply' = [reply EXCEPT ![p] = answer]

\* The members of pending_orders:{a} with score x.
PendingWith(a, x) == {o \in pending : account[o] = a /\ amount[o] = x}

FreeOffsets(a) == {x \in Offsets : PendingWith(a, x) = {}}

\* The pool member with the lowest score.
LeastLoaded == {a \in Accounts : \A b \in Accounts : load[a] <= load[b]}

Credit(n) == [ref |-> target[n], op |-> "credit", by |-> n]

Init ==
    /\ WalletInit
    /\ status = [o \in Orders |-> "absent"]
    /\ amount = [o \in Orders |-> 0]
    /\ account = [o \in Orders |-> None]
    /\ pending = {} /\ expiry = {}
    /\ load = [a \in Accounts |-> 0]
    /\ strategy \in Strategies
    /\ overdue = {}
    /\ job \in [Notices -> Jobs]
    /\ target = [n \in Notices |-> None]
    /\ pc = [p \in Requests |-> "idle"]
    /\ reply = [p \in Requests |-> "none"]
    /\ commissions = {} /\ webhooks = {}
    /\ wpc = "idle" /\ batch = {} /\ current = None
    /\ settled = {} /\ late = {} /\ lost = {}

-----------------------------------------------------------------------------
(* CreateDepositOrder *)

\* ZRANGEBYSCORE LIMIT 1 on the pool; no account is a 503.
PickAccount(o) ==
    /\ pc[o] = "idle"
    /\ IF Accounts = {}
         THEN End(o, "error") /\ UNCHANGED account
         ELSE /\ \E a \in LeastLoaded : account' = [account EXCEPT ![o] = a]
              /\ Goto(o, "count")
              /\ UNCHANGED reply
    /\ UNCHANGED <<walletVars, redisVars, effectVars, workerVars, constVars,
                   status, amount, settled, target, late>>

\* ZINCRBY +1; its error is dropped.
CountOrder(o) ==
    /\ pc[o] = "count"
    /\ \/ load' = [load EXCEPT ![account[o]] = @ + 1]
       \/ UNCHANGED load
    /\ Goto(o, "adjust")
    /\ UNCHANGED <<walletVars, orderVars, effectVars, workerVars, constVars,
                   pending, expiry, lost, target, reply, late>>

\* A random offset that no order of the account has in the pending set, or none
\* at all when every try met a taken one.  A read that fails looks free.
AdjustAmount(o) ==
    /\ pc[o] = "adjust"
    /\ \/ strategy = "time_based" /\ UNCHANGED amount
       \/ /\ strategy = "unique_amount"
          /\ \/ \E x \in FreeOffsets(account[o]) : amount' = [amount EXCEPT ![o] = x]
             \/ FreeOffsets(account[o]) # Offsets /\ UNCHANGED amount
             \/ \E x \in Offsets : amount' = [amount EXCEPT ![o] = x]
    /\ Goto(o, "create")
    /\ UNCHANGED <<walletVars, redisVars, effectVars, workerVars, constVars,
                   status, account, settled, target, reply, late>>

StoreOrder(o) ==
    /\ pc[o] = "create"
    /\ status' = [status EXCEPT ![o] = "pending"]
    /\ Goto(o, "index")
    /\ UNCHANGED <<walletVars, amount, account, settled, redisVars, effectVars,
                   workerVars, constVars, target, reply, late>>

\* No QR code, or the INSERT fails, or the reply to it is lost.
StoreFails(o) ==
    /\ pc[o] = "create"
    /\ \/ status' = [status EXCEPT ![o] = "pending"]
       \/ UNCHANGED status
    /\ End(o, "error")
    /\ UNCHANGED <<walletVars, amount, account, settled, redisVars, effectVars,
                   workerVars, constVars, target, late>>

\* ZADD to pending_orders; its error is dropped.
IndexOrder(o) ==
    /\ pc[o] = "index"
    /\ \/ pending' = pending \cup {o}
       \/ UNCHANGED pending
    /\ Goto(o, "schedule")
    /\ UNCHANGED <<walletVars, orderVars, effectVars, workerVars, constVars,
                   expiry, load, lost, target, reply, late>>

\* ZADD to expiry_orders; its error is dropped as well.
ScheduleOrder(o) ==
    /\ pc[o] = "schedule"
    /\ \/ expiry' = expiry \cup {o} /\ UNCHANGED lost
       \/ lost' = lost \cup {o} /\ UNCHANGED expiry
    /\ End(o, "ok")
    /\ UNCHANGED <<walletVars, orderVars, effectVars, workerVars, constVars,
                   pending, load, target, late>>

-----------------------------------------------------------------------------
(* A payment is reported: MatchSMSToOrder, then CompleteDeposit.  The client *)
(* that calls them is outside src/.                                          *)

\* A customer who got the order pays.
Pay(n) ==
    /\ pc[n] = "idle"
    /\ reply[job[n].order] = "ok"
    /\ IF job[n].by = "sms"
         THEN Goto(n, "match") /\ UNCHANGED target
         ELSE Goto(n, "report") /\ target' = [target EXCEPT ![n] = job[n].order]
    /\ UNCHANGED <<walletVars, orderVars, redisVars, effectVars, workerVars, constVars,
                   reply, late>>

\* By score in the sorted set, or by amount in the table, where the oldest
\* comes first (created_at is left out: any of them).
Candidates(n) ==
    LET paid == job[n].order IN
    IF strategy = "unique_amount"
      THEN PendingWith(account[paid], amount[paid])
      ELSE {o \in Orders : /\ status[o] = "pending"
                           /\ account[o] = account[paid]
                           /\ amount[o] = amount[paid]}

FindOrder(n) ==
    /\ pc[n] = "match"
    /\ \/ /\ Candidates(n) = {}
          /\ End(n, "not_found")
          /\ UNCHANGED target
       \/ /\ \E o \in Candidates(n) : target' = [target EXCEPT ![n] = o]
          /\ Goto(n, "take")
          /\ UNCHANGED reply
    /\ UNCHANGED <<walletVars, orderVars, redisVars, effectVars, workerVars, constVars,
                   late>>

\* ZREM from pending_orders: neither its error nor its count is looked at.
TakeOrder(n) ==
    /\ pc[n] = "take"
    /\ \/ pending' = pending \ {target[n]}
       \/ UNCHANGED pending
    /\ Goto(n, "report")
    /\ UNCHANGED <<walletVars, orderVars, effectVars, workerVars, constVars,
                   expiry, load, lost, target, reply, late>>

Report(n) ==
    /\ pc[n] = "report"
    /\ late' = IF status[target[n]] = "pending" THEN late ELSE late \cup {n}
    /\ Goto(n, "load")
    /\ UNCHANGED <<walletVars, orderVars, redisVars, effectVars, workerVars, constVars,
                   target, reply>>

\* Mutant of LoadOrder: an order that expired can be completed as well.
LoadOrderNotCompleted(n) ==
    /\ pc[n] = "load"
    /\ IF status[target[n]] \in {"pending", "expired"}
         THEN Goto(n, "settle") /\ UNCHANGED reply
         ELSE End(n, "refused")
    /\ UNCHANGED <<walletVars, orderVars, redisVars, effectVars, workerVars, constVars,
                   target, late>>

\* GetByID, and a 409 unless the order is pending.
LoadOrder(n) ==
    /\ pc[n] = "load"
    /\ IF status[target[n]] = "pending"
         THEN Goto(n, "settle") /\ UNCHANGED reply
         ELSE End(n, "refused")
    /\ UNCHANGED <<walletVars, orderVars, redisVars, effectVars, workerVars, constVars,
                   target, late>>

Complete(o) ==
    /\ status' = [status EXCEPT ![o] = "completed"]
    /\ settled' = settled \cup {o}

\* UPDATE ... WHERE id, whatever the status is by now.
SettleOrder(n) ==
    /\ pc[n] = "settle"
    /\ Complete(target[n])
    /\ Goto(n, "credit")
    /\ UNCHANGED <<walletVars, amount, account, redisVars, effectVars, workerVars,
                   constVars, target, reply, late>>

\* Mutant of SettleFails: the error is logged and the money moved.
SettleFailsLogged(n) ==
    /\ pc[n] = "settle"
    /\ Goto(n, "credit")
    /\ UNCHANGED <<walletVars, orderVars, redisVars, effectVars, workerVars,
                   constVars, target, reply, late>>

\* The UPDATE fails, or the reply to it is lost.
SettleFails(n) ==
    /\ pc[n] = "settle"
    /\ \/ Complete(target[n])
       \/ UNCHANGED <<status, settled>>
    /\ End(n, "error")
    /\ UNCHANGED <<walletVars, amount, account, redisVars, effectVars, workerVars,
                   constVars, target, late>>

\* POST /wallet/credit; its error is only logged.
CreditWallet(n) ==
    /\ pc[n] = "credit"
    /\ \/ Accept(Credit(n)) /\ Goto(n, "crediting")
       \/ Skip(Credit(n)) /\ Goto(n, "tell")
       \/ UNCHANGED walletVars /\ Goto(n, "tell")
    /\ UNCHANGED <<orderVars, redisVars, effectVars, workerVars, constVars,
                   target, reply, late>>

\* The reply, or none within ten seconds: it makes no difference.
CreditReturns(n) ==
    /\ pc[n] = "crediting"
    /\ Goto(n, "tell")
    /\ UNCHANGED <<walletVars, orderVars, redisVars, effectVars, workerVars, constVars,
                   target, reply, late>>

\* POST /internal/commission/calculate, then POST /internal/webhook/send: either
\* may fail, which is only logged.
TellOthers(n) ==
    /\ pc[n] = "tell"
    /\ commissions' \in {commissions, commissions \cup {n}}
    /\ webhooks' \in {webhooks, webhooks \cup {n}}
    /\ Goto(n, "cleanup")
    /\ UNCHANGED <<walletVars, orderVars, redisVars, workerVars, constVars,
                   target, reply, late>>

\* ZREM, ZREM, ZINCRBY -1, of which any may fail unnoticed.  They are one step:
\* they touch different keys, and what another process could see between two of
\* them it also sees when the later ones fail.
CleanUp(o) ==
    /\ pending' \in {pending, pending \ {o}}
    /\ expiry' \in {expiry, expiry \ {o}}
    /\ load' \in {load, [load EXCEPT ![account[o]] = @ - 1]}
    /\ UNCHANGED lost

Finish(n) ==
    /\ pc[n] = "cleanup"
    /\ CleanUp(target[n])
    /\ End(n, "ok")
    /\ UNCHANGED <<walletVars, orderVars, effectVars, workerVars, constVars,
                   target, late>>

-----------------------------------------------------------------------------
(* The expiry worker *)

othersVars == <<walletVars, effectVars, constVars, target, pc, reply, late>>

\* expires_at passes.
Elapse(o) ==
    /\ status[o] # "absent"
    /\ overdue' = overdue \cup {o}
    /\ UNCHANGED <<walletVars, orderVars, redisVars, effectVars, workerVars, strategy,
                   job, target, pc, reply, late>>

\* A tick: ZRANGEBYSCORE expiry_orders -inf now.
Poll ==
    /\ wpc = "idle"
    /\ expiry \cap overdue # {}
    /\ batch' = expiry \cap overdue
    /\ wpc' = "next"
    /\ UNCHANGED <<current, orderVars, redisVars, othersVars>>

\* The next order of the batch: GetByID, and only the index is cleaned when it
\* is not pending any more.  An error skips the order until a later tick.
ReadOrder(o) ==
    /\ wpc = "next"
    /\ o \in batch
    /\ batch' = batch \ {o}
    /\ IF status[o] = "pending"
         THEN wpc' = "expire" /\ current' = o /\ UNCHANGED expiry
         ELSE expiry' \in {expiry, expiry \ {o}} /\ UNCHANGED <<wpc, current>>
    /\ UNCHANGED <<orderVars, pending, load, lost, othersVars>>

ReadOrderFails(o) ==
    /\ wpc = "next"
    /\ o \in batch
    /\ batch' = batch \ {o}
    /\ UNCHANGED <<wpc, current, orderVars, redisVars, othersVars>>

BatchDone ==
    /\ wpc = "next"
    /\ batch = {}
    /\ wpc' = "idle"
    /\ UNCHANGED <<batch, current, orderVars, redisVars, othersVars>>

\* UPDATE ... SET status = 'expired' WHERE id, whatever the status is by now.
Expire(o) ==
    /\ wpc = "expire"
    /\ current = o
    /\ status' = [status EXCEPT ![o] = "expired"]
    /\ wpc' = "cleanup"
    /\ UNCHANGED <<batch, current, amount, account, settled, redisVars, othersVars>>

\* Mutants of ExpireFails: the order is still the current one at the next tick;
\* the order leaves the set although it did not expire.
ExpireFailsKeepsCurrent ==
    /\ wpc = "expire"
    /\ status' \in {status, [status EXCEPT ![current] = "expired"]}
    /\ wpc' = "next"
    /\ UNCHANGED <<batch, current, amount, account, settled, redisVars, othersVars>>

ExpireFailsForgets ==
    /\ wpc = "expire"
    /\ expiry' = expiry \ {current}
    /\ wpc' = "next" /\ current' = None
    /\ UNCHANGED <<batch, orderVars, pending, load, lost, othersVars>>

\* The UPDATE fails, or the reply to it is lost; the order stays in the set.
ExpireFails ==
    /\ wpc = "expire"
    /\ status' \in {status, [status EXCEPT ![current] = "expired"]}
    /\ wpc' = "next" /\ current' = None
    /\ UNCHANGED <<batch, amount, account, settled, redisVars, othersVars>>

WorkerCleanUp ==
    /\ wpc = "cleanup"
    /\ CleanUp(current)
    /\ wpc' = "next" /\ current' = None
    /\ UNCHANGED <<batch, orderVars, othersVars>>

-----------------------------------------------------------------------------
(* Failures *)

\* A read of Redis or PostgreSQL fails and ends the request.
ReadFails(p) ==
    /\ \/ p \in Orders /\ pc[p] = "idle"
       \/ p \in Notices /\ pc[p] \in {"match", "load"}
    /\ End(p, "error")
    /\ UNCHANGED <<walletVars, orderVars, redisVars, effectVars, workerVars, constVars,
                   target, late>>

\* The request is cut short.
Crash(p) ==
    /\ pc[p] \notin {"idle", "done", "crashed"}
    /\ Goto(p, "crashed")
    /\ UNCHANGED <<walletVars, orderVars, redisVars, effectVars, workerVars, constVars,
                   target, reply, late>>

\* The service restarts; the worker starts again with nothing.
WorkerRestarts ==
    /\ wpc # "idle"
    /\ wpc' = "idle" /\ batch' = {} /\ current' = None
    /\ UNCHANGED <<orderVars, redisVars, othersVars>>

Create(o) ==
    \/ PickAccount(o) \/ CountOrder(o) \/ AdjustAmount(o) \/ StoreOrder(o)
    \/ StoreFails(o) \/ IndexOrder(o) \/ ScheduleOrder(o)

Notify(n) ==
    \/ Pay(n) \/ FindOrder(n) \/ TakeOrder(n) \/ Report(n) \/ LoadOrder(n)
    \/ SettleOrder(n) \/ SettleFails(n) \/ CreditWallet(n) \/ CreditReturns(n)
    \/ TellOthers(n) \/ Finish(n)

Worker ==
    \/ Poll \/ BatchDone \/ ExpireFails \/ WorkerCleanUp \/ WorkerRestarts
    \/ \E o \in Orders : ReadOrder(o) \/ ReadOrderFails(o) \/ Expire(o)

Wallet ==
    /\ WalletStep
    /\ UNCHANGED <<orderVars, redisVars, effectVars, workerVars, constVars,
                   target, pc, reply, late>>

Next ==
    \/ \E o \in Orders : Create(o) \/ Elapse(o)
    \/ \E n \in Notices : Notify(n)
    \/ \E p \in Requests : ReadFails(p) \/ Crash(p)
    \/ Worker \/ Wallet

Spec == Init /\ [][Next]_vars

\* Time passes, the ticker ticks, and a database that is asked for the same
\* thing again and again, over any number of restarts, does it at last.
Fairness ==
    /\ \A o \in Orders : WF_vars(Elapse(o)) /\ SF_vars(ReadOrder(o)) /\ SF_vars(Expire(o))
    /\ WF_vars(Poll) /\ WF_vars(BatchDone) /\ WF_vars(WorkerCleanUp)

FairSpec == Spec /\ Fairness

-----------------------------------------------------------------------------
(* Properties                                                              *)

TypeOK ==
    /\ status \in [Orders -> Statuses]
    /\ amount \in [Orders -> Offsets \cup {0}]
    /\ account \in [Orders -> Accounts \cup {None}]
    /\ pending \subseteq Orders /\ expiry \subseteq Orders /\ overdue \subseteq Orders
    /\ load \in [Accounts -> Int]
    /\ strategy \in Strategies
    /\ job \in [Notices -> Jobs]
    /\ target \in [Notices -> Orders \cup {None}]
    /\ pc \in [Requests -> Steps]
    /\ reply \in [Requests -> {"none", "ok", "refused", "not_found", "error"}]
    /\ commissions \subseteq Notices /\ webhooks \subseteq Notices
    /\ wpc \in WorkerSteps
    /\ batch \subseteq Orders
    /\ current \in Orders \cup {None}
    /\ (wpc \in {"idle", "next"}) = (current = None)
    /\ settled \subseteq Orders /\ late \subseteq Notices /\ lost \subseteq Orders
    /\ entries \subseteq Call /\ flying \subseteq Call

\* A report that comes after its order was completed or expired has no effect
\* of any kind: no money, no commission, no webhook, and no success for an
\* answer, however the earlier request ended.
LateReportIsRefused ==
    \A n \in late :
        /\ Credit(n) \notin entries \cup flying
        /\ n \notin commissions \cup webhooks
        /\ reply[n] # "ok"

\* The merchant's money, the commission and the webhook that says "completed"
\* come after the order was set to completed in the database, even when the
\* reply of the database was lost.
EffectsFollowCompletion ==
    \A n \in Notices :
        \/ Credit(n) \in entries \cup flying
        \/ n \in commissions \cup webhooks
        => target[n] \in settled

\* Someone read the order while it was pending and is about to update it.
InHand(o) ==
    \/ wpc = "expire" /\ current = o
    \/ \E n \in Notices : pc[n] = "settle" /\ target[n] = o

Closed(o) == status[o] \in {"completed", "expired"} /\ ~ InHand(o)

\* The UPDATEs ask nothing of the status (deposit.go:333, timeout.go:181), so an
\* expired order can be completed and a completed one expire, but only by those
\* who read it while it was pending.  When the last of them is through, its
\* status is final.
ClosedStays ==
    [][\A o \in Orders : Closed(o) =>
          /\ Closed(o)'
          /\ status'[o] = status[o]
          /\ o \in settled' <=> o \in settled]_vars

\* No report of order o moved money or told anybody that it is completed.
Unpaid(o) ==
    \A n \in Notices : target[n] = o =>
        Credit(n) \notin entries \cup flying /\ n \notin commissions \cup webhooks

\* An order the merchant was told about does not wait for ever: the worker gets
\* it through any number of failures and restarts, unless Redis never had it.
AcknowledgedOrderEnds ==
    \A o \in Orders : reply[o] = "ok" /\ o \notin lost ~> status[o] # "pending"
=============================================================================
