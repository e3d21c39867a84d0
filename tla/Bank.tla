--------------------------------- MODULE Bank ---------------------------------
(***************************************************************************)
(* The bank service, services/bank: the accounts that receive deposits.    *)
(* A report of a deposit adds to the daily counter of its account; at its  *)
(* daily limit the account is disabled and the pool of every merchant that *)
(* uses it, a sorted set in Redis, is rebuilt.  A rebuild reads PostgreSQL *)
(* and writes Redis in calls of its own, so rebuilds of the same pool can  *)
(* overtake each other.  Nothing in the code enables an account again, and *)
(* nothing reads the copy of the counter that Redis keeps: it is left out. *)
(***************************************************************************)
EXTENDS Naturals, FiniteSetsExt

CONSTANTS
    BankAccounts, \* the rows of bank_accounts
    Merchants,
    Mapped,       \* merchant_bank_accounts: the accounts of each merchant
    Limit,        \* daily_limit_thb of each account
    Priority,     \* and its priority
    Reports,      \* the calls of POST /internal/bank/daily-received
    Amount,       \* what each of them reports
    Switches,     \* the calls of POST /internal/bank/auto-switch
    Rebuilds,     \* the calls of POST /internal/bank/update-pool
    Transfers,    \* the transfers to holding accounts
    References,   \* the bank's references of completed transfers
    Nothing       \* no account, no merchant, no reference

ASSUME BankAssumption ==
    /\ Mapped \in [Merchants -> SUBSET BankAccounts]
    /\ Limit \in [BankAccounts -> Nat \ {0}]
    /\ Priority \in [BankAccounts -> Nat]
    /\ Amount \in [Reports -> Nat \ {0}]
    /\ Nothing \notin BankAccounts \cup Merchants \cup References

VARIABLES
    status,     \* bank_accounts.status
    received,   \* bank_accounts.daily_received_thb
    pool,       \* Redis bank:pool: its members
    bpc, account,           \* of each request: its next call and its account
    todo, merchant, found,  \* the pools it has yet to rebuild, the one at work, what it read
    transfer,   \* the table transfers: status
    reference,  \* and reference
    tallied,                \* history: the reports in the counters since the last reset,
    behind                  \*   the pools a failed or an overtaken rebuild has left behind

tableVars == <<status, received, tallied>>

poolVars == <<pool, todo, merchant, found, behind>>

transferVars == <<transfer, reference>>

bankVars == <<tableVars, poolVars, bpc, account, transferVars>>

Callers == Reports \cup Switches \cup Rebuilds

-----------------------------------------------------------------------------
BankInit ==
    /\ status = [a \in BankAccounts |-> "active"]
    /\ received = [a \in BankAccounts |-> 0]
    /\ pool = Mapped
    /\ bpc = [p \in Callers |-> "idle"]
    /\ account = [p \in Callers |-> Nothing]
    /\ todo = [p \in Callers |-> {}]
    /\ merchant = [p \in Callers |-> Nothing]
    /\ found = [p \in Callers |-> {}]
    /\ transfer = [t \in Transfers |-> "none"]
    /\ reference = [t \in Transfers |-> Nothing]
    /\ tallied = {} /\ behind = {}

MoveTo(p, step) == bpc' = [bpc EXCEPT ![p] = step]

-----------------------------------------------------------------------------
(* UpdateDailyReceived                                                     *)

\* The UPDATE adds to the counter; the answer can be lost.
IncrementDailyReceived(r, a) ==
    /\ bpc[r] = "idle"
    /\ account' = [account EXCEPT ![r] = a]
    /\ \/ /\ received' = [received EXCEPT ![a] = @ + Amount[r]]
          /\ tallied' = tallied \cup {r}
          /\ MoveTo(r, "check") \/ MoveTo(r, "failed")
       \/ MoveTo(r, "failed") /\ UNCHANGED <<received, tallied>>
    /\ UNCHANGED <<status, poolVars>>

\* Mutant of AtLimit: an account may receive exactly its limit.
OverLimit(a) == received[a] > Limit[a]

AtLimit(a) == received[a] >= Limit[a]

\* The row is read again: at its limit the account is switched.
CheckLimit(r) ==
    /\ bpc[r] = "check"
    /\ MoveTo(r, IF AtLimit(account[r]) THEN "disable" ELSE "ok") \/ MoveTo(r, "failed")
    /\ UNCHANGED <<tableVars, account, poolVars>>

\* ResetAllDailyCounters zeroes every counter and enables no account.
ResetDailyCounters ==
    /\ received' = [a \in BankAccounts |-> 0]
    /\ tallied' = {}
    /\ UNCHANGED <<status, bpc, account, poolVars>>

-----------------------------------------------------------------------------
(* AutoSwitch and UpdateAccountPool                                        *)

AutoSwitch(s, a) ==
    /\ bpc[s] = "idle"
    /\ account' = [account EXCEPT ![s] = a]
    /\ MoveTo(s, "disable")
    /\ UNCHANGED <<tableVars, poolVars>>

UpdateAccountPool(u, m) ==
    /\ bpc[u] = "idle"
    /\ todo' = [todo EXCEPT ![u] = {m}]
    /\ MoveTo(u, "read")
    /\ UNCHANGED <<tableVars, account, pool, merchant, found, behind>>

MerchantsOf(a) == {m \in Merchants : a \in Mapped[m]}

\* The request ends with an error after its account was disabled.
GivesUp(p) == MoveTo(p, "failed") /\ behind' = behind \cup MerchantsOf(account[p])

\* UpdateAccountStatus
Disable(p) ==
    /\ bpc[p] = "disable"
    /\ \/ /\ status' = [status EXCEPT ![account[p]] = "disabled"]
          /\ \/ MoveTo(p, "affected") /\ UNCHANGED behind
             \/ GivesUp(p)
       \/ MoveTo(p, "failed") /\ UNCHANGED <<status, behind>>
    /\ UNCHANGED <<received, tallied, account, pool, todo, merchant, found>>

\* GetMerchantsByAccount
FindAffected(p) ==
    /\ bpc[p] = "affected"
    /\ \/ /\ todo' = [todo EXCEPT ![p] = MerchantsOf(account[p])]
          /\ MoveTo(p, IF MerchantsOf(account[p]) = {} THEN "ok" ELSE "read")
          /\ UNCHANGED behind
       \/ GivesUp(p) /\ UNCHANGED todo
    /\ UNCHANGED <<tableVars, account, pool, merchant, found>>

\* Another rebuild of the pool of m is between its read and its write.
Overlaps(p, m) == \E q \in Callers \ {p} : merchant[q] = m

\* Mutant of ActiveOf: the query lists every mapped account.
AllOf(m) == Mapped[m]

\* GetActiveAccountsByMerchant
ActiveOf(m) == {a \in Mapped[m] : status[a] = "active"}

ReadActive(p, m) ==
    /\ bpc[p] = "read"
    /\ m \in todo[p]
    /\ found' = [found EXCEPT ![p] = ActiveOf(m)]
    /\ merchant' = [merchant EXCEPT ![p] = m]
    /\ behind' = IF Overlaps(p, m) THEN behind \cup {m} ELSE behind \ {m}
    /\ MoveTo(p, "delete")
    /\ UNCHANGED <<tableVars, account, pool, todo>>

\* The rebuild of the pool of m has ended: an error ends a call of update-pool; a
\* switch logs it and goes on with the next pool.
Rebuilt(p, m, failed) ==
    /\ todo' = [todo EXCEPT ![p] = @ \ {m}]
    /\ merchant' = [merchant EXCEPT ![p] = Nothing]
    /\ found' = [found EXCEPT ![p] = {}]
    /\ behind' = IF failed THEN behind \cup {m} ELSE behind
    /\ IF todo[p] # {m} THEN MoveTo(p, "read")
       ELSE MoveTo(p, IF failed /\ p \in Rebuilds THEN "failed" ELSE "ok")

ReadFails(p, m) ==
    /\ bpc[p] = "read"
    /\ m \in todo[p]
    /\ Rebuilt(p, m, TRUE)
    /\ UNCHANGED <<tableVars, account, pool>>

\* The pipeline, a DEL and one ZADD for each account, is no transaction: others'
\* commands come between, and it can break off.
DeletePool(p) ==
    LET m == merchant[p] IN
    /\ bpc[p] = "delete"
    /\ \/ /\ pool' = [pool EXCEPT ![m] = {}]
          /\ MoveTo(p, "add")
          /\ UNCHANGED <<todo, merchant, found, behind>>
       \/ Rebuilt(p, m, TRUE) /\ pool' \in {pool, [pool EXCEPT ![m] = {}]}
    /\ UNCHANGED <<tableVars, account>>

AddToPool(p) ==
    LET m == merchant[p] IN
    /\ bpc[p] = "add"
    /\ \/ pool' = [pool EXCEPT ![m] = @ \cup found[p]] /\ Rebuilt(p, m, FALSE)
       \/ /\ \E part \in SUBSET found[p] : pool' = [pool EXCEPT ![m] = @ \cup part]
          /\ Rebuilt(p, m, TRUE)
    /\ UNCHANGED <<tableVars, account>>

\* The service dies in the middle of a request.
Dies(p) ==
    /\ bpc[p] \notin {"idle", "ok", "failed"}
    /\ MoveTo(p, "failed")
    /\ behind' = behind \cup todo[p]
                    \cup (IF bpc[p] = "affected" THEN MerchantsOf(account[p]) ELSE {})
    /\ todo' = [todo EXCEPT ![p] = {}]
    /\ merchant' = [merchant EXCEPT ![p] = Nothing]
    /\ found' = [found EXCEPT ![p] = {}]
    /\ UNCHANGED <<tableVars, account, pool>>

-----------------------------------------------------------------------------
(* SelectAccount                                                           *)

HasRoom(a) == status[a] = "active" /\ received[a] < Limit[a]

\* The first account with room, in the order of the priorities; Redis is not asked.
SelectAccount(m) ==
    {a \in Mapped[m] : HasRoom(a) /\ \A b \in Mapped[m] : HasRoom(b) => Priority[b] <= Priority[a]}

-----------------------------------------------------------------------------
(* Transfers                                                               *)

\* CreateTransfer, once the accounts are found to exist.
CreateTransfer(t) ==
    /\ transfer[t] = "none"
    /\ transfer' = [transfer EXCEPT ![t] = "pending"]
    /\ UNCHANGED reference

\* CompleteTransfer, of whatever status the transfer has.
CompleteTransfer(t, ref) ==
    /\ transfer[t] # "none"
    /\ transfer' = [transfer EXCEPT ![t] = "completed"]
    /\ reference' = [reference EXCEPT ![t] = ref]

-----------------------------------------------------------------------------
Switch(p) ==
    \/ Disable(p) \/ FindAffected(p) \/ DeletePool(p) \/ AddToPool(p) \/ Dies(p)
    \/ \E m \in Merchants : ReadActive(p, m) \/ ReadFails(p, m)

Report(r) ==
    \/ CheckLimit(r)
    \/ \E a \in BankAccounts : IncrementDailyReceived(r, a)

BankNext ==
    \/ /\ \/ ResetDailyCounters
          \/ \E p \in Callers : Switch(p)
          \/ \E r \in Reports : Report(r)
          \/ \E s \in Switches, a \in BankAccounts : AutoSwitch(s, a)
          \/ \E u \in Rebuilds, m \in Merchants : UpdateAccountPool(u, m)
       /\ UNCHANGED transferVars
    \/ /\ \E t \in Transfers :
              CreateTransfer(t) \/ (\E ref \in References : CompleteTransfer(t, ref))
       /\ UNCHANGED <<tableVars, poolVars, bpc, account>>

BankSpec == BankInit /\ [][BankNext]_bankVars

-----------------------------------------------------------------------------
(* Properties                                                              *)

BankTypeOK ==
    /\ status \in [BankAccounts -> {"active", "disabled"}]
    /\ received \in [BankAccounts -> Nat]
    /\ pool \in [Merchants -> SUBSET BankAccounts]
    /\ \A m \in Merchants : pool[m] \subseteq Mapped[m]
    /\ bpc \in [Callers -> {"idle", "check", "disable", "affected", "read", "delete",
                            "add", "ok", "failed"}]
    /\ account \in [Callers -> BankAccounts \cup {Nothing}]
    /\ todo \in [Callers -> SUBSET Merchants]
    /\ merchant \in [Callers -> Merchants \cup {Nothing}]
    /\ \A p \in Callers : IF bpc[p] \in {"delete", "add"} THEN merchant[p] \in todo[p]
                                                         ELSE merchant[p] = Nothing
    /\ found \in [Callers -> SUBSET BankAccounts]
    /\ transfer \in [Transfers -> {"none", "pending", "completed"}]
    /\ reference \in [Transfers -> References \cup {Nothing}]
    /\ tallied \subseteq Reports /\ behind \subseteq Merchants

\* The counter is read again after the increment, so of two reports that reach the
\* limit together one sees it: an account at its limit is never handed out, and
\* it is disabled unless a report about it is under way or got an error
\* (monitor.go:150-206, pool.go:96-114).
FullAccountIsClosed ==
    \A a \in BankAccounts : received[a] >= Limit[a] =>
        /\ \A m \in Merchants : a \notin SelectAccount(m)
        /\ status[a] = "active" =>
               \E r \in tallied : account[r] = a /\ bpc[r] # "ok"

\* "The disabled account will be excluded" (pool.go:239-242): a disabled account
\* is in a pool only as long as its removal is under way, or if a rebuild of that
\* pool failed or two of them overlapped.
DisabledLeavesPools ==
    \A m \in Merchants : \A a \in pool[m] :
        \/ status[a] = "active"
        \/ m \in behind
        \/ \E p \in Callers : m \in todo[p]
        \/ \E p \in Callers : bpc[p] = "affected" /\ account[p] = a
=============================================================================
