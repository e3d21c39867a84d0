------------------------------- MODULE Wallet -------------------------------
(***************************************************************************)
(* The wallet service: Credit, Debit, Hold and Release of                  *)
(* services/wallet/internal/service/wallet.go over the PostgreSQL          *)
(* repository and the Redis lock of pkg/database/redis.go.                 *)
(*                                                                         *)
(* A process is one goroutine that serves one request.  A client that      *)
(* repeats a request is another process with an equal request.  Between    *)
(* any two calls to Redis or PostgreSQL the processes interleave, a call   *)
(* may fail, the lock's TTL may run out and the server may crash.          *)
(*                                                                         *)
(* Money is counted in tenths of a satang: requests carry decimals of any  *)
(* precision, the NUMERIC(14,2) columns keep whole satang (multiples of    *)
(* ten), and Stored is the rounding on the way in.                         *)
(***************************************************************************)
EXTENDS Integers, Sequences

CONSTANTS
    Procs,       \* the requests in flight, one goroutine each
    NoProc,      \* "nobody", for a lock that is free
    Wallets,     \* the ids that have a row in the wallets table
    Ids,         \* the ids a request may name
    Refs,        \* reference_id values
    Requests,    \* the requests clients make
    Opening,     \* the row of each wallet when the model starts
    MaxStored    \* the largest value a NUMERIC(14,2) column holds

Ops == {"credit", "debit", "hold", "release"}

Request == [op: Ops, wallet: Ids, amount: Int, ref: Refs]

ASSUME WalletAssumption ==
    /\ NoProc \notin Procs
    /\ Wallets \subseteq Ids
    /\ Requests \subseteq Request
    /\ MaxStored \in Nat
    /\ Opening \in [Wallets -> [balance: Nat, hold: Nat]]
    /\ \A w \in Wallets : Opening[w].balance % 10 = 0 /\ Opening[w].hold % 10 = 0

VARIABLES
    row,       \* table wallets: balance (available), hold_balance, version
    ledger,    \* table wallet_ledger, one sequence for each wallet
    rowLock,   \* PostgreSQL: the transaction that holds the row of a wallet
    lock,      \* Redis: the value of key wallet_lock:{id}
    req,       \* the request each process serves
    pc,        \* the next call of each process
    snap,      \* the row as SELECT ... FOR UPDATE returned it
    reply,     \* the answer of each process, chosen when its outcome is known
    late       \* history: the reference was in the ledger when p arrived

vars == <<row, ledger, rowLock, lock, req, pc, snap, reply, late>>

Row == [balance: Int, hold: Int, version: Nat]

\* amount and after are the columns amount and balance_after.  by is a history
\* field: the request that wrote the entry.
Entry == [ref: Refs, op: Ops, amount: Int, after: Int, by: Procs]

Steps == {"idle", "check", "lock", "begin", "select", "update", "insert",
          "commit", "rollback", "unlock", "done", "crashed", "in_doubt"}

Replies == {"none", "ok", "not_found", "error"}

-----------------------------------------------------------------------------
(* What each operation does to a row, and when it may                      *)

\* PostgreSQL rounds a decimal to the column's scale, half away from zero.
Stored(x) == IF x >= 0 THEN 10 * ((x + 5) \div 10)
                       ELSE -(10 * ((5 - x) \div 10))

FitsColumn(x) == Stored(x) \in -MaxStored .. MaxStored

CreditEffect(s, a) == [balance |-> s.balance + a, hold |-> s.hold, amount |-> a]

DebitEffect(s, a) == [balance |-> s.balance - a, hold |-> s.hold, amount |-> -a]

\* Mutants of HoldEffect and ReleaseEffect: one side of the movement is missing.
HoldKeepsBalance(s, a) == [balance |-> s.balance, hold |-> s.hold + a, amount |-> -a]

HoldEffect(s, a) == [balance |-> s.balance - a, hold |-> s.hold + a, amount |-> -a]

ReleaseKeepsHold(s, a) == [balance |-> s.balance + a, hold |-> s.hold, amount |-> a]

ReleaseEffect(s, a) == [balance |-> s.balance + a, hold |-> s.hold - a, amount |-> a]

Effect(op, s, a) ==
    CASE op = "credit"  -> CreditEffect(s, a)
      [] op = "debit"   -> DebitEffect(s, a)
      [] op = "hold"    -> HoldEffect(s, a)
      [] op = "release" -> ReleaseEffect(s, a)

\* Mutant of Covered: the held money counts as available.
CoveredByTotal(op, s, a) == op \in {"debit", "hold"} => s.balance + s.hold >= a

\* Debit and Hold need the available balance, Release the held one.
Covered(op, s, a) ==
    /\ op \in {"debit", "hold"} => s.balance >= a
    /\ op = "release" => s.hold >= a

Outcome(p) == Effect(req[p].op, snap[p], req[p].amount)

\* The UPDATE of p's transaction, visible to others once it commits.
NewRow(p) ==
    [balance |-> Stored(Outcome(p).balance),
     hold    |-> Stored(Outcome(p).hold),
     version |-> row[req[p].wallet].version + 1]

\* Mutant of NewEntry: balance_after taken before the movement.
EntryOfOldBalance(p) ==
    [ref |-> req[p].ref, op |-> req[p].op, amount |-> Stored(Outcome(p).amount),
     after |-> snap[p].balance, by |-> p]

\* The INSERT of p's transaction.
NewEntry(p) ==
    [ref |-> req[p].ref, op |-> req[p].op,
     amount |-> Stored(Outcome(p).amount),
     after  |-> Stored(Outcome(p).balance),
     by     |-> p]

EntriesOf(w) == {ledger[w][i] : i \in 1 .. Len(ledger[w])}

\* SELECT EXISTS(... WHERE reference_id = $1): any wallet, any operation.
LedgerEntryExists(ref) == \E w \in Wallets : \E e \in EntriesOf(w) : e.ref = ref

-----------------------------------------------------------------------------
Init ==
    /\ row = [w \in Wallets |-> [balance |-> Opening[w].balance,
                                 hold |-> Opening[w].hold, version |-> 0]]
    /\ ledger = [w \in Wallets |-> <<>>]
    /\ rowLock = [w \in Wallets |-> NoProc]
    /\ lock = [w \in Ids |-> NoProc]
    /\ req \in [Procs -> Requests]
    /\ pc = [p \in Procs |-> "idle"]
    /\ snap = [p \in Procs |-> [balance |-> 0, hold |-> 0, version |-> 0]]
    /\ reply = [p \in Procs |-> "none"]
    /\ late = [p \in Procs |-> FALSE]

Goto(p, step) == pc' = [pc EXCEPT ![p] = step]

Answer(p, r) == reply' = [reply EXCEPT ![p] = r]

Free(f, p) == [w \in DOMAIN f |-> IF f[w] = p THEN NoProc ELSE f[w]]

\* The request arrives; an amount that is not positive is refused at once.
Submit(p) ==
    /\ pc[p] = "idle"
    /\ late' = [late EXCEPT ![p] = LedgerEntryExists(req[p].ref)]
    /\ IF req[p].amount > 0
         THEN Goto(p, "check") /\ UNCHANGED reply
         ELSE Goto(p, "done") /\ Answer(p, "error")
    /\ UNCHANGED <<row, ledger, rowLock, lock, req, snap>>

\* Mutant of CheckRef: no idempotency check.
CheckRefDropped(p) ==
    /\ pc[p] = "check"
    /\ Goto(p, "lock")
    /\ UNCHANGED <<row, ledger, rowLock, lock, req, snap, reply, late>>

\* The idempotency check: its own query, before the lock and the transaction.
CheckRef(p) ==
    /\ pc[p] = "check"
    /\ IF LedgerEntryExists(req[p].ref)
         THEN Goto(p, "done") /\ Answer(p, "ok")
         ELSE Goto(p, "lock") /\ UNCHANGED reply
    /\ UNCHANGED <<row, ledger, rowLock, lock, req, snap, late>>

\* SET NX with a value of p's own; a busy lock ends the request.
AcquireLock(p) ==
    /\ pc[p] = "lock"
    /\ IF lock[req[p].wallet] = NoProc
         THEN /\ lock' = [lock EXCEPT ![req[p].wallet] = p]
              /\ Goto(p, "begin")
              /\ UNCHANGED reply
         ELSE /\ Goto(p, "done")
              /\ Answer(p, "error")
              /\ UNCHANGED lock
    /\ UNCHANGED <<row, ledger, rowLock, req, snap, late>>

\* The call to Redis fails.  The key may have been set: nobody will delete it,
\* because the deferred release is registered only after a success.
AcquireLockFails(p) ==
    /\ pc[p] = "lock"
    /\ \/ UNCHANGED lock
       \/ /\ lock[req[p].wallet] = NoProc
          /\ lock' = [lock EXCEPT ![req[p].wallet] = p]
    /\ Goto(p, "done")
    /\ Answer(p, "error")
    /\ UNCHANGED <<row, ledger, rowLock, req, snap, late>>

BeginTx(p) ==
    /\ pc[p] = "begin"
    /\ Goto(p, "select")
    /\ UNCHANGED <<row, ledger, rowLock, lock, req, snap, reply, late>>

\* Mutant of GetByIDForUpdate: the SELECT without FOR UPDATE.
GetByIDPlain(p) ==
    /\ pc[p] = "select"
    /\ req[p].wallet \in Wallets
    /\ snap' = [snap EXCEPT ![p] = row[req[p].wallet]]
    /\ Goto(p, "update")
    /\ UNCHANGED <<row, ledger, rowLock, lock, req, reply, late>>

\* SELECT ... FOR UPDATE waits for the row; a missing row is ErrWalletNotFound.
GetByIDForUpdate(p) ==
    /\ pc[p] = "select"
    /\ req[p].wallet \in Wallets
    /\ rowLock[req[p].wallet] = NoProc
    /\ rowLock' = [rowLock EXCEPT ![req[p].wallet] = p]
    /\ snap' = [snap EXCEPT ![p] = row[req[p].wallet]]
    /\ Goto(p, "update")
    /\ UNCHANGED <<row, ledger, lock, req, reply, late>>

WalletNotFound(p) ==
    /\ pc[p] = "select"
    /\ req[p].wallet \notin Wallets
    /\ Goto(p, "rollback")
    /\ Answer(p, "not_found")
    /\ UNCHANGED <<row, ledger, rowLock, lock, req, snap, late>>

\* Funds are checked on what was read; then UPDATE ... WHERE id AND version,
\* which waits for the row as well.  Zero rows affected is a version conflict;
\* a value too large for the column is an error of the statement.
UpdateBalanceInTx(p) ==
    LET w == req[p].wallet IN
    /\ pc[p] = "update"
    /\ rowLock[w] \in {NoProc, p}
    /\ IF /\ Covered(req[p].op, snap[p], req[p].amount)
          /\ row[w].version = snap[p].version
          /\ FitsColumn(Outcome(p).balance)
          /\ FitsColumn(Outcome(p).hold)
         THEN /\ rowLock' = [rowLock EXCEPT ![w] = p]
              /\ Goto(p, "insert")
              /\ UNCHANGED reply
         ELSE /\ Goto(p, "rollback")
              /\ Answer(p, "error")
              /\ UNCHANGED rowLock
    /\ UNCHANGED <<row, ledger, lock, req, snap, late>>

CreateLedgerEntryInTx(p) ==
    /\ pc[p] = "insert"
    /\ Goto(p, "commit")
    /\ UNCHANGED <<row, ledger, rowLock, lock, req, snap, reply, late>>

\* What COMMIT makes visible, all at once: the row, the entry, the row lock.
Apply(p) ==
    LET w == req[p].wallet IN
    /\ row' = [row EXCEPT ![w] = NewRow(p)]
    /\ ledger' = [ledger EXCEPT ![w] = Append(ledger[w], NewEntry(p))]
    /\ rowLock' = Free(rowLock, p)

\* COMMIT succeeds.  Its reply may be lost on the way: the caller then reports
\* an error for a transaction that stands.
Commit(p) ==
    /\ pc[p] = "commit"
    /\ Apply(p)
    /\ \/ Answer(p, "ok")
       \/ Answer(p, "error")
    /\ Goto(p, "unlock")
    /\ UNCHANGED <<lock, req, snap, late>>

\* Mutant of StatementFails: the error of a COMMIT is ignored.
StatementFailsSilently(p) ==
    /\ pc[p] = "commit"
    /\ Goto(p, "rollback")
    /\ Answer(p, "ok")
    /\ UNCHANGED <<row, ledger, rowLock, lock, req, snap, late>>

\* A statement fails: no connection, a deadline, a partition that is missing.
StatementFails(p) ==
    /\ pc[p] \in {"check", "begin", "select", "update", "insert", "commit"}
    /\ Goto(p, CASE pc[p] = "check" -> "done"
                 [] pc[p] = "begin" -> "unlock"
                 [] OTHER -> "rollback")
    /\ Answer(p, "error")
    /\ UNCHANGED <<row, ledger, rowLock, lock, req, snap, late>>

\* The deferred calls, last registered first: tx.Rollback, then the lock.
Rollback(p) ==
    /\ pc[p] = "rollback"
    /\ rowLock' = Free(rowLock, p)
    /\ Goto(p, "unlock")
    /\ UNCHANGED <<row, ledger, lock, req, snap, reply, late>>

\* Mutant of ReleaseLock: DEL without the comparison.
ReleaseAnyLock(p) ==
    /\ pc[p] = "unlock"
    /\ lock' = [lock EXCEPT ![req[p].wallet] = NoProc]
    /\ Goto(p, "done")
    /\ UNCHANGED <<row, ledger, rowLock, req, snap, reply, late>>

\* Compare-and-delete: the key goes only while it still holds p's value.
ReleaseLock(p) ==
    LET w == req[p].wallet IN
    /\ pc[p] = "unlock"
    /\ lock' = [lock EXCEPT ![w] = IF lock[w] = p THEN NoProc ELSE lock[w]]
    /\ Goto(p, "done")
    /\ UNCHANGED <<row, ledger, rowLock, req, snap, reply, late>>

\* The release fails; the error is logged and the key is left to its TTL.
ReleaseLockFails(p) ==
    /\ pc[p] = "unlock"
    /\ Goto(p, "done")
    /\ UNCHANGED <<row, ledger, rowLock, lock, req, snap, reply, late>>

\* Mutant of LockExpires: SETNX without a TTL.
LockNeverExpires(w) == lock[w] # NoProc /\ FALSE

\* The lock's time to live runs out, whatever its holder is doing.
LockExpires(w) ==
    /\ lock[w] # NoProc
    /\ lock' = [lock EXCEPT ![w] = NoProc]
    /\ UNCHANGED <<row, ledger, rowLock, req, pc, snap, reply, late>>

\* The server dies.  A COMMIT that is on its way may still take effect.
Crash(p) ==
    /\ pc[p] \notin {"idle", "done", "crashed", "in_doubt"}
    /\ Goto(p, IF pc[p] = "commit" THEN "in_doubt" ELSE "crashed")
    /\ Answer(p, "none")
    /\ UNCHANGED <<row, ledger, rowLock, lock, req, snap, late>>

\* PostgreSQL ends the session of a dead client: it has the COMMIT, or it
\* rolls the transaction back.
DatabaseCommits(p) ==
    /\ pc[p] = "in_doubt"
    /\ Apply(p)
    /\ Goto(p, "crashed")
    /\ UNCHANGED <<lock, req, snap, reply, late>>

DatabaseAborts(p) ==
    /\ \/ pc[p] = "in_doubt"
       \/ pc[p] = "crashed" /\ \E w \in Wallets : rowLock[w] = p
    /\ rowLock' = Free(rowLock, p)
    /\ Goto(p, "crashed")
    /\ UNCHANGED <<row, ledger, lock, req, snap, reply, late>>

\* What p does when every call it makes succeeds.
Advance(p) ==
    \/ Submit(p) \/ CheckRef(p) \/ AcquireLock(p) \/ BeginTx(p)
    \/ GetByIDForUpdate(p) \/ WalletNotFound(p) \/ UpdateBalanceInTx(p)
    \/ CreateLedgerEntryInTx(p) \/ Commit(p) \/ Rollback(p) \/ ReleaseLock(p)

Fault(p) ==
    \/ AcquireLockFails(p) \/ StatementFails(p) \/ ReleaseLockFails(p) \/ Crash(p)

Database(p) == DatabaseCommits(p) \/ DatabaseAborts(p)

Next ==
    \/ \E p \in Procs : Advance(p) \/ Fault(p) \/ Database(p)
    \/ \E w \in Ids : LockExpires(w)

Spec == Init /\ [][Next]_vars

\* A goroutine that can go on does, PostgreSQL notices a dead client and Redis
\* honours a TTL.  Nothing is assumed of the faults.
Fairness ==
    /\ \A p \in Procs : WF_vars(Advance(p)) /\ WF_vars(Database(p))
    /\ \A w \in Ids : WF_vars(LockExpires(w))

FairSpec == Spec /\ Fairness

-----------------------------------------------------------------------------
(* Properties                                                              *)

TypeOK ==
    /\ row \in [Wallets -> Row]
    /\ ledger \in [Wallets -> Seq(Entry)]
    /\ rowLock \in [Wallets -> Procs \cup {NoProc}]
    /\ lock \in [Ids -> Procs \cup {NoProc}]
    /\ req \in [Procs -> Requests]
    /\ pc \in [Procs -> Steps]
    /\ snap \in [Procs -> Row]
    /\ reply \in [Procs -> Replies]
    /\ late \in [Procs -> BOOLEAN]

\* Neither the available nor the held balance is ever negative, although the
\* check and the write are statements of their own (wallet.go, Debit, Hold and
\* Release).
NonNegative == \A w \in Wallets : row[w].balance >= 0 /\ row[w].hold >= 0

\* Clients send amounts that the columns hold exactly.
WholeSatang == \A r \in Requests : r.amount % 10 = 0

\* What the first i entries of a ledger leave in wallet w.
BalanceAfter(w, entries, i) ==
    IF i = 0 THEN Opening[w].balance ELSE entries[i].after

\* The ledger explains the balance: each entry starts from the balance that the
\* entry before it left, and the last one ends at the balance in the row.
Explains(w, entries, balance) ==
    /\ \A i \in 1 .. Len(entries) :
           entries[i].after = BalanceAfter(w, entries, i - 1) + entries[i].amount
    /\ balance = BalanceAfter(w, entries, Len(entries))

AuditChain == \A w \in Wallets : Explains(w, ledger[w], row[w].balance)

\* Nothing stops a client from sending more decimals than the columns keep, and
\* balance, hold and entry are then rounded apart (wallet.go:305).  What is left
\* of the chain: an entry that debits or holds half a satang says one satang
\* more than left the balance; all other entries are exact.
RoundingGain(w, entries, i) ==
    entries[i].after - (BalanceAfter(w, entries, i - 1) + entries[i].amount)

ExplainsRounded(w, entries, balance) ==
    /\ \A i \in 1 .. Len(entries) :
           \/ RoundingGain(w, entries, i) = 0
           \/ RoundingGain(w, entries, i) = 10 /\ entries[i].op \in {"debit", "hold"}
    /\ balance = BalanceAfter(w, entries, Len(entries))

AuditChainRounded ==
    \A w \in Wallets : ExplainsRounded(w, ledger[w], row[w].balance)

\* Every version of a row has its ledger entry: no update escapes the audit
\* trail and no entry is written without its update.
VersionCounts == \A w \in Wallets : row[w].version = Len(ledger[w])

PostedBy(p) == \E w \in Wallets : \E e \in EntriesOf(w) : e.by = p

\* What the client is told is so: success means the reference is in the ledger,
\* "wallet does not exist" that this request wrote nothing, and no request
\* writes two entries whatever became of its COMMIT.
TruthfulReply ==
    \A p \in Procs :
        /\ reply[p] = "ok" => LedgerEntryExists(req[p].ref)
        /\ reply[p] = "not_found" => ~ PostedBy(p)
        /\ \A w \in Wallets : \A i, j \in 1 .. Len(ledger[w]) :
               ledger[w][i].by = p /\ ledger[w][j].by = p => i = j

\* A request that arrives after its reference was posted changes nothing, even
\* when the first attempt crashed, timed out or reported an error.
RetryIsHarmless ==
    \A p \in Procs :
        late[p] => ~ PostedBy(p)

\* The transaction that holds a row has read what is still in it: the funds it
\* checked are the funds it spends, even when the Redis lock has lapsed.
SnapshotCurrent ==
    \A p \in Procs :
        pc[p] \in {"update", "insert", "commit", "in_doubt"} =>
            /\ req[p].wallet \in Wallets
            /\ rowLock[req[p].wallet] = p
            /\ snap[p] = row[req[p].wallet]

\* The rest of what makes the invariants inductive: what a transaction is about
\* to write is covered, only positive amounts get that far, a request has no
\* entry before its COMMIT, and a late request never gets a transaction.
Inductive ==
    /\ SnapshotCurrent
    /\ \A p \in Procs :
        /\ pc[p] \notin {"idle", "done"} => req[p].amount > 0
        /\ pc[p] \in {"insert", "commit", "in_doubt"} =>
               Covered(req[p].op, snap[p], req[p].amount)
        /\ pc[p] \notin {"unlock", "done", "crashed"} => ~ PostedBy(p)
        /\ late[p] => /\ LedgerEntryExists(req[p].ref)
                      /\ pc[p] \in {"check", "done", "crashed"}
                      /\ ~ PostedBy(p)

\* Nobody deletes a Redis lock that another request took over after the TTL.
OnlyOwnLockReleased ==
    [][\A w \in Ids, p \in Procs :
          lock[w] # NoProc /\ lock'[w] # lock[w] /\ pc'[p] # pc[p] => lock[w] = p]_vars

\* Ledger entries are never changed or removed, and money moves only with an
\* entry: Hold and Release shift it within the wallet, Credit and Debit change
\* the total by exactly the amount of the entry.
EntryFor(w) ==
    LET e == ledger'[w][Len(ledger'[w])]
        total == row[w].balance + row[w].hold
        total1 == row'[w].balance + row'[w].hold
    IN  /\ Len(ledger'[w]) = Len(ledger[w]) + 1
        /\ ledger'[w] = Append(ledger[w], e)
        /\ row'[w].balance = row[w].balance + e.amount
        /\ total1 = total + (IF e.op \in {"credit", "debit"} THEN e.amount ELSE 0)

MoneyMovesWithEntry ==
    [][\A w \in Wallets :
          (row'[w] # row[w] \/ ledger'[w] # ledger[w]) => EntryFor(w)]_vars

\* With decimals of any precision, rounding takes no money from a wallet: its
\* total changes by the amount of the entry (by nothing, for Hold and Release)
\* or ends one satang higher, since a half rounds up on both sides.
RoundingFavoursWallet ==
    [][\A w \in Wallets :
          row'[w] # row[w] =>
              LET e == ledger'[w][Len(ledger'[w])]
                  total == row[w].balance + row[w].hold
                  total1 == row'[w].balance + row'[w].hold
                  told == IF e.op \in {"credit", "debit"} THEN e.amount ELSE 0
              IN  /\ ledger'[w] = Append(ledger[w], e)
                  /\ total1 - (total + told) \in {0, 10}]_vars

\* The service implements the promise of AtomicWallet: a request takes effect
\* when its transaction commits.
Atomic == INSTANCE AtomicWallet WITH
    balance <- [w \in Wallets |-> row[w].balance],
    hold    <- [w \in Wallets |-> row[w].hold],
    posted  <- {p \in Procs : PostedBy(p)},
    answer  <- [p \in Procs |-> IF pc[p] = "done" THEN reply[p] ELSE "none"]

KeepsPromise == Atomic!Spec

\* The wallet of one merchant as WalletCalls has it: the calls that are past the
\* idempotency check and may still take effect, and those that have.
InService == {"lock", "begin", "select", "update", "insert", "commit", "in_doubt"}

Merchant == CHOOSE w \in Wallets : TRUE

CallOf(p) == [ref |-> req[p].ref, op |-> req[p].op, by |-> p]

InFlight ==
    {CallOf(p) : p \in {q \in Procs : req[q].wallet = Merchant /\ pc[q] \in InService}}

Taken == {[ref |-> e.ref, op |-> e.op, by |-> e.by] : e \in EntriesOf(Merchant)}

RequestsFor(ref) == {r \in Requests : r.wallet = Merchant /\ r.ref = ref}

Price ==
    [ref \in Refs |->
        IF RequestsFor(ref) = {} THEN 1 ELSE (CHOOSE r \in RequestsFor(ref) : TRUE).amount]

Calls == INSTANCE WalletCalls WITH
    Callers <- Procs,
    Amount  <- Price,
    Funds   <- Opening[Merchant].balance,
    balance <- row[Merchant].balance,
    entries <- Taken,
    flying  <- InFlight

\* What the withdrawal and the order service do: they credit and debit, and a
\* reference stands for one positive amount and one wallet.
ClientsOfMerchant ==
    /\ Wallets # {}
    /\ \A r \in Requests :
           r.wallet = Merchant =>
               r.op \in {"credit", "debit"} /\ r.amount > 0 /\ r.amount = Price[r.ref]
    /\ \A r, s \in Requests : r.ref = s.ref => r.wallet = s.wallet

\* What the models of those services take for granted is what the wallet service
\* does: a call is accepted while its reference is new, and settled or refused
\* later, at one instant; a caller that reads "ok" has its reference posted.
ServesItsClients == Calls!ServiceSpec

OkMeansPosted ==
    \A p \in Procs :
        req[p].wallet = Merchant /\ reply[p] = "ok" => Calls!Posted(req[p].ref)

\* Whatever fails, a wallet does not stay locked: neither the Redis key nor the
\* row outlives the TTL and the session.
WalletComesFree ==
    /\ \A w \in Ids : []<>(lock[w] = NoProc)
    /\ \A w \in Wallets : []<>(rowLock[w] = NoProc)

\* "duplicate refIDs are silently ignored" (wallet.go:230): of equal requests at
\* most one takes effect.
AtMostOncePerRef ==
    \A p, q \in Procs :
        p # q /\ req[p] = req[q] => ~ (PostedBy(p) /\ PostedBy(q))
=============================================================================
