---------------------------- MODULE WalletProofs ----------------------------
(***************************************************************************)
(* What holds of Wallet for any number of requests, any wallets, any       *)
(* amounts and any interleaving of faults.                                 *)
(***************************************************************************)
EXTENDS Wallet, TLAPS

-----------------------------------------------------------------------------
(* Rounding                                                                *)

\* A column holds whole satang, and rounding does not turn money into debt.
LEMMA StoredIsWhole ==
    ASSUME NEW x \in Int
    PROVE  /\ Stored(x) \in Int
           /\ Stored(x) % 10 = 0
           /\ x >= 0 => Stored(x) >= 0
BY DEF Stored

\* A decimal of whole satang is stored as it is.
LEMMA StoredExactly ==
    ASSUME NEW x \in Int, x % 10 = 0
    PROVE  Stored(x) = x
BY DEF Stored

\* A movement on a column of whole satang: additions round the amount, and a
\* subtraction may keep one satang, since the half that remains rounds up.
LEMMA StoredNegates ==
    ASSUME NEW a \in Int, a > 0
    PROVE  Stored(-a) = -Stored(a)
BY DEF Stored

LEMMA StoredAdds ==
    ASSUME NEW b \in Int, b % 10 = 0, b >= 0, NEW a \in Int, a > 0
    PROVE  Stored(b + a) = b + Stored(a)
<1>1. PICK k \in Int : b = 10 * k
  <2>1. b = 10 * (b \div 10) /\ b \div 10 \in Int
    OBVIOUS
  <2>. QED
    BY <2>1
<1>2. (b + a + 5) \div 10 = k + (a + 5) \div 10
  BY <1>1
<1>. QED
  BY <1>1, <1>2 DEF Stored

LEMMA StoredSubtracts ==
    ASSUME NEW b \in Int, b % 10 = 0, NEW a \in Int, a > 0, b >= a
    PROVE  Stored(b - a) - (b - Stored(a)) \in {0, 10}
<1>1. PICK k \in Int : b = 10 * k
  <2>1. b = 10 * (b \div 10) /\ b \div 10 \in Int
    OBVIOUS
  <2>. QED
    BY <2>1
<1>2. (b - a + 5) \div 10 = k + (5 - a) \div 10
  BY <1>1
<1>3. (5 - a) \div 10 + (a + 5) \div 10 \in {0, 1}
  OBVIOUS
<1>. QED
  BY <1>1, <1>2, <1>3 DEF Stored

-----------------------------------------------------------------------------
(* Type correctness                                                        *)

LEMMA RequestFields ==
    ASSUME NEW r \in Requests
    PROVE  /\ r.op \in Ops
           /\ r.wallet \in Ids
           /\ r.amount \in Int
           /\ r.ref \in Refs
BY WalletAssumption DEF Request

LEMMA EffectType ==
    ASSUME NEW op \in Ops, NEW s \in Row, NEW a \in Int
    PROVE  /\ Effect(op, s, a).balance \in Int
           /\ Effect(op, s, a).hold \in Int
           /\ Effect(op, s, a).amount \in Int
<1>1. s.balance \in Int /\ s.hold \in Int
  BY DEF Row
<1>2. CASE op = "credit"
  BY <1>1, <1>2 DEF Effect, CreditEffect
<1>3. CASE op = "debit"
  BY <1>1, <1>3 DEF Effect, DebitEffect
<1>4. CASE op = "hold"
  BY <1>1, <1>4 DEF Effect, HoldEffect
<1>5. CASE op = "release"
  BY <1>1, <1>5 DEF Effect, ReleaseEffect
<1>. QED
  BY <1>2, <1>3, <1>4, <1>5 DEF Ops

\* What a COMMIT writes has the type of the tables.
LEMMA WrittenType ==
    ASSUME TypeOK, NEW p \in Procs, req[p].wallet \in Wallets
    PROVE  NewRow(p) \in Row /\ NewEntry(p) \in Entry
<1>. DEFINE w == req[p].wallet
<1>1. /\ req[p] \in Requests
      /\ snap[p] \in Row
      /\ row[w].version \in Nat
  BY DEF TypeOK, Row
<1>2. /\ req[p].op \in Ops
      /\ req[p].amount \in Int
      /\ req[p].ref \in Refs
  BY <1>1, RequestFields
<1>3. /\ Outcome(p).balance \in Int
      /\ Outcome(p).hold \in Int
      /\ Outcome(p).amount \in Int
  BY <1>1, <1>2, EffectType DEF Outcome
<1>4. /\ Stored(Outcome(p).balance) \in Int
      /\ Stored(Outcome(p).hold) \in Int
      /\ Stored(Outcome(p).amount) \in Int
  BY <1>3, StoredIsWhole
<1>. QED
  BY <1>1, <1>2, <1>4 DEF NewRow, NewEntry, Row, Entry

LEMMA FreeType ==
    ASSUME TypeOK, NEW p \in Procs
    PROVE  /\ Free(rowLock, p) \in [Wallets -> Procs \cup {NoProc}]
           /\ \A w \in Wallets :
                  Free(rowLock, p)[w] = IF rowLock[w] = p THEN NoProc ELSE rowLock[w]
BY DEF TypeOK, Free

\* Init establishes the types: the opening rows have them by assumption.
LEMMA InitType == Init => TypeOK
<1>. SUFFICES ASSUME Init PROVE TypeOK
  OBVIOUS
<1>1. row \in [Wallets -> Row]
  BY WalletAssumption DEF Init, Row
<1>2. ledger \in [Wallets -> Seq(Entry)]
  BY DEF Init
<1>3. snap \in [Procs -> Row]
  BY DEF Init, Row
<1>. QED
  BY <1>1, <1>2, <1>3 DEF Init, TypeOK, Steps, Replies

\* Only COMMIT writes the tables; the rest moves locks and program counters.
LEMMA ApplyType ==
    ASSUME TypeOK, NEW p \in Procs, req[p].wallet \in Wallets, Apply(p)
    PROVE  /\ row' \in [Wallets -> Row]
           /\ ledger' \in [Wallets -> Seq(Entry)]
           /\ rowLock' \in [Wallets -> Procs \cup {NoProc}]
<1>1. NewRow(p) \in Row /\ NewEntry(p) \in Entry
  BY WrittenType
<1>2. row' \in [Wallets -> Row]
  BY <1>1 DEF Apply, TypeOK
<1>3. Append(ledger[req[p].wallet], NewEntry(p)) \in Seq(Entry)
  BY <1>1 DEF TypeOK
<1>4. ledger' \in [Wallets -> Seq(Entry)]
  BY <1>3 DEF Apply, TypeOK
<1>. QED
  BY <1>2, <1>4, FreeType DEF Apply

\* A transaction past its SELECT holds the row it read, so its wallet exists.
\* Kept apart from the types because only COMMIT needs it.
LEMMA TypeStep ==
    ASSUME TypeOK, SnapshotCurrent, [Next]_vars
    PROVE  TypeOK'
<1>. USE DEF TypeOK
<1>1. ASSUME NEW p \in Procs, Submit(p) PROVE TypeOK'
  BY <1>1 DEF Submit, Goto, Answer, Steps, Replies, LedgerEntryExists
<1>2. ASSUME NEW p \in Procs, CheckRef(p) PROVE TypeOK'
  BY <1>2 DEF CheckRef, Goto, Answer, Steps, Replies
<1>3. ASSUME NEW p \in Procs, AcquireLock(p) PROVE TypeOK'
  BY <1>3 DEF AcquireLock, Goto, Answer, Steps, Replies
<1>4. ASSUME NEW p \in Procs, AcquireLockFails(p) PROVE TypeOK'
  BY <1>4 DEF AcquireLockFails, Goto, Answer, Steps, Replies
<1>5. ASSUME NEW p \in Procs, BeginTx(p) PROVE TypeOK'
  BY <1>5 DEF BeginTx, Goto, Steps
<1>6. ASSUME NEW p \in Procs, GetByIDForUpdate(p) PROVE TypeOK'
  BY <1>6 DEF GetByIDForUpdate, Goto, Steps
<1>7. ASSUME NEW p \in Procs, WalletNotFound(p) PROVE TypeOK'
  BY <1>7 DEF WalletNotFound, Goto, Answer, Steps, Replies
<1>8. ASSUME NEW p \in Procs, UpdateBalanceInTx(p) PROVE TypeOK'
  BY <1>8 DEF UpdateBalanceInTx, Goto, Answer, Steps, Replies
<1>9. ASSUME NEW p \in Procs, CreateLedgerEntryInTx(p) PROVE TypeOK'
  BY <1>9 DEF CreateLedgerEntryInTx, Goto, Steps
<1>10. ASSUME NEW p \in Procs, Commit(p) PROVE TypeOK'
  <2>1. req[p].wallet \in Wallets
    BY <1>10 DEF Commit, SnapshotCurrent
  <2>2. Apply(p)
    BY <1>10 DEF Commit
  <2>3. /\ row' \in [Wallets -> Row]
        /\ ledger' \in [Wallets -> Seq(Entry)]
        /\ rowLock' \in [Wallets -> Procs \cup {NoProc}]
    BY <2>1, <2>2, ApplyType
  <2>. QED
    BY <1>10, <2>3 DEF Commit, Goto, Answer, Steps, Replies
<1>11. ASSUME NEW p \in Procs, StatementFails(p) PROVE TypeOK'
  BY <1>11 DEF StatementFails, Goto, Answer, Steps, Replies
<1>12. ASSUME NEW p \in Procs, Rollback(p) PROVE TypeOK'
  <2>1. rowLock' \in [Wallets -> Procs \cup {NoProc}]
    BY <1>12, FreeType DEF Rollback
  <2>. QED
    BY <1>12, <2>1 DEF Rollback, Goto, Steps
<1>13. ASSUME NEW p \in Procs, ReleaseLock(p) PROVE TypeOK'
  BY <1>13 DEF ReleaseLock, Goto, Steps
<1>14. ASSUME NEW p \in Procs, ReleaseLockFails(p) PROVE TypeOK'
  BY <1>14 DEF ReleaseLockFails, Goto, Steps
<1>15. ASSUME NEW p \in Procs, Crash(p) PROVE TypeOK'
  BY <1>15 DEF Crash, Goto, Answer, Steps, Replies
<1>16. ASSUME NEW p \in Procs, DatabaseCommits(p) PROVE TypeOK'
  <2>1. req[p].wallet \in Wallets
    BY <1>16 DEF DatabaseCommits, SnapshotCurrent
  <2>2. Apply(p)
    BY <1>16 DEF DatabaseCommits
  <2>3. /\ row' \in [Wallets -> Row]
        /\ ledger' \in [Wallets -> Seq(Entry)]
        /\ rowLock' \in [Wallets -> Procs \cup {NoProc}]
    BY <2>1, <2>2, ApplyType
  <2>. QED
    BY <1>16, <2>3 DEF DatabaseCommits, Goto, Steps
<1>17. ASSUME NEW p \in Procs, DatabaseAborts(p) PROVE TypeOK'
  <2>1. rowLock' \in [Wallets -> Procs \cup {NoProc}]
    BY <1>17, FreeType DEF DatabaseAborts
  <2>. QED
    BY <1>17, <2>1 DEF DatabaseAborts, Goto, Steps
<1>18. ASSUME NEW w \in Ids, LockExpires(w) PROVE TypeOK'
  BY <1>18 DEF LockExpires
<1>19. CASE UNCHANGED vars
  BY <1>19 DEF vars
<1>. QED
  BY <1>1, <1>2, <1>3, <1>4, <1>5, <1>6, <1>7, <1>8, <1>9, <1>10, <1>11, <1>12,
     <1>13, <1>14, <1>15, <1>16, <1>17, <1>18, <1>19
     DEF Next, Advance, Fault, Database

-----------------------------------------------------------------------------
(* The inductive invariant                                                 *)

\* Only a COMMIT touches the tables, and it holds the row it writes.
LEMMA OnlyCommitWrites ==
    ASSUME TypeOK, SnapshotCurrent, [Next]_vars
    PROVE  /\ req' = req
           /\ \/ row' = row /\ ledger' = ledger
              \/ \E p \in Procs :
                    /\ Commit(p) \/ DatabaseCommits(p)
                    /\ req[p].wallet \in Wallets
                    /\ rowLock[req[p].wallet] = p
                    /\ snap[p] = row[req[p].wallet]
<1>1. ASSUME NEW p \in Procs, Advance(p)
      PROVE  req' = req /\ (Commit(p) \/ (row' = row /\ ledger' = ledger))
  BY <1>1 DEF Advance, Submit, CheckRef, AcquireLock, BeginTx, GetByIDForUpdate,
     WalletNotFound, UpdateBalanceInTx, CreateLedgerEntryInTx, Commit, Rollback, ReleaseLock
<1>2. ASSUME NEW p \in Procs, Fault(p)
      PROVE  req' = req /\ row' = row /\ ledger' = ledger
  BY <1>2 DEF Fault, AcquireLockFails, StatementFails, ReleaseLockFails, Crash
<1>3. ASSUME NEW p \in Procs, Database(p)
      PROVE  req' = req /\ (DatabaseCommits(p) \/ (row' = row /\ ledger' = ledger))
  BY <1>3 DEF Database, DatabaseCommits, DatabaseAborts
<1>4. ASSUME NEW w \in Ids, LockExpires(w)
      PROVE  req' = req /\ row' = row /\ ledger' = ledger
  BY <1>4 DEF LockExpires
<1>5. CASE UNCHANGED vars
  BY <1>5 DEF vars
<1>6. ASSUME NEW p \in Procs, Commit(p) \/ DatabaseCommits(p)
      PROVE  /\ req[p].wallet \in Wallets
             /\ rowLock[req[p].wallet] = p
             /\ snap[p] = row[req[p].wallet]
  BY <1>6 DEF Commit, DatabaseCommits, SnapshotCurrent
<1>. QED
  BY <1>1, <1>2, <1>3, <1>4, <1>5, <1>6 DEF Next

\* Whoever else holds a row keeps it, unchanged, through p's COMMIT.
LEMMA OthersKeepTheirRows ==
    ASSUME TypeOK, SnapshotCurrent,
           NEW p \in Procs, Apply(p), req[p].wallet \in Wallets,
           rowLock[req[p].wallet] = p,
           NEW q \in Procs, q # p, req[q].wallet \in Wallets,
           rowLock[req[q].wallet] = q
    PROVE  /\ row'[req[q].wallet] = row[req[q].wallet]
           /\ rowLock'[req[q].wallet] = q
<1>1. req[q].wallet # req[p].wallet
  OBVIOUS
<1>2. row'[req[q].wallet] = row[req[q].wallet]
  BY <1>1 DEF Apply, TypeOK
<1>3. rowLock'[req[q].wallet] = q
  BY FreeType DEF Apply
<1>. QED
  BY <1>2, <1>3

\* One step of any request keeps every open snapshot current.
LEMMA SnapshotStep ==
    ASSUME TypeOK, SnapshotCurrent, [Next]_vars
    PROVE  SnapshotCurrent'
<1>. DEFINE Open == {"update", "insert", "commit", "in_doubt"}
            Cur(q) == pc[q] \in Open => /\ req[q].wallet \in Wallets
                                        /\ rowLock[req[q].wallet] = q
                                        /\ snap[q] = row[req[q].wallet]
<1>. SUFFICES ASSUME NEW q \in Procs PROVE Cur(q)'
  BY DEF SnapshotCurrent
<1>0. Cur(q)
  BY DEF SnapshotCurrent
<1>. USE <1>0, WalletAssumption DEF TypeOK
<1>1. ASSUME NEW p \in Procs, Submit(p) \/ CheckRef(p) \/ AcquireLock(p) \/ BeginTx(p)
      PROVE  Cur(q)'
  BY <1>1 DEF Submit, CheckRef, AcquireLock, BeginTx, Goto
<1>2. ASSUME NEW p \in Procs, GetByIDForUpdate(p) PROVE Cur(q)'
  <2>1. CASE q = p
    BY <1>2, <2>1 DEF GetByIDForUpdate, Goto
  <2>2. CASE q # p
    BY <1>2, <2>2 DEF GetByIDForUpdate, Goto
  <2>. QED
    BY <2>1, <2>2
<1>3. ASSUME NEW p \in Procs, WalletNotFound(p) \/ CreateLedgerEntryInTx(p) PROVE Cur(q)'
  BY <1>3 DEF WalletNotFound, CreateLedgerEntryInTx, Goto
<1>4. ASSUME NEW p \in Procs, UpdateBalanceInTx(p) PROVE Cur(q)'
  BY <1>4 DEF UpdateBalanceInTx, Goto
<1>5. ASSUME NEW p \in Procs, Commit(p) \/ DatabaseCommits(p) PROVE Cur(q)'
  <2>1. /\ req[p].wallet \in Wallets
        /\ rowLock[req[p].wallet] = p
        /\ Apply(p)
    BY <1>5 DEF SnapshotCurrent, Commit, DatabaseCommits
  <2>2. CASE q = p
    BY <1>5, <2>2 DEF Commit, DatabaseCommits, Goto
  <2>3. CASE q # p
    <3>1. ASSUME pc[q] \in Open
          PROVE  row'[req[q].wallet] = row[req[q].wallet] /\ rowLock'[req[q].wallet] = q
      BY <2>1, <2>3, <3>1, OthersKeepTheirRows
    <3>. QED
      BY <1>5, <2>3, <3>1 DEF Commit, DatabaseCommits, Goto
  <2>. QED
    BY <2>2, <2>3
<1>6. ASSUME NEW p \in Procs, StatementFails(p) \/ AcquireLockFails(p) PROVE Cur(q)'
  BY <1>6 DEF StatementFails, AcquireLockFails, Goto
<1>7. ASSUME NEW p \in Procs, Rollback(p) \/ DatabaseAborts(p) PROVE Cur(q)'
  <2>1. CASE q = p
    BY <1>7, <2>1 DEF Rollback, DatabaseAborts, Goto
  <2>2. CASE q # p
    BY <1>7, <2>2, FreeType DEF Rollback, DatabaseAborts, Goto
  <2>. QED
    BY <2>1, <2>2
<1>8. ASSUME NEW p \in Procs, ReleaseLock(p) \/ ReleaseLockFails(p) \/ Crash(p) PROVE Cur(q)'
  BY <1>8 DEF ReleaseLock, ReleaseLockFails, Crash, Goto
<1>9. CASE (\E w \in Ids : LockExpires(w)) \/ UNCHANGED vars
  BY <1>9 DEF LockExpires, vars
<1>. QED
  BY <1>1, <1>2, <1>3, <1>4, <1>5, <1>6, <1>7, <1>8, <1>9
     DEF Next, Advance, Fault, Database

\* Types hold in every reachable state, and so does the snapshot invariant they
\* are proved together with.
THEOREM TypeCorrect == Spec => [](TypeOK /\ SnapshotCurrent)
<1>1. Init => TypeOK /\ SnapshotCurrent
  BY InitType DEF Init, SnapshotCurrent
<1>2. TypeOK /\ SnapshotCurrent /\ [Next]_vars => (TypeOK /\ SnapshotCurrent)'
  BY TypeStep, SnapshotStep
<1>. QED
  BY <1>1, <1>2, PTL DEF Spec

-----------------------------------------------------------------------------
(* The ledger                                                              *)

\* A COMMIT adds one entry to one ledger and leaves the other ledgers alone.
LEMMA EntriesAfterApply ==
    ASSUME TypeOK, NEW p \in Procs, Apply(p), req[p].wallet \in Wallets
    PROVE  \A w \in Wallets :
               EntriesOf(w)' = IF w = req[p].wallet
                                 THEN EntriesOf(w) \cup {NewEntry(p)}
                                 ELSE EntriesOf(w)
<1>. SUFFICES ASSUME NEW w \in Wallets
              PROVE  EntriesOf(w)' = IF w = req[p].wallet
                                       THEN EntriesOf(w) \cup {NewEntry(p)}
                                       ELSE EntriesOf(w)
  OBVIOUS
<1>1. CASE w # req[p].wallet
  BY <1>1 DEF Apply, TypeOK, EntriesOf
<1>2. CASE w = req[p].wallet
  <2>. DEFINE old == ledger[w]
              n == Len(old)
  <2>1. old \in Seq(Entry) /\ NewEntry(p) \in Entry /\ n \in Nat
    BY <1>2, WrittenType DEF TypeOK
  <2>2. ledger'[w] = Append(old, NewEntry(p))
    BY <1>2 DEF Apply, TypeOK
  <2>3. /\ Len(ledger'[w]) = n + 1
        /\ ledger'[w][n + 1] = NewEntry(p)
        /\ \A i \in 1 .. n : ledger'[w][i] = old[i]
    BY <2>1, <2>2
  <2>4. 1 .. (n + 1) = (1 .. n) \cup {n + 1}
    BY <2>1
  <2>. HIDE DEF old, n
  <2>5. {ledger'[w][i] : i \in 1 .. (n + 1)} = {old[i] : i \in 1 .. n} \cup {NewEntry(p)}
    BY <2>3, <2>4
  <2>. QED
    BY <1>2, <2>3, <2>5 DEF EntriesOf, old, n
<1>. QED
  BY <1>1, <1>2

\* Only p itself writes entries in its own name, and what was posted stays.
LEMMA PostedAfterApply ==
    ASSUME TypeOK, NEW p \in Procs, Apply(p), req[p].wallet \in Wallets
    PROVE  /\ PostedBy(p)'
           /\ \A q \in Procs : q # p => (PostedBy(q)' <=> PostedBy(q))
           /\ \A r : LedgerEntryExists(r)' <=> (LedgerEntryExists(r) \/ r = req[p].ref)
<1>1. NewEntry(p).by = p /\ NewEntry(p).ref = req[p].ref
  BY DEF NewEntry
<1>2. \A w \in Wallets : EntriesOf(w)' = IF w = req[p].wallet
                                            THEN EntriesOf(w) \cup {NewEntry(p)}
                                            ELSE EntriesOf(w)
  BY EntriesAfterApply
<1>. QED
  BY <1>1, <1>2 DEF PostedBy, LedgerEntryExists

\* A step that leaves the ledger alone leaves what it says alone.
LEMMA PostedUnchanged ==
    ASSUME ledger' = ledger
    PROVE  /\ \A q : PostedBy(q)' <=> PostedBy(q)
           /\ \A r : LedgerEntryExists(r)' <=> LedgerEntryExists(r)
BY DEF PostedBy, LedgerEntryExists, EntriesOf

LEMMA InductiveInit == Init => Inductive
BY DEF Init, Inductive, SnapshotCurrent, PostedBy, EntriesOf

\* Inductive for one request q, under the name the step proof uses.
Ind(q) ==
    /\ pc[q] \notin {"idle", "done"} => req[q].amount > 0
    /\ pc[q] \in {"insert", "commit", "in_doubt"} =>
           Covered(req[q].op, snap[q], req[q].amount)
    /\ pc[q] \notin {"unlock", "done", "crashed"} => ~ PostedBy(q)
    /\ late[q] => /\ LedgerEntryExists(req[q].ref)
                  /\ pc[q] \in {"check", "done", "crashed"}
                  /\ ~ PostedBy(q)

\* One step keeps the whole inductive invariant: a COMMIT posts for its own
\* request only, every other step leaves the ledger and most requests alone.
LEMMA InductiveStep ==
    ASSUME TypeOK, Inductive, [Next]_vars
    PROVE  Inductive'
<1>0. SnapshotCurrent /\ SnapshotCurrent' /\ \A q \in Procs : Ind(q)
  BY SnapshotStep DEF Inductive, Ind
<1>. SUFFICES ASSUME NEW q \in Procs PROVE Ind(q)'
  BY <1>0 DEF Inductive, Ind
<1>a. Ind(q)
  BY <1>0
<1>1. ASSUME NEW p \in Procs, Commit(p) \/ DatabaseCommits(p) PROVE Ind(q)'
  <2>1. Apply(p) /\ req[p].wallet \in Wallets
    BY <1>0, <1>1 DEF SnapshotCurrent, Commit, DatabaseCommits
  <2>2. /\ \A o \in Procs : o # p => (PostedBy(o)' <=> PostedBy(o))
        /\ \A r : LedgerEntryExists(r) => LedgerEntryExists(r)'
    BY <2>1, PostedAfterApply
  <2>3. CASE q = p
    BY <1>a, <1>1, <2>3 DEF Ind, Commit, DatabaseCommits, Goto, TypeOK
  <2>4. CASE q # p
    BY <1>a, <1>1, <2>2, <2>4 DEF Ind, Commit, DatabaseCommits, Goto, TypeOK
  <2>. QED
    BY <2>3, <2>4
<1>. USE <1>a, PostedUnchanged DEF Ind, TypeOK, Goto
<1>2. ASSUME NEW p \in Procs, Submit(p) PROVE Ind(q)'
  <2>1. CASE q = p
    BY <1>2, <2>1 DEF Submit
  <2>2. CASE q # p
    BY <1>2, <2>2 DEF Submit
  <2>. QED
    BY <2>1, <2>2
<1>3. ASSUME NEW p \in Procs, CheckRef(p) PROVE Ind(q)'
  <2>1. CASE q = p
    BY <1>3, <2>1 DEF CheckRef
  <2>2. CASE q # p
    BY <1>3, <2>2 DEF CheckRef
  <2>. QED
    BY <2>1, <2>2
<1>4. ASSUME NEW p \in Procs, AcquireLock(p) \/ AcquireLockFails(p) PROVE Ind(q)'
  BY <1>4 DEF AcquireLock, AcquireLockFails
<1>5. ASSUME NEW p \in Procs, BeginTx(p) \/ WalletNotFound(p) \/ CreateLedgerEntryInTx(p)
      PROVE  Ind(q)'
  BY <1>5 DEF BeginTx, WalletNotFound, CreateLedgerEntryInTx
<1>6. ASSUME NEW p \in Procs, GetByIDForUpdate(p) PROVE Ind(q)'
  BY <1>6 DEF GetByIDForUpdate
<1>7. ASSUME NEW p \in Procs, UpdateBalanceInTx(p) PROVE Ind(q)'
  BY <1>7 DEF UpdateBalanceInTx
<1>8. ASSUME NEW p \in Procs, StatementFails(p) PROVE Ind(q)'
  BY <1>8 DEF StatementFails
<1>9. ASSUME NEW p \in Procs, Rollback(p) \/ ReleaseLock(p) \/ ReleaseLockFails(p)
      PROVE  Ind(q)'
  BY <1>9 DEF Rollback, ReleaseLock, ReleaseLockFails
<1>10. ASSUME NEW p \in Procs, Crash(p) \/ DatabaseAborts(p) PROVE Ind(q)'
  BY <1>10 DEF Crash, DatabaseAborts
<1>11. CASE (\E w \in Ids : LockExpires(w)) \/ UNCHANGED vars
  BY <1>11 DEF LockExpires, vars
<1>. QED
  BY <1>1, <1>2, <1>3, <1>4, <1>5, <1>6, <1>7, <1>8, <1>9, <1>10, <1>11
     DEF Next, Advance, Fault, Database

\* Every reachable state is well typed and satisfies the inductive invariant.
THEOREM Invariance == Spec => [](TypeOK /\ Inductive)
<1>1. Init => TypeOK /\ Inductive
  BY InitType, InductiveInit
<1>2. TypeOK /\ Inductive /\ [Next]_vars => (TypeOK /\ Inductive)'
  BY TypeStep, InductiveStep DEF Inductive
<1>. QED
  BY <1>1, <1>2, PTL DEF Spec

\* A retry that arrives after its reference was posted writes nothing.
THEOREM RetriesAreHarmless == Spec => []RetryIsHarmless
<1>1. Inductive => RetryIsHarmless
  BY DEF Inductive, RetryIsHarmless
<1>. QED
  BY <1>1, Invariance, PTL

-----------------------------------------------------------------------------
(* Balances                                                                *)

\* What a COMMIT is about to write, for a covered amount: nothing negative.
LEMMA WritesNoDebt ==
    ASSUME TypeOK, Inductive, NonNegative,
           NEW p \in Procs, pc[p] \in {"commit", "in_doubt"}
    PROVE  NewRow(p).balance >= 0 /\ NewRow(p).hold >= 0
<1>. DEFINE r == req[p]
            s == snap[p]
<1>1. /\ r.wallet \in Wallets
      /\ s = row[r.wallet]
      /\ Covered(r.op, s, r.amount)
      /\ r.amount > 0
  BY DEF Inductive, SnapshotCurrent
<1>2. /\ r.op \in Ops /\ r.amount \in Int
      /\ s \in Row
      /\ s.balance \in Int /\ s.hold \in Int
      /\ s.balance >= 0 /\ s.hold >= 0
  BY <1>1, RequestFields DEF TypeOK, NonNegative, Row
<1>. HIDE DEF r, s
<1>3. /\ Effect(r.op, s, r.amount).balance \in Int
      /\ Effect(r.op, s, r.amount).hold \in Int
  BY <1>2, EffectType
<1>4. /\ Effect(r.op, s, r.amount).balance >= 0
      /\ Effect(r.op, s, r.amount).hold >= 0
  <2>1. CASE r.op = "credit"
    BY <1>1, <1>2, <2>1 DEF Effect, CreditEffect
  <2>2. CASE r.op = "debit"
    BY <1>1, <1>2, <2>2 DEF Effect, DebitEffect, Covered
  <2>3. CASE r.op = "hold"
    BY <1>1, <1>2, <2>3 DEF Effect, HoldEffect, Covered
  <2>4. CASE r.op = "release"
    BY <1>1, <1>2, <2>4 DEF Effect, ReleaseEffect, Covered
  <2>. QED
    BY <1>2, <2>1, <2>2, <2>3, <2>4 DEF Ops
<1>. QED
  BY <1>3, <1>4, StoredIsWhole DEF NewRow, Outcome, r, s

\* What p's COMMIT does to each row.
LEMMA RowAfterApply ==
    ASSUME TypeOK, NEW p \in Procs, Apply(p), req[p].wallet \in Wallets
    PROVE  \A w \in Wallets :
               row'[w] = IF w = req[p].wallet THEN NewRow(p) ELSE row[w]
BY DEF Apply, TypeOK

\* No balance, available or held, is ever negative.
THEOREM NeverNegative == Spec => []NonNegative
<1>1. Init => NonNegative
  BY WalletAssumption DEF Init, NonNegative
<1>2. TypeOK /\ Inductive /\ NonNegative /\ [Next]_vars => NonNegative'
  <2>. SUFFICES ASSUME TypeOK, Inductive, NonNegative, [Next]_vars
                PROVE  NonNegative'
    OBVIOUS
  <2>1. CASE row' = row
    BY <2>1 DEF NonNegative
  <2>2. ASSUME NEW p \in Procs, Commit(p) \/ DatabaseCommits(p), req[p].wallet \in Wallets
        PROVE  NonNegative'
    <3>1. Apply(p) /\ pc[p] \in {"commit", "in_doubt"}
      BY <2>2 DEF Commit, DatabaseCommits
    <3>2. NewRow(p).balance >= 0 /\ NewRow(p).hold >= 0
      BY <3>1, WritesNoDebt
    <3>3. \A w \in Wallets : row'[w] = IF w = req[p].wallet THEN NewRow(p) ELSE row[w]
      BY <2>2, <3>1, RowAfterApply
    <3>. QED
      BY <3>2, <3>3 DEF NonNegative
  <2>. QED
    BY <2>1, <2>2, OnlyCommitWrites DEF Inductive
<1>. QED
  BY <1>1, <1>2, Invariance, PTL DEF Spec

\* What p's COMMIT does to each ledger, as a sequence.
LEMMA LedgerAfterApply ==
    ASSUME TypeOK, NEW p \in Procs, Apply(p), req[p].wallet \in Wallets,
           NEW w \in Wallets
    PROVE  /\ Len(ledger[w]) \in Nat
           /\ w # req[p].wallet => ledger'[w] = ledger[w]
           /\ w = req[p].wallet =>
                  /\ Len(ledger'[w]) = Len(ledger[w]) + 1
                  /\ ledger'[w][Len(ledger[w]) + 1] = NewEntry(p)
                  /\ \A i \in 1 .. Len(ledger[w]) : ledger'[w][i] = ledger[w][i]
<1>1. ledger[w] \in Seq(Entry)
  BY DEF TypeOK
<1>2. CASE w # req[p].wallet
  BY <1>1, <1>2 DEF Apply, TypeOK
<1>3. CASE w = req[p].wallet
  <2>1. ledger'[w] = Append(ledger[w], NewEntry(p)) /\ NewEntry(p) \in Entry
    BY <1>3, WrittenType DEF Apply, TypeOK
  <2>. QED
    BY <1>1, <1>3, <2>1
<1>. QED
  BY <1>2, <1>3

\* Each version of a row has exactly one entry in the ledger.
THEOREM EveryVersionIsAudited == Spec => []VersionCounts
<1>1. Init => VersionCounts
  BY DEF Init, VersionCounts
<1>2. TypeOK /\ Inductive /\ VersionCounts /\ [Next]_vars => VersionCounts'
  <2>. SUFFICES ASSUME TypeOK, Inductive, VersionCounts, [Next]_vars
                PROVE  VersionCounts'
    OBVIOUS
  <2>1. CASE row' = row /\ ledger' = ledger
    BY <2>1 DEF VersionCounts
  <2>2. ASSUME NEW p \in Procs, Commit(p) \/ DatabaseCommits(p), req[p].wallet \in Wallets
        PROVE  VersionCounts'
    <3>1. Apply(p)
      BY <2>2 DEF Commit, DatabaseCommits
    <3>2. \A w \in Wallets : row'[w] = IF w = req[p].wallet THEN NewRow(p) ELSE row[w]
      BY <2>2, <3>1, RowAfterApply
    <3>3. NewRow(p).version = row[req[p].wallet].version + 1
      BY DEF NewRow
    <3>4. ASSUME NEW w \in Wallets PROVE row'[w].version = Len(ledger'[w])
      <4>1. CASE w = req[p].wallet
        <5>1. Len(ledger'[w]) = Len(ledger[w]) + 1
          BY <2>2, <3>1, <4>1, LedgerAfterApply
        <5>. QED
          BY <3>2, <3>3, <4>1, <5>1 DEF VersionCounts
      <4>2. CASE w # req[p].wallet
        <5>1. ledger'[w] = ledger[w]
          BY <2>2, <3>1, <4>2, LedgerAfterApply
        <5>. QED
          BY <3>2, <4>2, <5>1 DEF VersionCounts
      <4>. QED
        BY <4>1, <4>2
    <3>. QED
      BY <3>4 DEF VersionCounts
  <2>. QED
    BY <2>1, <2>2, OnlyCommitWrites DEF Inductive
<1>. QED
  BY <1>1, <1>2, Invariance, PTL DEF Spec

\* The columns hold whole satang, whatever was asked.
RowsWhole == \A w \in Wallets : row[w].balance % 10 = 0 /\ row[w].hold % 10 = 0

LEMMA RowsStayWhole == Spec => []RowsWhole
<1>1. Init => RowsWhole
  BY WalletAssumption DEF Init, RowsWhole
<1>2. TypeOK /\ Inductive /\ RowsWhole /\ [Next]_vars => RowsWhole'
  <2>. SUFFICES ASSUME TypeOK, Inductive, RowsWhole, [Next]_vars
                PROVE  RowsWhole'
    OBVIOUS
  <2>1. CASE row' = row
    BY <2>1 DEF RowsWhole
  <2>2. ASSUME NEW p \in Procs, Commit(p) \/ DatabaseCommits(p), req[p].wallet \in Wallets
        PROVE  RowsWhole'
    <3>1. Apply(p)
      BY <2>2 DEF Commit, DatabaseCommits
    <3>2. /\ req[p] \in Requests /\ snap[p] \in Row
          /\ req[p].op \in Ops /\ req[p].amount \in Int
      BY RequestFields DEF TypeOK
    <3>3. Outcome(p).balance \in Int /\ Outcome(p).hold \in Int
      BY <3>2, EffectType DEF Outcome
    <3>4. NewRow(p).balance % 10 = 0 /\ NewRow(p).hold % 10 = 0
      BY <3>3, StoredIsWhole DEF NewRow
    <3>5. \A w \in Wallets : row'[w] = IF w = req[p].wallet THEN NewRow(p) ELSE row[w]
      BY <2>2, <3>1, RowAfterApply
    <3>. QED
      BY <3>4, <3>5 DEF RowsWhole
  <2>. QED
    BY <2>1, <2>2, OnlyCommitWrites DEF Inductive
<1>. QED
  BY <1>1, <1>2, Invariance, PTL DEF Spec

\* With whole amounts nothing is rounded: a COMMIT moves the balance by what its
\* entry says, and Hold and Release keep the total.
LEMMA ExactWrites ==
    ASSUME TypeOK, Inductive, RowsWhole, WholeSatang,
           NEW p \in Procs, pc[p] \in {"commit", "in_doubt"}
    PROVE  LET old == row[req[p].wallet]
               a == req[p].amount
           IN  /\ NewEntry(p).after = NewRow(p).balance
               /\ NewRow(p).balance = old.balance + NewEntry(p).amount
               /\ NewEntry(p).amount = IF req[p].op \in {"credit", "release"} THEN a ELSE -a
               /\ NewRow(p).hold = CASE req[p].op = "hold" -> old.hold + a
                                     [] req[p].op = "release" -> old.hold - a
                                     [] OTHER -> old.hold
<1>. DEFINE r == req[p]
            s == snap[p]
            e == Effect(r.op, s, r.amount)
<1>1. /\ r \in Requests
      /\ r.wallet \in Wallets
      /\ s = row[r.wallet]
  BY DEF Inductive, SnapshotCurrent, TypeOK
<1>2. /\ r.op \in Ops /\ r.amount \in Int /\ r.amount % 10 = 0
      /\ s.balance \in Int /\ s.hold \in Int
      /\ s.balance % 10 = 0 /\ s.hold % 10 = 0
  BY <1>1, RequestFields DEF TypeOK, RowsWhole, WholeSatang, Row
<1>. HIDE DEF r, s
<1>3. /\ e.balance = s.balance + e.amount
      /\ e.amount = IF r.op \in {"credit", "release"} THEN r.amount ELSE -r.amount
      /\ e.hold = CASE r.op = "hold" -> s.hold + r.amount
                    [] r.op = "release" -> s.hold - r.amount
                    [] OTHER -> s.hold
  <2>1. CASE r.op = "credit"
    BY <1>2, <2>1 DEF Effect, CreditEffect
  <2>2. CASE r.op = "debit"
    BY <1>2, <2>2 DEF Effect, DebitEffect
  <2>3. CASE r.op = "hold"
    BY <1>2, <2>3 DEF Effect, HoldEffect
  <2>4. CASE r.op = "release"
    BY <1>2, <2>4 DEF Effect, ReleaseEffect
  <2>. QED
    BY <1>2, <2>1, <2>2, <2>3, <2>4 DEF Ops
<1>. HIDE DEF e
<1>4. /\ e.amount \in Int /\ e.amount % 10 = 0
      /\ e.balance \in Int /\ e.balance % 10 = 0
      /\ e.hold \in Int /\ e.hold % 10 = 0
  <2>1. e.amount \in Int /\ e.amount % 10 = 0
    BY <1>2, <1>3
  <2>2. e.balance \in Int /\ e.balance % 10 = 0
    BY <1>2, <1>3, <2>1
  <2>3. e.hold \in Int /\ e.hold % 10 = 0
    <3>1. CASE r.op = "hold"
      BY <1>2, <1>3, <3>1
    <3>2. CASE r.op = "release"
      BY <1>2, <1>3, <3>2
    <3>3. CASE r.op \notin {"hold", "release"}
      BY <1>2, <1>3, <3>3
    <3>. QED
      BY <3>1, <3>2, <3>3
  <2>. QED
    BY <2>1, <2>2, <2>3
<1>5. /\ Stored(e.amount) = e.amount
      /\ Stored(e.balance) = e.balance
      /\ Stored(e.hold) = e.hold
  BY <1>4, StoredExactly
<1>6. e = Outcome(p)
  BY DEF Outcome, e, r, s
<1>7. /\ NewEntry(p).amount = e.amount
      /\ NewEntry(p).after = e.balance
      /\ NewRow(p).balance = e.balance
      /\ NewRow(p).hold = e.hold
  BY <1>5, <1>6 DEF NewEntry, NewRow
<1>. QED
  BY <1>1, <1>3, <1>7 DEF r

\* A ledger that explains a balance explains the next one after an entry that
\* starts where it ended.
LEMMA ExplainsNext ==
    ASSUME NEW w, NEW old \in Seq(Entry), NEW e \in Entry, NEW balance,
           Explains(w, old, balance), e.after = balance + e.amount
    PROVE  Explains(w, Append(old, e), e.after)
<1>. DEFINE n == Len(old)
            new == Append(old, e)
<1>0. /\ n \in Nat /\ Len(new) = n + 1 /\ new[n + 1] = e
      /\ \A i \in 1 .. n : new[i] = old[i]
  OBVIOUS
<1>. HIDE DEF n, new
<1>1. BalanceAfter(w, new, n + 1) = e.after
  BY <1>0 DEF BalanceAfter
<1>2. \A i \in 0 .. n : BalanceAfter(w, new, i) = BalanceAfter(w, old, i)
  BY <1>0 DEF BalanceAfter
<1>3. ASSUME NEW i \in 1 .. (n + 1)
      PROVE  new[i].after = BalanceAfter(w, new, i - 1) + new[i].amount
  <2>1. CASE i = n + 1
    <3>1. BalanceAfter(w, new, n) = balance
      BY <1>0, <1>2 DEF Explains, n
    <3>2. i - 1 = n
      BY <1>0, <2>1
    <3>. QED
      BY <1>0, <2>1, <3>1, <3>2
  <2>2. CASE i # n + 1
    <3>1. i \in 1 .. n /\ i - 1 \in 0 .. n
      BY <1>0, <2>2
    <3>. QED
      BY <1>0, <1>2, <3>1 DEF Explains, n
  <2>. QED
    BY <2>1, <2>2
<1>. QED
  BY <1>0, <1>1, <1>3 DEF Explains, new

\* The ledger explains every balance, when requests carry whole satang.
THEOREM LedgerExplainsBalance ==
    ASSUME WholeSatang
    PROVE  Spec => []AuditChain
<1>1. Init => AuditChain
  BY DEF Init, AuditChain, Explains, BalanceAfter
<1>2. TypeOK /\ Inductive /\ RowsWhole /\ AuditChain /\ [Next]_vars => AuditChain'
  <2>. SUFFICES ASSUME TypeOK, Inductive, RowsWhole, AuditChain, [Next]_vars
                PROVE  AuditChain'
    OBVIOUS
  <2>1. CASE row' = row /\ ledger' = ledger
    BY <2>1 DEF AuditChain
  <2>2. ASSUME NEW p \in Procs, Commit(p) \/ DatabaseCommits(p), req[p].wallet \in Wallets
        PROVE  AuditChain'
    <3>. SUFFICES ASSUME NEW w \in Wallets
                  PROVE  Explains(w, ledger'[w], row'[w].balance)
      BY DEF AuditChain
    <3>1. Apply(p) /\ pc[p] \in {"commit", "in_doubt"}
      BY <2>2 DEF Commit, DatabaseCommits
    <3>2. Explains(w, ledger[w], row[w].balance)
      BY DEF AuditChain
    <3>3. CASE w # req[p].wallet
      <4>1. row'[w] = row[w] /\ ledger'[w] = ledger[w]
        BY <2>2, <3>1, <3>3, RowAfterApply, LedgerAfterApply
      <4>. QED
        BY <3>2, <4>1
    <3>4. CASE w = req[p].wallet
      <4>1. /\ NewEntry(p).after = NewRow(p).balance
            /\ NewRow(p).balance = row[w].balance + NewEntry(p).amount
        BY <3>1, <3>4, ExactWrites
      <4>2. row'[w] = NewRow(p)
        BY <2>2, <3>1, <3>4, RowAfterApply
      <4>3. /\ ledger[w] \in Seq(Entry) /\ NewEntry(p) \in Entry
            /\ ledger'[w] = Append(ledger[w], NewEntry(p))
        BY <2>2, <3>1, <3>4, WrittenType DEF Apply, TypeOK
      <4>4. Explains(w, Append(ledger[w], NewEntry(p)), NewEntry(p).after)
        BY <3>2, <4>1, <4>3, ExplainsNext
      <4>. QED
        BY <4>1, <4>2, <4>3, <4>4
    <3>. QED
      BY <3>3, <3>4
  <2>. QED
    BY <2>1, <2>2, OnlyCommitWrites DEF Inductive
<1>. QED
  BY <1>1, <1>2, Invariance, RowsStayWhole, PTL DEF Spec

-----------------------------------------------------------------------------
(* Amounts of any precision                                                *)

\* What a COMMIT writes, of whatever amount: the entry tells the new balance,
\* and the rounding of balance, hold and entry differs by one satang at most.
LEMMA RoundedWrites ==
    ASSUME TypeOK, Inductive, RowsWhole, NonNegative,
           NEW p \in Procs, pc[p] \in {"commit", "in_doubt"}
    PROVE  LET old == row[req[p].wallet]
               e == NewEntry(p)
               told == IF e.op \in {"credit", "debit"} THEN e.amount ELSE 0
           IN  /\ e.after = NewRow(p).balance
               /\ \/ NewRow(p).balance = old.balance + e.amount
                  \/ /\ NewRow(p).balance = old.balance + e.amount + 10
                     /\ e.op \in {"debit", "hold"}
               /\ (NewRow(p).balance + NewRow(p).hold) - (old.balance + old.hold + told)
                      \in {0, 10}
<1>. DEFINE r == req[p]
            s == snap[p]
            a == r.amount
            b == s.balance
            h == s.hold
            newB == NewRow(p).balance
            newH == NewRow(p).hold
            e == NewEntry(p)
            told == IF r.op \in {"credit", "debit"} THEN e.amount ELSE 0
            Rounded == /\ \/ newB = b + e.amount
                          \/ newB = b + e.amount + 10 /\ r.op \in {"debit", "hold"}
                       /\ (newB + newH) - (b + h + told) \in {0, 10}
<1>1. /\ r \in Requests
      /\ r.wallet \in Wallets
      /\ s = row[r.wallet]
      /\ Covered(r.op, s, a)
      /\ a > 0
  BY DEF Inductive, SnapshotCurrent, TypeOK
<1>2. /\ r.op \in Ops /\ a \in Int
      /\ b \in Int /\ b % 10 = 0 /\ b >= 0
      /\ h \in Int /\ h % 10 = 0 /\ h >= 0
  BY <1>1, RequestFields DEF TypeOK, RowsWhole, NonNegative, Row
<1>3. /\ newB = Stored(Effect(r.op, s, a).balance)
      /\ newH = Stored(Effect(r.op, s, a).hold)
      /\ e.amount = Stored(Effect(r.op, s, a).amount)
      /\ e.after = newB
      /\ e.op = r.op
  BY DEF NewRow, NewEntry, Outcome
<1>4. /\ r.op \in {"debit", "hold"} => b >= a
      /\ r.op = "release" => h >= a
  BY <1>1 DEF Covered
<1>. HIDE DEF r, s, a, b, h, newB, newH, e
<1>5. /\ Stored(b) = b /\ Stored(h) = h
      /\ Stored(a) \in Int /\ Stored(-a) = -Stored(a)
      /\ Stored(b + a) = b + Stored(a)
      /\ Stored(h + a) = h + Stored(a)
  BY <1>1, <1>2, StoredExactly, StoredIsWhole, StoredNegates, StoredAdds
<1>6. /\ b >= a => Stored(b - a) - (b - Stored(a)) \in {0, 10}
      /\ h >= a => Stored(h - a) - (h - Stored(a)) \in {0, 10}
  BY <1>1, <1>2, StoredSubtracts
<1>7. Stored(b - a) \in Int /\ Stored(h - a) \in Int
  BY <1>2, StoredIsWhole
<1>8. ASSUME r.op = "credit" PROVE Rounded
  <2>1. newB = b + Stored(a) /\ newH = h /\ e.amount = Stored(a)
    BY <1>3, <1>5, <1>8 DEF Effect, CreditEffect, b, h
  <2>. QED
    BY <1>2, <1>5, <1>8, <2>1
<1>9. ASSUME r.op = "debit" PROVE Rounded
  <2>1. newB = Stored(b - a) /\ newH = h /\ e.amount = -Stored(a)
    BY <1>3, <1>5, <1>9 DEF Effect, DebitEffect, b, h
  <2>2. newB - (b - Stored(a)) \in {0, 10}
    BY <1>4, <1>6, <1>9, <2>1
  <2>3. newB = b - Stored(a) \/ newB = b - Stored(a) + 10
    BY <1>2, <1>5, <1>7, <2>1, <2>2
  <2>. QED
    BY <1>2, <1>5, <1>9, <2>1, <2>3
<1>10. ASSUME r.op = "hold" PROVE Rounded
  <2>1. newB = Stored(b - a) /\ newH = h + Stored(a) /\ e.amount = -Stored(a)
    BY <1>3, <1>5, <1>10 DEF Effect, HoldEffect, b, h
  <2>2. newB - (b - Stored(a)) \in {0, 10}
    BY <1>4, <1>6, <1>10, <2>1
  <2>3. newB = b - Stored(a) \/ newB = b - Stored(a) + 10
    BY <1>2, <1>5, <1>7, <2>1, <2>2
  <2>. QED
    BY <1>2, <1>5, <1>10, <2>1, <2>3
<1>11. ASSUME r.op = "release" PROVE Rounded
  <2>1. newB = b + Stored(a) /\ newH = Stored(h - a) /\ e.amount = Stored(a)
    BY <1>3, <1>5, <1>11 DEF Effect, ReleaseEffect, b, h
  <2>2. newH - (h - Stored(a)) \in {0, 10}
    BY <1>4, <1>6, <1>11, <2>1
  <2>3. newH = h - Stored(a) \/ newH = h - Stored(a) + 10
    BY <1>2, <1>5, <1>7, <2>1, <2>2
  <2>4. told = 0 /\ newB = b + e.amount
    BY <1>11, <2>1
  <2>5. (newB + newH) - (b + h + told) \in {0, 10}
    BY <1>2, <1>5, <2>1, <2>3, <2>4
  <2>. QED
    BY <2>4, <2>5
<1>12. Rounded
  BY <1>2, <1>8, <1>9, <1>10, <1>11 DEF Ops
<1>. QED
  BY <1>1, <1>3, <1>12 DEF r, s, b, h, newB, newH, e

\* A ledger that explains a balance but for the rounding explains the next one.
LEMMA ExplainsRoundedNext ==
    ASSUME NEW w, NEW old \in Seq(Entry), NEW e \in Entry, NEW balance \in Int,
           ExplainsRounded(w, old, balance),
           \/ e.after = balance + e.amount
           \/ e.after = balance + e.amount + 10 /\ e.op \in {"debit", "hold"}
    PROVE  ExplainsRounded(w, Append(old, e), e.after)
<1>. DEFINE n == Len(old)
            new == Append(old, e)
            Told(f, i) == \/ RoundingGain(w, f, i) = 0
                          \/ RoundingGain(w, f, i) = 10 /\ f[i].op \in {"debit", "hold"}
<1>0. /\ n \in Nat /\ Len(new) = n + 1 /\ new[n + 1] = e
      /\ \A i \in 1 .. n : new[i] = old[i]
  OBVIOUS
<1>a. e.amount \in Int /\ e.after \in Int
  BY DEF Entry
<1>b. balance = BalanceAfter(w, old, n) /\ \A i \in 1 .. n : Told(old, i)
  BY DEF ExplainsRounded
<1>. HIDE DEF n, new
<1>1. BalanceAfter(w, new, n + 1) = e.after
  BY <1>0 DEF BalanceAfter
<1>2. \A i \in 0 .. n : BalanceAfter(w, new, i) = BalanceAfter(w, old, i)
  BY <1>0 DEF BalanceAfter
<1>3. ASSUME NEW i \in 1 .. (n + 1)
      PROVE  Told(new, i)
  <2>1. CASE i = n + 1
    <3>1. BalanceAfter(w, new, i - 1) = balance
      <4>1. i - 1 = n
        BY <1>0, <2>1
      <4>. QED
        BY <1>0, <1>2, <1>b, <4>1
    <3>2. RoundingGain(w, new, i) = e.after - (balance + e.amount)
      BY <1>0, <2>1, <3>1 DEF RoundingGain
    <3>3. CASE e.after = balance + e.amount
      BY <1>a, <3>2, <3>3
    <3>4. CASE e.after = balance + e.amount + 10 /\ e.op \in {"debit", "hold"}
      BY <1>0, <1>a, <2>1, <3>2, <3>4
    <3>. QED
      BY <3>3, <3>4
  <2>2. CASE i # n + 1
    <3>1. i \in 1 .. n /\ i - 1 \in 0 .. n
      BY <1>0, <2>2
    <3>2. RoundingGain(w, new, i) = RoundingGain(w, old, i)
      BY <1>0, <1>2, <3>1 DEF RoundingGain
    <3>. QED
      BY <1>0, <1>b, <3>1, <3>2
  <2>. QED
    BY <2>1, <2>2
<1>. QED
  BY <1>0, <1>1, <1>3 DEF ExplainsRounded, new

\* Without a hypothesis on the amounts: entry by entry the ledger explains the
\* balance, up to one satang on an entry that debits or holds.
THEOREM LedgerDriftsByRoundingOnly == Spec => []AuditChainRounded
<1>1. Init => AuditChainRounded
  BY DEF Init, AuditChainRounded, ExplainsRounded, BalanceAfter
<1>2. /\ TypeOK /\ Inductive /\ RowsWhole /\ NonNegative
      /\ AuditChainRounded /\ [Next]_vars
      => AuditChainRounded'
  <2>. SUFFICES ASSUME TypeOK, Inductive, RowsWhole, NonNegative,
                       AuditChainRounded, [Next]_vars
                PROVE  AuditChainRounded'
    OBVIOUS
  <2>1. CASE row' = row /\ ledger' = ledger
    BY <2>1 DEF AuditChainRounded
  <2>2. ASSUME NEW p \in Procs, Commit(p) \/ DatabaseCommits(p), req[p].wallet \in Wallets
        PROVE  AuditChainRounded'
    <3>. SUFFICES ASSUME NEW w \in Wallets
                  PROVE  ExplainsRounded(w, ledger'[w], row'[w].balance)
      BY DEF AuditChainRounded
    <3>1. Apply(p) /\ pc[p] \in {"commit", "in_doubt"}
      BY <2>2 DEF Commit, DatabaseCommits
    <3>2. ExplainsRounded(w, ledger[w], row[w].balance)
      BY DEF AuditChainRounded
    <3>3. CASE w # req[p].wallet
      <4>1. row'[w] = row[w] /\ ledger'[w] = ledger[w]
        BY <2>2, <3>1, <3>3, RowAfterApply, LedgerAfterApply
      <4>. QED
        BY <3>2, <4>1
    <3>4. CASE w = req[p].wallet
      <4>1. /\ NewEntry(p).after = NewRow(p).balance
            /\ \/ NewRow(p).balance = row[w].balance + NewEntry(p).amount
               \/ /\ NewRow(p).balance = row[w].balance + NewEntry(p).amount + 10
                  /\ NewEntry(p).op \in {"debit", "hold"}
        BY <3>1, <3>4, RoundedWrites
      <4>2. row'[w] = NewRow(p)
        BY <2>2, <3>1, <3>4, RowAfterApply
      <4>3. /\ ledger[w] \in Seq(Entry) /\ NewEntry(p) \in Entry
            /\ ledger'[w] = Append(ledger[w], NewEntry(p))
            /\ row[w].balance \in Int
        BY <2>2, <3>1, <3>4, WrittenType DEF Apply, TypeOK, Row
      <4>4. ExplainsRounded(w, Append(ledger[w], NewEntry(p)), NewEntry(p).after)
        BY <3>2, <4>1, <4>3, ExplainsRoundedNext
      <4>. QED
        BY <4>1, <4>2, <4>3, <4>4
    <3>. QED
      BY <3>3, <3>4
  <2>. QED
    BY <2>1, <2>2, OnlyCommitWrites DEF Inductive
<1>. QED
  BY <1>1, <1>2, Invariance, RowsStayWhole, NeverNegative, PTL DEF Spec

\* Whatever is asked, no rounding takes money from a wallet, and none adds more
\* than one satang to it.
THEOREM NoMoneyIsRoundedAway == Spec => RoundingFavoursWallet
<1>. DEFINE Favours == \A w \in Wallets :
                row'[w] # row[w] =>
                    LET e == ledger'[w][Len(ledger'[w])]
                        total == row[w].balance + row[w].hold
                        total1 == row'[w].balance + row'[w].hold
                        told == IF e.op \in {"credit", "debit"} THEN e.amount ELSE 0
                    IN  /\ ledger'[w] = Append(ledger[w], e)
                        /\ total1 - (total + told) \in {0, 10}
<1>1. TypeOK /\ Inductive /\ RowsWhole /\ NonNegative /\ [Next]_vars => [Favours]_vars
  <2>. SUFFICES ASSUME TypeOK, Inductive, RowsWhole, NonNegative, [Next]_vars,
                       NEW w \in Wallets, row'[w] # row[w]
                PROVE  LET e == ledger'[w][Len(ledger'[w])]
                           total == row[w].balance + row[w].hold
                           total1 == row'[w].balance + row'[w].hold
                           told == IF e.op \in {"credit", "debit"} THEN e.amount ELSE 0
                       IN  /\ ledger'[w] = Append(ledger[w], e)
                           /\ total1 - (total + told) \in {0, 10}
    OBVIOUS
  <2>1. PICK p \in Procs : /\ Commit(p) \/ DatabaseCommits(p)
                           /\ req[p].wallet \in Wallets
    BY OnlyCommitWrites DEF Inductive
  <2>2. Apply(p) /\ pc[p] \in {"commit", "in_doubt"}
    BY <2>1 DEF Commit, DatabaseCommits
  <2>3. w = req[p].wallet
    BY <2>1, <2>2, RowAfterApply
  <2>4. /\ ledger[w] \in Seq(Entry) /\ NewEntry(p) \in Entry
        /\ ledger'[w] = Append(ledger[w], NewEntry(p))
        /\ row'[w] = NewRow(p)
    BY <2>1, <2>2, <2>3, WrittenType, RowAfterApply DEF Apply, TypeOK
  <2>5. ledger'[w][Len(ledger'[w])] = NewEntry(p)
    BY <2>4
  <2>. QED
    BY <2>2, <2>3, <2>4, <2>5, RoundedWrites
<1>. QED
  BY <1>1, Invariance, RowsStayWhole, NeverNegative, PTL DEF Spec, RoundingFavoursWallet

-----------------------------------------------------------------------------
(* Answers                                                                 *)

\* TruthfulReply with what makes it inductive: a request whose wallet does not
\* exist never posts, and entries of one ledger have different authors.
Honest ==
    /\ \A p \in Procs :
        /\ reply[p] = "ok" => LedgerEntryExists(req[p].ref)
        /\ reply[p] = "not_found" => req[p].wallet \notin Wallets
        /\ PostedBy(p) => req[p].wallet \in Wallets
    /\ \A w \in Wallets : \A i, j \in 1 .. Len(ledger[w]) :
        ledger[w][i].by = ledger[w][j].by => i = j

LEMMA HonestStep ==
    ASSUME TypeOK, Inductive, Honest, [Next]_vars
    PROVE  Honest'
<1>1. req' = req /\ SnapshotCurrent
  BY OnlyCommitWrites DEF Inductive
<1>2. ASSUME NEW p \in Procs, Commit(p) \/ DatabaseCommits(p) PROVE Honest'
  <2>1. Apply(p) /\ req[p].wallet \in Wallets /\ ~ PostedBy(p)
    BY <1>1, <1>2 DEF SnapshotCurrent, Commit, DatabaseCommits, Inductive
  <2>2. /\ PostedBy(p)'
        /\ \A q \in Procs : q # p => (PostedBy(q)' <=> PostedBy(q))
        /\ \A r : LedgerEntryExists(r)' <=> (LedgerEntryExists(r) \/ r = req[p].ref)
    BY <2>1, PostedAfterApply
  <2>3. ASSUME NEW q \in Procs
        PROVE  /\ reply'[q] = "ok" => LedgerEntryExists(req[q].ref)'
               /\ reply'[q] = "not_found" => req[q].wallet \notin Wallets
               /\ PostedBy(q)' => req[q].wallet \in Wallets
    <3>1. CASE q = p
      <4>1. reply'[q] # "not_found" \/ (reply'[q] = reply[q])
        BY <1>2, <3>1 DEF Commit, DatabaseCommits, Answer, TypeOK
      <4>. QED
        BY <1>1, <2>1, <2>2, <3>1, <4>1 DEF Honest
    <3>2. CASE q # p
      <4>1. reply'[q] = reply[q]
        BY <1>2, <3>2 DEF Commit, DatabaseCommits, Answer, TypeOK
      <4>. QED
        BY <1>1, <2>2, <3>2, <4>1 DEF Honest
    <3>. QED
      BY <3>1, <3>2
  <2>4. ASSUME NEW w \in Wallets,
               NEW i \in 1 .. Len(ledger'[w]), NEW j \in 1 .. Len(ledger'[w]),
               ledger'[w][i].by = ledger'[w][j].by
        PROVE  i = j
    <3>. DEFINE n == Len(ledger[w])
    <3>1. CASE w # req[p].wallet
      BY <2>1, <2>4, <3>1, LedgerAfterApply DEF Honest
    <3>2. CASE w = req[p].wallet
      <4>1. /\ n \in Nat
            /\ Len(ledger'[w]) = n + 1
            /\ ledger'[w][n + 1] = NewEntry(p)
            /\ \A k \in 1 .. n : ledger'[w][k] = ledger[w][k]
        BY <2>1, <3>2, LedgerAfterApply
      <4>2. NewEntry(p).by = p /\ \A k \in 1 .. n : ledger[w][k].by # p
        BY <2>1 DEF NewEntry, PostedBy, EntriesOf
      <4>3. CASE i \in 1 .. n /\ j \in 1 .. n
        BY <2>4, <4>1, <4>3 DEF Honest
      <4>4. CASE i \notin 1 .. n \/ j \notin 1 .. n
        <5>1. (i \in 1 .. n \/ i = n + 1) /\ (j \in 1 .. n \/ j = n + 1)
          BY <4>1
        <5>. QED
          BY <2>4, <4>1, <4>2, <4>4, <5>1
      <4>. QED
        BY <4>3, <4>4
    <3>. QED
      BY <3>1, <3>2
  <2>. QED
    BY <1>1, <2>3, <2>4 DEF Honest
<1>3. CASE ledger' = ledger
  <2>1. /\ \A q : PostedBy(q)' <=> PostedBy(q)
        /\ \A r : LedgerEntryExists(r)' <=> LedgerEntryExists(r)
    BY <1>3, PostedUnchanged
  <2>2. ASSUME NEW q \in Procs
        PROVE  \/ reply'[q] \in {reply[q], "none", "error"}
               \/ reply'[q] = "ok" /\ LedgerEntryExists(req[q].ref)
               \/ reply'[q] = "not_found" /\ req[q].wallet \notin Wallets
    <3>. USE DEF TypeOK, Answer
    <3>1. ASSUME NEW p \in Procs, Advance(p), ~ Commit(p)
          PROVE  \/ reply'[q] \in {reply[q], "none", "error"}
                 \/ reply'[q] = "ok" /\ LedgerEntryExists(req[q].ref)
                 \/ reply'[q] = "not_found" /\ req[q].wallet \notin Wallets
      BY <3>1 DEF Advance, Submit, CheckRef, AcquireLock, BeginTx, GetByIDForUpdate,
         WalletNotFound, UpdateBalanceInTx, CreateLedgerEntryInTx, Rollback, ReleaseLock
    <3>2. ASSUME NEW p \in Procs, Fault(p)
          PROVE  reply'[q] \in {reply[q], "none", "error"}
      BY <3>2 DEF Fault, AcquireLockFails, StatementFails, ReleaseLockFails, Crash
    <3>3. ASSUME NEW p \in Procs, Database(p)
          PROVE  reply' = reply
      BY <3>3 DEF Database, DatabaseCommits, DatabaseAborts
    <3>4. CASE (\E w \in Ids : LockExpires(w)) \/ UNCHANGED vars
      BY <3>4 DEF LockExpires, vars
    <3>5. ASSUME NEW p \in Procs, Commit(p) PROVE FALSE
      <4>1. Apply(p) /\ req[p].wallet \in Wallets
        BY <1>1, <3>5 DEF SnapshotCurrent, Commit
      <4>. QED
        BY <1>3, <4>1, LedgerAfterApply
    <3>. QED
      BY <3>1, <3>2, <3>3, <3>4, <3>5 DEF Next
  <2>. QED
    BY <1>1, <1>3, <2>1, <2>2 DEF Honest
<1>. QED
  BY <1>2, <1>3, OnlyCommitWrites DEF Inductive

LEMMA Honesty == Spec => []Honest
<1>1. Init => Honest
  BY DEF Init, Honest, PostedBy, EntriesOf
<1>2. TypeOK /\ Inductive /\ Honest /\ [Next]_vars => Honest'
  BY HonestStep
<1>. QED
  BY <1>1, <1>2, Invariance, PTL DEF Spec

\* What a client is told is so, and no request is posted twice.
THEOREM RepliesAreTruthful == Spec => []TruthfulReply
<1>1. Honest => TruthfulReply
  BY DEF Honest, TruthfulReply
<1>. QED
  BY <1>1, Honesty, PTL

-----------------------------------------------------------------------------
(* Steps                                                                   *)

\* A request deletes only a Redis key that still holds its own value.
THEOREM LocksAreReleasedByTheirHolder == Spec => OnlyOwnLockReleased
<1>. DEFINE Own == \A w \in Ids, p \in Procs :
                lock[w] # NoProc /\ lock'[w] # lock[w] /\ pc'[p] # pc[p] => lock[w] = p
<1>1. TypeOK /\ [Next]_vars => [Own]_vars
  <2>. SUFFICES ASSUME TypeOK, [Next]_vars,
                       NEW w \in Ids, NEW q \in Procs,
                       lock[w] # NoProc, lock'[w] # lock[w], pc'[q] # pc[q]
                PROVE  lock[w] = q
    OBVIOUS
  <2>. USE DEF TypeOK, Goto
  <2>1. ASSUME NEW p \in Procs, Advance(p) PROVE lock[w] = q
    <3>1. CASE ReleaseLock(p)
      BY <3>1 DEF ReleaseLock
    <3>2. CASE AcquireLock(p)
      BY <3>2 DEF AcquireLock
    <3>3. CASE ~ ReleaseLock(p) /\ ~ AcquireLock(p)
      BY <2>1, <3>3 DEF Advance, Submit, CheckRef, BeginTx, GetByIDForUpdate,
         WalletNotFound, UpdateBalanceInTx, CreateLedgerEntryInTx, Commit, Rollback
    <3>. QED
      BY <3>1, <3>2, <3>3
  <2>2. ASSUME NEW p \in Procs, Fault(p) PROVE lock[w] = q
    BY <2>2 DEF Fault, AcquireLockFails, StatementFails, ReleaseLockFails, Crash
  <2>3. ASSUME NEW p \in Procs, Database(p) PROVE lock[w] = q
    BY <2>3 DEF Database, DatabaseCommits, DatabaseAborts
  <2>4. CASE (\E v \in Ids : LockExpires(v)) \/ UNCHANGED vars
    BY <2>4 DEF LockExpires, vars
  <2>. QED
    BY <2>1, <2>2, <2>3, <2>4 DEF Next
<1>. QED
  BY <1>1, TypeCorrect, PTL DEF Spec, OnlyOwnLockReleased

\* With whole satang every movement of money is one entry of the same amount,
\* and Hold and Release keep the total of a wallet.
THEOREM MoneyIsJournalled ==
    ASSUME WholeSatang
    PROVE  Spec => MoneyMovesWithEntry
<1>. DEFINE Moves == \A w \in Wallets :
                (row'[w] # row[w] \/ ledger'[w] # ledger[w]) => EntryFor(w)
<1>1. TypeOK /\ Inductive /\ RowsWhole /\ [Next]_vars => [Moves]_vars
  <2>. SUFFICES ASSUME TypeOK, Inductive, RowsWhole, [Next]_vars,
                       NEW w \in Wallets, row'[w] # row[w] \/ ledger'[w] # ledger[w]
                PROVE  EntryFor(w)
    OBVIOUS
  <2>1. PICK p \in Procs : /\ Commit(p) \/ DatabaseCommits(p)
                           /\ req[p].wallet \in Wallets
    BY OnlyCommitWrites DEF Inductive
  <2>2. Apply(p) /\ pc[p] \in {"commit", "in_doubt"}
    BY <2>1 DEF Commit, DatabaseCommits
  <2>3. w = req[p].wallet
    BY <2>1, <2>2, RowAfterApply, LedgerAfterApply
  <2>4. /\ ledger[w] \in Seq(Entry) /\ NewEntry(p) \in Entry
        /\ ledger'[w] = Append(ledger[w], NewEntry(p))
        /\ row'[w] = NewRow(p)
    BY <2>1, <2>2, <2>3, WrittenType, RowAfterApply DEF Apply, TypeOK
  <2>5. /\ Len(ledger'[w]) = Len(ledger[w]) + 1
        /\ ledger'[w][Len(ledger'[w])] = NewEntry(p)
    BY <2>4
  <2>6. /\ NewEntry(p).op = req[p].op
        /\ req[p] \in Requests
        /\ row[w] \in Row
    BY DEF NewEntry, TypeOK
  <2>7. /\ req[p].op \in Ops /\ req[p].amount \in Int
        /\ row[w].balance \in Int /\ row[w].hold \in Int
    BY <2>6, RequestFields DEF Row
  <2>8. /\ NewRow(p).balance = row[w].balance + NewEntry(p).amount
        /\ NewRow(p).balance + NewRow(p).hold =
               row[w].balance + row[w].hold
                   + (IF NewEntry(p).op \in {"credit", "debit"} THEN NewEntry(p).amount ELSE 0)
    <3>1. /\ NewRow(p).balance = row[w].balance + NewEntry(p).amount
          /\ NewEntry(p).amount =
                 IF req[p].op \in {"credit", "release"} THEN req[p].amount ELSE -req[p].amount
          /\ NewRow(p).hold = CASE req[p].op = "hold" -> row[w].hold + req[p].amount
                                [] req[p].op = "release" -> row[w].hold - req[p].amount
                                [] OTHER -> row[w].hold
      BY <2>2, <2>3, ExactWrites
    <3>2. CASE req[p].op \in {"credit", "debit"}
      BY <2>6, <2>7, <3>1, <3>2
    <3>3. CASE req[p].op = "hold"
      BY <2>6, <2>7, <3>1, <3>3
    <3>4. CASE req[p].op = "release"
      BY <2>6, <2>7, <3>1, <3>4
    <3>. QED
      BY <2>7, <3>2, <3>3, <3>4 DEF Ops
  <2>. QED
    BY <2>4, <2>5, <2>8 DEF EntryFor
<1>. QED
  BY <1>1, Invariance, RowsStayWhole, PTL DEF Spec, MoneyMovesWithEntry

-----------------------------------------------------------------------------
(* Refinement                                                              *)

\* A request that is over has its answer, and an entry bears the reference of
\* the request that wrote it.
Answered ==
    \A p \in Procs : pc[p] \in {"rollback", "unlock", "done"} => reply[p] # "none"

Signed ==
    \A w \in Wallets : \A e \in EntriesOf(w) : e.by \in Procs /\ e.ref = req[e.by].ref

LEMMA AnsweredStep ==
    ASSUME TypeOK, Answered, [Next]_vars
    PROVE  Answered'
<1>. USE DEF TypeOK, Answered, Goto, Answer
<1>1. ASSUME NEW p \in Procs, Submit(p) \/ CheckRef(p) \/ AcquireLock(p) PROVE Answered'
  BY <1>1 DEF Submit, CheckRef, AcquireLock
<1>2. ASSUME NEW p \in Procs, BeginTx(p) \/ GetByIDForUpdate(p) \/ WalletNotFound(p)
      PROVE  Answered'
  BY <1>2 DEF BeginTx, GetByIDForUpdate, WalletNotFound
<1>3. ASSUME NEW p \in Procs, UpdateBalanceInTx(p) \/ CreateLedgerEntryInTx(p) \/ Commit(p)
      PROVE  Answered'
  BY <1>3 DEF UpdateBalanceInTx, CreateLedgerEntryInTx, Commit
<1>4. ASSUME NEW p \in Procs, Rollback(p) \/ ReleaseLock(p) PROVE Answered'
  BY <1>4 DEF Rollback, ReleaseLock
<1>5. ASSUME NEW p \in Procs, AcquireLockFails(p) \/ ReleaseLockFails(p) PROVE Answered'
  BY <1>5 DEF AcquireLockFails, ReleaseLockFails
<1>6. ASSUME NEW p \in Procs, StatementFails(p) \/ Crash(p) PROVE Answered'
  BY <1>6 DEF StatementFails, Crash
<1>7. ASSUME NEW p \in Procs, Database(p) PROVE Answered'
  BY <1>7 DEF Database, DatabaseCommits, DatabaseAborts
<1>8. CASE (\E w \in Ids : LockExpires(w)) \/ UNCHANGED vars
  BY <1>8 DEF LockExpires, vars
<1>. QED
  BY <1>1, <1>2, <1>3, <1>4, <1>5, <1>6, <1>7, <1>8 DEF Next, Advance, Fault

LEMMA SignedStep ==
    ASSUME TypeOK, Inductive, Signed, [Next]_vars
    PROVE  Signed'
<1>1. req' = req
  BY OnlyCommitWrites DEF Inductive
<1>2. CASE ledger' = ledger
  BY <1>1, <1>2 DEF Signed, EntriesOf
<1>3. ASSUME NEW p \in Procs, Commit(p) \/ DatabaseCommits(p), req[p].wallet \in Wallets
      PROVE  Signed'
  <2>1. Apply(p)
    BY <1>3 DEF Commit, DatabaseCommits
  <2>2. \A w \in Wallets : EntriesOf(w)' \subseteq EntriesOf(w) \cup {NewEntry(p)}
    BY <1>3, <2>1, EntriesAfterApply
  <2>3. NewEntry(p).by = p /\ NewEntry(p).ref = req[p].ref
    BY DEF NewEntry
  <2>. QED
    BY <1>1, <2>2, <2>3 DEF Signed
<1>. QED
  BY <1>2, <1>3, OnlyCommitWrites DEF Inductive

LEMMA AnswersAndSignatures == Spec => [](Answered /\ Signed)
<1>1. Init => Answered /\ Signed
  BY DEF Init, Answered, Signed, EntriesOf
<1>2. TypeOK /\ Inductive /\ Answered /\ Signed /\ [Next]_vars => (Answered /\ Signed)'
  BY AnsweredStep, SignedStep
<1>. QED
  BY <1>1, <1>2, Invariance, PTL DEF Spec

\* A COMMIT is the instant at which the promised request takes effect.
LEMMA CommitIsPost ==
    ASSUME TypeOK, Inductive, RowsWhole, NonNegative, WholeSatang, req' = req,
           NEW p \in Procs, Commit(p) \/ DatabaseCommits(p)
    PROVE  Atomic!Post(p)
<1>. DEFINE r == req[p]
            w == r.wallet
<1>1. /\ Apply(p)
      /\ pc[p] \in {"commit", "in_doubt"}
      /\ w \in Wallets
      /\ r.amount > 0
      /\ ~ PostedBy(p)
  BY DEF Commit, DatabaseCommits, Inductive, SnapshotCurrent
<1>2. /\ PostedBy(p)'
      /\ \A q \in Procs : q # p => (PostedBy(q)' <=> PostedBy(q))
  BY <1>1, PostedAfterApply
<1>3. {q \in Procs : PostedBy(q)}' = {q \in Procs : PostedBy(q)} \cup {p}
  BY <1>2
<1>4. \A v \in Wallets : row'[v] = IF v = w THEN NewRow(p) ELSE row[v]
  BY <1>1, RowAfterApply
<1>5. r \in Requests /\ r.op \in Ops /\ r.amount \in Int
      /\ row[w].balance \in Int /\ row[w].hold \in Int
  BY <1>1, RequestFields DEF TypeOK, Row
<1>6. /\ NewRow(p).balance = IF r.op \in {"credit", "release"} THEN row[w].balance + r.amount
                                                               ELSE row[w].balance - r.amount
      /\ NewRow(p).hold = CASE r.op = "hold" -> row[w].hold + r.amount
                            [] r.op = "release" -> row[w].hold - r.amount
                            [] OTHER -> row[w].hold
  <2>1. /\ NewRow(p).balance = row[w].balance + NewEntry(p).amount
        /\ NewEntry(p).amount = IF r.op \in {"credit", "release"} THEN r.amount ELSE -r.amount
        /\ NewRow(p).hold = CASE r.op = "hold" -> row[w].hold + r.amount
                              [] r.op = "release" -> row[w].hold - r.amount
                              [] OTHER -> row[w].hold
    BY <1>1, ExactWrites
  <2>. QED
    BY <1>5, <2>1
<1>7. NewRow(p).balance >= 0 /\ NewRow(p).hold >= 0
  BY <1>1, WritesNoDebt
<1>8. /\ [v \in Wallets |-> row[v].balance]' =
             [[v \in Wallets |-> row[v].balance] EXCEPT ![w] = NewRow(p).balance]
      /\ [v \in Wallets |-> row[v].hold]' =
             [[v \in Wallets |-> row[v].hold] EXCEPT ![w] = NewRow(p).hold]
  BY <1>1, <1>4
<1>9. Atomic!BalanceAfter(r) = NewRow(p).balance /\ Atomic!HeldAfter(r) = NewRow(p).hold
  BY <1>1, <1>6 DEF Atomic!BalanceAfter, Atomic!HeldAfter
<1>10. [q \in Procs |-> IF pc[q] = "done" THEN reply[q] ELSE "none"]' =
           [q \in Procs |-> IF pc[q] = "done" THEN reply[q] ELSE "none"]
  BY DEF Commit, DatabaseCommits, Goto, Answer, TypeOK
<1>11. pc[p] # "done"
  BY <1>1
<1>. QED
  BY <1>1, <1>3, <1>7, <1>8, <1>9, <1>10, <1>11 DEF Atomic!Post

\* Any other step tells at most one client something, and nothing untrue.
LEMMA OtherStepsReply ==
    ASSUME TypeOK, Inductive, Honest, Honest', Answered', Signed, [Next]_vars,
           row' = row, ledger' = ledger, req' = req
    PROVE  (\E p \in Procs : Atomic!Reply(p)) \/ UNCHANGED Atomic!vars
<1>. DEFINE told == [q \in Procs |-> IF pc[q] = "done" THEN reply[q] ELSE "none"]
<1>1. /\ [v \in Wallets |-> row[v].balance]' = [v \in Wallets |-> row[v].balance]
      /\ [v \in Wallets |-> row[v].hold]' = [v \in Wallets |-> row[v].hold]
      /\ {q \in Procs : PostedBy(q)}' = {q \in Procs : PostedBy(q)}
  BY DEF PostedBy, EntriesOf
<1>2. CASE told' = told
  BY <1>1, <1>2 DEF Atomic!vars
<1>3. ASSUME NEW p \in Procs, pc[p] # "done", pc'[p] = "done",
             \A q \in Procs : q # p => pc'[q] = pc[q] /\ reply'[q] = reply[q]
      PROVE  Atomic!Reply(p)
  <2>1. /\ told[p] = "none"
        /\ told' = [told EXCEPT ![p] = reply'[p]]
    BY <1>3
  <2>2. reply'[p] \in {"ok", "not_found", "error"}
    <3>1. TypeOK'
      BY TypeStep DEF Inductive
    <3>. QED
      BY <1>3, <3>1 DEF Answered, TypeOK, Replies
  <2>3. ASSUME reply'[p] = "ok"
        PROVE  \E q \in {q \in Procs : PostedBy(q)} : req[q].ref = req[p].ref
    <3>1. LedgerEntryExists(req[p].ref)
      BY <2>3 DEF Honest, LedgerEntryExists, EntriesOf
    <3>. QED
      BY <3>1 DEF LedgerEntryExists, Signed, PostedBy
  <2>4. reply'[p] = "not_found" => req[p].wallet \notin Wallets
    BY DEF Honest
  <2>. QED
    BY <1>1, <2>1, <2>2, <2>3, <2>4 DEF Atomic!Reply
<1>4. \/ told' = told
      \/ \E p \in Procs : /\ pc[p] # "done" /\ pc'[p] = "done"
                          /\ \A q \in Procs : q # p => pc'[q] = pc[q] /\ reply'[q] = reply[q]
  <2>. USE DEF TypeOK, Goto, Answer
  <2>1. ASSUME NEW p \in Procs, Advance(p) \/ Fault(p) \/ Database(p)
        PROVE  /\ pc[p] # "done"
               /\ \A q \in Procs : q # p => pc'[q] = pc[q] /\ reply'[q] = reply[q]
    <3>1. CASE Advance(p)
      BY <3>1 DEF Advance, Submit, CheckRef, AcquireLock, BeginTx, GetByIDForUpdate,
         WalletNotFound, UpdateBalanceInTx, CreateLedgerEntryInTx, Commit, Rollback, ReleaseLock
    <3>2. CASE Fault(p)
      BY <3>2 DEF Fault, AcquireLockFails, StatementFails, ReleaseLockFails, Crash
    <3>3. CASE Database(p)
      BY <3>3 DEF Database, DatabaseCommits, DatabaseAborts
    <3>. QED
      BY <2>1, <3>1, <3>2, <3>3
  <2>2. CASE (\E w \in Ids : LockExpires(w)) \/ UNCHANGED vars
    BY <2>2 DEF LockExpires, vars
  <2>3. ASSUME NEW p \in Procs, Advance(p) \/ Fault(p) \/ Database(p), pc'[p] # "done"
        PROVE  told' = told
    BY <2>1, <2>3
  <2>. QED
    BY <2>1, <2>2, <2>3 DEF Next
<1>. QED
  BY <1>2, <1>3, <1>4

\* With whole satang the service implements the atomic wallet.
THEOREM WalletKeepsPromise ==
    ASSUME WholeSatang
    PROVE  Spec => KeepsPromise
<1>1. Init => Atomic!Init
  BY DEF Init, Atomic!Init, PostedBy, EntriesOf
<1>2. (TypeOK /\ Inductive /\ RowsWhole /\ NonNegative /\ Honest /\ Honest' /\ Answered'
         /\ Signed /\ [Next]_vars) => [Atomic!Next]_Atomic!vars
  <2>. SUFFICES ASSUME TypeOK, Inductive, RowsWhole, NonNegative,
                       Honest, Honest', Answered', Signed, [Next]_vars
                PROVE  [Atomic!Next]_Atomic!vars
    OBVIOUS
  <2>1. req' = req
    BY OnlyCommitWrites DEF Inductive
  <2>2. ASSUME NEW p \in Procs, Commit(p) \/ DatabaseCommits(p)
        PROVE  [Atomic!Next]_Atomic!vars
    BY <2>1, <2>2, CommitIsPost DEF Atomic!Next
  <2>3. CASE row' = row /\ ledger' = ledger
    BY <2>1, <2>3, OtherStepsReply DEF Atomic!Next
  <2>. QED
    BY <2>2, <2>3, OnlyCommitWrites DEF Inductive
<1>. QED
  BY <1>1, <1>2, Invariance, RowsStayWhole, NeverNegative, Honesty,
     AnswersAndSignatures, PTL
     DEF Spec, KeepsPromise, Atomic!Spec

-----------------------------------------------------------------------------
(* What clients take for granted                                           *)

\* The constants that Wallet gives WalletCalls satisfy the assumption of that
\* module.
LEMMA PricesArePositive ==
    ASSUME ClientsOfMerchant
    PROVE  /\ Merchant \in Wallets
           /\ Opening[Merchant].balance \in Nat
           /\ Price \in [Refs -> Nat \ {0}]
<1>1. Merchant \in Wallets
  BY DEF ClientsOfMerchant, Merchant
<1>2. ASSUME NEW ref \in Refs PROVE Price[ref] \in Nat \ {0}
  <2>1. CASE RequestsFor(ref) = {}
    BY <2>1 DEF Price
  <2>2. CASE RequestsFor(ref) # {}
    <3>1. PICK r \in RequestsFor(ref) : r = (CHOOSE x \in RequestsFor(ref) : TRUE)
      BY <2>2
    <3>2. r \in Requests /\ r.wallet = Merchant
      BY DEF RequestsFor
    <3>3. r.amount \in Int /\ r.amount > 0
      BY <3>2, RequestFields DEF ClientsOfMerchant
    <3>. QED
      BY <2>2, <3>1, <3>3 DEF Price
  <2>. QED
    BY <2>1, <2>2
<1>. QED
  BY <1>1, <1>2, WalletAssumption DEF Price

InServiceOf(p) == req[p].wallet = Merchant /\ pc[p] \in InService

\* A step of p moves at most its own call into flight or out of it.
LEMMA FlightAfterStep ==
    ASSUME NEW p \in Procs, req' = req,
           \A q \in Procs : q # p => pc'[q] = pc[q]
    PROVE  /\ (InServiceOf(p)' <=> InServiceOf(p)) => InFlight' = InFlight
           /\ ~ InServiceOf(p) /\ InServiceOf(p)' => InFlight' = InFlight \cup {CallOf(p)}
           /\ InServiceOf(p) /\ ~ InServiceOf(p)' =>
                  CallOf(p) \in InFlight /\ InFlight' = InFlight \ {CallOf(p)}
<1>1. \A q \in Procs : CallOf(q)' = CallOf(q) /\ CallOf(q).by = q
  BY DEF CallOf
<1>2. \A q \in Procs : q # p => (InServiceOf(q)' <=> InServiceOf(q))
  BY DEF InServiceOf
<1>3. InFlight = {CallOf(q) : q \in {x \in Procs : InServiceOf(x)}}
  BY DEF InFlight, InServiceOf
<1>4. InFlight' = {CallOf(q) : q \in {x \in Procs : InServiceOf(x)'}}
  BY <1>1 DEF InFlight, InServiceOf
<1>. QED
  BY <1>1, <1>2, <1>3, <1>4

LEMMA TakenAfterApply ==
    ASSUME TypeOK, NEW p \in Procs, Apply(p), req[p].wallet \in Wallets,
           Merchant \in Wallets
    PROVE  Taken' = IF req[p].wallet = Merchant THEN Taken \cup {CallOf(p)} ELSE Taken
<1>1. EntriesOf(Merchant)' = IF req[p].wallet = Merchant
                               THEN EntriesOf(Merchant) \cup {NewEntry(p)}
                               ELSE EntriesOf(Merchant)
  <2>1. \A w \in Wallets : EntriesOf(w)' = IF w = req[p].wallet
                                            THEN EntriesOf(w) \cup {NewEntry(p)}
                                            ELSE EntriesOf(w)
    BY EntriesAfterApply
  <2>. QED
    BY <2>1
<1>2. CallOf(p) = [ref |-> NewEntry(p).ref, op |-> NewEntry(p).op, by |-> NewEntry(p).by]
  BY DEF CallOf, NewEntry
<1>. QED
  BY <1>1, <1>2 DEF Taken

LEMMA MerchantCall ==
    ASSUME TypeOK, ClientsOfMerchant, NEW p \in Procs, req[p].wallet = Merchant
    PROVE  /\ CallOf(p) \in Calls!Call
           /\ CallOf(p).op = req[p].op
           /\ req[p].op \in {"credit", "debit"}
           /\ req[p].amount = Price[CallOf(p).ref]
<1>1. req[p] \in Requests
  BY DEF TypeOK
<1>. QED
  BY <1>1, RequestFields DEF CallOf, Calls!Call, ClientsOfMerchant

\* A COMMIT settles the call of a client of the merchant, and nothing else.
LEMMA CommitIsSettle ==
    ASSUME TypeOK, Inductive, RowsWhole, NonNegative, WholeSatang, ClientsOfMerchant,
           req' = req, NEW p \in Procs, Commit(p) \/ DatabaseCommits(p)
    PROVE  Calls!WalletStep \/ UNCHANGED Calls!walletVars
<1>1. /\ Apply(p)
      /\ pc[p] \in {"commit", "in_doubt"}
      /\ pc'[p] \in {"unlock", "crashed"}
      /\ \A q \in Procs : q # p => pc'[q] = pc[q]
      /\ req[p].wallet \in Wallets
      /\ Merchant \in Wallets
      /\ Covered(req[p].op, snap[p], req[p].amount)
      /\ snap[p] = row[req[p].wallet]
  BY PricesArePositive
     DEF Commit, DatabaseCommits, Inductive, SnapshotCurrent, Goto, TypeOK
<1>2. \A v \in Wallets : row'[v] = IF v = req[p].wallet THEN NewRow(p) ELSE row[v]
  BY <1>1, RowAfterApply
<1>3. CASE req[p].wallet # Merchant
  <2>1. InFlight' = InFlight
    BY <1>1, <1>3, FlightAfterStep DEF InServiceOf
  <2>2. Taken' = Taken
    BY <1>1, <1>3, TakenAfterApply
  <2>3. row'[Merchant].balance = row[Merchant].balance
    BY <1>1, <1>2, <1>3
  <2>. QED
    BY <2>1, <2>2, <2>3 DEF Calls!walletVars
<1>4. CASE req[p].wallet = Merchant
  <2>. DEFINE c == CallOf(p)
  <2>1. c \in InFlight /\ InFlight' = InFlight \ {c}
    BY <1>1, <1>4, FlightAfterStep DEF InServiceOf, InService
  <2>2. Taken' = Taken \cup {c}
    BY <1>1, <1>4, TakenAfterApply
  <2>3. /\ c.op = req[p].op /\ req[p].op \in {"credit", "debit"}
        /\ req[p].amount = Price[c.ref]
    BY <1>4, MerchantCall
  <2>4. /\ req[p].amount \in Int
        /\ row[Merchant].balance \in Int
    BY <1>1, RequestFields DEF TypeOK, Row
  <2>5. row'[Merchant].balance = row[Merchant].balance + NewEntry(p).amount
    BY <1>1, <1>2, <1>4, ExactWrites
  <2>6. NewEntry(p).amount = IF req[p].op \in {"credit", "release"} THEN req[p].amount
                                                                  ELSE -req[p].amount
    BY <1>1, ExactWrites
  <2>7. row'[Merchant].balance = IF c.op = "debit"
                                   THEN row[Merchant].balance - Price[c.ref]
                                   ELSE row[Merchant].balance + Price[c.ref]
    BY <2>3, <2>4, <2>5, <2>6
  <2>8. c.op = "debit" => row[Merchant].balance >= Price[c.ref]
    BY <1>1, <1>4, <2>3 DEF Covered
  <2>9. Calls!Settle(c)
    BY <2>1, <2>2, <2>7, <2>8 DEF Calls!Settle, Calls!Affordable
  <2>. QED
    BY <2>1, <2>9 DEF Calls!WalletStep
<1>. QED
  BY <1>3, <1>4

\* Any other step takes at most one call into service, while its reference is
\* new, or lets go of one that moved nothing.
LEMMA OtherStepsServe ==
    ASSUME TypeOK, ClientsOfMerchant, [Next]_vars,
           row' = row, ledger' = ledger, req' = req
    PROVE  \/ \E c \in Calls!Call : Calls!Accept(c)
           \/ Calls!WalletStep
           \/ UNCHANGED Calls!walletVars
<1>1. row'[Merchant].balance = row[Merchant].balance /\ Taken' = Taken
  BY DEF Taken, EntriesOf
<1>2. CASE InFlight' = InFlight
  BY <1>1, <1>2 DEF Calls!walletVars
<1>3. ASSUME NEW p \in Procs, InServiceOf(p), ~ InServiceOf(p)',
             \A q \in Procs : q # p => pc'[q] = pc[q]
      PROVE  Calls!WalletStep
  BY <1>1, <1>3, FlightAfterStep DEF Calls!WalletStep, Calls!Refuse
<1>4. ASSUME NEW p \in Procs, ~ InServiceOf(p), InServiceOf(p)', CheckRef(p),
             \A q \in Procs : q # p => pc'[q] = pc[q]
      PROVE  \E c \in Calls!Call : Calls!Accept(c)
  <2>1. req[p].wallet = Merchant /\ Merchant \in Wallets
    BY <1>4, PricesArePositive DEF InServiceOf
  <2>2. ~ LedgerEntryExists(req[p].ref)
    BY <1>4 DEF CheckRef, InServiceOf, InService, Goto, TypeOK
  <2>3. ~ Calls!Posted(CallOf(p).ref)
    BY <2>1, <2>2 DEF Calls!Posted, LedgerEntryExists, Taken, CallOf
  <2>4. InFlight' = InFlight \cup {CallOf(p)}
    BY <1>4, FlightAfterStep
  <2>. QED
    BY <1>1, <2>1, <2>3, <2>4, MerchantCall DEF Calls!Accept
<1>5. ASSUME NEW p \in Procs, Advance(p) \/ Fault(p) \/ Database(p)
      PROVE  /\ \A q \in Procs : q # p => pc'[q] = pc[q]
             /\ pc[p] \notin InService /\ pc'[p] \in InService => CheckRef(p)
  <2>. USE DEF TypeOK, Goto, InService
  <2>1. CASE Advance(p)
    BY <2>1 DEF Advance, Submit, CheckRef, AcquireLock, BeginTx, GetByIDForUpdate,
       WalletNotFound, UpdateBalanceInTx, CreateLedgerEntryInTx, Commit, Rollback, ReleaseLock
  <2>2. CASE Fault(p)
    BY <2>2 DEF Fault, AcquireLockFails, StatementFails, ReleaseLockFails, Crash
  <2>3. CASE Database(p)
    BY <2>3 DEF Database, DatabaseCommits, DatabaseAborts
  <2>. QED
    BY <1>5, <2>1, <2>2, <2>3
<1>6. ASSUME NEW p \in Procs, Advance(p) \/ Fault(p) \/ Database(p)
      PROVE  \/ \E c \in Calls!Call : Calls!Accept(c)
             \/ Calls!WalletStep
             \/ UNCHANGED Calls!walletVars
  <2>1. CASE InServiceOf(p)' <=> InServiceOf(p)
    BY <1>2, <1>5, <1>6, <2>1, FlightAfterStep
  <2>2. CASE InServiceOf(p) /\ ~ InServiceOf(p)'
    BY <1>3, <1>5, <1>6, <2>2
  <2>3. CASE ~ InServiceOf(p) /\ InServiceOf(p)'
    <3>1. CheckRef(p)
      BY <1>5, <1>6, <2>3 DEF InServiceOf
    <3>. QED
      BY <1>4, <1>5, <1>6, <2>3, <3>1
  <2>. QED
    BY <2>1, <2>2, <2>3
<1>7. CASE (\E w \in Ids : LockExpires(w)) \/ UNCHANGED vars
  <2>1. pc' = pc
    BY <1>7 DEF LockExpires, vars
  <2>2. InFlight' = InFlight
    BY <2>1 DEF InFlight, CallOf
  <2>. QED
    BY <1>2, <2>2
<1>. QED
  BY <1>6, <1>7 DEF Next

\* The wallet service implements the module its clients are built on: what
\* Withdrawal and Deposit assume of the wallet is proved of it.
THEOREM WalletServesItsClients ==
    ASSUME WholeSatang, ClientsOfMerchant
    PROVE  Spec => ServesItsClients
<1>1. Init => Calls!WalletInit
  BY PricesArePositive
     DEF Init, Calls!WalletInit, Taken, InFlight, InService, EntriesOf
<1>2. (TypeOK /\ Inductive /\ RowsWhole /\ NonNegative /\ [Next]_vars)
      => [(\E c \in Calls!Call : Calls!Accept(c)) \/ Calls!WalletStep]_Calls!walletVars
  <2>. SUFFICES ASSUME TypeOK, Inductive, RowsWhole, NonNegative, [Next]_vars
                PROVE  \/ \E c \in Calls!Call : Calls!Accept(c)
                       \/ Calls!WalletStep
                       \/ UNCHANGED Calls!walletVars
    OBVIOUS
  <2>1. req' = req
    BY OnlyCommitWrites DEF Inductive
  <2>2. ASSUME NEW p \in Procs, Commit(p) \/ DatabaseCommits(p)
        PROVE  Calls!WalletStep \/ UNCHANGED Calls!walletVars
    BY <2>1, <2>2, CommitIsSettle
  <2>3. CASE row' = row /\ ledger' = ledger
    BY <2>1, <2>3, OtherStepsServe
  <2>. QED
    BY <2>2, <2>3, OnlyCommitWrites DEF Inductive
<1>. QED
  BY <1>1, <1>2, Invariance, RowsStayWhole, NeverNegative, PTL
     DEF Spec, ServesItsClients, Calls!ServiceSpec

\* An entry is in the ledger of the wallet that its request names.
InItsWallet ==
    \A w \in Wallets : \A e \in EntriesOf(w) :
        e.by \in Procs /\ e.ref = req[e.by].ref /\ req[e.by].wallet = w

LEMMA EntriesInTheirWallets == Spec => []InItsWallet
<1>1. Init => InItsWallet
  BY DEF Init, InItsWallet, EntriesOf
<1>2. TypeOK /\ Inductive /\ InItsWallet /\ [Next]_vars => InItsWallet'
  <2>. SUFFICES ASSUME TypeOK, Inductive, InItsWallet, [Next]_vars PROVE InItsWallet'
    OBVIOUS
  <2>1. req' = req
    BY OnlyCommitWrites DEF Inductive
  <2>2. CASE ledger' = ledger
    BY <2>1, <2>2 DEF InItsWallet, EntriesOf
  <2>3. ASSUME NEW p \in Procs, Commit(p) \/ DatabaseCommits(p), req[p].wallet \in Wallets
        PROVE  InItsWallet'
    <3>1. Apply(p)
      BY <2>3 DEF Commit, DatabaseCommits
    <3>2. \A w \in Wallets : EntriesOf(w)' = IF w = req[p].wallet
                                              THEN EntriesOf(w) \cup {NewEntry(p)}
                                              ELSE EntriesOf(w)
      BY <2>3, <3>1, EntriesAfterApply
    <3>3. NewEntry(p).by = p /\ NewEntry(p).ref = req[p].ref
      BY DEF NewEntry
    <3>. QED
      BY <2>1, <3>2, <3>3 DEF InItsWallet
  <2>. QED
    BY <2>2, <2>3, OnlyCommitWrites DEF Inductive
<1>. QED
  BY <1>1, <1>2, Invariance, PTL DEF Spec

\* A client of the merchant that reads "ok" has its reference in the ledger of
\* the merchant, although the check looks into all ledgers.
THEOREM OkIsPosted ==
    ASSUME ClientsOfMerchant
    PROVE  Spec => []OkMeansPosted
<1>1. TypeOK /\ Honest /\ InItsWallet => OkMeansPosted
  <2>. SUFFICES ASSUME TypeOK, Honest, InItsWallet, NEW p \in Procs,
                       req[p].wallet = Merchant, reply[p] = "ok"
                PROVE  Calls!Posted(req[p].ref)
    BY DEF OkMeansPosted
  <2>1. PICK w \in Wallets : \E e \in EntriesOf(w) : e.ref = req[p].ref
    BY DEF Honest, LedgerEntryExists
  <2>a. PICK e \in EntriesOf(w) : e.ref = req[p].ref
    BY <2>1
  <2>2. /\ e.by \in Procs /\ req[e.by].ref = req[p].ref
        /\ req[e.by].wallet = w
    BY <2>a DEF InItsWallet
  <2>3. w = Merchant
    BY <2>2 DEF ClientsOfMerchant, TypeOK
  <2>. QED
    <3>1. [ref |-> e.ref, op |-> e.op, by |-> e.by] \in Taken
      BY <2>a, <2>3 DEF Taken
    <3>. QED
      BY <2>a, <3>1 DEF Calls!Posted
<1>. QED
  BY <1>1, Invariance, Honesty, EntriesInTheirWallets, PTL
=============================================================================
