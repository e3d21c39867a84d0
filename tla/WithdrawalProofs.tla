-------------------------- MODULE WithdrawalProofs --------------------------
(***************************************************************************)
(* What holds of Withdrawal for any number of withdrawals, admin requests, *)
(* failures and restarts, for any limit and in either store.               *)
(***************************************************************************)
EXTENDS Withdrawal, TLAPS

-----------------------------------------------------------------------------
(* The inductive invariant                                                 *)

\* The wallet ever works on the hold of each withdrawal, and once: whatever is
\* sent later under the same reference is answered at once.
OnlyHolds ==
    /\ \A c \in flying \cup entries : c = HoldBalance(c.ref)
    /\ flying \cap entries = {}

\* Before the hold, and after a refusal, the wallet has not heard of i.
Unheard(i) ==
    pc[i] \in {"idle", "limit", "funds", "hold"} \/ reply[i] = "refused" =>
        HoldBalance(i) \notin flying \cup entries

\* From the reply to the hold on the money is held.
HeldFirst(i) ==
    \/ pc[i] \in {"insert", "undo", "undoing"}
    \/ status[i] # "absent"
    \/ reply[i] = "ok"
    => HoldBalance(i) \in entries

\* Who was told "created" has a row; the memory alone forgets it.
OnRecord(i) == reply[i] = "ok" /\ status[i] = "absent" => store = "memory"

ApprovedFirst(i) == status[i] \in {"approved", "completed"} => i \in approved

AnsweredAtEnd(p) == reply[p] # "none" => pc[p] = "done"

\* An admin request that got past the check of the status is about a withdrawal
\* that is held, and if it pays, one that was approved, whatever happened since.
Legitimate(a) ==
    pc[a] \in AdminSteps \ {"read"} =>
        /\ HoldBalance(job[a].id) \in entries
        /\ pc[a] \in {"debit", "debiting", "commission"} => job[a].op = "complete"
        /\ job[a].op = "complete" => job[a].id \in approved

CommissionIsEarned(a) ==
    a \in commissions => job[a].id \in approved /\ HoldBalance(job[a].id) \in entries

Inductive ==
    /\ TypeOK
    /\ OnlyHolds
    /\ \A i \in Ids : Unheard(i) /\ HeldFirst(i) /\ OnRecord(i) /\ ApprovedFirst(i)
    /\ \A p \in Callers : AnsweredAtEnd(p)
    /\ \A a \in Admins : Legitimate(a) /\ CommissionIsEarned(a)

-----------------------------------------------------------------------------
(* Type correctness                                                        *)

LEMMA CallsTyped ==
    /\ \A i \in Ids : HoldBalance(i) \in Call /\ HoldBalance(i).ref = i
    /\ \A p \in Callers, i \in Ids : ReleaseHold(p, i) \in Call
    /\ \A a \in Admins : job[a].id \in Ids => DebitHold(a) \in Call
BY WithdrawalAssumption DEF HoldBalance, ReleaseHold, DebitHold, Call

LEMMA WalletStepTyped ==
    ASSUME TypeOK, WalletStep
    PROVE  balance' \in Int /\ entries' \subseteq Call /\ flying' \subseteq Call
<1>. PICK c \in flying : Settle(c) \/ Refuse(c)
  BY DEF WalletStep
<1>. c \in Call /\ Amount[c.ref] \in Nat
  BY WalletCallsAssumption DEF TypeOK, Call
<1>. QED
  BY DEF Settle, Refuse, TypeOK

LEMMA TypeStep ==
    ASSUME TypeOK, [Next]_vars
    PROVE  TypeOK'
<1>. USE WithdrawalAssumption DEF walletVars, repoVars, Goto, End
<1>1. ASSUME NEW p \in Callers, Submit(p)
      PROVE  TypeOK'
  BY <1>1 DEF Submit, TypeOK, Steps, CreateSteps, AdminSteps
<1>2. ASSUME NEW i \in Ids, CheckDailyLimit(i) \/ CheckBalance(i)
      PROVE  TypeOK'
  BY <1>2
     DEF CheckDailyLimit, CheckBalance, TypeOK, Steps, CreateSteps, AdminSteps,
         Replies
<1>3. ASSUME NEW i \in Ids, Hold(i)
      PROVE  TypeOK'
  BY <1>3, CallsTyped
     DEF Hold, CallWallet, Skip, Accept, TypeOK, Steps, CreateSteps, AdminSteps
<1>4. ASSUME NEW i \in Ids, Insert(i) \/ InsertFails(i)
      PROVE  TypeOK'
  BY <1>4
     DEF Insert, InsertFails, TypeOK, Steps, CreateSteps, AdminSteps, Statuses,
         Replies
<1>5. ASSUME NEW i \in Ids, Undo(i)
      PROVE  TypeOK'
  BY <1>5, CallsTyped
     DEF Undo, Skip, Accept, TypeOK, Steps, CreateSteps, AdminSteps, Replies
<1>6. ASSUME NEW a \in Admins, ReadStatus(a)
      PROVE  TypeOK'
  BY <1>6
     DEF ReadStatus, AfterCheck, TypeOK, AdminOps, Steps, CreateSteps, AdminSteps,
         Replies
<1>7. ASSUME NEW a \in Admins, Release(a) \/ Debit(a)
      PROVE  TypeOK'
  BY <1>7, CallsTyped
     DEF Release, Debit, CallWallet, Skip, Accept, TypeOK, Steps, CreateSteps,
            AdminSteps
<1>8. ASSUME NEW a \in Admins, RecordCommission(a)
      PROVE  TypeOK'
  BY <1>8 DEF RecordCommission, TypeOK, Steps, CreateSteps, AdminSteps
<1>9. ASSUME NEW a \in Admins, UpdateStatus(a)
      PROVE  TypeOK'
  BY <1>9
     DEF UpdateStatus, Outcome, TypeOK, AdminOps, Statuses, Steps, CreateSteps,
            AdminSteps, Replies
<1>10. ASSUME NEW p \in Callers, WalletFails(p) \/ QueryFails(p)
       PROVE  TypeOK'
  BY <1>10
     DEF WalletFails, QueryFails, TypeOK, Steps, CreateSteps, AdminSteps, Replies
<1>11. CASE Restart
  BY <1>11 DEF Restart, TypeOK, Statuses, Steps, CreateSteps, AdminSteps
<1>12. CASE Wallet
  BY <1>12, WalletStepTyped DEF Wallet, TypeOK
<1>13. CASE UNCHANGED vars
  BY <1>13 DEF vars, TypeOK
<1>. QED
  BY <1>1, <1>2, <1>3, <1>4, <1>5, <1>6, <1>7, <1>8, <1>9, <1>10, <1>11, <1>12,
     <1>13
     DEF Next, Create, Administer

-----------------------------------------------------------------------------
(* What a step can do to the wallet, one request and one row               *)

LEMMA HoldsAreDistinct == \A i, j : HoldBalance(i) = HoldBalance(j) => i = j
BY DEF HoldBalance

\* The ledger shows the reference of whatever is held.
LEMMA HeldIsPosted == \A i : HoldBalance(i) \in entries => Posted(i)
BY DEF HoldBalance, Posted

\* A call is new to the wallet only if it is a hold that nobody has sent before.
LEMMA FlyingStep ==
    ASSUME Inductive, [Next]_vars
    PROVE  /\ entries \subseteq entries'
           /\ \A c \in entries' : c \in entries \/ (c \in flying /\ c \notin flying')
           /\ \A c \in flying' :
                  \/ c \in flying
                  \/ \E i \in Ids : c = HoldBalance(i) /\ pc[i] = "hold" /\ pc'[i] = "holding"
<1>. USE WithdrawalAssumption DEF walletVars, repoVars
<1>. TypeOK
  BY DEF Inductive
<1>1. ASSUME NEW i \in Ids, Hold(i)
      PROVE  /\ entries' = entries
             /\ \A c \in flying' :
                  c \in flying \/ (c = HoldBalance(i) /\ pc[i] = "hold" /\ pc'[i] = "holding")
  BY <1>1 DEF Hold, CallWallet, Skip, Accept, Goto, TypeOK
<1>2. ASSUME NEW i \in Ids, Undo(i)
      PROVE  UNCHANGED <<entries, flying>>
  BY <1>2, HeldIsPosted DEF Undo, Skip, Accept, ReleaseHold, Inductive, HeldFirst
<1>3. ASSUME NEW a \in Admins, Release(a) \/ Debit(a)
      PROVE  UNCHANGED <<entries, flying>>
  BY <1>3, HeldIsPosted
     DEF Release, Debit, CallWallet, Skip, Accept, ReleaseHold, DebitHold,
            AdminSteps, Inductive, Legitimate
<1>4. CASE Wallet
  BY <1>4 DEF Wallet, WalletStep, Settle, Refuse, Inductive, OnlyHolds
<1>. QED
  BY <1>1, <1>2, <1>3, <1>4
     DEF Next, Create, Administer, vars, Submit, CheckDailyLimit, CheckBalance,
            Insert, InsertFails, ReadStatus, RecordCommission, UpdateStatus,
            WalletFails, QueryFails, Restart

-----------------------------------------------------------------------------
(* The inductive invariant is one                                          *)

LEMMA OnlyHoldsStep ==
    ASSUME Inductive, [Next]_vars
    PROVE  OnlyHolds'
<1>1. \A c \in flying' \cup entries' : c = HoldBalance(c.ref)
  BY FlyingStep DEF Inductive, OnlyHolds, HoldBalance
<1>2. ASSUME NEW c \in flying', c \in entries'
      PROVE  FALSE
  <2>1. c \in entries
    BY <1>2, FlyingStep
  <2>2. PICK i \in Ids : c = HoldBalance(i) /\ pc[i] = "hold"
    BY <1>2, <2>1, FlyingStep DEF Inductive, OnlyHolds
  <2>. QED
    BY <2>1, <2>2 DEF Inductive, Unheard
<1>. QED
  BY <1>1, <1>2 DEF OnlyHolds

LEMMA UnheardStep ==
    ASSUME Inductive, [Next]_vars, NEW i \in Ids
    PROVE  Unheard(i)'
<1>1. CASE pc'[i] \in {"idle", "limit", "funds", "hold"} \/ reply'[i] = "refused"
  <2>1. pc[i] \in {"idle", "limit", "funds", "hold"} \/ reply[i] = "refused"
    BY <1>1, WithdrawalAssumption
       DEF Inductive, TypeOK, Next, Create, Administer, vars, walletVars, repoVars,
           Goto, End, Submit, CheckDailyLimit, CheckBalance, Hold, Insert,
           InsertFails, Undo, ReadStatus, Release, Debit, CallWallet,
           RecordCommission, UpdateStatus, WalletFails, QueryFails, Restart, Wallet
  <2>2. pc'[i] # "holding"
    BY <1>1, WithdrawalAssumption
       DEF Inductive, TypeOK, AnsweredAtEnd, Next, Create, Administer, vars,
           walletVars, repoVars, Goto, End, Submit, CheckDailyLimit, CheckBalance,
           Hold, Insert, InsertFails, Undo, ReadStatus, Release, Debit, CallWallet,
           RecordCommission, UpdateStatus, WalletFails, QueryFails, Restart, Wallet
  <2>3. HoldBalance(i) \notin flying \cup entries
    BY <2>1 DEF Inductive, Unheard
  <2>. QED
    BY <2>2, <2>3, FlyingStep, HoldsAreDistinct DEF Unheard, HoldBalance
<1>2. CASE ~ (pc'[i] \in {"idle", "limit", "funds", "hold"} \/ reply'[i] = "refused")
  BY <1>2 DEF Unheard
<1>. QED
  BY <1>1, <1>2

\* The ledger shows a hold under the reference of whatever it shows.
LEMMA PostedIsHeld ==
    ASSUME OnlyHolds, NEW i, Posted(i)
    PROVE  HoldBalance(i) \in entries
BY DEF OnlyHolds, Posted

LEMMA HeldFirstStep ==
    ASSUME Inductive, [Next]_vars, NEW i \in Ids
    PROVE  HeldFirst(i)'
<1>1. ASSUME HoldBalance(i) \notin entries
      PROVE  /\ pc'[i] \in {"insert", "undo", "undoing"} => HoldBalance(i) \in entries'
             /\ status'[i] = "absent"
             /\ reply'[i] # "ok"
  <2>1. /\ pc[i] \notin {"insert", "undo", "undoing"}
        /\ status[i] = "absent"
        /\ reply[i] # "ok"
    BY <1>1 DEF Inductive, HeldFirst
  <2>2. \A a \in Admins : pc[a] = "update" => job[a].id # i
    BY <1>1 DEF Inductive, Legitimate, AdminSteps
  <2>3. ~ Posted(i)
    BY <1>1, PostedIsHeld DEF Inductive
  <2>4. status'[i] = "absent" /\ reply'[i] # "ok"
    BY <2>1, <2>2, WithdrawalAssumption
       DEF Inductive, TypeOK, Next, Create, Administer, vars, walletVars, repoVars,
           Goto, End, Submit, CheckDailyLimit, CheckBalance, Hold, Insert,
           InsertFails, Undo, ReadStatus, Release, Debit, CallWallet,
           RecordCommission, UpdateStatus, WalletFails, QueryFails, Restart, Wallet
  <2>5. pc'[i] \in {"insert", "undo", "undoing"} => HoldBalance(i) \in entries'
    <3>1. ~ Posted(HoldBalance(i).ref) /\ ~ Took(HoldBalance(i))
      BY <1>1, <2>3 DEF Took, HoldBalance, Posted
    <3>. QED
      BY <2>1, <3>1, WithdrawalAssumption
         DEF Skip, Inductive, TypeOK, Next, Create, Administer, vars, walletVars,
             repoVars, Goto, End, Submit, CheckDailyLimit, CheckBalance, Hold,
             Insert, InsertFails, Undo, ReadStatus, Release, Debit, CallWallet,
             RecordCommission, UpdateStatus, WalletFails, QueryFails, Restart,
             Wallet
  <2>. QED
    BY <2>4, <2>5
<1>. QED
  BY <1>1, FlyingStep DEF HeldFirst, HoldBalance

LEMMA OnRecordStep ==
    ASSUME Inductive, [Next]_vars, NEW i \in Ids
    PROVE  OnRecord(i)'
BY WithdrawalAssumption
   DEF Inductive, OnRecord, Outcome, AdminOps, TypeOK, Next, Create, Administer,
       vars, walletVars, repoVars, Goto, End, Submit, CheckDailyLimit,
       CheckBalance, Hold, Insert, InsertFails, Undo, ReadStatus, Release, Debit,
       CallWallet, RecordCommission, UpdateStatus, WalletFails, QueryFails,
       Restart, Wallet

LEMMA AnsweredStep ==
    ASSUME Inductive, [Next]_vars, NEW p \in Callers
    PROVE  AnsweredAtEnd(p)'
BY WithdrawalAssumption
   DEF Inductive, AnsweredAtEnd, TypeOK, Next, Create, Administer, vars,
       walletVars, repoVars, Goto, End, Submit, CheckDailyLimit, CheckBalance,
       Hold, Insert, InsertFails, Undo, ReadStatus, Release, Debit, CallWallet,
       RecordCommission, UpdateStatus, WalletFails, QueryFails, Restart, Wallet

LEMMA ApprovedStep ==
    ASSUME Inductive, [Next]_vars, NEW i \in Ids
    PROVE  ApprovedFirst(i)'
BY WithdrawalAssumption
   DEF Inductive, ApprovedFirst, Legitimate, AdminSteps, Outcome, AdminOps, TypeOK,
       Next, Create, Administer, vars, walletVars, repoVars, Goto, End, Submit,
       CheckDailyLimit, CheckBalance, Hold, Insert, InsertFails, Undo, ReadStatus,
       Release, Debit, CallWallet, RecordCommission, UpdateStatus, WalletFails,
       QueryFails, Restart, Wallet

LEMMA ApprovedGrows == [Next]_vars => approved \subseteq approved'
BY DEF Next, Create, Administer, vars, walletVars, repoVars, Goto, End, Submit,
       CheckDailyLimit, CheckBalance, Hold, Insert, InsertFails, Undo, ReadStatus,
       Release, Debit, CallWallet, RecordCommission, UpdateStatus, WalletFails,
       QueryFails, Restart, Wallet

LEMMA LegitimateStep ==
    ASSUME Inductive, [Next]_vars, NEW a \in Admins
    PROVE  Legitimate(a)' /\ CommissionIsEarned(a)'
<1>. job' = job
  BY DEF Next, Create, Administer, vars, walletVars, repoVars, Goto, End, Submit,
         CheckDailyLimit, CheckBalance, Hold, Insert, InsertFails, Undo,
         ReadStatus, Release, Debit, CallWallet, RecordCommission, UpdateStatus,
         WalletFails, QueryFails, Restart, Wallet
<1>1. CASE ReadStatus(a) /\ pc'[a] # "done"
  <2>1. status[job[a].id] \in Expected(job[a].op) /\ job[a].id \in Ids /\ job[a].op \in AdminOps
    BY <1>1, WithdrawalAssumption DEF ReadStatus, End, Goto, Inductive, TypeOK
  <2>2. HoldBalance(job[a].id) \in entries
    BY <2>1 DEF Expected, Inductive, HeldFirst
  <2>3. job[a].op = "complete" => job[a].id \in approved
    BY <2>1 DEF Expected, Inductive, ApprovedFirst
  <2>4. pc'[a] \in {"debit", "debiting", "commission"} => job[a].op = "complete"
    BY <1>1, <2>1, WithdrawalAssumption
       DEF ReadStatus, AfterCheck, Goto, Inductive, TypeOK, AdminOps
  <2>. QED
    BY <1>1, <2>2, <2>3, <2>4, FlyingStep, ApprovedGrows
       DEF Legitimate, CommissionIsEarned, ReadStatus, walletVars, repoVars,
              Inductive
<1>2. CASE ~ (ReadStatus(a) /\ pc'[a] # "done")
  <2>1. pc'[a] \in AdminSteps \ {"read"} => /\ pc[a] \in AdminSteps \ {"read"}
                                            /\ \/ pc'[a] = pc[a]
                                               \/ pc'[a] = "update"
                                               \/ pc[a] = "release" /\ pc'[a] = "releasing"
                                               \/ pc[a] \in {"debit", "debiting"}
    BY <1>2, WithdrawalAssumption
       DEF Inductive, TypeOK, AdminSteps, Next, Create, Administer, vars,
           walletVars, repoVars, Goto, End, Submit, CheckDailyLimit, CheckBalance,
           Hold, Insert, InsertFails, Undo, ReadStatus, Release, Debit, CallWallet,
           RecordCommission, UpdateStatus, WalletFails, QueryFails, Restart, Wallet
  <2>2. a \in commissions' => a \in commissions \/ pc[a] = "commission"
    BY <1>2, WithdrawalAssumption
       DEF Inductive, TypeOK, Next, Create, Administer, vars, walletVars, repoVars,
           Goto, End, Submit, CheckDailyLimit, CheckBalance, Hold, Insert,
           InsertFails, Undo, ReadStatus, Release, Debit, CallWallet,
           RecordCommission, UpdateStatus, WalletFails, QueryFails, Restart, Wallet
  <2>. QED
    BY <2>1, <2>2, FlyingStep, ApprovedGrows
       DEF Legitimate, CommissionIsEarned, Inductive, AdminSteps, HoldBalance
<1>. QED
  BY <1>1, <1>2

LEMMA InductiveInvariant == Spec => []Inductive
<1>1. Init => Inductive
  <2>. SUFFICES ASSUME Init
       PROVE  Inductive
    OBVIOUS
  <2>1. TypeOK
    BY WithdrawalAssumption, WalletCallsAssumption
       DEF Init, WalletInit, TypeOK, Statuses, Steps, Replies
  <2>. QED
    BY <2>1, WithdrawalAssumption
       DEF Init, WalletInit, Inductive, OnlyHolds, Unheard, HeldFirst, OnRecord,
              ApprovedFirst, AnsweredAtEnd, Legitimate, AdminSteps,
              CommissionIsEarned
<1>2. Inductive /\ [Next]_vars => Inductive'
  <2>. SUFFICES ASSUME Inductive, [Next]_vars
       PROVE  Inductive'
    OBVIOUS
  <2>1. TypeOK'
    BY TypeStep DEF Inductive
  <2>. QED
    BY <2>1, OnlyHoldsStep, UnheardStep, HeldFirstStep, OnRecordStep, AnsweredStep,
       ApprovedStep, LegitimateStep
       DEF Inductive
<1>. QED
  BY <1>1, <1>2, PTL DEF Spec

-----------------------------------------------------------------------------
(* What a client and an admin can rely on                                  *)

\* The variables keep their types, in either store, through failures and
\* restarts: a row only ever has a status that the schema allows.
THEOREM TypeCorrect == Spec => []TypeOK
<1>1. Inductive => TypeOK
  BY DEF Inductive
<1>. QED
  BY <1>1, InductiveInvariant, PTL

\* However many admins act on a withdrawal and whatever is repeated, timed out
\* or raced, the wallet moves money for it once (withdrawal.go:160-213, 310-460):
\* every later call has the same reference and is answered by the ledger.
THEOREM MoneyMovesOnce == Spec => []MovesMoneyOnce
<1>1. Inductive => MovesMoneyOnce
  <2>. SUFFICES ASSUME OnlyHolds, NEW e \in entries, NEW f \in entries, e.ref = f.ref
       PROVE  e = f
    BY DEF Inductive, MovesMoneyOnce
  <2>. e = HoldBalance(e.ref) /\ f = HoldBalance(f.ref)
    BY DEF OnlyHolds
  <2>. QED
    OBVIOUS
<1>. QED
  BY <1>1, InductiveInvariant, PTL

\* No row exists before its amount has left the available balance.
THEOREM RecordedAreHeld == Spec => []RecordedIsHeld
<1>1. Inductive => RecordedIsHeld
  BY DEF Inductive, HeldFirst, RecordedIsHeld, Held, HoldBalance
<1>. QED
  BY <1>1, InductiveInvariant, PTL

\* No order of the admins' requests pays a withdrawal or records its commission
\* without an approval, although UpdateStatus asks nothing of the row.
THEOREM PaidWereApproved == Spec => []PaidWasApproved
<1>1. Inductive => PaidWasApproved
  BY DEF Inductive, TypeOK, ApprovedFirst, CommissionIsEarned, PaidWasApproved,
         Held, HoldBalance
<1>. QED
  BY <1>1, InductiveInvariant, PTL

\* A merchant who is told "created" has the money held and the row on record as
\* long as the store remembers; one who is refused never loses anything.
THEOREM CreateTellsTheTruth == Spec => []TruthfulCreate
<1>1. Inductive => TruthfulCreate
  <2>. SUFFICES ASSUME Inductive, NEW i \in Ids
       PROVE  /\ reply[i] = "ok" => Held(i) /\ (status[i] = "absent" => store = "memory")
              /\ reply[i] = "refused" => ~ Posted(i) /\ HoldBalance(i) \notin flying
    BY DEF TruthfulCreate
  <2>1. reply[i] = "ok" => Held(i) /\ (status[i] = "absent" => store = "memory")
    BY DEF Inductive, HeldFirst, OnRecord, Held, HoldBalance
  <2>2. reply[i] = "refused" => ~ Posted(i) /\ HoldBalance(i) \notin flying
    BY PostedIsHeld DEF Inductive, Unheard
  <2>. QED
    BY <2>1, <2>2
<1>. QED
  BY <1>1, InductiveInvariant, PTL

\* For any number of withdrawals and admins, in either store: the release of a
\* rejected or failed withdrawal never takes effect.  RejectedIsRefunded is not
\* violated in a corner only.
THEOREM MoneyNeverComesBack == Spec => NothingComesBack
<1>1. Inductive /\ [Next]_vars
      => [balance' <= balance /\ \A e \in entries' : e.op = "debit"]_vars
  <2>. SUFFICES ASSUME Inductive, [Next]_vars
       PROVE  balance' <= balance /\ \A e \in entries' : e.op = "debit"
    OBVIOUS
  <2>1. \A e \in flying \cup entries \cup entries' : e.op = "debit"
    BY OnlyHoldsStep DEF Inductive, OnlyHolds, HoldBalance
  <2>2. CASE Wallet
    <3>1. PICK c \in flying : Settle(c) \/ Refuse(c)
      BY <2>2 DEF Wallet, WalletStep
    <3>2. c \in Call /\ Amount[c.ref] \in Nat /\ balance \in Int
      BY WalletCallsAssumption DEF Inductive, TypeOK, Call
    <3>3. c.op = "debit"
      BY <2>1
    <3>4. balance' = balance - Amount[c.ref] \/ balance' = balance
      BY <3>1, <3>3 DEF Settle, Refuse
    <3>. QED
      BY <2>1, <3>2, <3>4
  <2>3. CASE ~ Wallet
    <3>1. balance' = balance
      BY <2>3
         DEF Next, Create, Administer, vars, walletVars, CallWallet, Skip, Accept, Submit,
             CheckDailyLimit, CheckBalance, Hold, Insert, InsertFails, Undo, ReadStatus,
             Release, Debit, RecordCommission, UpdateStatus, WalletFails, QueryFails, Restart
    <3>2. balance \in Int
      BY DEF Inductive, TypeOK
    <3>. QED
      BY <2>1, <3>1, <3>2
  <2>. QED
    BY <2>2, <2>3
<1>. QED
  BY <1>1, InductiveInvariant, PTL DEF Spec, NothingComesBack
-----------------------------------------------------------------------------
(* When a withdrawal is final                                              *)

\* The row of i is there only once its request has inserted it.
InsertedOnce(i) ==
    status[i] # "absent" => pc[i] \notin {"idle", "limit", "funds", "hold", "holding", "insert"}

\* An admin request past its check has a row: a restart that forgets the rows
\* ends the requests too.
HasRow(a) == pc[a] \in AdminSteps \ {"read"} => status[job[a].id] # "absent"

Recorded ==
    /\ \A i \in Ids : InsertedOnce(i)
    /\ \A a \in Admins : HasRow(a)

\* The status of a row changes by its INSERT, by an admin who is at the UPDATE,
\* or by a restart.
LEMMA StatusStep ==
    ASSUME TypeOK, [Next]_vars, NEW i \in Ids
    PROVE  \/ status'[i] = status[i]
           \/ pc[i] = "insert" /\ pc'[i] \in {"done", "undo"} /\ status'[i] = "pending"
           \/ status'[i] # "absent" /\ \E a \in Admins : pc[a] = "update" /\ job[a].id = i
           \/ store = "memory" /\ Restart /\ status'[i] = "absent"
BY WithdrawalAssumption
   DEF TypeOK, AdminOps, Outcome, Next, Create, Administer, vars, walletVars, repoVars, Goto, End,
       Submit, CheckDailyLimit, CheckBalance, Hold, Insert, InsertFails, Undo,
       ReadStatus, Release, Debit, CallWallet, RecordCommission, UpdateStatus,
       WalletFails, QueryFails, Restart, Wallet

\* An admin request gets past its check by reading a status it expects.
LEMMA CheckStep ==
    ASSUME TypeOK, [Next]_vars, NEW a \in Admins, pc'[a] \in AdminSteps \ {"read"}
    PROVE  \/ pc[a] \in AdminSteps \ {"read"} /\ ~ Restart
           \/ /\ status[job[a].id] \in {"pending", "approved"}
              /\ status' = status
<1>1. CASE Restart
  BY <1>1, WithdrawalAssumption DEF Restart, TypeOK, AdminSteps
<1>2. CASE ~ Restart
  BY <1>2, WithdrawalAssumption
     DEF TypeOK, AdminOps, AdminSteps, Expected, Next, Create, Administer, vars, walletVars, repoVars,
         Goto, End,
         Submit, CheckDailyLimit, CheckBalance, Hold, Insert, InsertFails, Undo,
         ReadStatus, Release, Debit, CallWallet, RecordCommission, UpdateStatus,
         WalletFails, QueryFails, Restart, Wallet
<1>. QED
  BY <1>1, <1>2

LEMMA RowStays ==
    ASSUME TypeOK, [Next]_vars, ~ Restart, NEW i \in Ids, status[i] # "absent"
    PROVE  status'[i] # "absent"
BY StatusStep

LEMMA JobStays == [Next]_vars => job' = job
BY DEF Next, Create, Administer, vars, walletVars, repoVars, Goto, End,
       Submit, CheckDailyLimit, CheckBalance, Hold, Insert, InsertFails, Undo,
       ReadStatus, Release, Debit, CallWallet, RecordCommission, UpdateStatus,
       WalletFails, QueryFails, Restart, Wallet

LEMMA RecordedStep ==
    ASSUME Inductive, Recorded, [Next]_vars
    PROVE  Recorded'
<1>. TypeOK
  BY DEF Inductive
<1>1. ASSUME NEW i \in Ids
      PROVE  InsertedOnce(i)'
  <2>1. CASE status[i] # "absent"
    <3>1. pc[i] \notin {"idle", "limit", "funds", "hold", "holding", "insert"}
      BY <2>1 DEF Recorded, InsertedOnce
    <3>2. pc'[i] \notin {"idle", "limit", "funds", "hold", "holding", "insert"}
      BY <3>1, WithdrawalAssumption
         DEF TypeOK, Next, Create, Administer, vars, walletVars, repoVars, Goto, End,
             Submit, CheckDailyLimit, CheckBalance, Hold, Insert, InsertFails, Undo,
             ReadStatus, Release, Debit, CallWallet, RecordCommission, UpdateStatus,
             WalletFails, QueryFails, Restart, Wallet
    <3>. QED
      BY <3>2 DEF InsertedOnce
  <2>2. CASE status[i] = "absent"
    <3>1. \A a \in Admins : pc[a] = "update" => job[a].id # i
      BY <2>2 DEF Recorded, HasRow, AdminSteps
    <3>. QED
      BY <2>2, <3>1, StatusStep DEF InsertedOnce
  <2>. QED
    BY <2>1, <2>2
<1>2. ASSUME NEW a \in Admins
      PROVE  HasRow(a)'
  <2>1. job[a].id \in Ids
    BY DEF TypeOK
  <2>. QED
    BY <2>1, CheckStep, RowStays, JobStays DEF HasRow, Recorded
<1>. QED
  BY <1>1, <1>2 DEF Recorded

\* A rejected or completed withdrawal that no admin request is past the check of
\* is final: whatever is asked later is refused by that check.
THEOREM FinalIsFinal == Spec => FinalStands
<1>. DEFINE Stand == \A i \in Ids : Final(i) =>
                       \/ status'[i] = status[i] /\ Final(i)'
                       \/ status'[i] = "absent" /\ store = "memory"
<1>1. Init => Recorded
  BY WithdrawalAssumption DEF Init, Recorded, InsertedOnce, HasRow, AdminSteps
<1>2. Inductive /\ Recorded /\ [Next]_vars => Recorded'
  BY RecordedStep
<1>3. Inductive /\ Recorded /\ [Next]_vars => [Stand]_vars
  <2>. SUFFICES ASSUME Inductive, Recorded, [Next]_vars, NEW i \in Ids, Final(i)
                PROVE  \/ status'[i] = status[i] /\ Final(i)'
                       \/ status'[i] = "absent" /\ store = "memory"
    OBVIOUS
  <2>1. TypeOK /\ status[i] \in {"rejected", "completed"} /\ Quiet(i)
    BY DEF Inductive, Final
  <2>2. pc[i] # "insert" /\ \A a \in Admins : pc[a] = "update" => job[a].id # i
    BY <2>1 DEF Recorded, InsertedOnce, Quiet, AdminSteps
  <2>3. status'[i] = status[i] \/ (status'[i] = "absent" /\ store = "memory")
    BY <2>1, <2>2, StatusStep
  <2>4. Quiet(i)'
    BY <2>1, CheckStep, JobStays DEF Quiet
  <2>. QED
    BY <2>1, <2>3, <2>4 DEF Final
<1>. QED
  BY <1>1, <1>2, <1>3, InductiveInvariant, PTL DEF Spec, FinalStands
=============================================================================
