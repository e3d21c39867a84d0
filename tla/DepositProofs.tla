---------------------------- MODULE DepositProofs ----------------------------
(***************************************************************************)
(* What holds of Deposit for any number of orders, notices and accounts,   *)
(* any offsets and either strategy.                                        *)
(***************************************************************************)
EXTENDS Deposit, TLAPS

-----------------------------------------------------------------------------
(* The inductive invariant                                                 *)

\* A row is inserted once, by the request that creates the order, and before
\* anybody else can know of the order.
StoredFirst(o) ==
    /\ pc[o] \in {"idle", "count", "adjust", "create"} => status[o] = "absent"
    /\ pc[o] \in {"index", "schedule"} \/ reply[o] = "ok" \/ o \in pending
         => status[o] # "absent"

AnsweredAtEnd(p) == reply[p] # "none" => pc[p] = "done"

\* From the match on a notice has an order, and one that was stored.
HasOrder(n) ==
    pc[n] \in {"take", "report"} \cup CompleteSteps \/ n \in late =>
        target[n] \in Orders /\ status[target[n]] # "absent"

\* The effects of a notice come after its UPDATE, in the order of the code.
EffectsInOrder(n) ==
    /\ pc[n] \in {"credit", "crediting", "tell", "cleanup"} => target[n] \in settled
    /\ n \in commissions \cup webhooks =>
           target[n] \in settled /\ pc[n] \in {"cleanup", "done", "crashed"}

\* The wallet gets a credit of each notice for its order, and nothing else.
OnlyCredits ==
    \A c \in flying \cup entries :
        /\ c.by \in Notices
        /\ c = Credit(c.by)
        /\ target[c.by] \in settled
        /\ pc[c.by] \in {"crediting", "tell", "cleanup", "done", "crashed"}

\* Nothing opens an order again: a late notice gets as far as the check.
LateIsStopped(n) ==
    n \in late =>
        /\ pc[n] \in {"load", "done", "crashed"}
        /\ status[target[n]] # "pending"
        /\ reply[n] # "ok"
        /\ n \notin commissions \cup webhooks
        /\ \A c \in flying \cup entries : c.by # n

WorkerKnowsStored == current # None => status[current] # "absent"

Inductive ==
    /\ TypeOK
    /\ \A o \in Orders : StoredFirst(o)
    /\ \A p \in Requests : AnsweredAtEnd(p)
    /\ \A n \in Notices : HasOrder(n) /\ EffectsInOrder(n) /\ LateIsStopped(n)
    /\ OnlyCredits
    /\ WorkerKnowsStored

-----------------------------------------------------------------------------
(* Type correctness                                                        *)

LEMMA CreditTyped ==
    \A n \in Notices : target[n] \in Orders => Credit(n) \in Call
BY DepositAssumption DEF Credit, Call

LEMMA TypeStep ==
    ASSUME Inductive, [Next]_vars
    PROVE  TypeOK'
<1>. USE DepositAssumption DEF walletVars, orderVars, redisVars, effectVars,
       workerVars, constVars, requestVars, othersVars, Goto, End, Requests
<1>. TypeOK
  BY DEF Inductive
<1>1. ASSUME NEW o \in Orders, PickAccount(o)
      PROVE  TypeOK'
  BY <1>1 DEF PickAccount, LeastLoaded, TypeOK, Steps, CreateSteps
<1>2. ASSUME NEW o \in Orders, CountOrder(o)
      PROVE  TypeOK'
  BY <1>2 DEF CountOrder, TypeOK, Steps, CreateSteps
<1>3. ASSUME NEW o \in Orders, AdjustAmount(o)
      PROVE  TypeOK'
  BY <1>3 DEF AdjustAmount, FreeOffsets, TypeOK, Steps, CreateSteps
<1>4. ASSUME NEW o \in Orders, StoreOrder(o) \/ StoreFails(o) \/ IndexOrder(o) \/ ScheduleOrder(o)
      PROVE  TypeOK'
  BY <1>4
     DEF StoreOrder, StoreFails, IndexOrder, ScheduleOrder, TypeOK, Statuses,
         Steps, CreateSteps
<1>5. ASSUME NEW o \in Orders, Elapse(o)
      PROVE  TypeOK'
  BY <1>5 DEF Elapse, TypeOK
<1>6. ASSUME NEW n \in Notices, Pay(n) \/ TakeOrder(n) \/ Report(n) \/ LoadOrder(n)
      PROVE  TypeOK'
  BY <1>6
     DEF Pay, TakeOrder, Report, LoadOrder, TypeOK, Jobs, Steps, NoticeSteps,
         CompleteSteps
<1>7. ASSUME NEW n \in Notices, FindOrder(n)
      PROVE  TypeOK'
  BY <1>7 DEF FindOrder, Candidates, PendingWith, TypeOK, Steps, NoticeSteps
<1>8. ASSUME NEW n \in Notices, SettleOrder(n) \/ SettleFails(n)
      PROVE  TypeOK'
  <2>1. target[n] \in Orders
    BY <1>8 DEF SettleOrder, SettleFails, Inductive, HasOrder, CompleteSteps
  <2>. QED
    BY <1>8, <2>1
       DEF SettleOrder, SettleFails, Complete, TypeOK, Statuses, Steps,
           CompleteSteps
<1>9. ASSUME NEW n \in Notices, CreditWallet(n)
      PROVE  TypeOK'
  <2>1. Credit(n) \in Call
    BY <1>9, CreditTyped DEF CreditWallet, Inductive, HasOrder, CompleteSteps
  <2>. QED
    BY <1>9, <2>1 DEF CreditWallet, Skip, Accept, TypeOK, Steps, CompleteSteps
<1>10. ASSUME NEW n \in Notices, CreditReturns(n) \/ TellOthers(n) \/ Finish(n)
       PROVE  TypeOK'
  BY <1>10
     DEF CreditReturns, TellOthers, Finish, CleanUp, TypeOK, Steps, CompleteSteps
<1>11. ASSUME NEW p \in Requests, ReadFails(p) \/ Crash(p)
       PROVE  TypeOK'
  BY <1>11 DEF ReadFails, Crash, TypeOK, Steps
<1>12. CASE Poll \/ BatchDone \/ ExpireFails \/ WorkerCleanUp \/ WorkerRestarts
  BY <1>12
     DEF Poll, BatchDone, ExpireFails, WorkerCleanUp, CleanUp, WorkerRestarts,
            TypeOK, Statuses, WorkerSteps
<1>13. ASSUME NEW o \in Orders, ReadOrder(o) \/ ReadOrderFails(o) \/ Expire(o)
       PROVE  TypeOK'
  BY <1>13 DEF ReadOrder, ReadOrderFails, Expire, TypeOK, Statuses, WorkerSteps
<1>14. CASE Wallet
  BY <1>14 DEF Wallet, WalletStep, Settle, Refuse, TypeOK
<1>15. CASE UNCHANGED vars
  BY <1>15 DEF vars, TypeOK
<1>. QED
  BY <1>1, <1>2, <1>3, <1>4, <1>5, <1>6, <1>7, <1>8, <1>9, <1>10, <1>11, <1>12,
     <1>13, <1>14, <1>15
     DEF Next, Create, Notify, Worker

-----------------------------------------------------------------------------
(* What a step can do to one order, the wallet and one notice              *)

LEMMA StatusStep ==
    ASSUME TypeOK, [Next]_vars, NEW o \in Orders
    PROVE  \/ status'[o] = status[o]
           \/ pc[o] = "create" /\ pc'[o] \in {"index", "done"} /\ status'[o] # "absent"
           \/ status'[o] = "completed" /\ \E n \in Notices : pc[n] = "settle" /\ target[n] = o
           \/ status'[o] = "expired" /\ current = o
BY DepositAssumption
   DEF TypeOK, Next, vars, walletVars, orderVars, redisVars, effectVars,
       workerVars, constVars, requestVars, othersVars, Requests, Goto, End, Create,
       PickAccount, CountOrder, AdjustAmount, StoreOrder, StoreFails, IndexOrder,
       ScheduleOrder, Elapse, Notify, Pay, FindOrder, TakeOrder, Report, LoadOrder,
       SettleOrder, SettleFails, CreditWallet, CreditReturns, TellOthers, Finish,
       CleanUp, Complete, ReadFails, Crash, Worker, Poll, BatchDone, ExpireFails,
       WorkerCleanUp, WorkerRestarts, ReadOrder, ReadOrderFails, Expire, Wallet

\* The wallet hears of a notice at the one step of its credit.
LEMMA CallsStep ==
    ASSUME [Next]_vars, NEW c \in flying' \cup entries'
    PROVE  \/ c \in flying \cup entries
           \/ \E n \in Notices : c = Credit(n) /\ pc[n] = "credit" /\ CreditWallet(n)
BY DEF Accept, Skip, WalletStep, Settle, Refuse, Next, vars, walletVars, orderVars,
       redisVars, effectVars, workerVars, constVars, requestVars, othersVars,
       Requests, Goto, End, Create, PickAccount, CountOrder, AdjustAmount,
       StoreOrder, StoreFails, IndexOrder, ScheduleOrder, Elapse, Notify, Pay,
       FindOrder, TakeOrder, Report, LoadOrder, SettleOrder, SettleFails,
       CreditWallet, CreditReturns, TellOthers, Finish, CleanUp, Complete,
       ReadFails, Crash, Worker, Poll, BatchDone, ExpireFails, WorkerCleanUp,
       WorkerRestarts, ReadOrder, ReadOrderFails, Expire, Wallet

LEMMA RequestStep ==
    ASSUME TypeOK, [Next]_vars, NEW p \in Requests
    PROVE  \/ pc'[p] = pc[p] /\ reply'[p] = reply[p]
           \/ /\ pc[p] \notin {"done", "crashed"}
              /\ \/ pc'[p] = "done"
                 \/ reply'[p] = reply[p]
BY DepositAssumption
   DEF TypeOK, Next, vars, walletVars, orderVars, redisVars, effectVars,
       workerVars, constVars, requestVars, othersVars, Requests, Goto, End, Create,
       PickAccount, CountOrder, AdjustAmount, StoreOrder, StoreFails, IndexOrder,
       ScheduleOrder, Elapse, Notify, Pay, FindOrder, TakeOrder, Report, LoadOrder,
       SettleOrder, SettleFails, CreditWallet, CreditReturns, TellOthers, Finish,
       CleanUp, Complete, ReadFails, Crash, Worker, Poll, BatchDone, ExpireFails,
       WorkerCleanUp, WorkerRestarts, ReadOrder, ReadOrderFails, Expire, Wallet

\* The steps of a notice, in the order of the code.
Follows(n) ==
    \/ pc[n] = "idle" /\ pc'[n] \in {"match", "report"}
    \/ pc[n] = "match" /\ pc'[n] = "take"
    \/ pc[n] = "take" /\ pc'[n] = "report"
    \/ pc[n] = "report" /\ pc'[n] = "load"
    \/ pc[n] = "load" /\ pc'[n] = "settle" /\ status[target[n]] = "pending"
    \/ pc[n] = "settle" /\ pc'[n] = "credit" /\ target[n] \in settled'
    \/ pc[n] = "credit" /\ pc'[n] \in {"crediting", "tell"}
    \/ pc[n] = "crediting" /\ pc'[n] = "tell"
    \/ pc[n] = "tell" /\ pc'[n] = "cleanup"
    \/ pc'[n] \in {pc[n], "done", "crashed"}

LEMMA NoticeStep ==
    ASSUME TypeOK, [Next]_vars, NEW n \in Notices
    PROVE  /\ Follows(n)
           /\ target'[n] = target[n] \/ pc[n] \in {"idle", "match"}
           /\ n \in late' => n \in late \/ (Report(n) /\ status[target[n]] # "pending")
           /\ n \in commissions' \cup webhooks' =>
                  n \in commissions \cup webhooks \/ (pc[n] = "tell" /\ pc'[n] = "cleanup")
           /\ reply'[n] = "ok" => reply[n] = "ok" \/ pc[n] = "cleanup"
           /\ settled \subseteq settled'
<1>1. Follows(n)
  BY DepositAssumption
     DEF Follows, TypeOK, Next, vars, walletVars, orderVars, redisVars, effectVars,
         workerVars, constVars, requestVars, othersVars, Requests, Goto, End,
         Create, PickAccount, CountOrder, AdjustAmount, StoreOrder, StoreFails,
         IndexOrder, ScheduleOrder, Elapse, Notify, Pay, FindOrder, TakeOrder,
         Report, LoadOrder, SettleOrder, SettleFails, CreditWallet, CreditReturns,
         TellOthers, Finish, CleanUp, Complete, ReadFails, Crash, Worker, Poll,
         BatchDone, ExpireFails, WorkerCleanUp, WorkerRestarts, ReadOrder,
         ReadOrderFails, Expire, Wallet
<1>2. target'[n] = target[n] \/ pc[n] \in {"idle", "match"}
  BY DEF TypeOK, Next, vars, walletVars, orderVars, redisVars, effectVars,
         workerVars, constVars, requestVars, othersVars, Requests, Goto, End,
         Create, PickAccount, CountOrder, AdjustAmount, StoreOrder, StoreFails,
         IndexOrder, ScheduleOrder, Elapse, Notify, Pay, FindOrder, TakeOrder,
         Report, LoadOrder, SettleOrder, SettleFails, CreditWallet, CreditReturns,
         TellOthers, Finish, CleanUp, Complete, ReadFails, Crash, Worker, Poll,
         BatchDone, ExpireFails, WorkerCleanUp, WorkerRestarts, ReadOrder,
         ReadOrderFails, Expire, Wallet
<1>3. n \in late' => n \in late \/ (Report(n) /\ status[target[n]] # "pending")
  <2>1. UNCHANGED late \/ \E m \in Notices : Report(m)
    BY DEF Next, vars, walletVars, orderVars, redisVars, effectVars, workerVars,
           constVars, requestVars, othersVars, Requests, Create, PickAccount,
           CountOrder, AdjustAmount, StoreOrder, StoreFails, IndexOrder,
           ScheduleOrder, Elapse, Notify, Pay, FindOrder, TakeOrder, LoadOrder,
           SettleOrder, SettleFails, CreditWallet, CreditReturns, TellOthers,
           Finish, CleanUp, ReadFails, Crash, Worker, Poll, BatchDone, ExpireFails,
           WorkerCleanUp, WorkerRestarts, ReadOrder, ReadOrderFails, Expire, Wallet
  <2>. QED
    BY <2>1 DEF Report
<1>4. n \in commissions' \cup webhooks' =>
         n \in commissions \cup webhooks \/ (pc[n] = "tell" /\ pc'[n] = "cleanup")
  <2>1. UNCHANGED <<commissions, webhooks>> \/ \E m \in Notices : TellOthers(m)
    BY DEF Next, vars, walletVars, orderVars, redisVars, effectVars, workerVars,
           constVars, requestVars, othersVars, Requests, Create, PickAccount,
           CountOrder, AdjustAmount, StoreOrder, StoreFails, IndexOrder,
           ScheduleOrder, Elapse, Notify, Pay, FindOrder, TakeOrder, Report,
           LoadOrder, SettleOrder, SettleFails, CreditWallet, CreditReturns,
           Finish, CleanUp, ReadFails, Crash, Worker, Poll, BatchDone, ExpireFails,
           WorkerCleanUp, WorkerRestarts, ReadOrder, ReadOrderFails, Expire, Wallet
  <2>. QED
    BY <2>1 DEF TellOthers, Goto, TypeOK, Requests
<1>5. reply'[n] = "ok" => reply[n] = "ok" \/ pc[n] = "cleanup"
  BY DepositAssumption
     DEF TypeOK, Next, vars, walletVars, orderVars, redisVars, effectVars,
         workerVars, constVars, requestVars, othersVars, Requests, Goto, End,
         Create, PickAccount, CountOrder, AdjustAmount, StoreOrder, StoreFails,
         IndexOrder, ScheduleOrder, Elapse, Notify, Pay, FindOrder, TakeOrder,
         Report, LoadOrder, SettleOrder, SettleFails, CreditWallet, CreditReturns,
         TellOthers, Finish, CleanUp, Complete, ReadFails, Crash, Worker, Poll,
         BatchDone, ExpireFails, WorkerCleanUp, WorkerRestarts, ReadOrder,
         ReadOrderFails, Expire, Wallet
<1>6. settled \subseteq settled'
  BY DEF Next, vars, walletVars, orderVars, redisVars, effectVars, workerVars,
         constVars, requestVars, othersVars, Requests, Goto, End, Create,
         PickAccount, CountOrder, AdjustAmount, StoreOrder, StoreFails, IndexOrder,
         ScheduleOrder, Elapse, Notify, Pay, FindOrder, TakeOrder, Report,
         LoadOrder, SettleOrder, SettleFails, CreditWallet, CreditReturns,
         TellOthers, Finish, CleanUp, Complete, ReadFails, Crash, Worker, Poll,
         BatchDone, ExpireFails, WorkerCleanUp, WorkerRestarts, ReadOrder,
         ReadOrderFails, Expire, Wallet
<1>. QED
  BY <1>1, <1>2, <1>3, <1>4, <1>5, <1>6

LEMMA OrderStep ==
    ASSUME TypeOK, [Next]_vars, NEW o \in Orders
    PROVE  /\ pc'[o] \in {"idle", "count", "adjust", "create"} =>
                  pc[o] \in {"idle", "count", "adjust", "create"}
           /\ pc'[o] \in {"index", "schedule"} =>
                  pc[o] \in {"index", "schedule"} \/ status'[o] # "absent"
           /\ reply'[o] = "ok" => reply[o] = "ok" \/ pc[o] = "schedule"
           /\ o \in pending' => o \in pending \/ pc[o] = "index"
BY DepositAssumption
   DEF TypeOK, Next, vars, walletVars, orderVars, redisVars, effectVars,
       workerVars, constVars, requestVars, othersVars, Requests, Goto, End, Create,
       PickAccount, CountOrder, AdjustAmount, StoreOrder, StoreFails, IndexOrder,
       ScheduleOrder, Elapse, Notify, Pay, FindOrder, TakeOrder, Report, LoadOrder,
       SettleOrder, SettleFails, CreditWallet, CreditReturns, TellOthers, Finish,
       CleanUp, Complete, ReadFails, Crash, Worker, Poll, BatchDone, ExpireFails,
       WorkerCleanUp, WorkerRestarts, ReadOrder, ReadOrderFails, Expire, Wallet

LEMMA TargetStep ==
    ASSUME TypeOK, [Next]_vars, NEW n \in Notices, pc[n] \in {"idle", "match"}
    PROVE  \/ pc'[n] \in {"idle", "match", "done", "crashed"}
           \/ target'[n] = job[n].order /\ reply[job[n].order] = "ok"
           \/ target'[n] \in Candidates(n)
BY DepositAssumption
   DEF TypeOK, Next, vars, walletVars, orderVars, redisVars, effectVars,
       workerVars, constVars, requestVars, othersVars, Requests, Goto, End, Create,
       PickAccount, CountOrder, AdjustAmount, StoreOrder, StoreFails, IndexOrder,
       ScheduleOrder, Elapse, Notify, Pay, FindOrder, TakeOrder, Report, LoadOrder,
       SettleOrder, SettleFails, CreditWallet, CreditReturns, TellOthers, Finish,
       CleanUp, Complete, ReadFails, Crash, Worker, Poll, BatchDone, ExpireFails,
       WorkerCleanUp, WorkerRestarts, ReadOrder, ReadOrderFails, Expire, Wallet

LEMMA WorkerStep ==
    ASSUME TypeOK, [Next]_vars
    PROVE  \/ current' \in {current, None}
           \/ current' \in Orders /\ status[current'] = "pending"
BY DEF TypeOK, Next, vars, walletVars, orderVars, redisVars, effectVars,
       workerVars, constVars, requestVars, othersVars, Requests, Goto, End, Create,
       PickAccount, CountOrder, AdjustAmount, StoreOrder, StoreFails, IndexOrder,
       ScheduleOrder, Elapse, Notify, Pay, FindOrder, TakeOrder, Report, LoadOrder,
       SettleOrder, SettleFails, CreditWallet, CreditReturns, TellOthers, Finish,
       CleanUp, Complete, ReadFails, Crash, Worker, Poll, BatchDone, ExpireFails,
       WorkerCleanUp, WorkerRestarts, ReadOrder, ReadOrderFails, Expire, Wallet

-----------------------------------------------------------------------------
(* The inductive invariant is one                                          *)

LEMMA StoredStays ==
    ASSUME TypeOK, [Next]_vars, NEW o \in Orders, status[o] # "absent"
    PROVE  status'[o] # "absent"
BY StatusStep

LEMMA StoredFirstStep ==
    ASSUME Inductive, [Next]_vars, NEW o \in Orders
    PROVE  StoredFirst(o)'
<1>. TypeOK /\ StoredFirst(o)
  BY DEF Inductive
<1>1. pc'[o] \in {"idle", "count", "adjust", "create"} => status'[o] = "absent"
  <2>. SUFFICES ASSUME pc'[o] \in {"idle", "count", "adjust", "create"}
       PROVE  status'[o] = "absent"
    OBVIOUS
  <2>1. status[o] = "absent"
    BY OrderStep DEF StoredFirst
  <2>2. \A n \in Notices : pc[n] = "settle" => target[n] # o
    BY <2>1 DEF Inductive, HasOrder, CompleteSteps
  <2>3. current # o
    BY <2>1, DepositAssumption DEF Inductive, WorkerKnowsStored
  <2>. QED
    BY <2>1, <2>2, <2>3, StatusStep
<1>2. pc'[o] \in {"index", "schedule"} \/ reply'[o] = "ok" \/ o \in pending'
        => status'[o] # "absent"
  BY OrderStep, StoredStays DEF StoredFirst
<1>. QED
  BY <1>1, <1>2 DEF StoredFirst

LEMMA AnsweredStep ==
    ASSUME Inductive, [Next]_vars, NEW p \in Requests
    PROVE  AnsweredAtEnd(p)'
BY RequestStep DEF Inductive, AnsweredAtEnd

\* A notice gets its order from a client who was told of it, from the index or
\* from the table, and keeps it.
LEMMA HasOrderStep ==
    ASSUME Inductive, [Next]_vars, NEW n \in Notices
    PROVE  HasOrder(n)'
<1>. TypeOK /\ HasOrder(n)
  BY DEF Inductive
<1>1. CASE pc[n] \in {"idle", "match"} /\ n \notin late
  <2>1. n \notin late'
    BY <1>1, NoticeStep DEF Report
  <2>2. ASSUME pc'[n] \notin {"idle", "match", "done", "crashed"}
        PROVE  target'[n] \in Orders /\ status[target'[n]] # "absent"
    <3>1. CASE target'[n] = job[n].order /\ reply[job[n].order] = "ok"
      BY <3>1 DEF Inductive, TypeOK, Jobs, StoredFirst
    <3>2. CASE target'[n] \in Candidates(n)
      BY <3>2 DEF Candidates, PendingWith, Inductive, TypeOK, StoredFirst
    <3>. QED
      BY <1>1, <2>2, <3>1, <3>2, TargetStep
  <2>. QED
    BY <2>1, <2>2, StoredStays DEF HasOrder, CompleteSteps
<1>2. CASE n \in late /\ target'[n] = target[n]
  BY <1>2, StoredStays DEF HasOrder
<1>3. CASE pc[n] \notin {"idle", "match"}
  <2>1. target'[n] = target[n] /\ Follows(n)
    BY <1>3, NoticeStep
  <2>2. pc'[n] \in {"take", "report"} \cup CompleteSteps \/ n \in late' =>
           pc[n] \in {"take", "report"} \cup CompleteSteps \/ n \in late
    BY <1>3, <2>1, NoticeStep DEF Follows, CompleteSteps, Report
  <2>. QED
    BY <2>1, <2>2, StoredStays DEF HasOrder
<1>. QED
  BY <1>1, <1>2, <1>3 DEF Inductive, LateIsStopped

LEMMA EffectsStep ==
    ASSUME Inductive, [Next]_vars, NEW n \in Notices
    PROVE  EffectsInOrder(n)'
<1>1. TypeOK /\ EffectsInOrder(n)
  BY DEF Inductive
<1>2. ASSUME pc[n] \notin {"idle", "match"}
      PROVE  target'[n] = target[n]
  BY <1>1, <1>2, NoticeStep
<1>. QED
  BY <1>1, <1>2, NoticeStep DEF EffectsInOrder, Follows

LEMMA OnlyCreditsStep ==
    ASSUME Inductive, [Next]_vars
    PROVE  OnlyCredits'
<1>. TypeOK
  BY DEF Inductive
<1>. SUFFICES ASSUME NEW c \in flying' \cup entries'
     PROVE  /\ c.by \in Notices
            /\ c = Credit(c.by)'
            /\ target'[c.by] \in settled'
            /\ pc'[c.by] \in {"crediting", "tell", "cleanup", "done", "crashed"}
  BY DEF OnlyCredits
<1>1. CASE c \in flying \cup entries
  <2>1. /\ c.by \in Notices
        /\ c = Credit(c.by)
        /\ target[c.by] \in settled
        /\ pc[c.by] \in {"crediting", "tell", "cleanup", "done", "crashed"}
    BY <1>1 DEF Inductive, OnlyCredits
  <2>. QED
    BY <2>1, NoticeStep DEF Follows, Credit
<1>2. ASSUME NEW n \in Notices, c = Credit(n), pc[n] = "credit", CreditWallet(n)
      PROVE  /\ c.by \in Notices
             /\ c = Credit(c.by)'
             /\ target'[c.by] \in settled'
             /\ pc'[c.by] \in {"crediting", "tell", "cleanup", "done", "crashed"}
  <2>1. c.by = n /\ target'[n] = target[n] /\ settled' = settled
    BY <1>2 DEF CreditWallet, Credit, orderVars
  <2>2. target[n] \in settled
    BY <1>2 DEF Inductive, EffectsInOrder
  <2>3. pc'[n] \in {"crediting", "tell"}
    BY <1>2 DEF CreditWallet, Goto, TypeOK, Requests
  <2>. QED
    BY <1>2, <2>1, <2>2, <2>3 DEF Credit
<1>. QED
  BY <1>1, <1>2, CallsStep

LEMMA LateStep ==
    ASSUME Inductive, [Next]_vars, NEW n \in Notices
    PROVE  LateIsStopped(n)'
<1>. TypeOK
  BY DEF Inductive
<1>1. CASE n \in late
  <2>1. /\ pc[n] \in {"load", "done", "crashed"} /\ status[target[n]] # "pending"
        /\ reply[n] # "ok" /\ n \notin commissions \cup webhooks
        /\ \A c \in flying \cup entries : c.by # n
        /\ target[n] \in Orders /\ status[target[n]] # "absent"
    BY <1>1 DEF Inductive, LateIsStopped, HasOrder
  <2>2. target'[n] = target[n] /\ pc'[n] \in {"load", "done", "crashed"}
    BY <2>1, NoticeStep DEF Follows
  <2>3. status'[target[n]] # "pending"
    <3>1. pc[target[n]] # "create"
      BY <2>1 DEF Inductive, StoredFirst
    <3>. QED
      BY <2>1, <3>1, StatusStep
  <2>4. reply'[n] # "ok" /\ n \notin commissions' \cup webhooks'
    BY <2>1, NoticeStep
  <2>5. \A c \in flying' \cup entries' : c.by # n
    BY <2>1, CallsStep DEF Credit
  <2>. QED
    BY <2>2, <2>3, <2>4, <2>5 DEF LateIsStopped
<1>2. CASE n \notin late /\ Report(n) /\ status[target[n]] # "pending"
  <2>1. /\ pc[n] = "report" /\ pc'[n] = "load" /\ target' = target
        /\ UNCHANGED <<status, reply, commissions, webhooks, flying, entries>>
    BY <1>2 DEF Report, Goto, TypeOK, Requests, orderVars, effectVars, walletVars
  <2>2. reply[n] # "ok" /\ n \notin commissions \cup webhooks
    BY <2>1 DEF Inductive, AnsweredAtEnd, EffectsInOrder, Requests
  <2>3. \A c \in flying \cup entries : c.by # n
    BY <2>1 DEF Inductive, OnlyCredits
  <2>. QED
    BY <1>2, <2>1, <2>2, <2>3 DEF LateIsStopped
<1>3. CASE n \notin late'
  BY <1>3 DEF LateIsStopped
<1>. QED
  BY <1>1, <1>2, <1>3, NoticeStep

LEMMA WorkerKnowsStep ==
    ASSUME Inductive, [Next]_vars
    PROVE  WorkerKnowsStored'
BY WorkerStep, StoredStays, DepositAssumption
   DEF Inductive, TypeOK, WorkerKnowsStored

LEMMA InductiveInvariant == Spec => []Inductive
<1>1. Init => Inductive
  <2>. SUFFICES ASSUME Init
       PROVE  Inductive
    OBVIOUS
  <2>1. TypeOK
    BY DepositAssumption
       DEF Init, WalletInit, TypeOK, Statuses, Steps, WorkerSteps, Requests, Jobs
  <2>2. \A n \in Notices : HasOrder(n) /\ EffectsInOrder(n) /\ LateIsStopped(n)
    BY DepositAssumption
       DEF Init, WalletInit, HasOrder, CompleteSteps, EffectsInOrder,
              LateIsStopped, Requests
  <2>. QED
    BY <2>1, <2>2, DepositAssumption
       DEF Init, WalletInit, Inductive, StoredFirst, AnsweredAtEnd, OnlyCredits,
              WorkerKnowsStored, Requests
<1>2. Inductive /\ [Next]_vars => Inductive'
  BY TypeStep, StoredFirstStep, AnsweredStep, HasOrderStep, EffectsStep,
     OnlyCreditsStep, LateStep, WorkerKnowsStep
     DEF Inductive
<1>. QED
  BY <1>1, <1>2, PTL DEF Spec

-----------------------------------------------------------------------------
(* What the merchant can rely on                                           *)

\* The variables keep their types, and the worker has an order in hand exactly
\* between its read and the end of its cleaning, through failures and restarts.
THEOREM TypeCorrect == Spec => []TypeOK
<1>1. Inductive => TypeOK
  BY DEF Inductive
<1>. QED
  BY <1>1, InductiveInvariant, PTL

\* No report that comes after its order was closed moves money, earns a
\* commission, sends a webhook or is told "ok" (deposit.go:297-311): nothing in
\* the service opens a closed order again.
THEOREM LateReportsAreRefused == Spec => []LateReportIsRefused
<1>1. Inductive => LateReportIsRefused
  BY DEF Inductive, TypeOK, LateIsStopped, LateReportIsRefused, Credit
<1>. QED
  BY <1>1, InductiveInvariant, PTL

\* Whatever replies are lost, an effect of a deposit shows only what the table
\* was set to (deposit.go:333-466).
THEOREM EffectsComeAfter == Spec => []EffectsFollowCompletion
<1>1. Inductive => EffectsFollowCompletion
  BY DEF Inductive, OnlyCredits, EffectsInOrder, EffectsFollowCompletion, Credit
<1>. QED
  BY <1>1, InductiveInvariant, PTL
-----------------------------------------------------------------------------
(* When an order is final                                                  *)

\* Who updates a stored order has it in hand.
LEMMA UpdateStep ==
    ASSUME TypeOK, [Next]_vars, NEW o \in Orders, pc[o] # "create"
    PROVE  /\ status'[o] # status[o] => InHand(o)
           /\ o \in settled' => o \in settled \/ InHand(o)
BY DepositAssumption
   DEF TypeOK, Next, vars, walletVars, orderVars, redisVars, effectVars,
       workerVars, constVars, requestVars, othersVars, Requests, Goto, End,
       Create, PickAccount, CountOrder, AdjustAmount, StoreOrder, StoreFails,
       IndexOrder, ScheduleOrder, Elapse, Notify, Pay, FindOrder, TakeOrder,
       Report, LoadOrder, SettleOrder, SettleFails, CreditWallet, CreditReturns,
       TellOthers, Finish, CleanUp, Complete, ReadFails, Crash, Worker, Poll,
       BatchDone, ExpireFails, WorkerCleanUp, WorkerRestarts, ReadOrder,
       ReadOrderFails, Expire, Wallet, InHand

\* An order is taken in hand while it is pending.
LEMMA TakeInHandStep ==
    ASSUME TypeOK, [Next]_vars, NEW o \in Orders
    PROVE  InHand(o)' => InHand(o) \/ status[o] = "pending"
<1>1. ASSUME NEW n \in Notices, pc'[n] = "settle", target'[n] = o
      PROVE  InHand(o) \/ status[o] = "pending"
  BY <1>1, NoticeStep DEF Follows, InHand
<1>2. ASSUME wpc' = "expire", current' = o
      PROVE  InHand(o) \/ status[o] = "pending"
  BY <1>2
     DEF TypeOK, Next, vars, walletVars, orderVars, redisVars, effectVars,
         workerVars, constVars, requestVars, othersVars, Requests, Goto, End,
         Create, PickAccount, CountOrder, AdjustAmount, StoreOrder, StoreFails,
         IndexOrder, ScheduleOrder, Elapse, Notify, Pay, FindOrder, TakeOrder,
         Report, LoadOrder, SettleOrder, SettleFails, CreditWallet, CreditReturns,
         TellOthers, Finish, CleanUp, Complete, ReadFails, Crash, Worker, Poll,
         BatchDone, ExpireFails, WorkerCleanUp, WorkerRestarts, ReadOrder,
         ReadOrderFails, Expire, Wallet, InHand
<1>. QED
  BY <1>1, <1>2 DEF InHand

LEMMA ClosedStep ==
    ASSUME Inductive, [Next]_vars, NEW o \in Orders, Closed(o)
    PROVE  /\ Closed(o)'
           /\ status'[o] = status[o]
           /\ o \in settled' <=> o \in settled
<1>1. TypeOK /\ pc[o] # "create"
  BY DEF Inductive, StoredFirst, Closed
<1>2. status'[o] = status[o] /\ (o \in settled' => o \in settled)
  BY <1>1, UpdateStep DEF Closed
<1>3. settled \subseteq settled'
  BY DEF Next, vars, walletVars, orderVars, redisVars, effectVars, workerVars,
         constVars, requestVars, othersVars, Requests, Goto, End, Create,
         PickAccount, CountOrder, AdjustAmount, StoreOrder, StoreFails, IndexOrder,
         ScheduleOrder, Elapse, Notify, Pay, FindOrder, TakeOrder, Report,
         LoadOrder, SettleOrder, SettleFails, CreditWallet, CreditReturns,
         TellOthers, Finish, CleanUp, Complete, ReadFails, Crash, Worker, Poll,
         BatchDone, ExpireFails, WorkerCleanUp, WorkerRestarts, ReadOrder,
         ReadOrderFails, Expire, Wallet
<1>4. ~ InHand(o)'
  BY <1>1, TakeInHandStep DEF Closed
<1>. QED
  BY <1>2, <1>3, <1>4 DEF Closed

\* A completed or expired order that nobody has in hand is final: no report, no
\* tick of the worker and no restart changes its status again.
THEOREM ClosedIsFinal == Spec => ClosedStays
<1>. DEFINE Stay == \A o \in Orders : Closed(o) =>
                      /\ Closed(o)'
                      /\ status'[o] = status[o]
                      /\ o \in settled' <=> o \in settled
<1>1. Inductive /\ [Next]_vars => [Stay]_vars
  BY ClosedStep
<1>. QED
  BY <1>1, InductiveInvariant, PTL DEF Spec, ClosedStays

\* An order that expired, was never set to completed, and is in nobody's hand
\* is never paid: no money, commission or webhook for it, then or later.
THEOREM ExpiredIsNeverPaid ==
    ASSUME NEW o \in Orders
    PROVE  Spec => [](Closed(o) /\ o \notin settled => []Unpaid(o))
<1>. DEFINE Over == Closed(o) /\ o \notin settled
<1>1. Inductive /\ Over /\ [Next]_vars => Over'
  BY ClosedStep
<1>2. Inductive /\ Over => Unpaid(o)
  BY DEF Inductive, OnlyCredits, EffectsInOrder, Unpaid, Credit
<1>. HIDE DEF Over
<1>3. Spec => [](Over => []Unpaid(o))
  BY <1>1, <1>2, InductiveInvariant, PTL DEF Spec
<1>. QED
  BY <1>3 DEF Over

=============================================================================
