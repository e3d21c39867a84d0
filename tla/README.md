# A verification of RichPayment

RichPayment is a payment platform written in Go: merchants take deposits from customers through
bank transfers, hold the money in wallets, and withdraw it. A dozen services share one PostgreSQL
database and one Redis and call each other over HTTP. This directory holds TLA+ models of the
services that keep state, the TLC configurations that check them, and TLAPS proofs about all of them.

| Module | What it is |
|---|---|
| `Wallet` | the wallet service, call by call, over PostgreSQL and the Redis lock |
| `AtomicWallet` | what the wallet service promises: each request at one instant or not at all |
| `WalletProofs` | theorems about `Wallet`, for every value of its constants |
| `WalletCalls` | the wallet service as its clients see it: requests in flight |
| `Withdrawal` | the withdrawal service over `WalletCalls` |
| `WithdrawalProofs` | theorems about `Withdrawal` |
| `Deposit` | the order service (create, match, complete, expire) over `WalletCalls` |
| `DepositProofs` | theorems about `Deposit` |
| `Webhook` | the notification service: webhooks, their queue in Redis and the retry workers |
| `WebhookProofs` | theorems about `Webhook` |
| `Commission` | the commission service: the split, the record, the credits, the reports |
| `CommissionBook` | what the commission service promises of its tables |
| `Scheduler` | the scheduler service over the tables of `Commission` |
| `BooksProofs` | theorems about `Commission` and `Scheduler`, and about sums over finite sets |
| `Bank` | the bank service: daily counters, the automatic switch, the pools, transfers |
| `BankProofs` | theorems about `Bank` |
| `Sms` | the parser service: an SMS of a bank becomes a match that waits for verification |
| `Slip` | the Telegram bot: the photo of a slip becomes a verified slip |
| `Intake` | `Sms` and `Slip`, the two ways a payment is reported |
| `IntakeProofs` | theorems about `Sms` and `Slip` |
| `Accounts` | the user service: the accounts of the four kinds, and their updates |
| `Access` | the auth service over the rows of `Accounts`: logins and sessions |
| `AccessProofs` | theorems about `Accounts` and `Access` |
| `Services` | `Intake`, `Webhook` and `Bank`, which share nothing, for one run |
| `MC...` | instances for TLC; the `.cfg` files name one run each |

`Withdrawal` and `Deposit` extend `WalletCalls`, `Scheduler` extends `Commission`, `Access` extends
`Accounts`, `Intake` extends `Sms` and `Slip`, `Services` extends `Intake`, `Webhook` and `Bank`.
`Wallet` instantiates `AtomicWallet` and `WalletCalls`, and `Commission` instantiates `CommissionBook`:
the specifications they are shown to implement.

## 1. Inventory

| Component (under `services/` unless said otherwise) | State it keeps | Operations | Hard behaviour | What makes it correct |
|---|---|---|---|---|
| wallet | tables `wallets`, `wallet_ledger`; Redis `wallet_lock:{id}` | Credit, Debit, Hold, Release, EnsureWalletExists, reads | a Redis lock with a TTL around a transaction with a row lock and a version; lost replies of COMMIT; crashes; decimals finer than the columns | no negative balance, a ledger that explains the balance, a retry that changes nothing, no lock that stays |
| order | table `deposit_orders`; Redis `pending_orders:{account}`, `expiry_orders`, `account_pool:{merchant}` | create, match by amount or by age, complete, expire | two stores without a transaction; updates `WHERE id` only; dropped errors; completion racing expiry | effects only after the completion, no effect of a late report, an order that ends |
| withdrawal | table `withdrawals`, or a map in memory | create, approve, reject, complete, list | checks on status and funds that are stale when used; compensation after a failed insert; restarts | money moves once, rows are covered, nothing is paid without approval |
| commission | tables `commissions`, `commission_daily_summary`; writes `wallets` directly; a Redis cache of the daily report | calculate and record a split, daily and monthly report | three statements without a transaction; three roundings; a cache beside an upsert | credits are covered by fees; the answer is true; no report runs ahead of the rows |
| scheduler | a `Running` flag per job; the partitions of the large tables; archive files | run jobs on a tick or by name: aggregate, create partitions, archive | the flag is set by the goroutine that the ticker starts; calendar arithmetic; a shell pipeline | repeated and overlapping jobs do no harm; recent rows stay readable; what is dropped is archived |
| bank | tables `bank_accounts`, `transfers`; Redis pools and daily counters | select an account, count receipts, switch automatically, rebuild a pool, transfer | a counter read after it was changed; rebuilds that overlap; pipelines that are no transactions | a full account is closed; a disabled one leaves the pools |
| parser | table `sms_messages`; Redis duplicate marks, rates, anomaly flags, pending verifications | receive an SMS, detect anomalies, parse, match, score | a mark set before the message is stored; two look-ups of one order; errors that let a message pass | an SMS is stored once; a match is backed by an order |
| telegram | table `slip_verifications`, or a slice in memory; an offset in memory | take a photo, verify it with EasySlip, answer | duplicate checks before an insert that fails; updates delivered again; a cancelled context; a slice without a lock | one transfer is verified once; nothing is its own duplicate |
| notification | table of deliveries; Redis sorted set `webhook_retry_queue` and payloads | send a webhook, retry it, give up | a claim before the attempt, a stop between them; a payload and a queue that expire and change apart; a request whose client gives up; a nil that means "queued" | at most five attempts, by one owner at a time; receipts and answers that are true |
| user | tables `admins`, `merchants`, `agents`, `partners`, or maps in memory | create, read, list, update, revoke a key | a read before each update; updates that overlap | updates stand; who is told "updated" was written |
| auth | columns of the tables of user; Redis sessions and a counter per address | log in, validate, log out | a counter in Redis with a TTL and one in the row, both changed in several steps | the address keeps its budget; a lock takes consecutive failures; a suspended account does not get in |
| gateway | none | forward | rate limits as single Redis commands | - |
| `pkg/database`, `pkg/httpclient`, `pkg/middleware` | none | lock, HTTP, HMAC, ACL | timeouts, no retry | the lock's owner alone releases it |
| `migrations`, `web/admin`, `proto`, `tests` | the schema | - | column widths, NULLs, partitions | - |

**Interaction.** Services call each other with JSON over HTTP through `pkg/httpclient/client.go`:
one POST, no retry, a ten second timeout. The order service calls wallet (credit), commission and
notification when a deposit completes; the withdrawal service calls wallet (balance, debit for the
hold, credit for the release) and commission. The commission service updates `wallets` itself. The
scheduler works on the tables of the commission service. The auth and the user service share rows.
The only shared memory is PostgreSQL and Redis. Nothing under `services/` calls the match and
complete endpoints of the order service: parser and bot look orders up by themselves and stop
there. Their client is therefore external in `Deposit`, and `Intake` ends where their code ends.

## 2. How the modules correspond to the code

Every action stands for one statement, Redis command or HTTP call with the code around it, so that
processes overlap where goroutines and instances can. A call fails, fails with its effect done, or
succeeds; both branches are in the action.

### Wallet (`services/wallet/internal/service/wallet.go`, `pkg/database/redis.go`)

One process is one goroutine serving one request; a client that repeats a request is a second
process with an equal one. `pc[p]` names the next call to Redis or PostgreSQL:

`Submit` -> `CheckRef` (LedgerEntryExistsByRef) -> `AcquireLock` (SETNX) -> `BeginTx` ->
`GetByIDForUpdate` -> `UpdateBalanceInTx` -> `CreateLedgerEntryInTx` -> `Commit` -> `ReleaseLock`,
with `WalletNotFound`, `Rollback` and the refusals in between. Two deferred calls run in reverse
order (rollback, then the Redis release), which the steps `rollback` and `unlock` keep. The
outcome of the request is chosen where the code chooses it and told when `pc` is `done`.

State: `row` and `ledger` are the committed tables, `rowLock` the row lock of PostgreSQL, `lock`
the Redis key with the value of its owner, `snap` the row as `SELECT ... FOR UPDATE` returned it.
The writes of a transaction become visible with `Apply`, at the COMMIT.

Faults: any statement may fail (`StatementFails`), SETNX may fail with or without its effect, a
COMMIT may succeed with its reply lost (`Commit` answering `error`), the release may fail, the TTL
may run out at any time, a process may crash at any call, and a COMMIT that was on its way when its
process died is decided later (`DatabaseCommits`, `DatabaseAborts`).

Data: money is counted in tenths of a satang. Requests carry decimals of any precision; `Stored` is
the rounding to NUMERIC(14,2) on the way in, and `FitsColumn` its range. `late` and the entry field
`by` are history.

### AtomicWallet

Two actions: `Post` (a request takes effect at once, for all of its amount, never beyond what the
wallet holds) and `Reply`. `Wallet!KeepsPromise` maps the committed tables to it: a request takes
effect when its transaction commits.

### WalletCalls

The client side of that promise, used by the services above the wallet: the reference is looked up
when the call arrives (`Skip` or `Accept`), the call is in flight, and it is settled or refused
later, also after the client has stopped waiting. The gap between the look-up and the settlement is
the one `Wallet` has between `CheckRef` and `Commit`.

`Wallet!ServesItsClients` maps `Wallet` to it: a call is in flight from a look-up that found nothing to the
commit or the failure, an entry of the ledger is a settled call, and the balance is the row's. It is for one
wallet, the merchant's, and for clients like the two services (`ClientsOfMerchant`): they credit and debit,
an amount above zero that depends on the reference alone, and keep a reference to one wallet.

### Withdrawal (`services/withdrawal/internal/service/withdrawal.go`)

Each withdrawal id is also the request that creates it; each admin request approves, rejects or
completes one id. A step is one call: `SumDailyWithdrawals`, `GetBalance`, `HoldBalance`, the INSERT,
`GetByID`, `ReleaseHold`, `DebitHold`, the commission call, `UpdateStatus`. `HoldBalance` is a
`POST /wallet/debit`, `ReleaseHold` a `POST /wallet/credit` and `DebitHold` a second
`POST /wallet/debit`, all with the id of the withdrawal as `reference_id`, as in the code.

`store` says where the rows are. `cmd/main.go` takes PostgreSQL when DATABASE_URL is set and a map
in memory otherwise. In memory no call to the repository fails and `Restart` forgets all rows. In
PostgreSQL the rows stay, and `GetByID` fails for every row that exists, since it scans three
columns that Create leaves NULL into plain strings (`Readable`): the admin operations then always
end in an error. The runs cover both.

### Deposit (`services/order/internal/service/`)

Orders are rows (`status`, `amount`, `account`) and members of three sorted sets (`pending`,
`expiry`, `load`). A request that creates an order, a report of a payment and the worker are the
processes. A `job` is a report by SMS, matched by amount under either MATCH_STRATEGY, or one that
names the order (slip, email). Each read or write of a store is a step, with errors dropped where
the code drops them (`IndexOrder`, `ScheduleOrder`, `TakeOrder`, `CountOrder`, `CreditWallet`).
The expiry worker takes a batch, and reads and updates one order after the other.

### Webhook (`services/notification/internal/service/webhook.go`, `retry.go`)

A request (`SendWebhook`) and the retry worker of each instance of the service are the processes.
Redis holds the sorted set `queue` (`due` are the members whose score has passed; the score itself,
one of five delays, is not modelled), the payload `data`, and the receipts `delivered` and
`exhausted`. A request posts at once (`Deliver`, which ends in `Delivered` or, counting the attempt,
in `Failed`). A failure leads through `Store` (SET) and `Enqueue` (ZADD), or at the limit through
`MarkExhausted`, `DropData` and `Alert`. A worker takes a batch (`Poll`), claims one key after the
other (`Claim`, ZREM), loads its payload (`Load`) and posts it; success leads through `ForgetData`
and `MarkDelivered`.

Every Redis command may fail without an effect (`CommandFails`) or with one (`Returns`), a payload
may expire (`DataExpires`), a process may stop at any call (`Crash`). `ClientGivesUp` is the
cancellation of `r.Context()`: the order service waits ten seconds, as long as this service waits for
the merchant, so a silent merchant is enough for it. From then on every call of the request fails.

`response` is what the handler says. An error of `SendWebhook` is 202, and nil is 200 "delivered". But nil is
also what `scheduleRetry` returns when the retry is queued (webhook.go:181, 349), so `Enqueue` ends with 200 and
only a request that lost the answer of Redis, was cancelled or is exhausted ends with 202.
`DeliveredIsAcknowledged` states what the handler's comment says of 200, and is violated; `planned`, a history
variable, is what makes the 200 of `OutcomeIsTrue` true.

### Commission (`services/commission/internal/`)

`Calculate` is the handler up to the split: three amounts rounded half away from zero (`Round2`), the
rest for the system, two checks (`SplitFits`). Percentages are fractions of `Scale`, so that a small
`Scale` makes rounding frequent. `InsertCommission`, and for the agent and then the partner an UPDATE
of `wallets` and an INSERT into `wallet_ledger`, are five statements; the request can stop after any of
them. The UPDATE finds a wallet only where the id of the owner is that of a wallet (`Walleted`); the
system's share is not credited, as in the code. `GetDailySummary` fills a cache that lives for five
minutes (`CacheExpires`), the monthly report sums the daily ones.

### CommissionBook

The promise of the commission service, over what it leaves behind: `rows`, `ledger`, and the answer of each
request. `Record` stores at most one row for a request, whose shares make up the fee; `Enter` enters a whole
share of a stored row, the agent's before the partner's; `Answer` tells a request once how it went, "ok" only
when row and shares are there. A `Step` may do one of the first two and answer with it: the last statement of
a request and its answer are one step in `Commission`. `Commission!KeepsBook` maps the tables to themselves.
Balances, percentages and reports are not in the book.

### Scheduler (`services/scheduler/internal/service/`)

An execution of a job is a runner. `StartJob` is the poll loop or an operator who finds `Running`
unset; `BeginJob` is the goroutine that sets it, later: two executions of one job overlap, and the
first to finish removes the mark of the other. A `Restart` forgets them all. `Aggregate` is one query,
`Upsert` one statement per group, `CreatePartition`, `FindOld`, `Dump`, `Detach`, `Drop` one statement or
shell command per partition. The calendar is that of the code: `AddMonths` is `AddDate`, which runs over
into the next month on days that the month does not have. An operator's job runs under the context of
the request that started it, so every statement may fail from any point on.

### Bank (`services/bank/internal/`)

Reports of a deposit, manual switches and manual rebuilds are the processes. A report increments the
counter (`IncrementDailyReceived`), reads the row again (`CheckLimit`) and, at the limit, goes the way of
a switch: `Disable`, `FindAffected`, and for each pool `ReadActive` (PostgreSQL), `DeletePool` and
`AddToPool` (the commands of a Redis pipeline, which the comment at pool.go:162 calls atomic; a pipeline
is not a transaction). `ResetDailyCounters` zeroes the counters and enables no account, whatever the
comment in bank_repo.go says of it. `SelectAccount` is an operator: it asks PostgreSQL only. `behind` is
history: the pools whose last rebuild failed or overlapped another one.

### Sms (`services/parser/internal/service/`)

A post of the SMS gateway claims the hash of the SMS (`IsDuplicate`, SETNX), is checked
(`CheckMessage`), counts itself (`CheckRateAnomaly`), is stored (`StoreMessage`), matched (`MatchOrder`), scored
(`ScoreAmount`, `ScoreAnomaly`) and leaves a `pending_verification` entry. An error of Redis lets it
through (`blind`). The bank formats are regular expressions over texts; of them the model keeps whether
the sender is known, whether a parser claims the text and whether it parses. Orders appear and go at any
time (`OrderPlaced`, `OrderGone`), and a clock with `Horizon` drives the time window and the keys' TTL.

### Slip (`services/telegram/internal/service/`)

An update comes by long polling (`GetUpdates`, `BeginUpdate`, `EndUpdate`, with `offset` in memory) or by
webhook (`HandleWebhook`, which answers before the goroutine is done; `ContextEnds` cancels the context
the goroutine still holds). `HandlePhoto` is `DownloadPhoto`, `GetByImageHash`, `EasySlip`,
`GetByTransactionRef`, `StoreResult`, `AppendRecord`, `ReplyToGroup`. The status of the download is not looked
at, so the picture may be `ErrorPage`: it is hashed, looked up, refused by EasySlip and recorded.

`repo` says where the records go. With DATABASE_URL they go to PostgreSQL, where no INSERT succeeds: the
`RawResponse` that `storeVerificationResult` leaves empty is cast to JSONB (`InsertFails`), and the error is
only logged. No lookup finds anything then, and every photo of a transfer is verified: `TransferVerifiedOnce`,
violated. Without it they go to the stub, a slice in memory: its lookups do not fail, its append reads the slice
and writes it (`StoreResult`, `AppendRecord`), and goroutines that do so at once write over each other. A
restart (`BotCrashes`) loses the slice, the offset and the goroutines. `accepted` is history: the photos that
were told "verified", each with the restarts before.

### Accounts (`services/user/internal/`)

A request is validated and runs one statement after the other: `Create`; `Find` then `Update` (a
revocation is an update of key and secret); `Count` then `ReadPage`. A field of a row holds the request
that wrote it last, `log` is the order of the updates. `Columns` is the switch of each repository over
field names: PostgreSQL and the in-memory stub differ, and the stub skips a `status` it is sent.
`Insertable` says which INSERTs the schema accepts: those of merchants and agents leave NOT NULL columns
out. `ListedAgents` filters by a column no statement fills. In PostgreSQL no row of a merchant can be read
(`Readable`): `GetMerchantByID` scans the BYTEA `hmac_secret_enc` into a string, so that merchants are updated,
and their keys revoked, on the stub alone.

### Access (`services/auth/internal/service/auth.go`)

A login is `Admit` (INCR of the address's counter, EXPIRE after the first), `FindUser`,
`CheckCredentials`, then `RecordFailedAttempt`, or `ResetFailedAttempts`, `Decrement` (DECR) and
`StoreSession`. The number of failed attempts that is written is the one `FindUser` read, plus one, whatever
was written in between: another failure, or the zero of a success. The second case locks an account before
`MaxFailed` *consecutive* failures (auth.go:39-40, "resets on success" in the schema). `dated` are the logins that
read the counter before a success, `blurred` the accounts whose counter such a login wrote afterwards.
`ValidateSession`, `Logout` and `SessionExpires` end a session. Requests of `Accounts` run beside logins.

## 3. Runs

| Run | Checks | Result |
|---|---|---|
| `wallet_core` | `NonNegative`, `AuditChain`, `TruthfulReply`, `RetryIsHarmless`, `SnapshotCurrent`, `OnlyOwnLockReleased`, `MoneyMovesWithEntry`, `KeepsPromise` (refinement), `WalletComesFree` (liveness) | hold |
| `wallet_retry` | `AtMostOncePerRef` | violated: two equal requests in flight are both applied |
| `withdrawal_core` | `TypeOK`, `MovesMoneyOnce`, `RecordedIsHeld`, `PaidWasApproved`, `TruthfulCreate` | hold |
| `withdrawal_refund` | `RejectedIsRefunded` | violated: the release carries the reference of the hold and is skipped |
| `deposit_core` | `TypeOK`, `LateReportIsRefused`, `EffectsFollowCompletion` | hold |
| `deposit_expiry` | `AcknowledgedOrderEnds` (liveness) | holds, with fairness |
| `webhook_reply` | `DeliveredIsAcknowledged` | violated: a webhook whose first POST failed is answered 200 "delivered" once its retry is queued |
| `books_core` | `TypeOK`, `CreditsAreCovered`, `TruthfulAnswer`, `ReportsNeverAhead`, `RecentRowsReadable` | hold |
| `books_archive` | `DroppedIsArchived` | violated: a failed export ends with the status of gzip, and the partition is dropped |
| `services_core` | `ServicesTypeOK`; of `Webhook`: `OneOwner`, `OutcomeIsTrue`, `NotSentAgain`; of `Bank`: `FullAccountIsClosed`, `DisabledLeavesPools`; of `Sms`: `StoredOnce`, `MatchIsBacked`; of `Slip`: `TransferAcceptedOnce`, `DuplicateHasOriginal` | hold |
| `slip_again` | `TransferVerifiedOnce` | violated: over PostgreSQL each photo of one transfer is verified, as no record is ever stored |
| `access_core` | `TypeOK`, `BudgetIsKept`, `NeverLockedEarly`, `UpdatesStand`, `SuspendedStaysOut` | hold |

Each property of a passing run has a mutant: a plausible bug written next to the operator it
replaces (`CheckRefDropped`, `GetByIDPlain`, `OverLimit`, `IsDuplicateUnclaimed`, ...) that makes the
run fail.

What the violations mean together is worth a remark. `MovesMoneyOnce` holds *because* hold, release
and final debit share one reference and the wallet takes them for one request. The same sharing is
why `RejectedIsRefunded` fails: the money of a rejected withdrawal does not come back. Not in this behaviour
alone: `MoneyNeverComesBack` proves that no release ever takes effect.

Three properties of passing runs are what is left of a claim the code refutes. `TransferAcceptedOnce` is
`TransferVerifiedOnce` for the stub. The last part of `OutcomeIsTrue` is `DeliveredIsAcknowledged` with "or a
retry was queued". `NeverLockedEarly` says "consecutive" of every account but those in `blurred`: without this
exception three logins to one account refute it, a failure that reads the counter before the success of another
and is written after it being the one too many.

### What the models show without a property

Several things that one might expect do not hold, in the models as in the code. No property states
them, since they would be refuted; each is an entry under `hazards` in `PROJECT.json`, or here.

- Amounts finer than a satang are rounded apart in balance and ledger, so `AuditChain` needs whole satang.
  How far apart is proved: `LedgerDriftsByRoundingOnly`, `NoMoneyIsRoundedAway`.
- Withdrawals that overlap can exceed the daily limit. A final status of a withdrawal can be overwritten, though
  only by an admin who had read an earlier one (`FinalIsFinal`); an expired order can be completed, though only
  by a report that had read it as pending (`ClosedIsFinal`).
- Two pending orders of one account can have the same adjusted amount.
- 202 "retry_scheduled" is answered when scheduling failed or its answer was lost, when the attempts are used up, or
  when the merchant acknowledged and the receipt was lost: mostly with nothing in the queue. A retry that was
  scheduled is answered 200. A webhook is lost when the service stops between claim and outcome, or during the
  first attempt.
- A commission can be stored and only in part credited.
- The duplicate mark of an SMS outlives a failed store: the retry that the 500 asks for is a "duplicate".
  On the stub a slip whose verification failed is a "duplicate" when it is sent again, and so is a second error
  page of the file server.
- With the webhook of the bot and the stub two goroutines look before either appends, or one writes over what the
  other appended, and a transfer is verified twice; after a restart it is verified again.
- Failures that overlap count once, so that more than `MaxFailed` of them may lock nobody; a success sets back
  what a failure locked in between, and a failure writes its old count over the reset. The DECR
  of a success can make a counter of -1 that never expires (the comment at auth.go:230-233 excludes it).
- A suspended account keeps its sessions. On the in-memory store a suspension does nothing, and is
  answered "updated".

### Bounds, and why they are enough

- `wallet_core`: two requests drawn from eight, one wallet and one unknown id, two references. One
  request can hold the row while the other takes over the lapsed Redis key; a request can arrive when
  the other's reference is posted, or its effect is done and its reply lost. The opening balance (30,
  held 20) covers one debit and not two, the hold or the debit but not both; a credit of 30 overflows
  `MaxStored` = 50 after another one or not, depending on the order. Wallets do not interact except
  through references, which one wallet and `ghost` show. No symmetry, because of the liveness property.
  The proofs take the safety properties to any number of requests.
- `withdrawal_core`: two withdrawals of 2 out of funds and a limit of 3, so that either fits and
  both do not; three admins, so that two can race while a third follows.
- `deposit_core`: one order, two reports and the worker: the race that matters is between
  reports and expiry of the same order. `deposit_expiry`: two orders, so that one of a batch can fail
  while the other is processed.
- `books_core`: a month of one day and one of two, so that there is a yesterday, a coming month, an old
  one and a subtraction that runs over; one commission, of four inputs with a `Scale` of 10, whose
  roundings add up to more than the fee or do not, with and without a partner and a wallet; two runners,
  so that each job overlaps itself and the others.
- `services_core`: three instances under one roof. `service` names the one at work, the variables of the others
  keep one initial state (`OneAtWork`): what no action of theirs reads cannot matter to it, so the states are the
  sum of the three and not their product. The posts, the workers and the reports of the bank have the same
  model values `p1` and `p2`, so that one symmetry serves all three: no action of one service looks at a process
  of another.
  - `Webhook`: two webhooks and two instances, so that an instance can hold a stale batch while the
    other works through it; five attempts, as in the code. The webhooks are about two orders
    (`OneWebhookPerOrder`), since each order completes once; two webhooks with one key would overwrite
    each other's payload in Redis. What remains then is proved and not run: `OutcomesHaveCauses`.
  - `Bank`: an account that two merchants share and that two reports fill, one that a single report
    fills, one switch and one rebuild: two rebuilds of one pool with a third behind them. The constraint
    `Apart` lets the transfers move only in behaviours in which no request has begun: they share no
    variable with the rest, and no property relates the two.
  - `Sms`: two notifications, one above `HighValue`, and one that is refused; two posts, of one or of
    different ones; an order for each amount; a clock of two minutes around a window of one: one SMS is
    too early, then a minute ahead, then in time; the others are in time, at the end of the window, and old
    with a hash that expires.
  - `Slip`: four photos, of which the first and the third are the same picture, the second another picture of
    that transfer and the last one of another transfer; any of them may come as an error page, which is one
    picture too. Both modes, both repositories, one restart. By polling three are taken, one after the other,
    and again after the restart; over PostgreSQL two between two starts, as none leaves a record the others
    could meet. Of those that come by webhook two are taken (`TwoAtATime`), any two of the four, at any time:
    the same picture, the same transfer or neither.
- `webhook_reply`, `slip_again`: the instances of `Webhook` and `Intake` by themselves.
- `access_core`: three logins of one address, two requests, or one of each (`Loads`): a budget of two,
  which the third login exceeds; a lock after two failures; two windows of the address. They log in to an
  agent with one-time codes, who can be suspended and locked (a merchant can be locked, but not suspended, since
  no update of one is ever made in PostgreSQL), or to a partner, whom the service does not know: accounts meet
  only in the counter of the address. `Loads` keeps the three products apart, since all of them at once is a
  space too large.
- Unbounded counters are capped by constants: `MaxAttempts`, `MaxWindows`, `MaxCrashes`, `Horizon`,
  `MaxFields`, the calendar `Length`, and the number of processes, each of which serves one request.
- `CHECK_DEADLOCK FALSE`: when every request has been answered the models stop, as the services do.

### Fairness

`Wallet!Fairness`: weak fairness of each goroutine that can go on (the Go scheduler), of the database
noticing a dead client, and of each TTL (`DefaultLockTTL`). Nothing is assumed of faults: calls may
fail for ever, requests then end with an error. `Deposit!Fairness`: time passes, the ticker of the
worker ticks, and the read and the update of an order that are repeated at every tick succeed at
last (strong fairness of `ReadOrder` and `Expire`, since failures and restarts disable them again and
again). `AcknowledgedOrderEnds` excludes orders whose ZADD to `expiry_orders` failed (`lost`): the code
drops that error, and such an order stays pending. The other modules state no fairness, and only safety
is claimed of them: their services give up after one failure and nothing repeats the work.

## 4. Proofs

The runs check small instances; the theorems hold for every value of the constants that satisfies the
assumption of its module (`WalletAssumption`, `BankAssumption`, ...). These assumptions say what the
constants are (natural amounts, limits above zero, finite sets of wallets and logins), not how the
services behave. One of them is about input that no code checks: the percentages of a commission are
not negative (`CommissionAssumption`); they come from the configuration of merchants and agents. What a
theorem needs beyond that is an explicit hypothesis of it: `WholeSatang`, `ClientsOfMerchant` and
`OneWebhookPerOrder`, explained below.

All proofs have one form: an invariant `Inductive`, which TLC checked first, a lemma for each of its
conjuncts that a step can disturb, and theorems that read the property off the invariant. What follows
says what each `Inductive` adds to the properties, and why these do not carry themselves.

### `WalletProofs`

Everything is proved from `WalletAssumption` (opening balances are natural and whole satang, requests
are well-typed). Theorems that need more say so: `WholeSatang` (clients send amounts with at most two
decimals) is an explicit hypothesis of `LedgerExplainsBalance`, `MoneyIsJournalled`,
`WalletKeepsPromise` and `WalletServesItsClients`.

1. `TypeCorrect`: types, and `SnapshotCurrent`. A transaction between its SELECT and its COMMIT holds
   the row lock, and the row is what it read. This is the heart of the argument: the Redis lock can
   lapse at any time and contributes nothing to safety.
2. `Invariance`: `Inductive`, which adds that what is about to be written is covered by `snap`, that a
   request has no ledger entry before its COMMIT, and that a request which arrived after its
   reference was posted is stopped by `CheckRef` or before it. None of these follows from the
   properties: `NonNegative` alone is not inductive, since a step from `insert` to COMMIT relies on a
   check two steps earlier.
3. `NeverNegative` (for amounts of any precision: rounding does not turn a non-negative amount into a
   negative one, `StoredIsWhole`), `RetriesAreHarmless`, `RepliesAreTruthful`,
   `EveryVersionIsAudited`, `LedgerExplainsBalance`, `LocksAreReleasedByTheirHolder`,
   `MoneyIsJournalled`.
4. `WalletKeepsPromise`: `Spec => KeepsPromise`. A commit maps to `Post` (`CommitIsPost`), the
   step to `done` to `Reply`, every other step to a stutter (`OtherStepsReply`).
5. Without `WholeSatang`: `LedgerDriftsByRoundingOnly` and `NoMoneyIsRoundedAway`. The columns hold whole satang
   (`RowsWhole`), so the rounded balance differs from the balance less the rounded amount only at half a satang,
   which rounds up in the one and away from zero in the other. The first theorem says so of each entry, the
   second of balance and hold together: a wallet gains at most one satang on a request and loses none.
6. `WalletServesItsClients`: `ClientsOfMerchant => (Spec => ServesItsClients)`, the second refinement. What
   `Withdrawal` and `Deposit` take for granted of the wallet is thus proved of the code's steps: a look-up that
   finds nothing maps to `Accept`, a commit to `Settle`, a failure to `Refuse`. The look-up of the code goes over
   the ledgers of all wallets and that of `WalletCalls` over one; `InItsWallet` (an entry is in the wallet its
   request named) and one wallet per reference close the difference. `OkIsPosted` adds that a caller that reads
   "ok" has its reference in the ledger of the merchant, for amounts of any precision.

### `WebhookProofs`

`TypeCorrect` and `OutcomesHaveCauses` need `WebhookAssumption` alone. The rest has `OneWebhookPerOrder` as a
hypothesis, for any number of webhooks, workers and attempts.

1. `Invariance`: `Inductive`, which is `OneOwner`, `OutcomeIsTrue` and the bound on attempts with the
   reason for them. The number of attempts lives in Redis, where it may be missing or stale, so the
   bound is not inductive. `HasAttempts` says that for a webhook that is queued or claimed
   the payload, if there is one, has the true count and an attempt is left; `Counted` carries this
   through the steps of a process (at `enqueue` the stored payload is already the one with the new
   count); `Matches` that a payload is stored under its own key; `Fresh` that a request which has not
   arrived is known nowhere.
2. `AttemptsAreBounded`, `OneOwnerAtATime`, `OutcomesAreTrue`, `AcknowledgedIsNotSentAgain`.
3. `OutcomesHaveCauses`: webhooks of one order share a key (an order completed twice has two), and one may find
   its payload overwritten by the other's. Then `OneOwner` and the bound on attempts fail, but nothing is invented:
   a receipt has an acknowledged webhook of its key, an exhausted key and an alert have one that was tried to the
   limit, and 200 is told of a webhook that was acknowledged or whose own retry was queued. `Caused` says that the
   count in every payload, stored or in hand, is at most the attempts made; overwriting can only lower it.

### `WithdrawalProofs`

Each property is about the end of a chain of calls whose earlier links the properties do not mention.

1. `OnlyHolds`: the only call the wallet ever works on for a withdrawal is its hold. Release and final
   debit carry the same reference and are answered at once, since the hold is in the ledger before the
   row exists, and the row before any admin can send them. That order is `HeldFirst`, from the reply to
   the hold on, and `Unheard`, before the hold and after a refusal.
2. `Legitimate`: an admin request past its check of the status is about a withdrawal that is held and,
   if it pays, approved at some time, though the status may have changed since (the check is stale by
   then). `ApprovedFirst` and `CommissionIsEarned` carry this to the row and the commission;
   `OnRecord` says that the memory alone forgets a row.
3. `TypeCorrect`, `MoneyMovesOnce`, `RecordedAreHeld`, `PaidWereApproved`, `CreateTellsTheTruth`, for any
   number of withdrawals and admins, in either store, through restarts.
4. `MoneyNeverComesBack`, an action property: every entry is a debit and the balance never rises, whatever is
   rejected or fails to be stored. The run finds one rejection without a refund; this says there is none with one.
5. `FinalIsFinal`, an action property. `UpdateStatus` asks nothing of the row, so that a status is final cannot
   hold of every state; it holds from the moment `Quiet` is true, when no admin is past its check of the
   withdrawal. A second invariant, `Recorded`, is needed for it: an id whose INSERT is still to come has no row
   (`InsertedOnce`), and an admin past its check has one (`HasRow`), so that nothing but an admin writes the status.

### `DepositProofs`

1. `StoredFirst`, `HasOrder`, `WorkerKnowsStored`: nobody has an order in hand before its row exists, so
   that no UPDATE can meet a missing row.
2. `EffectsInOrder` and `OnlyCredits`: a notice that credits, tells or cleans up has settled its order by
   an UPDATE; commission and webhook come last; and the wallet gets nothing but the credits of such
   notices, each for the order of its notice.
3. `LateIsStopped`: a notice that came to the check after its order was closed gets no further than that
   check. This needs that nothing opens an order again.
4. `TypeCorrect`, `LateReportsAreRefused`, `EffectsComeAfter`, for any offsets and either strategy.
5. `ClosedIsFinal`, an action property, and `ExpiredIsNeverPaid`, which has an "always" within an "always".
   `InHand` are the reports and the worker that read the order as pending and are about to update it. Whoever
   reads a closed order does not join them, so an order that is closed and in nobody's hand stays so, and the set
   of orders ever completed (`settled`) no longer changes for it. With `EffectsInOrder` this excludes every
   later effect: no money, commission or webhook for an order whose expiry won.

### `BooksProofs`

Commission and scheduler in one module, since the scheduler reports on and archives the rows of the
commission service.

1. *Sums.* Balances, earnings and reports are folds over sets of rows, entries and wallets. The fold is a
   recursive function behind a CHOOSE, so nothing about it is evident. The first section shows that the
   function exists (`AdderExists`), that it does not depend on the order (`SumRemove`) or on values outside
   the set, and how it moves when a term or the set does (`SumBounded`, `SumStep`, `SumAdd`). The
   induction theorems of the library take an operator as a parameter, which cannot be instantiated here;
   induction is over sets instead: `NatInductive` for a set of numbers, from the well-foundedness of `<`,
   and `FiniteSetInductive` for a set of subsets.
2. `RequestSoFar`: how far each request has come and what it has left in the tables by then; `Sound` and
   `AddsUp`, for every row: it has its type and its three shares make up the fee, since `SplitFits` compares
   the rounded shares and not only the percentages; `EntriesHaveRows` and `OneRowPerRequest`.
3. `BalancesExplained`. `CreditsAreCovered` is not inductive: an INSERT into the ledger is covered because of
   an UPDATE before it, an UPDATE because of a row before that. Each row therefore has three terms that depend
   on the step of its request: what may have been added to a wallet (`Credited`), what of it the ledger does
   not show yet (`Unexplained`), and what of the fee is spent (`Spent`). The invariant bounds each balance by
   the sums of these terms, and each statement moves balance, entry and term by the same amount.
4. `ReportsBehind`: a group in the hand of an execution, a summary and a cached answer are all at most what the
   rows of the day add up to. Rows are only added (`EarnedGrows`), so old answers stay behind.
5. `OnlyOldLeave`: the months on the list of an archiving job are old, and stay so while days pass;
   `AddDate` may run over by one month and no more (`CutoffIsOld`).
6. `TypeCorrect` (no balance, share or total is negative), `CreditsCovered`, `AnswersAreTrue`,
   `ReportsStayBehind`, `RecentStaysReadable`, `StoredSplitsAddUp`, `CreditsComeFromRows`.
7. `CommissionKeepsBook`: `Spec => KeepsBook`, the refinement of `CommissionBook`, while the scheduler runs.
   INSERT maps to `Record` and the ledger's INSERT to `Enter` (`WritesAreInTheBook`), an answer to `Answer`
   (`AnswersAreInTheBook`), the UPDATE of a wallet and the scheduler to a stutter. `RequestSoFar` carries it: at
   each statement it says what the request has left in the tables. The wallets have no place in the book, as
   their UPDATE comes before the entry that explains it; `CreditsCovered` bounds them.

### `BankProofs`

1. `SomebodyCloses`: an account that is full and still active has a report that counted there and is about to
   look, about to disable it, or failed. It names a witness among any number of reports, and is what makes
   `FullAccountIsClosed` inductive.
2. For the pools, a third account of who is responsible: `PoolIsSound` says that a disabled account in a pool
   is on its way out, by a rebuild that has yet to come, or the pool is left `behind` by an error or by rebuilds
   that overlapped. `RebuildIsSound` says the same of what a rebuild has read and not yet written,
   `OverlapBlurs` that two rebuilds of one pool at a time are noticed, `HasNoneLeft` that only a rebuild has
   pools to do.
3. `TypeCorrect`, `FullIsClosed`, `DisabledLeaves`.

### `IntakeProofs`

A step of `Intake` is one of `Sms` or one of `Slip` and leaves the variables of the other alone (`OneOfEither`),
so each has an invariant of its own.

1. `SmsInductive`: the hash of an SMS whose post passed the duplicate check stays claimed while the SMS is
   young enough (`ClaimKept`), so a second post that passes is too old and goes no further
   (`OnlyOneGoesOn`); this relates the TTL of the mark to the age the check accepts. `OrderBacked` ties the
   order a post was matched with to its row and its key, `ScoreSoFar` keeps the score within 100.
2. `SlipInductive`. `TransferAcceptedOnce` is about replies, and the duplicate check about records, so the
   invariant has to relate the two. `Covered`: the transfer of a photo that was verified since the last start has
   its reference on record, or its photo is in hand, one step before. This needs that the bot has one photo in hand
   at a time (`OneAtATime`), that an append writes over no other (`Appends`: when the bot polls the slice has not
   changed since it was read), and that pictures and references in hand are those of the photo (`Known`).
3. `DuplicateHasOriginal` holds in both modes, with appends that race. `TrueRecords` says of the slice, and of every
   slice a goroutine has read, that each record is of a photo that was recorded since the start and has the
   picture and the transfer of that photo, an error page, or no reference; `HandledOnce` that no photo is its own
   original, as the offset, or Telegram's, does not let it come twice between two starts.
4. `TypeCorrect`, `OneRowForEachClaim`, `MatchesAreBacked`, `AcceptedOnce`, `DuplicatesHaveOriginals`.

### `AccessProofs`

1. `SnapOfFailures`: the count a login has read is at most the failures since the last success (`Streak`), unless
   a success came after the read (`dated`) or the count that was read had been spoilt by such a login
   (`blurred`). Failures that overlap write counts that are too low, never too high, so only a write over a reset
   can lock early; a success takes the account out of `blurred` and puts the logins under way into `dated`
   (`NewStreak`). `CounterBound` is what is left without the exception: the failures ever written.
2. `Budget`: the logins let in and not given back in this window number at most `meter`, with a correction
   for logins that one window counted and another gave back (`Counted`, `Foreign`). `BudgetIsKept` alone says
   nothing of `meter`, which the next login reads. `Bounds` limits the counters by the number of logins; the
   type invariant needs it.
3. `RequestOfAccount`, `LogOfAccounts`: an update that is answered is in the log and about an account that is
   there. `ReadWhenActive` says that a login that has read its account read it when no earlier update
   had suspended it.
4. `TypeCorrect`, `LimitOfTheAddress`, `LocksAreEarned`, `NoUpdateIsUndone`, `NoSessionForTheSuspended`.

### Not proved

Every invariant and action property of a passing run is stated by a theorem, and so are the refinements of
`AtomicWallet`, `WalletCalls` and `CommissionBook`. Only model-checked:

- liveness (`WalletComesFree`, `AcknowledgedOrderEnds`): weak and strong fairness are about ENABLED, which is
  beyond TLAPS;
- the five violated properties, which are counterexamples of TLC;
- that the constants of the runs satisfy the assumptions, which TLC evaluates on each run.

The other way round, `ClosedStays`, `FinalStands`, `ServesItsClients` and `KeepsBook` are proved and no run states
them: the steps that could break them are those of the invariants that the runs check.

## 5. Modelling decisions

- The wallet of a merchant has the merchant's id: the code says so in a placeholder for a lookup.
- `Withdrawal` has one merchant and one UTC day, so the daily sum is over all rows that count.
- In `Deposit` amounts are offsets from one base amount, and `created_at` is left out: where the code
  takes the oldest candidate the model takes any.
- The three commands that clean the indexes are one step with any subset of them failing: they
  touch different keys, and every intermediate state is also the state after a failure.
- A reply that never arrives and one that says 500 are one thing to the client (`WalletFails`).
- Of the partitioned tables the model has `commissions`; the jobs treat the others alike.
- Credentials are the outcome of their comparison: a check may come out either way.
- A merchant's or an agent's row of `Seeded` stands for one that was inserted by hand, since the code
  cannot insert it in PostgreSQL.
- `Bank` and `Sms` take the statements of their repositories as they are meant. Those of the bank service name
  columns and tables that the migrations do not have (`account_number`, `priority`, `merchant_bank_accounts`,
  `transfers`), and the INSERT of the parser columns of `sms_messages` (`amount`, `sender_name`, `reference`,
  `status`): against this schema they fail, which is one of the branches of each action. The models have more
  behaviours than that deployment, and what they show is of a schema that fits the code.
- A request to the user service that lacks a required field is answered 500, whatever status the service
  put into its error: the handler does not look at it. No property tells the two answers apart.

## 6. Not modelled, and why

- **gateway**: stateless handlers in front of the services. The rate limit and the freeze switch are
  single Redis commands, about which a model would only repeat the line.
- **telegram alerts**: one HTTP call whose result every caller drops; in `Webhook` it is a call that may fail.
- **internal service client, HMAC, access list**: a client no service uses, and pure functions.
- **shared helpers, proto, integration tests, web application**: no state of their own.
- Parts of modelled services: EnsureWalletExists and reads of the wallet; the QR payload; listings of
  withdrawals; AggregateDaily of the commission service and ValidateTOTPForSession of the auth service,
  which nothing calls; the Redis copy of the bank's daily counter, which nothing reads; texts of the bank formats.

## 7. Plan

Done: all modules above, theorems for every invariant that the runs check, the three refinements, what
remains without the hypotheses on amounts, keys and references, and what is final in spite of the UPDATEs
that ask nothing of a status. To come, in this order:

1. `Deposit`: the credit of a completed order is in flight, settled or refused from then on, or its notice
   is still to send it or has stopped.
2. `LedgerDriftsByRoundingOnly` as one bound on the sum of a ledger, by the lemmas on sums of `BooksProofs`.
3. The UPDATE of `wallets` by the commission service beside the transactions of the wallet service, on the rows
   of `Wallet`: what it does to `AuditChain`.
4. `Slip` with a record that PostgreSQL accepts: which of `TransferVerifiedOnce` is left when the INSERT can fail,
   succeed with its reply lost, and outlive a restart.
