----------------------------- MODULE Commission ------------------------------
(***************************************************************************)
(* The commission service, services/commission: the fee of a transaction   *)
(* is split among the system, an agent and a partner, the split is stored  *)
(* and the shares are credited.  The row and each credit, itself an UPDATE *)
(* and an INSERT, are statements of their own: no transaction spans them,  *)
(* so a request can stop after any of them.                                *)
(*                                                                         *)
(* A row goes to the partition of its month, which the scheduler creates   *)
(* and removes (module Scheduler).  A date is <<month, day>>.              *)
(***************************************************************************)
EXTENDS Integers, Sequences, FiniteSets, Functions

CONSTANTS
    Requests,   \* the calls of POST /internal/commission/calculate
    Inputs,     \* what they ask: [amount, fee, agentPct, partnerPct, agent, partner]
    Scale,      \* a percentage is fee / Scale of the amount
    Owners,     \* the agents and partners
    Walleted,   \* those under whose own id a wallet is kept
    System,     \* the owner of the system's share, the nil UUID
    Length,     \* the number of days of each month
    Reports,    \* bound: the pairs of a date and an owner whose summary is asked for
    None        \* no owner, no commission

Months == DOMAIN Length

Dates == UNION {{m} \X (1 .. Length[m]) : m \in Months}

Payees == Owners \cup {System}

\* Percentages come from the configuration of merchants, agents and partners;
\* no code refuses a negative one.
ASSUME CommissionAssumption ==
    /\ Scale \in Nat \ {0}
    /\ Walleted \subseteq Owners /\ IsFiniteSet(Walleted)
    /\ System \notin Owners /\ None \notin Payees
    /\ Length \in Seq(Nat \ {0}) /\ Length # <<>>
    /\ Reports \subseteq Dates \X Payees
    /\ \A in \in Inputs :
           /\ in.amount \in Int
           /\ {in.fee, in.agentPct, in.partnerPct} \subseteq Nat
           /\ {in.agent, in.partner} \subseteq Owners \cup {None}

VARIABLES
    today,      \* the date
    parts,      \* the partitions of the table, of each month
    rows,       \* the table commissions, archived rows included
    balance,    \* wallets.balance
    ledger,     \* the table wallet_ledger
    pc, comm,   \* of each request: its next statement and its commission
    reply,      \* and its answer
    summary,    \* commission_daily_summary: total_commission of a date and owner
    cache       \* Redis commission:daily: the cached answer of each report

commissionVars == <<rows, balance, ledger, pc, comm, reply>>

-----------------------------------------------------------------------------
(* CalculateCommission                                                     *)

\* Round(2): half away from zero, of an amount that is not negative.
Round2(n) == (2 * n + Scale) \div (2 * Scale)

Share(in, owner, pct) == IF owner = None THEN 0 ELSE Round2(in.amount * pct)

TotalFee(in) == Round2(in.amount * in.fee)

AgentShare(in) == Share(in, in.agent, in.agentPct)

PartnerShare(in) == Share(in, in.partner, in.partnerPct)

SystemShare(in) == TotalFee(in) - AgentShare(in) - PartnerShare(in)

\* Mutant of SplitFits: the defensive check of the result is dropped.
PercentagesFit(in) == in.agentPct + in.partnerPct <= in.fee

\* The percentages are compared with the fee, and the result once more.
SplitFits(in) ==
    /\ in.agentPct + in.partnerPct <= in.fee
    /\ SystemShare(in) >= 0

\* The record; its created_at is the time of the calculation.
Split(r, in) ==
    [id |-> r, date |-> today, fee |-> TotalFee(in), system |-> SystemShare(in),
     agent |-> in.agent, agentAmount |-> AgentShare(in),
     partner |-> in.partner, partnerAmount |-> PartnerShare(in)]

\* The share of owner o in the record c.
ShareOf(c, o) ==
    (IF o = System THEN c.system ELSE 0)
      + (IF o = c.agent THEN c.agentAmount ELSE 0)
      + (IF o = c.partner THEN c.partnerAmount ELSE 0)

CommissionInit ==
    /\ rows = {}
    /\ balance = [o \in Walleted |-> 0]
    /\ ledger = {}
    /\ pc = [r \in Requests |-> "idle"]
    /\ comm = [r \in Requests |-> None]
    /\ reply = [r \in Requests |-> "none"]
    /\ cache = [x \in Reports |-> None]

Goto(r, step) == pc' = [pc EXCEPT ![r] = step]

Answer(r, answer) == Goto(r, "done") /\ reply' = [reply EXCEPT ![r] = answer]

Succeeds(r, step) ==
    IF step = "done" THEN Answer(r, "ok") ELSE Goto(r, step) /\ UNCHANGED reply

\* The handler CalculateAndRecord up to the calculation.
Calculate(r, in) ==
    /\ pc[r] = "idle"
    /\ \/ in.amount <= 0 /\ Answer(r, "invalid_amount") /\ UNCHANGED comm
       \/ in.amount > 0 /\ ~ SplitFits(in) /\ Answer(r, "calc_error") /\ UNCHANGED comm
       \/ /\ in.amount > 0 /\ SplitFits(in)
          /\ comm' = [comm EXCEPT ![r] = Split(r, in)]
          /\ Goto(r, "insert")
          /\ UNCHANGED reply
    /\ UNCHANGED <<rows, balance, ledger>>

-----------------------------------------------------------------------------
(* RecordCommission                                                        *)

\* Mutant of AfterAgent: the partner is forgotten.
AgentOnly(c) == "done"

\* The credit that follows the agent's, or the insert if the agent gets none.
AfterAgent(c) ==
    IF c.partner # None /\ c.partnerAmount > 0 THEN "partner" ELSE "done"

AfterInsert(c) ==
    IF c.agent # None /\ c.agentAmount > 0 THEN "agent" ELSE AfterAgent(c)

\* Mutant of InsertCommission: its error is logged and dropped.
InsertUnchecked(r) ==
    /\ pc[r] = "insert"
    /\ rows' \in {rows, rows \cup {comm[r]}}
    /\ Succeeds(r, AfterInsert(comm[r]))
    /\ UNCHANGED <<balance, ledger, comm>>

\* The INSERT succeeds if the month of the row has a partition.  A statement
\* whose answer is lost fails for the service, whether it took effect or not.
InsertCommission(r) ==
    LET stored == parts[comm[r].date[1]] = "attached" IN
    /\ pc[r] = "insert"
    /\ \/ /\ stored
          /\ rows' = rows \cup {comm[r]}
          /\ Succeeds(r, AfterInsert(comm[r])) \/ Answer(r, "record_error")
       \/ Answer(r, "record_error") /\ UNCHANGED rows
    /\ UNCHANGED <<balance, ledger, comm>>

\* CreditWallet for the agent and then for the partner.  An entry of the ledger
\* has an id of its own: the commission and the share it is for.
Entry(c, share) ==
    [ref |-> c.id, share |-> share,
     wallet |-> IF share = "agent" THEN c.agent ELSE c.partner,
     amount |-> IF share = "agent" THEN c.agentAmount ELSE c.partnerAmount]

Due(r) == Entry(comm[r], IF pc[r] \in {"agent", "agent ledger"} THEN "agent" ELSE "partner")

Payee(r) == Due(r).wallet

AmountDue(r) == Due(r).amount

Paid(r, o) == IF o \in Walleted THEN [balance EXCEPT ![o] = @ + AmountDue(r)] ELSE balance

\* The UPDATE: of an id that is no wallet's it changes no row, and succeeds.
UpdateWallet(r) ==
    /\ pc[r] \in {"agent", "partner"}
    /\ \/ /\ balance' = Paid(r, Payee(r))
          /\ \/ /\ Goto(r, IF pc[r] = "agent" THEN "agent ledger" ELSE "partner ledger")
                /\ UNCHANGED reply
             \/ Answer(r, "record_error")
       \/ Answer(r, "record_error") /\ UNCHANGED balance
    /\ UNCHANGED <<rows, ledger, comm>>

\* The INSERT of the entry; balance_after is NULL, which the table refuses, when
\* there is no such wallet.
InsertLedger(r) ==
    /\ pc[r] \in {"agent ledger", "partner ledger"}
    /\ \/ /\ Payee(r) \in Walleted
          /\ ledger' = ledger \cup {Due(r)}
          /\ \/ Succeeds(r, IF pc[r] = "agent ledger" THEN AfterAgent(comm[r]) ELSE "done")
             \/ Answer(r, "record_error")
       \/ Answer(r, "record_error") /\ UNCHANGED ledger
    /\ UNCHANGED <<rows, balance, comm>>

\* The service dies: the client gets no answer.
CommissionDies(r) ==
    /\ pc[r] \notin {"idle", "done"}
    /\ Goto(r, "done")
    /\ UNCHANGED <<rows, balance, ledger, comm, reply>>

Request(r) ==
    /\ \/ \E in \in Inputs : Calculate(r, in)
       \/ InsertCommission(r) \/ UpdateWallet(r) \/ InsertLedger(r) \/ CommissionDies(r)
    /\ UNCHANGED <<today, parts, summary, cache>>

-----------------------------------------------------------------------------
(* The reports                                                             *)

\* GetDailySummary of one date.  A cached answer is given as it is; otherwise the
\* table is read and the answer is cached, by a call of its own whose error is
\* dropped.  Who reads before a change and caches after it leaves what an entry
\* that has not expired leaves, so the two calls are one step.
GetDailySummary(x) ==
    /\ cache[x] = None
    /\ cache' = [cache EXCEPT ![x] = summary[x[1]][x[2]]]

\* Five minutes later.
CacheExpires(x) ==
    /\ cache[x] # None
    /\ cache' = [cache EXCEPT ![x] = None]

Reader ==
    /\ \E x \in Reports : GetDailySummary(x) \/ CacheExpires(x)
    /\ UNCHANGED <<today, parts, commissionVars, summary>>

\* GetMonthlySummary: one SUM over the daily summaries of the month.
MonthlySummary(m, o) ==
    SumFunctionOnSet([d \in Dates |-> summary[d][o]], {d \in Dates : d[1] = m})

-----------------------------------------------------------------------------
(* Properties                                                              *)

Commissions ==
    [id : Requests, date : Dates, fee : Nat, system : Nat, agent : Owners \cup {None},
     agentAmount : Nat, partner : Owners \cup {None}, partnerAmount : Nat]

CommissionTypeOK ==
    /\ rows \subseteq Commissions
    /\ balance \in [Walleted -> Nat]
    /\ ledger \subseteq
           [ref : Requests, share : {"agent", "partner"}, wallet : Owners, amount : Nat]
    /\ pc \in [Requests -> {"idle", "insert", "agent", "agent ledger", "partner",
                            "partner ledger", "done"}]
    /\ comm \in [Requests -> Commissions \cup {None}]
    /\ reply \in [Requests -> {"none", "ok", "invalid_amount", "calc_error", "record_error"}]
    /\ cache \in [Reports -> Nat \cup {None}]

Entered(o) == SumFunctionOnSet([e \in ledger |-> e.amount], {e \in ledger : e.wallet = o})

Earned(o) == SumFunction([c \in rows |-> ShareOf(c, o)])

\* Wherever a request stopped between its statements: a wallet holds at least
\* what its ledger says was credited and at most what the stored commissions say
\* its owner earned, and all that was credited is covered by the fees of the
\* stored commissions, whatever the rounding of each share (calculator.go:120-269).
CreditsAreCovered ==
    /\ \A o \in Walleted : Entered(o) <= balance[o] /\ balance[o] <= Earned(o)
    /\ SumFunction(balance) <= SumFunction([c \in rows |-> c.fee])

\* 200 means that the row is stored and every positive share has its entry in the
\* ledger; a refusal means that nothing was stored (commission_handler.go:164-208).
TruthfulAnswer ==
    \A r \in Requests :
        /\ reply[r] = "ok" =>
               /\ comm[r] \in rows
               /\ comm[r].agent # None /\ comm[r].agentAmount > 0 =>
                      Entry(comm[r], "agent") \in ledger
               /\ comm[r].partner # None /\ comm[r].partnerAmount > 0 =>
                      Entry(comm[r], "partner") \in ledger
        /\ reply[r] \in {"invalid_amount", "calc_error"} =>
               \A c \in rows, e \in ledger : c.id # r /\ e.ref # r
\* Statement by statement, with errors and lost answers at each of them, the
\* service does to its tables only what CommissionBook promises: no second row, no
\* entry before the row or out of order, nothing after the answer.
Book == INSTANCE CommissionBook

KeepsBook == Book!Spec
=============================================================================
