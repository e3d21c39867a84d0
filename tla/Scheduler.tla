------------------------------ MODULE Scheduler ------------------------------
(***************************************************************************)
(* The scheduler service, services/scheduler, next to the commission       *)
(* service whose tables it works on: the jobs that aggregate the           *)
(* commissions of yesterday, create the partitions of the coming months    *)
(* and archive the old ones.  Each execution of a job is a goroutine that  *)
(* the poll loop or an operator starts.  Any of its statements can fail,   *)
(* and all do once its context is cancelled, which the context of an       *)
(* operator's request is as soon as the request is answered.               *)
(***************************************************************************)
EXTENDS Commission

CONSTANTS
    Runners,     \* the executions under way at most
    Jobs,        \* the registered jobs
    Retention,   \* retentionMonths
    Ahead        \* for how many months create_future_partitions looks ahead

ASSUME SchedulerAssumption ==
    /\ Retention \in Nat \ {0} /\ Ahead \in Nat \ {0}
    /\ None \notin Jobs
    /\ Jobs \subseteq {"aggregate_commissions", "check_partitions", "archive_old_data",
                       "create_future_partitions", "reset_daily_counters"}

VARIABLES
    running,    \* ScheduledJob.Running of each job
    run,        \* of each runner: its job, None when it is free
    step,       \* its next statement
    groups,     \* the groups aggregate_commissions has yet to upsert
    todo,       \* the months whose partition a job has yet to work on
    hand,       \* the month whose partition it archives
    archive     \* the archive file of each partition

jobVars == <<running, run, step, groups, todo, hand, archive>>

vars == <<today, parts, commissionVars, summary, cache, jobVars>>

-----------------------------------------------------------------------------
(* The calendar                                                            *)

DaysIn(m) == IF m \in Months THEN Length[m] ELSE Length[1]

\* AddDate(0, k, 0): a day the month does not have runs over into the next one.
AddMonths(d, k) ==
    LET m == d[1] + k IN
    IF d[2] <= DaysIn(m) THEN <<m, d[2]>> ELSE <<m + 1, d[2] - DaysIn(m)>>

\* AddDate(0, 0, -1)
DayBefore(d) == IF d[2] > 1 THEN <<d[1], d[2] - 1>> ELSE <<d[1] - 1, DaysIn(d[1] - 1)>>

DayAfter(d) == IF d[2] < DaysIn(d[1]) THEN <<d[1], d[2] + 1>> ELSE <<d[1] + 1, 1>>

\* Midnight.  Bound: the calendar stops at the end of its months.
NextDay ==
    /\ DayAfter(today) \in Dates
    /\ today' = DayAfter(today)
    /\ UNCHANGED <<parts, commissionVars, summary, cache, jobVars>>

-----------------------------------------------------------------------------
Init ==
    /\ CommissionInit
    /\ today = <<1, 1>>
    /\ parts = [m \in Months |-> IF m = 1 THEN "attached" ELSE "none"]
    /\ summary = [d \in Dates |-> [o \in Payees |-> 0]]
    /\ running = [j \in Jobs |-> FALSE]
    /\ run = [g \in Runners |-> None]
    /\ step = [g \in Runners |-> "free"]
    /\ groups = [g \in Runners |-> {}]
    /\ todo = [g \in Runners |-> {}]
    /\ hand = [g \in Runners |-> None]
    /\ archive = [m \in Months |-> "none"]

At(g, s) == step' = [step EXCEPT ![g] = s]

Todo(g, s) == todo' = [todo EXCEPT ![g] = s]

-----------------------------------------------------------------------------
(* StartScheduler, RunJobByName and executeJob                             *)

\* The poll loop, when the job is due, or an operator starts a goroutine for a job
\* that is not marked as running; the goroutine marks it later.
StartJob(g, j) ==
    /\ run[g] = None
    /\ ~ running[j]
    /\ run' = [run EXCEPT ![g] = j]
    /\ At(g, "spawned")
    /\ UNCHANGED <<running, groups, todo, hand, archive>>

\* The months of the calendar whose partitions a job creates.
ToCreate(j) ==
    {m \in Months :
        \/ j = "check_partitions" /\ m = AddMonths(today, 1)[1]
        \/ j = "create_future_partitions" /\ \E k \in 1 .. Ahead : m = AddMonths(today, k)[1]}

FirstStep(j) ==
    CASE j = "aggregate_commissions" -> "query"
      [] j \in {"check_partitions", "create_future_partitions"} -> "create"
      [] j = "archive_old_data" -> "find"
      [] j = "reset_daily_counters" -> "finish"

\* executeJob marks the job and calls its function, which reads the clock.
BeginJob(g) ==
    /\ step[g] = "spawned"
    /\ running' = [running EXCEPT ![run[g]] = TRUE]
    /\ At(g, FirstStep(run[g]))
    /\ Todo(g, ToCreate(run[g]))
    /\ UNCHANGED <<run, groups, hand, archive>>

\* The function returns when its list is worked off or after an error; executeJob
\* removes the mark and puts NextRun into the future.
Over(g) ==
    \/ step[g] = "finish"
    \/ step[g] \in {"create", "dump"} /\ todo[g] = {}
    \/ step[g] = "upsert" /\ groups[g] = {}

FinishJob(g) ==
    /\ Over(g)
    /\ running' = [running EXCEPT ![run[g]] = FALSE]
    /\ run' = [run EXCEPT ![g] = None]
    /\ At(g, "free")
    /\ groups' = [groups EXCEPT ![g] = {}]
    /\ UNCHANGED <<todo, hand, archive>>

\* The service stops or dies: its goroutines and marks are gone.
Restart ==
    /\ \E g \in Runners : run[g] # None
    /\ running' = [j \in Jobs |-> FALSE]
    /\ run' = [g \in Runners |-> None]
    /\ step' = [g \in Runners |-> "free"]
    /\ groups' = [g \in Runners |-> {}]
    /\ todo' = [g \in Runners |-> {}]
    /\ hand' = [g \in Runners |-> None]
    /\ UNCHANGED archive

Control ==
    /\ \/ \E g \in Runners : BeginJob(g) \/ FinishJob(g) \/ \E j \in Jobs : StartJob(g, j)
       \/ Restart
    /\ UNCHANGED <<today, parts, commissionVars, summary, cache>>

-----------------------------------------------------------------------------
(* AggregateCommissions                                                    *)

\* The rows the query can see: those of attached partitions.
Visible(d) == {c \in rows : c.date = d /\ parts[c.date[1]] = "attached"}

Total(d, o) == SumFunctionOnSet([c \in rows |-> ShareOf(c, o)], Visible(d))

\* The owners that get a group: the system, and the agents and partners of a row.
Grouped(d) ==
    {o \in Payees : \E c \in Visible(d) : o \in {System, c.agent, c.partner}}

\* One query, whose answer is the group of every owner of yesterday's rows.
Aggregate(g) ==
    LET d == DayBefore(today) IN
    /\ step[g] = "query"
    /\ \/ /\ groups' = [groups EXCEPT ![g] =
                           {[date |-> d, owner |-> o, total |-> Total(d, o)] : o \in Grouped(d)}]
          /\ At(g, "upsert")
       \/ At(g, "finish") /\ UNCHANGED groups
    /\ UNCHANGED summary

\* Mutant of Replaced: ON CONFLICT adds to the totals, as the comments have it.
Merged(x) ==
    [summary EXCEPT ![x.date] = [@ EXCEPT ![x.owner] = @ + x.total]]

Replaced(x) ==
    [summary EXCEPT ![x.date] = [@ EXCEPT ![x.owner] = x.total]]

\* One upsert for each group; the first error ends the job.
Upsert(g) ==
    /\ step[g] = "upsert"
    /\ \E x \in groups[g] :
           \/ /\ summary' = Replaced(x)
              /\ \/ groups' = [groups EXCEPT ![g] = @ \ {x}] /\ UNCHANGED step
                 \/ At(g, "finish") /\ UNCHANGED groups
           \/ At(g, "finish") /\ UNCHANGED <<summary, groups>>

Aggregation ==
    /\ \E g \in Runners : Aggregate(g) \/ Upsert(g)
    /\ UNCHANGED <<today, parts, commissionVars, cache, running, run, todo, hand, archive>>

-----------------------------------------------------------------------------
(* CheckPartitions, CreateFuturePartitions and ArchiveOldPartitions        *)

\* partitionExists, then CREATE TABLE IF NOT EXISTS; a table that was detached
\* exists.  An error is logged and the next partition is tried.
CreatePartition(g, m) ==
    /\ step[g] = "create"
    /\ \/ parts[m] \in {"none", "gone"} /\ parts' = [parts EXCEPT ![m] = "attached"]
       \/ UNCHANGED parts
    /\ Todo(g, todo[g] \ {m})
    /\ UNCHANGED <<step, hand, archive>>

Cutoff == AddMonths(today, -Retention)

\* Mutant of IsOld: the month of the cutoff is archived as well.
IsOldOrCutoff(m) == m <= Cutoff[1]

IsOld(m) == m < Cutoff[1]

\* findOldPartitions lists the detached tables as well: they are tables.
FindOld(g) ==
    /\ step[g] = "find"
    /\ \/ Todo(g, {m \in Months : parts[m] \in {"attached", "detached"} /\ IsOld(m)})
       \/ UNCHANGED todo
    /\ At(g, "dump")
    /\ UNCHANGED <<parts, hand, archive>>

\* The job goes on with the next partition.
Leave(g, m) ==
    /\ Todo(g, todo[g] \ {m})
    /\ At(g, "dump")
    /\ hand' = [hand EXCEPT ![g] = None]

\* pg_dump ... | gzip > file.  The exit status is that of gzip: when pg_dump
\* fails, or finds no such table, the file is empty and the command succeeds.
Dump(g, m) ==
    /\ step[g] = "dump"
    /\ \/ /\ \/ parts[m] # "gone" /\ archive' = [archive EXCEPT ![m] = "dumped"]
             \/ archive' = [archive EXCEPT ![m] = "empty"]
          /\ hand' = [hand EXCEPT ![g] = m]
          /\ At(g, "detach")
          /\ UNCHANGED todo
       \/ /\ archive' \in {archive, [archive EXCEPT ![m] = "empty"]}
          /\ Leave(g, m)
    /\ UNCHANGED parts

\* ALTER TABLE ... DETACH PARTITION, an error unless it is attached.
Detach(g) ==
    LET m == hand[g] IN
    /\ step[g] = "detach"
    /\ \/ /\ parts[m] = "attached"
          /\ parts' = [parts EXCEPT ![m] = "detached"]
          /\ \/ At(g, "drop") /\ UNCHANGED <<todo, hand>>
             \/ Leave(g, m)
       \/ Leave(g, m) /\ UNCHANGED parts
    /\ UNCHANGED archive

\* DROP TABLE IF EXISTS.
Drop(g) ==
    LET m == hand[g] IN
    /\ step[g] = "drop"
    /\ parts' \in {parts, [parts EXCEPT ![m] = "gone"]}
    /\ Leave(g, m)
    /\ UNCHANGED archive

Partitions ==
    /\ \E g \in Runners :
           \/ FindOld(g) \/ Detach(g) \/ Drop(g)
           \/ \E m \in todo[g] : CreatePartition(g, m) \/ Dump(g, m)
    /\ UNCHANGED <<today, commissionVars, summary, cache, running, run, groups>>

-----------------------------------------------------------------------------
Next ==
    \/ NextDay \/ Control \/ Aggregation \/ Partitions
    \/ Reader /\ UNCHANGED jobVars
    \/ \E r \in Requests : Request(r) /\ UNCHANGED jobVars

Spec == Init /\ [][Next]_vars

-----------------------------------------------------------------------------
(* Properties                                                              *)

Groups == [date : Dates, owner : Payees, total : Nat]

TypeOK ==
    /\ CommissionTypeOK
    /\ today \in Dates
    /\ parts \in [Months -> {"none", "attached", "detached", "gone"}]
    /\ summary \in [Dates -> [Payees -> Nat]]
    /\ running \in [Jobs -> BOOLEAN]
    /\ run \in [Runners -> Jobs \cup {None}]
    /\ step \in [Runners -> {"free", "spawned", "query", "upsert", "create", "find", "dump",
                              "detach", "drop", "finish"}]
    /\ \A g \in Runners :
           /\ run[g] = None <=> step[g] = "free"
           /\ groups[g] \subseteq Groups
           /\ todo[g] \subseteq Months
           /\ IF step[g] \in {"detach", "drop"} THEN hand[g] \in todo[g] ELSE hand[g] = None
    /\ archive \in [Months -> {"none", "dumped", "empty"}]

EarnedOn(d, o) ==
    SumFunctionOnSet([c \in rows |-> ShareOf(c, o)], {c \in rows : c.date = d})

\* However executions of the aggregation overlap, are repeated or stop half way,
\* and however old a cached answer is: no report ever shows an owner more than
\* the stored commissions of its day or month add up to (summary.go:72-245).
ReportsNeverAhead ==
    /\ \A o \in Payees, d \in Dates : summary[d][o] <= EarnedOn(d, o)
    /\ \A x \in Reports :
           LET month == {d \in Dates : d[1] = x[1][1]} IN
           /\ cache[x] # None => cache[x] <= EarnedOn(x[1], x[2])
           /\ MonthlySummary(x[1][1], x[2])
                  <= SumFunction([d \in month |-> EarnedOn(d, x[2])])

\* "Partitions older than this are eligible for archival" (archive.go:47-49): the
\* rows of this month and of the last Retention - 1 months stay readable,
\* also on days on which the subtraction of months runs over.
RecentRowsReadable ==
    \A c \in rows : c.date[1] > today[1] - Retention => parts[c.date[1]] = "attached"

\* "If the export fails, the partition is left intact (not detached or dropped)"
\* (archive.go:223-224): the rows of a dropped partition are in its archive file.
DroppedIsArchived == \A m \in Months : parts[m] = "gone" => archive[m] = "dumped"
=============================================================================
