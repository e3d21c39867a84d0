------------------------------ MODULE Accounts -----------------------------
(***************************************************************************)
(* The user service: it creates, reads, lists and updates the accounts of  *)
(* admins, merchants, agents and partners, and replaces the API keys of a  *)
(* merchant. A request is validated by the handler and the service, then   *)
(* runs one statement after the other; every statement may fail.           *)
(*                                                                         *)
(* A field holds the request that wrote it. The same table rows hold the   *)
(* failed attempts and the lock of the auth service (module Access).       *)
(***************************************************************************)
EXTENDS Integers, Sequences, FiniteSets

CONSTANTS
  Users, Requests,
  KindOf,            \* [Users -> Kinds]
  ParentOf,          \* [Users -> the agent of a merchant, the partner of an agent]
  Nobody, NoRequest,
  Seeded,            \* the accounts that are in the tables at the start
  MaxFields          \* how many fields an update names at most

Kinds == {"admin", "merchant", "agent", "partner"}

ASSUME AccountsAssumption ==
  /\ IsFiniteSet(Users)
  /\ KindOf \in [Users -> Kinds]
  /\ Nobody \notin Users /\ NoRequest \notin Requests
  /\ Seeded \subseteq Users
  /\ MaxFields \in Nat

VARIABLES
  store,             \* "postgres", or the "stub" when DATABASE_URL is not set
  there,             \* the accounts that have a row, and its columns:
  attempts, locked,  \*   failed_login_attempts, locked_until
  active,            \*   status
  last,              \*   the request that wrote each of the tracked fields
  phase, op,         \* where every request is, and what it asks for:
  subject,           \*   the account it is about
  fields, suspend,   \*   what it updates, and with a status that suspends
  total, reply,      \*   what it counted, and its answer
  log                \* the updates in the order in which they took effect

rowVars     == <<there, attempts, locked, active, last>>
inputVars   == <<op, subject, fields, suspend>>
reqVars     == <<phase, inputVars, total, reply>>
accountVars == <<store, rowVars, reqVars, log>>

Fields  == {"name", "email", "mask", "webhook", "status", "password", "pct", "agent",
            "key", "secret"}
Tracked == {"name", "status", "key", "secret"}

Blank   == [f \in Tracked |-> NoRequest]

AccountInit ==
  /\ store \in {"postgres", "stub"}
  /\ there = IF store = "postgres" THEN Seeded ELSE {}
  /\ attempts = [u \in Users |-> 0]
  /\ locked = {}
  /\ active = Users
  /\ last = [u \in Users |-> Blank]
  /\ phase = [q \in Requests |-> "idle"] /\ op = [q \in Requests |-> "none"]
  /\ subject = [q \in Requests |-> Nobody]
  /\ fields = [q \in Requests |-> {}] /\ suspend = [q \in Requests |-> FALSE]
  /\ total = [q \in Requests |-> 0] /\ reply = [q \in Requests |-> "none"]
  /\ log = <<>>

-----------------------------------------------------------------------------
(* What the handlers let through and what the statements write, by kind.    *)

AdminInput    == {"name", "mask", "status", "email"}
MerchantInput == {"name", "email", "webhook", "status"}
AgentInput    == {"name", "email", "status"}
PartnerInput  == {"name", "email", "status"}

Input(kind) == CASE kind = "admin" -> AdminInput
                 [] kind = "merchant" -> MerchantInput
                 [] kind = "agent" -> AgentInput
                 [] kind = "partner" -> PartnerInput

\* The columns of the UPDATE: any other field is skipped in silence.
AdminColumns == {"name", "mask", "status", "email", "password"}
\* Reached by no request, as no merchant can be read before (Readable).
MerchantColumns == {"name", "email", "status", "webhook", "key", "secret", "pct", "agent"}
\* Mutant of AgentColumns: the column of the status is not in the switch.
AgentColumnsNoStatus == {"name", "email", "password", "pct"}
AgentColumns == {"name", "email", "password", "status", "pct"}
PartnerColumns == {"name", "email", "password", "status", "pct"}

\* The stub takes a status of the model's own type only, and what comes from
\* a request is a text: it is left as it was.
StubAdminColumns == {"name", "mask", "email"}
StubMerchantColumns == {"name", "email", "webhook", "key", "secret"}
StubAgentColumns == {"name", "email"}
StubPartnerColumns == {"name", "email"}

Columns(kind) ==
  CASE kind = "admin" -> IF store = "stub" THEN StubAdminColumns ELSE AdminColumns
    [] kind = "merchant" -> IF store = "stub" THEN StubMerchantColumns ELSE MerchantColumns
    [] kind = "agent" -> IF store = "stub" THEN StubAgentColumns ELSE AgentColumns
    [] kind = "partner" -> IF store = "stub" THEN StubPartnerColumns ELSE PartnerColumns

\* The INSERTs of merchants and agents leave NOT NULL columns of the migration
\* out (display_name, and the password and the prefix of the key).
Insertable(kind) == store = "stub" \/ kind \in {"admin", "partner"}

\* The rows of a list, filtered by a parent or not (Nobody). In PostgreSQL no
\* statement fills the column by which the agents of a partner are asked for.
ListedAdmins == {u \in Users : KindOf[u] = "admin" /\ u \in there}
ListedMerchants(parent) ==
  {u \in Users : /\ KindOf[u] = "merchant" /\ u \in there
                 /\ parent \in {Nobody, ParentOf[u]}}
ListedAgents(parent) ==
  {u \in Users : /\ KindOf[u] = "agent" /\ u \in there
                 /\ \/ parent = Nobody
                    \/ store = "stub" /\ parent = ParentOf[u]}
ListedPartners == {u \in Users : KindOf[u] = "partner" /\ u \in there}

\* A list is asked for by the user of the request: an agent's merchants, a
\* partner's agents, every merchant or agent, the admins and the partners.
Listed(q) ==
  CASE op[q] = "admins" -> ListedAdmins
    [] op[q] = "partners" -> ListedPartners
    [] op[q] = "merchants" -> ListedMerchants(subject[q])
    [] op[q] = "agents" -> ListedAgents(subject[q])

-----------------------------------------------------------------------------
(* The requests.                                                            *)

Enter(q, p) == phase' = [phase EXCEPT ![q] = p]
Answer(q, a) == Enter(q, "done") /\ reply' = [reply EXCEPT ![q] = a]

\* What a request asks for: the next phase, the operation and the account.
Ask(q, p, o, u) ==
  /\ Enter(q, p)
  /\ op' = [op EXCEPT ![q] = o]
  /\ subject' = [subject EXCEPT ![q] = u]
  /\ UNCHANGED reply

\* Before any statement, a request whose body or id does not parse is answered
\* 400, and one that lacks a field the service requires 500.
Begin(q) ==
  /\ phase[q] = "idle"
  /\ \/ \E a \in {"invalid", "error"} : Answer(q, a) /\ UNCHANGED inputVars
     \/ \E u \in Users :
          \/ Ask(q, "create", "create", u) /\ UNCHANGED <<fields, suspend>>
          \/ Ask(q, "find", "get", u) /\ UNCHANGED <<fields, suspend>>
          \/ /\ KindOf[u] = "merchant" /\ Ask(q, "find", "revoke", u)
             /\ fields' = [fields EXCEPT ![q] = {"key", "secret"}] /\ UNCHANGED suspend
          \/ /\ Ask(q, "find", "update", u)
             /\ \E f \in SUBSET Input(KindOf[u]) :
                  /\ Cardinality(f) <= MaxFields
                  /\ fields' = [fields EXCEPT ![q] = f]
                  /\ \E s \in IF "status" \in f THEN BOOLEAN ELSE {FALSE} :
                       suspend' = [suspend EXCEPT ![q] = s]
     \/ \E l \in {"admins", "partners", "merchants", "agents"}, u \in {Nobody} \union Users :
          /\ l \in {"admins", "partners"} => u = Nobody
          /\ Ask(q, "count", l, u) /\ UNCHANGED <<fields, suspend>>
  /\ UNCHANGED <<store, rowVars, total, log>>

Insert(u) ==
  /\ there' = there \union {u}
  /\ attempts' = [attempts EXCEPT ![u] = 0]
  /\ locked' = locked \ {u}
  /\ active' = active \union {u}
  /\ last' = [last EXCEPT ![u] = Blank]

\* One INSERT under a new id. It fails on an e-mail that is taken, in
\* PostgreSQL only; the answer to one that succeeded may be lost.
Create(q) ==
  /\ phase[q] = "create"
  /\ \/ Answer(q, "error") /\ store = "postgres" /\ UNCHANGED rowVars
     \/ /\ Insertable(KindOf[subject[q]]) /\ subject[q] \notin there
        /\ Insert(subject[q])
        /\ \/ Answer(q, "created")
           \/ store = "postgres" /\ Answer(q, "error")
     \/ store = "stub" /\ subject[q] \in there /\ Answer(q, "created") /\ UNCHANGED rowVars
  /\ UNCHANGED <<store, inputVars, total, log>>

\* The row of a merchant cannot be read in PostgreSQL: its BYTEA secret is scanned
\* into a text.
Readable(u) == u \in there /\ (store = "stub" \/ KindOf[u] # "merchant")

\* The account is read first: what cannot be read is answered as not there by a
\* GET and by 500 otherwise, as is a revocation without a code of the second
\* factor.
Find(q) ==
  /\ phase[q] = "find"
  /\ \/ /\ store = "stub" => ~Readable(subject[q]) \/ op[q] = "revoke"
        /\ Answer(q, IF op[q] = "get" THEN "notfound" ELSE "error")
     \/ Readable(subject[q]) /\ op[q] = "get" /\ Answer(q, "account")
     \/ Readable(subject[q]) /\ op[q] # "get" /\ Enter(q, "update") /\ UNCHANGED reply
  /\ UNCHANGED <<store, rowVars, inputVars, total, log>>

\* What one UPDATE writes: its fields that are columns. Every status that is
\* not "active" makes the account inactive.
Write(q, f) ==
  /\ last' = [last EXCEPT ![subject[q]] = [g \in Tracked |-> IF g \in f THEN q ELSE @[g]]]
  /\ active' = IF "status" \in f /\ suspend[q] THEN active \ {subject[q]}
               ELSE IF "status" \in f THEN active \union {subject[q]}
               ELSE active
  /\ log' = Append(log, [by |-> q, user |-> subject[q], fields |-> fields[q],
                         suspend |-> suspend[q]])

\* PostgreSQL refuses an update without a column, the stub does not.
Update(q) ==
  LET f == fields[q] \intersect Columns(KindOf[subject[q]]) IN
  /\ phase[q] = "update"
  /\ \/ store = "postgres" /\ Answer(q, "error") /\ UNCHANGED <<last, active, log>>
     \/ store = "postgres" /\ f # {} /\ Write(q, f) /\ Answer(q, "error")
     \/ (f # {} \/ store = "stub") /\ Write(q, f) /\ Answer(q, "updated")
  /\ UNCHANGED <<store, there, attempts, locked, inputVars, total>>

\* A list is counted and, unless that found nothing, read by a second
\* statement; the stub does both under one lock.
Count(q) ==
  /\ phase[q] = "count"
  /\ \/ store = "postgres" /\ Answer(q, "error") /\ UNCHANGED total
     \/ /\ total' = [total EXCEPT ![q] = Cardinality(Listed(q))]
        /\ \/ (store = "stub" \/ Listed(q) = {}) /\ Answer(q, "list")
           \/ store = "postgres" /\ Listed(q) # {} /\ Enter(q, "page") /\ UNCHANGED reply
  /\ UNCHANGED <<store, rowVars, inputVars, log>>

\* A page is empty, or its rows are read; those of merchants cannot be.
ReadPage(q) ==
  /\ phase[q] = "page"
  /\ \E a \in {"list", "error"} : Answer(q, a)
  /\ UNCHANGED <<store, rowVars, inputVars, total, log>>

AccountStep(q) ==
  Begin(q) \/ Create(q) \/ Find(q) \/ Update(q) \/ Count(q) \/ ReadPage(q)
=============================================================================
