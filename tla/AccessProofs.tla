----------------------------- MODULE AccessProofs -----------------------------
(***************************************************************************)
(* What holds of Access and Accounts for any finite number of accounts and *)
(* logins, any requests, any limits and any number of windows.             *)
(***************************************************************************)
EXTENDS Access, FiniteSetTheorems, TLAPS

-----------------------------------------------------------------------------
(* The inductive invariant                                                 *)

Entries == [by : Requests, user : Users, fields : SUBSET Fields, suspend : BOOLEAN]

Stages == {"idle", "find", "check", "record", "reset", "decrement", "store", "done"}

RowsTyped ==
    /\ store \in {"postgres", "stub"}
    /\ there \subseteq Users /\ locked \subseteq Users /\ active \subseteq Users
    /\ attempts \in [Users -> Nat]
    /\ last \in [Users -> [Tracked -> Requests \cup {NoRequest}]]

RequestsTyped ==
    /\ phase \in [Requests -> {"idle", "create", "find", "update", "count", "page", "done"}]
    /\ subject \in [Requests -> Users \cup {Nobody}]
    /\ op \in [Requests -> {"none", "create", "get", "revoke", "update", "admins",
                            "partners", "merchants", "agents"}]
    /\ fields \in [Requests -> SUBSET Fields] /\ suspend \in [Requests -> BOOLEAN]
    /\ total \in [Requests -> 0 .. Cardinality(Users)]
    /\ reply \in [Requests -> {"none", "invalid", "created", "error", "notfound", "account",
                               "updated", "list"}]
    /\ log \in Seq(Entries)

LoginsTyped ==
    /\ meter \in Int /\ expiring \in BOOLEAN /\ window \in 1 .. MaxWindows
    /\ pc \in [Logins -> Stages] /\ user \in [Logins -> Users \cup {Nobody}]
    /\ answer \in [Logins -> {"none", "refused", "session"}]
    /\ counted \in [Logins -> 0 .. window] /\ refund \in [Logins -> 0 .. window]
    /\ snap \in [Logins -> Nat] /\ seen \in [Logins -> Nat]
    /\ session \in [Logins -> {"none", "stored", "gone"}]
    /\ failures \in [Users -> Nat] /\ since \in [Users -> Nat]
    /\ dated \subseteq Logins /\ blurred \subseteq Users

Typed == RowsTyped /\ RequestsTyped /\ LoginsTyped

\* What the handlers let through: an update is of an account that is there, and
\* names fields its statement has a column for, or both fields of the key.
RequestOfAccount(q) ==
    /\ phase[q] \in {"create", "find", "update"} => subject[q] \in Users
    /\ phase[q] \in {"find", "update"} /\ op[q] = "update" =>
           fields[q] \subseteq Input(KindOf[subject[q]])
    /\ phase[q] \in {"find", "update"} /\ op[q] = "revoke" =>
           KindOf[subject[q]] = "merchant" /\ fields[q] = {"key", "secret"}
    /\ phase[q] = "find" => op[q] \in {"get", "update", "revoke"}
    /\ phase[q] = "update" => subject[q] \in there /\ op[q] \in {"update", "revoke"}
    /\ phase[q] = "count" => op[q] \in {"admins", "partners", "merchants", "agents"}
    /\ reply[q] = "updated" => \E i \in 1 .. Len(log) : log[i].by = q

LogOfAccounts == \A i \in 1 .. Len(log) : log[i].user \in there

\* Up to here a login has given nothing back.
Early == {"idle", "find", "check", "record", "reset", "decrement"}

LoginOfUser(l) ==
    /\ pc[l] = "idle" => counted[l] = 0
    /\ pc[l] \in Early => refund[l] = 0
    /\ pc[l] \notin {"idle", "done"} => user[l] \in Users
    /\ session[l] # "none" => pc[l] = "done"
    /\ answer[l] = "session" => session[l] # "none"

\* The failed checks of an account ever, and those up to its last success.
CounterBound == \A u \in Users : attempts[u] <= failures[u] /\ since[u] <= failures[u]

\* What a login read is no more than the failed checks written by then, and is
\* of an account this service has a table for. Unless a success came after the
\* read, or an older read was written before it, it is no more than the streak.
SnapOfFailures(l) ==
    pc[l] \in {"check", "record"} =>
        /\ snap[l] <= failures[user[l]]
        /\ KindOf[user[l]] # "partner" /\ store = "postgres"
        /\ l \notin dated /\ user[l] \notin blurred => snap[l] <= Streak(user[l])

OnlyTablesCounted ==
    \A u \in Users : attempts[u] > 0 => KindOf[u] # "partner" /\ store = "postgres"

\* The account was not suspended when the login read it.
ReadWhenActive(l) ==
    pc[l] \in {"check", "record", "reset", "decrement", "store"} \/ session[l] # "none" =>
        /\ user[l] \in Users /\ seen[l] <= Len(log)
        /\ \A i \in NamedLast(user[l], "status", seen[l]) : ~log[i].suspend

\* What the counter of the address tells of the logins let in in this window.
Counted == {l \in Logins : counted[l] = window /\ refund[l] # window}
Foreign == {l \in Logins : counted[l] # window /\ refund[l] = window}
Budget ==
    /\ Cardinality(Counted) <= meter + Cardinality(Foreign)
    /\ Cardinality(Counted) <= IPLimit + Cardinality(Foreign)

\* Every login moves the counters of the model once in each direction.
At(S) == {l \in Logins : pc[l] \in S}
Bounds ==
    /\ \A u \in Users :
           failures[u] + Cardinality(At({"idle", "find", "check", "record"})) <= Cardinality(Logins)
    /\ meter + Cardinality(At({"idle"})) <= Cardinality(Logins)
    /\ Cardinality(At(Early)) - Cardinality(Logins) <= meter

Inductive ==
    /\ Typed
    /\ \A q \in Requests : RequestOfAccount(q)
    /\ LogOfAccounts
    /\ UpdatesStand
    /\ \A l \in Logins : LoginOfUser(l) /\ SnapOfFailures(l) /\ ReadWhenActive(l)
    /\ CounterBound
    /\ NeverLockedEarly
    /\ OnlyTablesCounted
    /\ Budget
    /\ Bounds

-----------------------------------------------------------------------------
(* The actions, one by one                                                 *)

\* The step of a request, of a login, of a session, and the clock's.
Steps ==
    \/ \E q \in Requests : AccountStep(q) /\ UNCHANGED authVars
    \/ \E l \in Logins : LoginStep(l) \/ DropSession(l)
    \/ IpWindowEnds
    \/ \E u \in Users : LockExpires(u)
    \/ UNCHANGED <<accountVars, authVars>>

LEMMA OneOfTheSteps == [Next]_vars => Steps
BY AccessAssumption
   DEF Next, vars, Steps, ValidateSession, Logout, SessionExpires

-----------------------------------------------------------------------------
(* Type correctness                                                        *)

LEMMA ListedUsers ==
    ASSUME NEW q \in Requests, op[q] \in {"admins", "partners", "merchants", "agents"}
    PROVE  /\ Listed(q) \subseteq Users
           /\ Cardinality(Listed(q)) \in 0 .. Cardinality(Users)
<1>1. Listed(q) \subseteq Users
  <2>1. CASE op[q] = "admins"
    BY <2>1 DEF Listed, ListedAdmins
  <2>2. CASE op[q] = "partners"
    BY <2>2 DEF Listed, ListedPartners
  <2>3. CASE op[q] = "merchants"
    BY <2>3 DEF Listed, ListedMerchants
  <2>4. CASE op[q] = "agents"
    BY <2>4 DEF Listed, ListedAgents
  <2>. QED
    BY <2>1, <2>2, <2>3, <2>4
<1>. QED
  BY <1>1, AccountsAssumption, FS_Subset, FS_CardinalityType

LEMMA InputIsOfFields ==
    ASSUME NEW kind \in Kinds
    PROVE  Input(kind) \subseteq Fields
BY DEF Kinds, Input, Fields, AdminInput, MerchantInput, AgentInput, PartnerInput

LEMMA RowsTypedStep ==
    ASSUME Inductive, Steps
    PROVE  RowsTyped'
<1>. USE DEF reqVars, rowVars, inputVars, meterVars, loginVars, authVars, countVars,
       accountVars
<1>. Typed /\ \A q \in Requests : RequestOfAccount(q)
  BY DEF Inductive
<1>. RowsTyped /\ RequestsTyped /\ LoginsTyped
  BY DEF Typed
<1>1. ASSUME NEW q \in Requests, Create(q)
      PROVE  RowsTyped'
  <2>1. subject[q] \in Users
    BY <1>1 DEF Create, RequestOfAccount
  <2>. QED
    BY <1>1, <2>1 DEF Create, Insert, Blank, RowsTyped
<1>2. ASSUME NEW q \in Requests, Update(q)
      PROVE  RowsTyped'
  <2>1. subject[q] \in Users
    BY <1>2 DEF Update, RequestOfAccount
  <2>2. active' \subseteq Users
    BY <1>2, <2>1 DEF Update, Write, RowsTyped
  <2>3. last' \in [Users -> [Tracked -> Requests \cup {NoRequest}]]
    <3>. DEFINE new(f) == [g \in Tracked |-> IF g \in f THEN q ELSE last[subject[q]][g]]
    <3>1. \A f : new(f) \in [Tracked -> Requests \cup {NoRequest}]
      BY <2>1 DEF RowsTyped
    <3>2. last' = last \/ \E f : last' = [last EXCEPT ![subject[q]] = new(f)]
      BY <1>2 DEF Update, Write
    <3>. HIDE DEF new
    <3>. QED
      BY <3>1, <3>2 DEF RowsTyped
  <2>. QED
    BY <1>2, <2>2, <2>3 DEF Update, RowsTyped
<1>3. ASSUME NEW q \in Requests, Begin(q) \/ Find(q) \/ Count(q) \/ ReadPage(q)
      PROVE  RowsTyped'
  BY <1>3 DEF Begin, Find, Count, ReadPage, RowsTyped
<1>4. ASSUME NEW l \in Logins, LoginStep(l)
      PROVE  RowsTyped'
  <2>1. CASE RecordFailedAttempt(l) \/ ResetFailedAttempts(l)
    <3>1. LoginOfUser(l) /\ pc[l] \in {"record", "reset"}
      BY <2>1 DEF RecordFailedAttempt, ResetFailedAttempts, Inductive
    <3>2. user[l] \in Users /\ snap[l] + 1 \in Nat
      BY <3>1 DEF LoginOfUser, LoginsTyped
    <3>. QED
      BY <2>1, <3>2 DEF RecordFailedAttempt, ResetFailedAttempts, Cleared, SetLock, RowsTyped
  <2>2. CASE ~(RecordFailedAttempt(l) \/ ResetFailedAttempts(l))
    BY <1>4, <2>2
       DEF LoginStep, Admit, FindUser, CheckCredentials, Decrement, StoreSession,
              LoginDies,
           RowsTyped
  <2>. QED
    BY <2>1, <2>2
<1>5. ASSUME NEW u \in Users, LockExpires(u)
      PROVE  RowsTyped'
  BY <1>5 DEF LockExpires, SetLock, RowsTyped
<1>6. CASE IpWindowEnds \/ UNCHANGED <<accountVars, authVars>> \/ \E l \in Logins : DropSession(l)
  BY <1>6 DEF IpWindowEnds, DropSession, RowsTyped
<1>. QED
  BY <1>1, <1>2, <1>3, <1>4, <1>5, <1>6 DEF Steps, AccountStep

LEMMA RequestsTypedStep ==
    ASSUME Inductive, Steps
    PROVE  RequestsTyped'
<1>. USE DEF reqVars, rowVars, inputVars, meterVars, loginVars, authVars, countVars,
       accountVars, Enter, Answer
<1>. Typed /\ \A q \in Requests : RequestOfAccount(q)
  BY DEF Inductive
<1>. RowsTyped /\ RequestsTyped /\ LoginsTyped
  BY DEF Typed
<1>1. ASSUME NEW q \in Requests, Begin(q)
      PROVE  RequestsTyped'
  <2>1. fields' \in [Requests -> SUBSET Fields]
    <3>1. {"key", "secret"} \subseteq Fields /\ \A u \in Users : Input(KindOf[u]) \subseteq Fields
      BY InputIsOfFields, AccountsAssumption DEF Fields
    <3>2. UNCHANGED fields \/ \E f \in SUBSET Fields : fields' = [fields EXCEPT ![q] = f]
      BY <1>1, <3>1 DEF Begin
    <3>. QED
      BY <3>2 DEF RequestsTyped
  <2>2. suspend' \in [Requests -> BOOLEAN]
    BY <1>1 DEF Begin, RequestsTyped
  <2>3. op' \in [Requests -> {"none", "create", "get", "revoke", "update", "admins",
                            "partners", "merchants", "agents"}]
    BY <1>1 DEF Begin, Ask, RequestsTyped
  <2>4. subject' \in [Requests -> Users \cup {Nobody}]
    BY <1>1 DEF Begin, Ask, RequestsTyped
  <2>5. phase' \in [Requests -> {"idle", "create", "find", "update", "count", "page", "done"}]
    BY <1>1 DEF Begin, Ask, RequestsTyped
  <2>6. reply' \in [Requests -> {"none", "invalid", "created", "error", "notfound", "account",
                               "updated", "list"}]
    BY <1>1 DEF Begin, Ask, RequestsTyped
  <2>. QED
    BY <1>1, <2>1, <2>2, <2>3, <2>4, <2>5, <2>6 DEF Begin, RequestsTyped
<1>2. ASSUME NEW q \in Requests, Create(q) \/ Find(q) \/ ReadPage(q)
      PROVE  RequestsTyped'
  BY <1>2 DEF Create, Find, ReadPage, RequestsTyped
<1>3. ASSUME NEW q \in Requests, Update(q)
      PROVE  RequestsTyped'
  <2>1. subject[q] \in Users
    BY <1>3 DEF Update, RequestOfAccount
  <2>. DEFINE e == [by |-> q, user |-> subject[q], fields |-> fields[q], suspend |-> suspend[q]]
  <2>2. e \in Entries
    BY <2>1 DEF Entries, RequestsTyped
  <2>3. log' = log \/ log' = Append(log, e)
    BY <1>3 DEF Update, Write
  <2>. HIDE DEF e
  <2>4. log' \in Seq(Entries)
    <3>1. log \in Seq(Entries)
      BY DEF RequestsTyped
    <3>. QED
      BY <2>2, <2>3, <3>1
  <2>. QED
    BY <1>3, <2>4 DEF Update, RequestsTyped
<1>4. ASSUME NEW q \in Requests, Count(q)
      PROVE  RequestsTyped'
  <2>1. Cardinality(Listed(q)) \in 0 .. Cardinality(Users)
    BY <1>4, ListedUsers DEF Count, RequestOfAccount
  <2>. QED
    BY <1>4, <2>1 DEF Count, RequestsTyped
<1>5. ASSUME UNCHANGED <<reqVars, log>>
      PROVE  RequestsTyped'
  BY <1>5 DEF RequestsTyped
<1>6. ASSUME NEW l \in Logins, LoginStep(l) \/ DropSession(l)
      PROVE  UNCHANGED <<reqVars, log>>
  BY <1>6
     DEF LoginStep, Admit, FindUser, CheckCredentials, RecordFailedAttempt,
            ResetFailedAttempts,
         Decrement, StoreSession, LoginDies, DropSession
<1>7. ASSUME NEW u \in Users, LockExpires(u)
      PROVE  UNCHANGED <<reqVars, log>>
  BY <1>7 DEF LockExpires
<1>8. CASE IpWindowEnds \/ UNCHANGED <<accountVars, authVars>>
  BY <1>5, <1>8 DEF IpWindowEnds
<1>. QED
  BY <1>1, <1>2, <1>3, <1>4, <1>5, <1>6, <1>7, <1>8 DEF Steps, AccountStep

LEMMA LoginsTypedStep ==
    ASSUME Inductive, Steps
    PROVE  LoginsTyped'
<1>. USE DEF reqVars, rowVars, inputVars, meterVars, loginVars, authVars, countVars,
       accountVars, Goto, Refuse
<1>. Typed
  BY DEF Inductive
<1>. RowsTyped /\ LoginsTyped
  BY DEF Typed
<1>1. ASSUME NEW l \in Logins, NEW u \in Targets, Admit(l, u)
      PROVE  LoginsTyped'
  <2>1. meter' \in Int /\ expiring' \in BOOLEAN
    <3>1. meter' \in {meter, meter + 1} /\ expiring' \in {TRUE, expiring}
      BY <1>1 DEF Admit, IncrementMeter
    <3>2. meter \in Int
      BY DEF LoginsTyped
    <3>3. expiring \in BOOLEAN
      BY DEF LoginsTyped
    <3>4. meter' \in Int
      BY <3>1, <3>2
    <3>5. expiring' \in BOOLEAN
      BY <3>1, <3>3, Zenon
    <3>. QED
      BY <3>4, <3>5
  <2>2. pc' \in [Logins -> Stages] /\ answer' \in [Logins -> {"none", "refused", "session"}]
    BY <1>1 DEF Admit, LoginsTyped, Stages
  <2>3. user' \in [Logins -> Users \cup {Nobody}]
    BY <1>1, AccessAssumption DEF Admit, LoginsTyped
  <2>4. counted' \in [Logins -> 0 .. window']
    BY <1>1, AccessAssumption DEF Admit, LoginsTyped
  <2>. QED
    BY <1>1, <2>1, <2>2, <2>3, <2>4 DEF Admit, LoginsTyped
<1>2. ASSUME NEW l \in Logins, FindUser(l)
      PROVE  LoginsTyped'
  <2>1. Len(log) \in Nat
    BY DEF Typed, RequestsTyped
  <2>2. pc[l] = "find" /\ user[l] \in Users
    BY <1>2 DEF FindUser, Inductive, LoginOfUser
  <2>3. snap' \in [Logins -> Nat] /\ seen' \in [Logins -> Nat]
    BY <1>2, <2>1, <2>2 DEF FindUser, LoginsTyped, RowsTyped
  <2>4. pc' \in [Logins -> Stages] /\ answer' \in [Logins -> {"none", "refused", "session"}]
    BY <1>2 DEF FindUser, LoginsTyped, Stages
  <2>. QED
    BY <1>2, <2>3, <2>4 DEF FindUser, LoginsTyped
<1>3. ASSUME NEW l \in Logins, CheckCredentials(l) \/ ResetFailedAttempts(l) \/ LoginDies(l)
      PROVE  LoginsTyped'
  <2>1. CASE CheckCredentials(l) \/ LoginDies(l)
    BY <2>1 DEF CheckCredentials, LoginDies, LoginsTyped, Stages
  <2>2. CASE ResetFailedAttempts(l)
    <3>1. since' \in [Users -> Nat] /\ dated' \subseteq Logins /\ blurred' \subseteq Users
      BY <2>2 DEF ResetFailedAttempts, NewStreak, Checking, LoginsTyped
    <3>. QED
      BY <2>2, <3>1 DEF ResetFailedAttempts, NewStreak, LoginsTyped, Stages
  <2>. QED
    BY <1>3, <2>1, <2>2
<1>4. ASSUME NEW l \in Logins, RecordFailedAttempt(l)
      PROVE  LoginsTyped'
  <2>1. user[l] \in Users
    BY <1>4 DEF RecordFailedAttempt, Inductive, LoginOfUser
  <2>2. blurred' \subseteq Users /\ failures' \in [Users -> Nat]
    BY <1>4, <2>1 DEF RecordFailedAttempt, LoginsTyped
  <2>. QED
    BY <1>4, <2>2 DEF RecordFailedAttempt, LoginsTyped, Stages
<1>5. ASSUME NEW l \in Logins, Decrement(l)
      PROVE  LoginsTyped'
  BY <1>5 DEF Decrement, LoginsTyped, Stages
<1>6. ASSUME NEW l \in Logins, StoreSession(l) \/ DropSession(l)
      PROVE  LoginsTyped'
  <2>1. session' \in [Logins -> {"none", "stored", "gone"}]
    BY <1>6 DEF StoreSession, DropSession, LoginsTyped
  <2>2. pc' \in [Logins -> Stages] /\ answer' \in [Logins -> {"none", "refused", "session"}]
    BY <1>6 DEF StoreSession, TellSession, DropSession, LoginsTyped, Stages
  <2>. QED
    BY <1>6, <2>1, <2>2 DEF StoreSession, DropSession, LoginsTyped
<1>7. CASE IpWindowEnds
  <2>1. window' \in 1 .. MaxWindows /\ window' = window + 1 /\ window \in Nat
    BY <1>7, AccessAssumption DEF IpWindowEnds, LoginsTyped
  <2>2. counted' \in [Logins -> 0 .. window'] /\ refund' \in [Logins -> 0 .. window']
    BY <1>7, <2>1 DEF IpWindowEnds, LoginsTyped
  <2>3. meter' \in Int
    BY <1>7 DEF IpWindowEnds
  <2>5. expiring' \in BOOLEAN
    BY <1>7, Zenon DEF IpWindowEnds
  <2>4. UNCHANGED <<pc, user, answer, snap, seen, session, failures, since, dated, blurred>>
    BY <1>7 DEF IpWindowEnds
  <2>. QED
    BY <2>1, <2>2, <2>3, <2>4, <2>5 DEF LoginsTyped
<1>8. ASSUME NEW u \in Users, LockExpires(u)
      PROVE  LoginsTyped'
  BY <1>8 DEF LockExpires, LoginsTyped
<1>9. CASE UNCHANGED authVars
  BY <1>9 DEF LoginsTyped
<1>. QED
  BY <1>1, <1>2, <1>3, <1>4, <1>5, <1>6, <1>7, <1>8, <1>9 DEF Steps, LoginStep

LEMMA TypedStep ==
    ASSUME Inductive, Steps
    PROVE  Typed'
BY RowsTypedStep, RequestsTypedStep, LoginsTypedStep DEF Typed

-----------------------------------------------------------------------------
(* The log and the requests                                                *)

\* Only an UPDATE appends to the log, of an account that is there.
LEMMA LogStep ==
    ASSUME Inductive, Steps
    PROVE  \/ UNCHANGED <<log, last, active>>
           \/ UNCHANGED log /\ \E q \in Requests :
                Create(q) /\ Insert(subject[q]) /\ subject[q] \notin there
           \/ \E q \in Requests :
                /\ Update(q) /\ Write(q, fields[q] \cap Columns(KindOf[subject[q]]))
                /\ reply'[q] \in {"error", "updated"}
<1>. USE DEF reqVars, rowVars, inputVars, meterVars, loginVars, authVars, countVars,
       accountVars, Steps, AccountStep, LoginStep
<1>1. ASSUME NEW q \in Requests, AccountStep(q)
      PROVE  \/ UNCHANGED <<log, last, active>>
             \/ UNCHANGED log /\ Create(q) /\ Insert(subject[q]) /\ subject[q] \notin there
             \/ Update(q) /\ Write(q, fields[q] \cap Columns(KindOf[subject[q]]))
  BY <1>1 DEF Begin, Create, Find, Update, Count, ReadPage
<1>2. ASSUME NEW q \in Requests, Update(q)
      PROVE  reply'[q] \in {"error", "updated"}
  BY <1>2 DEF Update, Answer, Inductive, Typed, RequestsTyped
<1>3. ASSUME NEW l \in Logins, LoginStep(l) \/ DropSession(l)
      PROVE  UNCHANGED <<log, last, active>>
  BY <1>3
     DEF Admit, FindUser, CheckCredentials, RecordFailedAttempt,
            ResetFailedAttempts,
         Decrement, StoreSession, LoginDies, DropSession
<1>4. CASE IpWindowEnds \/ UNCHANGED <<accountVars, authVars>> \/ \E u \in Users : LockExpires(u)
  BY <1>4 DEF IpWindowEnds, LockExpires
<1>. QED
  BY <1>1, <1>2, <1>3, <1>4

LEMMA ThereStep ==
    ASSUME Steps
    PROVE  there \subseteq there'
BY DEF reqVars, rowVars, inputVars, meterVars, loginVars, authVars, accountVars, countVars,
       Steps,
       AccountStep, LoginStep, Begin, Create, Insert, Find, Update, Count, ReadPage,
       Admit, FindUser,
       CheckCredentials, RecordFailedAttempt, ResetFailedAttempts, Decrement,
       StoreSession, LoginDies, DropSession, IpWindowEnds, LockExpires

\* What one step appends, and that what is in the log stays.
Extends ==
    \/ log' = log
    \/ \E q \in Requests :
         /\ phase[q] = "update" /\ phase'[q] = "done"
         /\ log' = Append(log, [by |-> q, user |-> subject[q], fields |-> fields[q],
                                suspend |-> suspend[q]])

LEMMA LogExtends ==
    ASSUME Inductive, Steps
    PROVE  /\ Extends
           /\ Len(log) <= Len(log')
           /\ \A i \in 1 .. Len(log) : log'[i] = log[i]
<1>1. Extends
  BY LogStep
     DEF Extends, Update, Write, Enter, Answer, Inductive, Typed, RequestsTyped
<1>2. log \in Seq(Entries)
  BY DEF Inductive, Typed, RequestsTyped
<1>3. ASSUME NEW e \in Entries, log' = Append(log, e)
      PROVE  Len(log) <= Len(log') /\ \A i \in 1 .. Len(log) : log'[i] = log[i]
  BY <1>2, <1>3
<1>4. log' = log \/ \E e \in Entries : log' = Append(log, e)
  <2>1. ASSUME NEW q \in Requests, phase[q] = "update"
        PROVE  [by |-> q, user |-> subject[q], fields |-> fields[q], suspend |-> suspend[q]]
                 \in Entries
    BY <2>1 DEF Inductive, RequestOfAccount, Typed, RequestsTyped, Entries
  <2>. QED
    BY <1>1, <2>1 DEF Extends
<1>. QED
  BY <1>1, <1>2, <1>3, <1>4

LEMMA LogOfAccountsStep ==
    ASSUME Inductive, Steps
    PROVE  LogOfAccounts'
<1>1. CASE log' = log
  BY <1>1, ThereStep DEF Inductive, LogOfAccounts
<1>2. ASSUME NEW q \in Requests,
             phase[q] = "update",
             log' = Append(log, [by |-> q, user |-> subject[q], fields |-> fields[q],
                                 suspend |-> suspend[q]])
      PROVE  LogOfAccounts'
  <2>1. subject[q] \in there /\ log \in Seq(Entries)
    BY <1>2 DEF Inductive, RequestOfAccount, Typed, RequestsTyped
  <2>. QED
    BY <1>2, <2>1, ThereStep DEF Inductive, LogOfAccounts
<1>. QED
  BY <1>1, <1>2, LogExtends DEF Extends

\* What a request asks for is checked before it is one.
LEMMA BeginStep ==
    ASSUME Inductive, NEW q \in Requests, Begin(q)
    PROVE  /\ reply'[q] = "updated" => reply[q] = "updated"
           /\ \/ phase'[q] = "done"
              \/ phase'[q] = "create" /\ subject'[q] \in Users
              \/ phase'[q] = "find" /\ op'[q] = "get" /\ subject'[q] \in Users
              \/ /\ phase'[q] = "find" /\ op'[q] = "revoke" /\ subject'[q] \in Users
                 /\ KindOf[subject'[q]] = "merchant" /\ fields'[q] = {"key", "secret"}
              \/ /\ phase'[q] = "find" /\ op'[q] = "update" /\ subject'[q] \in Users
                 /\ fields'[q] \subseteq Input(KindOf[subject'[q]])
              \/ phase'[q] = "count" /\ op'[q] \in {"admins", "partners", "merchants", "agents"}
BY DEF Begin, Ask, Enter, Answer, Inductive, Typed, RequestsTyped

LEMMA RequestOfAccountStep ==
    ASSUME Inductive, Steps, NEW q \in Requests
    PROVE  RequestOfAccount(q)'
<1>. USE DEF reqVars, rowVars, inputVars, meterVars, loginVars, authVars, countVars,
       accountVars
<1>. RequestOfAccount(q) /\ RequestsTyped
  BY DEF Inductive, Typed
<1>0. ASSUME reply[q] = "updated"
      PROVE  \E i \in 1 .. Len(log') : log'[i].by = q
  <2>1. PICK i \in 1 .. Len(log) : log[i].by = q
    BY <1>0 DEF RequestOfAccount
  <2>2. i \in 1 .. Len(log') /\ log'[i] = log[i]
    BY LogExtends DEF RequestsTyped
  <2>. QED
    BY <2>1, <2>2
<1>1. CASE UNCHANGED <<phase[q], op[q], subject[q], fields[q], reply[q]>>
  BY <1>0, <1>1, ThereStep DEF RequestOfAccount
<1>2. CASE Begin(q)
  BY <1>0, <1>2, BeginStep DEF RequestOfAccount
<1>3. CASE Create(q) \/ Find(q) \/ Count(q) \/ ReadPage(q)
  <2>1. /\ UNCHANGED <<op, subject, fields>>
        /\ \/ phase'[q] = "done" /\ reply'[q] # "updated"
           \/ /\ phase'[q] = "page" \/ (phase[q] = "find" /\ phase'[q] = "update" /\ op[q] # "get"
                                        /\ subject[q] \in there)
              /\ UNCHANGED reply
    BY <1>3 DEF Create, Find, Readable, Count, ReadPage, Enter, Answer, RequestsTyped
  <2>. QED
    BY <1>0, <2>1, ThereStep DEF RequestOfAccount
<1>4. CASE Update(q)
  <2>1. phase'[q] = "done"
    BY <1>4 DEF Update, Enter, Answer, RequestsTyped
  <2>2. reply'[q] = "updated" => \E i \in 1 .. Len(log') : log'[i].by = q
    <3>1. reply'[q] = "updated" =>
            \E e : log' = Append(log, e) /\ e.by = q
      BY <1>4 DEF Update, Write, Answer, RequestsTyped
    <3>2. ASSUME NEW e, log' = Append(log, e), e.by = q
          PROVE  \E i \in 1 .. Len(log') : log'[i].by = q
      <4>1. Len(log') = Len(log) + 1 /\ log'[Len(log) + 1] = e /\ Len(log) \in Nat
        BY <3>2 DEF RequestsTyped
      <4>. QED
        BY <3>2, <4>1
    <3>. QED
      BY <3>1, <3>2
  <2>. QED
    BY <2>1, <2>2 DEF RequestOfAccount
<1>5. ASSUME NEW r \in Requests, AccountStep(r), r # q
      PROVE  UNCHANGED <<phase[q], op[q], subject[q], fields[q], reply[q]>>
  BY <1>5
     DEF AccountStep, Begin, Ask, Create, Find, Update, Count, ReadPage, Enter,
            Answer, RequestsTyped
<1>6. ASSUME NEW l \in Logins, LoginStep(l) \/ DropSession(l)
      PROVE  UNCHANGED <<phase[q], op[q], subject[q], fields[q], reply[q]>>
  BY <1>6
     DEF LoginStep, Admit, FindUser, CheckCredentials, RecordFailedAttempt,
         ResetFailedAttempts, Decrement, StoreSession, LoginDies, DropSession
<1>7. CASE IpWindowEnds \/ UNCHANGED <<accountVars, authVars>> \/ \E u \in Users : LockExpires(u)
  BY <1>1, <1>7 DEF IpWindowEnds, LockExpires
<1>. QED
  BY <1>1, <1>2, <1>3, <1>4, <1>5, <1>6, <1>7 DEF Steps, AccountStep

-----------------------------------------------------------------------------
(* Updates stand                                                           *)

\* The last naming of a field is the new entry, or what it was before.
LEMMA NamedLastOfPrefix ==
    ASSUME NEW u, NEW f, NEW n \in Nat,
           \A i \in 1 .. n : log'[i] = log[i]
    PROVE  /\ NamedLast(u, f, n)' = NamedLast(u, f, n)
           /\ \A i \in NamedLast(u, f, n) : i \in 1 .. n /\ log'[i] = log[i]
BY DEF NamedLast

LEMMA NamedLastAppended ==
    ASSUME NEW u, NEW f, NEW n \in Nat,
           \A i \in 1 .. n : log'[i] = log[i],
           ~(log'[n + 1].user = u /\ f \in log'[n + 1].fields)
    PROVE  NamedLast(u, f, n + 1)' = NamedLast(u, f, n)
<1>1. {i \in 1 .. (n + 1) : log'[i].user = u /\ f \in log'[i].fields}
        = {i \in 1 .. n : log[i].user = u /\ f \in log[i].fields}
  OBVIOUS
<1>. QED
  BY <1>1 DEF NamedLast

LEMMA NamedLastNew ==
    ASSUME NEW u, NEW f, NEW n \in Nat,
           log'[n + 1].user = u, f \in log'[n + 1].fields
    PROVE  NamedLast(u, f, n + 1)' = {n + 1}
BY DEF NamedLast

LEMMA ColumnsCover ==
    ASSUME NEW kind \in Kinds, NEW f \in Tracked, store = "postgres" \/ f # "status",
           f \in Input(kind) \/ (kind = "merchant" /\ f \in {"key", "secret"})
    PROVE  f \in Columns(kind)
<1>1. CASE kind = "admin"
  BY <1>1 DEF Input, Columns, Tracked, AdminInput, AdminColumns, StubAdminColumns
<1>2. CASE kind = "merchant"
  BY <1>2 DEF Input, Columns, Tracked, MerchantInput, MerchantColumns, StubMerchantColumns
<1>3. CASE kind = "agent"
  BY <1>3 DEF Input, Columns, Tracked, AgentInput, AgentColumns, StubAgentColumns
<1>4. CASE kind = "partner"
  BY <1>4 DEF Input, Columns, Tracked, PartnerInput, PartnerColumns, StubPartnerColumns
<1>. QED
  BY <1>1, <1>2, <1>3, <1>4 DEF Kinds

LEMMA StoreFixed == Steps => UNCHANGED store
BY DEF reqVars, rowVars, inputVars, meterVars, loginVars, authVars, accountVars, countVars,
       Steps,
       AccountStep, LoginStep, Begin, Create, Find, Update, Count, ReadPage, Admit,
       FindUser, CheckCredentials, RecordFailedAttempt, ResetFailedAttempts, Decrement,
       StoreSession, LoginDies, DropSession, IpWindowEnds, LockExpires

\* What UpdatesStand says of one field of one account.
Stands(u, f) ==
    /\ last[u][f] \in IF NamedLast(u, f, Len(log)) = {} THEN {NoRequest}
                      ELSE {log[i].by : i \in NamedLast(u, f, Len(log))}
    /\ f = "status" =>
         \A i \in NamedLast(u, f, Len(log)) : (u \in active) = ~log[i].suspend

LEMMA StandsStep ==
    ASSUME Inductive, Steps,
           NEW u \in Users, NEW f \in Tracked, store = "postgres" \/ f # "status"
    PROVE  Stands(u, f)'
<1>. Stands(u, f) /\ RowsTyped /\ RequestsTyped
  BY DEF Inductive, UpdatesStand, Stands, Typed
<1>0. PICK n \in Nat : n = Len(log)
  BY DEF RequestsTyped
<1>1. CASE UNCHANGED <<log, last, active>>
  BY <1>1 DEF Stands, NamedLast
<1>2. ASSUME UNCHANGED log, NEW q \in Requests, Insert(subject[q]), subject[q] \notin there
      PROVE  Stands(u, f)'
  <2>1. NamedLast(u, f, Len(log))' = NamedLast(u, f, Len(log))
    BY <1>2 DEF NamedLast
  <2>2. CASE u = subject[q]
    <3>1. NamedLast(u, f, Len(log)) = {}
      BY <1>2, <2>2 DEF NamedLast, Inductive, LogOfAccounts
    <3>2. last'[u][f] = NoRequest
      BY <1>2, <2>2 DEF Insert, Blank, RowsTyped
    <3>. QED
      BY <2>1, <3>1, <3>2 DEF Stands
  <2>3. CASE u # subject[q]
    <3>1. last'[u] = last[u] /\ (u \in active' <=> u \in active)
      BY <1>2, <2>3 DEF Insert, RowsTyped
    <3>. QED
      BY <1>2, <2>1, <3>1 DEF Stands
  <2>. QED
    BY <2>2, <2>3
<1>3. ASSUME NEW q \in Requests, Update(q), Write(q, fields[q] \cap Columns(KindOf[subject[q]]))
      PROVE  Stands(u, f)'
  <2>. DEFINE e == [by |-> q, user |-> subject[q], fields |-> fields[q], suspend |-> suspend[q]]
  <2>1. subject[q] \in Users /\ phase[q] = "update" /\ RequestOfAccount(q)
    BY <1>3 DEF Update, Inductive, RequestOfAccount
  <2>2. log' = Append(log, e) /\ log \in Seq(Entries) /\ e \in Entries
    BY <1>3, <2>1 DEF Write, Entries, RequestsTyped
  <2>3. /\ Len(log') = n + 1 /\ log'[n + 1] = e
        /\ \A i \in 1 .. n : log'[i] = log[i]
    BY <1>0, <2>2
  <2>6. /\ log'[n + 1].user = subject[q] /\ log'[n + 1].fields = fields[q]
        /\ log'[n + 1].by = q /\ log'[n + 1].suspend = suspend[q]
    BY <2>3
  <2>. HIDE DEF e
  <2>4. CASE subject[q] = u /\ f \in fields[q]
    <3>1. NamedLast(u, f, Len(log))' = {n + 1}
      <4>1. NamedLast(u, f, n + 1)' = {n + 1}
        BY <2>4, <2>6, NamedLastNew
      <4>. QED
        BY <2>3, <4>1 DEF NamedLast
    <3>2. f \in Columns(KindOf[u])
      <4>1. KindOf[u] \in Kinds
        BY AccountsAssumption
      <4>2. f \in Input(KindOf[u]) \/ (KindOf[u] = "merchant" /\ f \in {"key", "secret"})
        BY <2>1, <2>4 DEF RequestOfAccount
      <4>. QED
        BY <4>1, <4>2, ColumnsCover
    <3>3. last'[u][f] = q
      BY <1>3, <2>4, <3>2 DEF Write, RowsTyped
    <3>4. f = "status" => (u \in active' <=> ~suspend[q])
      BY <1>3, <2>4, <3>2 DEF Write
    <3>. QED
      BY <2>6, <3>1, <3>3, <3>4 DEF Stands
  <2>5. CASE ~(subject[q] = u /\ f \in fields[q])
    <3>1. NamedLast(u, f, Len(log))' = NamedLast(u, f, Len(log))
      <4>1. NamedLast(u, f, n + 1)' = NamedLast(u, f, n)
        BY <2>3, <2>5, <2>6, NamedLastAppended
      <4>. QED
        BY <1>0, <2>3, <4>1 DEF NamedLast
    <3>2. \A i \in NamedLast(u, f, Len(log)) : log'[i] = log[i]
      BY <1>0, <2>3 DEF NamedLast
    <3>3. last'[u][f] = last[u][f]
      BY <1>3, <2>1, <2>5 DEF Write, RowsTyped
    <3>4. f = "status" => (u \in active' <=> u \in active)
      BY <1>3, <2>5 DEF Write
    <3>. QED
      BY <3>1, <3>2, <3>3, <3>4 DEF Stands
  <2>. QED
    BY <2>4, <2>5
<1>. QED
  BY <1>1, <1>2, <1>3, LogStep

LEMMA UpdatesStandStep ==
    ASSUME Inductive, Steps
    PROVE  UpdatesStand'
<1>1. \A u \in Users, f \in Tracked :
        store' = "postgres" \/ f # "status" => Stands(u, f)'
  BY StandsStep, StoreFixed
<1>2. \A q \in Requests : RequestOfAccount(q)'
  BY RequestOfAccountStep
<1>. QED
  BY <1>1, <1>2 DEF UpdatesStand, Stands, RequestOfAccount

-----------------------------------------------------------------------------
(* What a step can do to one login, one account and one session            *)

\* The steps of a login, in the order of the code, and what they write of it.
LoginFollows(l) ==
    \/ UNCHANGED <<pc[l], user[l], answer[l], counted[l], refund[l], snap[l], seen[l]>>
    \/ /\ pc[l] = "idle" /\ pc'[l] \in {"find", "done"} /\ user'[l] \in Users
       /\ UNCHANGED <<refund[l], session[l]>> /\ answer'[l] # "session"
    \/ /\ pc[l] = "find" /\ pc'[l] = "check" /\ MayLogIn(user[l])
       /\ store = "postgres" /\ KindOf[user[l]] # "partner"
       /\ snap'[l] = attempts[user[l]] /\ seen'[l] = Len(log)
       /\ UNCHANGED <<user[l], answer[l], counted[l], refund[l], session[l], countVars>>
    \/ /\ UNCHANGED <<user[l], counted[l], snap[l], seen[l], session[l], answer[l]>>
       /\ \/ pc[l] = "check" /\ pc'[l] \in {"record", "reset"} /\ UNCHANGED refund[l]
          \/ pc[l] = "reset" /\ pc'[l] = "decrement" /\ UNCHANGED refund[l]
          \/ pc[l] = "decrement" /\ pc'[l] = "store"
    \/ /\ pc[l] # "idle" /\ pc'[l] = "done"
       /\ UNCHANGED <<user[l], counted[l], refund[l], snap[l], seen[l]>>
       /\ answer'[l] = "session" => pc[l] = "store" /\ session'[l] = "stored"
       /\ session'[l] # session[l] => pc[l] = "store"

LEMMA LoginFollowsStep ==
    ASSUME Inductive, Steps, NEW l \in Logins
    PROVE  LoginFollows(l)
<1>. USE DEF reqVars, rowVars, inputVars, meterVars, loginVars, authVars, countVars,
       accountVars, LoginFollows, Goto, Refuse
<1>. LoginsTyped
  BY DEF Inductive, Typed
<1>1. ASSUME NEW u \in Targets, Admit(l, u)
      PROVE  LoginFollows(l)
  <2>1. u \in Users
    BY AccessAssumption
  <2>2. /\ pc[l] = "idle" /\ pc'[l] \in {"find", "done"} /\ user'[l] = u
        /\ UNCHANGED <<refund, session>>
    BY <1>1 DEF Admit, LoginsTyped
  <2>3. answer'[l] = "session" => answer[l] = "session"
    BY <1>1 DEF Admit, LoginsTyped
  <2>4. answer[l] # "session"
    BY <2>2 DEF Inductive, LoginOfUser
  <2>. QED
    BY <2>1, <2>2, <2>3, <2>4
<1>2. CASE FindUser(l)
  BY <1>2 DEF FindUser, LoginsTyped
<1>3. CASE CheckCredentials(l) \/ RecordFailedAttempt(l) \/ ResetFailedAttempts(l)
  BY <1>3
     DEF CheckCredentials, RecordFailedAttempt, ResetFailedAttempts, LoginsTyped
<1>4. CASE Decrement(l)
  BY <1>4 DEF Decrement, LoginsTyped
<1>5. CASE StoreSession(l)
  BY <1>5 DEF StoreSession, TellSession, LoginsTyped
<1>6. CASE LoginDies(l)
  BY <1>6 DEF LoginDies, LoginsTyped
<1>7. ASSUME NEW m \in Logins, LoginStep(m), m # l
      PROVE  LoginFollows(l)
  BY <1>7
     DEF LoginStep, Admit, FindUser, CheckCredentials, RecordFailedAttempt,
            ResetFailedAttempts,
         Decrement, StoreSession, TellSession, LoginDies, LoginsTyped
<1>8. ASSUME UNCHANGED loginVars
      PROVE  LoginFollows(l)
  BY <1>8
<1>9. ASSUME NEW m \in Logins, DropSession(m)
      PROVE  UNCHANGED loginVars
  BY <1>9 DEF DropSession
<1>10. ASSUME NEW u \in Users, LockExpires(u)
      PROVE  UNCHANGED loginVars
  BY <1>10 DEF LockExpires
<1>11. CASE IpWindowEnds
  BY <1>8, <1>11 DEF IpWindowEnds
<1>. QED
  BY <1>1, <1>2, <1>3, <1>4, <1>5, <1>6, <1>7, <1>8, <1>9, <1>10, <1>11
     DEF Steps, LoginStep

LEMMA SessionStep ==
    ASSUME Inductive, Steps, NEW l \in Logins
    PROVE  \/ UNCHANGED session[l]
           \/ session[l] = "stored" /\ session'[l] = "gone" /\ UNCHANGED <<pc[l], answer[l]>>
           \/ pc[l] = "store" /\ pc'[l] = "done" /\ session'[l] = "stored"
<1>. USE DEF reqVars, rowVars, inputVars, meterVars, loginVars, authVars, countVars,
       accountVars
<1>. LoginsTyped
  BY DEF Inductive, Typed
<1>1. CASE UNCHANGED session
  BY <1>1
<1>2. ASSUME NEW m \in Logins, StoreSession(m)
      PROVE  UNCHANGED session[l] \/ (pc[l] = "store" /\ pc'[l] = "done" /\ session'[l] = "stored")
  BY <1>2 DEF StoreSession, TellSession, Goto, Refuse, LoginsTyped
<1>3. ASSUME NEW m \in Logins, DropSession(m)
      PROVE  \/ UNCHANGED session[l]
             \/ session[l] = "stored" /\ session'[l] = "gone" /\ UNCHANGED <<pc[l], answer[l]>>
  BY <1>3 DEF DropSession, LoginsTyped
<1>4. ASSUME NEW m \in Logins, LoginStep(m), ~StoreSession(m)
      PROVE  UNCHANGED session
  BY <1>4
     DEF LoginStep, Admit, FindUser, CheckCredentials, RecordFailedAttempt,
            ResetFailedAttempts,
         Decrement, LoginDies
<1>5. CASE IpWindowEnds \/ \E u \in Users : LockExpires(u)
  BY <1>1, <1>5 DEF IpWindowEnds, LockExpires
<1>. QED
  BY <1>1, <1>2, <1>3, <1>4, <1>5 DEF Steps

LEMMA LoginOfUserStep ==
    ASSUME Inductive, Steps, NEW l \in Logins
    PROVE  LoginOfUser(l)'
<1>. LoginOfUser(l) /\ LoginsTyped
  BY DEF Inductive, Typed
<1>. QED
  BY LoginFollowsStep, SessionStep DEF LoginFollows, LoginOfUser, Early

\* The counter and the lock of an account at most fall, or a login writes what
\* it read plus one, or a success sets them back and dates every login that has
\* read the counter and not written it.
LEMMA CounterStep ==
    ASSUME Inductive, Steps, NEW u \in Users
    PROVE  /\ dated \subseteq dated'
           /\ \/ /\ UNCHANGED <<failures[u], since[u]>>
                 /\ attempts'[u] \in {0, attempts[u]}
                 /\ u \in locked' => u \in locked
                 /\ u \in blurred => u \in blurred'
              \/ \E l \in Logins :
                   /\ pc[l] = "record" /\ pc'[l] = "done" /\ user[l] = u
                   /\ failures'[u] = failures[u] + 1 /\ UNCHANGED since[u]
                   /\ attempts'[u] = snap[l] + 1
                   /\ u \in locked' => snap[l] + 1 >= MaxFailed
                   /\ u \in blurred \/ l \in dated => u \in blurred'
              \/ /\ UNCHANGED failures[u] /\ since'[u] = failures[u]
                 /\ attempts'[u] = 0 /\ u \notin locked'
                 /\ Checking(u) \subseteq dated'
<1>. USE DEF reqVars, rowVars, inputVars, meterVars, loginVars, authVars, countVars,
       accountVars
<1>. RowsTyped /\ LoginsTyped
  BY DEF Inductive, Typed
<1>. DEFINE Same == /\ UNCHANGED <<failures[u], since[u]>>
                    /\ attempts'[u] \in {0, attempts[u]}
                    /\ u \in locked' => u \in locked
                    /\ u \in blurred => u \in blurred'
            Reset == /\ UNCHANGED failures[u] /\ since'[u] = failures[u]
                     /\ attempts'[u] = 0 /\ u \notin locked'
                     /\ Checking(u) \subseteq dated'
<1>1. CASE UNCHANGED <<failures, since, dated, blurred, attempts, locked>>
  BY <1>1
<1>2. ASSUME NEW l \in Logins, RecordFailedAttempt(l)
      PROVE  /\ dated' = dated
             /\ \/ Same
                \/ /\ pc[l] = "record" /\ pc'[l] = "done" /\ user[l] = u
                   /\ failures'[u] = failures[u] + 1 /\ UNCHANGED since[u]
                   /\ attempts'[u] = snap[l] + 1
                   /\ u \in locked' => snap[l] + 1 >= MaxFailed
                   /\ u \in blurred \/ l \in dated => u \in blurred'
  BY <1>2
     DEF RecordFailedAttempt, SetLock, IsLast, Refuse, Goto, RowsTyped, LoginsTyped
<1>3. ASSUME NEW l \in Logins, ResetFailedAttempts(l)
      PROVE  dated \subseteq dated' /\ (Same \/ Reset)
  BY <1>3 DEF ResetFailedAttempts, Cleared, NewStreak, SetLock, RowsTyped, LoginsTyped
<1>4. ASSUME NEW l \in Logins, LoginStep(l), ~RecordFailedAttempt(l), ~ResetFailedAttempts(l)
      PROVE  UNCHANGED <<failures, since, dated, blurred, attempts, locked>>
  BY <1>4
     DEF LoginStep, Admit, FindUser, CheckCredentials, Decrement, StoreSession,
            LoginDies
<1>5. CASE IpWindowEnds \/ \E l \in Logins : DropSession(l)
  BY <1>1, <1>5 DEF IpWindowEnds, DropSession
<1>6. ASSUME NEW v \in Users, LockExpires(v)
      PROVE  dated' = dated /\ Same
  BY <1>6 DEF LockExpires, SetLock
<1>7. ASSUME NEW q \in Requests, AccountStep(q), UNCHANGED authVars
      PROVE  dated' = dated /\ Same
  BY <1>7
     DEF AccountStep, Begin, Create, Insert, Find, Update, Count, ReadPage,
            RowsTyped
<1>. QED
  BY <1>1, <1>2, <1>3, <1>4, <1>5, <1>6, <1>7 DEF Steps

LEMMA CounterBoundStep ==
    ASSUME Inductive, Steps
    PROVE  CounterBound'
<1>. SUFFICES ASSUME NEW u \in Users
              PROVE  attempts'[u] <= failures'[u] /\ since'[u] <= failures'[u]
  BY DEF CounterBound
<1>. /\ CounterBound /\ \A l \in Logins : SnapOfFailures(l)
     /\ attempts[u] \in Nat /\ failures[u] \in Nat /\ since[u] \in Nat
     /\ \A l \in Logins : snap[l] \in Nat
  BY DEF Inductive, Typed, RowsTyped, LoginsTyped
<1>. QED
  BY CounterStep DEF CounterBound, SnapOfFailures

LEMMA NeverLockedEarlyStep ==
    ASSUME Inductive, Steps
    PROVE  NeverLockedEarly'
<1>. SUFFICES ASSUME NEW u \in Users, u \notin blurred'
              PROVE  /\ attempts'[u] <= failures'[u] - since'[u]
                     /\ u \in locked' => failures'[u] - since'[u] >= MaxFailed
  BY DEF NeverLockedEarly, Streak
<1>. /\ NeverLockedEarly /\ CounterBound /\ \A l \in Logins : SnapOfFailures(l)
     /\ attempts[u] \in Nat /\ failures[u] \in Nat /\ since[u] \in Nat /\ MaxFailed \in Nat
     /\ \A l \in Logins : snap[l] \in Nat
  BY AccessAssumption DEF Inductive, Typed, RowsTyped, LoginsTyped
<1>. QED
  BY CounterStep DEF NeverLockedEarly, CounterBound, SnapOfFailures, Streak

LEMMA SnapOfFailuresStep ==
    ASSUME Inductive, Steps, NEW l \in Logins
    PROVE  SnapOfFailures(l)'
<1>. SUFFICES ASSUME pc'[l] \in {"check", "record"}
              PROVE  /\ snap'[l] <= failures'[user'[l]]
                     /\ KindOf[user'[l]] # "partner" /\ store' = "postgres"
                     /\ l \notin dated' /\ user'[l] \notin blurred' =>
                          snap'[l] <= failures'[user'[l]] - since'[user'[l]]
  BY DEF SnapOfFailures, Streak
<1>1. user'[l] = user[l] /\ user[l] \in Users /\ pc[l] \in {"find", "check", "record"}
  BY LoginFollowsStep DEF LoginFollows, Inductive, LoginOfUser
<1>. DEFINE u == user[l]
<1>2. /\ failures[u] \in Nat /\ failures'[u] \in Nat /\ since[u] \in Nat
      /\ since'[u] \in Nat /\ snap[l] \in Nat /\ attempts[u] \in Nat
  BY <1>1, LoginsTypedStep DEF Inductive, Typed, RowsTyped, LoginsTyped
<1>3. attempts[u] <= failures[u] /\ since[u] <= failures[u] /\ failures[u] <= failures'[u]
  BY <1>1, <1>2, CounterStep DEF Inductive, CounterBound
<1>4. CASE pc[l] = "find"
  <2>1. snap'[l] = attempts[u] /\ store = "postgres" /\ KindOf[u] # "partner"
        /\ UNCHANGED countVars
    BY <1>4, LoginFollowsStep DEF LoginFollows
  <2>2. u \notin blurred => attempts[u] <= failures[u] - since[u]
    BY <1>1 DEF Inductive, NeverLockedEarly, Streak
  <2>. QED
    BY <1>1, <1>2, <1>3, <2>1, <2>2, StoreFixed DEF countVars
<1>5. CASE pc[l] \in {"check", "record"}
  <2>1. UNCHANGED snap[l] /\ SnapOfFailures(l) /\ l \in Checking(u)
    BY <1>1, <1>5, LoginFollowsStep DEF LoginFollows, Inductive, Checking
  <2>2. \/ /\ l \notin dated' => l \notin dated
           /\ u \notin blurred' => u \notin blurred
           /\ failures[u] - since[u] <= failures'[u] - since'[u]
        \/ l \in dated'
    BY <1>1, <1>2, <2>1, CounterStep
  <2>. QED
    BY <1>1, <1>2, <1>3, <1>5, <2>1, <2>2, StoreFixed DEF SnapOfFailures, Streak
<1>. QED
  BY <1>1, <1>4, <1>5

LEMMA OnlyTablesCountedStep ==
    ASSUME Inductive, Steps
    PROVE  OnlyTablesCounted'
BY CounterStep, StoreFixed DEF OnlyTablesCounted, Inductive, SnapOfFailures

LEMMA ReadWhenActiveStep ==
    ASSUME Inductive, Steps, NEW l \in Logins
    PROVE  ReadWhenActive(l)'
<1>. LoginsTyped /\ RequestsTyped /\ LoginOfUser(l) /\ ReadWhenActive(l)
  BY DEF Inductive, Typed
<1>1. PICK u \in Users \cup {Nobody}, n \in Nat : u = user'[l] /\ n = seen'[l]
  <2>1. LoginsTyped'
    BY LoginsTypedStep
  <2>. QED
    BY <2>1 DEF LoginsTyped
<1>. SUFFICES ASSUME pc'[l] \in {"check", "record", "reset", "decrement", "store"}
                       \/ session'[l] # "none"
              PROVE  /\ u \in Users /\ n <= Len(log')
                     /\ \A i \in NamedLast(u, "status", n)' : ~log'[i].suspend
  BY <1>1 DEF ReadWhenActive
<1>2. /\ u \in Users /\ n <= Len(log) /\ user[l] = u
      /\ \A i \in NamedLast(u, "status", n) : ~log[i].suspend
  <2>1. CASE pc[l] = "find"
    <3>1. /\ pc'[l] = "check" /\ MayLogIn(user[l]) /\ store = "postgres"
          /\ seen'[l] = Len(log) /\ user'[l] = user[l]
      BY <2>1, LoginFollowsStep, SessionStep DEF LoginFollows, LoginOfUser
    <3>2. user[l] \in Users /\ user[l] \in active
      BY <2>1, <3>1 DEF LoginOfUser, MayLogIn
    <3>3. "status" \in Tracked /\ Len(log) \in Nat
      BY DEF Tracked, RequestsTyped
    <3>4. \A i \in NamedLast(user[l], "status", Len(log)) :
            (user[l] \in active) = ~log[i].suspend
      BY <3>1, <3>2, <3>3 DEF Inductive, UpdatesStand
    <3>5. u = user[l] /\ n = Len(log)
      BY <1>1, <3>1
    <3>6. \A i \in NamedLast(u, "status", n) : ~log[i].suspend
      BY <3>2, <3>4, <3>5
    <3>. QED
      BY <3>2, <3>3, <3>5, <3>6
  <2>2. CASE pc[l] # "find"
    BY <1>1, <2>2, LoginFollowsStep, SessionStep
       DEF LoginFollows, LoginOfUser, ReadWhenActive
  <2>. QED
    BY <2>1, <2>2
<1>3. /\ Len(log) <= Len(log') /\ Len(log) \in Nat /\ Len(log') \in Nat
      /\ \A i \in 1 .. Len(log) : log'[i] = log[i]
  <2>1. Len(log) \in Nat
    BY DEF RequestsTyped
  <2>2. Len(log') \in Nat
    BY RequestsTypedStep DEF RequestsTyped
  <2>. QED
    BY <2>1, <2>2, LogExtends
<1>. QED
  BY <1>2, <1>3, NamedLastOfPrefix

-----------------------------------------------------------------------------
(* The counter of the address                                              *)

\* What counts a login, lets it in and gives it back, and the end of a window.
LEMMA MeterStep ==
    ASSUME Inductive, Steps
    PROVE  \/ UNCHANGED <<meter, window, counted, refund>>
           \/ \E l \in Logins :
                /\ pc[l] = "idle" /\ pc'[l] # "idle" /\ meter' \in {meter, meter + 1}
                /\ UNCHANGED <<window, counted, refund>>
           \/ \E l \in Logins :
                /\ pc[l] = "idle" /\ pc'[l] # "idle"
                /\ meter' = meter + 1 /\ meter' <= IPLimit
                /\ counted' = [counted EXCEPT ![l] = window] /\ UNCHANGED <<window, refund>>
           \/ \E l \in Logins :
                /\ pc[l] = "decrement" /\ pc'[l] = "store" /\ meter' = meter - 1
                /\ refund' = [refund EXCEPT ![l] = window] /\ UNCHANGED <<window, counted>>
           \/ meter' = 0 /\ window' = window + 1 /\ UNCHANGED <<counted, refund>>
<1>. USE DEF reqVars, rowVars, inputVars, meterVars, loginVars, authVars, countVars,
       accountVars
<1>. LoginsTyped
  BY DEF Inductive, Typed
<1>1. CASE UNCHANGED <<meter, window, counted, refund>>
  BY <1>1
<1>2. ASSUME NEW l \in Logins, NEW u \in Targets, Admit(l, u)
      PROVE  /\ pc[l] = "idle" /\ pc'[l] # "idle" /\ UNCHANGED <<window, refund>>
             /\ \/ meter' \in {meter, meter + 1} /\ UNCHANGED counted
                \/ /\ meter' = meter + 1 /\ meter' <= IPLimit
                   /\ counted' = [counted EXCEPT ![l] = window]
  BY <1>2 DEF Admit, Goto, Refuse, IncrementMeter, Admitted, LoginsTyped
<1>3. ASSUME NEW l \in Logins, Decrement(l)
      PROVE  /\ pc[l] = "decrement" /\ pc'[l] = "store" /\ UNCHANGED <<window, counted>>
             /\ \/ UNCHANGED <<meter, refund>>
                \/ meter' = meter - 1 /\ refund' = [refund EXCEPT ![l] = window]
  BY <1>3 DEF Decrement, Goto, LoginsTyped
<1>4. ASSUME NEW l \in Logins, LoginStep(l), ~Decrement(l), ~\E u \in Targets : Admit(l, u)
      PROVE  UNCHANGED <<meter, window, counted, refund>>
  BY <1>4
     DEF LoginStep, FindUser, CheckCredentials, RecordFailedAttempt,
         ResetFailedAttempts, StoreSession, LoginDies
<1>5. CASE IpWindowEnds
  BY <1>5 DEF IpWindowEnds
<1>6. ASSUME NEW l \in Logins, DropSession(l)
      PROVE  UNCHANGED <<meter, window, counted, refund>>
  BY <1>6 DEF DropSession
<1>7. ASSUME NEW u \in Users, LockExpires(u)
      PROVE  UNCHANGED <<meter, window, counted, refund>>
  BY <1>7 DEF LockExpires
<1>. QED
  BY <1>1, <1>2, <1>3, <1>4, <1>5, <1>6, <1>7 DEF Steps

LEMMA FiniteParts ==
    /\ IsFiniteSet(Counted) /\ Cardinality(Counted) \in Nat
    /\ IsFiniteSet(Foreign) /\ Cardinality(Foreign) \in Nat
    /\ Cardinality(Logins) \in Nat
    /\ \A S : /\ IsFiniteSet(At(S)) /\ Cardinality(At(S)) \in Nat
              /\ Cardinality(At(S)) <= Cardinality(Logins)
<1>1. Counted \subseteq Logins /\ Foreign \subseteq Logins /\ \A S : At(S) \subseteq Logins
  BY DEF Counted, Foreign, At
<1>2. IsFiniteSet(Counted) /\ IsFiniteSet(Foreign)
  BY <1>1, AccessAssumption, FS_Subset
<1>3. \A S : IsFiniteSet(At(S)) /\ Cardinality(At(S)) <= Cardinality(Logins)
  BY <1>1, AccessAssumption, FS_Subset
<1>. QED
  BY <1>2, <1>3, AccessAssumption, FS_CardinalityType

LEMMA BudgetStep ==
    ASSUME Inductive, Steps
    PROVE  Budget'
<1>. /\ LoginsTyped /\ Budget /\ IPLimit \in Nat /\ meter \in Int /\ window \in Nat
     /\ \A l \in Logins : LoginOfUser(l)
  BY AccessAssumption DEF Inductive, Typed, LoginsTyped
<1>1. ASSUME UNCHANGED <<window, counted, refund>>, meter' >= meter, meter' \in Int
      PROVE  Budget'
  <2>1. Counted' = Counted /\ Foreign' = Foreign
    BY <1>1 DEF Counted, Foreign
  <2>. QED
    BY <1>1, <2>1, FiniteParts DEF Budget
<1>2. ASSUME NEW l \in Logins, pc[l] = "idle",
             counted' = [counted EXCEPT ![l] = window], UNCHANGED <<window, refund>>,
             meter' = meter + 1, meter' <= IPLimit
      PROVE  Budget'
  <2>1. refund[l] # window
    BY <1>2 DEF LoginOfUser, Early, LoginsTyped
  <2>2. Counted' = Counted \cup {l} /\ Foreign' = Foreign
    BY <1>2, <2>1 DEF Counted, Foreign, LoginsTyped
  <2>3. Cardinality(Counted') <= Cardinality(Counted) + 1
    <3>1. Cardinality(Counted \cup {l}) \in {Cardinality(Counted), Cardinality(Counted) + 1}
      BY FiniteParts, FS_AddElement
    <3>. QED
      BY <2>2, <3>1, FiniteParts
  <2>4. Cardinality(Counted') \in Nat
    BY <2>2, FiniteParts, FS_AddElement, FS_CardinalityType
  <2>. QED
    BY <1>2, <2>2, <2>3, <2>4, FiniteParts DEF Budget
<1>3. ASSUME NEW l \in Logins, pc[l] = "decrement", meter' = meter - 1,
             refund' = [refund EXCEPT ![l] = window], UNCHANGED <<window, counted>>
      PROVE  Budget'
  <2>1. refund[l] # window
    BY <1>3 DEF LoginOfUser, Early, LoginsTyped
  <2>2. CASE counted[l] = window
    <3>1. Counted' = Counted \ {l} /\ Foreign' = Foreign /\ l \in Counted
      BY <1>3, <2>1, <2>2 DEF Counted, Foreign, LoginsTyped
    <3>2. Cardinality(Counted') = Cardinality(Counted) - 1
      BY <3>1, FiniteParts, FS_RemoveElement
    <3>. QED
      BY <1>3, <3>1, <3>2, FiniteParts DEF Budget
  <2>3. CASE counted[l] # window
    <3>1. Counted' = Counted /\ Foreign' = Foreign \cup {l} /\ l \notin Foreign
      BY <1>3, <2>1, <2>3 DEF Counted, Foreign, LoginsTyped
    <3>2. Cardinality(Foreign') = Cardinality(Foreign) + 1
      BY <3>1, FiniteParts, FS_AddElement
    <3>. QED
      BY <1>3, <3>1, <3>2, FiniteParts DEF Budget
  <2>. QED
    BY <2>2, <2>3
<1>4. ASSUME meter' = 0, window' = window + 1, UNCHANGED <<counted, refund>>
      PROVE  Budget'
  <2>1. \A l \in Logins : counted[l] # window + 1 /\ refund[l] # window + 1
    BY DEF LoginsTyped
  <2>2. Counted' = {} /\ Foreign' = {}
    BY <1>4, <2>1 DEF Counted, Foreign
  <2>. QED
    BY <1>4, <2>2, FS_EmptySet DEF Budget
<1>. QED
  BY <1>1, <1>2, <1>3, <1>4, MeterStep

-----------------------------------------------------------------------------
(* The bounds of the counters                                              *)

\* No login comes back to where it was.
LEMMA AtStep ==
    ASSUME Inductive, Steps,
           NEW S \in {{"idle"}, {"idle", "find", "check", "record"}, Early}
    PROVE  /\ At(S)' \subseteq At(S)
           /\ Cardinality(At(S)') \in Nat /\ Cardinality(At(S)') <= Cardinality(At(S))
           /\ \A l \in Logins : pc[l] \in S /\ pc'[l] \notin S =>
                Cardinality(At(S)') + 1 <= Cardinality(At(S))
<1>1. At(S)' \subseteq At(S)
  BY LoginFollowsStep DEF LoginFollows, At, Early
<1>2. /\ IsFiniteSet(At(S)') /\ Cardinality(At(S)') \in Nat
      /\ Cardinality(At(S)') <= Cardinality(At(S))
  BY <1>1, FiniteParts, FS_Subset, FS_CardinalityType
<1>3. ASSUME NEW l \in Logins, pc[l] \in S, pc'[l] \notin S
      PROVE  Cardinality(At(S)') + 1 <= Cardinality(At(S))
  <2>1. At(S)' \subseteq At(S) \ {l} /\ l \in At(S)
    BY <1>1, <1>3 DEF At
  <2>2. IsFiniteSet(At(S) \ {l}) /\ Cardinality(At(S) \ {l}) = Cardinality(At(S)) - 1
    BY <2>1, FiniteParts, FS_RemoveElement
  <2>3. Cardinality(At(S)') <= Cardinality(At(S) \ {l})
    BY <2>1, <2>2, FS_Subset
  <2>. QED
    BY <1>2, <2>2, <2>3, FiniteParts
<1>. QED
  BY <1>1, <1>2, <1>3

LEMMA BoundsStep ==
    ASSUME Inductive, Steps
    PROVE  Bounds'
<1>. DEFINE Before == {"idle", "find", "check", "record"}
            size(S) == Cardinality(At(S))
            all     == Cardinality(Logins)
<1>. LoginsTyped /\ LoginsTyped' /\ Bounds
  BY LoginsTypedStep DEF Inductive, Typed
<1>1. /\ size({"idle"}) \in Nat /\ size({"idle"})' \in Nat /\ size({"idle"})' <= size({"idle"})
      /\ size({"idle"})' <= all
      /\ \A l \in Logins : pc[l] = "idle" /\ pc'[l] # "idle" =>
           size({"idle"})' + 1 <= size({"idle"})
  BY AtStep, FiniteParts
<1>2. /\ size(Before) \in Nat /\ size(Before)' \in Nat /\ size(Before)' <= size(Before)
      /\ \A l \in Logins : pc[l] = "record" /\ pc'[l] = "done" =>
           size(Before)' + 1 <= size(Before)
  BY AtStep, FiniteParts
<1>3. /\ size(Early) \in Nat /\ size(Early)' \in Nat /\ size(Early)' <= size(Early)
      /\ size(Early)' <= all
      /\ \A l \in Logins : pc[l] = "decrement" /\ pc'[l] = "store" =>
           size(Early)' + 1 <= size(Early)
  <2>1. \A l \in Logins : pc[l] = "decrement" /\ pc'[l] = "store" =>
           pc[l] \in Early /\ pc'[l] \notin Early
    BY DEF Early
  <2>. QED
    BY <2>1, AtStep, FiniteParts
<1>4. all \in Nat /\ meter \in Int /\ meter' \in Int
  BY FiniteParts DEF LoginsTyped
<1>. HIDE DEF size, all
<1>5. ASSUME NEW u \in Users
      PROVE  failures'[u] + size(Before)' <= all
  <2>1. failures[u] \in Nat /\ failures'[u] \in Nat /\ failures[u] + size(Before) <= all
    BY DEF LoginsTyped, Bounds, size, all
  <2>2. \/ failures'[u] = failures[u]
        \/ failures'[u] = failures[u] + 1 /\ size(Before)' + 1 <= size(Before)
    BY <1>2, CounterStep
  <2>. QED
    BY <1>2, <1>4, <2>1, <2>2
<1>6. meter' + size({"idle"})' <= all
  <2>1. meter + size({"idle"}) <= all
    BY DEF Bounds, size, all
  <2>2. \/ meter' <= meter
        \/ meter' = 0
        \/ meter' <= meter + 1 /\ size({"idle"})' + 1 <= size({"idle"})
    BY <1>1, <1>4, MeterStep
  <2>. QED
    BY <1>1, <1>4, <2>1, <2>2
<1>7. size(Early)' - all <= meter'
  <2>1. size(Early) - all <= meter
    BY DEF Bounds, size, all
  <2>2. \/ meter' >= meter
        \/ meter' = 0
        \/ meter' >= meter - 1 /\ size(Early)' + 1 <= size(Early)
    BY <1>3, <1>4, MeterStep
  <2>. QED
    BY <1>3, <1>4, <2>1, <2>2
<1>. QED
  BY <1>5, <1>6, <1>7 DEF Bounds, size, all

-----------------------------------------------------------------------------
(* Initial states and steps                                                *)

LEMMA InitInductive == Init => Inductive
<1>. SUFFICES ASSUME Init
              PROVE  Inductive
  OBVIOUS
<1>. USE DEF Init, AccountInit
<1>1. RowsTyped
  BY AccountsAssumption DEF RowsTyped, Blank
<1>2. RequestsTyped
  <2>1. total \in [Requests -> 0 .. Cardinality(Users)]
    BY AccountsAssumption, FS_CardinalityType
  <2>2. log \in Seq(Entries)
    OBVIOUS
  <2>. QED
    BY <2>1, <2>2 DEF RequestsTyped
<1>3. LoginsTyped
  <2>1. meter \in Int /\ window \in 1 .. MaxWindows
    BY AccessAssumption
  <2>2. expiring \in BOOLEAN
    BY Zenon
  <2>3. counted \in [Logins -> 0 .. window] /\ refund \in [Logins -> 0 .. window]
    OBVIOUS
  <2>. QED
    BY <2>1, <2>2, <2>3 DEF LoginsTyped, Stages
<1>4. \A q \in Requests : RequestOfAccount(q)
  BY DEF RequestOfAccount
<1>5. LogOfAccounts /\ Len(log) = 0
  BY DEF LogOfAccounts
<1>6. UpdatesStand
  <2>1. \A u, f : NamedLast(u, f, Len(log)) = {}
    BY <1>5 DEF NamedLast
  <2>. QED
    BY <2>1 DEF UpdatesStand, Blank
<1>7. \A l \in Logins : LoginOfUser(l) /\ SnapOfFailures(l) /\ ReadWhenActive(l)
  BY DEF LoginOfUser, SnapOfFailures, ReadWhenActive
<1>8. CounterBound /\ NeverLockedEarly /\ OnlyTablesCounted
  BY DEF CounterBound, NeverLockedEarly, Streak, OnlyTablesCounted
<1>9. Budget
  <2>1. Counted = {}
    BY DEF Counted
  <2>2. Cardinality(Counted) = 0 /\ Cardinality(Foreign) \in Nat /\ IPLimit \in Nat
    BY <2>1, FS_EmptySet, FiniteParts, AccessAssumption
  <2>. QED
    BY <2>2 DEF Budget
<1>10. Bounds
  BY FiniteParts DEF Bounds
<1>. QED
  BY <1>1, <1>2, <1>3, <1>4, <1>5, <1>6, <1>7, <1>8, <1>9, <1>10
     DEF Inductive, Typed

LEMMA InductiveStep == Inductive /\ [Next]_vars => Inductive'
<1>. SUFFICES ASSUME Inductive, Steps
              PROVE  Inductive'
  BY OneOfTheSteps
<1>1. Typed' /\ LogOfAccounts' /\ UpdatesStand' /\ \A q \in Requests : RequestOfAccount(q)'
  BY TypedStep, LogOfAccountsStep, UpdatesStandStep, RequestOfAccountStep
<1>2. \A l \in Logins : LoginOfUser(l)' /\ SnapOfFailures(l)' /\ ReadWhenActive(l)'
  BY LoginOfUserStep, SnapOfFailuresStep, ReadWhenActiveStep
<1>3. CounterBound' /\ NeverLockedEarly' /\ OnlyTablesCounted' /\ Budget' /\ Bounds'
  BY CounterBoundStep, NeverLockedEarlyStep, OnlyTablesCountedStep, BudgetStep, BoundsStep
<1>. QED
  BY <1>1, <1>2, <1>3 DEF Inductive

LEMMA Invariance == Spec => []Inductive
BY InitInductive, InductiveStep, PTL DEF Spec

-----------------------------------------------------------------------------
(* Theorems                                                                *)

\* Requests and logins keep their shape: no account has more failed attempts
\* than there are logins, only accounts of the tables of the auth service have
\* any (recordFailedAttempt, auth.go:479), the counter of the address stays
\* within the logins in both directions (auth.go:141, 233), and the id of a
\* session is told after the session was stored (auth.go:263).
THEOREM TypeCorrect == Spec => []TypeOK
<1>1. Inductive => TypeOK
  <2>. SUFFICES ASSUME Inductive
                PROVE  TypeOK
    OBVIOUS
  <2>. RowsTyped /\ RequestsTyped /\ LoginsTyped /\ Bounds
    BY DEF Inductive, Typed
  <2>1. attempts \in [Users -> 0 .. Cardinality(Logins)]
    <3>1. ASSUME NEW u \in Users
          PROVE  attempts[u] \in 0 .. Cardinality(Logins)
      <4>1. attempts[u] \in Nat /\ failures[u] \in Nat /\ attempts[u] <= failures[u]
        BY DEF RowsTyped, LoginsTyped, Inductive, CounterBound
      <4>2. failures[u] + Cardinality(At({"idle", "find", "check", "record"}))
              <= Cardinality(Logins)
        BY DEF Bounds
      <4>. QED
        BY <4>1, <4>2, FiniteParts
    <3>. QED
      BY <3>1 DEF RowsTyped
  <2>2. meter \in -Cardinality(Logins) .. Cardinality(Logins)
    BY FiniteParts DEF Bounds, LoginsTyped
  <2>3. \A l \in Logins : answer[l] = "session" => session[l] # "none"
    BY DEF Inductive, LoginOfUser
  <2>. QED
    BY <2>1, <2>2, <2>3
       DEF TypeOK, RowsTyped, RequestsTyped, LoginsTyped, Inductive,
              OnlyTablesCounted
<1>. QED
  BY <1>1, Invariance, PTL

\* Of the logins Redis counted in one window and let in (auth.go:141-161), those
\* that no success gave back (auth.go:233) are at most IPLimit, but for the
\* successes of other windows given back in this one: for every number of
\* logins, every limit and every interleaving.
THEOREM LimitOfTheAddress == Spec => []BudgetIsKept
<1>1. Inductive => BudgetIsKept
  BY DEF Inductive, Budget, BudgetIsKept, Counted, Foreign
<1>. QED
  BY <1>1, Invariance, PTL

\* The counter of an account is at most the failed checks of it written since
\* its last success, and the account is locked only when these are MaxFailed,
\* although a login writes the number it read before its checks plus one
\* (auth.go:480-490) - unless a login that read the counter before that success
\* has written it since: such a write over the reset is the one way to an early
\* lock.
THEOREM LocksAreEarned == Spec => []NeverLockedEarly
<1>1. Inductive => NeverLockedEarly
  BY DEF Inductive
<1>. QED
  BY <1>1, Invariance, PTL

\* Every field of an account holds the value of the last update that named it
\* and took effect, and who is told "updated" has been written: the UPDATEs
\* name their own columns only (postgres_user_repo.go:312, 629, 918, 1159), and
\* the stub sets the fields of the request, so requests that overlap do not undo
\* one another. Only the status the stub drops is left out.
THEOREM NoUpdateIsUndone == Spec => []UpdatesStand
<1>1. Inductive => UpdatesStand
  BY DEF Inductive
<1>. QED
  BY <1>1, Invariance, PTL

\* No session is stored for a login that read the account (FindUserByEmail,
\* auth.go:181) after a suspension took effect and before another update of the
\* status did: is_active is looked at in the row that was read (auth.go:189).
THEOREM NoSessionForTheSuspended == Spec => []SuspendedStaysOut
<1>1. Inductive => SuspendedStaysOut
  BY DEF Inductive, ReadWhenActive, SuspendedStaysOut
<1>. QED
  BY <1>1, Invariance, PTL
=============================================================================
