------------------------------- MODULE Access ------------------------------
(***************************************************************************)
(* The auth service, on the accounts of the user service. A login counts   *)
(* itself in Redis under the address of the client, reads the account,     *)
(* compares password and code, writes the failed attempts it saw plus one  *)
(* or sets them back, gives the count of the address one back and stores a *)
(* session. Logins and requests overlap at every statement.                *)
(*                                                                         *)
(* The clients of the model share one address. Which user types have a     *)
(* table, and the outcome of the comparisons, are all that is kept of the  *)
(* credentials.                                                            *)
(***************************************************************************)
EXTENDS Accounts

CONSTANTS
  Logins,
  Targets,           \* the accounts somebody logs in to
  TwoFactor,         \* those of them with a secret for one-time codes
  IPLimit,           \* maxLoginAttemptsPerIP
  MaxFailed,         \* maxFailedAttempts
  MaxWindows,        \* how many windows of the address are looked at
  Loads              \* the logins and requests that happen together

ASSUME AccessAssumption ==
  /\ IsFiniteSet(Logins)
  /\ Targets \subseteq Users
  /\ IPLimit \in Nat /\ MaxFailed \in Nat
  /\ MaxWindows \in Nat \ {0}

VARIABLES
  load,              \* one of Loads
  meter, expiring,   \* login_ratelimit of the address, and whether it expires
  window,            \* how often that key has expired, plus one
  pc, user, answer,  \* where every login is, whose it is, how it was answered
  counted,           \* the window in which it was counted and let in, 0 for none
  refund,            \* the window in which it was given back
  snap, seen,        \* the attempts it read, and the updates before its read
  session,           \* session:<id>, by the login that makes it
  failures,          \* history: the failed checks of an account that were written,
  since,             \*   how many of them before its last success,
  dated,             \*   the logins that read its counter before that success,
  blurred            \*   and the accounts whose counter such a login wrote since

meterVars == <<meter, expiring, window>>
loginVars == <<pc, user, answer, counted, refund, snap, seen>>
countVars == <<failures, since, dated, blurred>>
authVars  == <<meterVars, loginVars, session, countVars>>
vars      == <<accountVars, load, authVars>>

Init ==
  /\ AccountInit
  /\ load \in Loads
  /\ meter = 0 /\ expiring = FALSE
  /\ window = 1
  /\ pc = [l \in Logins |-> "idle"] /\ answer = [l \in Logins |-> "none"]
  /\ user = [l \in Logins |-> Nobody]
  /\ counted = [l \in Logins |-> 0] /\ refund = [l \in Logins |-> 0]
  /\ snap = [l \in Logins |-> 0] /\ seen = [l \in Logins |-> 0]
  /\ session = [l \in Logins |-> "none"]
  /\ failures = [u \in Users |-> 0] /\ since = [u \in Users |-> 0]
  /\ dated = {} /\ blurred = {}

-----------------------------------------------------------------------------
(* Login.                                                                   *)

Goto(l, step) == pc' = [pc EXCEPT ![l] = step]
Refuse(l) == Goto(l, "done") /\ answer' = [answer EXCEPT ![l] = "refused"]

\* Mutant of Admitted: the limit is compared with the count before the INCR.
AdmittedByOldCount(n) == n - 1 <= IPLimit

Admitted(n) == n <= IPLimit

\* INCR, and EXPIRE after the first one; the outcome of EXPIRE is not looked at.
IncrementMeter ==
  /\ meter' = meter + 1
  /\ expiring' \in IF meter = 0 THEN {TRUE, expiring} ELSE {expiring}

\* When Redis does not answer the login goes on, counted or not.
Admit(l, u) ==
  /\ pc[l] = "idle"
  /\ user' = [user EXCEPT ![l] = u]
  /\ \/ /\ meter' \in {meter, meter + 1} /\ UNCHANGED expiring
        /\ Goto(l, "find") /\ UNCHANGED <<answer, counted>>
     \/ /\ IncrementMeter /\ Admitted(meter')
        /\ Goto(l, "find") /\ counted' = [counted EXCEPT ![l] = window] /\ UNCHANGED answer
     \/ IncrementMeter /\ ~Admitted(meter') /\ Refuse(l) /\ UNCHANGED counted
  /\ UNCHANGED <<accountVars, window, refund, snap, seen, session, countVars>>

\* Mutant of MayLogIn: a suspended account may.
MayLogInSuspended(u) == u \in there /\ u \notin locked

MayLogIn(u) == u \in there /\ u \in active /\ u \notin locked

\* Partners have no table here and the stub of this service knows nobody.
FindUser(l) ==
  /\ pc[l] = "find"
  /\ \/ Refuse(l) /\ UNCHANGED <<snap, seen>>
     \/ /\ store = "postgres" /\ KindOf[user[l]] # "partner" /\ MayLogIn(user[l])
        /\ snap' = [snap EXCEPT ![l] = attempts[user[l]]]
        /\ seen' = [seen EXCEPT ![l] = Len(log)]
        /\ Goto(l, "check") /\ UNCHANGED answer
  /\ UNCHANGED <<accountVars, meterVars, user, counted, refund, session, countVars>>

\* The password and then the code, if the account has a secret: a missing code
\* is refused, a wrong one counts like a wrong password.
CheckCredentials(l) ==
  /\ pc[l] = "check"
  /\ \/ Goto(l, "record") /\ UNCHANGED answer
     \/ user[l] \in TwoFactor /\ Refuse(l)
     \/ Goto(l, "reset") /\ UNCHANGED answer
  /\ UNCHANGED <<accountVars, meterVars, user, counted, refund, snap, seen, session, countVars>>

IsLast(n) == n >= MaxFailed

SetLock(u, on) == locked' = IF on THEN locked \union {u} ELSE locked \ {u}

\* The number that was read plus one, with the lock or without it: what other
\* logins wrote in between, the zero of a success included, is written over.
RecordFailedAttempt(l) ==
  /\ pc[l] = "record" /\ Refuse(l)
  /\ \/ UNCHANGED <<attempts, locked, failures, blurred>>
     \/ /\ attempts' = [attempts EXCEPT ![user[l]] = snap[l] + 1]
        /\ SetLock(user[l], IsLast(snap[l] + 1))
        /\ failures' = [failures EXCEPT ![user[l]] = @ + 1]
        /\ blurred' = blurred \union {user[x] : x \in {l} \intersect dated}
  /\ UNCHANGED <<store, there, active, last, reqVars, log, meterVars,
                 user, counted, refund, snap, seen, session, since, dated>>

\* The logins between their read of the counter of u and their write to it.
Checking(u) == {m \in Logins : user[m] = u /\ pc[m] \in {"check", "record"}}

NewStreak(u) ==
  /\ since' = [since EXCEPT ![u] = failures[u]]
  /\ dated' = dated \union Checking(u)
  /\ blurred' = blurred \ {u}
  /\ UNCHANGED failures

\* Mutant of Cleared: the lock goes, the counter stays.
Unlocked(u) == SetLock(u, FALSE) /\ UNCHANGED attempts

Cleared(u) == SetLock(u, FALSE) /\ attempts' = [attempts EXCEPT ![u] = 0]

ResetFailedAttempts(l) ==
  /\ pc[l] = "reset"
  /\ \/ Refuse(l) /\ UNCHANGED <<attempts, locked, countVars>>
     \/ /\ Cleared(user[l]) /\ NewStreak(user[l])
        /\ Refuse(l) \/ (Goto(l, "decrement") /\ UNCHANGED answer)
  /\ UNCHANGED <<store, there, active, last, reqVars, log, meterVars,
                 user, counted, refund, snap, seen, session>>

\* DECR: on a key that is gone it makes one of -1 that never expires.
Decrement(l) ==
  /\ pc[l] = "decrement" /\ Goto(l, "store")
  /\ \/ UNCHANGED <<meter, refund>>
     \/ meter' = meter - 1 /\ refund' = [refund EXCEPT ![l] = window]
  /\ UNCHANGED <<accountVars, expiring, window, user, answer, counted, snap, seen, session,
                 countVars>>

TellSession(l) == Goto(l, "done") /\ answer' = [answer EXCEPT ![l] = "session"]

\* Mutant of StoreSession: the error of SET is not looked at.
StoreSessionUnchecked(l) ==
  /\ pc[l] = "store" /\ TellSession(l)
  /\ session' = [session EXCEPT ![l] = "stored"] \/ UNCHANGED session
  /\ UNCHANGED <<accountVars, meterVars, user, counted, refund, snap, seen, countVars>>

\* The last step: the id of the session is told once it is in Redis.
StoreSession(l) ==
  /\ pc[l] = "store"
  /\ \/ Refuse(l) /\ UNCHANGED session
     \/ /\ session' = [session EXCEPT ![l] = "stored"]
        /\ Refuse(l) \/ TellSession(l)
  /\ UNCHANGED <<accountVars, meterVars, user, counted, refund, snap, seen, countVars>>

\* The service stops under the login.
LoginDies(l) ==
  /\ pc[l] \notin {"idle", "done"} /\ Refuse(l)
  /\ UNCHANGED <<accountVars, meterVars, user, counted, refund, snap, seen, session, countVars>>

LoginStep(l) ==
  \/ \E u \in Targets : Admit(l, u)
  \/ FindUser(l) \/ CheckCredentials(l) \/ RecordFailedAttempt(l) \/ ResetFailedAttempts(l)
  \/ Decrement(l) \/ StoreSession(l) \/ LoginDies(l)

-----------------------------------------------------------------------------
(* Sessions, and the clock.                                                 *)

DropSession(l) ==
  /\ session[l] = "stored"
  /\ session' = [session EXCEPT ![l] = "gone"]
  /\ UNCHANGED <<accountVars, meterVars, loginVars, countVars>>

\* A session that is shown with another address or another user agent than the
\* login's is deleted; one that is valid is left as it is.
ValidateSession(l) == DropSession(l)

\* Only who was told the id of a session can end it.
Logout(l) == answer[l] = "session" /\ DropSession(l)

SessionExpires(l) == DropSession(l)

IpWindowEnds ==
  /\ expiring /\ window < MaxWindows
  /\ meter' = 0 /\ expiring' = FALSE
  /\ window' = window + 1
  /\ UNCHANGED <<accountVars, loginVars, session, countVars>>

\* locked_until is in the past; the number of attempts stays.
LockExpires(u) ==
  /\ u \in locked /\ SetLock(u, FALSE)
  /\ UNCHANGED <<store, there, attempts, active, last, reqVars, log, authVars>>

Next ==
  /\ \/ \E q \in load \intersect Requests : AccountStep(q) /\ UNCHANGED authVars
     \/ \E l \in load \intersect Logins :
          LoginStep(l) \/ ValidateSession(l) \/ Logout(l) \/ SessionExpires(l)
     \/ IpWindowEnds
     \/ \E u \in Targets : LockExpires(u)
  /\ UNCHANGED load

Spec == Init /\ [][Next]_vars

-----------------------------------------------------------------------------
(* Properties.                                                              *)

\* Every record keeps its shape; only accounts in the tables of this service are
\* counted, and who is told the id of a session has had one.
TypeOK ==
  /\ there \subseteq Users /\ locked \subseteq Users /\ active \subseteq Users
  /\ attempts \in [Users -> 0 .. Cardinality(Logins)]
  /\ \A u \in Users : attempts[u] > 0 => KindOf[u] # "partner" /\ store = "postgres"
  /\ fields \in [Requests -> SUBSET Fields]
  /\ total \in [Requests -> 0 .. Cardinality(Users)]
  /\ meter \in -Cardinality(Logins) .. Cardinality(Logins) /\ expiring \in BOOLEAN
  /\ window \in 1 .. MaxWindows
  /\ \A l \in Logins : answer[l] = "session" => session[l] # "none"

\* The logins of one address that Redis counted and let in within a window, and
\* that no success gave back, are at most IPLimit, however they overlap and
\* whatever replies are lost, but for the successes of logins that were counted
\* in another window, or not at all, and are given back in this one.
BudgetIsKept ==
  LET Counted  == {l \in Logins : counted[l] = window /\ refund[l] # window}
      Foreign  == {l \in Logins : counted[l] # window /\ refund[l] = window}
  IN  Cardinality(Counted) <= IPLimit + Cardinality(Foreign)

\* The failed checks of an account that were written since its last success.
Streak(u) == failures[u] - since[u]

\* "The number of consecutive incorrect login attempts allowed before the account
\* is temporarily locked" (auth.go:39): the counter is at most the streak, and a
\* locked account has its MaxFailed failures with no success between them, however
\* logins overlap. A login that read the counter before a success and wrote it
\* after breaks that promise: until the next success the account is left out.
NeverLockedEarly ==
  \A u \in Users \ blurred : /\ attempts[u] <= Streak(u)
                             /\ u \in locked => Streak(u) >= MaxFailed

\* The last of the first n updates of the account u that names the field f.
NamedLast(u, f, n) ==
  LET Named == {i \in 1 .. n : log[i].user = u /\ f \in log[i].fields}
  IN  {i \in Named : \A j \in Named : j <= i}

\* Updates that overlap, with each other, with a revocation of the keys or with
\* logins, do not undo one another: every field holds the value of the last
\* update that named it, the new key and the new secret come from the same
\* revocation, and who is told "updated" has been written. The status is left
\* out in the stub, which drops it in silence.
UpdatesStand ==
  /\ \A u \in Users, f \in Tracked :
       store = "postgres" \/ f # "status" =>
         /\ last[u][f] \in
              IF NamedLast(u, f, Len(log)) = {} THEN {NoRequest}
              ELSE {log[i].by : i \in NamedLast(u, f, Len(log))}
         /\ f = "status" =>
              \A i \in NamedLast(u, f, Len(log)) : (u \in active) = ~log[i].suspend
  /\ \A q \in Requests :
       reply[q] = "updated" => \E i \in 1 .. Len(log) : log[i].by = q

\* A login that read the account after its suspension took effect, and before
\* another update took the suspension back, gets no session.
SuspendedStaysOut ==
  \A l \in Logins :
    session[l] # "none" =>
      \A i \in NamedLast(user[l], "status", seen[l]) : ~log[i].suspend
=============================================================================
