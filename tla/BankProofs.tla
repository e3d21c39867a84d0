----------------------------- MODULE BankProofs -----------------------------
(***************************************************************************)
(* What holds of Bank for any number of accounts, merchants and requests.  *)
(***************************************************************************)
EXTENDS Bank, TLAPS

-----------------------------------------------------------------------------
(* Type correctness                                                        *)

\* What a request read for a merchant is mapped to the merchant.
SeenIsMapped(p) == merchant[p] # Nothing => found[p] \subseteq Mapped[merchant[p]]

\* The type invariant, and what it rests on: a rebuild has read mapped accounts.
TypeInductive == BankTypeOK /\ \A p \in Callers : SeenIsMapped(p)

LEMMA TypeInit == BankInit => TypeInductive
BY BankAssumption DEF BankInit, TypeInductive, BankTypeOK, SeenIsMapped, Callers

LEMMA TypeStep ==
    ASSUME TypeInductive, [BankNext]_bankVars
    PROVE  TypeInductive'
<1>. USE BankAssumption DEF tableVars, poolVars, transferVars, MoveTo
<1>1. CASE ResetDailyCounters /\ UNCHANGED transferVars
  BY <1>1 DEF ResetDailyCounters, TypeInductive, BankTypeOK, SeenIsMapped
<1>2. ASSUME NEW p \in Callers, Disable(p), UNCHANGED transferVars
      PROVE  TypeInductive'
  BY <1>2 DEF Disable, GivesUp, MerchantsOf, TypeInductive, BankTypeOK, SeenIsMapped
<1>3. ASSUME NEW p \in Callers, FindAffected(p), UNCHANGED transferVars
      PROVE  TypeInductive'
  BY <1>3 DEF FindAffected, GivesUp, MerchantsOf, TypeInductive, BankTypeOK, SeenIsMapped
<1>4. ASSUME NEW p \in Callers, NEW m \in Merchants, ReadActive(p, m), UNCHANGED transferVars
      PROVE  TypeInductive'
  BY <1>4 DEF ReadActive, ActiveOf, TypeInductive, BankTypeOK, SeenIsMapped
<1>5. ASSUME NEW p \in Callers, NEW m \in Merchants, ReadFails(p, m), UNCHANGED transferVars
      PROVE  TypeInductive'
  BY <1>5 DEF ReadFails, Rebuilt, TypeInductive, BankTypeOK, SeenIsMapped
<1>6. ASSUME NEW p \in Callers, DeletePool(p), UNCHANGED transferVars
      PROVE  TypeInductive'
  BY <1>6 DEF DeletePool, Rebuilt, TypeInductive, BankTypeOK, SeenIsMapped
<1>7. ASSUME NEW p \in Callers, AddToPool(p), UNCHANGED transferVars
      PROVE  TypeInductive'
  <2>1. PICK part \in SUBSET found[p], failed \in BOOLEAN :
           /\ pool' = [pool EXCEPT ![merchant[p]] = @ \cup part]
           /\ Rebuilt(p, merchant[p], failed)
    BY <1>7 DEF AddToPool
  <2>2. UNCHANGED <<status, received, tallied, account, transfer, reference>>
    BY <1>7 DEF AddToPool
  <2>3. bpc[p] = "add" /\ merchant[p] \in todo[p] /\ found[p] \subseteq Mapped[merchant[p]]
    BY <1>7 DEF AddToPool, TypeInductive, BankTypeOK, SeenIsMapped
  <2>. QED
    BY <2>1, <2>2, <2>3 DEF Rebuilt, TypeInductive, BankTypeOK, SeenIsMapped
<1>8. ASSUME NEW p \in Callers, Dies(p), UNCHANGED transferVars
      PROVE  TypeInductive'
  BY <1>8 DEF Dies, MerchantsOf, TypeInductive, BankTypeOK, SeenIsMapped
<1>9. ASSUME NEW r \in Reports, CheckLimit(r), UNCHANGED transferVars
      PROVE  TypeInductive'
  BY <1>9 DEF CheckLimit, Callers, TypeInductive, BankTypeOK, SeenIsMapped
<1>10. ASSUME NEW r \in Reports, NEW a \in BankAccounts, IncrementDailyReceived(r, a),
              UNCHANGED transferVars
       PROVE  TypeInductive'
  BY <1>10 DEF IncrementDailyReceived, Callers, TypeInductive, BankTypeOK, SeenIsMapped
<1>11. ASSUME NEW s \in Switches, NEW a \in BankAccounts, AutoSwitch(s, a), UNCHANGED transferVars
       PROVE  TypeInductive'
  BY <1>11 DEF AutoSwitch, Callers, TypeInductive, BankTypeOK, SeenIsMapped
<1>12. ASSUME NEW u \in Rebuilds, NEW m \in Merchants, UpdateAccountPool(u, m),
              UNCHANGED transferVars
       PROVE  TypeInductive'
  BY <1>12 DEF UpdateAccountPool, Callers, TypeInductive, BankTypeOK, SeenIsMapped
<1>13. ASSUME NEW t \in Transfers,
              CreateTransfer(t) \/ (\E ref \in References : CompleteTransfer(t, ref)),
              UNCHANGED <<tableVars, poolVars, bpc, account>>
       PROVE  TypeInductive'
  BY <1>13 DEF CreateTransfer, CompleteTransfer, TypeInductive, BankTypeOK, SeenIsMapped
<1>14. CASE UNCHANGED bankVars
  BY <1>14 DEF bankVars, TypeInductive, BankTypeOK, SeenIsMapped
<1>. QED
  BY <1>1, <1>2, <1>3, <1>4, <1>5, <1>6, <1>7, <1>8, <1>9, <1>10, <1>11, <1>12,
     <1>13, <1>14
     DEF BankNext, Switch, Report

\* A pool never holds an account that is not mapped to its merchant, and a
\* request between the read and the last command of a rebuild has the pool on
\* its list, whatever failed or died before.
THEOREM TypeCorrect == BankSpec => []BankTypeOK
<1>1. TypeInductive /\ [BankNext]_bankVars => TypeInductive'
  BY TypeStep
<1>2. TypeInductive => BankTypeOK
  BY DEF TypeInductive
<1>. QED
  BY TypeInit, <1>1, <1>2, PTL DEF BankSpec

-----------------------------------------------------------------------------
(* A full account is closed                                                *)

\* A full account that is still active has a report that saw it, will see it, or
\* got an error.
SomebodyCloses(a) ==
    received[a] >= Limit[a] /\ status[a] = "active" =>
        \E r \in tallied : account[r] = a /\ bpc[r] \in {"check", "disable", "failed"}

FullInductive == TypeInductive /\ \A a \in BankAccounts : SomebodyCloses(a)

\* A step that leaves the accounts alone and takes no request out of the three
\* steps keeps who closes an account.
LEMMA CloserStays ==
    ASSUME NEW a \in BankAccounts, SomebodyCloses(a), UNCHANGED <<status, received, tallied>>,
           \A r \in Reports :
               bpc[r] \in {"check", "disable", "failed"} =>
                   account'[r] = account[r] /\ bpc'[r] \in {"check", "disable", "failed"},
           tallied \subseteq Reports
    PROVE  SomebodyCloses(a)'
BY DEF SomebodyCloses

LEMMA FullStep ==
    ASSUME FullInductive, [BankNext]_bankVars
    PROVE  \A a \in BankAccounts : SomebodyCloses(a)'
<1>. USE BankAssumption DEF tableVars, poolVars, transferVars, MoveTo
<1>. BankTypeOK /\ BankTypeOK' /\ \A a \in BankAccounts : SomebodyCloses(a)
  BY TypeStep DEF FullInductive, TypeInductive
<1>. SUFFICES ASSUME NEW a \in BankAccounts
     PROVE  SomebodyCloses(a)'
  OBVIOUS
<1>1. CASE ResetDailyCounters
  BY <1>1 DEF ResetDailyCounters, SomebodyCloses
<1>2. ASSUME NEW p \in Callers, Disable(p)
      PROVE  SomebodyCloses(a)'
  <2>1. CASE status' = [status EXCEPT ![account[p]] = "disabled"] /\ account[p] = a
    BY <2>1 DEF BankTypeOK, SomebodyCloses
  <2>2. CASE /\ status' = [status EXCEPT ![account[p]] = "disabled"]
             /\ account[p] # a
    BY <1>2, <2>2 DEF Disable, GivesUp, BankTypeOK, SomebodyCloses, Callers
  <2>3. CASE MoveTo(p, "failed") /\ UNCHANGED status
    BY <1>2, <2>3, CloserStays DEF Disable, BankTypeOK, Callers
  <2>. QED
    BY <1>2, <2>1, <2>2, <2>3 DEF Disable
<1>3. ASSUME NEW p \in Callers,
             FindAffected(p) \/ DeletePool(p) \/ AddToPool(p)
                \/ (\E m \in Merchants : ReadActive(p, m) \/ ReadFails(p, m))
      PROVE  SomebodyCloses(a)'
  BY <1>3, CloserStays
     DEF FindAffected, GivesUp, DeletePool, AddToPool, ReadActive, ReadFails,
            Rebuilt, BankTypeOK, Callers
<1>4. ASSUME NEW p \in Callers, Dies(p)
      PROVE  SomebodyCloses(a)'
  BY <1>4, CloserStays DEF Dies, BankTypeOK, Callers
<1>5. ASSUME NEW r \in Reports, CheckLimit(r)
      PROVE  SomebodyCloses(a)'
  <2>1. CASE bpc'[r] \in {"disable", "failed"}
    BY <1>5, <2>1, CloserStays DEF CheckLimit, BankTypeOK, Callers
  <2>2. CASE bpc'[r] = "ok" /\ account[r] # a
    BY <1>5, <2>2 DEF CheckLimit, BankTypeOK, Callers, SomebodyCloses
  <2>3. CASE bpc'[r] = "ok" /\ account[r] = a
    <3>1. ~ AtLimit(a)
      BY <1>5, <2>3 DEF CheckLimit, BankTypeOK, Callers
    <3>. QED
      BY <1>5, <3>1 DEF CheckLimit, AtLimit, BankTypeOK, SomebodyCloses
  <2>. QED
    BY <1>5, <2>1, <2>2, <2>3 DEF CheckLimit, BankTypeOK, Callers
<1>6. ASSUME NEW r \in Reports, NEW b \in BankAccounts, IncrementDailyReceived(r, b)
      PROVE  SomebodyCloses(a)'
  <2>1. CASE a # b
    BY <1>6, <2>1 DEF IncrementDailyReceived, BankTypeOK, SomebodyCloses, Callers
  <2>2. CASE a = b
    BY <1>6, <2>2 DEF IncrementDailyReceived, BankTypeOK, SomebodyCloses, Callers
  <2>. QED
    BY <2>1, <2>2
<1>7. ASSUME NEW p \in Callers,
             \/ \E b \in BankAccounts : AutoSwitch(p, b)
             \/ \E m \in Merchants : UpdateAccountPool(p, m)
      PROVE  SomebodyCloses(a)'
  BY <1>7, CloserStays DEF AutoSwitch, UpdateAccountPool, BankTypeOK, Callers
<1>8. CASE UNCHANGED <<tableVars, poolVars, bpc, account>>
  BY <1>8, CloserStays DEF BankTypeOK
<1>. QED
  BY <1>1, <1>2, <1>3, <1>4, <1>5, <1>6, <1>7, <1>8
     DEF BankNext, Switch, Report, Callers, bankVars

\* However many reports reach the limit together, and whatever fails or dies: a
\* full account is handed to no merchant, and it is disabled unless a report that
\* counted is not through with it or got an error (monitor.go:150-206).
THEOREM FullIsClosed == BankSpec => []FullAccountIsClosed
<1>1. BankInit => FullInductive
  BY TypeInit, BankAssumption DEF BankInit, FullInductive, SomebodyCloses
<1>2. FullInductive /\ [BankNext]_bankVars => FullInductive'
  BY TypeStep, FullStep DEF FullInductive
<1>3. FullInductive => FullAccountIsClosed
  BY BankAssumption
     DEF FullInductive, TypeInductive, BankTypeOK, SomebodyCloses, FullAccountIsClosed,
            SelectAccount, HasRoom
<1>. QED
  BY <1>1, <1>2, <1>3, PTL DEF BankSpec

-----------------------------------------------------------------------------
(* A disabled account leaves the pools                                     *)

\* Only a request that rebuilds pools has pools left to rebuild.
HasNoneLeft(p) == bpc[p] \notin {"read", "delete", "add"} => todo[p] = {}

\* The account a does not belong into the pool of m, and one of the requests P
\* has yet to rebuild that pool, or will find that it has to.
Leaving(a, m, P) ==
    \/ status[a] = "active"
    \/ \E q \in P : m \in todo[q]
    \/ \E q \in Callers : bpc[q] = "affected" /\ account[q] = a

\* Two requests that rebuild the same pool at the same time have left it behind.
OverlapBlurs(p, q) == p # q /\ merchant[p] = merchant[q] => merchant[p] \in behind \cup {Nothing}

\* A rebuild that nobody has overlapped writes into an empty pool, and what it
\* read holds by now or is on its way out because of another request.
RebuildIsSound(p) ==
    merchant[p] \notin behind \cup {Nothing} =>
        /\ bpc[p] = "add" => pool[merchant[p]] = {}
        /\ \A a \in found[p] : Leaving(a, merchant[p], Callers \ {p})

PoolIsSound(m) == \A a \in pool[m] : m \in behind \/ Leaving(a, m, Callers)

Inductive ==
    /\ TypeInductive
    /\ \A p \in Callers : HasNoneLeft(p) /\ RebuildIsSound(p)
    /\ \A p, q \in Callers : OverlapBlurs(p, q)
    /\ \A m \in Merchants : PoolIsSound(m)

-----------------------------------------------------------------------------
(* What a step can do to one request, one pool and one account             *)

LEMMA StatusStep ==
    ASSUME BankTypeOK, [BankNext]_bankVars, NEW a \in BankAccounts, status[a] = "active"
    PROVE  \/ status'[a] = "active"
           \/ MerchantsOf(a) \subseteq behind'
           \/ \E q \in Callers : bpc'[q] = "affected" /\ account'[q] = a
<1>1. ASSUME NEW p \in Callers, Disable(p)
      PROVE  \/ status'[a] = "active"
             \/ MerchantsOf(a) \subseteq behind'
             \/ \E q \in Callers : bpc'[q] = "affected" /\ account'[q] = a
  BY <1>1 DEF Disable, GivesUp, MoveTo, BankTypeOK
<1>2. (\A p \in Callers : ~ Disable(p)) => UNCHANGED status
  BY DEF BankNext, bankVars, tableVars, poolVars, ResetDailyCounters, Switch, Report,
         CheckLimit, IncrementDailyReceived, AutoSwitch, UpdateAccountPool,
         FindAffected, ReadActive, ReadFails, DeletePool, AddToPool, Dies
<1>. QED
  BY <1>1, <1>2

LEMMA AffectedStep ==
    ASSUME BankTypeOK, [BankNext]_bankVars, NEW q \in Callers, bpc[q] = "affected"
    PROVE  \/ bpc'[q] = "affected" /\ account'[q] = account[q]
           \/ MerchantsOf(account[q]) \subseteq todo'[q]
           \/ MerchantsOf(account[q]) \subseteq behind'
BY DEF BankNext, bankVars, tableVars, poolVars, MoveTo, BankTypeOK, Callers, ResetDailyCounters,
       Switch, Report, CheckLimit, IncrementDailyReceived, AutoSwitch,
       UpdateAccountPool, Disable, FindAffected, GivesUp, ReadActive, ReadFails,
       Rebuilt, DeletePool, AddToPool, Dies

LEMMA TodoStep ==
    ASSUME BankTypeOK, [BankNext]_bankVars, NEW q \in Callers, HasNoneLeft(q), NEW m \in todo[q]
    PROVE  \/ m \in todo'[q]
           \/ m \in behind'
           \/ AddToPool(q) /\ merchant[q] = m /\ Rebuilt(q, m, FALSE)
BY DEF BankNext, bankVars, tableVars, poolVars, MoveTo, BankTypeOK, Callers, HasNoneLeft,
       ResetDailyCounters, Switch, Report, CheckLimit, IncrementDailyReceived,
       AutoSwitch, UpdateAccountPool, Disable, FindAffected, GivesUp, ReadActive,
       ReadFails, Rebuilt, DeletePool, AddToPool, Dies

LEMMA BlurredStep ==
    ASSUME BankTypeOK, [BankNext]_bankVars, NEW m \in behind, m \notin behind'
    PROVE  \E p \in Callers : ReadActive(p, m) /\ ~ Overlaps(p, m)
BY DEF BankNext, bankVars, tableVars, poolVars, ResetDailyCounters, Switch, Report,
       CheckLimit, IncrementDailyReceived, AutoSwitch, UpdateAccountPool, Disable,
       FindAffected, GivesUp, ReadActive, ReadFails, Rebuilt, DeletePool,
       AddToPool, Dies

LEMMA MerchantStep ==
    ASSUME BankTypeOK, [BankNext]_bankVars, NEW p \in Callers
    PROVE  \/ merchant'[p] = Nothing
           \/ merchant'[p] = merchant[p] /\ found'[p] = found[p]
           \/ merchant'[p] \in Merchants /\ ReadActive(p, merchant'[p])
BY DEF BankNext, bankVars, tableVars, poolVars, BankTypeOK, ResetDailyCounters, Switch,
       Report, CheckLimit, IncrementDailyReceived, AutoSwitch, UpdateAccountPool,
       Disable, FindAffected, GivesUp, ReadActive, ReadFails, Rebuilt, DeletePool,
       AddToPool, Dies

\* A pool is emptied by anybody, and filled by a request whose rebuild of it ends.
LEMMA PoolStep ==
    ASSUME BankTypeOK, [BankNext]_bankVars, NEW m \in Merchants
    PROVE  \/ pool'[m] \in {{}, pool[m]}
           \/ \E p \in Callers : AddToPool(p) /\ merchant[p] = m
BY DEF BankNext, bankVars, tableVars, poolVars, BankTypeOK, ResetDailyCounters, Switch,
       Report, CheckLimit, IncrementDailyReceived, AutoSwitch, UpdateAccountPool,
       Disable, FindAffected, GivesUp, ReadActive, ReadFails, Rebuilt, DeletePool,
       AddToPool, Dies

LEMMA AddStep ==
    ASSUME BankTypeOK, [BankNext]_bankVars, NEW p \in Callers, bpc'[p] = "add"
    PROVE  \/ bpc[p] = "add" /\ merchant'[p] = merchant[p]
           \/ DeletePool(p) /\ pool'[merchant[p]] = {} /\ merchant'[p] = merchant[p]
BY DEF BankNext, bankVars, tableVars, poolVars, MoveTo, BankTypeOK, Callers, ResetDailyCounters,
       Switch, Report, CheckLimit, IncrementDailyReceived, AutoSwitch,
       UpdateAccountPool, Disable, FindAffected, GivesUp, ReadActive, ReadFails,
       Rebuilt, DeletePool, AddToPool, Dies

-----------------------------------------------------------------------------
(* The inductive invariant is one                                          *)

LEMMA NoneLeftStep ==
    ASSUME Inductive, [BankNext]_bankVars, NEW p \in Callers
    PROVE  HasNoneLeft(p)'
BY DEF Inductive, TypeInductive, HasNoneLeft, BankNext, bankVars, tableVars, poolVars,
       MoveTo, BankTypeOK, Callers, ResetDailyCounters, Switch, Report, CheckLimit,
       IncrementDailyReceived, AutoSwitch, UpdateAccountPool, Disable,
       FindAffected, GivesUp, ReadActive, ReadFails, Rebuilt, DeletePool,
       AddToPool, Dies

LEMMA OverlapStep ==
    ASSUME Inductive, [BankNext]_bankVars, NEW p \in Callers, NEW q \in Callers
    PROVE  OverlapBlurs(p, q)'
<1>. SUFFICES ASSUME p # q, merchant'[p] = merchant'[q], merchant'[p] # Nothing
     PROVE  merchant'[p] \in behind'
  BY DEF OverlapBlurs
<1>. BankTypeOK
  BY DEF Inductive, TypeInductive
<1>1. CASE merchant'[p] = merchant[p] /\ merchant'[q] = merchant[q]
  <2>1. merchant[p] \in behind
    BY <1>1 DEF Inductive, OverlapBlurs
  <2>. QED
    BY <1>1, <2>1, BlurredStep DEF Overlaps
<1>2. CASE ReadActive(p, merchant'[p])
  BY <1>2 DEF ReadActive, Overlaps, BankTypeOK
<1>3. CASE ReadActive(q, merchant'[q])
  BY <1>3 DEF ReadActive, Overlaps, BankTypeOK
<1>. QED
  BY <1>1, <1>2, <1>3, MerchantStep

\* An account is on its way out of a pool until it is out, or the pool is left behind.
LEMMA LeavingStep ==
    ASSUME Inductive, [BankNext]_bankVars, NEW m \in Merchants, m \notin behind',
           NEW a \in Mapped[m], NEW P \in SUBSET Callers, Leaving(a, m, P),
           \A q \in Callers : bpc[q] = "affected" => q \in P,
           \A q \in P : ~ (AddToPool(q) /\ merchant[q] = m)
    PROVE  Leaving(a, m, P)'
<1>. a \in BankAccounts /\ m \in MerchantsOf(a) /\ BankTypeOK
  BY BankAssumption DEF Inductive, TypeInductive, MerchantsOf
<1>1. CASE status[a] = "active"
  BY <1>1, StatusStep DEF Leaving
<1>2. ASSUME NEW q \in P, m \in todo[q]
      PROVE  Leaving(a, m, P)'
  BY <1>2, TodoStep DEF Leaving, Inductive
<1>3. ASSUME NEW q \in Callers, bpc[q] = "affected", account[q] = a
      PROVE  Leaving(a, m, P)'
  BY <1>3, AffectedStep DEF Leaving
<1>. QED
  BY <1>1, <1>2, <1>3 DEF Leaving

LEMMA RebuildStep ==
    ASSUME Inductive, TypeInductive', [BankNext]_bankVars, NEW p \in Callers
    PROVE  RebuildIsSound(p)'
<1>. BankTypeOK /\ BankTypeOK' /\ Nothing \notin Merchants
  BY BankAssumption DEF Inductive, TypeInductive
<1>. SUFFICES ASSUME NEW m \in Merchants, m = merchant'[p], m \notin behind'
     PROVE  /\ bpc'[p] = "add" => pool'[m] = {}
            /\ \A a \in found'[p] : Leaving(a, m, Callers \ {p})'
  BY DEF RebuildIsSound, Leaving, BankTypeOK
<1>1. CASE ReadActive(p, m)
  BY <1>1 DEF ReadActive, ActiveOf, MoveTo, Leaving, BankTypeOK, tableVars
<1>2. CASE merchant[p] = m /\ found'[p] = found[p] /\ ~ ReadActive(p, m)
  <2>1. m \notin behind
    BY <1>2, BlurredStep DEF Overlaps
  <2>2. \A q \in Callers \ {p} : merchant[q] # m
    BY <1>2, <2>1 DEF Inductive, OverlapBlurs
  <2>3. ~ AddToPool(p)
    BY <1>2 DEF AddToPool, Rebuilt, BankTypeOK
  <2>4. bpc'[p] = "add" => pool'[m] = {}
    <3>1. RebuildIsSound(p) /\ merchant[p] = m
      BY <1>2 DEF Inductive
    <3>. QED
      BY <3>1, <2>1, <2>2, <2>3, PoolStep, AddStep DEF RebuildIsSound
  <2>5. ASSUME NEW a \in found'[p]
        PROVE  Leaving(a, m, Callers \ {p})'
    <3>1. a \in Mapped[m] /\ Leaving(a, m, Callers \ {p})
      BY <1>2, <2>1, <2>5 DEF Inductive, TypeInductive, SeenIsMapped, RebuildIsSound
    <3>2. \A q \in Callers : bpc[q] = "affected" => q \in Callers \ {p}
      BY <1>2 DEF BankTypeOK
    <3>. QED
      BY <3>1, <3>2, <2>2, LeavingStep
  <2>. QED
    BY <2>4, <2>5
<1>. QED
  BY <1>1, <1>2, MerchantStep

LEMMA PoolIsSoundStep ==
    ASSUME Inductive, TypeInductive', [BankNext]_bankVars, NEW m \in Merchants
    PROVE  PoolIsSound(m)'
<1>. SUFFICES ASSUME m \notin behind', NEW a \in pool'[m]
     PROVE  Leaving(a, m, Callers)'
  BY DEF PoolIsSound
<1>. BankTypeOK /\ BankTypeOK' /\ a \in Mapped[m] /\ Nothing \notin Merchants
  BY BankAssumption DEF Inductive, TypeInductive, BankTypeOK
<1>1. ASSUME NEW p \in Callers, AddToPool(p), merchant[p] = m
      PROVE  Leaving(a, m, Callers)'
  <2>1. m \notin behind /\ bpc[p] = "add" /\ m # Nothing
    BY <1>1 DEF AddToPool, Rebuilt
  <2>2. a \in found[p]
    <3>1. pool[m] = {}
      BY <1>1, <2>1 DEF Inductive, RebuildIsSound
    <3>2. PICK part \in SUBSET found[p] : pool' = [pool EXCEPT ![merchant[p]] = @ \cup part]
      BY <1>1 DEF AddToPool
    <3>3. pool'[m] = part
      BY <1>1, <3>1, <3>2 DEF BankTypeOK
    <3>. QED
      BY <3>3
  <2>3. Leaving(a, m, Callers \ {p})
    BY <1>1, <2>1, <2>2 DEF Inductive, RebuildIsSound
  <2>4. \A q \in Callers \ {p} : merchant[q] # m
    BY <1>1, <2>1 DEF Inductive, OverlapBlurs
  <2>5. \A q \in Callers : bpc[q] = "affected" => q \in Callers \ {p}
    BY <2>1
  <2>6. Leaving(a, m, Callers \ {p})'
    BY <2>3, <2>4, <2>5, LeavingStep
  <2>. QED
    BY <2>6 DEF Leaving
<1>2. CASE m \in behind
  BY <1>2, BlurredStep DEF ReadActive, Leaving, MoveTo, BankTypeOK
<1>3. CASE m \notin behind /\ \A p \in Callers : ~ (AddToPool(p) /\ merchant[p] = m)
  <2>1. a \in pool[m]
    BY <1>3, PoolStep
  <2>2. Leaving(a, m, Callers)
    BY <1>3, <2>1 DEF Inductive, PoolIsSound
  <2>. QED
    BY <1>3, <2>2, LeavingStep
<1>. QED
  BY <1>1, <1>2, <1>3

\* Rebuilds read PostgreSQL and write Redis in calls of their own, they fail in
\* the middle, overtake each other, and the service dies: a disabled account
\* leaves every pool that no failed or overlapped rebuild has left behind, for any
\* number of accounts, merchants and requests (pool.go:199-267).
THEOREM DisabledLeaves == BankSpec => []DisabledLeavesPools
<1>1. BankInit => Inductive
  <2>. SUFFICES ASSUME BankInit
       PROVE  Inductive
    OBVIOUS
  <2>1. TypeInductive
    BY TypeInit
  <2>2. \A p \in Callers : HasNoneLeft(p) /\ RebuildIsSound(p)
    BY DEF BankInit, HasNoneLeft, RebuildIsSound
  <2>3. \A p, q \in Callers : OverlapBlurs(p, q)
    BY DEF BankInit, OverlapBlurs
  <2>4. \A m \in Merchants : PoolIsSound(m)
    BY BankAssumption DEF BankInit, PoolIsSound, Leaving
  <2>. QED
    BY <2>1, <2>2, <2>3, <2>4 DEF Inductive
<1>2. Inductive /\ [BankNext]_bankVars => Inductive'
  <2>. SUFFICES ASSUME Inductive, [BankNext]_bankVars
       PROVE  Inductive'
    OBVIOUS
  <2>1. TypeInductive'
    BY TypeStep DEF Inductive
  <2>. QED
    BY <2>1, NoneLeftStep, OverlapStep, RebuildStep, PoolIsSoundStep DEF Inductive
<1>3. Inductive => DisabledLeavesPools
  BY DEF Inductive, PoolIsSound, Leaving, DisabledLeavesPools
<1>. QED
  BY <1>1, <1>2, <1>3, PTL DEF BankSpec

=============================================================================
