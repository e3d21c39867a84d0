----------------------------- MODULE BooksProofs -----------------------------
(***************************************************************************)
(* What holds of Commission and Scheduler for any requests, inputs,        *)
(* owners, runners, calendar and retention.  The sums the services keep    *)
(* are sums over finite sets of rows, entries and wallets; what is needed  *)
(* of such sums comes first, by induction on the subsets of a set.         *)
(***************************************************************************)
EXTENDS Scheduler, FiniteSetTheorems, WellFoundedInduction, TLAPS

-----------------------------------------------------------------------------
(* Sums of natural numbers over finite sets                                *)

LEMMA NatInductive ==
    ASSUME NEW T \in SUBSET Nat, 0 \in T, \A n \in T : n + 1 \in T
    PROVE  T = Nat
<1>. DEFINE R == {ss \in Nat \X Nat : ss[1] < ss[2]}
            U == Nat \ T
<1>1. ASSUME U # {}
      PROVE  FALSE
  <2>. U \subseteq Nat
    OBVIOUS
  <2>1. IsWellFoundedOn(R, Nat)
    BY NatLessThanWellFounded DEF OpToRel
  <2>. HIDE DEF R, U
  <2>2. PICK x \in U : \A y \in U : ~ (<<y, x>> \in R)
    BY <1>1, <2>1, WFMin
  <2>3. \A y \in U : ~ (y < x)
    BY <2>2 DEF R
  <2>. USE DEF U
  <2>4. x # 0 /\ x \in Nat /\ x \notin T
    BY <2>2
  <2>5. x - 1 \in T
    BY <2>3, <2>4
  <2>6. x - 1 + 1 \in T
    BY <2>5
  <2>. QED
    BY <2>4, <2>6
<1>. QED
  BY <1>1

Pick(s) == CHOOSE x \in s : TRUE

\* g adds up f over every subset of S.
AddsOn(f, S, g) ==
    g = [s \in SUBSET S |-> IF s = {} THEN 0 ELSE f[Pick(s)] + g[s \ {Pick(s)}]]

Small(S, n) == {s \in SUBSET S : Cardinality(s) <= n}

LEMMA SumIsOfAdder == \A f, S : SumFunctionOnSet(f, S) = (CHOOSE g : AddsOn(f, S, g))[S]
BY DEF SumFunctionOnSet, FoldFunctionOnSet, MapThenFoldSet, AddsOn, Pick

LEMMA PickedIsIn == \A s : s # {} => Pick(s) \in s
BY DEF Pick

LEMMA SmallShrinks ==
    ASSUME NEW S, IsFiniteSet(S), NEW n \in Nat, NEW s \in Small(S, n + 1), NEW x \in s
    PROVE  /\ s \ {x} \in Small(S, n)
           /\ Cardinality(s) \in Nat
<1>1. s \in SUBSET S /\ Cardinality(s) <= n + 1
  BY DEF Small
<1>2. IsFiniteSet(s)
  BY <1>1, FS_Subset
<1>3. Cardinality(s) \in Nat /\ Cardinality(s \ {x}) = Cardinality(s) - 1
  BY <1>2, FS_CardinalityType, FS_RemoveElement
<1>. QED
  BY <1>1, <1>3 DEF Small

LEMMA AdderExists ==
    ASSUME NEW f, NEW S, IsFiniteSet(S), \A x \in S : f[x] \in Nat
    PROVE  \E g \in [SUBSET S -> Nat] : AddsOn(f, S, g)
<1>. DEFINE Value(g, s) == IF s = {} THEN 0 ELSE f[Pick(s)] + g[s \ {Pick(s)}]
            Good(n) == \E g \in [Small(S, n) -> Nat] : \A s \in Small(S, n) : g[s] = Value(g, s)
            T == {n \in Nat : Good(n)}
<1>1. 0 \in T
  <2>1. \A s \in Small(S, 0) : s = {}
    BY FS_Subset, FS_EmptySet, FS_CardinalityType DEF Small
  <2>. [s \in Small(S, 0) |-> 0] \in [Small(S, 0) -> Nat]
    OBVIOUS
  <2>. QED
    BY <2>1
<1>2. ASSUME NEW n \in T
      PROVE  n + 1 \in T
  <2>1. PICK g \in [Small(S, n) -> Nat] : \A s \in Small(S, n) : g[s] = Value(g, s)
    OBVIOUS
  <2>. DEFINE h == [s \in Small(S, n + 1) |-> Value(g, s)]
  <2>2. ASSUME NEW s \in Small(S, n + 1)
        PROVE  h[s] \in Nat /\ h[s] = Value(h, s)
    <3>1. CASE s = {}
      BY <3>1
    <3>2. CASE s # {}
      <4>1. Pick(s) \in s /\ Pick(s) \in S
        BY <3>2, PickedIsIn DEF Small
      <4>. DEFINE t == s \ {Pick(s)}
      <4>2. t \in Small(S, n)
        BY <4>1, SmallShrinks
      <4>3. t \in Small(S, n + 1)
        <5>. Cardinality(t) \in Nat
          BY <4>2, FS_Subset, FS_CardinalityType DEF Small
        <5>. QED
          BY <4>2 DEF Small
      <4>4. h[t] = g[t] /\ g[t] \in Nat
        BY <2>1, <4>2, <4>3
      <4>5. h[s] = f[Pick(s)] + g[t] /\ Value(h, s) = f[Pick(s)] + h[t]
        BY <3>2
      <4>. QED
        BY <4>1, <4>4, <4>5
    <3>. QED
      BY <3>1, <3>2
  <2>3. h \in [Small(S, n + 1) -> Nat]
    BY <2>2
  <2>. HIDE DEF h, Value
  <2>4. Good(n + 1)
    BY <2>2, <2>3
  <2>. QED
    BY <2>4
<1>. HIDE DEF Good
<1>3. T = Nat
  BY <1>1, <1>2, NatInductive
<1>4. Small(S, Cardinality(S)) = SUBSET S /\ Cardinality(S) \in Nat
  BY FS_Subset, FS_CardinalityType DEF Small
<1>5. Good(Cardinality(S))
  BY <1>3, <1>4
<1>6. PICK g \in [SUBSET S -> Nat] : \A s \in SUBSET S : g[s] = Value(g, s)
  BY <1>4, <1>5 DEF Good
<1>7. g = [s \in SUBSET S |-> Value(g, s)]
  BY <1>6
<1>. QED
  BY <1>7 DEF AddsOn

LEMMA FiniteSetInductive ==
    ASSUME NEW S, IsFiniteSet(S), NEW P \in SUBSET SUBSET S, {} \in P,
           \A s \in SUBSET S : s # {} /\ (\A x \in s : s \ {x} \in P) => s \in P
    PROVE  S \in P
<1>. DEFINE T == {n \in Nat : Small(S, n) \subseteq P}
<1>1. 0 \in T
  BY FS_Subset, FS_EmptySet, FS_CardinalityType DEF Small
<1>2. ASSUME NEW n \in T
      PROVE  n + 1 \in T
  <2>1. ASSUME NEW s \in Small(S, n + 1), s # {}
        PROVE  s \in P
    <3>1. \A x \in s : s \ {x} \in P
      BY SmallShrinks
    <3>. QED
      BY <2>1, <3>1 DEF Small
  <2>. QED
    BY <2>1
<1>. HIDE DEF T
<1>3. T = Nat
  BY <1>1, <1>2, NatInductive DEF T
<1>4. S \in Small(S, Cardinality(S)) /\ Cardinality(S) \in Nat
  BY FS_CardinalityType DEF Small
<1>. QED
  BY <1>3, <1>4 DEF T

LEMMA AddersAgree ==
    ASSUME NEW f, NEW S, NEW R \in SUBSET S, IsFiniteSet(R), NEW g, NEW h,
           AddsOn(f, S, g), AddsOn(f, R, h)
    PROVE  g[R] = h[R]
<1>. DEFINE P == {s \in SUBSET R : g[s] = h[s]}
<1>1. {} \in P
  BY DEF AddsOn
<1>2. ASSUME NEW s \in SUBSET R, s # {}, \A x \in s : s \ {x} \in P
      PROVE  s \in P
  <2>1. g[s \ {Pick(s)}] = h[s \ {Pick(s)}]
    BY <1>2, PickedIsIn
  <2>. QED
    BY <1>2, <2>1 DEF AddsOn
<1>. P \in SUBSET SUBSET R
  OBVIOUS
<1>. HIDE DEF P
<1>3. R \in P
  BY <1>1, <1>2, FiniteSetInductive
<1>. QED
  BY <1>3 DEF P

\* One adder for all subsets of a set.
LEMMA SumAdds ==
    ASSUME NEW f, NEW S, IsFiniteSet(S), \A x \in S : f[x] \in Nat
    PROVE  \A s \in SUBSET S :
               /\ SumFunctionOnSet(f, s) \in Nat
               /\ SumFunctionOnSet(f, s) =
                      IF s = {} THEN 0 ELSE f[Pick(s)] + SumFunctionOnSet(f, s \ {Pick(s)})
<1>1. PICK g \in [SUBSET S -> Nat] : AddsOn(f, S, g)
  BY AdderExists
<1>2. ASSUME NEW s \in SUBSET S
      PROVE  SumFunctionOnSet(f, s) = g[s]
  <2>1. IsFiniteSet(s) /\ \A x \in s : f[x] \in Nat
    BY FS_Subset
  <2>2. \E h : AddsOn(f, s, h)
    BY <2>1, AdderExists
  <2>. DEFINE h == CHOOSE h : AddsOn(f, s, h)
  <2>3. AddsOn(f, s, h)
    BY <2>2
  <2>4. SumFunctionOnSet(f, s) = h[s]
    BY SumIsOfAdder
  <2>. HIDE DEF h
  <2>5. g[s] = h[s]
    BY <1>1, <2>1, <2>3, AddersAgree
  <2>. QED
    BY <2>4, <2>5
<1>3. ASSUME NEW s \in SUBSET S
      PROVE  g[s] = IF s = {} THEN 0 ELSE f[Pick(s)] + g[s \ {Pick(s)}]
  BY <1>1 DEF AddsOn
<1>. QED
  BY <1>2, <1>3, PickedIsIn

\* What is known of sums of natural numbers over finite sets.
Summable(f, S) == IsFiniteSet(S) /\ \A x \in S : f[x] \in Nat

LEMMA SumOfNone == \A f : SumFunctionOnSet(f, {}) = 0
BY SumAdds, FS_EmptySet

LEMMA SumIsNat ==
    ASSUME NEW f, NEW S, Summable(f, S)
    PROVE  SumFunctionOnSet(f, S) \in Nat
BY SumAdds DEF Summable

LEMMA SumRemove ==
    ASSUME NEW f, NEW S, Summable(f, S), NEW x \in S
    PROVE  SumFunctionOnSet(f, S) = f[x] + SumFunctionOnSet(f, S \ {x})
<1>. DEFINE P == {s \in SUBSET S :
                      \A y \in s :
                          SumFunctionOnSet(f, s) = f[y] + SumFunctionOnSet(f, s \ {y})}
<1>. USE DEF Summable
<1>1. {} \in P
  OBVIOUS
<1>2. ASSUME NEW s \in SUBSET S, \A y \in s : s \ {y} \in P, NEW y \in s
      PROVE  SumFunctionOnSet(f, s) = f[y] + SumFunctionOnSet(f, s \ {y})
  <2>. DEFINE z == Pick(s)
  <2>0. z \in s
    BY PickedIsIn
  <2>. HIDE DEF z
  <2>1. SumFunctionOnSet(f, s) = f[z] + SumFunctionOnSet(f, s \ {z})
    BY SumAdds DEF z
  <2>2. CASE y = z
    BY <2>1, <2>2
  <2>3. CASE y # z
    <3>1. SumFunctionOnSet(f, s \ {z}) = f[y] + SumFunctionOnSet(f, (s \ {z}) \ {y})
      BY <1>2, <2>0, <2>3
    <3>2. SumFunctionOnSet(f, s \ {y}) = f[z] + SumFunctionOnSet(f, (s \ {y}) \ {z})
      BY <1>2, <2>0, <2>3
    <3>3. (s \ {z}) \ {y} = (s \ {y}) \ {z}
      OBVIOUS
    <3>4. f[y] \in Nat /\ f[z] \in Nat /\ SumFunctionOnSet(f, (s \ {y}) \ {z}) \in Nat
      BY <2>0, SumAdds
    <3>. QED
      BY <2>1, <3>1, <3>2, <3>3, <3>4
  <2>. QED
    BY <2>2, <2>3
<1>3. ASSUME NEW s \in SUBSET S, s # {}, \A y \in s : s \ {y} \in P
      PROVE  s \in P
  BY <1>2, <1>3
<1>. P \in SUBSET SUBSET S
  OBVIOUS
<1>. HIDE DEF P
<1>4. S \in P
  BY <1>1, <1>3, FiniteSetInductive
<1>. QED
  BY <1>4 DEF P

LEMMA SumBounded ==
    ASSUME NEW f, NEW g, NEW S, NEW R \in SUBSET S, Summable(f, R), Summable(g, S),
           \A x \in R : f[x] <= g[x]
    PROVE  SumFunctionOnSet(f, R) <= SumFunctionOnSet(g, S)
<1>. DEFINE P == {s \in SUBSET S : SumFunctionOnSet(f, R \cap s) <= SumFunctionOnSet(g, s)}
<1>. USE DEF Summable
<1>1. {} \in P
  <2>. R \cap {} = {}
    OBVIOUS
  <2>. QED
    BY SumOfNone
<1>2. ASSUME NEW s \in SUBSET S, s # {}, \A x \in s : s \ {x} \in P
      PROVE  s \in P
  <2>1. PICK x : x \in s
    BY <1>2
  <2>. DEFINE t == s \ {x}
  <2>2. SumFunctionOnSet(f, R \cap t) <= SumFunctionOnSet(g, t)
    BY <1>2, <2>1
  <2>3. IsFiniteSet(s) /\ IsFiniteSet(t) /\ IsFiniteSet(R \cap s) /\ IsFiniteSet(R \cap t)
    BY FS_Subset
  <2>4. /\ SumFunctionOnSet(g, s) = g[x] + SumFunctionOnSet(g, t)
        /\ g[x] \in Nat
        /\ SumFunctionOnSet(g, t) \in Nat
    BY <2>1, <2>3, SumRemove, SumIsNat
  <2>5. SumFunctionOnSet(f, R \cap t) \in Nat
    BY <2>3, SumIsNat
  <2>6. CASE x \in R
    <3>1. (R \cap s) \ {x} = R \cap t
      OBVIOUS
    <3>2. SumFunctionOnSet(f, R \cap s) = f[x] + SumFunctionOnSet(f, R \cap t)
      BY <2>1, <2>3, <2>6, <3>1, SumRemove
    <3>3. f[x] <= g[x] /\ f[x] \in Nat
      BY <2>6
    <3>4. SumFunctionOnSet(f, R \cap s) <= SumFunctionOnSet(g, s)
      BY <2>2, <2>4, <2>5, <3>2, <3>3
    <3>. QED
      BY <3>4
  <2>7. CASE x \notin R
    <3>1. R \cap s = R \cap t
      BY <2>7
    <3>2. SumFunctionOnSet(f, R \cap s) = SumFunctionOnSet(f, R \cap t)
      BY <3>1
    <3>. HIDE DEF t
    <3>. QED
      BY <2>2, <2>4, <2>5, <3>2
  <2>. QED
    BY <2>6, <2>7
<1>. P \in SUBSET SUBSET S
  OBVIOUS
<1>. HIDE DEF P
<1>3. S \in P
  BY <1>1, <1>2, FiniteSetInductive
<1>4. R \cap S = R
  OBVIOUS
<1>. QED
  BY <1>3, <1>4 DEF P

LEMMA SumSame ==
    ASSUME NEW f, NEW g, NEW S, Summable(f, S), \A x \in S : f[x] = g[x]
    PROVE  SumFunctionOnSet(f, S) = SumFunctionOnSet(g, S)
<1>1. /\ SumFunctionOnSet(f, S) <= SumFunctionOnSet(g, S)
      /\ SumFunctionOnSet(g, S) <= SumFunctionOnSet(f, S)
  BY SumBounded DEF Summable
<1>2. SumFunctionOnSet(f, S) \in Nat /\ SumFunctionOnSet(g, S) \in Nat
  BY SumIsNat DEF Summable
<1>. QED
  BY <1>1, <1>2

\* One of the terms grows by at most k and the others do not grow.
LEMMA SumStep ==
    ASSUME NEW f, NEW g, NEW S, Summable(f, S), Summable(g, S), NEW x \in S, NEW k \in Int,
           f[x] <= g[x] + k, \A y \in S \ {x} : f[y] <= g[y]
    PROVE  SumFunctionOnSet(f, S) <= SumFunctionOnSet(g, S) + k
<1>. DEFINE R == S \ {x}
<1>1. Summable(f, R) /\ Summable(g, R)
  BY FS_Subset DEF Summable
<1>2. SumFunctionOnSet(f, R) <= SumFunctionOnSet(g, R)
  BY <1>1, SumBounded
<1>3. SumFunctionOnSet(f, R) \in Nat /\ SumFunctionOnSet(g, R) \in Nat
  BY <1>1, SumIsNat
<1>4. /\ SumFunctionOnSet(f, S) = f[x] + SumFunctionOnSet(f, R)
      /\ SumFunctionOnSet(g, S) = g[x] + SumFunctionOnSet(g, R)
  BY SumRemove
<1>5. f[x] \in Nat /\ g[x] \in Nat
  BY DEF Summable
<1>. HIDE DEF R
<1>. QED
  BY <1>2, <1>3, <1>4, <1>5

LEMMA SumAdd ==
    ASSUME NEW f, NEW g, NEW S, NEW x, x \notin S, Summable(g, S \cup {x}),
           \A y \in S : f[y] = g[y]
    PROVE  SumFunctionOnSet(g, S \cup {x}) = SumFunctionOnSet(f, S) + g[x]
<1>1. (S \cup {x}) \ {x} = S
  OBVIOUS
<1>2. Summable(g, S) /\ Summable(f, S)
  BY FS_Subset DEF Summable
<1>3. SumFunctionOnSet(g, S \cup {x}) = g[x] + SumFunctionOnSet(g, S)
  BY <1>1, SumRemove
<1>4. SumFunctionOnSet(f, S) = SumFunctionOnSet(g, S)
  BY <1>2, SumSame
<1>. QED
  BY <1>2, <1>3, <1>4, SumIsNat DEF Summable

LEMMA SumOfZeros ==
    ASSUME NEW f, NEW S, IsFiniteSet(S), \A x \in S : f[x] = 0
    PROVE  SumFunctionOnSet(f, S) <= 0
<1>. DEFINE P == {s \in SUBSET S : SumFunctionOnSet(f, s) <= 0}
<1>1. {} \in P
  BY SumOfNone
<1>2. ASSUME NEW s \in SUBSET S, s # {}, \A x \in s : s \ {x} \in P
      PROVE  s \in P
  <2>1. PICK x : x \in s
    BY <1>2
  <2>2. Summable(f, s) /\ Summable(f, s \ {x})
    BY FS_Subset DEF Summable
  <2>3. SumFunctionOnSet(f, s \ {x}) \in Nat /\ SumFunctionOnSet(f, s \ {x}) <= 0
    BY <1>2, <2>1, <2>2, SumIsNat
  <2>4. SumFunctionOnSet(f, s) = f[x] + SumFunctionOnSet(f, s \ {x})
    BY <2>1, <2>2, SumRemove
  <2>. QED
    BY <2>1, <2>3, <2>4
<1>. P \in SUBSET SUBSET S
  OBVIOUS
<1>. HIDE DEF P
<1>3. S \in P
  BY <1>1, <1>2, FiniteSetInductive
<1>. QED
  BY <1>3 DEF P

\* A term that is not positive is inserted.
LEMMA SumOfMore ==
    ASSUME NEW f, NEW g, NEW S, NEW T, NEW x, x \notin S, T = S \cup {x}, Summable(g, T),
           \A y \in S : f[y] = g[y], g[x] <= 0
    PROVE  SumFunctionOnSet(g, T) <= SumFunctionOnSet(f, S)
<1>1. SumFunctionOnSet(g, T) = SumFunctionOnSet(f, S) + g[x]
  BY SumAdd
<1>2. Summable(f, S)
  BY FS_Subset DEF Summable
<1>. QED
  BY <1>1, <1>2, SumIsNat DEF Summable

-----------------------------------------------------------------------------
(* The inductive invariant                                                 *)

CalendarTyped ==
    /\ today \in Dates
    /\ parts \in [Months -> {"none", "attached", "detached", "gone"}]

Crediting == {"agent", "agent ledger", "partner", "partner ledger"}

CreditsTyped ==
    /\ pc \in [Requests -> {"idle", "insert", "done"} \cup Crediting]
    /\ reply \in [Requests -> {"none", "ok", "invalid_amount", "calc_error", "record_error"}]
    /\ comm \in [Requests -> Commissions \cup {None}]

JobsTyped ==
    /\ running \in [Jobs -> BOOLEAN]
    /\ run \in [Runners -> Jobs \cup {None}]
    /\ step \in [Runners -> {"free", "spawned", "query", "upsert", "create", "find", "dump",
                              "detach", "drop", "finish"}]
    /\ todo \in [Runners -> SUBSET Months]
    /\ hand \in [Runners -> Months \cup {None}]

\* The shares of a commission are not negative and add up to its fee.
AddsUp(c) ==
    /\ {c.system, c.agentAmount, c.partnerAmount} \subseteq Nat
    /\ c.fee = c.system + c.agentAmount + c.partnerAmount

\* Every commission that is stored has its type, the day of the calendar too.
Sound(c) == c \in Commissions /\ AddsUp(c)

RowsAddUp == \A c \in rows : AddsUp(c)

\* Every entry of the ledger is the share of a commission that is stored, and of
\* the owner of a wallet.
EntriesHaveRows ==
    \A e \in ledger :
        /\ e.wallet \in Walleted
        /\ \E c \in rows : e \in {Entry(c, "agent"), Entry(c, "partner")}

\* What is due of a commission, and what of it has been paid.
AgentDue(c) == c.agent # None /\ c.agentAmount > 0
PartnerDue(c) == c.partner # None /\ c.partnerAmount > 0
AgentPaid(c) == AgentDue(c) => Entry(c, "agent") \in ledger
PartnerPaid(c) == PartnerDue(c) => Entry(c, "partner") \in ledger

\* No statement has left anything of the request in the tables.
NothingOf(r) == (\A c \in rows : c.id # r) /\ (\A e \in ledger : e.ref # r)

\* How far each request has come, and what it has left behind by then.
RequestSoFar(r) ==
    /\ pc[r] # "done" => reply[r] = "none"
    /\ pc[r] \in {"idle", "insert"} \/ reply[r] \in {"invalid_amount", "calc_error"} =>
           NothingOf(r)
    /\ pc[r] \in {"insert"} \cup Crediting => comm[r].id = r
    /\ pc[r] = "insert" => Sound(comm[r])
    /\ pc[r] \in Crediting => comm[r] \in rows
    /\ pc[r] \in {"agent", "agent ledger"} => AgentDue(comm[r])
    /\ pc[r] \in {"partner", "partner ledger"} => PartnerDue(comm[r]) /\ AgentPaid(comm[r])
    /\ reply[r] = "ok" => comm[r] \in rows /\ AgentPaid(comm[r]) /\ PartnerPaid(comm[r])

\* The months a job may take out are old, and stay so as the days go by.
Old(m) == m <= today[1] - Retention

OnlyOldLeave(g) ==
    /\ run[g] = None <=> step[g] = "free"
    /\ step[g] = "find" => todo[g] = {}
    /\ step[g] \in {"dump", "detach", "drop"} => \A m \in todo[g] : Old(m)
    /\ IF step[g] \in {"detach", "drop"} THEN hand[g] \in todo[g] ELSE hand[g] = None

\* What is added up is finite.
TablesTyped ==
    /\ IsFiniteSet(rows)
    /\ balance \in [Walleted -> Nat]
    /\ ledger \subseteq
           [ref : Requests, share : {"agent", "partner"}, wallet : Owners, amount : Nat]
    /\ IsFiniteSet(ledger)

ReportsTyped ==
    /\ cache \in [Reports -> Nat \cup {None}]
    /\ summary \in [Dates -> [Payees -> Nat]]
    /\ groups \in [Runners -> SUBSET Groups]
    /\ archive \in [Months -> {"none", "dumped", "empty"}]

OneRowPerRequest == \A c, d \in rows : c.id = d.id => c = d

\* The share of a stored commission that is o's, and what may have been done
\* about it: the UPDATE of the wallet, and not the entry yet.
ToAgent(c, o) == IF o = c.agent THEN c.agentAmount ELSE 0
ToPartner(c, o) == IF o = c.partner THEN c.partnerAmount ELSE 0

AgentCredited(c) == pc[c.id] # "agent"
PartnerCredited(c) == pc[c.id] \notin {"agent", "agent ledger", "partner"}
AgentUnexplained(c) == pc[c.id] = "agent ledger"
PartnerUnexplained(c) == pc[c.id] = "partner ledger"

\* What an UPDATE may have added to the wallet of o, what of it no entry of the
\* ledger explains yet, and what of the fee may have gone to any wallet.
Credited(c, o) ==
    (IF AgentCredited(c) THEN ToAgent(c, o) ELSE 0)
      + (IF PartnerCredited(c) THEN ToPartner(c, o) ELSE 0)

Unexplained(c, o) ==
    (IF AgentUnexplained(c) THEN ToAgent(c, o) ELSE 0)
      + (IF PartnerUnexplained(c) THEN ToPartner(c, o) ELSE 0)

Spent(c) ==
    (IF AgentCredited(c) THEN c.agentAmount ELSE 0)
      + (IF PartnerCredited(c) THEN c.partnerAmount ELSE 0)

AllUnexplained(o) == SumFunction([c \in rows |-> Unexplained(c, o)])
AllCredited(o) == SumFunction([c \in rows |-> Credited(c, o)])
AllSpent == SumFunction([c \in rows |-> Spent(c)])

BalancesExplained ==
    /\ \A o \in Walleted :
           Entered(o) + AllUnexplained(o) <= balance[o] /\ balance[o] <= AllCredited(o)
    /\ SumFunction(balance) <= AllSpent

\* What a query found, a report or a cache shows, its rows add up to.
ReportsBehind ==
    /\ \A d \in Dates, o \in Payees : summary[d][o] <= EarnedOn(d, o)
    /\ \A g \in Runners : \A x \in groups[g] : x.total <= EarnedOn(x.date, x.owner)
    /\ \A x \in Reports : cache[x] # None => cache[x] <= EarnedOn(x[1], x[2])

Inductive ==
    /\ CalendarTyped /\ CreditsTyped /\ JobsTyped
    /\ TablesTyped /\ ReportsTyped
    /\ OneRowPerRequest
    /\ BalancesExplained
    /\ ReportsBehind
    /\ \A c \in rows : Sound(c)
    /\ EntriesHaveRows
    /\ \A r \in Requests : RequestSoFar(r)
    /\ \A g \in Runners : OnlyOldLeave(g)
    /\ RecentRowsReadable

-----------------------------------------------------------------------------
(* The split of a fee                                                      *)

LEMMA ProductIsNat ==
    ASSUME NEW a \in Nat, NEW b \in Nat
    PROVE  a * b \in Nat
OBVIOUS

LEMMA RoundIsNat ==
    ASSUME NEW n \in Nat
    PROVE  Round2(n) \in Nat
<1>. DEFINE b == 2 * Scale
            a == 2 * n + Scale
<1>1. a \in Nat /\ b \in Nat /\ b > 0
  BY CommissionAssumption
<1>2. \A x \in Nat, y \in Nat : y > 0 => x \div y \in Nat
  OBVIOUS
<1>. HIDE DEF a, b
<1>3. a \div b \in Nat
  BY <1>1, <1>2
<1>. QED
  BY <1>3 DEF Round2, a, b

LEMMA SplitIsSound ==
    ASSUME NEW in \in Inputs, in.amount > 0, SplitFits(in), NEW r \in Requests, today \in Dates
    PROVE  Sound(Split(r, in))
<1>1. /\ in.amount \in Nat /\ in.fee \in Nat /\ in.agentPct \in Nat /\ in.partnerPct \in Nat
  BY CommissionAssumption
<1>2. /\ in.amount * in.fee \in Nat /\ in.amount * in.agentPct \in Nat
      /\ in.amount * in.partnerPct \in Nat
  BY <1>1, ProductIsNat
<1>3. TotalFee(in) \in Nat /\ AgentShare(in) \in Nat /\ PartnerShare(in) \in Nat
  BY <1>2, RoundIsNat DEF TotalFee, AgentShare, PartnerShare, Share
<1>4. SystemShare(in) \in Nat
  BY <1>3 DEF SystemShare, SplitFits
<1>5. in.agent \in Owners \cup {None} /\ in.partner \in Owners \cup {None}
  BY CommissionAssumption
<1>6. AddsUp(Split(r, in))
  BY <1>3, <1>4 DEF AddsUp, Split, SystemShare
<1>7. Split(r, in) \in Commissions
  BY <1>3, <1>4, <1>5 DEF Commissions, Split
<1>. QED
  BY <1>6, <1>7 DEF Sound

-----------------------------------------------------------------------------
(* The requests                                                            *)

LEMMA CreditSteps ==
    ASSUME [Next]_vars
    PROVE  \/ \E r \in Requests : Request(r)
           \/ UNCHANGED commissionVars
BY DEF Next, NextDay, Control, Aggregation, Partitions, Reader, vars

\* The statements of one request, and the requests they leave alone.
LEMMA OthersStep ==
    ASSUME CreditsTyped, today \in Dates, NEW r \in Requests, Request(r)
    PROVE  /\ CreditsTyped' /\ UNCHANGED <<today, parts>>
           /\ \A q \in Requests \ {r} : UNCHANGED <<pc[q], comm[q], reply[q]>>
<1>. USE DEF Goto, Answer, CreditsTyped
<1>. DEFINE Alone == \A q \in Requests \ {r} : UNCHANGED <<pc[q], comm[q], reply[q]>>
<1>1. ASSUME NEW in \in Inputs, Calculate(r, in)
      PROVE  CreditsTyped' /\ Alone
  <2>1. pc' \in [Requests -> {"idle", "insert", "done"} \cup Crediting]
    BY <1>1 DEF Calculate, Crediting
  <2>2. reply' \in [Requests -> {"none", "ok", "invalid_amount", "calc_error", "record_error"}]
    BY <1>1 DEF Calculate
  <2>3. comm' \in [Requests -> Commissions \cup {None}]
    <3>1. in.amount > 0 /\ SplitFits(in) => Split(r, in) \in Commissions
      BY SplitIsSound DEF Sound
    <3>. QED
      BY <1>1, <3>1 DEF Calculate
  <2>4. Alone
    BY <1>1 DEF Calculate
  <2>. QED
    BY <2>1, <2>2, <2>3, <2>4
<1>2. ASSUME InsertCommission(r)
      PROVE  CreditsTyped' /\ Alone
  <2>1. pc' \in [Requests -> {"idle", "insert", "done"} \cup Crediting]
    BY <1>2 DEF InsertCommission, Succeeds, AfterInsert, AfterAgent, Crediting
  <2>2. reply' \in [Requests -> {"none", "ok", "invalid_amount", "calc_error", "record_error"}]
    BY <1>2 DEF InsertCommission, Succeeds, AfterInsert, AfterAgent
  <2>3. comm' \in [Requests -> Commissions \cup {None}]
    BY <1>2 DEF InsertCommission, Succeeds, AfterInsert, AfterAgent
  <2>4. Alone
    BY <1>2 DEF InsertCommission, Succeeds, AfterInsert, AfterAgent
  <2>. QED
    BY <2>1, <2>2, <2>3, <2>4
<1>3. ASSUME UpdateWallet(r)
      PROVE  CreditsTyped' /\ Alone
  <2>1. pc' \in [Requests -> {"idle", "insert", "done"} \cup Crediting]
    BY <1>3 DEF UpdateWallet, Crediting
  <2>2. reply' \in [Requests -> {"none", "ok", "invalid_amount", "calc_error", "record_error"}]
    BY <1>3 DEF UpdateWallet
  <2>3. comm' \in [Requests -> Commissions \cup {None}]
    BY <1>3 DEF UpdateWallet
  <2>4. Alone
    BY <1>3 DEF UpdateWallet
  <2>. QED
    BY <2>1, <2>2, <2>3, <2>4
<1>4. ASSUME InsertLedger(r)
      PROVE  CreditsTyped' /\ Alone
  <2>1. pc' \in [Requests -> {"idle", "insert", "done"} \cup Crediting]
    BY <1>4 DEF InsertLedger, Succeeds, AfterAgent, Crediting
  <2>2. reply' \in [Requests -> {"none", "ok", "invalid_amount", "calc_error", "record_error"}]
    BY <1>4 DEF InsertLedger, Succeeds, AfterAgent
  <2>3. comm' \in [Requests -> Commissions \cup {None}]
    BY <1>4 DEF InsertLedger, Succeeds, AfterAgent
  <2>4. Alone
    BY <1>4 DEF InsertLedger, Succeeds, AfterAgent
  <2>. QED
    BY <2>1, <2>2, <2>3, <2>4
<1>5. ASSUME CommissionDies(r)
      PROVE  CreditsTyped' /\ Alone
  <2>1. pc' \in [Requests -> {"idle", "insert", "done"} \cup Crediting]
    BY <1>5 DEF CommissionDies, Crediting
  <2>2. reply' \in [Requests -> {"none", "ok", "invalid_amount", "calc_error", "record_error"}]
    BY <1>5 DEF CommissionDies
  <2>3. comm' \in [Requests -> Commissions \cup {None}]
    BY <1>5 DEF CommissionDies
  <2>4. Alone
    BY <1>5 DEF CommissionDies
  <2>. QED
    BY <2>1, <2>2, <2>3, <2>4
<1>6. UNCHANGED <<today, parts>>
  BY DEF Request
<1>. QED
  BY <1>1, <1>2, <1>3, <1>4, <1>5, <1>6 DEF Request

\* What each statement writes, and the one that follows it.
LEMMA CalculateStep ==
    ASSUME CreditsTyped, NEW r \in Requests, NEW in \in Inputs, Calculate(r, in)
    PROVE  /\ pc[r] = "idle" /\ UNCHANGED <<rows, ledger>>
           /\ \/ pc'[r] = "done" /\ reply'[r] \in {"invalid_amount", "calc_error"}
              \/ /\ pc'[r] = "insert" /\ in.amount > 0 /\ SplitFits(in)
                 /\ comm'[r] = Split(r, in) /\ UNCHANGED reply
<1>1. CASE in.amount <= 0
  BY <1>1 DEF Calculate, Goto, Answer, CreditsTyped
<1>2. CASE in.amount > 0
  BY <1>2 DEF Calculate, Goto, Answer, CreditsTyped
<1>. QED
  BY <1>1, <1>2, CommissionAssumption

\* A statement is followed by the step s, or by the answer.
Followed(r, s) ==
    \/ pc'[r] = s /\ UNCHANGED reply
    \/ pc'[r] = "done" /\ reply'[r] = "ok" /\ s = "done"
    \/ pc'[r] = "done" /\ reply'[r] = "record_error"

LEMMA StatementStep ==
    ASSUME CreditsTyped, NEW r \in Requests, Request(r)
    PROVE  \/ \E in \in Inputs : Calculate(r, in)
           \/ /\ pc[r] \notin {"idle", "done"} /\ pc'[r] = "done"
              /\ UNCHANGED <<rows, ledger, comm>>
              /\ reply'[r] \in {reply[r], "record_error"}
           \/ /\ pc[r] = "insert" /\ parts[comm[r].date[1]] = "attached"
              /\ rows' = rows \cup {comm[r]} /\ UNCHANGED <<ledger, comm>>
              /\ Followed(r, AfterInsert(comm[r]))
           \/ /\ pc[r] = "agent" /\ pc'[r] = "agent ledger"
              /\ UNCHANGED <<rows, ledger, comm, reply>>
           \/ /\ pc[r] = "partner" /\ pc'[r] = "partner ledger"
              /\ UNCHANGED <<rows, ledger, comm, reply>>
           \/ /\ pc[r] = "agent ledger" /\ comm[r].agent \in Walleted
              /\ ledger' = ledger \cup {Entry(comm[r], "agent")} /\ UNCHANGED <<rows, comm>>
              /\ Followed(r, AfterAgent(comm[r]))
           \/ /\ pc[r] = "partner ledger" /\ comm[r].partner \in Walleted
              /\ ledger' = ledger \cup {Entry(comm[r], "partner")} /\ UNCHANGED <<rows, comm>>
              /\ Followed(r, "done")
<1>. USE DEF Goto, Answer, CreditsTyped
<1>1. ASSUME InsertCommission(r)
      PROVE  /\ pc[r] = "insert" /\ UNCHANGED <<ledger, comm>>
             /\ \/ /\ parts[comm[r].date[1]] = "attached" /\ rows' = rows \cup {comm[r]}
                   /\ Followed(r, AfterInsert(comm[r]))
                \/ pc'[r] = "done" /\ reply'[r] = "record_error" /\ UNCHANGED rows
  BY <1>1 DEF InsertCommission, Succeeds, Followed
<1>2. ASSUME UpdateWallet(r)
      PROVE  /\ UNCHANGED <<rows, ledger, comm>>
             /\ \/ pc[r] = "agent" /\ pc'[r] = "agent ledger" /\ UNCHANGED reply
                \/ pc[r] = "partner" /\ pc'[r] = "partner ledger" /\ UNCHANGED reply
                \/ /\ pc[r] \in {"agent", "partner"} /\ pc'[r] = "done"
                   /\ reply'[r] = "record_error"
  BY <1>2 DEF UpdateWallet
<1>3. ASSUME InsertLedger(r)
      PROVE  /\ UNCHANGED <<rows, comm>>
             /\ \/ /\ pc[r] = "agent ledger" /\ comm[r].agent \in Walleted
                   /\ ledger' = ledger \cup {Entry(comm[r], "agent")}
                   /\ Followed(r, AfterAgent(comm[r]))
                \/ /\ pc[r] = "partner ledger" /\ comm[r].partner \in Walleted
                   /\ ledger' = ledger \cup {Entry(comm[r], "partner")}
                   /\ Followed(r, "done")
                \/ /\ pc[r] \in {"agent ledger", "partner ledger"} /\ pc'[r] = "done"
                   /\ reply'[r] = "record_error" /\ UNCHANGED ledger
  <2>1. CASE pc[r] = "agent ledger"
    <3>1. Due(r) = Entry(comm[r], "agent") /\ Payee(r) = comm[r].agent
      BY <2>1 DEF Due, Payee, Entry
    <3>. QED
      BY <1>3, <2>1, <3>1 DEF InsertLedger, Succeeds, Followed
  <2>2. CASE pc[r] = "partner ledger"
    <3>1. Due(r) = Entry(comm[r], "partner") /\ Payee(r) = comm[r].partner
      BY <2>2 DEF Due, Payee, Entry
    <3>. QED
      BY <1>3, <2>2, <3>1 DEF InsertLedger, Succeeds, Followed
  <2>. QED
    BY <1>3, <2>1, <2>2 DEF InsertLedger
<1>4. ASSUME CommissionDies(r)
      PROVE  /\ pc[r] \notin {"idle", "done"} /\ pc'[r] = "done"
             /\ UNCHANGED <<rows, ledger, comm, reply>>
  BY <1>4 DEF CommissionDies
<1>. QED
  BY <1>1, <1>2, <1>3, <1>4 DEF Request

\* What a request leaves in the tables is its own.
LEMMA TablesStep ==
    ASSUME Inductive, NEW r \in Requests, Request(r)
    PROVE  /\ rows' = rows \/ (pc[r] = "insert" /\ rows' = rows \cup {comm[r]})
           /\ \/ ledger' = ledger
              \/ /\ pc[r] \in Crediting
                 /\ \E share \in {"agent", "partner"} :
                      /\ ledger' = ledger \cup {Entry(comm[r], share)}
                      /\ Entry(comm[r], share).wallet \in Walleted
<1>1. ASSUME NEW in \in Inputs, Calculate(r, in)
      PROVE  UNCHANGED <<rows, ledger>>
  BY <1>1 DEF Calculate
<1>. QED
  BY <1>1, StatementStep DEF Inductive, Crediting, Entry

LEMMA TablesGrow ==
    ASSUME Inductive, [Next]_vars
    PROVE  rows \subseteq rows' /\ ledger \subseteq ledger'
BY CreditSteps, TablesStep DEF commissionVars

LEMMA RequestSoFarStep ==
    ASSUME Inductive, NEW r \in Requests, NEW q \in Requests, Request(q)
    PROVE  RequestSoFar(r)'
<1>. CreditsTyped /\ RequestSoFar(r) /\ RequestSoFar(q) /\ today \in Dates
  BY DEF Inductive, CalendarTyped
<1>0. rows \subseteq rows' /\ ledger \subseteq ledger'
  BY TablesStep
<1>1. CASE q # r
  <2>1. UNCHANGED <<pc[r], comm[r], reply[r]>>
    BY <1>1, OthersStep
  <2>2. NothingOf(r) => NothingOf(r)'
    <3>1. pc[q] \in {"insert"} \cup Crediting => comm[q].id # r
      BY <1>1 DEF RequestSoFar
    <3>. QED
      BY <3>1, TablesStep DEF NothingOf, Entry
  <2>3. /\ AgentPaid(comm[r]) => AgentPaid(comm[r])'
        /\ PartnerPaid(comm[r]) => PartnerPaid(comm[r])'
    BY <1>0, <2>1 DEF AgentPaid, PartnerPaid, AgentDue, PartnerDue, Entry
  <2>. QED
    BY <1>0, <2>1, <2>2, <2>3 DEF RequestSoFar, Sound, AddsUp, AgentDue, PartnerDue
<1>2. CASE q = r
  <2>1. ASSUME NEW in \in Inputs, Calculate(r, in)
        PROVE  RequestSoFar(r)'
    <3>1. NothingOf(r) /\ reply[r] = "none" /\ UNCHANGED <<rows, ledger>> /\ NothingOf(r)'
      BY <2>1, CalculateStep DEF RequestSoFar, NothingOf
    <3>2. CASE pc'[r] = "done"
      BY <2>1, <3>1, <3>2, CalculateStep DEF RequestSoFar, Crediting
    <3>3. CASE pc'[r] = "insert" /\ comm'[r] = Split(r, in) /\ in.amount > 0 /\ SplitFits(in)
      <4>1. Sound(comm'[r]) /\ comm'[r].id = r
        BY <3>3, SplitIsSound DEF Split
      <4>2. reply'[r] = "none"
        BY <2>1, <3>1, <3>3, CalculateStep
      <4>. QED
        BY <3>1, <3>3, <4>1, <4>2 DEF RequestSoFar, Crediting, Sound, AddsUp
    <3>. QED
      BY <2>1, <3>2, <3>3, CalculateStep
  <2>2. CASE /\ pc[r] \notin {"idle", "done"} /\ pc'[r] = "done"
             /\ UNCHANGED <<rows, ledger, comm>> /\ reply'[r] \in {reply[r], "record_error"}
    BY <2>2 DEF RequestSoFar, Crediting
  <2>3. CASE /\ pc[r] = "insert" /\ rows' = rows \cup {comm[r]} /\ UNCHANGED <<ledger, comm>>
             /\ Followed(r, AfterInsert(comm[r]))
    <3>1. comm'[r] \in rows' /\ comm'[r].id = r /\ reply[r] = "none"
      BY <2>3 DEF RequestSoFar
    <3>2. /\ AfterInsert(comm[r]) = "agent" => AgentDue(comm'[r])
          /\ AfterInsert(comm[r]) # "agent" => ~AgentDue(comm'[r])
          /\ AfterInsert(comm[r]) = "partner" => PartnerDue(comm'[r])
          /\ AfterInsert(comm[r]) = "done" => ~PartnerDue(comm'[r])
          /\ AfterInsert(comm[r]) \in {"agent", "partner", "done"}
      BY <2>3 DEF AfterInsert, AfterAgent, AgentDue, PartnerDue
    <3>. QED
      BY <2>3, <3>1, <3>2
         DEF RequestSoFar, Crediting, Followed, AgentPaid, PartnerPaid, AgentDue,
             PartnerDue
  <2>4. CASE /\ \/ pc[r] = "agent" /\ pc'[r] = "agent ledger"
                \/ pc[r] = "partner" /\ pc'[r] = "partner ledger"
             /\ UNCHANGED <<rows, ledger, comm, reply>>
    BY <2>4 DEF RequestSoFar, Crediting, AgentPaid, AgentDue, PartnerDue
  <2>5. CASE /\ pc[r] = "agent ledger" /\ ledger' = ledger \cup {Entry(comm[r], "agent")}
             /\ UNCHANGED <<rows, comm>> /\ Followed(r, AfterAgent(comm[r]))
    <3>1. /\ comm'[r] \in rows' /\ comm'[r].id = r /\ reply[r] = "none"
          /\ Entry(comm[r], "agent")' \in ledger'
      BY <2>5 DEF RequestSoFar, Crediting, Entry
    <3>2. AgentPaid(comm[r])'
      BY <3>1 DEF AgentPaid
    <3>3. /\ AfterAgent(comm[r]) = "partner" => PartnerDue(comm[r])'
          /\ AfterAgent(comm[r]) = "done" => ~PartnerDue(comm[r])'
          /\ AfterAgent(comm[r]) \in {"partner", "done"}
      BY <2>5 DEF AfterAgent, PartnerDue
    <3>. QED
      BY <2>5, <3>1, <3>2, <3>3 DEF RequestSoFar, Crediting, Followed, PartnerPaid
  <2>6. CASE /\ pc[r] = "partner ledger" /\ ledger' = ledger \cup {Entry(comm[r], "partner")}
             /\ UNCHANGED <<rows, comm>> /\ Followed(r, "done")
    <3>1. /\ comm'[r] \in rows' /\ comm'[r].id = r /\ reply[r] = "none"
          /\ Entry(comm[r], "partner")' \in ledger' /\ AgentPaid(comm[r])
      BY <2>6 DEF RequestSoFar, Crediting, Entry
    <3>2. AgentPaid(comm[r])' /\ PartnerPaid(comm[r])'
      BY <1>0, <2>6, <3>1 DEF AgentPaid, PartnerPaid, AgentDue, Entry
    <3>. QED
      BY <2>6, <3>1, <3>2 DEF RequestSoFar, Crediting, Followed
  <2>. QED
    BY <1>2, <2>1, <2>2, <2>3, <2>4, <2>5, <2>6, StatementStep
<1>. QED
  BY <1>1, <1>2

LEMMA RowsStep ==
    ASSUME Inductive, [Next]_vars
    PROVE  (\A c \in rows' : Sound(c)) /\ EntriesHaveRows'
<1>1. ASSUME NEW r \in Requests, Request(r)
      PROVE  /\ \A c \in rows' : Sound(c)
             /\ EntriesHaveRows'
  <2>1. \A c \in rows' : Sound(c)
    <3>1. RequestSoFar(r) /\ \A c \in rows : Sound(c)
      BY DEF Inductive
    <3>2. pc[r] = "insert" => Sound(comm[r])
      BY <3>1 DEF RequestSoFar
    <3>3. rows' = rows \/ (pc[r] = "insert" /\ rows' = rows \cup {comm[r]})
      BY <1>1, TablesStep
    <3>. HIDE DEF Sound
    <3>. QED
      BY <3>1, <3>2, <3>3
  <2>2. \A e \in ledger' :
          /\ e.wallet \in Walleted
          /\ \E c \in rows' : e \in {Entry(c, "agent"), Entry(c, "partner")}
    <3>1. rows \subseteq rows'
      BY <1>1, TablesStep
    <3>2. CASE ledger' = ledger
      BY <3>1, <3>2 DEF Inductive, EntriesHaveRows
    <3>3. ASSUME pc[r] \in Crediting, NEW share \in {"agent", "partner"},
                 ledger' = ledger \cup {Entry(comm[r], share)},
                 Entry(comm[r], share).wallet \in Walleted
          PROVE  \A e \in ledger' :
                   /\ e.wallet \in Walleted
                   /\ \E c \in rows' : e \in {Entry(c, "agent"), Entry(c, "partner")}
      <4>1. comm[r] \in rows
        BY <3>3 DEF Inductive, RequestSoFar
      <4>. QED
        BY <3>1, <3>3, <4>1 DEF Inductive, EntriesHaveRows
    <3>. QED
      BY <1>1, <3>2, <3>3, TablesStep
  <2>. QED
    BY <2>1, <2>2 DEF EntriesHaveRows, Entry
<1>2. CASE UNCHANGED commissionVars
  BY <1>2 DEF commissionVars, Inductive, EntriesHaveRows, Entry
<1>. QED
  BY <1>1, <1>2, CreditSteps

-----------------------------------------------------------------------------
(* The calendar and the jobs                                               *)

LEMMA MonthsAreNumbers ==
    /\ \A m \in Months : m \in Nat /\ Length[m] \in Nat \ {0}
    /\ 1 \in Months /\ <<1, 1>> \in Dates
    /\ \A d \in Dates : d[1] \in Months
    /\ Retention \in Nat
BY CommissionAssumption, SchedulerAssumption DEF Months, Dates

\* Days and months go forward.
LEMMA TodayStep ==
    ASSUME CalendarTyped, [Next]_vars
    PROVE  /\ today' \in Dates /\ today'[1] \in Months /\ today'[1] >= today[1]
           /\ \/ UNCHANGED today
              \/ UNCHANGED <<parts, commissionVars, jobVars>>
<1>0. today \in Dates /\ today[1] \in Months /\ today[1] \in Nat
  BY MonthsAreNumbers DEF CalendarTyped
<1>1. CASE NextDay
  <2>1. today'[1] \in {today[1], today[1] + 1} /\ today' \in Dates
    BY <1>1 DEF NextDay, DayAfter
  <2>2. today'[1] \in Months
    BY <2>1, MonthsAreNumbers
  <2>. QED
    BY <1>0, <1>1, <2>1, <2>2 DEF NextDay
<1>2. CASE UNCHANGED today
  BY <1>0, <1>2
<1>. QED
  BY <1>1, <1>2
     DEF Next, Control, Aggregation, Partitions, Reader, Request, vars

\* The months that are archived are old: AddDate may run over into one month
\* more, never further.
LEMMA CutoffIsOld ==
    ASSUME CalendarTyped, NEW m \in Months, IsOld(m)
    PROVE  Old(m)
<1>1. Cutoff[1] \in {today[1] + (-Retention), today[1] + (-Retention) + 1}
  BY DEF Cutoff, AddMonths
<1>2. today[1] \in Nat /\ Retention \in Nat /\ m \in Nat
  BY MonthsAreNumbers DEF CalendarTyped
<1>. QED
  BY <1>1, <1>2 DEF IsOld, Old

LEMMA OldStays ==
    ASSUME CalendarTyped, [Next]_vars, NEW m \in Months, Old(m)
    PROVE  Old(m)'
<1>1. today[1] \in Nat /\ today'[1] \in Nat /\ today'[1] >= today[1]
  BY TodayStep, MonthsAreNumbers DEF CalendarTyped
<1>2. m \in Nat /\ Retention \in Nat
  BY MonthsAreNumbers
<1>. QED
  BY <1>1, <1>2 DEF Old

\* The partitions a step may take away.
LEMMA PartsStep ==
    ASSUME Inductive, [Next]_vars
    PROVE  /\ parts' \in [Months -> {"none", "attached", "detached", "gone"}]
           /\ \A m \in Months : parts[m] = "attached" /\ ~Old(m) => parts'[m] = "attached"
<1>. CalendarTyped /\ JobsTyped /\ \A g \in Runners : OnlyOldLeave(g)
  BY DEF Inductive
<1>1. CASE UNCHANGED parts
  BY <1>1 DEF CalendarTyped
<1>2. ASSUME NEW g \in Runners, NEW m \in todo[g], CreatePartition(g, m)
      PROVE  parts' = parts \/ parts' = [parts EXCEPT ![m] = "attached"]
  BY <1>2 DEF CreatePartition
<1>3. ASSUME NEW g \in Runners, Detach(g) \/ Drop(g)
      PROVE  /\ hand[g] \in Months /\ Old(hand[g])
             /\ \/ parts' = parts
                \/ parts' = [parts EXCEPT ![hand[g]] = "detached"]
                \/ parts' = [parts EXCEPT ![hand[g]] = "gone"]
  <2>1. step[g] \in {"detach", "drop"}
    BY <1>3 DEF Detach, Drop
  <2>2. hand[g] \in todo[g] /\ todo[g] \subseteq Months
    BY <2>1 DEF OnlyOldLeave, JobsTyped
  <2>3. Old(hand[g])
    BY <2>1, <2>2 DEF OnlyOldLeave
  <2>. QED
    BY <1>3, <2>2, <2>3 DEF Detach, Drop
<1>4. ASSUME NEW g \in Runners, FindOld(g) \/ \E m \in todo[g] : Dump(g, m)
      PROVE  UNCHANGED parts
  BY <1>4 DEF FindOld, Dump
<1>5. UNCHANGED parts \/ Partitions
  BY DEF Next, NextDay, Control, Aggregation, Reader, Request, vars
<1>6. CASE Partitions
  <2>1. ASSUME NEW g \in Runners, NEW m \in todo[g], CreatePartition(g, m)
        PROVE  /\ parts' \in [Months -> {"none", "attached", "detached", "gone"}]
               /\ \A k \in Months : parts[k] = "attached" /\ ~Old(k) => parts'[k] = "attached"
    <3>1. m \in Months
      BY <2>1 DEF JobsTyped
    <3>. QED
      BY <2>1, <3>1, <1>2 DEF CalendarTyped
  <2>2. ASSUME NEW g \in Runners, Detach(g) \/ Drop(g)
        PROVE  /\ parts' \in [Months -> {"none", "attached", "detached", "gone"}]
               /\ \A k \in Months : parts[k] = "attached" /\ ~Old(k) => parts'[k] = "attached"
    BY <2>2, <1>3 DEF CalendarTyped
  <2>. QED
    BY <1>1, <1>4, <1>6, <2>1, <2>2 DEF Partitions
<1>. QED
  BY <1>1, <1>5, <1>6

LEMMA RecentRowsReadableStep ==
    ASSUME Inductive, [Next]_vars
    PROVE  RecentRowsReadable'
<1>. SUFFICES ASSUME NEW c \in rows', c.date[1] > today'[1] - Retention
              PROVE  parts'[c.date[1]] = "attached"
  BY DEF RecentRowsReadable
<1>1. c.date[1] \in Months
  BY RowsStep, MonthsAreNumbers DEF Sound, Commissions
<1>2. CalendarTyped /\ RecentRowsReadable
  BY DEF Inductive
<1>3. c.date[1] > today[1] - Retention /\ ~Old(c.date[1])
  <2>1. today[1] \in Nat /\ today'[1] \in Nat /\ today'[1] >= today[1]
    BY <1>2, TodayStep, MonthsAreNumbers DEF CalendarTyped
  <2>2. c.date[1] \in Nat /\ Retention \in Nat
    BY <1>1, MonthsAreNumbers
  <2>. QED
    BY <2>1, <2>2 DEF Old
<1>4. parts[c.date[1]] = "attached"
  <2>1. CASE c \in rows
    BY <1>2, <1>3, <2>1 DEF RecentRowsReadable
  <2>2. CASE c \notin rows
    <3>1. PICK r \in Requests : Request(r)
      BY <2>2, CreditSteps DEF commissionVars
    <3>2. pc[r] = "insert" /\ c = comm[r]
      BY <2>2, <3>1, TablesStep
    <3>3. InsertCommission(r)
      <4>1. ASSUME NEW in \in Inputs, Calculate(r, in)
            PROVE  FALSE
        BY <3>2, <4>1 DEF Calculate
      <4>2. ~UpdateWallet(r) /\ ~InsertLedger(r)
        BY <3>2 DEF UpdateWallet, InsertLedger
      <4>3. ~CommissionDies(r)
        BY <2>2 DEF CommissionDies
      <4>. QED
        BY <3>1, <4>1, <4>2, <4>3 DEF Request
    <3>. QED
      BY <2>2, <3>2, <3>3 DEF InsertCommission
  <2>. QED
    BY <2>1, <2>2
<1>. QED
  BY <1>1, <1>3, <1>4, PartsStep

-----------------------------------------------------------------------------
(* The jobs                                                                *)

LEMMA JobSteps ==
    ASSUME [Next]_vars
    PROVE  \/ UNCHANGED jobVars
           \/ Restart
           \/ \E g \in Runners, j \in Jobs : StartJob(g, j)
           \/ \E g \in Runners :
                \/ BeginJob(g) \/ FinishJob(g)
                \/ (Aggregate(g) \/ Upsert(g)) /\ UNCHANGED <<running, run, todo, hand, archive>>
                \/ (FindOld(g) \/ Detach(g) \/ Drop(g)) /\ UNCHANGED <<running, run, groups>>
                \/ /\ \E m \in todo[g] : CreatePartition(g, m) \/ Dump(g, m)
                   /\ UNCHANGED <<running, run, groups>>
BY DEF Next, NextDay, Control, Aggregation, Partitions, Reader, vars

LEMMA FirstStepOfJob ==
    ASSUME NEW j \in Jobs
    PROVE  /\ FirstStep(j) \in {"query", "create", "find", "finish"}
           /\ FirstStep(j) = "find" => ToCreate(j) = {}
           /\ ToCreate(j) \subseteq Months
<1>1. j \in {"aggregate_commissions", "check_partitions", "archive_old_data",
             "create_future_partitions", "reset_daily_counters"}
  BY SchedulerAssumption
<1>2. CASE j = "archive_old_data"
  BY <1>2 DEF FirstStep, ToCreate
<1>3. CASE j # "archive_old_data"
  BY <1>1, <1>3 DEF FirstStep, ToCreate
<1>. QED
  BY <1>2, <1>3

\* Executions work on nothing but their own list.
LEMMA JobsStep ==
    ASSUME Inductive, [Next]_vars
    PROVE  JobsTyped' /\ \A g \in Runners : OnlyOldLeave(g)'
<1>. JobsTyped /\ CalendarTyped /\ \A g \in Runners : OnlyOldLeave(g)
  BY DEF Inductive
<1>. None \notin Jobs
  BY SchedulerAssumption
<1>. USE DEF At, Todo, Leave
<1>0. ASSUME NEW g \in Runners, UNCHANGED <<run[g], step[g], todo[g], hand[g]>>
      PROVE  OnlyOldLeave(g)'
  BY <1>0, OldStays DEF OnlyOldLeave, JobsTyped
<1>1. ASSUME NEW g \in Runners, NEW j \in Jobs, StartJob(g, j)
      PROVE  JobsTyped' /\ OnlyOldLeave(g)'
             /\ \A h \in Runners \ {g} : UNCHANGED <<run[h], step[h], todo[h], hand[h]>>
  BY <1>1 DEF StartJob, JobsTyped, OnlyOldLeave
<1>2. ASSUME NEW g \in Runners, BeginJob(g)
      PROVE  JobsTyped' /\ OnlyOldLeave(g)'
             /\ \A h \in Runners \ {g} : UNCHANGED <<run[h], step[h], todo[h], hand[h]>>
  <2>1. run[g] \in Jobs
    BY <1>2 DEF BeginJob, OnlyOldLeave, JobsTyped
  <2>. QED
    BY <1>2, <2>1, FirstStepOfJob DEF BeginJob, JobsTyped, OnlyOldLeave
<1>3. ASSUME NEW g \in Runners, FinishJob(g)
      PROVE  JobsTyped' /\ OnlyOldLeave(g)'
             /\ \A h \in Runners \ {g} : UNCHANGED <<run[h], step[h], todo[h], hand[h]>>
  BY <1>3 DEF FinishJob, Over, JobsTyped, OnlyOldLeave
<1>4. CASE Restart
  BY <1>4 DEF Restart, JobsTyped, OnlyOldLeave
<1>5. ASSUME NEW g \in Runners, Aggregate(g) \/ Upsert(g), UNCHANGED <<running, run, todo, hand>>
      PROVE  JobsTyped' /\ OnlyOldLeave(g)'
             /\ \A h \in Runners \ {g} : UNCHANGED <<run[h], step[h], todo[h], hand[h]>>
  BY <1>5 DEF Aggregate, Upsert, JobsTyped, OnlyOldLeave
<1>6. ASSUME NEW g \in Runners, FindOld(g), UNCHANGED <<running, run>>
      PROVE  JobsTyped' /\ OnlyOldLeave(g)'
             /\ \A h \in Runners \ {g} : UNCHANGED <<run[h], step[h], todo[h], hand[h]>>
  BY <1>6, CutoffIsOld, OldStays DEF FindOld, JobsTyped, OnlyOldLeave
<1>7. ASSUME NEW g \in Runners, Detach(g) \/ Drop(g), UNCHANGED <<running, run>>
      PROVE  JobsTyped' /\ OnlyOldLeave(g)'
             /\ \A h \in Runners \ {g} : UNCHANGED <<run[h], step[h], todo[h], hand[h]>>
  BY <1>7, OldStays DEF Detach, Drop, JobsTyped, OnlyOldLeave
<1>8. ASSUME NEW g \in Runners, NEW m \in todo[g], CreatePartition(g, m), UNCHANGED <<running, run>>
      PROVE  JobsTyped' /\ OnlyOldLeave(g)'
             /\ \A h \in Runners \ {g} : UNCHANGED <<run[h], step[h], todo[h], hand[h]>>
  BY <1>8 DEF CreatePartition, JobsTyped, OnlyOldLeave
<1>9. ASSUME NEW g \in Runners, NEW m \in todo[g], Dump(g, m), UNCHANGED <<running, run>>
      PROVE  JobsTyped' /\ OnlyOldLeave(g)'
             /\ \A h \in Runners \ {g} : UNCHANGED <<run[h], step[h], todo[h], hand[h]>>
  BY <1>9, OldStays DEF Dump, JobsTyped, OnlyOldLeave
<1>10. CASE UNCHANGED jobVars
  BY <1>0, <1>10 DEF jobVars, JobsTyped
<1>. QED
  BY <1>0, <1>1, <1>2, <1>3, <1>4, <1>5, <1>6, <1>7, <1>8, <1>9, <1>10, JobSteps

-----------------------------------------------------------------------------
(* The tables                                                              *)

\* What each statement of a request does to the tables and to the balances.
LEMMA MoneyStep ==
    ASSUME CreditsTyped, NEW r \in Requests, Request(r)
    PROVE  \/ UNCHANGED <<rows, balance, ledger>> /\ (pc[r] = "idle" \/ pc'[r] = "done")
           \/ /\ pc[r] = "insert" /\ pc'[r] \in {"agent", "partner", "done"}
              /\ rows' = rows \cup {comm[r]} /\ UNCHANGED <<balance, ledger>>
           \/ /\ \/ pc[r] = "agent" /\ pc'[r] \in {"agent ledger", "done"}
                 \/ pc[r] = "partner" /\ pc'[r] \in {"partner ledger", "done"}
              /\ balance' = Paid(r, Payee(r)) /\ UNCHANGED <<rows, ledger>>
           \/ /\ \/ pc[r] = "agent ledger" /\ pc'[r] \in {"partner", "done"}
                 \/ pc[r] = "partner ledger" /\ pc'[r] = "done"
              /\ Payee(r) \in Walleted
              /\ ledger' = ledger \cup {Due(r)} /\ UNCHANGED <<rows, balance>>
<1>. USE DEF Goto, Answer, CreditsTyped
<1>1. ASSUME NEW in \in Inputs, Calculate(r, in)
      PROVE  UNCHANGED <<rows, balance, ledger>> /\ pc[r] = "idle"
  BY <1>1 DEF Calculate
<1>2. ASSUME InsertCommission(r)
      PROVE  /\ pc[r] = "insert" /\ UNCHANGED <<balance, ledger>>
             /\ \/ rows' = rows \cup {comm[r]} /\ pc'[r] \in {"agent", "partner", "done"}
                \/ UNCHANGED rows /\ pc'[r] = "done"
  BY <1>2 DEF InsertCommission, Succeeds, AfterInsert, AfterAgent
<1>3. ASSUME UpdateWallet(r)
      PROVE  /\ UNCHANGED <<rows, ledger>>
             /\ \/ UNCHANGED balance /\ pc'[r] = "done"
                \/ /\ balance' = Paid(r, Payee(r))
                   /\ \/ pc[r] = "agent" /\ pc'[r] \in {"agent ledger", "done"}
                      \/ pc[r] = "partner" /\ pc'[r] \in {"partner ledger", "done"}
  BY <1>3 DEF UpdateWallet
<1>4. ASSUME InsertLedger(r)
      PROVE  /\ UNCHANGED <<rows, balance>>
             /\ \/ UNCHANGED ledger /\ pc'[r] = "done"
                \/ /\ Payee(r) \in Walleted /\ ledger' = ledger \cup {Due(r)}
                   /\ \/ pc[r] = "agent ledger" /\ pc'[r] \in {"partner", "done"}
                      \/ pc[r] = "partner ledger" /\ pc'[r] = "done"
  BY <1>4 DEF InsertLedger, Succeeds, AfterAgent
<1>5. ASSUME CommissionDies(r)
      PROVE  UNCHANGED <<rows, balance, ledger>> /\ pc'[r] = "done"
  BY <1>5 DEF CommissionDies
<1>. QED
  BY <1>1, <1>2, <1>3, <1>4, <1>5 DEF Request

\* A request has one row, the one it works on.
LEMMA RowOf ==
    ASSUME Inductive, NEW r \in Requests, NEW c \in rows, c.id = r
    PROVE  pc[r] \in Crediting \cup {"done"} /\ (pc[r] \in Crediting => c = comm[r])
<1>1. RequestSoFar(r) /\ OneRowPerRequest
  BY DEF Inductive
<1>2. pc[r] \in {"idle", "insert", "done"} \cup Crediting
  BY DEF Inductive, CreditsTyped
<1>3. pc[r] \notin {"idle", "insert"}
  BY <1>1 DEF RequestSoFar, NothingOf
<1>4. pc[r] \in Crediting => comm[r] \in rows /\ comm[r].id = r
  BY <1>1 DEF RequestSoFar
<1>. QED
  BY <1>1, <1>2, <1>3, <1>4 DEF OneRowPerRequest

LEMMA FieldsOfCommission ==
    ASSUME NEW c \in Commissions
    PROVE  /\ c.id \in Requests /\ c.date \in Dates
           /\ c.fee \in Nat /\ c.system \in Nat /\ c.agentAmount \in Nat /\ c.partnerAmount \in Nat
           /\ c.agent \in Owners \cup {None} /\ c.partner \in Owners \cup {None}
BY DEF Commissions

\* The credit a request is at.
LEMMA DueOf ==
    ASSUME Inductive, NEW r \in Requests, pc[r] \in Crediting
    PROVE  /\ comm[r] \in rows /\ comm[r] \in Commissions /\ comm[r].id = r
           /\ AmountDue(r) \in Nat /\ Payee(r) \in Owners
           /\ Due(r) \in [ref : Requests, share : {"agent", "partner"},
                          wallet : Owners, amount : Nat]
           /\ pc[r] \in {"agent", "agent ledger"} =>
                  Payee(r) = comm[r].agent /\ AmountDue(r) = comm[r].agentAmount
           /\ pc[r] \in {"partner", "partner ledger"} =>
                  Payee(r) = comm[r].partner /\ AmountDue(r) = comm[r].partnerAmount
<1>1. RequestSoFar(r) /\ \A c \in rows : Sound(c)
  BY DEF Inductive
<1>2. comm[r] \in rows /\ comm[r].id = r /\ comm[r] \in Commissions
  BY <1>1 DEF RequestSoFar, Sound
<1>3. /\ pc[r] \in {"agent", "agent ledger"} => comm[r].agent # None
      /\ pc[r] \in {"partner", "partner ledger"} => comm[r].partner # None
  BY <1>1 DEF RequestSoFar, AgentDue, PartnerDue
<1>4. CASE pc[r] \in {"agent", "agent ledger"}
  BY <1>2, <1>3, <1>4, FieldsOfCommission DEF AmountDue, Payee, Due, Entry
<1>5. CASE pc[r] \in {"partner", "partner ledger"}
  BY <1>2, <1>3, <1>5, FieldsOfCommission DEF AmountDue, Payee, Due, Entry
<1>. QED
  BY <1>2, <1>4, <1>5 DEF Crediting

LEMMA TablesTypedStep ==
    ASSUME Inductive, [Next]_vars
    PROVE  TablesTyped' /\ OneRowPerRequest'
<1>. TablesTyped /\ OneRowPerRequest /\ CreditsTyped
  BY DEF Inductive
<1>1. ASSUME NEW r \in Requests, Request(r)
      PROVE  TablesTyped' /\ OneRowPerRequest'
  <2>1. CASE UNCHANGED <<rows, balance, ledger>>
    BY <2>1 DEF TablesTyped, OneRowPerRequest
  <2>2. CASE /\ pc[r] = "insert" /\ rows' = rows \cup {comm[r]}
             /\ UNCHANGED <<balance, ledger>>
    <3>1. (\A c \in rows : c.id # r) /\ comm[r].id = r
      BY <2>2 DEF Inductive, RequestSoFar, NothingOf
    <3>2. IsFiniteSet(rows')
      BY <2>2, FS_AddElement DEF TablesTyped
    <3>. QED
      BY <2>2, <3>1, <3>2 DEF TablesTyped, OneRowPerRequest
  <2>3. CASE /\ pc[r] \in Crediting /\ balance' = Paid(r, Payee(r))
             /\ UNCHANGED <<rows, ledger>>
    <3>1. balance' \in [Walleted -> Nat]
      <4>1. AmountDue(r) \in Nat /\ balance \in [Walleted -> Nat]
        BY <2>3, DueOf DEF TablesTyped
      <4>. DEFINE n == AmountDue(r)
                  p == Payee(r)
      <4>2. balance' = IF p \in Walleted THEN [balance EXCEPT ![p] = @ + n] ELSE balance
        BY <2>3 DEF Paid
      <4>. HIDE DEF n, p
      <4>. QED
        BY <4>1, <4>2 DEF n
    <3>. QED
      BY <2>3, <3>1 DEF TablesTyped, OneRowPerRequest
  <2>4. CASE /\ pc[r] \in Crediting /\ ledger' = ledger \cup {Due(r)}
             /\ UNCHANGED <<rows, balance>>
    <3>1. IsFiniteSet(ledger')
      BY <2>4, FS_AddElement DEF TablesTyped
    <3>. QED
      BY <2>4, <3>1, DueOf DEF TablesTyped, OneRowPerRequest
  <2>. QED
    BY <1>1, <2>1, <2>2, <2>3, <2>4, MoneyStep DEF Crediting
<1>2. CASE UNCHANGED commissionVars
  BY <1>2 DEF commissionVars, TablesTyped, OneRowPerRequest
<1>. QED
  BY <1>1, <1>2, CreditSteps

-----------------------------------------------------------------------------
(* The balances                                                            *)

LEMMA PartsAreNat ==
    ASSUME NEW c \in Commissions, NEW o
    PROVE  /\ ToAgent(c, o) \in Nat /\ ToPartner(c, o) \in Nat
           /\ c.system \in Nat /\ c.agentAmount \in Nat /\ c.partnerAmount \in Nat
           /\ ToAgent(c, o)' = ToAgent(c, o) /\ ToPartner(c, o)' = ToPartner(c, o)
BY FieldsOfCommission DEF ToAgent, ToPartner

LEMMA TermsAreNat ==
    ASSUME NEW c \in Commissions, NEW o
    PROVE  /\ Unexplained(c, o) \in Nat /\ Credited(c, o) \in Nat /\ Spent(c) \in Nat
           /\ Unexplained(c, o)' \in Nat /\ Credited(c, o)' \in Nat /\ Spent(c)' \in Nat
           /\ ShareOf(c, o) \in Nat
<1>1. Unexplained(c, o) \in Nat /\ Unexplained(c, o)' \in Nat
  BY PartsAreNat DEF Unexplained
<1>2. Credited(c, o) \in Nat /\ Credited(c, o)' \in Nat
  BY PartsAreNat DEF Credited
<1>3. Spent(c) \in Nat /\ Spent(c)' \in Nat
  BY PartsAreNat DEF Spent
<1>4. ShareOf(c, o) \in Nat
  BY PartsAreNat DEF ShareOf
<1>. QED
  BY <1>1, <1>2, <1>3, <1>4

LEMMA TermsOfOthers ==
    ASSUME NEW c \in Commissions, NEW o, pc'[c.id] = pc[c.id]
    PROVE  /\ Unexplained(c, o)' = Unexplained(c, o)
           /\ Credited(c, o)' = Credited(c, o)
           /\ Spent(c)' = Spent(c)
<1>1. /\ AgentCredited(c)' <=> AgentCredited(c)
      /\ PartnerCredited(c)' <=> PartnerCredited(c)
      /\ AgentUnexplained(c)' <=> AgentUnexplained(c)
      /\ PartnerUnexplained(c)' <=> PartnerUnexplained(c)
  BY DEF AgentCredited, PartnerCredited, AgentUnexplained, PartnerUnexplained
<1>. QED
  BY <1>1, PartsAreNat DEF Unexplained, Credited, Spent

\* The terms of a row when its request goes on: after the INSERT of the row there
\* is nothing to explain, and at the end nothing is left to.
LEMMA TermsOfInsert ==
    ASSUME NEW c \in Commissions, NEW o, pc'[c.id] \in {"agent", "partner", "done"}
    PROVE  Unexplained(c, o)' <= 0
<1>1. ~AgentUnexplained(c)' /\ ~PartnerUnexplained(c)'
  BY DEF AgentUnexplained, PartnerUnexplained
<1>. QED
  BY <1>1 DEF Unexplained

LEMMA TermsAtEnd ==
    ASSUME NEW c \in Commissions, NEW o, pc'[c.id] = "done"
    PROVE  /\ Unexplained(c, o)' <= Unexplained(c, o)
           /\ Credited(c, o) <= Credited(c, o)'
           /\ Spent(c) <= Spent(c)'
<1>1. /\ AgentCredited(c)' /\ PartnerCredited(c)'
      /\ ~AgentUnexplained(c)' /\ ~PartnerUnexplained(c)'
  BY DEF AgentCredited, PartnerCredited, AgentUnexplained, PartnerUnexplained
<1>2. Unexplained(c, o)' <= Unexplained(c, o)
  BY <1>1, PartsAreNat DEF Unexplained
<1>3. Credited(c, o) <= Credited(c, o)'
  BY <1>1, PartsAreNat DEF Credited
<1>4. Spent(c) <= Spent(c)'
  BY <1>1, PartsAreNat DEF Spent
<1>. QED
  BY <1>2, <1>3, <1>4

\* What of the credit a request is at goes to o.
DueTo(r, o) == IF o = Payee(r) THEN AmountDue(r) ELSE 0

\* How the terms move when the flags do.
LEMMA AgentUpdated ==
    ASSUME NEW c \in Commissions, NEW o, ~AgentCredited(c), ~PartnerCredited(c), AgentCredited(c)',
           ~AgentUnexplained(c), ~PartnerUnexplained(c), ~PartnerUnexplained(c)'
    PROVE  /\ Unexplained(c, o)' <= Unexplained(c, o) + ToAgent(c, o)
           /\ Credited(c, o) + ToAgent(c, o) <= Credited(c, o)'
           /\ Spent(c) + c.agentAmount <= Spent(c)'
<1>1. Unexplained(c, o)' <= Unexplained(c, o) + ToAgent(c, o)
  BY PartsAreNat DEF Unexplained
<1>2. Credited(c, o) + ToAgent(c, o) <= Credited(c, o)'
  BY PartsAreNat DEF Credited
<1>3. Spent(c) + c.agentAmount <= Spent(c)'
  BY PartsAreNat DEF Spent
<1>. QED
  BY <1>1, <1>2, <1>3

LEMMA PartnerUpdated ==
    ASSUME NEW c \in Commissions, NEW o,
           AgentCredited(c), ~PartnerCredited(c), AgentCredited(c)', PartnerCredited(c)',
           ~AgentUnexplained(c), ~PartnerUnexplained(c), ~AgentUnexplained(c)'
    PROVE  /\ Unexplained(c, o)' <= Unexplained(c, o) + ToPartner(c, o)
           /\ Credited(c, o) + ToPartner(c, o) <= Credited(c, o)'
           /\ Spent(c) + c.partnerAmount <= Spent(c)'
<1>1. Unexplained(c, o)' <= Unexplained(c, o) + ToPartner(c, o)
  BY PartsAreNat DEF Unexplained
<1>2. Credited(c, o) + ToPartner(c, o) <= Credited(c, o)'
  BY PartsAreNat DEF Credited
<1>3. Spent(c) + c.partnerAmount <= Spent(c)'
  BY PartsAreNat DEF Spent
<1>. QED
  BY <1>1, <1>2, <1>3

LEMMA AgentEntered ==
    ASSUME NEW c \in Commissions, NEW o, AgentUnexplained(c),
           ~AgentUnexplained(c)', ~PartnerUnexplained(c)',
           ~PartnerCredited(c), AgentCredited(c)'
    PROVE  /\ Unexplained(c, o)' + ToAgent(c, o) <= Unexplained(c, o)
           /\ Credited(c, o) <= Credited(c, o)'
           /\ Spent(c) <= Spent(c)'
<1>1. Unexplained(c, o)' + ToAgent(c, o) <= Unexplained(c, o)
  BY PartsAreNat DEF Unexplained
<1>2. Credited(c, o) <= Credited(c, o)'
  BY PartsAreNat DEF Credited
<1>3. Spent(c) <= Spent(c)'
  BY PartsAreNat DEF Spent
<1>. QED
  BY <1>1, <1>2, <1>3

LEMMA PartnerEntered ==
    ASSUME NEW c \in Commissions, NEW o, PartnerUnexplained(c),
           ~AgentUnexplained(c)', ~PartnerUnexplained(c)',
           AgentCredited(c)', PartnerCredited(c)'
    PROVE  /\ Unexplained(c, o)' + ToPartner(c, o) <= Unexplained(c, o)
           /\ Credited(c, o) <= Credited(c, o)'
           /\ Spent(c) <= Spent(c)'
<1>1. Unexplained(c, o)' + ToPartner(c, o) <= Unexplained(c, o)
  BY PartsAreNat DEF Unexplained
<1>2. Credited(c, o) <= Credited(c, o)'
  BY PartsAreNat DEF Credited
<1>3. Spent(c) <= Spent(c)'
  BY PartsAreNat DEF Spent
<1>. QED
  BY <1>1, <1>2, <1>3

\* The UPDATE moves the terms of its row by what is due.
LEMMA TermsOfUpdate ==
    ASSUME Inductive, NEW r \in Requests, NEW o \in Owners, NEW c \in rows, c.id = r,
           \/ pc[r] = "agent" /\ pc'[r] \in {"agent ledger", "done"}
           \/ pc[r] = "partner" /\ pc'[r] \in {"partner ledger", "done"}
    PROVE  /\ Unexplained(c, o)' <= Unexplained(c, o) + DueTo(r, o)
           /\ Credited(c, o) + DueTo(r, o) <= Credited(c, o)'
           /\ Spent(c) + AmountDue(r) <= Spent(c)'
<1>1. c \in Commissions /\ c.id = r /\ c = comm[r]
  BY RowOf DEF Crediting, Inductive, Sound
<1>2. CASE pc[r] = "agent" /\ pc'[r] \in {"agent ledger", "done"}
  <2>1. DueTo(r, o) = ToAgent(c, o) /\ AmountDue(r) = c.agentAmount
    BY <1>1, <1>2, DueOf DEF Crediting, DueTo, ToAgent
  <2>2. /\ ~AgentCredited(c) /\ ~PartnerCredited(c) /\ AgentCredited(c)'
        /\ ~AgentUnexplained(c) /\ ~PartnerUnexplained(c) /\ ~PartnerUnexplained(c)'
    BY <1>1, <1>2
       DEF AgentCredited, PartnerCredited, AgentUnexplained, PartnerUnexplained
  <2>. QED
    BY <1>1, <2>1, <2>2, AgentUpdated, Zenon
<1>3. CASE pc[r] = "partner" /\ pc'[r] \in {"partner ledger", "done"}
  <2>1. DueTo(r, o) = ToPartner(c, o) /\ AmountDue(r) = c.partnerAmount
    BY <1>1, <1>3, DueOf DEF Crediting, DueTo, ToPartner
  <2>2. /\ AgentCredited(c) /\ ~PartnerCredited(c) /\ AgentCredited(c)' /\ PartnerCredited(c)'
        /\ ~AgentUnexplained(c) /\ ~PartnerUnexplained(c) /\ ~AgentUnexplained(c)'
    BY <1>1, <1>3
       DEF AgentCredited, PartnerCredited, AgentUnexplained, PartnerUnexplained
  <2>. QED
    BY <1>1, <2>1, <2>2, PartnerUpdated, Zenon
<1>. QED
  BY <1>2, <1>3

\* The entry explains what was due.
LEMMA TermsOfEntry ==
    ASSUME Inductive, NEW r \in Requests, NEW o \in Owners, NEW c \in rows, c.id = r,
           \/ pc[r] = "agent ledger" /\ pc'[r] \in {"partner", "done"}
           \/ pc[r] = "partner ledger" /\ pc'[r] = "done"
    PROVE  /\ Unexplained(c, o)' + DueTo(r, o) <= Unexplained(c, o)
           /\ Credited(c, o) <= Credited(c, o)'
           /\ Spent(c) <= Spent(c)'
<1>1. c \in Commissions /\ c.id = r /\ c = comm[r]
  BY RowOf DEF Crediting, Inductive, Sound
<1>2. CASE pc[r] = "agent ledger" /\ pc'[r] \in {"partner", "done"}
  <2>1. DueTo(r, o) = ToAgent(c, o)
    BY <1>1, <1>2, DueOf DEF Crediting, DueTo, ToAgent
  <2>2. /\ AgentUnexplained(c) /\ ~AgentUnexplained(c)' /\ ~PartnerUnexplained(c)'
        /\ ~PartnerCredited(c) /\ AgentCredited(c)'
    BY <1>1, <1>2
       DEF AgentCredited, PartnerCredited, AgentUnexplained, PartnerUnexplained
  <2>. QED
    BY <1>1, <2>1, <2>2, AgentEntered, Zenon
<1>3. CASE pc[r] = "partner ledger" /\ pc'[r] = "done"
  <2>1. DueTo(r, o) = ToPartner(c, o)
    BY <1>1, <1>3, DueOf DEF Crediting, DueTo, ToPartner
  <2>2. /\ PartnerUnexplained(c) /\ ~AgentUnexplained(c)' /\ ~PartnerUnexplained(c)'
        /\ AgentCredited(c)' /\ PartnerCredited(c)'
    BY <1>1, <1>3
       DEF AgentCredited, PartnerCredited, AgentUnexplained, PartnerUnexplained
  <2>. QED
    BY <1>1, <2>1, <2>2, PartnerEntered, Zenon
<1>. QED
  BY <1>2, <1>3

\* The sums when the terms move: x by k, the others not at all or in the same
\* direction.
TablesAdd == TablesTyped /\ rows \subseteq Commissions

SumsTyped ==
    /\ \A o \in Walleted :
           /\ AllUnexplained(o) \in Nat /\ AllCredited(o) \in Nat
           /\ Entered(o) \in Nat /\ balance[o] \in Nat
    /\ AllSpent \in Nat /\ SumFunction(balance) \in Nat

LEMMA SumsAreNat == TablesAdd => SumsTyped
<1>. SUFFICES ASSUME TablesAdd
              PROVE  SumsTyped
  OBVIOUS
<1>. /\ IsFiniteSet(rows) /\ rows \subseteq Commissions
     /\ IsFiniteSet(ledger) /\ IsFiniteSet(Walleted)
     /\ balance \in [Walleted -> Nat] /\ \A e \in ledger : e.amount \in Nat
  BY CommissionAssumption DEF TablesAdd, TablesTyped
<1>1. ASSUME NEW o \in Walleted
      PROVE  AllUnexplained(o) \in Nat /\ AllCredited(o) \in Nat
  <2>1. Summable([c \in rows |-> Unexplained(c, o)], rows)
    BY TermsAreNat DEF Summable
  <2>2. Summable([c \in rows |-> Credited(c, o)], rows)
    BY TermsAreNat DEF Summable
  <2>. QED
    BY <2>1, <2>2, SumIsNat DEF AllUnexplained, AllCredited, SumFunction
<1>2. AllSpent \in Nat
  <2>1. Summable([c \in rows |-> Spent(c)], rows)
    BY TermsAreNat DEF Summable
  <2>. QED
    BY <2>1, SumIsNat DEF AllSpent, SumFunction
<1>3. SumFunction(balance) \in Nat
  BY SumIsNat DEF Summable, SumFunction
<1>4. ASSUME NEW o \in Walleted
      PROVE  Entered(o) \in Nat
  <2>. DEFINE mine == {e \in ledger : e.wallet = o}
  <2>1. IsFiniteSet(mine)
    BY FS_Subset
  <2>2. Summable([e \in ledger |-> e.amount], mine)
    BY <2>1 DEF Summable
  <2>. QED
    BY <2>2, SumIsNat DEF Entered
<1>. QED
  BY <1>1, <1>2, <1>3, <1>4 DEF SumsTyped

\* A fact about every state is one about the next.
LEMMA SumsStayNat == TablesAdd' => SumsTyped'
BY SumsAreNat, PTL

LEMMA UnexplainedMoves ==
    ASSUME IsFiniteSet(rows), rows \subseteq Commissions, rows' = rows,
           NEW o, NEW x \in rows, NEW k \in Int,
           Unexplained(x, o)' <= Unexplained(x, o) + k,
           \A y \in rows \ {x} : Unexplained(y, o)' <= Unexplained(y, o)
    PROVE  AllUnexplained(o)' <= AllUnexplained(o) + k
<1>. DEFINE f == [c \in rows |-> Unexplained(c, o)]
            g == [c \in rows |-> Unexplained(c, o)']
<1>1. Summable(f, rows) /\ Summable(g, rows)
  BY TermsAreNat DEF Summable
<1>2. g[x] <= f[x] + k /\ \A y \in rows \ {x} : g[y] <= f[y]
  OBVIOUS
<1>3. /\ AllUnexplained(o) = SumFunctionOnSet(f, rows)
      /\ AllUnexplained(o)' = SumFunctionOnSet(g, rows)
  BY DEF AllUnexplained, SumFunction
<1>. HIDE DEF f, g
<1>. QED
  BY <1>1, <1>2, <1>3, SumStep

LEMMA CreditedMoves ==
    ASSUME IsFiniteSet(rows), rows \subseteq Commissions, rows' = rows,
           NEW o, NEW x \in rows, NEW k \in Int,
           Credited(x, o) <= Credited(x, o)' + k,
           \A y \in rows \ {x} : Credited(y, o) <= Credited(y, o)'
    PROVE  AllCredited(o) <= AllCredited(o)' + k
<1>. DEFINE f == [c \in rows |-> Credited(c, o)]
            g == [c \in rows |-> Credited(c, o)']
<1>1. Summable(f, rows) /\ Summable(g, rows)
  BY TermsAreNat DEF Summable
<1>2. f[x] <= g[x] + k /\ \A y \in rows \ {x} : f[y] <= g[y]
  OBVIOUS
<1>3. /\ AllCredited(o) = SumFunctionOnSet(f, rows)
      /\ AllCredited(o)' = SumFunctionOnSet(g, rows)
  BY DEF AllCredited, SumFunction
<1>. HIDE DEF f, g
<1>. QED
  BY <1>1, <1>2, <1>3, SumStep

LEMMA SpentMoves ==
    ASSUME IsFiniteSet(rows), rows \subseteq Commissions, rows' = rows,
           NEW x \in rows, NEW k \in Int,
           Spent(x) <= Spent(x)' + k,
           \A y \in rows \ {x} : Spent(y) <= Spent(y)'
    PROVE  AllSpent <= AllSpent' + k
<1>. DEFINE f == [c \in rows |-> Spent(c)]
            g == [c \in rows |-> Spent(c)']
<1>1. Summable(f, rows) /\ Summable(g, rows)
  BY TermsAreNat DEF Summable
<1>2. f[x] <= g[x] + k /\ \A y \in rows \ {x} : f[y] <= g[y]
  OBVIOUS
<1>3. AllSpent = SumFunctionOnSet(f, rows) /\ AllSpent' = SumFunctionOnSet(g, rows)
  BY DEF AllSpent, SumFunction
<1>. HIDE DEF f, g
<1>. QED
  BY <1>1, <1>2, <1>3, SumStep

LEMMA EnteredMoves ==
    ASSUME TablesTyped, TablesTyped', NEW e, ledger' = ledger \cup {e}, NEW o
    PROVE  Entered(o)' <= Entered(o) + (IF o = e.wallet THEN e.amount ELSE 0)
<1>. DEFINE f == [x \in ledger |-> x.amount]
            g == [x \in ledger' |-> x.amount]
            mine == {x \in ledger : x.wallet = o}
            mineNext == {x \in ledger' : x.wallet = o}
<1>1. Entered(o) = SumFunctionOnSet(f, mine) /\ Entered(o)' = SumFunctionOnSet(g, mineNext)
  BY DEF Entered
<1>2. IsFiniteSet(mine) /\ IsFiniteSet(mineNext)
  BY FS_Subset DEF TablesTyped
<1>3. (\A x \in ledger' : x.amount \in Nat) /\ e.amount \in Nat
  BY DEF TablesTyped
<1>4. Summable(f, mine) /\ Summable(g, mineNext)
  BY <1>2, <1>3 DEF Summable
<1>5. SumFunctionOnSet(f, mine) \in Nat /\ SumFunctionOnSet(g, mineNext) \in Nat
  BY <1>4, SumIsNat
<1>6. CASE e \in ledger \/ o # e.wallet
  <2>1. mineNext = mine /\ \A x \in mine : f[x] = g[x]
    BY <1>6
  <2>. HIDE DEF f, g, mine, mineNext
  <2>2. SumFunctionOnSet(g, mineNext) = SumFunctionOnSet(f, mine)
    BY <1>4, <2>1, SumSame
  <2>. QED
    BY <1>1, <1>3, <1>5, <2>2
<1>7. CASE e \notin ledger /\ o = e.wallet
  <2>1. /\ mineNext = mine \cup {e}
        /\ e \notin mine
        /\ g[e] = e.amount
        /\ \A x \in mine : f[x] = g[x]
    BY <1>7
  <2>. HIDE DEF f, g, mine, mineNext
  <2>2. SumFunctionOnSet(g, mineNext) = SumFunctionOnSet(f, mine) + e.amount
    BY <1>4, <2>1, SumAdd
  <2>. QED
    BY <1>1, <1>3, <1>5, <1>7, <2>2
<1>. QED
  BY <1>6, <1>7

\* A row that is inserted adds its terms.
LEMMA SumsAfterInsert ==
    ASSUME TablesAdd, TablesAdd', NEW x, x \notin rows, rows' = rows \cup {x},
           \A c \in rows : pc'[c.id] = pc[c.id],
           pc'[x.id] \in {"agent", "partner", "done"}, NEW o
    PROVE  /\ AllUnexplained(o)' <= AllUnexplained(o)
           /\ AllCredited(o) <= AllCredited(o)'
           /\ AllSpent <= AllSpent'
<1>. /\ rows' \subseteq Commissions
     /\ IsFiniteSet(rows)
     /\ IsFiniteSet(rows')
     /\ x \in Commissions
  BY DEF TablesAdd, TablesTyped
<1>1. AllUnexplained(o)' <= AllUnexplained(o)
  <2>. DEFINE f == [c \in rows |-> Unexplained(c, o)]
              g == [c \in rows' |-> Unexplained(c, o)']
  <2>1. Summable(f, rows) /\ Summable(g, rows')
    BY TermsAreNat DEF Summable
  <2>2. \A c \in rows : f[c] = g[c]
    BY TermsOfOthers
  <2>3. g[x] <= 0 /\ g[x] \in Nat
    BY TermsOfInsert, TermsAreNat
  <2>4. /\ AllUnexplained(o) = SumFunctionOnSet(f, rows)
        /\ AllUnexplained(o)' = SumFunctionOnSet(g, rows')
    BY DEF AllUnexplained, SumFunction
  <2>. HIDE DEF f, g
  <2>5. SumFunctionOnSet(g, rows') <= SumFunctionOnSet(f, rows)
    BY <2>1, <2>2, <2>3, SumOfMore
  <2>. QED
    BY <2>4, <2>5
<1>2. AllCredited(o) <= AllCredited(o)'
  <2>. DEFINE f == [c \in rows |-> Credited(c, o)]
              g == [c \in rows' |-> Credited(c, o)']
  <2>1. Summable(f, rows) /\ Summable(g, rows')
    BY TermsAreNat DEF Summable
  <2>2. \A c \in rows : f[c] <= g[c]
    BY TermsOfOthers, TermsAreNat
  <2>3. /\ AllCredited(o) = SumFunctionOnSet(f, rows)
        /\ AllCredited(o)' = SumFunctionOnSet(g, rows')
    BY DEF AllCredited, SumFunction
  <2>. HIDE DEF f, g
  <2>. QED
    BY <2>1, <2>2, <2>3, SumBounded
<1>3. AllSpent <= AllSpent'
  <2>. DEFINE f == [c \in rows |-> Spent(c)]
              g == [c \in rows' |-> Spent(c)']
  <2>1. Summable(f, rows) /\ Summable(g, rows')
    BY TermsAreNat DEF Summable
  <2>2. \A c \in rows : f[c] <= g[c]
    BY TermsOfOthers, TermsAreNat
  <2>3. AllSpent = SumFunctionOnSet(f, rows) /\ AllSpent' = SumFunctionOnSet(g, rows')
    BY DEF AllSpent, SumFunction
  <2>. HIDE DEF f, g
  <2>. QED
    BY <2>1, <2>2, <2>3, SumBounded
<1>. QED
  BY <1>1, <1>2, <1>3

\* The sums when no row is inserted and no term moves the wrong way.
LEMMA SumsStay ==
    ASSUME TablesAdd, rows' = rows, NEW o,
           \A c \in rows : /\ Unexplained(c, o)' <= Unexplained(c, o)
                           /\ Credited(c, o) <= Credited(c, o)'
                           /\ Spent(c) <= Spent(c)'
    PROVE  /\ AllUnexplained(o)' <= AllUnexplained(o)
           /\ AllCredited(o) <= AllCredited(o)'
           /\ AllSpent <= AllSpent'
<1>. rows \subseteq Commissions /\ IsFiniteSet(rows)
  BY DEF TablesAdd, TablesTyped
<1>1. AllUnexplained(o)' <= AllUnexplained(o)
  <2>. DEFINE f == [c \in rows |-> Unexplained(c, o)]
              g == [c \in rows |-> Unexplained(c, o)']
  <2>1. Summable(f, rows) /\ Summable(g, rows) /\ \A c \in rows : g[c] <= f[c]
    BY TermsAreNat DEF Summable
  <2>2. /\ AllUnexplained(o) = SumFunctionOnSet(f, rows)
        /\ AllUnexplained(o)' = SumFunctionOnSet(g, rows)
    BY DEF AllUnexplained, SumFunction
  <2>. HIDE DEF f, g
  <2>. QED
    BY <2>1, <2>2, SumBounded
<1>2. AllCredited(o) <= AllCredited(o)'
  <2>. DEFINE f == [c \in rows |-> Credited(c, o)]
              g == [c \in rows |-> Credited(c, o)']
  <2>1. Summable(f, rows) /\ Summable(g, rows) /\ \A c \in rows : f[c] <= g[c]
    BY TermsAreNat DEF Summable
  <2>2. /\ AllCredited(o) = SumFunctionOnSet(f, rows)
        /\ AllCredited(o)' = SumFunctionOnSet(g, rows)
    BY DEF AllCredited, SumFunction
  <2>. HIDE DEF f, g
  <2>. QED
    BY <2>1, <2>2, SumBounded
<1>3. AllSpent <= AllSpent'
  <2>. DEFINE f == [c \in rows |-> Spent(c)]
              g == [c \in rows |-> Spent(c)']
  <2>1. Summable(f, rows) /\ Summable(g, rows) /\ \A c \in rows : f[c] <= g[c]
    BY TermsAreNat DEF Summable
  <2>2. AllSpent = SumFunctionOnSet(f, rows) /\ AllSpent' = SumFunctionOnSet(g, rows)
    BY DEF AllSpent, SumFunction
  <2>. HIDE DEF f, g
  <2>. QED
    BY <2>1, <2>2, SumBounded
<1>. QED
  BY <1>1, <1>2, <1>3

\* What a statement of r does not touch: the rows of other requests.
LEMMA RowsOfOthers ==
    ASSUME Inductive, NEW r \in Requests, Request(r)
    PROVE  \A c \in rows :
               /\ c \in Commissions
               /\ c.id # r => pc'[c.id] = pc[c.id]
               /\ c.id = r => pc[r] \in Crediting \cup {"done"}
               /\ c.id = r /\ pc[r] \in Crediting => c = comm[r]
<1>1. /\ CreditsTyped
      /\ today \in Dates
      /\ \A c \in rows : c \in Commissions /\ c.id \in Requests
  BY FieldsOfCommission DEF Inductive, CalendarTyped, Sound
<1>2. \A q \in Requests \ {r} : pc'[q] = pc[q]
  BY <1>1, OthersStep
<1>. QED
  BY <1>1, <1>2, RowOf

\* The terms of all rows, at every kind of statement.
LEMMA QuietTerms ==
    ASSUME Inductive, NEW r \in Requests, Request(r), pc[r] = "idle" \/ pc'[r] = "done", NEW o
    PROVE  \A c \in rows : /\ Unexplained(c, o)' <= Unexplained(c, o)
                           /\ Credited(c, o) <= Credited(c, o)'
                           /\ Spent(c) <= Spent(c)'
<1>. SUFFICES ASSUME NEW c \in rows
              PROVE  /\ Unexplained(c, o)' <= Unexplained(c, o)
                     /\ Credited(c, o) <= Credited(c, o)'
                     /\ Spent(c) <= Spent(c)'
  OBVIOUS
<1>1. c \in Commissions
  BY RowsOfOthers
<1>2. CASE pc'[c.id] = pc[c.id]
  BY <1>1, <1>2, TermsOfOthers, TermsAreNat
<1>3. CASE pc'[c.id] = "done"
  BY <1>1, <1>3, TermsAtEnd
<1>. QED
  BY <1>2, <1>3, RowsOfOthers DEF Crediting

LEMMA OtherTerms ==
    ASSUME Inductive, NEW r \in Requests, Request(r), pc[r] \in Crediting, NEW o
    PROVE  \A c \in rows \ {comm[r]} : /\ Unexplained(c, o)' <= Unexplained(c, o)
                                       /\ Credited(c, o) <= Credited(c, o)'
                                       /\ Spent(c) <= Spent(c)'
<1>. SUFFICES ASSUME NEW c \in rows, c # comm[r]
              PROVE  /\ Unexplained(c, o)' <= Unexplained(c, o)
                     /\ Credited(c, o) <= Credited(c, o)'
                     /\ Spent(c) <= Spent(c)'
  OBVIOUS
<1>1. c \in Commissions /\ pc'[c.id] = pc[c.id]
  BY RowsOfOthers
<1>. QED
  BY <1>1, TermsOfOthers, TermsAreNat

\* How a statement moves the sums about the wallet of o: by j what is entered, by
\* k what is paid.
LEMMA BalanceMoves ==
    ASSUME Inductive, TablesAdd', NEW r \in Requests, Request(r), NEW o \in Walleted
    PROVE  \E j, k \in Nat :
               /\ Entered(o)' <= Entered(o) + j
               /\ AllUnexplained(o)' + j <= AllUnexplained(o) + k
               /\ balance'[o] = balance[o] + k
               /\ AllCredited(o) + k <= AllCredited(o)'
<1>. DEFINE Moved(j, k) == /\ Entered(o)' <= Entered(o) + j
                           /\ AllUnexplained(o)' + j <= AllUnexplained(o) + k
                           /\ balance'[o] = balance[o] + k
                           /\ AllCredited(o) + k <= AllCredited(o)'
<1>1. TablesAdd /\ TablesTyped /\ TablesTyped' /\ CreditsTyped /\ o \in Owners
  BY CommissionAssumption DEF Inductive, TablesAdd, Sound
<1>2. /\ AllUnexplained(o) \in Nat /\ AllCredited(o) \in Nat /\ Entered(o) \in Nat
      /\ balance[o] \in Nat
  BY <1>1, SumsAreNat DEF SumsTyped
<1>3. /\ AllUnexplained(o)' \in Nat /\ AllCredited(o)' \in Nat /\ Entered(o)' \in Nat
      /\ balance'[o] \in Nat
  BY SumsStayNat DEF SumsTyped
<1>4. UNCHANGED ledger => Entered(o)' = Entered(o)
  BY DEF Entered
<1>5. IsFiniteSet(rows) /\ rows \subseteq Commissions
  BY <1>1 DEF TablesAdd, TablesTyped
<1>6. CASE UNCHANGED <<rows, balance, ledger>> /\ (pc[r] = "idle" \/ pc'[r] = "done")
  <2>1. AllUnexplained(o)' <= AllUnexplained(o) /\ AllCredited(o) <= AllCredited(o)'
    BY <1>1, <1>6, QuietTerms, SumsStay
  <2>2. Moved(0, 0)
    BY <1>2, <1>3, <1>4, <1>6, <2>1
  <2>. QED
    BY <2>2
<1>7. CASE /\ pc[r] = "insert" /\ pc'[r] \in {"agent", "partner", "done"}
           /\ rows' = rows \cup {comm[r]} /\ UNCHANGED <<balance, ledger>>
  <2>1. comm[r].id = r
    BY <1>7 DEF Inductive, RequestSoFar
  <2>2. \A c \in rows : c.id # r /\ pc'[c.id] = pc[c.id]
    BY <1>7, RowsOfOthers DEF Crediting
  <2>3. AllUnexplained(o)' <= AllUnexplained(o) /\ AllCredited(o) <= AllCredited(o)'
    BY <1>1, <1>7, <2>1, <2>2, SumsAfterInsert
  <2>4. Moved(0, 0)
    BY <1>2, <1>3, <1>4, <1>7, <2>3
  <2>. QED
    BY <2>4
<1>8. CASE /\ \/ pc[r] = "agent" /\ pc'[r] \in {"agent ledger", "done"}
              \/ pc[r] = "partner" /\ pc'[r] \in {"partner ledger", "done"}
           /\ balance' = Paid(r, Payee(r)) /\ UNCHANGED <<rows, ledger>>
  <2>. DEFINE k == DueTo(r, o)
  <2>1. pc[r] \in Crediting
    BY <1>8 DEF Crediting
  <2>2. PICK c \in rows : c = comm[r]
    BY <2>1, DueOf
  <2>3. c.id = r /\ k \in Nat
    BY <2>2, <2>1, DueOf DEF DueTo
  <2>4. k \in Nat /\ rows' = rows /\ UNCHANGED ledger
    BY <1>8, <2>3
  <2>5. balance'[o] = balance[o] + k
    <3>1. CASE o = Payee(r)
      BY <1>1, <1>8, <3>1 DEF Paid, DueTo, TablesTyped
    <3>2. CASE o # Payee(r)
      <4>1. k = 0 /\ balance'[o] = balance[o]
        BY <1>1, <1>8, <3>2 DEF Paid, DueTo, TablesTyped
      <4>. HIDE DEF k
      <4>. QED
        BY <1>2, <4>1
    <3>. QED
      BY <3>1, <3>2
  <2>6. /\ Unexplained(c, o)' <= Unexplained(c, o) + k
        /\ Credited(c, o) + k <= Credited(c, o)'
    BY <1>1, <1>8, <2>3, TermsOfUpdate
  <2>. HIDE DEF k
  <2>7. AllUnexplained(o)' <= AllUnexplained(o) + k
    <3>1. \A d \in rows \ {c} : Unexplained(d, o)' <= Unexplained(d, o)
      BY <2>2, <2>1, OtherTerms
    <3>. QED
      BY <1>5, <2>4, <2>6, <3>1, UnexplainedMoves
  <2>8. Credited(c, o) <= Credited(c, o)' + (-k)
    BY <1>5, <2>4, <2>6, TermsAreNat
  <2>9. AllCredited(o) <= AllCredited(o)' + (-k)
    <3>1. \A d \in rows \ {c} : Credited(d, o) <= Credited(d, o)'
      BY <2>2, <2>1, OtherTerms
    <3>. QED
      BY <1>5, <2>4, <2>8, <3>1, CreditedMoves
  <2>10. Moved(0, k)
    BY <1>2, <1>3, <1>4, <2>4, <2>5, <2>7, <2>9
  <2>. QED
    BY <2>4, <2>10
<1>9. CASE /\ \/ pc[r] = "agent ledger" /\ pc'[r] \in {"partner", "done"}
              \/ pc[r] = "partner ledger" /\ pc'[r] = "done"
           /\ Payee(r) \in Walleted
           /\ ledger' = ledger \cup {Due(r)} /\ UNCHANGED <<rows, balance>>
  <2>. DEFINE j == DueTo(r, o)
  <2>1. pc[r] \in Crediting
    BY <1>9 DEF Crediting
  <2>2. PICK c \in rows : c = comm[r]
    BY <2>1, DueOf
  <2>3. c.id = r /\ j \in Nat
    BY <2>2, <2>1, DueOf DEF DueTo
  <2>4. j \in Nat /\ rows' = rows /\ UNCHANGED balance
    BY <1>9, <2>3
  <2>5. Entered(o)' <= Entered(o) + j
    BY <1>1, <1>9, EnteredMoves DEF DueTo, Payee, AmountDue
  <2>6. /\ Unexplained(c, o)' + j <= Unexplained(c, o)
        /\ Credited(c, o) <= Credited(c, o)'
    BY <1>1, <1>9, <2>3, TermsOfEntry
  <2>. HIDE DEF j
  <2>7. Unexplained(c, o)' <= Unexplained(c, o) + (-j)
    BY <1>5, <2>4, <2>6, TermsAreNat
  <2>8. AllUnexplained(o)' <= AllUnexplained(o) + (-j)
    <3>1. \A d \in rows \ {c} : Unexplained(d, o)' <= Unexplained(d, o)
      BY <2>2, <2>1, OtherTerms
    <3>. QED
      BY <1>5, <2>4, <2>7, <3>1, UnexplainedMoves
  <2>9. Credited(c, o) <= Credited(c, o)' + 0
    BY <1>5, <2>4, <2>6, TermsAreNat
  <2>10. AllCredited(o) <= AllCredited(o)' + 0
    <3>1. \A d \in rows \ {c} : Credited(d, o) <= Credited(d, o)'
      BY <2>2, <2>1, OtherTerms
    <3>. QED
      BY <1>5, <2>4, <2>9, <3>1, CreditedMoves
  <2>11. Moved(j, 0)
    BY <1>2, <1>3, <2>4, <2>5, <2>8, <2>10
  <2>. QED
    BY <2>4, <2>11
<1>. QED
  BY <1>1, <1>6, <1>7, <1>8, <1>9, MoneyStep

LEMMA NothingAdded == \A a, b \in Nat : (a <= b + 0) => (a + 0 <= b)
OBVIOUS

LEMMA MovedOver == \A a, b, k \in Nat : (a <= b + (-k)) => (a + k <= b)
OBVIOUS

\* And the sum of all balances, by k.
LEMMA TotalMoves ==
    ASSUME Inductive, TablesAdd', NEW r \in Requests, Request(r)
    PROVE  \E k \in Nat : /\ SumFunction(balance)' <= SumFunction(balance) + k
                          /\ AllSpent + k <= AllSpent'
<1>. DEFINE Moved(k) == /\ SumFunction(balance)' <= SumFunction(balance) + k
                        /\ AllSpent + k <= AllSpent'
<1>1. TablesAdd /\ TablesTyped /\ TablesTyped' /\ CreditsTyped
  BY DEF Inductive, TablesAdd, Sound
<1>2. AllSpent \in Nat /\ SumFunction(balance) \in Nat
  BY <1>1, SumsAreNat DEF SumsTyped
<1>3. AllSpent' \in Nat /\ SumFunction(balance)' \in Nat
  BY SumsStayNat DEF SumsTyped
<1>4. UNCHANGED balance => SumFunction(balance)' = SumFunction(balance)
  BY DEF SumFunction
<1>5. IsFiniteSet(rows) /\ rows \subseteq Commissions
  BY <1>1 DEF TablesAdd, TablesTyped
<1>6. CASE UNCHANGED <<rows, balance, ledger>> /\ (pc[r] = "idle" \/ pc'[r] = "done")
  <2>1. AllSpent <= AllSpent'
    BY <1>1, <1>6, QuietTerms, SumsStay
  <2>2. Moved(0)
    BY <1>2, <1>3, <1>4, <1>6, <2>1
  <2>. QED
    BY <2>2
<1>7. CASE /\ pc[r] = "insert" /\ pc'[r] \in {"agent", "partner", "done"}
           /\ rows' = rows \cup {comm[r]} /\ UNCHANGED <<balance, ledger>>
  <2>1. comm[r].id = r
    BY <1>7 DEF Inductive, RequestSoFar
  <2>2. \A c \in rows : c.id # r /\ pc'[c.id] = pc[c.id]
    BY <1>7, RowsOfOthers DEF Crediting
  <2>3. AllSpent <= AllSpent'
    BY <1>1, <1>7, <2>1, <2>2, SumsAfterInsert
  <2>4. Moved(0)
    BY <1>2, <1>3, <1>4, <1>7, <2>3
  <2>. QED
    BY <2>4
<1>8. CASE /\ \/ pc[r] = "agent" /\ pc'[r] \in {"agent ledger", "done"}
              \/ pc[r] = "partner" /\ pc'[r] \in {"partner ledger", "done"}
           /\ balance' = Paid(r, Payee(r)) /\ UNCHANGED <<rows, ledger>>
  <2>. DEFINE k == AmountDue(r)
              p == Payee(r)
  <2>1. pc[r] \in Crediting
    BY <1>8 DEF Crediting
  <2>2. PICK c \in rows : c = comm[r]
    BY <2>1, DueOf
  <2>3. c.id = r /\ k \in Nat /\ p \in Owners
    BY <2>2, <2>1, DueOf
  <2>4. k \in Nat /\ rows' = rows
    BY <1>8, <2>3
  <2>5. Spent(c) + k <= Spent(c)'
    BY <1>1, <1>8, <2>3, TermsOfUpdate
  <2>6. balance' = IF p \in Walleted THEN [balance EXCEPT ![p] = @ + k] ELSE balance
    BY <1>8 DEF Paid
  <2>. HIDE DEF k, p
  <2>7. SumFunction(balance)' <= SumFunction(balance) + k
    <3>1. CASE p \in Walleted
      <4>1. Summable(balance, Walleted) /\ Summable(balance', Walleted)
        BY <1>1, CommissionAssumption DEF TablesTyped, Summable
      <4>2. /\ balance'[p] <= balance[p] + k
            /\ \A o \in Walleted \ {p} : balance'[o] <= balance[o]
        BY <1>1, <2>3, <2>6, <3>1 DEF TablesTyped
      <4>3. SumFunctionOnSet(balance', Walleted) <= SumFunctionOnSet(balance, Walleted) + k
        BY <2>3, <3>1, <4>1, <4>2, SumStep
      <4>4. DOMAIN balance = Walleted /\ DOMAIN balance' = Walleted
        BY <1>1 DEF TablesTyped
      <4>. QED
        BY <4>3, <4>4 DEF SumFunction
    <3>2. CASE p \notin Walleted
      BY <1>2, <1>3, <1>4, <2>3, <2>6, <3>2
    <3>. QED
      BY <3>1, <3>2
  <2>8. Spent(c) <= Spent(c)' + (-k)
    BY <1>5, <2>4, <2>5, TermsAreNat
  <2>9. AllSpent <= AllSpent' + (-k)
    <3>1. \A d \in rows \ {c} : Spent(d) <= Spent(d)'
      BY <2>2, <2>1, OtherTerms
    <3>. QED
      BY <1>5, <2>4, <2>8, <3>1, SpentMoves
  <2>10. AllSpent + k <= AllSpent'
    BY <1>2, <1>3, <2>4, <2>9, MovedOver, Zenon
  <2>. QED
    BY <2>4, <2>7, <2>10
<1>9. CASE /\ \/ pc[r] = "agent ledger" /\ pc'[r] \in {"partner", "done"}
              \/ pc[r] = "partner ledger" /\ pc'[r] = "done"
           /\ Payee(r) \in Walleted
           /\ ledger' = ledger \cup {Due(r)} /\ UNCHANGED <<rows, balance>>
  <2>1. pc[r] \in Crediting
    BY <1>9 DEF Crediting
  <2>2. PICK c \in rows : c = comm[r]
    BY <2>1, DueOf
  <2>3. c.id = r
    BY <2>2, <2>1, DueOf
  <2>4. rows' = rows /\ UNCHANGED balance
    BY <1>9
  <2>5. Spent(c) <= Spent(c)'
    BY <1>9, <2>3, CommissionAssumption, TermsOfEntry
  <2>6. Spent(c) <= Spent(c)' + 0
    BY <1>5, <2>4, <2>5, TermsAreNat
  <2>7. AllSpent <= AllSpent' + 0
    <3>1. \A d \in rows \ {c} : Spent(d) <= Spent(d)'
      BY <2>2, <2>1, OtherTerms
    <3>. QED
      BY <1>5, <2>4, <2>6, <3>1, SpentMoves
  <2>8. AllSpent + 0 <= AllSpent'
    BY <1>2, <1>3, <2>7, NothingAdded, Zenon
  <2>9. SumFunction(balance)' <= SumFunction(balance) + 0
    BY <1>2, <1>3, <1>4, <2>4
  <2>. QED
    BY <2>8, <2>9
<1>. QED
  BY <1>1, <1>6, <1>7, <1>8, <1>9, MoneyStep

LEMMA BalancesExplainedStep ==
    ASSUME Inductive, TablesAdd', [Next]_vars
    PROVE  BalancesExplained'
<1>. BalancesExplained /\ TablesAdd
  BY DEF Inductive, TablesAdd, Sound
<1>1. ASSUME NEW r \in Requests, Request(r)
      PROVE  BalancesExplained'
  <2>1. ASSUME NEW o \in Walleted
        PROVE  /\ Entered(o)' + AllUnexplained(o)' <= balance'[o]
               /\ balance'[o] <= AllCredited(o)'
    <3>1. Entered(o) + AllUnexplained(o) <= balance[o] /\ balance[o] <= AllCredited(o)
      BY DEF BalancesExplained
    <3>2. /\ AllUnexplained(o) \in Nat /\ AllCredited(o) \in Nat /\ Entered(o) \in Nat
          /\ balance[o] \in Nat
      BY SumsAreNat DEF SumsTyped
    <3>3. /\ AllUnexplained(o)' \in Nat /\ AllCredited(o)' \in Nat /\ Entered(o)' \in Nat
          /\ balance'[o] \in Nat
      BY SumsStayNat DEF SumsTyped
    <3>4. PICK j \in Nat, k \in Nat :
              /\ Entered(o)' <= Entered(o) + j
              /\ AllUnexplained(o)' + j <= AllUnexplained(o) + k
              /\ balance'[o] = balance[o] + k
              /\ AllCredited(o) + k <= AllCredited(o)'
      BY <1>1, BalanceMoves
    <3>. QED
      BY <3>1, <3>2, <3>3, <3>4
  <2>2. SumFunction(balance)' <= AllSpent'
    <3>1. SumFunction(balance) <= AllSpent
      BY DEF BalancesExplained
    <3>2. AllSpent \in Nat /\ SumFunction(balance) \in Nat
      BY SumsAreNat DEF SumsTyped
    <3>3. AllSpent' \in Nat /\ SumFunction(balance)' \in Nat
      BY SumsStayNat DEF SumsTyped
    <3>4. PICK k \in Nat : /\ SumFunction(balance)' <= SumFunction(balance) + k
                           /\ AllSpent + k <= AllSpent'
      BY <1>1, TotalMoves
    <3>. QED
      BY <3>1, <3>2, <3>3, <3>4
  <2>. QED
    BY <2>1, <2>2 DEF BalancesExplained
<1>2. CASE UNCHANGED commissionVars
  BY <1>2
     DEF commissionVars, BalancesExplained, Entered, AllUnexplained, AllCredited,
            AllSpent,
         Unexplained, Credited, Spent, AgentCredited, PartnerCredited, AgentUnexplained,
         PartnerUnexplained, ToAgent, ToPartner
<1>. QED
  BY <1>1, <1>2, CreditSteps

-----------------------------------------------------------------------------
(* The reports                                                             *)

EarnedTyped == \A d \in Dates, o \in Payees : EarnedOn(d, o) \in Nat

LEMMA EarnedIsNat == TablesAdd => EarnedTyped
<1>. SUFFICES ASSUME TablesAdd, NEW d \in Dates, NEW o \in Payees
              PROVE  EarnedOn(d, o) \in Nat
  BY DEF EarnedTyped
<1>1. Summable([c \in rows |-> ShareOf(c, o)], {c \in rows : c.date = d})
  BY FS_Subset, TermsAreNat DEF Summable, TablesAdd, TablesTyped
<1>. QED
  BY <1>1, SumIsNat DEF EarnedOn

LEMMA EarnedStaysNat == TablesAdd' => EarnedTyped'
BY EarnedIsNat, PTL

\* Rows are added and never removed.
LEMMA EarnedGrows ==
    ASSUME TablesAdd, TablesAdd', rows \subseteq rows', NEW d \in Dates, NEW o \in Payees
    PROVE  EarnedOn(d, o) <= EarnedOn(d, o)'
<1>. DEFINE f == [c \in rows |-> ShareOf(c, o)]
            g == [c \in rows' |-> ShareOf(c, o)]
            R == {c \in rows : c.date = d}
            S == {c \in rows' : c.date = d}
<1>1. IsFiniteSet(R) /\ IsFiniteSet(S) /\ R \subseteq S
  BY FS_Subset DEF TablesAdd, TablesTyped
<1>2. (\A c \in R : f[c] \in Nat /\ f[c] = g[c]) /\ \A c \in S : g[c] \in Nat
  BY TermsAreNat DEF TablesAdd
<1>3. EarnedOn(d, o) = SumFunctionOnSet(f, R) /\ EarnedOn(d, o)' = SumFunctionOnSet(g, S)
  BY DEF EarnedOn, ShareOf
<1>. HIDE DEF f, g, R, S
<1>4. Summable(f, R) /\ Summable(g, S) /\ \A c \in R : f[c] <= g[c]
  BY <1>1, <1>2 DEF Summable
<1>. QED
  BY <1>1, <1>3, <1>4, SumBounded

\* A query sees some of the rows of the day.
LEMMA TotalIsBehind ==
    ASSUME TablesAdd, NEW d \in Dates, NEW o \in Payees
    PROVE  Total(d, o) \in Nat /\ Total(d, o) <= EarnedOn(d, o)
<1>. DEFINE f == [c \in rows |-> ShareOf(c, o)]
            R == Visible(d)
            S == {c \in rows : c.date = d}
<1>1. IsFiniteSet(R) /\ IsFiniteSet(S) /\ R \subseteq S
  BY FS_Subset DEF TablesAdd, TablesTyped, Visible
<1>2. \A c \in S : f[c] \in Nat
  BY TermsAreNat DEF TablesAdd
<1>3. EarnedOn(d, o) = SumFunctionOnSet(f, S) /\ Total(d, o) = SumFunctionOnSet(f, R)
  BY DEF EarnedOn, Total
<1>. HIDE DEF f, R, S
<1>4. Summable(f, R) /\ Summable(f, S) /\ \A c \in R : f[c] <= f[c]
  BY <1>1, <1>2 DEF Summable
<1>. QED
  BY <1>1, <1>3, <1>4, SumBounded, SumIsNat

LEMMA ReportSteps ==
    ASSUME JobsTyped, ReportsTyped, [Next]_vars
    PROVE  \/ UNCHANGED <<summary, groups, cache>>
           \/ /\ UNCHANGED <<summary, cache>>
              /\ groups' \in [Runners -> SUBSET Groups]
              /\ \A g \in Runners : groups'[g] \subseteq groups[g]
           \/ UNCHANGED cache /\ (\E g \in Runners : Aggregate(g) \/ Upsert(g))
           \/ /\ UNCHANGED <<summary, groups>>
              /\ \E x \in Reports : GetDailySummary(x) \/ CacheExpires(x)
<1>1. CASE Control
  <2>1. ASSUME NEW g \in Runners, FinishJob(g)
        PROVE  /\ groups' \in [Runners -> SUBSET Groups]
               /\ \A h \in Runners : groups'[h] \subseteq groups[h]
    BY <2>1 DEF FinishJob, ReportsTyped
  <2>2. CASE Restart
    BY <1>1, <2>2 DEF Control, Restart, ReportsTyped
  <2>. QED
    BY <1>1, <2>1, <2>2 DEF Control, BeginJob, StartJob
<1>. QED
  BY <1>1 DEF Next, NextDay, Aggregation, Partitions, Reader, Request, vars, jobVars

LEMMA ArchiveStep ==
    ASSUME JobsTyped, ReportsTyped, [Next]_vars
    PROVE  archive' \in [Months -> {"none", "dumped", "empty"}]
<1>1. ASSUME NEW g \in Runners, NEW m \in todo[g], Dump(g, m)
      PROVE  archive' \in [Months -> {"none", "dumped", "empty"}]
  <2>1. m \in Months
    BY DEF JobsTyped
  <2>. QED
    BY <1>1, <2>1 DEF Dump, ReportsTyped
<1>2. UNCHANGED archive \/ (\E g \in Runners : \E m \in todo[g] : Dump(g, m))
  <2>1. CASE Partitions
    BY <2>1 DEF Partitions, FindOld, Detach, Drop, CreatePartition
  <2>2. CASE Control
    BY <2>2 DEF Control, BeginJob, FinishJob, StartJob, Restart
  <2>. QED
    BY <2>1, <2>2 DEF Next, NextDay, Aggregation, Reader, vars, jobVars
<1>. QED
  BY <1>1, <1>2 DEF ReportsTyped

LEMMA ReportsStep ==
    ASSUME Inductive, TablesAdd', [Next]_vars
    PROVE  ReportsTyped' /\ ReportsBehind'
<1>1. TablesAdd /\ ReportsTyped /\ ReportsBehind /\ JobsTyped
  BY DEF Inductive, TablesAdd, Sound
<1>2. rows \subseteq rows' /\ archive' \in [Months -> {"none", "dumped", "empty"}]
  BY <1>1, TablesGrow, ArchiveStep
<1>3. EarnedTyped /\ EarnedTyped'
  BY <1>1, EarnedIsNat, EarnedStaysNat
<1>4. ASSUME NEW d \in Dates, NEW o \in Payees, NEW n \in Nat, n <= EarnedOn(d, o)
      PROVE  n <= EarnedOn(d, o)'
  <2>1. EarnedOn(d, o) <= EarnedOn(d, o)'
    BY <1>1, <1>2, EarnedGrows
  <2>2. EarnedOn(d, o) \in Nat /\ EarnedOn(d, o)' \in Nat
    BY <1>3 DEF EarnedTyped
  <2>. QED
    BY <1>4, <2>1, <2>2
<1>5. \A x \in Reports : x[1] \in Dates /\ x[2] \in Payees
  BY CommissionAssumption
<1>6. /\ (summary' = summary) => \A d \in Dates, o \in Payees : summary'[d][o] <= EarnedOn(d, o)'
      /\ \A g \in Runners : (groups'[g] \subseteq groups[g]) =>
             \A x \in groups'[g] : x.total <= EarnedOn(x.date, x.owner)'
      /\ \A x \in Reports : cache'[x] = cache[x] /\ cache'[x] # None =>
             cache'[x] <= EarnedOn(x[1], x[2])'
  BY <1>1, <1>4, <1>5 DEF ReportsTyped, ReportsBehind, Groups
<1>7. CASE UNCHANGED <<summary, groups, cache>>
  BY <1>1, <1>2, <1>6, <1>7 DEF ReportsTyped, ReportsBehind
<1>8. CASE /\ UNCHANGED <<summary, cache>> /\ groups' \in [Runners -> SUBSET Groups]
           /\ \A g \in Runners : groups'[g] \subseteq groups[g]
  BY <1>1, <1>2, <1>6, <1>8 DEF ReportsTyped, ReportsBehind
<1>9. ASSUME UNCHANGED cache, NEW g \in Runners, Aggregate(g)
      PROVE  ReportsTyped' /\ ReportsBehind'
  <2>1. PICK d : d = DayBefore(today)
    OBVIOUS
  <2>. DEFINE found == {[date |-> d, owner |-> o, total |-> Total(d, o)] : o \in Grouped(d)}
  <2>2. UNCHANGED summary /\ groups' \in {groups, [groups EXCEPT ![g] = found]}
    BY <1>9, <2>1 DEF Aggregate
  <2>3. \A x \in found : x \in Groups /\ x.total <= EarnedOn(x.date, x.owner)
    <3>1. ASSUME NEW o \in Grouped(d)
          PROVE  o \in Payees /\ d \in Dates
      BY <1>1 DEF Grouped, Visible, TablesAdd, Commissions
    <3>. QED
      BY <1>1, <3>1, TotalIsBehind DEF Groups
  <2>. HIDE DEF found
  <2>4. groups' \in [Runners -> SUBSET Groups]
    BY <1>1, <2>2, <2>3 DEF ReportsTyped
  <2>5. \A h \in Runners : \A x \in groups'[h] : x.total <= EarnedOn(x.date, x.owner)'
    <3>1. \A x \in found : x.total <= EarnedOn(x.date, x.owner)'
      BY <1>4, <2>3 DEF Groups
    <3>. QED
      BY <1>1, <1>6, <2>2, <3>1 DEF ReportsTyped
  <2>. QED
    BY <1>1, <1>2, <1>6, <1>9, <2>2, <2>4, <2>5 DEF ReportsTyped, ReportsBehind
<1>10. ASSUME UNCHANGED cache, NEW g \in Runners, Upsert(g)
       PROVE  ReportsTyped' /\ ReportsBehind'
  <2>1. PICK x \in groups[g] :
            /\ summary' \in {summary, Replaced(x)}
            /\ groups' \in {groups, [groups EXCEPT ![g] = @ \ {x}]}
    BY <1>10 DEF Upsert
  <2>2. x \in Groups /\ x.total <= EarnedOn(x.date, x.owner)
    BY <1>1 DEF ReportsTyped, ReportsBehind
  <2>3. x.date \in Dates /\ x.owner \in Payees /\ x.total \in Nat
    BY <2>2 DEF Groups
  <2>4. x.total <= EarnedOn(x.date, x.owner)'
    BY <1>4, <2>2, <2>3
  <2>5. /\ summary' \in [Dates -> [Payees -> Nat]]
        /\ \A d \in Dates, o \in Payees : summary'[d][o] = summary[d][o]
               \/ (d = x.date /\ o = x.owner /\ summary'[d][o] = x.total)
    <3>1. summary \in [Dates -> [Payees -> Nat]]
      BY <1>1 DEF ReportsTyped
    <3>. DEFINE day == [summary[x.date] EXCEPT ![x.owner] = x.total]
    <3>2. day \in [Payees -> Nat]
      BY <2>3, <3>1
    <3>3. \A o \in Payees : day[o] = summary[x.date][o] \/ (o = x.owner /\ day[o] = x.total)
      BY <2>3, <3>1
    <3>4. summary' \in {summary, [summary EXCEPT ![x.date] = day]}
      BY <2>1 DEF Replaced
    <3>. HIDE DEF day
    <3>5. summary' \in [Dates -> [Payees -> Nat]]
      BY <2>3, <3>1, <3>2, <3>4
    <3>6. \A d \in Dates, o \in Payees :
              summary'[d][o] = summary[d][o] \/ (d = x.date /\ summary'[d][o] = day[o])
      BY <2>3, <3>1, <3>4
    <3>. QED
      BY <3>3, <3>5, <3>6
  <2>6. \A d \in Dates, o \in Payees : summary'[d][o] <= EarnedOn(d, o)'
    <3>1. \A d \in Dates, o \in Payees : summary[d][o] <= EarnedOn(d, o)'
      BY <1>1, <1>4 DEF ReportsTyped, ReportsBehind
    <3>. QED
      BY <2>4, <2>5, <3>1
  <2>7. /\ groups' \in [Runners -> SUBSET Groups]
        /\ \A h \in Runners : groups'[h] \subseteq groups[h]
    BY <1>1, <2>1 DEF ReportsTyped
  <2>. QED
    BY <1>1, <1>2, <1>6, <1>10, <2>5, <2>6, <2>7 DEF ReportsTyped, ReportsBehind
<1>11. ASSUME UNCHANGED <<summary, groups>>, NEW x \in Reports,
              GetDailySummary(x) \/ CacheExpires(x)
       PROVE  ReportsTyped' /\ ReportsBehind'
  <2>1. cache' \in {[cache EXCEPT ![x] = summary[x[1]][x[2]]], [cache EXCEPT ![x] = None]}
    BY <1>11 DEF GetDailySummary, CacheExpires
  <2>2. x[1] \in Dates /\ x[2] \in Payees
    BY <1>5
  <2>3. summary[x[1]][x[2]] \in Nat /\ summary[x[1]][x[2]] <= EarnedOn(x[1], x[2])'
    BY <1>1, <1>4, <2>2 DEF ReportsTyped, ReportsBehind
  <2>4. cache' \in [Reports -> Nat \cup {None}]
    BY <1>1, <2>1, <2>3 DEF ReportsTyped
  <2>5. \A y \in Reports : cache'[y] # None => cache'[y] <= EarnedOn(y[1], y[2])'
    BY <1>1, <1>6, <2>1, <2>3 DEF ReportsTyped
  <2>. QED
    BY <1>1, <1>2, <1>6, <1>11, <2>4, <2>5 DEF ReportsTyped, ReportsBehind
<1>. QED
  BY <1>1, <1>7, <1>8, <1>9, <1>10, <1>11, ReportSteps

-----------------------------------------------------------------------------
(* Initial states and steps                                                *)

LEMMA InitInductive == Init => Inductive
<1>. SUFFICES ASSUME Init
              PROVE  Inductive
  OBVIOUS
<1>. USE DEF Init, CommissionInit
<1>1. CalendarTyped
  BY MonthsAreNumbers DEF CalendarTyped
<1>2. CreditsTyped /\ JobsTyped
  BY DEF CreditsTyped, JobsTyped
<1>3. \A r \in Requests : RequestSoFar(r)
  BY DEF RequestSoFar, NothingOf, Crediting
<1>4. \A g \in Runners : OnlyOldLeave(g)
  BY DEF OnlyOldLeave
<1>5. (\A c \in rows : Sound(c)) /\ OneRowPerRequest /\ EntriesHaveRows /\ RecentRowsReadable
  BY DEF OneRowPerRequest, EntriesHaveRows, RecentRowsReadable
<1>6. TablesTyped /\ ReportsTyped
  BY FS_EmptySet DEF TablesTyped, ReportsTyped
<1>7. BalancesExplained
  <2>1. ASSUME NEW o \in Walleted
        PROVE  Entered(o) = 0 /\ AllUnexplained(o) = 0 /\ AllCredited(o) = 0 /\ balance[o] = 0
    <3>1. {e \in ledger : e.wallet = o} = {}
      OBVIOUS
    <3>. QED
      BY <3>1, SumOfNone DEF Entered, AllUnexplained, AllCredited, SumFunction
  <2>2. AllSpent = 0
    BY SumOfNone DEF AllSpent, SumFunction
  <2>3. SumFunction(balance) <= 0
    BY SumOfZeros, CommissionAssumption DEF SumFunction
  <2>4. \A o \in Walleted : Entered(o) + AllUnexplained(o) <= balance[o]
    BY <2>1
  <2>. QED
    BY <2>1, <2>2, <2>3, <2>4 DEF BalancesExplained
<1>8. ReportsBehind
  <2>1. ASSUME NEW d \in Dates, NEW o \in Payees
        PROVE  EarnedOn(d, o) = 0
    <3>1. {c \in rows : c.date = d} = {}
      OBVIOUS
    <3>. QED
      BY <3>1, SumOfNone DEF EarnedOn
  <2>. QED
    BY <2>1 DEF ReportsBehind
<1>. QED
  BY <1>1, <1>2, <1>3, <1>4, <1>5, <1>6, <1>7, <1>8 DEF Inductive

LEMMA InductiveStep == Inductive /\ [Next]_vars => Inductive'
<1>. SUFFICES ASSUME Inductive, [Next]_vars
              PROVE  Inductive'
  OBVIOUS
<1>0. CalendarTyped /\ CreditsTyped
  BY DEF Inductive
<1>1. CalendarTyped'
  BY <1>0, TodayStep, PartsStep DEF CalendarTyped
<1>2. CreditsTyped' /\ \A r \in Requests : RequestSoFar(r)'
  <2>1. CASE UNCHANGED commissionVars
    BY <2>1
       DEF commissionVars, Inductive, CreditsTyped, RequestSoFar, NothingOf, Sound,
              AddsUp,
           AgentPaid, PartnerPaid, AgentDue, PartnerDue, Entry
  <2>2. ASSUME NEW q \in Requests, Request(q)
        PROVE  CreditsTyped' /\ \A r \in Requests : RequestSoFar(r)'
    BY <1>0, <2>2, OthersStep, RequestSoFarStep DEF CalendarTyped
  <2>. QED
    BY <2>1, <2>2, CreditSteps
<1>3. (\A c \in rows' : Sound(c)) /\ EntriesHaveRows'
  BY RowsStep
<1>4. JobsTyped' /\ \A g \in Runners : OnlyOldLeave(g)'
  BY JobsStep
<1>5. RecentRowsReadable'
  BY RecentRowsReadableStep
<1>6. TablesTyped' /\ OneRowPerRequest'
  BY TablesTypedStep
<1>7. TablesAdd'
  BY <1>3, <1>6 DEF TablesAdd, Sound
<1>8. BalancesExplained' /\ ReportsTyped' /\ ReportsBehind'
  BY <1>7, BalancesExplainedStep, ReportsStep
<1>9. (\A c \in rows : Sound(c))'
  BY <1>3 DEF Sound, AddsUp
<1>. QED
  BY <1>1, <1>2, <1>3, <1>4, <1>5, <1>6, <1>8, <1>9 DEF Inductive

LEMMA Invariance == Spec => []Inductive
BY InitInductive, InductiveStep, PTL DEF Spec

-----------------------------------------------------------------------------
(* Theorems                                                                *)

\* The tables, the wallets and the reports, the requests and the executions keep
\* their types: no balance and no total is ever negative, an execution that is
\* under way has a job, and one that archives a partition has that month on its
\* list (calculator.go:120-205, summary.go:147-245, cron.go:285, archive.go:98).
THEOREM TypeCorrect == Spec => []TypeOK
<1>1. ASSUME Inductive
      PROVE  TypeOK
  <2>1. CommissionTypeOK
    BY <1>1
       DEF Inductive, Sound, CreditsTyped, Crediting, TablesTyped, ReportsTyped,
              CommissionTypeOK
  <2>. QED
    BY <1>1, <2>1
       DEF Inductive, CalendarTyped, JobsTyped, ReportsTyped, OnlyOldLeave, TypeOK
<1>. QED
  BY <1>1, Invariance, PTL

LEMMA TermsAreCovered ==
    ASSUME NEW c \in Commissions, AddsUp(c), NEW o
    PROVE  Credited(c, o) <= ShareOf(c, o) /\ Spent(c) <= c.fee
<1>1. Credited(c, o) <= ShareOf(c, o)
  <2>1. ShareOf(c, o) = (IF o = System THEN c.system ELSE 0) + ToAgent(c, o) + ToPartner(c, o)
    BY DEF ShareOf, ToAgent, ToPartner
  <2>. QED
    BY <2>1, PartsAreNat DEF Credited
<1>2. Spent(c) <= c.fee
  BY PartsAreNat DEF Spent, AddsUp
<1>. QED
  BY <1>1, <1>2

\* Wherever requests stop between their statements, and however those of several
\* requests interleave: a wallet holds at least what its ledger explains and at
\* most what the stored commissions say its owner earned, and all wallets
\* together at most the fees of the stored commissions (calculator.go:120-269,
\* commission_repo.go:140-177).
THEOREM CreditsCovered == Spec => []CreditsAreCovered
<1>1. ASSUME Inductive
      PROVE  CreditsAreCovered
  <2>1. TablesAdd /\ BalancesExplained /\ \A c \in rows : c \in Commissions /\ AddsUp(c)
    BY <1>1 DEF Inductive, TablesAdd, Sound
  <2>2. SumsTyped /\ IsFiniteSet(rows)
    BY <2>1, SumsAreNat DEF TablesAdd, TablesTyped
  <2>3. ASSUME NEW o \in Walleted
        PROVE  Entered(o) <= balance[o] /\ balance[o] <= Earned(o)
    <3>. DEFINE f == [c \in rows |-> Credited(c, o)]
                g == [c \in rows |-> ShareOf(c, o)]
    <3>1. Summable(f, rows) /\ Summable(g, rows) /\ \A c \in rows : f[c] <= g[c]
      BY <2>1, <2>2, TermsAreNat, TermsAreCovered DEF Summable
    <3>2. /\ AllCredited(o) = SumFunctionOnSet(f, rows)
          /\ Earned(o) = SumFunctionOnSet(g, rows)
      BY DEF AllCredited, Earned, SumFunction
    <3>. HIDE DEF f, g
    <3>3. AllCredited(o) <= Earned(o) /\ Earned(o) \in Nat
      BY <3>1, <3>2, SumBounded, SumIsNat
    <3>4. Entered(o) + AllUnexplained(o) <= balance[o] /\ balance[o] <= AllCredited(o)
      BY <2>1 DEF BalancesExplained
    <3>5. /\ Entered(o) \in Nat /\ AllUnexplained(o) \in Nat
          /\ balance[o] \in Nat /\ AllCredited(o) \in Nat
      BY <2>2 DEF SumsTyped
    <3>. QED
      BY <3>3, <3>4, <3>5
  <2>4. SumFunction(balance) <= SumFunction([c \in rows |-> c.fee])
    <3>. DEFINE f == [c \in rows |-> Spent(c)]
                g == [c \in rows |-> c.fee]
    <3>1. Summable(f, rows) /\ Summable(g, rows) /\ \A c \in rows : f[c] <= g[c]
      BY <2>1, <2>2, TermsAreNat, TermsAreCovered, FieldsOfCommission DEF Summable
    <3>2. AllSpent = SumFunctionOnSet(f, rows) /\ SumFunction(g) = SumFunctionOnSet(g, rows)
      BY DEF AllSpent, SumFunction
    <3>. HIDE DEF f, g
    <3>3. AllSpent <= SumFunction(g) /\ SumFunction(g) \in Nat
      BY <3>1, <3>2, SumBounded, SumIsNat
    <3>4. SumFunction(balance) <= AllSpent
      BY <2>1 DEF BalancesExplained
    <3>5. SumFunction(balance) \in Nat /\ AllSpent \in Nat
      BY <2>2 DEF SumsTyped
    <3>6. SumFunction(balance) <= SumFunction(g)
      BY <3>3, <3>4, <3>5
    <3>. QED
      BY <3>6 DEF g
  <2>. QED
    BY <2>3, <2>4 DEF CreditsAreCovered
<1>. QED
  BY <1>1, Invariance, PTL

\* However executions of the aggregation overlap, repeat or stop half way, and
\* however old a cached answer is: no report of a day or a month is ahead of the
\* stored commissions (summary.go:72-245, aggregator.go:280-373).
THEOREM ReportsStayBehind == Spec => []ReportsNeverAhead
<1>1. ASSUME Inductive
      PROVE  ReportsNeverAhead
  <2>1. TablesAdd /\ ReportsTyped /\ ReportsBehind
    BY <1>1 DEF Inductive, TablesAdd, Sound
  <2>2. EarnedTyped
    BY <2>1, EarnedIsNat
  <2>3. ASSUME NEW m \in Months, NEW o \in Payees
        PROVE  MonthlySummary(m, o)
                   <= SumFunction([d \in {d \in Dates : d[1] = m} |-> EarnedOn(d, o)])
    <3>. DEFINE month == {d \in Dates : d[1] = m}
                f == [d \in Dates |-> summary[d][o]]
                g == [d \in month |-> EarnedOn(d, o)]
    <3>1. IsFiniteSet(month)
      <4>1. IsFiniteSet({m} \X (1 .. Length[m]))
        <5>1. \A n \in Int : IsFiniteSet(1 .. n)
          BY FS_Interval
        <5>2. Length[m] \in Int
          BY MonthsAreNumbers
        <5>3. IsFiniteSet({m}) /\ IsFiniteSet(1 .. Length[m])
          BY <5>1, <5>2, FS_Singleton
        <5>. QED
          BY <5>3, FS_Product
      <4>2. month \subseteq {m} \X (1 .. Length[m])
        BY DEF Dates
      <4>. QED
        BY <4>1, <4>2, FS_Subset
    <3>2. \A d \in month : f[d] \in Nat /\ g[d] \in Nat /\ f[d] <= g[d]
      BY <2>1, <2>2 DEF ReportsTyped, ReportsBehind, EarnedTyped
    <3>3. /\ MonthlySummary(m, o) = SumFunctionOnSet(f, month)
          /\ SumFunction(g) = SumFunctionOnSet(g, month)
      BY DEF MonthlySummary, SumFunction
    <3>. HIDE DEF f, g, month
    <3>4. MonthlySummary(m, o) <= SumFunction(g)
      BY <3>1, <3>2, <3>3, SumBounded DEF Summable
    <3>. QED
      BY <3>4 DEF g, month
  <2>4. \A x \in Reports : x[1][1] \in Months /\ x[2] \in Payees
    BY CommissionAssumption, MonthsAreNumbers
  <2>. QED
    BY <2>1, <2>3, <2>4 DEF ReportsBehind, ReportsNeverAhead
<1>. QED
  BY <1>1, Invariance, PTL

\* An answer tells what is in the tables, wherever the statements of other
\* requests come in between: 200 that the row and an entry for each positive
\* share are stored, a refusal that nothing is (commission_handler.go:164-208,
\* calculator.go:221-269).
THEOREM AnswersAreTrue == Spec => []TruthfulAnswer
<1>1. Inductive => TruthfulAnswer
  BY DEF Inductive, RequestSoFar, TruthfulAnswer, NothingOf, AgentPaid,
         PartnerPaid, AgentDue,
         PartnerDue
<1>. QED
  BY <1>1, Invariance, PTL

\* However executions of the jobs overlap and restart, and on whatever day the
\* subtraction of months runs over, no partition of this month and of the last
\* Retention - 1 months with a row in it is taken away (archive.go:47-49, 100-103).
THEOREM RecentStaysReadable == Spec => []RecentRowsReadable
<1>1. Inductive => RecentRowsReadable
  BY DEF Inductive
<1>. QED
  BY <1>1, Invariance, PTL

\* In every row that is stored the three shares are not negative and add up to
\* the fee, whatever the rounding of each (calculator.go:120-205).
THEOREM StoredSplitsAddUp == Spec => []RowsAddUp
<1>1. Inductive => RowsAddUp
  BY DEF Inductive, RowsAddUp, Sound
<1>. QED
  BY <1>1, Invariance, PTL

\* No request leaves an entry in the ledger without the row of its commission,
\* with the owner and the amount of one of its shares, and the owner has a
\* wallet: the row is inserted before any credit (calculator.go:221-262).
THEOREM CreditsComeFromRows == Spec => []EntriesHaveRows
<1>1. Inductive => EntriesHaveRows
  BY DEF Inductive
<1>. QED
  BY <1>1, Invariance, PTL
-----------------------------------------------------------------------------
(* Commission implements CommissionBook                                    *)

\* What the book calls owed.
Owes(c) ==
    {e \in {Entry(c, "agent"), Entry(c, "partner")} : e.wallet # None /\ e.amount > 0}

LEMMA OwedIsDue ==
    \A c : /\ Entry(c, "agent") \in Owes(c) <=> AgentDue(c)
           /\ Entry(c, "partner") \in Owes(c) <=> PartnerDue(c)
           /\ Entry(c, "agent") # Entry(c, "partner")
           /\ Owes(c) \subseteq {Entry(c, "agent"), Entry(c, "partner")}
<1>. TAKE c
<1>1. /\ Entry(c, "agent").wallet = c.agent /\ Entry(c, "agent").amount = c.agentAmount
      /\ Entry(c, "partner").wallet = c.partner /\ Entry(c, "partner").amount = c.partnerAmount
      /\ Entry(c, "agent") # Entry(c, "partner")
  BY DEF Entry
<1>. QED
  BY <1>1 DEF Owes, AgentDue, PartnerDue

LEMMA BookRecords ==
    ASSUME NEW r \in Requests, NEW c, Sound(c), c.id = r, NothingOf(r),
           rows' = rows \cup {c}, UNCHANGED ledger
    PROVE  Book!Record(r)
BY DEF Book!Record, Book!AddsUp, Sound, AddsUp, NothingOf

LEMMA BookEnters ==
    ASSUME NEW r \in Requests, NEW c \in rows, c.id = r, NEW e \in Owes(c),
           e = Entry(c, "partner") => Owes(c) \ {e} \subseteq ledger,
           ledger' = ledger \cup {e}, UNCHANGED rows
    PROVE  Book!Enter(r)
BY DEF Book!Enter, Book!Owed, Book!AgentEntry, Book!PartnerEntry, Owes, Entry

LEMMA BookAnswers ==
    ASSUME NEW r \in Requests, NEW c \in rows', c.id = r, Owes(c) \subseteq ledger',
           reply' = [reply EXCEPT ![r] = "ok"]
    PROVE  Book!Answer(r)
BY DEF Book!Answer, Book!Owed, Book!AgentEntry, Book!PartnerEntry, Owes, Entry

\* What a request writes is a step of the book, but for the answer.
LEMMA WritesAreInTheBook ==
    ASSUME Inductive, NEW r \in Requests, Request(r)
    PROVE  /\ reply[r] = "none"
           /\ Book!Record(r) \/ Book!Enter(r) \/ UNCHANGED <<rows, ledger>>
<1>. RequestSoFar(r) /\ CreditsTyped
  BY DEF Inductive
<1>1. ASSUME NEW in \in Inputs, Calculate(r, in)
      PROVE  pc[r] # "done" /\ UNCHANGED <<rows, ledger>>
  BY <1>1, CalculateStep
<1>2. ASSUME pc[r] = "insert", rows' = rows \cup {comm[r]}, UNCHANGED ledger
      PROVE  Book!Record(r)
  <2>1. Sound(comm[r]) /\ comm[r].id = r /\ NothingOf(r)
    BY <1>2 DEF RequestSoFar
  <2>. QED
    BY <1>2, <2>1, BookRecords
<1>3. ASSUME pc[r] = "agent ledger", UNCHANGED rows,
             ledger' = ledger \cup {Entry(comm[r], "agent")}
      PROVE  Book!Enter(r)
  <2>1. comm[r] \in rows /\ comm[r].id = r /\ AgentDue(comm[r])
    BY <1>3 DEF RequestSoFar, Crediting
  <2>2. /\ Entry(comm[r], "agent") \in Owes(comm[r])
        /\ Entry(comm[r], "agent") = Entry(comm[r], "partner") =>
               Owes(comm[r]) \ {Entry(comm[r], "agent")} \subseteq ledger
    BY <2>1, OwedIsDue
  <2>. QED
    BY <1>3, <2>1, <2>2, BookEnters, Zenon
<1>4. ASSUME pc[r] = "partner ledger", UNCHANGED rows,
             ledger' = ledger \cup {Entry(comm[r], "partner")}
      PROVE  Book!Enter(r)
  <2>1. /\ comm[r] \in rows /\ comm[r].id = r
        /\ PartnerDue(comm[r]) /\ AgentPaid(comm[r])
    BY <1>4 DEF RequestSoFar, Crediting
  <2>2. Owes(comm[r]) \subseteq {Entry(comm[r], "agent"), Entry(comm[r], "partner")}
    BY OwedIsDue
  <2>3. Entry(comm[r], "partner") \in Owes(comm[r])
    BY <2>1, OwedIsDue
  <2>4. Entry(comm[r], "agent") \in Owes(comm[r]) => Entry(comm[r], "agent") \in ledger
    BY <2>1, OwedIsDue DEF AgentPaid
  <2>5. Owes(comm[r]) \ {Entry(comm[r], "partner")} \subseteq ledger
    BY <2>2, <2>4
  <2>. QED
    BY <1>4, <2>1, <2>3, <2>5, BookEnters, Zenon
<1>5. pc[r] # "done"
  BY <1>1, StatementStep
<1>6. reply[r] = "none"
  BY <1>5 DEF RequestSoFar
<1>7. \/ UNCHANGED <<rows, ledger>>
      \/ pc[r] = "insert" /\ rows' = rows \cup {comm[r]} /\ UNCHANGED ledger
      \/ /\ pc[r] = "agent ledger" /\ UNCHANGED rows
         /\ ledger' = ledger \cup {Entry(comm[r], "agent")}
      \/ /\ pc[r] = "partner ledger" /\ UNCHANGED rows
         /\ ledger' = ledger \cup {Entry(comm[r], "partner")}
  BY <1>1, StatementStep
<1>. QED
  BY <1>2, <1>3, <1>4, <1>6, <1>7, Zenon

\* The answer of a request is one the book allows.
LEMMA AnswersAreInTheBook ==
    ASSUME Inductive, Inductive', NEW r \in Requests, Request(r)
    PROVE  Book!Answer(r) \/ UNCHANGED reply
<1>. RequestSoFar(r) /\ RequestSoFar(r)' /\ CreditsTyped /\ CreditsTyped' /\ today \in Dates
  BY DEF Inductive, CalendarTyped
<1>1. reply' = [reply EXCEPT ![r] = reply'[r]]
  BY OthersStep DEF CreditsTyped
<1>2. reply[r] = "none"
  BY WritesAreInTheBook DEF RequestSoFar
<1>3. ASSUME reply'[r] = "ok"
      PROVE  Book!Answer(r)
  <2>1. comm'[r] \in rows' /\ AgentPaid(comm[r])' /\ PartnerPaid(comm[r])'
    BY <1>3 DEF RequestSoFar
  <2>2. comm'[r].id = r
    BY <1>2, <1>3, CalculateStep, StatementStep DEF RequestSoFar, Crediting
  <2>3. Owes(comm'[r]) \subseteq ledger'
    BY <2>1, OwedIsDue DEF AgentPaid, PartnerPaid, AgentDue, PartnerDue, Entry
  <2>. QED
    BY <1>1, <1>3, <2>1, <2>2, <2>3, BookAnswers
<1>4. ASSUME reply'[r] \in {"invalid_amount", "calc_error"}
      PROVE  Book!Answer(r)
  <2>1. \A c \in rows' : c.id # r
    BY <1>4 DEF RequestSoFar, NothingOf
  <2>. QED
    BY <1>1, <1>4, <2>1 DEF Book!Answer
<1>5. ASSUME reply'[r] = "record_error"
      PROVE  Book!Answer(r)
  BY <1>1, <1>5 DEF Book!Answer
<1>6. ASSUME reply'[r] = "none"
      PROVE  UNCHANGED reply
  BY <1>1, <1>2, <1>6 DEF CreditsTyped
<1>7. reply'[r] \in {"none", "ok", "invalid_amount", "calc_error", "record_error"}
  BY DEF CreditsTyped
<1>. QED
  BY <1>3, <1>4, <1>5, <1>6, <1>7, Zenon

\* With a failure or a lost answer at any
\* statement (commission_repo.go:58-190), the tables of the commission service
\* only change as CommissionBook says, while the scheduler works on them.
THEOREM CommissionKeepsBook == Spec => KeepsBook
<1>1. Init => Book!Init
  BY DEF Init, CommissionInit, Book!Init
<1>2. Inductive /\ Inductive' /\ [Next]_vars => [Book!Next]_(Book!vars)
  <2>. SUFFICES ASSUME Inductive, Inductive', [Next]_vars
                PROVE  [Book!Next]_(Book!vars)
    OBVIOUS
  <2>1. ASSUME NEW r \in Requests, Request(r)
        PROVE  [Book!Next]_(Book!vars)
    BY <2>1, WritesAreInTheBook, AnswersAreInTheBook DEF Book!Next, Book!Step
  <2>2. CASE UNCHANGED commissionVars
    BY <2>2 DEF commissionVars, Book!vars
  <2>. QED
    BY <2>1, <2>2, CreditSteps
<1>. QED
  BY <1>1, <1>2, Invariance, PTL DEF Spec, KeepsBook, Book!Spec
=============================================================================
