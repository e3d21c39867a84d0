----------------------------- MODULE IntakeProofs -----------------------------
(***************************************************************************)
(* What holds of Intake for any number of posts, messages and orders, any  *)
(* limits and clock, and of the bot for any photos and crashes. A step of  *)
(* Intake is one of Sms or one of Slip, and leaves the other alone, so     *)
(* that each has an inductive invariant of its own.                        *)
(***************************************************************************)
EXTENDS Intake, TLAPS

-----------------------------------------------------------------------------
(* The inductive invariant of the parser service                           *)

TooOld(r) == Age(r) > MaxSMSAge

\* The duplicate check let the post through because it claimed the hash.
Passed(p) ==
    /\ ~blind[p]
    /\ pc[p] \in {"check", "rate", "store"} \/ p \in messages

\* The hash stays claimed for as long as the message is young enough.
ClaimKept(p) == Passed(p) => sms[p] \in seen \/ TooOld(sms[p])

\* A second post gets past the check only once the message is too old, and so
\* it goes no further.
OnlyOneGoesOn(p, q) ==
    p # q /\ Passed(p) /\ Passed(q) /\ sms[p] = sms[q] =>
        TooOld(sms[p]) /\ (pc[p] = "check" \/ pc[q] = "check")

RowIsStored(p) ==
    /\ p \in messages => pc[p] \in {"match", "amount", "flag", "save", "done"}
    /\ pc[p] \in {"match", "amount", "flag", "save"} => p \in messages

\* The order a post was matched with has the key of its message.
OrderBacked(p) ==
    /\ order[p] # NoOrder =>
           /\ PlacedFor[order[p]] = <<Account(p), AmountOf[sms[p]]>>
           /\ p \in messages
           /\ pc[p] \in {"amount", "flag", "save", "done"}
    /\ pc[p] = "save" => order[p] # NoOrder
    /\ verification[p] # "none" \/ answer[p] \in {"manual_approval", "pending_verification"}
         => pc[p] = "done" /\ p \in messages /\ order[p] # NoOrder

\* What is left to add to the score is no more than 20 points.
ScoreSoFar(p) == pc[p] = "flag" => score[p] <= 80

SmsInductive ==
    /\ SmsTypeOK
    /\ \A p \in Posts :
           ClaimKept(p) /\ RowIsStored(p) /\ OrderBacked(p) /\ ScoreSoFar(p)
    /\ \A p, q \in Posts : OnlyOneGoesOn(p, q)

-----------------------------------------------------------------------------
(* The inductive invariant of the bot                                      *)

\* The polling loop has one photo in hand, the first it fetched.
OneAtATime(u) == polling => step[u] \in {"none", "done"} \/ IsFirst(u)

\* Between one start and the next no photo is handled twice.
HandledOnce(u) ==
    /\ step[u] = "none" \/ polling \/ u \in confirmed
    /\ u \in recorded => step[u] \in {"reply", "done"}
    /\ reply[u] = "duplicate" => step[u] \in {"store", "append", "reply", "done"}

\* What HandlePhoto knows of the photo is so, unless it has an error page.
Known(u) ==
    /\ ref[u] \in {NoRef, Transfer(u)}
    /\ step[u] \in {"image", "easyslip", "ref", "store", "append"} =>
           picture[u] \in {ImageOf[u], ErrorPage}
    /\ step[u] = "ref" => picture[u] = ImageOf[u] /\ ref[u] = Transfer(u)

TrueRecord(r, updates) ==
    /\ r \in Records
    /\ r.update \in updates
    /\ r.image \in {ImageOf[r.update], ErrorPage}
    /\ r.ref \in {NoRef, Transfer(r.update)}

TrueRecords(list) == \A i \in 1 .. Len(list) : TrueRecord(list[i], recorded)

\* Only the stub appends, and no other append comes between when the bot polls.
Appends(u) ==
    step[u] = "append" => repo = "stub" /\ (polling => kept[u] = slips)

\* The transfer of a photo that was verified since the start is on record, or is
\* about to be.
Covered(a) ==
    /\ a.life <= crashes
    /\ polling /\ repo = "stub" /\ a.life = crashes =>
           \/ /\ step[a.update] \in {"store", "append"}
              /\ ref[a.update] = Transfer(a.update)
           \/ Stored("ref", Transfer(a.update))

SlipInductive ==
    /\ SlipTypeOK
    /\ \A u \in Updates : OneAtATime(u) /\ HandledOnce(u) /\ Known(u) /\ Appends(u)
    /\ TrueRecords(slips) /\ \A u \in Updates : TrueRecords(kept[u])
    /\ \A a \in accepted : Covered(a)
    /\ TransferAcceptedOnce
    /\ DuplicateHasOriginal

Inductive ==
    /\ channel \in {"sms", "slip"}
    /\ SmsInductive
    /\ SlipInductive

-----------------------------------------------------------------------------
(* A step of Intake is one of Sms or one of Slip                           *)

LEMMA OneOfEither ==
    ASSUME [Next]_vars
    PROVE  [SmsNext]_smsVars /\ [SlipNext]_slipVars /\ UNCHANGED channel
BY DEF Next, vars, smsVars, slipVars

-----------------------------------------------------------------------------
(* The parser service: types                                               *)

LEMMA Words ==
    /\ \A s \in {"idle", "dedup", "check", "rate", "store", "match", "amount", "flag",
                 "save", "done"} : s \in PostSteps
    /\ \A a \in {"duplicate", "error", "retry", "unmatched", "manual_approval",
                 "pending_verification"} : a \in Answers
BY DEF PostSteps, Answers

LEMMA ActionTyped ==
    ASSUME NEW amount \in Nat, NEW points \in Nat
    PROVE  Action(amount, points) \in {"manual_approval", "auto_approve", "delay_approve"}
BY SmsAssumption DEF Action

LEMMA ScoresBounded ==
    ASSUME NEW p \in Posts
    PROVE  /\ SenderScore(p) \in {0, 30} /\ FormatScore(p) \in {0, 30}
           /\ TimestampScore(p) \in {0, 10}
BY DEF SenderScore, FormatScore, TimestampScore

LEMMA SmsTypeStep ==
    ASSUME SmsInductive, [SmsNext]_smsVars
    PROVE  SmsTypeOK'
<1>. USE DEF postVars, parserKeys, Goto, Reply, LetThrough
<1>. SmsTypeOK
  BY DEF SmsInductive
<1>1. ASSUME NEW p \in Posts, ReceiveSMS(p)
      PROVE  SmsTypeOK'
  BY <1>1, Words DEF ReceiveSMS, SmsTypeOK
<1>2. ASSUME NEW p \in Posts, IsDuplicate(p)
      PROVE  SmsTypeOK'
  <2>1. seen' \subseteq Receipts
    BY <1>2 DEF IsDuplicate, SmsTypeOK
  <2>2. pc' \in [Posts -> PostSteps]
    BY <1>2, Words DEF IsDuplicate, SmsTypeOK
  <2>3. answer' \in [Posts -> Answers]
    BY <1>2, Words DEF IsDuplicate, SmsTypeOK
  <2>4. blind' \in [Posts -> BOOLEAN]
    BY <1>2 DEF IsDuplicate, SmsTypeOK
  <2>. QED
    BY <1>2, <2>1, <2>2, <2>3, <2>4 DEF IsDuplicate, SmsTypeOK
<1>3. ASSUME NEW p \in Posts, CheckMessage(p)
      PROVE  SmsTypeOK'
  BY <1>3, Words DEF CheckMessage, SmsTypeOK
<1>4. ASSUME NEW p \in Posts, CheckRateAnomaly(p)
      PROVE  SmsTypeOK'
  <2>1. Account(p) \in Accounts
    BY SmsAssumption DEF Account, SmsTypeOK
  <2>2. rate' \in [Accounts -> [count : Nat, expires : BOOLEAN]]
    BY <1>4, <2>1 DEF CheckRateAnomaly, SmsTypeOK
  <2>. QED
    BY <1>4, <2>1, <2>2, Words DEF CheckRateAnomaly, SmsTypeOK
<1>5. ASSUME NEW p \in Posts, StoreMessage(p)
      PROVE  SmsTypeOK'
  BY <1>5, Words DEF StoreMessage, SmsTypeOK
<1>6. ASSUME NEW p \in Posts, MatchOrder(p)
      PROVE  SmsTypeOK'
  BY <1>6, Words DEF MatchOrder, FindPendingOrder, SmsTypeOK
<1>7. ASSUME NEW p \in Posts, ScoreAmount(p)
      PROVE  SmsTypeOK'
  <2>1. score' \in [Posts -> 0 .. 100]
    BY <1>7, ScoresBounded DEF ScoreAmount, AmountScore, SmsTypeOK
  <2>. QED
    BY <1>7, <2>1, Words DEF ScoreAmount, SmsTypeOK
<1>8. ASSUME NEW p \in Posts, ScoreAnomaly(p)
      PROVE  SmsTypeOK'
  <2>1. score' \in [Posts -> 0 .. 100]
    BY <1>8, ScoresBounded
       DEF ScoreAnomaly, AnomalyScore, SmsTypeOK, SmsInductive, ScoreSoFar
  <2>. QED
    BY <1>8, <2>1, Words DEF ScoreAnomaly, SmsTypeOK
<1>9. ASSUME NEW p \in Posts, StorePendingVerification(p)
      PROVE  SmsTypeOK'
  <2>1. Decision(p) \in {"manual_approval", "auto_approve", "delay_approve"}
    <3>1. AmountOf[sms[p]] \in Nat
      BY SmsAssumption DEF SmsTypeOK
    <3>2. score[p] \in Nat
      BY DEF SmsTypeOK
    <3>. QED
      BY <3>1, <3>2, ActionTyped DEF Decision
  <2>2. verification' \in [Posts -> {"none", "manual_approval", "auto_approve", "delay_approve"}]
    BY <1>9, <2>1 DEF StorePendingVerification, SmsTypeOK
  <2>. QED
    BY <1>9, <2>2, Words DEF StorePendingVerification, SmsTypeOK
<1>10. ASSUME NEW p \in Posts, PostDies(p)
      PROVE  SmsTypeOK'
  BY <1>10, Words DEF PostDies, SmsTypeOK
<1>11. ASSUME NEW o \in Orders, OrderPlaced(o) \/ OrderGone(o)
      PROVE  SmsTypeOK'
  BY <1>11 DEF OrderPlaced, OrderGone, SmsTypeOK
<1>12. CASE ClockMoves
  BY <1>12, SmsAssumption DEF ClockMoves, SmsTypeOK
<1>13. CASE KeyExpires
  <2>1. /\ seen' \subseteq Receipts /\ flagged' \subseteq Accounts
        /\ UNCHANGED <<postVars, live, messages, now>>
    BY <1>13 DEF KeyExpires, SmsTypeOK
  <2>2. rate' \in [Accounts -> [count : Nat, expires : BOOLEAN]]
    <3>1. \/ rate' = rate
          \/ \E a \in Accounts : rate' = [rate EXCEPT ![a] = [count |-> 0, expires |-> FALSE]]
      BY <1>13 DEF KeyExpires
    <3>2. [count |-> 0, expires |-> FALSE] \in [count : Nat, expires : BOOLEAN]
      OBVIOUS
    <3>. QED
      BY <3>1, <3>2 DEF SmsTypeOK
  <2>3. verification' \in [Posts -> {"none", "manual_approval", "auto_approve", "delay_approve"}]
    BY <1>13 DEF KeyExpires, SmsTypeOK
  <2>. QED
    BY <2>1, <2>2, <2>3 DEF SmsTypeOK
<1>14. CASE UNCHANGED smsVars
  BY <1>14 DEF smsVars, SmsTypeOK
<1>. QED
  BY <1>1, <1>2, <1>3, <1>4, <1>5, <1>6, <1>7, <1>8, <1>9, <1>10, <1>11, <1>12,
     <1>13, <1>14
     DEF SmsNext, ProcessSMS

-----------------------------------------------------------------------------
(* The parser service: what a step can do to one post                      *)

\* The steps of a post, in the order of the code.
Follows(p) ==
    \/ pc[p] = "idle" /\ pc'[p] = "dedup"
    \/ pc[p] = "dedup" /\ pc'[p] = "check"
    \/ pc[p] = "check" /\ pc'[p] = "rate" /\ ~TooOld(sms[p])
    \/ pc[p] = "rate" /\ pc'[p] = "store"
    \/ pc[p] = "store" /\ pc'[p] = "match" /\ p \in messages'
    \/ pc[p] = "match" /\ pc'[p] = "amount"
    \/ pc[p] = "amount" /\ pc'[p] = "flag"
    \/ pc[p] = "flag" /\ pc'[p] = "save" /\ order[p] # NoOrder
    \/ pc'[p] \in {pc[p], "done"}

LEMMA PostStep ==
    ASSUME SmsTypeOK, [SmsNext]_smsVars, NEW p \in Posts
    PROVE  /\ Follows(p)
           /\ pc[p] = "idle" \/ sms'[p] = sms[p]
           /\ pc[p] = "dedup" \/ blind'[p] = blind[p]
           /\ p \in messages' => p \in messages \/ (pc[p] = "store" /\ pc'[p] = "match")
           /\ messages \subseteq messages'
<1>. USE SmsAssumption
     DEF SmsNext, smsVars, postVars, parserKeys, ProcessSMS, ReceiveSMS,
            IsDuplicate, LetThrough, CheckMessage,
            CheckRateAnomaly, StoreMessage, MatchOrder, ScoreAmount, ScoreAnomaly,
            StorePendingVerification, PostDies, OrderPlaced, OrderGone, ClockMoves,
            KeyExpires, Goto, Reply
<1>1. Follows(p)
  BY DEF SmsTypeOK, Follows, TooOld, Accepts, InWindow, Age
<1>2. pc[p] = "idle" \/ sms'[p] = sms[p]
  BY DEF SmsTypeOK
<1>3. pc[p] = "dedup" \/ blind'[p] = blind[p]
  BY DEF SmsTypeOK
<1>4. p \in messages' => p \in messages \/ (pc[p] = "store" /\ pc'[p] = "match")
  BY DEF SmsTypeOK
<1>5. messages \subseteq messages'
  OBVIOUS
<1>. QED
  BY <1>1, <1>2, <1>3, <1>4, <1>5

LEMMA OneMoves ==
    ASSUME SmsTypeOK, [SmsNext]_smsVars, NEW p \in Posts, NEW q \in Posts,
           pc'[p] # pc[p], pc'[q] # pc[q]
    PROVE  p = q
BY DEF SmsTypeOK, SmsNext, smsVars, postVars, parserKeys, ProcessSMS, ReceiveSMS,
       IsDuplicate, LetThrough, CheckMessage, CheckRateAnomaly, StoreMessage, MatchOrder,
       ScoreAmount, ScoreAnomaly, StorePendingVerification, PostDies, OrderPlaced,
       OrderGone, ClockMoves, KeyExpires, Goto, Reply

\* A post that the check lets through claims a hash that was free.
LEMMA ClaimStep ==
    ASSUME SmsTypeOK, [SmsNext]_smsVars, NEW p \in Posts,
           pc[p] = "dedup", pc'[p] = "check", ~blind'[p]
    PROVE  sms[p] \notin seen /\ seen' = seen \cup {sms[p]}
BY DEF SmsTypeOK, SmsNext, smsVars, postVars, parserKeys, ProcessSMS, ReceiveSMS,
       IsDuplicate, LetThrough,
       CheckMessage, CheckRateAnomaly, StoreMessage, MatchOrder, ScoreAmount,
       ScoreAnomaly, StorePendingVerification, PostDies, OrderPlaced, OrderGone,
       ClockMoves, KeyExpires, Goto, Reply

\* The clock goes forward, and a hash is only forgotten when it is too old.
LEMMA TimeStep ==
    ASSUME SmsTypeOK, [SmsNext]_smsVars, NEW r \in Receipts
    PROVE  /\ TooOld(r) => TooOld(r)'
           /\ r \in seen => r \in seen' \/ TooOld(r)'
<1>. USE SmsAssumption
     DEF SmsNext, smsVars, postVars, parserKeys, ProcessSMS, ReceiveSMS,
            IsDuplicate, LetThrough, CheckMessage,
            CheckRateAnomaly, StoreMessage, MatchOrder, ScoreAmount, ScoreAnomaly,
            StorePendingVerification, PostDies, OrderPlaced, OrderGone, ClockMoves,
            KeyExpires, Goto, Reply
<1>1. now' >= now
  BY DEF SmsTypeOK
<1>2. TooOld(r) => TooOld(r)'
  BY <1>1 DEF SmsTypeOK, TooOld, Age
<1>3. r \in seen => r \in seen' \/ TooOld(r)
  BY DEF SmsTypeOK, TooOld
<1>. QED
  BY <1>2, <1>3

\* What a match gives is an order of the key of the message, and what is left
\* for verification or answered as matched comes from the last step.
LEMMA MatchStep ==
    ASSUME SmsTypeOK, [SmsNext]_smsVars, NEW p \in Posts
    PROVE  /\ \/ order'[p] = order[p]
              \/ /\ pc[p] = "match" /\ pc'[p] = "amount"
                 /\ PlacedFor[order'[p]] = <<Account(p), AmountOf[sms[p]]>>
           /\ verification'[p] # "none" =>
                \/ verification[p] # "none"
                \/ pc[p] = "save" /\ pc'[p] = "done"
           /\ answer'[p] \in {"manual_approval", "pending_verification"} =>
                \/ answer'[p] = answer[p]
                \/ pc[p] = "save" /\ pc'[p] = "done"
<1>. USE SmsAssumption
     DEF SmsNext, smsVars, postVars, parserKeys, ProcessSMS, ReceiveSMS,
            IsDuplicate, LetThrough, CheckMessage,
            CheckRateAnomaly, StoreMessage, MatchOrder, ScoreAmount, ScoreAnomaly,
            StorePendingVerification, PostDies, OrderPlaced, OrderGone, ClockMoves,
            KeyExpires, Goto, Reply
<1>1. \/ order'[p] = order[p]
      \/ /\ pc[p] = "match" /\ pc'[p] = "amount"
         /\ PlacedFor[order'[p]] = <<Account(p), AmountOf[sms[p]]>>
  BY DEF SmsTypeOK, FindPendingOrder
<1>2. verification'[p] # "none" =>
        \/ verification[p] # "none"
        \/ pc[p] = "save" /\ pc'[p] = "done"
  BY DEF SmsTypeOK
<1>3. answer'[p] \in {"manual_approval", "pending_verification"} =>
        \/ answer'[p] = answer[p]
        \/ pc[p] = "save" /\ pc'[p] = "done"
  BY DEF SmsTypeOK
<1>. QED
  BY <1>1, <1>2, <1>3

LEMMA ScoreStep ==
    ASSUME SmsTypeOK, [SmsNext]_smsVars, NEW p \in Posts, pc'[p] = "flag"
    PROVE  \/ pc[p] = "flag" /\ score'[p] = score[p]
           \/ score'[p] <= 80
<1>1. (pc[p] = "flag" /\ score'[p] = score[p]) \/ ScoreAmount(p)
  BY DEF SmsTypeOK, SmsNext, smsVars, postVars, parserKeys, ProcessSMS, ReceiveSMS,
         IsDuplicate, LetThrough, CheckMessage, CheckRateAnomaly, StoreMessage, MatchOrder,
         ScoreAmount, ScoreAnomaly, StorePendingVerification, PostDies,
         OrderPlaced, OrderGone, ClockMoves, KeyExpires, Goto, Reply
<1>2. ScoreAmount(p) => score'[p] <= 80
  BY ScoresBounded DEF ScoreAmount, AmountScore, SmsTypeOK
<1>. QED
  BY <1>1, <1>2

-----------------------------------------------------------------------------
(* The parser service: the invariant                                       *)

LEMMA ClaimKeptStep ==
    ASSUME SmsInductive, [SmsNext]_smsVars, NEW p \in Posts
    PROVE  ClaimKept(p)'
<1>. SmsTypeOK /\ ClaimKept(p) /\ RowIsStored(p)
  BY DEF SmsInductive
<1>. SUFFICES ASSUME Passed(p)'
              PROVE  sms'[p] \in seen' \/ TooOld(sms[p])'
  BY DEF ClaimKept
<1>0. pc[p] # "idle" /\ sms'[p] = sms[p] /\ sms[p] \in Receipts
  BY PostStep DEF Passed, Follows, RowIsStored, SmsTypeOK
<1>1. CASE Passed(p)
  BY <1>0, <1>1, TimeStep DEF ClaimKept
<1>2. CASE ~Passed(p)
  <2>1. pc[p] = "dedup" /\ pc'[p] = "check" /\ ~blind'[p]
    BY <1>2, PostStep DEF Passed, Follows, RowIsStored
  <2>. QED
    BY <1>0, <2>1, ClaimStep
<1>. QED
  BY <1>1, <1>2

LEMMA OnlyOneGoesOnStep ==
    ASSUME SmsInductive, [SmsNext]_smsVars, NEW p \in Posts, NEW q \in Posts
    PROVE  OnlyOneGoesOn(p, q)'
<1>. /\ SmsTypeOK
     /\ ClaimKept(p) /\ ClaimKept(q) /\ RowIsStored(p) /\ RowIsStored(q)
     /\ OnlyOneGoesOn(p, q)
  BY DEF SmsInductive
<1>. SUFFICES ASSUME p # q, Passed(p)', Passed(q)', sms'[p] = sms'[q]
              PROVE  TooOld(sms[p])' /\ (pc'[p] = "check" \/ pc'[q] = "check")
  BY DEF OnlyOneGoesOn
<1>0. /\ sms'[p] = sms[p] /\ sms'[q] = sms[q]
      /\ sms[p] \in Receipts
  BY PostStep DEF Passed, Follows, RowIsStored, SmsTypeOK
<1>1. ASSUME NEW r \in {p, q}, ~Passed(r)
      PROVE  pc[r] = "dedup" /\ pc'[r] = "check" /\ sms[p] \notin seen
  <2>1. pc[r] = "dedup" /\ pc'[r] = "check" /\ ~blind'[r]
    BY <1>1, PostStep DEF Passed, Follows, RowIsStored
  <2>. QED
    BY <2>1, <1>0, ClaimStep
<1>2. CASE Passed(p) /\ Passed(q)
  <2>1. TooOld(sms[p]) /\ (pc[p] = "check" \/ pc[q] = "check")
    BY <1>0, <1>2 DEF OnlyOneGoesOn
  <2>2. TooOld(sms[p])'
    BY <1>0, <2>1, TimeStep
  <2>3. ASSUME NEW r \in {p, q}, pc[r] = "check"
        PROVE  pc'[r] = "check"
    BY <1>0, <2>1, <2>3, PostStep DEF Follows, Passed, RowIsStored
  <2>. QED
    BY <2>1, <2>2, <2>3
<1>3. CASE ~Passed(p) /\ ~Passed(q)
  BY <1>1, <1>3, OneMoves
<1>4. CASE ~Passed(p) /\ Passed(q)
  BY <1>0, <1>1, <1>4, TimeStep DEF ClaimKept
<1>5. CASE Passed(p) /\ ~Passed(q)
  BY <1>0, <1>1, <1>5, TimeStep DEF ClaimKept
<1>. QED
  BY <1>2, <1>3, <1>4, <1>5

LEMMA RowIsStoredStep ==
    ASSUME SmsInductive, [SmsNext]_smsVars, NEW p \in Posts
    PROVE  RowIsStored(p)'
BY PostStep DEF SmsInductive, RowIsStored, Follows

LEMMA OrderBackedStep ==
    ASSUME SmsInductive, [SmsNext]_smsVars, NEW p \in Posts
    PROVE  OrderBacked(p)'
<1>. /\ SmsTypeOK /\ OrderBacked(p) /\ RowIsStored(p)
     /\ \/ order'[p] = order[p]
        \/ /\ pc[p] = "match" /\ pc'[p] = "amount"
           /\ PlacedFor[order'[p]] = <<Account(p), AmountOf[sms[p]]>>
  BY MatchStep DEF SmsInductive
<1>1. order'[p] # NoOrder =>
        /\ PlacedFor[order'[p]] = <<Account(p), AmountOf[sms[p]]>>'
        /\ p \in messages'
        /\ pc'[p] \in {"amount", "flag", "save", "done"}
  BY PostStep DEF OrderBacked, RowIsStored, Follows, Account
<1>2. pc'[p] = "save" => order'[p] # NoOrder
  BY PostStep DEF OrderBacked, Follows
<1>3. verification'[p] # "none" \/ answer'[p] \in {"manual_approval", "pending_verification"}
        => pc'[p] = "done" /\ p \in messages' /\ order'[p] # NoOrder
  BY PostStep, MatchStep DEF OrderBacked, RowIsStored, Follows
<1>. QED
  BY <1>1, <1>2, <1>3 DEF OrderBacked

LEMMA SmsStep ==
    ASSUME SmsInductive, [SmsNext]_smsVars
    PROVE  SmsInductive'
<1>1. SmsTypeOK'
  BY SmsTypeStep
<1>2. ASSUME NEW p \in Posts
      PROVE  (ClaimKept(p) /\ RowIsStored(p) /\ OrderBacked(p) /\ ScoreSoFar(p))'
  BY <1>1, ClaimKeptStep, RowIsStoredStep, OrderBackedStep, ScoreStep
     DEF SmsInductive, ScoreSoFar
<1>3. ASSUME NEW p \in Posts, NEW q \in Posts
      PROVE  OnlyOneGoesOn(p, q)'
  BY OnlyOneGoesOnStep
<1>. QED
  BY <1>1, <1>2, <1>3 DEF SmsInductive

LEMMA SmsStart == SmsInit => SmsInductive
<1>. SUFFICES ASSUME SmsInit
              PROVE  SmsInductive
  OBVIOUS
<1>1. (CHOOSE r \in Receipts : TRUE) \in Receipts
  BY SmsAssumption
<1>2. SmsTypeOK
  BY <1>1, SmsAssumption DEF SmsInit, SmsTypeOK, PostSteps, Answers
<1>3. \A p \in Posts : ClaimKept(p) /\ RowIsStored(p) /\ OrderBacked(p) /\ ScoreSoFar(p)
  BY DEF SmsInit, ClaimKept, RowIsStored, OrderBacked, ScoreSoFar, Passed
<1>4. \A p, q \in Posts : OnlyOneGoesOn(p, q)
  BY DEF SmsInit, OnlyOneGoesOn, Passed
<1>. QED
  BY <1>2, <1>3, <1>4 DEF SmsInductive

-----------------------------------------------------------------------------
(* The bot: what a step changes                                            *)

\* Every action of the bot but the two that write the records and a restart.
LEMMA RecordsStep ==
    ASSUME [SlipNext]_slipVars
    PROVE  /\ UNCHANGED <<polling, repo>>
           /\ \/ UNCHANGED <<slips, kept, recorded>>
              \/ BotCrashes
              \/ \E u \in Updates : StoreResult(u) \/ AppendRecord(u)
BY DEF SlipNext, slipVars, taskVars, queueVars, recordVars, GetUpdates, BotCrashes,
       BeginUpdate, EndUpdate, HandleWebhook, HandleUpdate, ContextEnds, HandlePhoto,
       DownloadPhoto, GetByImageHash, EasySlip, GetByTransactionRef, InsertFails, StoreResult,
       AppendRecord, ReplyToGroup

LEMMA OneAtATimeStep ==
    ASSUME SlipInductive, [SlipNext]_slipVars, NEW u \in Updates
    PROVE  OneAtATime(u)'
<1>. USE DEF SlipTypeOK, taskVars, queueVars, Step, OneAtATime, IsFirst
<1>. SlipTypeOK /\ \A v \in Updates : OneAtATime(v)
  BY DEF SlipInductive
<1>1. ASSUME NEW v \in Updates, HandlePhoto(v)
      PROVE  OneAtATime(u)'
  BY <1>1
     DEF HandlePhoto, DownloadPhoto, GetByImageHash, EasySlip, GetByTransactionRef,
         LookupFails, InsertFails, StoreResult, AppendRecord, ReplyToGroup, Abort, Continue,
         Conclude
<1>2. ASSUME NEW v \in Updates, EndUpdate(v)
      PROVE  OneAtATime(u)'
  <2>1. u \in Nat /\ v \in Nat
    BY SlipAssumption
  <2>. QED
    BY <1>2, <2>1 DEF EndUpdate
<1>3. CASE GetUpdates
  BY <1>3 DEF GetUpdates
<1>4. CASE BotCrashes
  BY <1>4 DEF BotCrashes, Nowhere
<1>5. ASSUME NEW v \in Updates, BeginUpdate(v)
      PROVE  OneAtATime(u)'
  BY <1>5 DEF BeginUpdate, HandleUpdate
<1>6. ASSUME NEW v \in Updates, HandleWebhook(v) \/ ContextEnds(v)
      PROVE  OneAtATime(u)'
  BY <1>6 DEF HandleWebhook, HandleUpdate, ContextEnds
<1>7. CASE UNCHANGED slipVars
  BY <1>7 DEF slipVars
<1>. QED
  BY <1>1, <1>2, <1>3, <1>4, <1>5, <1>6, <1>7 DEF SlipNext

\* When the bot polls, nobody else is past the start of HandlePhoto.
LEMMA InHandAlone ==
    ASSUME SlipInductive, polling, NEW u \in Updates, NEW v \in Updates,
           step[u] \notin {"none", "done"}, step[v] \notin {"none", "done"}
    PROVE  u = v
<1>1. u \in Nat /\ v \in Nat
  BY SlipAssumption
<1>. QED
  BY <1>1 DEF SlipInductive, OneAtATime, IsFirst

-----------------------------------------------------------------------------
(* The bot: types                                                          *)

LEMMA RecordTrue ==
    ASSUME SlipInductive, NEW u \in Updates, AppendRecord(u)
    PROVE  TrueRecord([update |-> u, image |-> picture[u], ref |-> ref[u]], recorded')
BY DEF SlipInductive, SlipTypeOK, Known, AppendRecord, TrueRecord, Records, Pictures,
       Transfer

\* The records after an append are some of those before it, and the new one.
LEMMA AppendKeepsTrue ==
    ASSUME SlipInductive, NEW u \in Updates, AppendRecord(u)
    PROVE  slips' \in Seq(Records) /\ TrueRecords(slips)'
<1>. DEFINE r == [update |-> u, image |-> picture[u], ref |-> ref[u]]
<1>1. TrueRecord(r, recorded') /\ r \in Records
  BY RecordTrue DEF TrueRecord
<1>2. \A x : TrueRecord(x, recorded) => TrueRecord(x, recorded')
  BY DEF AppendRecord, TrueRecord
<1>3. /\ slips \in Seq(Records) /\ kept[u] \in Seq(Records)
      /\ TrueRecords(slips) /\ TrueRecords(kept[u])
  BY DEF SlipInductive, SlipTypeOK
<1>4. \/ slips' = Append(kept[u], r)
      \/ Len(kept[u]) <= Len(slips) /\ slips' = Append(SubSeq(slips, 1, Len(kept[u])), r)
  BY DEF AppendRecord
<1>. HIDE DEF r
<1>5. CASE slips' = Append(kept[u], r)
  BY <1>1, <1>2, <1>3, <1>5 DEF TrueRecords
<1>6. CASE /\ Len(kept[u]) <= Len(slips)
           /\ slips' = Append(SubSeq(slips, 1, Len(kept[u])), r)
  <2>. DEFINE head == SubSeq(slips, 1, Len(kept[u]))
  <2>1. /\ head \in Seq(Records) /\ Len(head) = Len(kept[u])
        /\ \A i \in 1 .. Len(head) : head[i] = slips[i] /\ i \in 1 .. Len(slips)
    BY <1>3, <1>6
  <2>. HIDE DEF head
  <2>2. slips' = Append(head, r)
    BY <1>6 DEF head
  <2>. QED
    BY <1>1, <1>2, <1>3, <2>1, <2>2 DEF TrueRecords
<1>. QED
  BY <1>4, <1>5, <1>6

LEMMA SlipTypeStep ==
    ASSUME SlipInductive, [SlipNext]_slipVars
    PROVE  SlipTypeOK'
<1>. USE DEF taskVars, queueVars, recordVars, Step
<1>. SlipTypeOK /\ \A u \in Updates : Known(u) /\ Appends(u)
  BY DEF SlipInductive
<1>1. CASE GetUpdates
  <2>1. PICK n \in {0} \cup Updates : fetched' = (1 .. n) \ confirmed'
    BY <1>1 DEF GetUpdates
  <2>2. fetched' \subseteq Updates
    BY <2>1, SlipAssumption
  <2>. QED
    BY <1>1, <2>2 DEF GetUpdates, SlipTypeOK
<1>2. CASE BotCrashes
  BY <1>2, SlipAssumption DEF BotCrashes, Nowhere, Refs, SlipTypeOK
<1>3. ASSUME NEW u \in Updates, BeginUpdate(u) \/ HandleWebhook(u)
      PROVE  SlipTypeOK'
  BY <1>3 DEF BeginUpdate, HandleWebhook, HandleUpdate, SlipTypeOK
<1>4. ASSUME NEW u \in Updates, EndUpdate(u)
      PROVE  SlipTypeOK'
  BY <1>4 DEF EndUpdate, SlipTypeOK
<1>5. ASSUME NEW u \in Updates, ContextEnds(u)
      PROVE  SlipTypeOK'
  BY <1>5 DEF ContextEnds, SlipTypeOK
<1>6. ASSUME NEW u \in Updates, DownloadPhoto(u)
      PROVE  SlipTypeOK'
  <2>1. picture' \in [Updates -> {"none"} \cup Pictures]
    <3>1. ImageOf[u] \in Pictures /\ ErrorPage \in Pictures
      BY DEF Pictures
    <3>2. UNCHANGED picture \/ \E p \in Pictures : picture' = [picture EXCEPT ![u] = p]
      BY <1>6, <3>1 DEF DownloadPhoto, Abort
    <3>. QED
      BY <3>2 DEF SlipTypeOK
  <2>2. UNCHANGED <<ref, accepted>> /\ step' \in [Updates -> {"none", "photo", "image",
          "easyslip", "ref", "store", "append", "reply", "done"}]
    BY <1>6 DEF DownloadPhoto, Abort, Continue, SlipTypeOK
  <2>3. reply' \in [Updates -> {"none", "error", "duplicate", "verified"}]
    BY <1>6 DEF DownloadPhoto, Abort, Continue, SlipTypeOK
  <2>. QED
    BY <1>6, <2>1, <2>2, <2>3 DEF DownloadPhoto, SlipTypeOK
<1>7. ASSUME NEW u \in Updates, GetByImageHash(u) \/ GetByTransactionRef(u)
      PROVE  SlipTypeOK'
  <2>1. [update |-> u, life |-> crashes] \in [update : Updates, life : 0 .. MaxCrashes]
    BY DEF SlipTypeOK
  <2>2. CASE GetByImageHash(u)
    BY <2>1, <2>2 DEF GetByImageHash, LookupFails, Abort, Continue, Conclude, SlipTypeOK
  <2>3. CASE GetByTransactionRef(u)
    BY <2>1, <2>3 DEF GetByTransactionRef, LookupFails, Abort, Conclude, SlipTypeOK
  <2>. QED
    BY <1>7, <2>2, <2>3
<1>8. ASSUME NEW u \in Updates, EasySlip(u)
      PROVE  SlipTypeOK'
  <2>1. step[u] = "easyslip" /\ picture[u] # ErrorPage => RefOf[picture[u]] \in Refs
    BY DEF Known, Refs
  <2>. QED
    BY <1>8, <2>1 DEF EasySlip, Continue, Conclude, SlipTypeOK
<1>9. ASSUME NEW u \in Updates, StoreResult(u) \/ ReplyToGroup(u)
      PROVE  SlipTypeOK'
  BY <1>9 DEF InsertFails, StoreResult, ReplyToGroup, SlipTypeOK
<1>10. ASSUME NEW u \in Updates, AppendRecord(u)
       PROVE  SlipTypeOK'
  <2>1. slips' \in Seq(Records)
    BY <1>10, AppendKeepsTrue
  <2>2. repo = "stub" /\ UNCHANGED repo
    BY <1>10 DEF AppendRecord, Appends
  <2>. QED
    BY <1>10, <2>1, <2>2 DEF AppendRecord, SlipTypeOK
<1>11. CASE UNCHANGED slipVars
  BY <1>11 DEF slipVars, SlipTypeOK
<1>. QED
  BY <1>1, <1>2, <1>3, <1>4, <1>5, <1>6, <1>7, <1>8, <1>9, <1>10, <1>11
     DEF SlipNext, HandlePhoto

-----------------------------------------------------------------------------
(* The bot: photos and records                                             *)

LEMMA HandledOnceStep ==
    ASSUME SlipInductive, [SlipNext]_slipVars, NEW u \in Updates
    PROVE  HandledOnce(u)'
<1>. USE DEF SlipTypeOK, taskVars, queueVars, recordVars, Step, HandledOnce
<1>. SlipTypeOK /\ \A v \in Updates : HandledOnce(v)
  BY DEF SlipInductive
<1>1. ASSUME NEW v \in Updates, HandlePhoto(v)
      PROVE  HandledOnce(u)'
  BY <1>1
     DEF HandlePhoto, DownloadPhoto, GetByImageHash, EasySlip, GetByTransactionRef,
         LookupFails, InsertFails, StoreResult, AppendRecord, ReplyToGroup, Abort, Continue,
         Conclude
<1>2. CASE GetUpdates \/ UNCHANGED slipVars
  BY <1>2 DEF GetUpdates, slipVars
<1>3. CASE BotCrashes
  BY <1>3 DEF BotCrashes, Nowhere
<1>4. ASSUME NEW v \in Updates,
             BeginUpdate(v) \/ EndUpdate(v) \/ HandleWebhook(v) \/ ContextEnds(v)
      PROVE  HandledOnce(u)'
  BY <1>4 DEF BeginUpdate, EndUpdate, HandleWebhook, HandleUpdate, ContextEnds
<1>. QED
  BY <1>1, <1>2, <1>3, <1>4 DEF SlipNext

LEMMA KnownStep ==
    ASSUME SlipInductive, [SlipNext]_slipVars, NEW u \in Updates
    PROVE  Known(u)'
<1>. USE DEF SlipTypeOK, taskVars, queueVars, recordVars, Step, Known, Transfer
<1>. SlipTypeOK /\ \A v \in Updates : Known(v)
  BY DEF SlipInductive
<1>1. ASSUME NEW v \in Updates, HandlePhoto(v)
      PROVE  Known(u)'
  BY <1>1
     DEF HandlePhoto, DownloadPhoto, GetByImageHash, EasySlip, GetByTransactionRef,
         LookupFails, InsertFails, StoreResult, AppendRecord, ReplyToGroup, Abort, Continue,
         Conclude
<1>2. CASE GetUpdates \/ UNCHANGED slipVars
  BY <1>2 DEF GetUpdates, slipVars
<1>3. CASE BotCrashes
  BY <1>3 DEF BotCrashes, Nowhere
<1>4. ASSUME NEW v \in Updates,
             BeginUpdate(v) \/ EndUpdate(v) \/ HandleWebhook(v) \/ ContextEnds(v)
      PROVE  Known(u)'
  BY <1>4 DEF BeginUpdate, EndUpdate, HandleWebhook, HandleUpdate, ContextEnds
<1>. QED
  BY <1>1, <1>2, <1>3, <1>4 DEF SlipNext

LEMMA AppendsStep ==
    ASSUME SlipInductive, [SlipNext]_slipVars, NEW u \in Updates
    PROVE  Appends(u)'
<1>. SlipTypeOK /\ \A v \in Updates : Appends(v)
  BY DEF SlipInductive
<1>1. CASE UNCHANGED <<slips, kept, recorded>>
  <2>1. step'[u] = "append" => step[u] = "append" \/ \E v \in Updates : StoreResult(v)
    BY DEF SlipNext, SlipTypeOK, slipVars, taskVars, queueVars, recordVars, Step, Nowhere,
           GetUpdates, BotCrashes, BeginUpdate, EndUpdate, HandleWebhook, HandleUpdate,
           ContextEnds, HandlePhoto, DownloadPhoto, GetByImageHash, EasySlip,
           GetByTransactionRef, LookupFails, InsertFails, StoreResult, AppendRecord, ReplyToGroup,
           Abort, Continue, Conclude
  <2>2. ASSUME NEW v \in Updates, StoreResult(v)
        PROVE  Appends(u)'
    BY <2>2 DEF InsertFails, StoreResult, Step, Appends, SlipTypeOK, queueVars
  <2>. QED
    BY <1>1, <2>1, <2>2, RecordsStep DEF Appends
<1>2. CASE BotCrashes
  BY <1>2 DEF BotCrashes, Nowhere, Appends
<1>3. ASSUME NEW v \in Updates, StoreResult(v)
      PROVE  Appends(u)'
  BY <1>3 DEF InsertFails, StoreResult, Step, Appends, SlipTypeOK, queueVars
<1>4. ASSUME NEW v \in Updates, AppendRecord(v)
      PROVE  Appends(u)'
  <2>1. step'[v] = "reply" /\ step[v] = "append" /\ UNCHANGED <<polling, repo>>
    BY <1>4 DEF AppendRecord, Step, SlipTypeOK, queueVars
  <2>2. u # v => step'[u] = step[u]
    BY <1>4 DEF AppendRecord, Step, SlipTypeOK
  <2>. QED
    BY <2>1, <2>2, InHandAlone DEF Appends
<1>. QED
  BY <1>1, <1>2, <1>3, <1>4, RecordsStep

LEMMA TrueRecordsStep ==
    ASSUME SlipInductive, [SlipNext]_slipVars
    PROVE  TrueRecords(slips)' /\ \A u \in Updates : TrueRecords(kept[u])'
<1>. SlipTypeOK /\ TrueRecords(slips) /\ \A u \in Updates : TrueRecords(kept[u])
  BY DEF SlipInductive
<1>1. CASE UNCHANGED <<slips, kept, recorded>>
  BY <1>1 DEF TrueRecords, TrueRecord
<1>2. CASE BotCrashes
  BY <1>2 DEF BotCrashes, TrueRecords
<1>3. ASSUME NEW v \in Updates, StoreResult(v)
      PROVE  TrueRecords(slips)' /\ \A u \in Updates : TrueRecords(kept[u])'
  <2>1. \A u \in Updates : kept'[u] \in {kept[u], slips}
    BY <1>3 DEF InsertFails, StoreResult, SlipTypeOK
  <2>2. UNCHANGED <<slips, recorded>>
    BY <1>3 DEF InsertFails, StoreResult
  <2>. QED
    BY <2>1, <2>2 DEF TrueRecords, TrueRecord
<1>4. ASSUME NEW v \in Updates, AppendRecord(v)
      PROVE  TrueRecords(slips)' /\ \A u \in Updates : TrueRecords(kept[u])'
  <2>1. TrueRecords(slips)'
    BY <1>4, AppendKeepsTrue
  <2>2. \A u \in Updates : kept'[u] \in {kept[u], <<>>}
    BY <1>4 DEF AppendRecord, SlipTypeOK
  <2>3. recorded \subseteq recorded'
    BY <1>4 DEF AppendRecord
  <2>4. ASSUME NEW u \in Updates
        PROVE  TrueRecords(kept[u])'
    <3>1. CASE kept'[u] = kept[u]
      BY <2>3, <3>1 DEF TrueRecords, TrueRecord
    <3>2. CASE kept'[u] = <<>>
      BY <3>2 DEF TrueRecords
    <3>. QED
      BY <2>2, <3>1, <3>2
  <2>. QED
    BY <2>1, <2>4
<1>. QED
  BY <1>1, <1>2, <1>3, <1>4, RecordsStep

-----------------------------------------------------------------------------
(* The bot: what is accepted                                               *)

\* A photo is accepted by GetByTransactionRef, before it has a record.
LEMMA AcceptStep ==
    ASSUME SlipTypeOK, [SlipNext]_slipVars
    PROVE  \/ UNCHANGED accepted
           \/ \E u \in Updates :
                /\ step[u] = "ref" /\ step'[u] = "store" /\ ~Stored("ref", ref[u])
                /\ accepted' = accepted \cup {[update |-> u, life |-> crashes]}
                /\ UNCHANGED <<slips, crashes, ref>>
<1>1. ASSUME NEW u \in Updates, GetByTransactionRef(u), ~UNCHANGED accepted
      PROVE  /\ step[u] = "ref" /\ step'[u] = "store" /\ ~Stored("ref", ref[u])
             /\ accepted' = accepted \cup {[update |-> u, life |-> crashes]}
             /\ UNCHANGED <<slips, crashes, ref>>
  BY <1>1
     DEF GetByTransactionRef, LookupFails, Abort, Conclude, Step, SlipTypeOK, queueVars
<1>2. UNCHANGED accepted \/ \E u \in Updates : GetByTransactionRef(u)
  BY DEF SlipNext, slipVars, recordVars, queueVars, taskVars, GetUpdates, BotCrashes,
         BeginUpdate, EndUpdate, HandleWebhook, HandleUpdate, ContextEnds, HandlePhoto,
         DownloadPhoto, GetByImageHash, EasySlip, LookupFails, InsertFails, StoreResult,
         AppendRecord, ReplyToGroup, Abort, Continue, Conclude
<1>. QED
  BY <1>1, <1>2

\* When the bot polls an append keeps every record, and adds the photo's own.
LEMMA AppendStep ==
    ASSUME SlipInductive, polling, NEW u \in Updates, AppendRecord(u)
    PROVE  /\ Stored("ref", ref[u])'
           /\ \A x : Stored("ref", x) => Stored("ref", x)'
<1>. DEFINE r == [update |-> u, image |-> picture[u], ref |-> ref[u]]
<1>1. slips \in Seq(Records) /\ kept[u] = slips
  BY DEF SlipInductive, SlipTypeOK, Appends, AppendRecord
<1>2. SubSeq(slips, 1, Len(slips)) = slips
  BY <1>1
<1>3. slips' = Append(slips, r) /\ r.ref = ref[u] /\ UNCHANGED ref
  BY <1>1, <1>2 DEF AppendRecord
<1>. HIDE DEF r
<1>4. /\ Len(slips') = Len(slips) + 1 /\ slips'[Len(slips) + 1] = r
      /\ \A i \in 1 .. Len(slips) : slips'[i] = slips[i]
  BY <1>1, <1>3
<1>5. Len(slips) \in Nat
  BY <1>1
<1>. QED
  BY <1>3, <1>4, <1>5 DEF Stored

\* A photo that waits for its record is left alone by the others.
LEMMA PhotoRests ==
    ASSUME SlipInductive, [SlipNext]_slipVars, ~BotCrashes,
           NEW u \in Updates, step[u] \in {"store", "append"},
           ~\E v \in Updates : StoreResult(v) \/ AppendRecord(v)
    PROVE  step'[u] = step[u] /\ ref'[u] = ref[u]
<1>. USE DEF SlipTypeOK, taskVars, Step
<1>. SlipTypeOK
  BY DEF SlipInductive
<1>1. ASSUME NEW v \in Updates, HandlePhoto(v)
      PROVE  step'[u] = step[u] /\ ref'[u] = ref[u]
  BY <1>1
     DEF HandlePhoto, DownloadPhoto, GetByImageHash, EasySlip, GetByTransactionRef,
         LookupFails, ReplyToGroup, Abort, Continue, Conclude
<1>2. CASE GetUpdates \/ UNCHANGED slipVars
  BY <1>2 DEF GetUpdates, slipVars
<1>3. ASSUME NEW v \in Updates,
             BeginUpdate(v) \/ EndUpdate(v) \/ HandleWebhook(v) \/ ContextEnds(v)
      PROVE  step'[u] = step[u] /\ ref'[u] = ref[u]
  BY <1>3 DEF BeginUpdate, EndUpdate, HandleWebhook, HandleUpdate, ContextEnds,
         SlipInductive, HandledOnce
<1>. QED
  BY <1>1, <1>2, <1>3 DEF SlipNext

LEMMA CoveredStep ==
    ASSUME SlipInductive, [SlipNext]_slipVars, NEW a \in accepted'
    PROVE  Covered(a)'
<1>. SlipTypeOK /\ (\A b \in accepted : Covered(b))
  BY DEF SlipInductive
<1>0. UNCHANGED <<polling, repo>>
  BY RecordsStep
<1>1. CASE a \notin accepted
  <2>1. PICK u \in Updates :
          /\ step[u] = "ref" /\ step'[u] = "store"
          /\ a = [update |-> u, life |-> crashes] /\ UNCHANGED <<crashes, ref>>
    BY <1>1, AcceptStep
  <2>2. ref[u] = Transfer(u) /\ crashes \in Nat
    BY <2>1, SlipAssumption DEF SlipInductive, Known, SlipTypeOK
  <2>. QED
    BY <2>1, <2>2 DEF Covered
<1>2. CASE a \in accepted
  <2>. a.update \in Updates /\ a.life \in Nat /\ crashes \in Nat /\ Covered(a)
    BY <1>2, SlipAssumption DEF SlipTypeOK
  <2>. DEFINE u == a.update
  <2>1. CASE BotCrashes
    BY <2>1 DEF BotCrashes, Covered
  <2>2. ASSUME NEW v \in Updates, AppendRecord(v)
        PROVE  Covered(a)'
    <3>1. UNCHANGED crashes /\ step[v] = "append" /\ (u # v => step'[u] = step[u])
      BY <2>2 DEF AppendRecord, queueVars, Step, SlipTypeOK
    <3>2. UNCHANGED ref
      BY <2>2 DEF AppendRecord
    <3>3. polling => /\ Stored("ref", ref[v])'
                     /\ \A x : Stored("ref", x) => Stored("ref", x)'
      BY <2>2, AppendStep
    <3>. QED
      BY <1>0, <3>1, <3>2, <3>3 DEF Covered
  <2>3. ASSUME NEW v \in Updates, StoreResult(v)
        PROVE  Covered(a)'
    <3>1. UNCHANGED <<crashes, ref, slips>>
      BY <2>3 DEF InsertFails, StoreResult, queueVars
    <3>2. repo = "stub" => step'[u] = step[u] \/ step'[u] = "append"
      BY <2>3 DEF InsertFails, StoreResult, Step, SlipTypeOK
    <3>3. \A x : Stored("ref", x)' <=> Stored("ref", x)
      BY <3>1 DEF Stored
    <3>. QED
      BY <1>0, <3>1, <3>2, <3>3 DEF Covered
  <2>4. CASE /\ UNCHANGED slips /\ ~BotCrashes
             /\ ~\E v \in Updates : StoreResult(v) \/ AppendRecord(v)
    <3>1. UNCHANGED crashes
      BY <2>4 DEF SlipNext, slipVars, taskVars, queueVars, GetUpdates, BeginUpdate, EndUpdate,
             HandleWebhook, ContextEnds, HandlePhoto, DownloadPhoto, GetByImageHash,
             EasySlip, GetByTransactionRef, ReplyToGroup
    <3>2. step[u] \in {"store", "append"} => step'[u] = step[u] /\ ref'[u] = ref[u]
      BY <2>4, PhotoRests
    <3>3. \A x : Stored("ref", x)' <=> Stored("ref", x)
      BY <2>4 DEF Stored
    <3>. QED
      BY <1>0, <3>1, <3>2, <3>3 DEF Covered
  <2>. QED
    BY <2>1, <2>2, <2>3, <2>4, RecordsStep
<1>. QED
  BY <1>1, <1>2

LEMMA AcceptedStep ==
    ASSUME SlipInductive, [SlipNext]_slipVars
    PROVE  TransferAcceptedOnce'
<1>. /\ SlipTypeOK /\ TransferAcceptedOnce
     /\ \A a \in accepted : Covered(a)
     /\ \A u \in Updates : Known(u)
  BY DEF SlipInductive
<1>0. UNCHANGED <<polling, repo>>
  BY RecordsStep
<1>1. CASE UNCHANGED accepted
  BY <1>0, <1>1 DEF TransferAcceptedOnce, TransferVerifiedOnce
<1>2. ASSUME NEW u \in Updates, step[u] = "ref", ~Stored("ref", ref[u]),
             accepted' = accepted \cup {[update |-> u, life |-> crashes]}
      PROVE  TransferAcceptedOnce'
  <2>1. ref[u] = Transfer(u)
    BY <1>2 DEF Known
  <2>2. ASSUME polling, repo = "stub",
               NEW b \in accepted, b.life = crashes, Transfer(b.update) = Transfer(u)
        PROVE  FALSE
    <3>1. b.update \in Updates /\ step[b.update] \in {"store", "append"}
      BY <1>2, <2>1, <2>2 DEF Covered, SlipTypeOK
    <3>2. b.update = u
      BY <1>2, <2>2, <3>1, InHandAlone
    <3>. QED
      BY <1>2, <3>1, <3>2
  <2>3. ASSUME polling, repo = "stub", NEW b \in accepted', NEW c \in accepted',
               b.life = c.life, Transfer(b.update) = Transfer(c.update)
        PROVE  b = c
    BY <1>2, <2>2, <2>3 DEF TransferAcceptedOnce, TransferVerifiedOnce
  <2>. QED
    BY <1>0, <2>3 DEF TransferAcceptedOnce, TransferVerifiedOnce
<1>. QED
  BY <1>1, <1>2, AcceptStep

-----------------------------------------------------------------------------
(* The bot: duplicates                                                     *)

\* A photo becomes a duplicate when its picture or its transfer is on record.
LEMMA DuplicateStep ==
    ASSUME SlipInductive, [SlipNext]_slipVars, NEW u \in Updates,
           reply'[u] = "duplicate"
    PROVE  \/ reply[u] = "duplicate" /\ picture'[u] = picture[u] /\ recorded \subseteq recorded'
           \/ /\ step[u] = "image" /\ Stored("image", picture[u])
              /\ UNCHANGED <<picture, recorded>>
           \/ /\ step[u] = "ref" /\ Stored("ref", ref[u])
              /\ UNCHANGED <<picture, recorded>>
<1>. SlipTypeOK /\ HandledOnce(u)
  BY DEF SlipInductive
<1>. USE DEF SlipTypeOK, taskVars, queueVars, recordVars, Step, HandledOnce
<1>1. ASSUME NEW v \in Updates, GetByImageHash(v) \/ GetByTransactionRef(v)
      PROVE  \/ reply[u] = "duplicate" /\ UNCHANGED <<picture, recorded>>
             \/ /\ step[u] = "image" /\ Stored("image", picture[u])
                /\ UNCHANGED <<picture, recorded>>
             \/ /\ step[u] = "ref" /\ Stored("ref", ref[u])
                /\ UNCHANGED <<picture, recorded>>
  BY <1>1
     DEF GetByImageHash, GetByTransactionRef, LookupFails, Abort, Continue, Conclude
<1>2. ASSUME NEW v \in Updates,
             \/ DownloadPhoto(v) \/ EasySlip(v) \/ StoreResult(v) \/ AppendRecord(v)
             \/ ReplyToGroup(v)
      PROVE  reply[u] = "duplicate" /\ picture'[u] = picture[u] /\ recorded \subseteq recorded'
  BY <1>2
     DEF DownloadPhoto, EasySlip, InsertFails, StoreResult, AppendRecord, ReplyToGroup, Abort,
         Continue, Conclude
<1>3. ASSUME NEW v \in Updates,
             BeginUpdate(v) \/ EndUpdate(v) \/ HandleWebhook(v) \/ ContextEnds(v)
      PROVE  reply[u] = "duplicate" /\ UNCHANGED <<picture, recorded>>
  BY <1>3 DEF BeginUpdate, EndUpdate, HandleWebhook, HandleUpdate, ContextEnds
<1>4. CASE GetUpdates \/ UNCHANGED slipVars
  BY <1>4 DEF GetUpdates, slipVars
<1>5. ~BotCrashes
  BY DEF BotCrashes, Nowhere
<1>. QED
  BY <1>1, <1>2, <1>3, <1>4, <1>5 DEF SlipNext, HandlePhoto

LEMMA OriginalsStep ==
    ASSUME SlipInductive, [SlipNext]_slipVars
    PROVE  DuplicateHasOriginal'
<1>. SUFFICES ASSUME NEW u \in Updates, reply'[u] = "duplicate", picture'[u] # ErrorPage,
                     Transfer(u) # NoRef
              PROVE  \E v \in recorded' \ {u} :
                        ImageOf[v] = ImageOf[u] \/ Transfer(v) = Transfer(u)
  BY DEF DuplicateHasOriginal, Transfer
<1>. /\ DuplicateHasOriginal /\ Known(u) /\ HandledOnce(u) /\ TrueRecords(slips)
     /\ SlipTypeOK
  BY DEF SlipInductive
<1>1. CASE reply[u] = "duplicate" /\ picture'[u] = picture[u] /\ recorded \subseteq recorded'
  BY <1>1 DEF DuplicateHasOriginal
<1>2. CASE step[u] = "image" /\ Stored("image", picture[u]) /\ UNCHANGED <<picture, recorded>>
  <2>1. picture[u] = ImageOf[u] /\ ImageOf[u] # ErrorPage /\ u \notin recorded
    BY <1>2, SlipAssumption DEF Known, HandledOnce
  <2>2. PICK i \in 1 .. Len(slips) : slips[i].image = ImageOf[u]
    BY <1>2, <2>1 DEF Stored
  <2>. QED
    BY <1>2, <2>1, <2>2 DEF TrueRecords, TrueRecord
<1>3. CASE step[u] = "ref" /\ Stored("ref", ref[u]) /\ UNCHANGED <<picture, recorded>>
  <2>1. ref[u] = Transfer(u) /\ u \notin recorded
    BY <1>3 DEF Known, HandledOnce
  <2>2. PICK i \in 1 .. Len(slips) : slips[i].ref = Transfer(u)
    BY <1>3, <2>1 DEF Stored
  <2>. QED
    BY <1>3, <2>1, <2>2 DEF TrueRecords, TrueRecord
<1>. QED
  BY <1>1, <1>2, <1>3, DuplicateStep

LEMMA SlipStep ==
    ASSUME SlipInductive, [SlipNext]_slipVars
    PROVE  SlipInductive'
<1>1. \A u \in Updates : (OneAtATime(u) /\ HandledOnce(u) /\ Known(u) /\ Appends(u))'
  BY OneAtATimeStep, HandledOnceStep, KnownStep, AppendsStep
<1>2. TrueRecords(slips)' /\ \A u \in Updates : TrueRecords(kept[u])'
  BY TrueRecordsStep
<1>3. (\A a \in accepted : Covered(a))'
  BY CoveredStep
<1>. QED
  BY <1>1, <1>2, <1>3, SlipTypeStep, AcceptedStep, OriginalsStep DEF SlipInductive

LEMMA SlipStart == SlipInit => SlipInductive
<1>. SUFFICES ASSUME SlipInit
              PROVE  SlipInductive
  OBVIOUS
<1>1. SlipTypeOK
  BY SlipAssumption DEF SlipInit, SlipTypeOK, Nowhere, Refs
<1>2. \A u \in Updates : OneAtATime(u) /\ HandledOnce(u) /\ Known(u) /\ Appends(u)
  BY DEF SlipInit, OneAtATime, HandledOnce, Known, Appends, Nowhere
<1>3. TrueRecords(slips) /\ \A u \in Updates : TrueRecords(kept[u])
  BY DEF SlipInit, TrueRecords
<1>4. /\ \A a \in accepted : Covered(a)
      /\ TransferAcceptedOnce /\ DuplicateHasOriginal
  BY DEF SlipInit, TransferAcceptedOnce, TransferVerifiedOnce, DuplicateHasOriginal, Nowhere
<1>. QED
  BY <1>1, <1>2, <1>3, <1>4 DEF SlipInductive

-----------------------------------------------------------------------------
(* The theorems                                                            *)

LEMMA Invariance == Spec => []Inductive
<1>1. Init => Inductive
  BY SmsStart, SlipStart DEF Init, Inductive
<1>2. Inductive /\ [Next]_vars => Inductive'
  <2>. SUFFICES ASSUME Inductive, [Next]_vars
                PROVE  Inductive'
    OBVIOUS
  <2>1. [SmsNext]_smsVars /\ [SlipNext]_slipVars /\ UNCHANGED channel
    BY OneOfEither
  <2>. QED
    BY <2>1, SmsStep, SlipStep DEF Inductive
<1>. QED
  BY <1>1, <1>2, PTL DEF Spec

\* TypeOK: every record keeps its shape, no score exceeds 100 and no offset or
\* record is of an update nobody posted.
THEOREM TypeCorrect == Spec => []TypeOK
BY Invariance, PTL DEF Inductive, SmsInductive, SlipInductive, TypeOK

\* StoredOnce: of the posts of one SMS, at most one gets a row through a
\* duplicate check that Redis answered (anomaly.go:136-204, sms_repo.go:122-159),
\* for any number of posts, whatever the clock, the expiry of the hash and the
\* stops of the service do in between.
THEOREM OneRowForEachClaim == Spec => []StoredOnce
<1>1. Inductive => StoredOnce
  <2>. SUFFICES ASSUME Inductive,
                       NEW p \in messages, NEW q \in messages,
                       sms[p] = sms[q], ~blind[p], ~blind[q], p # q
                PROVE  FALSE
    BY DEF StoredOnce
  <2>1. p \in Posts /\ q \in Posts
    BY DEF Inductive, SmsInductive, SmsTypeOK
  <2>. QED
    BY <2>1 DEF Inductive, SmsInductive, OnlyOneGoesOn, Passed, RowIsStored
<1>. QED
  BY <1>1, Invariance, PTL

\* MatchIsBacked: what waits for verification, or was answered as matched, has
\* its row and an order of the same account and amount (parser.go:455-545).
THEOREM MatchesAreBacked == Spec => []MatchIsBacked
<1>1. Inductive => MatchIsBacked
  BY DEF Inductive, SmsInductive, MatchIsBacked, OrderBacked
<1>. QED
  BY <1>1, Invariance, PTL

\* TransferAcceptedOnce: a bot that polls and keeps its records in memory verifies
\* one photo of a transfer between one start and the next (slip.go:58-229,
\* slip_repo.go:133-185), for any number of photos, failing calls, error pages and
\* updates that are delivered again.
THEOREM AcceptedOnce == Spec => []TransferAcceptedOnce
BY Invariance, PTL DEF Inductive, SlipInductive

\* DuplicateHasOriginal: a photo that is told "duplicate" had another one of its
\* picture or of its transfer recorded before it (slip.go:107-200), with any number
\* of photos at a time and whatever appends they undo of each other.
THEOREM DuplicatesHaveOriginals == Spec => []DuplicateHasOriginal
BY Invariance, PTL DEF Inductive, SlipInductive
=============================================================================
