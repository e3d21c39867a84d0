-------------------------------- MODULE Sms --------------------------------
(***************************************************************************)
(* The parser service: the SMS gateway posts every bank notification, and  *)
(* ProcessSMS claims its hash in Redis, refuses what it cannot attribute,  *)
(* counts the messages of the account, stores the row, looks for a pending *)
(* order, scores the message and leaves a pending_verification entry.      *)
(*                                                                         *)
(* Every call to Redis or PostgreSQL is a step of its own and may fail.    *)
(* Posts are the requests of the gateway: one SMS may be posted again, by  *)
(* a retry or twice at once, and a post may die with the service.          *)
(***************************************************************************)
EXTENDS Integers, Sequences

CONSTANTS
  Posts,            \* the POST /internal/sms requests
  Receipts,         \* the SMS messages (sender, text and received_at)
  Accounts,         \* the company's bank accounts
  Orders, NoOrder,  \* deposit orders
  SenderOf,         \* [Receipts -> {"listed", "padded", "foreign"}]
  BodyOf,           \* [Receipts -> {"credit", "garbled", "other"}]
  AccountOf,        \* [Receipts -> Accounts], the account of the sender
  AmountOf,         \* [Receipts -> Nat], the amount in the text
  PlacedFor,        \* [Orders -> Accounts \X Nat], the key of an order
  ReceivedAt,       \* [Receipts -> Nat], the minute the gateway gives
  RateLimit,        \* messages of an account in a minute
  HighValue,        \* the amount from which an operator decides
  MaxSMSAge,        \* the minutes after which a message is too old
  Horizon           \* bounds the clock

ASSUME SmsAssumption ==
  /\ Receipts # {}
  /\ SenderOf \in [Receipts -> {"listed", "padded", "foreign"}]
  /\ BodyOf \in [Receipts -> {"credit", "garbled", "other"}]
  /\ AccountOf \in [Receipts -> Accounts]
  /\ AmountOf \in [Receipts -> Nat] /\ ReceivedAt \in [Receipts -> Nat]
  /\ PlacedFor \in [Orders -> Accounts \X Nat]
  /\ NoOrder \notin Orders
  /\ {RateLimit, HighValue, MaxSMSAge, Horizon} \subseteq Nat

VARIABLES
  pc,               \* where every request is
  sms,              \* the SMS it posts
  order, score,     \* its matched order, its points so far
  answer,           \* its answer
  blind,            \* whether Redis left its duplicate check without an answer
  seen,             \* the sms_dup keys
  rate,             \* the sms_rate counters: value, and whether they expire
  flagged,          \* the sms_anomaly keys
  messages,         \* the rows of sms_messages, named by the post they are of
  live,             \* the orders that have a pending_order key
  verification,     \* the pending_verification entries, by SMS
  now               \* the service's clock

postVars  == <<pc, sms, order, score, answer, blind>>
parserKeys == <<seen, rate, flagged, live, verification>>
smsVars   == <<postVars, parserKeys, messages, now>>

Answers == {"none", "duplicate", "error", "retry", "unmatched",
            "manual_approval", "pending_verification"}

SmsInit ==
  /\ pc = [p \in Posts |-> "idle"]
  /\ sms = [p \in Posts |-> CHOOSE r \in Receipts : TRUE]
  /\ order = [p \in Posts |-> NoOrder]
  /\ score = [p \in Posts |-> 0]
  /\ answer = [p \in Posts |-> "none"]
  /\ blind = [p \in Posts |-> FALSE]
  /\ seen = {}
  /\ rate = [a \in Accounts |-> [count |-> 0, expires |-> FALSE]]
  /\ flagged = {}
  /\ messages = {}
  /\ live = {}
  /\ verification = [p \in Posts |-> "none"]
  /\ now = 0

-----------------------------------------------------------------------------
(* The decisions.                                                           *)

Account(p) == AccountOf[sms[p]]

\* The sender's own number after trimming; CanParse and the account map see
\* the same sender, but the map is asked with the text as it was posted.
IsKnownSender(r) == SenderOf[r] # "foreign"
FindParser(r) == BodyOf[r] # "other"
Parses(r) == BodyOf[r] = "credit"
IsMapped(r) == SenderOf[r] = "listed"

\* At most MaxSMSAge old, and at most one minute ahead of the clock; only a
\* message that is not ahead at all scores for its time.
Age(r) == now - ReceivedAt[r]
InWindow(r) == Age(r) \in -1 .. MaxSMSAge

Accepts(r) == IsKnownSender(r) /\ InWindow(r) /\ FindParser(r) /\ Parses(r) /\ IsMapped(r)

\* Mutant of FindPendingOrder: the key holds the account only.
OrderOfAccount(p) == {o \in live : PlacedFor[o][1] = Account(p)}

FindPendingOrder(p) == {o \in live : PlacedFor[o] = <<Account(p), AmountOf[sms[p]]>>}

\* The points of antispoof.go.
SenderScore(p) == IF IsKnownSender(sms[p]) THEN 30 ELSE 0
FormatScore(p) == IF Parses(sms[p]) THEN 30 ELSE 0
AmountScore == 20
TimestampScore(p) == IF Age(sms[p]) \in 0 .. MaxSMSAge THEN 10 ELSE 0
AnomalyScore == 10

Action(amount, points) ==
  CASE amount >= HighValue -> "manual_approval"
    [] amount < HighValue /\ points >= 80 -> "auto_approve"
    [] amount < HighValue /\ points \in 50 .. 79 -> "delay_approve"
    [] amount < HighValue /\ points < 50 -> "manual_approval"

Decision(p) == Action(AmountOf[sms[p]], score[p])
RequiresManualApproval(p) == Decision(p) = "manual_approval"

-----------------------------------------------------------------------------
(* The request.                                                             *)

Goto(p, step) == pc' = [pc EXCEPT ![p] = step]
Reply(p, ans) == Goto(p, "done") /\ answer' = [answer EXCEPT ![p] = ans]

ReceiveSMS(p) ==
  /\ pc[p] = "idle" /\ Goto(p, "dedup")
  /\ \E r \in Receipts : sms' = [sms EXCEPT ![p] = r]
  /\ UNCHANGED <<order, score, answer, blind, parserKeys, messages, now>>

\* An error of Redis lets the message through.
LetThrough(p) ==
  /\ Goto(p, "check")
  /\ blind' = [blind EXCEPT ![p] = TRUE]
  /\ UNCHANGED answer

\* Mutant of IsDuplicate: the hash is looked for and left for later.
IsDuplicateUnclaimed(p) ==
  /\ pc[p] = "dedup"
  /\ \/ LetThrough(p)
     \/ sms[p] \in seen /\ Reply(p, "duplicate") /\ UNCHANGED blind
     \/ sms[p] \notin seen /\ Goto(p, "check") /\ UNCHANGED <<answer, blind>>
  /\ UNCHANGED <<sms, order, score, parserKeys, messages, now>>

\* SETNX claims the hash before anything else is done with the message; when
\* its answer is lost the claim may have been made.
IsDuplicate(p) ==
  /\ pc[p] = "dedup"
  /\ \/ LetThrough(p) /\ seen' \in {seen, seen \union {sms[p]}}
     \/ sms[p] \in seen /\ Reply(p, "duplicate") /\ UNCHANGED <<blind, seen>>
     \/ /\ sms[p] \notin seen /\ seen' = seen \union {sms[p]}
        /\ Goto(p, "check") /\ UNCHANGED <<answer, blind>>
  /\ UNCHANGED <<sms, order, score, rate, flagged, live, verification, messages, now>>

CheckMessage(p) ==
  /\ pc[p] = "check"
  /\ \/ Accepts(sms[p]) /\ Goto(p, "rate") /\ UNCHANGED answer
     \/ ~Accepts(sms[p]) /\ Reply(p, "error")
  /\ UNCHANGED <<sms, order, score, blind, parserKeys, messages, now>>

\* Neither the result of EXPIRE nor that of setting the flag is looked at.
CheckRateAnomaly(p) ==
  LET a == Account(p)
      n == rate[a].count + 1
  IN /\ pc[p] = "rate" /\ Goto(p, "store")
     /\ \/ UNCHANGED <<rate, flagged>>
        \/ /\ \E ok \in BOOLEAN :
                rate' = [rate EXCEPT ![a] =
                           [count |-> n, expires |-> IF n = 1 THEN ok ELSE rate[a].expires]]
           /\ \/ n > RateLimit /\ flagged' = flagged \union {a}
              \/ UNCHANGED flagged
     /\ UNCHANGED <<sms, order, score, answer, blind, seen, live, verification, messages, now>>

\* The only failure the gateway is told about, so that it posts again.
StoreMessage(p) ==
  /\ pc[p] = "store"
  /\ \/ messages' = messages \union {p} /\ Goto(p, "match") /\ UNCHANGED answer
     \/ Reply(p, "retry") /\ UNCHANGED messages
  /\ UNCHANGED <<sms, order, score, blind, parserKeys, now>>

MatchOrder(p) ==
  /\ pc[p] = "match"
  /\ \/ Reply(p, "unmatched") /\ UNCHANGED order
     \/ /\ Goto(p, "amount") /\ UNCHANGED answer
        /\ \/ FindPendingOrder(p) = {} /\ UNCHANGED order
           \/ \E o \in FindPendingOrder(p) : order' = [order EXCEPT ![p] = o]
  /\ UNCHANGED <<sms, score, blind, parserKeys, messages, now>>

\* Evaluate looks the order up again: it may be gone, or be another one.
ScoreAmount(p) ==
  /\ pc[p] = "amount" /\ Goto(p, "flag")
  /\ \E points \in {0} \union {AmountScore : o \in FindPendingOrder(p)} :
       score' = [score EXCEPT ![p] = SenderScore(p) + FormatScore(p) + points]
  /\ UNCHANGED <<sms, order, answer, blind, parserKeys, messages, now>>

ScoreAnomaly(p) ==
  /\ pc[p] = "flag"
  /\ \E points \in {0} \union (IF Account(p) \in flagged THEN {} ELSE {AnomalyScore}) :
       score' = [score EXCEPT ![p] = score[p] + TimestampScore(p) + points]
  /\ \/ order[p] = NoOrder /\ Reply(p, "unmatched")
     \/ order[p] # NoOrder /\ Goto(p, "save") /\ UNCHANGED answer
  /\ UNCHANGED <<sms, order, blind, parserKeys, messages, now>>

\* The answer is the same whether the entry could be written or not.
StorePendingVerification(p) ==
  /\ pc[p] = "save"
  /\ Reply(p, IF RequiresManualApproval(p) THEN "manual_approval" ELSE "pending_verification")
  /\ \/ verification' = [verification EXCEPT ![p] = Decision(p)]
     \/ UNCHANGED verification
  /\ UNCHANGED <<sms, order, score, blind, seen, rate, flagged, live, messages, now>>

\* The service stops while it serves the request; the gateway gets no answer.
PostDies(p) ==
  /\ pc[p] \notin {"idle", "done"} /\ Goto(p, "done")
  /\ UNCHANGED <<sms, order, score, answer, blind, parserKeys, messages, now>>

-----------------------------------------------------------------------------
(* Redis' expirations, the clock, and the orders of the other services.     *)

\* A pending_order key holds one order: setting it replaces the order there.
OrderPlaced(o) ==
  /\ o \notin live
  /\ live' = {x \in live : PlacedFor[x] # PlacedFor[o]} \union {o}
  /\ UNCHANGED <<postVars, seen, rate, flagged, verification, messages, now>>

OrderGone(o) ==
  /\ o \in live
  /\ live' = live \ {o}
  /\ UNCHANGED <<postVars, seen, rate, flagged, verification, messages, now>>

ClockMoves ==
  /\ now < Horizon
  /\ now' = now + 1
  /\ UNCHANGED <<postVars, parserKeys, messages>>

\* The keys with a TTL: the hash lives for a day, so that its SMS is old then.
KeyExpires ==
  \/ /\ \E r \in seen : Age(r) > MaxSMSAge /\ seen' = seen \ {r}
     /\ UNCHANGED <<postVars, rate, flagged, messages, live, verification, now>>
  \/ /\ \E a \in Accounts :
          /\ rate[a].expires
          /\ rate' = [rate EXCEPT ![a] = [count |-> 0, expires |-> FALSE]]
     /\ UNCHANGED <<postVars, seen, flagged, messages, live, verification, now>>
  \/ /\ \E a \in flagged : flagged' = flagged \ {a}
     /\ UNCHANGED <<postVars, seen, rate, messages, live, verification, now>>
  \/ /\ \E p \in Posts :
          /\ verification[p] # "none"
          /\ verification' = [verification EXCEPT ![p] = "none"]
     /\ UNCHANGED <<postVars, seen, rate, flagged, messages, live, now>>

ProcessSMS(p) ==
  \/ ReceiveSMS(p) \/ IsDuplicate(p) \/ CheckMessage(p) \/ CheckRateAnomaly(p)
  \/ StoreMessage(p) \/ MatchOrder(p) \/ ScoreAmount(p) \/ ScoreAnomaly(p)
  \/ StorePendingVerification(p) \/ PostDies(p)

SmsNext ==
  \/ \E p \in Posts : ProcessSMS(p)
  \/ \E o \in Orders : OrderPlaced(o) \/ OrderGone(o)
  \/ ClockMoves
  \/ KeyExpires

-----------------------------------------------------------------------------
(* Properties.                                                              *)

PostSteps == {"idle", "dedup", "check", "rate", "store", "match", "amount", "flag", "save", "done"}

SmsTypeOK ==
  /\ pc \in [Posts -> PostSteps] /\ sms \in [Posts -> Receipts]
  /\ order \in [Posts -> Orders \union {NoOrder}] /\ score \in [Posts -> 0 .. 100]
  /\ answer \in [Posts -> Answers] /\ blind \in [Posts -> BOOLEAN]
  /\ seen \subseteq Receipts
  /\ rate \in [Accounts -> [count : Nat, expires : BOOLEAN]]
  /\ flagged \subseteq Accounts
  /\ messages \subseteq Posts
  /\ live \subseteq Orders
  /\ verification \in [Posts -> {"none", "manual_approval", "auto_approve", "delay_approve"}]
  /\ now \in 0 .. Horizon

\* However often the gateway posts an SMS, and however its posts overlap, at
\* most one of them gets a row through the duplicate check: a second row needs
\* a post whose check Redis did not answer. Neither a stop of the service nor
\* the expiry of the hash a day later lets another one through.
StoredOnce ==
  \A p, q \in messages : sms[p] = sms[q] /\ ~blind[p] /\ ~blind[q] => p = q

\* What waits for verification, or was answered as matched, is backed by a
\* stored SMS and an order of the same account and amount, even though the
\* order may have gone before the second look-up.
MatchIsBacked ==
  \A p \in Posts :
    verification[p] # "none" \/ answer[p] \in {"manual_approval", "pending_verification"} =>
      /\ p \in messages
      /\ order[p] # NoOrder
      /\ PlacedFor[order[p]] = <<Account(p), AmountOf[sms[p]]>>
=============================================================================
