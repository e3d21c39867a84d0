------------------------------- MODULE Webhook -------------------------------
(***************************************************************************)
(* The notification service, services/notification/internal/service:       *)
(* webhooks to merchants.  A request delivers its webhook at once; when    *)
(* that fails, the payload is stored in Redis and its key is put into a    *)
(* sorted set, from which the retry worker of each instance of the service *)
(* takes the keys that are due.  Nothing is stored before a first failure, *)
(* a key that was taken is in no queue, and the context of the request is  *)
(* cancelled when its client gives up, which makes every further call of   *)
(* the request fail.                                                       *)
(***************************************************************************)
EXTENDS Naturals

CONSTANTS
    Webhooks,     \* the requests to send one, each with its own payload
    Keys, KeyOf,  \* "merchant:order" of each webhook
    Workers,      \* the retry workers, one for each instance of the service
    MaxAttempts,  \* maxWebhookAttempts
    None          \* no payload

\* What WebhookPayload keeps between two attempts.
Payload == [webhook: Webhooks, attempt: Nat]

ASSUME WebhookAssumption ==
    /\ KeyOf \in [Webhooks -> Keys]
    /\ Webhooks \cap Workers = {}
    /\ MaxAttempts \in Nat \ {0}
    /\ None \notin Payload \cup Keys

VARIABLES
    queue,      \* Redis webhook_retry_queue: its members
    due,        \* the members whose score has passed
    data,       \* Redis webhook_data:{key}
    delivered,  \* Redis webhook_delivered:{key}
    exhausted,  \* Redis webhook_exhausted:{key}
    alerts,     \* the webhooks whose exhaustion was reported over Telegram
    gone,       \* the requests whose client gave up
    wp, wpc,    \* of each request and worker: its payload and its next call
    batch,      \* the keys each worker has yet to claim
    claimed,    \* the key each worker has claimed and not yet loaded
    response,   \* the handler's answer: 200 "delivered" or 202 "retry_scheduled"
    tries,      \* history: the attempts made for each webhook
    acked,      \* history: the webhooks with a 2xx that arrived
    planned     \* history: the webhooks whose retry was put into the queue

redisVars == <<queue, due, data, delivered, exhausted>>

historyVars == <<tries, acked, planned>>

workerVars == <<batch, claimed>>

webhookVars == <<redisVars, alerts, gone, wp, wpc, workerVars, response, historyVars>>

Procs == Webhooks \cup Workers

Steps == {"idle", "next", "load", "post", "store", "enqueue", "exhaust", "drop",
          "alert", "forget", "receipt", "done"}

-----------------------------------------------------------------------------
(* Helpers                                                                 *)

Proceed(p, step) == wpc' = [wpc EXCEPT ![p] = step]

Counting(x) == [webhook |-> x.webhook, attempt |-> x.attempt + 1]

Key(p) == KeyOf[wp[p].webhook]

\* The worker goes on with its batch, the handler answers.
End(p, answer) ==
    /\ wp' = [wp EXCEPT ![p] = None]
    /\ IF p \in Workers
         THEN Proceed(p, "next") /\ UNCHANGED response
         ELSE Proceed(p, "done") /\ response' = [response EXCEPT ![p] = answer]

\* The context of p is cancelled: its calls fail before they are made.
Cancelled(p) == p \in gone

\* p's command reaches Redis, and p learns of it or not.
Returns(p, next) ==
    /\ ~ Cancelled(p)
    /\ \/ Proceed(p, next) /\ UNCHANGED <<wp, response>>
       \/ End(p, "accepted")

-----------------------------------------------------------------------------
WebhookInit ==
    /\ queue = {} /\ due = {}
    /\ data = [k \in Keys |-> None]
    /\ delivered = {} /\ exhausted = {} /\ alerts = {}
    /\ gone = {}
    /\ wp = [p \in Procs |-> None]
    /\ wpc = [p \in Procs |-> "idle"]
    /\ batch = [w \in Workers |-> {}]
    /\ claimed = [w \in Workers |-> None]
    /\ response = [i \in Webhooks |-> "none"]
    /\ tries = [i \in Webhooks |-> 0]
    /\ acked = {} /\ planned = {}

(* SendWebhook *)

SendWebhook(i) ==
    /\ wpc[i] = "idle"
    /\ wp' = [wp EXCEPT ![i] = [webhook |-> i, attempt |-> 0]]
    /\ Proceed(i, "post")
    /\ UNCHANGED <<redisVars, alerts, gone, workerVars, response, historyVars>>

(* deliver and scheduleRetry *)

\* Mutant of Delivered: any answer of the merchant is a success.
DeliveredAnyhow(p) ==
    /\ Proceed(p, IF p \in Workers THEN "forget" ELSE "receipt")
    /\ UNCHANGED <<wp, acked>>

\* A 2xx of the merchant arrives in time.
Delivered(p) ==
    /\ ~ Cancelled(p)
    /\ acked' = acked \cup {wp[p].webhook}
    /\ Proceed(p, IF p \in Workers THEN "forget" ELSE "receipt")
    /\ UNCHANGED wp

\* Everything else, a lost 2xx and a cancelled context included: scheduleRetry counts the
\* attempt and looks at the limit.
Failed(p) ==
    /\ wp' = [wp EXCEPT ![p] = Counting(@)]
    /\ Proceed(p, IF wp[p].attempt + 1 >= MaxAttempts THEN "exhaust" ELSE "store")
    /\ UNCHANGED acked

\* One POST to the merchant.
Deliver(p) ==
    /\ wpc[p] = "post"
    /\ tries' = [tries EXCEPT ![wp[p].webhook] = @ + 1]
    /\ Delivered(p) \/ Failed(p)
    /\ UNCHANGED <<redisVars, alerts, gone, workerVars, response, planned>>

\* SET webhook_data:{key}.
Store(p) ==
    /\ wpc[p] = "store"
    /\ data' = [data EXCEPT ![Key(p)] = wp[p]]
    /\ Returns(p, "enqueue")
    /\ UNCHANGED <<queue, due, delivered, exhausted, alerts, gone, workerVars, historyVars>>

\* ZADD webhook_retry_queue: the member gets the time of the next attempt.  Then
\* scheduleRetry returns nil, and SendWebhook with it: the handler answers 200
\* "delivered".  Only a request that lost the answer of Redis says 202.
Enqueue(p) ==
    /\ wpc[p] = "enqueue"
    /\ ~ Cancelled(p)
    /\ queue' = queue \cup {Key(p)}
    /\ due' = due \ {Key(p)}
    /\ planned' = planned \cup {wp[p].webhook}
    /\ End(p, "ok") \/ End(p, "accepted")
    /\ UNCHANGED <<data, delivered, exhausted, alerts, gone, workerVars, tries, acked>>

\* markExhausted: SET webhook_exhausted:{key}, then DEL webhook_data:{key},
\* whose error is dropped.
MarkExhausted(p) ==
    /\ wpc[p] = "exhaust"
    /\ ~ Cancelled(p)
    /\ exhausted' = exhausted \cup {Key(p)}
    /\ Proceed(p, "drop") \/ Proceed(p, "alert")
    /\ UNCHANGED <<queue, due, data, delivered, alerts, gone, wp, workerVars, response,
                   historyVars>>

DropData(p) ==
    /\ wpc[p] = "drop"
    /\ \/ ~ Cancelled(p) /\ data' = [data EXCEPT ![Key(p)] = None]
       \/ UNCHANGED data
    /\ Proceed(p, "alert")
    /\ UNCHANGED <<queue, due, delivered, exhausted, alerts, gone, wp, workerVars, response,
                   historyVars>>

\* SendSecurityAlert, with its error dropped.
Alert(p) ==
    /\ wpc[p] = "alert"
    /\ \/ ~ Cancelled(p) /\ alerts' = alerts \cup {wp[p].webhook}
       \/ UNCHANGED alerts
    /\ End(p, "accepted")
    /\ UNCHANGED <<redisVars, gone, workerVars, historyVars>>

\* A retry succeeded: DEL webhook_data:{key}, with its error dropped.
ForgetData(w) ==
    /\ wpc[w] = "forget"
    /\ data' \in {data, [data EXCEPT ![Key(w)] = None]}
    /\ Proceed(w, "receipt")
    /\ UNCHANGED <<queue, due, delivered, exhausted, alerts, gone, wp, workerVars, response,
                   historyVars>>

\* markDelivered.  A request that lost the answer of Redis says 202, although the
\* merchant has acknowledged and nothing is retried.
MarkDelivered(p) ==
    /\ wpc[p] = "receipt"
    /\ ~ Cancelled(p)
    /\ delivered' = delivered \cup {Key(p)}
    /\ End(p, "ok") \/ End(p, "accepted")
    /\ UNCHANGED <<queue, due, data, exhausted, alerts, gone, workerVars, historyVars>>

\* The command fails without an effect.  The error of MarkExhausted is dropped,
\* any other is answered 202, although no retry was scheduled.
CommandFails(p) ==
    /\ \/ wpc[p] \in {"store", "enqueue", "receipt"} /\ End(p, "accepted")
       \/ wpc[p] = "exhaust" /\ Proceed(p, "alert") /\ UNCHANGED <<wp, response>>
    /\ UNCHANGED <<redisVars, alerts, gone, workerVars, historyVars>>

-----------------------------------------------------------------------------
(* pollAndRetry and RetryWebhook *)

\* ZRANGEBYSCORE -inf now, at most retryBatchSize of them.
Poll(w) ==
    /\ wpc[w] = "idle"
    /\ \E keys \in SUBSET (queue \cap due) \ {{}} : batch' = [batch EXCEPT ![w] = keys]
    /\ Proceed(w, "next")
    /\ UNCHANGED <<redisVars, alerts, gone, wp, claimed, response, historyVars>>

BatchDone(w) ==
    /\ wpc[w] = "next"
    /\ batch[w] = {}
    /\ Proceed(w, "idle")
    /\ UNCHANGED <<redisVars, alerts, gone, wp, workerVars, response, historyVars>>

\* Mutant of Remove: the member stays until the retry is over.
RemoveLater(k) == due' = due \ {k} /\ UNCHANGED queue

Remove(k) == queue' = queue \ {k} /\ due' = due \ {k}

\* Mutant of Claim: the count that ZREM returns is not looked at.
ClaimUncounted(w, k) ==
    /\ wpc[w] = "next"
    /\ k \in batch[w]
    /\ batch' = [batch EXCEPT ![w] = @ \ {k}]
    /\ Remove(k)
    /\ claimed' = [claimed EXCEPT ![w] = k]
    /\ Proceed(w, "load")
    /\ UNCHANGED <<data, delivered, exhausted, alerts, gone, wp, response, historyVars>>

\* ZREM webhook_retry_queue: who removes the member works on it.  A worker that
\* learns of an error goes on with its batch, whether the member is gone or not.
Claim(w, k) ==
    /\ wpc[w] = "next"
    /\ k \in batch[w]
    /\ batch' = [batch EXCEPT ![w] = @ \ {k}]
    /\ \/ /\ k \in queue
          /\ Remove(k)
          /\ \/ claimed' = [claimed EXCEPT ![w] = k] /\ Proceed(w, "load")
             \/ UNCHANGED <<claimed, wpc>>
       \/ UNCHANGED <<queue, due, claimed, wpc>>
    /\ UNCHANGED <<data, delivered, exhausted, alerts, gone, wp, response, historyVars>>

\* Mutant of Load: the error of a GET that finds nothing is dropped.
LoadUnchecked(w) ==
    /\ wpc[w] = "load"
    /\ wp' = [wp EXCEPT ![w] = data[claimed[w]]]
    /\ claimed' = [claimed EXCEPT ![w] = None]
    /\ Proceed(w, "post")
    /\ UNCHANGED <<redisVars, alerts, gone, batch, response, historyVars>>

\* GET webhook_data:{key}.  When it finds nothing or fails the webhook is in no
\* queue any more.
Load(w) ==
    /\ wpc[w] = "load"
    /\ claimed' = [claimed EXCEPT ![w] = None]
    /\ \/ /\ data[claimed[w]] # None
          /\ wp' = [wp EXCEPT ![w] = data[claimed[w]]]
          /\ Proceed(w, "post")
       \/ UNCHANGED wp /\ Proceed(w, "next")
    /\ UNCHANGED <<redisVars, alerts, gone, batch, response, historyVars>>

-----------------------------------------------------------------------------
(* Time and failures *)

Elapse(k) ==
    /\ k \in queue \ due
    /\ due' = due \cup {k}
    /\ UNCHANGED <<queue, data, delivered, exhausted, alerts, gone, wp, wpc, workerVars,
                   response, historyVars>>

\* The time to live of a payload, 24 hours, is over.
DataExpires(k) ==
    /\ data' = [data EXCEPT ![k] = None]
    /\ UNCHANGED <<queue, due, delivered, exhausted, alerts, gone, wp, wpc, workerVars,
                   response, historyVars>>

\* The client of a request gives up, which the merchant's silence is enough
\* for: both time out after ten seconds.
ClientGivesUp(i) ==
    /\ wpc[i] \notin {"idle", "done"}
    /\ gone' = gone \cup {i}
    /\ UNCHANGED <<redisVars, alerts, wp, wpc, workerVars, response, historyVars>>

\* The service stops or dies and starts again: the request is cut short, the
\* worker begins anew.
Crash(p) ==
    /\ wpc[p] \notin {"idle", "done"}
    /\ wp' = [wp EXCEPT ![p] = None]
    /\ IF p \in Workers
         THEN /\ Proceed(p, "idle")
              /\ batch' = [batch EXCEPT ![p] = {}]
              /\ claimed' = [claimed EXCEPT ![p] = None]
         ELSE Proceed(p, "done") /\ UNCHANGED workerVars
    /\ UNCHANGED <<redisVars, alerts, gone, response, historyVars>>

Attempt(p) ==
    \/ Deliver(p) \/ Store(p) \/ Enqueue(p) \/ MarkExhausted(p) \/ DropData(p)
    \/ Alert(p) \/ MarkDelivered(p) \/ CommandFails(p) \/ Crash(p)

Work(w) ==
    \/ Poll(w) \/ BatchDone(w) \/ Load(w) \/ ForgetData(w)
    \/ \E k \in batch[w] : Claim(w, k)

WebhookNext ==
    \/ \E p \in Procs : Attempt(p)
    \/ \E w \in Workers : Work(w)
    \/ \E i \in Webhooks : SendWebhook(i) \/ ClientGivesUp(i)
    \/ \E k \in Keys : Elapse(k) \/ DataExpires(k)

WebhookSpec == WebhookInit /\ [][WebhookNext]_webhookVars

-----------------------------------------------------------------------------
(* Properties                                                              *)

WebhookTypeOK ==
    /\ queue \subseteq Keys /\ due \subseteq queue
    /\ data \in [Keys -> Payload \cup {None}]
    /\ delivered \subseteq Keys /\ exhausted \subseteq Keys
    /\ alerts \subseteq Webhooks /\ gone \subseteq Webhooks
    /\ wp \in [Procs -> Payload \cup {None}]
    /\ wpc \in [Procs -> Steps]
    /\ \A p \in Procs : (wp[p] = None) = (wpc[p] \in {"idle", "next", "load", "done"})
    /\ batch \in [Workers -> SUBSET Keys]
    /\ claimed \in [Workers -> Keys \cup {None}]
    /\ \A w \in Workers : (claimed[w] # None) = (wpc[w] = "load")
    /\ response \in [Webhooks -> {"none", "ok", "accepted"}]
    /\ tries \in [Webhooks -> Nat]
    /\ acked \subseteq Webhooks /\ planned \subseteq Webhooks

\* No two webhooks are about the same order.
OneWebhookPerOrder == \A i, j \in Webhooks : KeyOf[i] = KeyOf[j] => i = j

\* "Max attempts: 5 (1 initial + 4 retries)" (docs/api/webhook.md): however the
\* payload, the queue and the workers get out of step, a webhook is attempted
\* no more often.
AttemptsBounded == \A i \in Webhooks : tries[i] <= MaxAttempts

\* The process p works on webhook i, or is about to.
WorksOn(p, i) ==
    \/ wp[p] # None /\ wp[p].webhook = i
    \/ p \in Workers /\ wpc[p] = "load" /\ claimed[p] = KeyOf[i]

\* A webhook is in one pair of hands: two workers never deliver it at the same
\* time, and while it is in the queue nobody does (retry.go:140-152).
OneOwner ==
    \A i \in Webhooks :
        /\ \A p, q \in Procs : WorksOn(p, i) /\ WorksOn(q, i) => p = q
        /\ KeyOf[i] \in queue => \A p \in Procs : ~ WorksOn(p, i)

\* What operations read in Redis and on Telegram is so: a receipt means that the
\* merchant acknowledged, an exhaustion that every attempt was made and failed.
\* A 200 means that the merchant acknowledged or that a retry was queued.
OutcomeIsTrue ==
    \A i \in Webhooks :
        /\ KeyOf[i] \in delivered => i \in acked
        /\ KeyOf[i] \in exhausted \/ i \in alerts => i \notin acked /\ tries[i] = MaxAttempts
        /\ response[i] = "ok" => i \in acked \cup planned

\* "Webhook was delivered successfully on the first attempt" says the comment on
\* the answer 200 "delivered" (notification_handler.go:212): whoever reads it
\* takes the merchant for informed.
DeliveredIsAcknowledged == \A i \in Webhooks : response[i] = "ok" => i \in acked

\* A webhook whose acknowledgement the service has seen is not sent again.
NotSentAgain == [][\A i \in acked : tries'[i] = tries[i]]_webhookVars

\* What makes these inductive.  A webhook that is queued, claimed or about to be
\* posted still has an attempt left, and the number that travels with it through
\* Redis is the number of attempts that were made.
Waiting(i) ==
    \/ KeyOf[i] \in queue
    \/ \E w \in Workers : claimed[w] = KeyOf[i]

Counted(p) ==
    LET i == wp[p].webhook IN
    wp[p] # None =>
        /\ p \in Webhooks => p = i
        /\ wpc[p] \in {"forget", "receipt"} => i \in acked
        /\ wpc[p] \notin {"forget", "receipt"} =>
               i \notin acked /\ wp[p].attempt = tries[i]
        /\ wpc[p] \in {"post", "store", "enqueue"} => tries[i] < MaxAttempts
        /\ wpc[p] \in {"exhaust", "drop", "alert"} => tries[i] = MaxAttempts
        /\ wpc[p] = "enqueue" /\ data[KeyOf[i]] # None => data[KeyOf[i]].attempt = tries[i]

Matches(k) == data[k] # None => KeyOf[data[k].webhook] = k

HasAttempts(i) ==
    Waiting(i) =>
        /\ i \notin acked
        /\ tries[i] < MaxAttempts
        /\ data[KeyOf[i]] # None => data[KeyOf[i]].attempt = tries[i]

Fresh(i) ==
    wpc[i] = "idle" =>
        /\ tries[i] = 0 /\ i \notin acked
        /\ ~ Waiting(i)
        /\ \A p \in Procs : ~ WorksOn(p, i)

Inductive ==
    /\ OneOwner
    /\ OutcomeIsTrue
    /\ AttemptsBounded
    /\ \A p \in Procs : Counted(p)
    /\ \A k \in Keys : Matches(k)
    /\ \A i \in Webhooks : HasAttempts(i) /\ Fresh(i)

\* An order that is completed twice is announced twice, by two webhooks with one
\* key: they overwrite each other's payload and count.  What still holds then:
\* a receipt, an exhaustion and an alert have their cause in some webhook of the
\* order, and no copy of a payload is posted once it has used up its attempts.
OutcomeHasCause ==
    /\ \A k \in delivered : \E i \in acked : KeyOf[i] = k
    /\ \A k \in exhausted : \E i \in Webhooks : KeyOf[i] = k /\ tries[i] >= MaxAttempts
    /\ \A i \in alerts : tries[i] >= MaxAttempts
    /\ \A i \in Webhooks : response[i] = "ok" => i \in acked \cup planned
    /\ \A p \in Procs : wpc[p] = "post" => wp[p].attempt < MaxAttempts

\* What makes it inductive: a count that travels is never ahead of the attempts.
CountBehind(x) == x.attempt <= tries[x.webhook]

PayloadCaused(p) ==
    wp[p] # None =>
        /\ CountBehind(wp[p])
        /\ p \in Webhooks => wp[p].webhook = p
        /\ wpc[p] \in {"forget", "receipt"} => wp[p].webhook \in acked
        /\ wpc[p] \in {"exhaust", "drop", "alert"} => wp[p].attempt >= MaxAttempts
        /\ wpc[p] \in {"post", "store", "enqueue"} => wp[p].attempt < MaxAttempts

DataCaused(k) ==
    data[k] # None =>
        /\ Matches(k)
        /\ CountBehind(data[k])
        /\ data[k].attempt < MaxAttempts

Caused ==
    /\ OutcomeHasCause
    /\ \A p \in Procs : PayloadCaused(p)
    /\ \A k \in Keys : DataCaused(k)
=============================================================================
