---------------------------- MODULE WebhookProofs ----------------------------
(***************************************************************************)
(* What holds of Webhook for any number of webhooks, workers and attempts, *)
(* provided that no two webhooks are about the same order; OutcomesHave-   *)
(* Causes, at the end, also when they are.                                 *)
(***************************************************************************)
EXTENDS Webhook, TLAPS

-----------------------------------------------------------------------------
(* Type correctness                                                        *)

LEMMA PayloadFields ==
    /\ \A i \in Webhooks, n \in Nat : [webhook |-> i, attempt |-> n] \in Payload
    /\ \A x \in Payload : /\ x.webhook \in Webhooks
                          /\ x.attempt \in Nat
                          /\ x # None
                          /\ KeyOf[x.webhook] \in Keys
                          /\ Counting(x) \in Payload
                          /\ Counting(x).webhook = x.webhook
                          /\ Counting(x).attempt = x.attempt + 1
BY WebhookAssumption DEF Payload, Counting

LEMMA InitType == WebhookInit => WebhookTypeOK
BY WebhookAssumption DEF WebhookInit, WebhookTypeOK, Steps, Procs

LEMMA TypeStep ==
    ASSUME WebhookTypeOK, [WebhookNext]_webhookVars
    PROVE  WebhookTypeOK'
<1>. USE DEF redisVars, historyVars, workerVars, Proceed
<1>1. ASSUME NEW i \in Webhooks, SendWebhook(i)
      PROVE  WebhookTypeOK'
  BY <1>1, PayloadFields, WebhookAssumption DEF SendWebhook, WebhookTypeOK, Procs, Steps
<1>2. ASSUME NEW p \in Procs, Deliver(p)
      PROVE  WebhookTypeOK'
  <2>1. wp[p] \in Payload /\ Counting(wp[p]) \in Payload
    BY <1>2, PayloadFields DEF Deliver, WebhookTypeOK
  <2>2. CASE Delivered(p)
    BY <1>2, <2>1, <2>2, PayloadFields, WebhookAssumption
       DEF Deliver, Delivered, WebhookTypeOK, Procs, Steps
  <2>3. CASE Failed(p)
    BY <1>2, <2>1, <2>3, PayloadFields, WebhookAssumption
       DEF Deliver, Failed, WebhookTypeOK, Procs, Steps
  <2>. QED
    BY <1>2, <2>2, <2>3 DEF Deliver
<1>3. ASSUME NEW p \in Procs, Store(p)
      PROVE  WebhookTypeOK'
  BY <1>3, PayloadFields, WebhookAssumption
     DEF Store, Returns, End, Key, WebhookTypeOK, Procs, Steps
<1>4. ASSUME NEW p \in Procs, Enqueue(p)
      PROVE  WebhookTypeOK'
  BY <1>4, PayloadFields, WebhookAssumption
     DEF Enqueue, End, Key, WebhookTypeOK, Procs, Steps
<1>5. ASSUME NEW p \in Procs, MarkExhausted(p)
      PROVE  WebhookTypeOK'
  BY <1>5, PayloadFields, WebhookAssumption
     DEF MarkExhausted, Key, WebhookTypeOK, Procs, Steps
<1>6. ASSUME NEW p \in Procs, DropData(p)
      PROVE  WebhookTypeOK'
  BY <1>6, PayloadFields, WebhookAssumption DEF DropData, Key, WebhookTypeOK, Procs, Steps
<1>7. ASSUME NEW p \in Procs, Alert(p)
      PROVE  WebhookTypeOK'
  BY <1>7, PayloadFields, WebhookAssumption DEF Alert, End, WebhookTypeOK, Procs, Steps
<1>8. ASSUME NEW p \in Procs, MarkDelivered(p)
      PROVE  WebhookTypeOK'
  BY <1>8, PayloadFields, WebhookAssumption
     DEF MarkDelivered, End, Key, WebhookTypeOK, Procs, Steps
<1>9. ASSUME NEW p \in Procs, CommandFails(p)
      PROVE  WebhookTypeOK'
  BY <1>9, WebhookAssumption DEF CommandFails, End, WebhookTypeOK, Procs, Steps
<1>10. ASSUME NEW p \in Procs, Crash(p)
       PROVE  WebhookTypeOK'
  BY <1>10, WebhookAssumption DEF Crash, WebhookTypeOK, Procs, Steps
<1>11. ASSUME NEW w \in Workers, Poll(w)
       PROVE  WebhookTypeOK'
  BY <1>11, WebhookAssumption DEF Poll, WebhookTypeOK, Procs, Steps
<1>12. ASSUME NEW w \in Workers, BatchDone(w)
       PROVE  WebhookTypeOK'
  BY <1>12 DEF BatchDone, WebhookTypeOK, Procs, Steps
<1>13. ASSUME NEW w \in Workers, Load(w)
       PROVE  WebhookTypeOK'
  BY <1>13, WebhookAssumption DEF Load, WebhookTypeOK, Procs, Steps
<1>14. ASSUME NEW w \in Workers, ForgetData(w)
       PROVE  WebhookTypeOK'
  BY <1>14, PayloadFields, WebhookAssumption
     DEF ForgetData, Key, WebhookTypeOK, Procs, Steps
<1>15. ASSUME NEW w \in Workers, NEW k \in batch[w], Claim(w, k)
       PROVE  WebhookTypeOK'
  BY <1>15, WebhookAssumption DEF Claim, Remove, WebhookTypeOK, Procs, Steps
<1>16. ASSUME NEW i \in Webhooks, ClientGivesUp(i)
       PROVE  WebhookTypeOK'
  BY <1>16 DEF ClientGivesUp, WebhookTypeOK
<1>17. ASSUME NEW k \in Keys, Elapse(k) \/ DataExpires(k)
       PROVE  WebhookTypeOK'
  BY <1>17 DEF Elapse, DataExpires, WebhookTypeOK
<1>18. CASE UNCHANGED webhookVars
  BY <1>18 DEF webhookVars, WebhookTypeOK
<1>. QED
  BY <1>1, <1>2, <1>3, <1>4, <1>5, <1>6, <1>7, <1>8, <1>9, <1>10, <1>11, <1>12,
     <1>13,
     <1>14, <1>15, <1>16, <1>17, <1>18 DEF WebhookNext, Attempt, Work

\* The Redis keys and the processes keep their types: in particular, a process
\* that makes an attempt has a payload, whatever was deleted or has expired.
THEOREM TypeCorrect == WebhookSpec => []WebhookTypeOK
<1>1. WebhookTypeOK /\ [WebhookNext]_webhookVars => WebhookTypeOK'
  BY TypeStep
<1>. QED
  BY InitType, <1>1, PTL DEF WebhookSpec

-----------------------------------------------------------------------------
(* The inductive invariant                                                 *)

\* Who works on a webhook does so by itself while nobody starts to work.
LEMMA OwnersShrink ==
    ASSUME OneOwner, queue' \subseteq queue,
           \A j \in Webhooks, q \in Procs : WorksOn(q, j)' => WorksOn(q, j)
    PROVE  OneOwner'
BY DEF OneOwner

LEMMA InductiveInit == WebhookInit => Inductive
<1>. SUFFICES ASSUME WebhookInit
     PROVE  Inductive
  OBVIOUS
<1>1. OneOwner /\ OutcomeIsTrue /\ AttemptsBounded
  BY WebhookAssumption
     DEF WebhookInit, Procs, OneOwner, WorksOn, OutcomeIsTrue, AttemptsBounded
<1>2. /\ \A p \in Procs : Counted(p)
      /\ \A k \in Keys : Matches(k)
  BY DEF WebhookInit, Counted, Matches
<1>3. \A i \in Webhooks : HasAttempts(i) /\ Fresh(i)
  BY WebhookAssumption DEF WebhookInit, Procs, HasAttempts, Fresh, Waiting, WorksOn
<1>. QED
  BY <1>1, <1>2, <1>3 DEF Inductive

LEMMA InductiveStep ==
    ASSUME OneWebhookPerOrder, WebhookTypeOK, WebhookTypeOK', Inductive, [WebhookNext]_webhookVars
    PROVE  Inductive'
<1>. USE DEF redisVars, historyVars, workerVars, Proceed, Procs
<1>1. ASSUME NEW i \in Webhooks, SendWebhook(i)
      PROVE  Inductive'
  <2>1. OneOwner'
    <3>1. \A j \in Webhooks, q \in Procs :
             WorksOn(q, j)' => WorksOn(q, j) \/ (q = i /\ j = i)
      BY <1>1, WebhookAssumption DEF SendWebhook, WebhookTypeOK, WorksOn
    <3>2. KeyOf[i] \notin queue /\ \A q \in Procs : ~ WorksOn(q, i)
      BY <1>1 DEF SendWebhook, Inductive, Fresh, Waiting
    <3>3. queue' = queue /\ OneOwner
      BY <1>1 DEF SendWebhook, Inductive
    <3>. QED
      BY <3>1, <3>2, <3>3 DEF OneOwner
  <2>2. OutcomeIsTrue'
    BY <1>1, PayloadFields, WebhookAssumption
       DEF Inductive, OneWebhookPerOrder, WebhookTypeOK, SendWebhook, OutcomeIsTrue,
           Counted
  <2>3. AttemptsBounded'
    BY <1>1, PayloadFields, WebhookAssumption
       DEF Inductive, OneWebhookPerOrder, WebhookTypeOK, SendWebhook, AttemptsBounded,
           Counted
  <2>4. \A q \in Procs : Counted(q)'
    BY <1>1, PayloadFields, WebhookAssumption
       DEF Inductive, OneWebhookPerOrder, WebhookTypeOK, SendWebhook, Counted, Waiting,
           HasAttempts, Matches, OneOwner, WorksOn, Fresh
  <2>5. \A l \in Keys : Matches(l)'
    BY <1>1, PayloadFields, WebhookAssumption
       DEF Inductive, OneWebhookPerOrder, WebhookTypeOK, SendWebhook, Matches, Counted
  <2>6. \A j \in Webhooks : HasAttempts(j)'
    BY <1>1, PayloadFields, WebhookAssumption
       DEF Inductive, OneWebhookPerOrder, WebhookTypeOK, SendWebhook, HasAttempts,
           Waiting, Counted, OneOwner, WorksOn, Matches
  <2>7. \A j \in Webhooks : Fresh(j)'
    BY <1>1, PayloadFields, WebhookAssumption
       DEF Inductive, OneWebhookPerOrder, WebhookTypeOK, SendWebhook, Fresh, Waiting,
           WorksOn, Counted
  <2>. QED
    BY <2>1, <2>2, <2>3, <2>4, <2>5, <2>6, <2>7 DEF Inductive
<1>2. ASSUME NEW p \in Procs, Deliver(p)
      PROVE  Inductive'
  <2>1. OneOwner'
    <3>1. \A j \in Webhooks, q \in Procs : WorksOn(q, j)' => WorksOn(q, j)
      BY <1>2, PayloadFields, WebhookAssumption
         DEF Inductive, OneWebhookPerOrder, WebhookTypeOK, Deliver, Delivered, Failed,
             WorksOn
    <3>2. queue' \subseteq queue /\ OneOwner
      BY <1>2 DEF Inductive, Deliver, Delivered, Failed
    <3>. QED
      BY <3>1, <3>2, OwnersShrink
  <2>2. OutcomeIsTrue'
    BY <1>2, PayloadFields, WebhookAssumption
       DEF Inductive, OneWebhookPerOrder, WebhookTypeOK, Deliver, Delivered, Failed,
           OutcomeIsTrue, Counted
  <2>3. AttemptsBounded'
    BY <1>2, PayloadFields, WebhookAssumption
       DEF Inductive, OneWebhookPerOrder, WebhookTypeOK, Deliver, Delivered, Failed,
           AttemptsBounded, Counted
  <2>4. \A q \in Procs : Counted(q)'
    <3>1. wp[p] \in Payload /\ wp[p].webhook \in Webhooks /\ WorksOn(p, wp[p].webhook)
      BY <1>2, PayloadFields DEF Deliver, WebhookTypeOK, WorksOn
    <3>2. ASSUME NEW q \in Procs, q # p
          PROVE  Counted(q)'
      <4>1. wp'[q] = wp[q] /\ wpc'[q] = wpc[q] /\ data' = data
        BY <1>2, <3>2 DEF Deliver, Delivered, Failed, WebhookTypeOK
      <4>2. CASE wp[q] = None
        BY <4>1, <4>2 DEF Counted
      <4>3. CASE wp[q] # None
        <5>1. wp[q].webhook \in Webhooks /\ wp[q].webhook # wp[p].webhook
          BY <3>1, <3>2, <4>3, PayloadFields
             DEF WebhookTypeOK, Inductive, OneOwner, WorksOn
        <5>2. /\ tries'[wp[q].webhook] = tries[wp[q].webhook]
              /\ wp[q].webhook \in acked' <=> wp[q].webhook \in acked
          BY <1>2, <5>1 DEF Deliver, Delivered, Failed, WebhookTypeOK
        <5>. QED
          BY <4>1, <5>2 DEF Inductive, Counted
      <4>. QED
        BY <4>2, <4>3
    <3>3. Counted(p)'
      <4>1. Counted(p) /\ wpc[p] = "post" /\ wp[p] # None
        BY <1>2, <3>1, PayloadFields DEF Deliver, Inductive
      <4>2. tries'[wp[p].webhook] = tries[wp[p].webhook] + 1
        BY <1>2, <3>1 DEF Deliver, WebhookTypeOK
      <4>3. CASE Delivered(p)
        BY <3>1, <4>1, <4>3 DEF Delivered, WebhookTypeOK, Counted
      <4>4. CASE Failed(p)
        <5>1. wp'[p] = Counting(wp[p]) /\ acked' = acked
          BY <4>4 DEF Failed, WebhookTypeOK
        <5>2. wpc'[p] = IF tries[wp[p].webhook] + 1 >= MaxAttempts THEN "exhaust" ELSE "store"
          BY <3>1, <4>1, <4>4 DEF Failed, WebhookTypeOK, Counted
        <5>3. wp'[p].webhook = wp[p].webhook /\ wp'[p].attempt = wp[p].attempt + 1
          BY <3>1, <5>1, PayloadFields
        <5>4. /\ p \in Webhooks => p = wp[p].webhook
              /\ wp[p].webhook \notin acked
              /\ wp[p].attempt = tries[wp[p].webhook]
              /\ tries[wp[p].webhook] < MaxAttempts
          BY <4>1 DEF Counted
        <5>5. tries[wp[p].webhook] \in Nat
          BY <3>1 DEF WebhookTypeOK
        <5>6. CASE tries[wp[p].webhook] + 1 >= MaxAttempts
          BY <4>2, <5>1, <5>2, <5>3, <5>4, <5>5, <5>6, WebhookAssumption DEF Counted
        <5>7. CASE ~ (tries[wp[p].webhook] + 1 >= MaxAttempts)
          BY <4>2, <5>1, <5>2, <5>3, <5>4, <5>5, <5>7, WebhookAssumption DEF Counted
        <5>. QED
          BY <5>6, <5>7
      <4>. QED
        BY <1>2, <4>3, <4>4 DEF Deliver
    <3>. QED
      BY <3>2, <3>3
  <2>5. \A l \in Keys : Matches(l)'
    BY <1>2, PayloadFields, WebhookAssumption
       DEF Inductive, OneWebhookPerOrder, WebhookTypeOK, Deliver, Delivered, Failed,
           Matches, Counted
  <2>6. \A j \in Webhooks : HasAttempts(j)'
    <3>1. wp[p] # None /\ wp[p].webhook \in Webhooks /\ WorksOn(p, wp[p].webhook)
      BY <1>2, PayloadFields DEF Deliver, WebhookTypeOK, WorksOn
    <3>2. ASSUME NEW j \in Webhooks, Waiting(j)
          PROVE  j # wp[p].webhook
      <4>1. CASE KeyOf[j] \in queue
        BY <3>1, <4>1 DEF Inductive, OneOwner
      <4>2. ASSUME NEW w \in Workers, claimed[w] = KeyOf[j]
            PROVE  j # wp[p].webhook
        <5>1. wpc[w] = "load" /\ w # p
          <6>1. wpc[p] = "post" /\ KeyOf[j] \in Keys /\ KeyOf[j] # None
            BY <1>2, WebhookAssumption DEF Deliver
          <6>. QED
            BY <4>2, <6>1 DEF WebhookTypeOK
        <5>2. WorksOn(w, j)
          BY <4>2, <5>1 DEF WorksOn
        <5>. QED
          BY <3>1, <5>1, <5>2 DEF Inductive, OneOwner
      <4>. QED
        BY <3>2, <4>1, <4>2 DEF Waiting
    <3>3. \A j \in Webhooks : Waiting(j)' <=> Waiting(j)
      BY <1>2 DEF Deliver, Waiting
    <3>4. \A j \in Webhooks \ {wp[p].webhook} :
             /\ tries'[j] = tries[j]
             /\ j \in acked' <=> j \in acked
      BY <1>2 DEF Deliver, Delivered, Failed, WebhookTypeOK
    <3>5. data' = data
      BY <1>2 DEF Deliver
    <3>. QED
      BY <3>2, <3>3, <3>4, <3>5 DEF Inductive, HasAttempts
  <2>7. \A j \in Webhooks : Fresh(j)'
    BY <1>2, PayloadFields, WebhookAssumption
       DEF Inductive, OneWebhookPerOrder, WebhookTypeOK, Deliver, Delivered, Failed,
           Fresh, Waiting, WorksOn, Counted
  <2>. QED
    BY <2>1, <2>2, <2>3, <2>4, <2>5, <2>6, <2>7 DEF Inductive
<1>3. ASSUME NEW p \in Procs, Store(p)
      PROVE  Inductive'
  <2>1. OneOwner'
    <3>1. \A j \in Webhooks, q \in Procs : WorksOn(q, j)' => WorksOn(q, j)
      BY <1>3, PayloadFields, WebhookAssumption
         DEF Inductive, OneWebhookPerOrder, WebhookTypeOK, Store, Returns, End, WorksOn
    <3>2. queue' \subseteq queue /\ OneOwner
      BY <1>3 DEF Inductive, Store, Returns, End
    <3>. QED
      BY <3>1, <3>2, OwnersShrink
  <2>2. OutcomeIsTrue'
    BY <1>3, PayloadFields, WebhookAssumption
       DEF Inductive, OneWebhookPerOrder, WebhookTypeOK, Store, Returns, End, Key,
           OutcomeIsTrue, Counted
  <2>3. AttemptsBounded'
    BY <1>3, PayloadFields, WebhookAssumption
       DEF Inductive, OneWebhookPerOrder, WebhookTypeOK, Store, Returns, End, Key,
           AttemptsBounded, Counted
  <2>4. \A q \in Procs : Counted(q)'
    <3>1. wp[p] \in Payload /\ wp[p].webhook \in Webhooks /\ WorksOn(p, wp[p].webhook)
      BY <1>3, PayloadFields DEF Store, WebhookTypeOK, WorksOn
    <3>2. data' = [data EXCEPT ![KeyOf[wp[p].webhook]] = wp[p]] /\ UNCHANGED <<tries, acked>>
      BY <1>3 DEF Store, Key
    <3>3. ASSUME NEW q \in Procs, q # p
          PROVE  Counted(q)'
      <4>1. wp'[q] = wp[q] /\ wpc'[q] = wpc[q]
        BY <1>3, <3>3 DEF Store, Returns, End, WebhookTypeOK
      <4>2. CASE wp[q] = None
        BY <4>1, <4>2 DEF Counted
      <4>3. CASE wp[q] # None
        <5>1. wp[q].webhook \in Webhooks /\ wp[q].webhook # wp[p].webhook
          BY <3>1, <3>3, <4>3, PayloadFields
             DEF WebhookTypeOK, Inductive, OneOwner, WorksOn
        <5>2. data'[KeyOf[wp[q].webhook]] = data[KeyOf[wp[q].webhook]]
          BY <3>1, <3>2, <5>1 DEF OneWebhookPerOrder, WebhookTypeOK
        <5>. QED
          BY <3>2, <4>1, <5>2 DEF Inductive, Counted
      <4>. QED
        BY <4>2, <4>3
    <3>4. Counted(p)'
      <4>1. Counted(p) /\ wpc[p] = "store" /\ wp[p] # None
        BY <1>3, <3>1, PayloadFields DEF Store, Inductive
      <4>2. \/ wpc'[p] = "enqueue" /\ wp'[p] = wp[p]
            \/ wp'[p] = None
        BY <1>3 DEF Store, Returns, End, WebhookTypeOK
      <4>3. data'[KeyOf[wp[p].webhook]] = wp[p]
        BY <3>1, <3>2, PayloadFields DEF WebhookTypeOK
      <4>. QED
        BY <3>2, <4>1, <4>2, <4>3 DEF Counted
    <3>. QED
      BY <3>3, <3>4
  <2>5. \A l \in Keys : Matches(l)'
    BY <1>3, PayloadFields, WebhookAssumption
       DEF Inductive, OneWebhookPerOrder, WebhookTypeOK, Store, Returns, End, Key,
           Matches, Counted
  <2>6. \A j \in Webhooks : HasAttempts(j)'
    BY <1>3, PayloadFields, WebhookAssumption
       DEF Inductive, OneWebhookPerOrder, WebhookTypeOK, Store, Returns, End, Key,
           HasAttempts, Waiting, Counted, OneOwner, WorksOn, Matches
  <2>7. \A j \in Webhooks : Fresh(j)'
    BY <1>3, PayloadFields, WebhookAssumption
       DEF Inductive, OneWebhookPerOrder, WebhookTypeOK, Store, Returns, End, Key, Fresh,
           Waiting, WorksOn, Counted
  <2>. QED
    BY <2>1, <2>2, <2>3, <2>4, <2>5, <2>6, <2>7 DEF Inductive
<1>4. ASSUME NEW p \in Procs, Enqueue(p)
      PROVE  Inductive'
  <2>1. OneOwner'
    <3>1. wp[p] \in Payload /\ wp[p].webhook \in Webhooks /\ WorksOn(p, wp[p].webhook)
      BY <1>4, PayloadFields DEF Enqueue, WebhookTypeOK, WorksOn
    <3>2. queue' = queue \cup {KeyOf[wp[p].webhook]}
      BY <1>4 DEF Enqueue, Key
    <3>3. \A j \in Webhooks, q \in Procs : WorksOn(q, j)' => WorksOn(q, j) /\ q # p
      BY <1>4, WebhookAssumption DEF Enqueue, End, WebhookTypeOK, WorksOn
    <3>4. \A j \in Webhooks : KeyOf[j] = KeyOf[wp[p].webhook] => j = wp[p].webhook
      BY <3>1 DEF OneWebhookPerOrder
    <3>5. OneOwner
      BY DEF Inductive
    <3>. QED
      BY <3>1, <3>2, <3>3, <3>4, <3>5 DEF OneOwner
  <2>2. OutcomeIsTrue'
    BY <1>4, PayloadFields, WebhookAssumption
       DEF Inductive, OneWebhookPerOrder, WebhookTypeOK, Enqueue, End, Key, OutcomeIsTrue,
           Counted
  <2>3. AttemptsBounded'
    BY <1>4, PayloadFields, WebhookAssumption
       DEF Inductive, OneWebhookPerOrder, WebhookTypeOK, Enqueue, End, Key,
           AttemptsBounded, Counted
  <2>4. \A q \in Procs : Counted(q)'
    BY <1>4, PayloadFields, WebhookAssumption
       DEF Inductive, OneWebhookPerOrder, WebhookTypeOK, Enqueue, End, Key, Counted,
           Waiting, HasAttempts, Matches, OneOwner, WorksOn, Fresh
  <2>5. \A l \in Keys : Matches(l)'
    BY <1>4, PayloadFields, WebhookAssumption
       DEF Inductive, OneWebhookPerOrder, WebhookTypeOK, Enqueue, End, Key, Matches,
           Counted
  <2>6. \A j \in Webhooks : HasAttempts(j)'
    <3>1. wp[p] # None /\ wp[p].webhook \in Webhooks
      BY <1>4, PayloadFields DEF Enqueue, WebhookTypeOK
    <3>2. UNCHANGED <<data, tries, acked, claimed>> /\ queue' = queue \cup {KeyOf[wp[p].webhook]}
      BY <1>4 DEF Enqueue, Key
    <3>3. \A j \in Webhooks : Waiting(j)' => Waiting(j) \/ j = wp[p].webhook
      BY <3>1, <3>2 DEF Waiting, OneWebhookPerOrder
    <3>4. Counted(p) /\ wpc[p] = "enqueue"
      BY <1>4 DEF Inductive, Enqueue
    <3>. QED
      BY <3>1, <3>2, <3>3, <3>4 DEF Inductive, HasAttempts, Counted
  <2>7. \A j \in Webhooks : Fresh(j)'
    BY <1>4, PayloadFields, WebhookAssumption
       DEF Inductive, OneWebhookPerOrder, WebhookTypeOK, Enqueue, End, Key, Fresh,
           Waiting, WorksOn, Counted
  <2>. QED
    BY <2>1, <2>2, <2>3, <2>4, <2>5, <2>6, <2>7 DEF Inductive
<1>5. ASSUME NEW p \in Procs, MarkExhausted(p)
      PROVE  Inductive'
  <2>1. OneOwner'
    BY <1>5, PayloadFields, WebhookAssumption
       DEF Inductive, OneWebhookPerOrder, WebhookTypeOK, MarkExhausted, Key, OneOwner,
           WorksOn
  <2>2. OutcomeIsTrue'
    BY <1>5, PayloadFields, WebhookAssumption
       DEF Inductive, OneWebhookPerOrder, WebhookTypeOK, MarkExhausted, Key,
           OutcomeIsTrue, Counted
  <2>3. AttemptsBounded'
    BY <1>5, PayloadFields, WebhookAssumption
       DEF Inductive, OneWebhookPerOrder, WebhookTypeOK, MarkExhausted, Key,
           AttemptsBounded, Counted
  <2>4. \A q \in Procs : Counted(q)'
    BY <1>5, PayloadFields, WebhookAssumption
       DEF Inductive, OneWebhookPerOrder, WebhookTypeOK, MarkExhausted, Key, Counted,
           Waiting, HasAttempts, Matches, OneOwner, WorksOn, Fresh
  <2>5. \A l \in Keys : Matches(l)'
    BY <1>5, PayloadFields, WebhookAssumption
       DEF Inductive, OneWebhookPerOrder, WebhookTypeOK, MarkExhausted, Key, Matches,
           Counted
  <2>6. \A j \in Webhooks : HasAttempts(j)'
    BY <1>5, PayloadFields, WebhookAssumption
       DEF Inductive, OneWebhookPerOrder, WebhookTypeOK, MarkExhausted, Key, HasAttempts,
           Waiting, Counted, OneOwner, WorksOn, Matches
  <2>7. \A j \in Webhooks : Fresh(j)'
    BY <1>5, PayloadFields, WebhookAssumption
       DEF Inductive, OneWebhookPerOrder, WebhookTypeOK, MarkExhausted, Key, Fresh,
           Waiting, WorksOn, Counted
  <2>. QED
    BY <2>1, <2>2, <2>3, <2>4, <2>5, <2>6, <2>7 DEF Inductive
<1>6. ASSUME NEW p \in Procs, DropData(p)
      PROVE  Inductive'
  <2>1. OneOwner'
    BY <1>6, PayloadFields, WebhookAssumption
       DEF Inductive, OneWebhookPerOrder, WebhookTypeOK, DropData, Key, OneOwner, WorksOn
  <2>2. OutcomeIsTrue'
    BY <1>6, PayloadFields, WebhookAssumption
       DEF Inductive, OneWebhookPerOrder, WebhookTypeOK, DropData, Key, OutcomeIsTrue,
           Counted
  <2>3. AttemptsBounded'
    BY <1>6, PayloadFields, WebhookAssumption
       DEF Inductive, OneWebhookPerOrder, WebhookTypeOK, DropData, Key, AttemptsBounded,
           Counted
  <2>4. \A q \in Procs : Counted(q)'
    BY <1>6, PayloadFields, WebhookAssumption
       DEF Inductive, OneWebhookPerOrder, WebhookTypeOK, DropData, Key, Counted, Waiting,
           HasAttempts, Matches, OneOwner, WorksOn, Fresh
  <2>5. \A l \in Keys : Matches(l)'
    BY <1>6, PayloadFields, WebhookAssumption
       DEF Inductive, OneWebhookPerOrder, WebhookTypeOK, DropData, Key, Matches, Counted
  <2>6. \A j \in Webhooks : HasAttempts(j)'
    BY <1>6, PayloadFields, WebhookAssumption
       DEF Inductive, OneWebhookPerOrder, WebhookTypeOK, DropData, Key, HasAttempts,
           Waiting, Counted, OneOwner, WorksOn, Matches
  <2>7. \A j \in Webhooks : Fresh(j)'
    BY <1>6, PayloadFields, WebhookAssumption
       DEF Inductive, OneWebhookPerOrder, WebhookTypeOK, DropData, Key, Fresh, Waiting,
           WorksOn, Counted
  <2>. QED
    BY <2>1, <2>2, <2>3, <2>4, <2>5, <2>6, <2>7 DEF Inductive
<1>7. ASSUME NEW p \in Procs, Alert(p)
      PROVE  Inductive'
  <2>1. OneOwner'
    BY <1>7, PayloadFields, WebhookAssumption
       DEF Inductive, OneWebhookPerOrder, WebhookTypeOK, Alert, End, OneOwner, WorksOn
  <2>2. OutcomeIsTrue'
    BY <1>7, PayloadFields, WebhookAssumption
       DEF Inductive, OneWebhookPerOrder, WebhookTypeOK, Alert, End, OutcomeIsTrue, Counted
  <2>3. AttemptsBounded'
    BY <1>7, PayloadFields, WebhookAssumption
       DEF Inductive, OneWebhookPerOrder, WebhookTypeOK, Alert, End, AttemptsBounded,
           Counted
  <2>4. \A q \in Procs : Counted(q)'
    BY <1>7, PayloadFields, WebhookAssumption
       DEF Inductive, OneWebhookPerOrder, WebhookTypeOK, Alert, End, Counted, Waiting,
           HasAttempts, Matches, OneOwner, WorksOn, Fresh
  <2>5. \A l \in Keys : Matches(l)'
    BY <1>7, PayloadFields, WebhookAssumption
       DEF Inductive, OneWebhookPerOrder, WebhookTypeOK, Alert, End, Matches, Counted
  <2>6. \A j \in Webhooks : HasAttempts(j)'
    BY <1>7, PayloadFields, WebhookAssumption
       DEF Inductive, OneWebhookPerOrder, WebhookTypeOK, Alert, End, HasAttempts, Waiting,
           Counted, OneOwner, WorksOn, Matches
  <2>7. \A j \in Webhooks : Fresh(j)'
    BY <1>7, PayloadFields, WebhookAssumption
       DEF Inductive, OneWebhookPerOrder, WebhookTypeOK, Alert, End, Fresh, Waiting,
           WorksOn, Counted
  <2>. QED
    BY <2>1, <2>2, <2>3, <2>4, <2>5, <2>6, <2>7 DEF Inductive
<1>8. ASSUME NEW p \in Procs, MarkDelivered(p)
      PROVE  Inductive'
  <2>1. OneOwner'
    <3>1. \A j \in Webhooks, q \in Procs : WorksOn(q, j)' => WorksOn(q, j)
      BY <1>8, PayloadFields, WebhookAssumption
         DEF Inductive, OneWebhookPerOrder, WebhookTypeOK, MarkDelivered, End, WorksOn
    <3>2. queue' \subseteq queue /\ OneOwner
      BY <1>8 DEF Inductive, MarkDelivered, End
    <3>. QED
      BY <3>1, <3>2, OwnersShrink
  <2>2. OutcomeIsTrue'
    BY <1>8, PayloadFields, WebhookAssumption
       DEF Inductive, OneWebhookPerOrder, WebhookTypeOK, MarkDelivered, End, Key,
           OutcomeIsTrue, Counted
  <2>3. AttemptsBounded'
    BY <1>8, PayloadFields, WebhookAssumption
       DEF Inductive, OneWebhookPerOrder, WebhookTypeOK, MarkDelivered, End, Key,
           AttemptsBounded, Counted
  <2>4. \A q \in Procs : Counted(q)'
    BY <1>8, PayloadFields, WebhookAssumption
       DEF Inductive, OneWebhookPerOrder, WebhookTypeOK, MarkDelivered, End, Key, Counted,
           Waiting, HasAttempts, Matches, OneOwner, WorksOn, Fresh
  <2>5. \A l \in Keys : Matches(l)'
    BY <1>8, PayloadFields, WebhookAssumption
       DEF Inductive, OneWebhookPerOrder, WebhookTypeOK, MarkDelivered, End, Key, Matches,
           Counted
  <2>6. \A j \in Webhooks : HasAttempts(j)'
    BY <1>8, PayloadFields, WebhookAssumption
       DEF Inductive, OneWebhookPerOrder, WebhookTypeOK, MarkDelivered, End, Key,
           HasAttempts, Waiting, Counted, OneOwner, WorksOn, Matches
  <2>7. \A j \in Webhooks : Fresh(j)'
    BY <1>8, PayloadFields, WebhookAssumption
       DEF Inductive, OneWebhookPerOrder, WebhookTypeOK, MarkDelivered, End, Key, Fresh,
           Waiting, WorksOn, Counted
  <2>. QED
    BY <2>1, <2>2, <2>3, <2>4, <2>5, <2>6, <2>7 DEF Inductive
<1>9. ASSUME NEW p \in Procs, CommandFails(p)
      PROVE  Inductive'
  <2>1. OneOwner'
    <3>1. \A j \in Webhooks, q \in Procs : WorksOn(q, j)' => WorksOn(q, j)
      BY <1>9, PayloadFields, WebhookAssumption
         DEF Inductive, OneWebhookPerOrder, WebhookTypeOK, CommandFails, End, WorksOn
    <3>2. queue' \subseteq queue /\ OneOwner
      BY <1>9 DEF Inductive, CommandFails, End
    <3>. QED
      BY <3>1, <3>2, OwnersShrink
  <2>2. OutcomeIsTrue'
    BY <1>9, PayloadFields, WebhookAssumption
       DEF Inductive, OneWebhookPerOrder, WebhookTypeOK, CommandFails, End, OutcomeIsTrue,
           Counted
  <2>3. AttemptsBounded'
    BY <1>9, PayloadFields, WebhookAssumption
       DEF Inductive, OneWebhookPerOrder, WebhookTypeOK, CommandFails, End,
           AttemptsBounded, Counted
  <2>4. \A q \in Procs : Counted(q)'
    BY <1>9, PayloadFields, WebhookAssumption
       DEF Inductive, OneWebhookPerOrder, WebhookTypeOK, CommandFails, End, Counted,
           Waiting, HasAttempts, Matches, OneOwner, WorksOn, Fresh
  <2>5. \A l \in Keys : Matches(l)'
    BY <1>9, PayloadFields, WebhookAssumption
       DEF Inductive, OneWebhookPerOrder, WebhookTypeOK, CommandFails, End, Matches,
           Counted
  <2>6. \A j \in Webhooks : HasAttempts(j)'
    BY <1>9, PayloadFields, WebhookAssumption
       DEF Inductive, OneWebhookPerOrder, WebhookTypeOK, CommandFails, End, HasAttempts,
           Waiting, Counted, OneOwner, WorksOn, Matches
  <2>7. \A j \in Webhooks : Fresh(j)'
    BY <1>9, PayloadFields, WebhookAssumption
       DEF Inductive, OneWebhookPerOrder, WebhookTypeOK, CommandFails, End, Fresh,
           Waiting, WorksOn, Counted
  <2>. QED
    BY <2>1, <2>2, <2>3, <2>4, <2>5, <2>6, <2>7 DEF Inductive
<1>10. ASSUME NEW p \in Procs, Crash(p)
      PROVE  Inductive'
  <2>1. OneOwner'
    BY <1>10, PayloadFields, WebhookAssumption
       DEF Inductive, OneWebhookPerOrder, WebhookTypeOK, Crash, OneOwner, WorksOn
  <2>2. OutcomeIsTrue'
    BY <1>10, PayloadFields, WebhookAssumption
       DEF Inductive, OneWebhookPerOrder, WebhookTypeOK, Crash, OutcomeIsTrue, Counted
  <2>3. AttemptsBounded'
    BY <1>10, PayloadFields, WebhookAssumption
       DEF Inductive, OneWebhookPerOrder, WebhookTypeOK, Crash, AttemptsBounded, Counted
  <2>4. \A q \in Procs : Counted(q)'
    BY <1>10, PayloadFields, WebhookAssumption
       DEF Inductive, OneWebhookPerOrder, WebhookTypeOK, Crash, Counted, Waiting,
           HasAttempts, Matches, OneOwner, WorksOn, Fresh
  <2>5. \A l \in Keys : Matches(l)'
    BY <1>10, PayloadFields, WebhookAssumption
       DEF Inductive, OneWebhookPerOrder, WebhookTypeOK, Crash, Matches, Counted
  <2>6. \A j \in Webhooks : HasAttempts(j)'
    BY <1>10, PayloadFields, WebhookAssumption
       DEF Inductive, OneWebhookPerOrder, WebhookTypeOK, Crash, HasAttempts, Waiting,
           Counted, OneOwner, WorksOn, Matches
  <2>7. \A j \in Webhooks : Fresh(j)'
    BY <1>10, PayloadFields, WebhookAssumption
       DEF Inductive, OneWebhookPerOrder, WebhookTypeOK, Crash, Fresh, Waiting, WorksOn,
           Counted
  <2>. QED
    BY <2>1, <2>2, <2>3, <2>4, <2>5, <2>6, <2>7 DEF Inductive
<1>11. ASSUME NEW w \in Workers, Poll(w)
      PROVE  Inductive'
  <2>1. OneOwner'
    BY <1>11, PayloadFields, WebhookAssumption
       DEF Inductive, OneWebhookPerOrder, WebhookTypeOK, Poll, OneOwner, WorksOn
  <2>2. OutcomeIsTrue'
    BY <1>11, PayloadFields, WebhookAssumption
       DEF Inductive, OneWebhookPerOrder, WebhookTypeOK, Poll, OutcomeIsTrue, Counted
  <2>3. AttemptsBounded'
    BY <1>11, PayloadFields, WebhookAssumption
       DEF Inductive, OneWebhookPerOrder, WebhookTypeOK, Poll, AttemptsBounded, Counted
  <2>4. \A q \in Procs : Counted(q)'
    BY <1>11, PayloadFields, WebhookAssumption
       DEF Inductive, OneWebhookPerOrder, WebhookTypeOK, Poll, Counted, Waiting,
           HasAttempts, Matches, OneOwner, WorksOn, Fresh
  <2>5. \A l \in Keys : Matches(l)'
    BY <1>11, PayloadFields, WebhookAssumption
       DEF Inductive, OneWebhookPerOrder, WebhookTypeOK, Poll, Matches, Counted
  <2>6. \A j \in Webhooks : HasAttempts(j)'
    BY <1>11, PayloadFields, WebhookAssumption
       DEF Inductive, OneWebhookPerOrder, WebhookTypeOK, Poll, HasAttempts, Waiting,
           Counted, OneOwner, WorksOn, Matches
  <2>7. \A j \in Webhooks : Fresh(j)'
    BY <1>11, PayloadFields, WebhookAssumption
       DEF Inductive, OneWebhookPerOrder, WebhookTypeOK, Poll, Fresh, Waiting, WorksOn,
           Counted
  <2>. QED
    BY <2>1, <2>2, <2>3, <2>4, <2>5, <2>6, <2>7 DEF Inductive
<1>12. ASSUME NEW w \in Workers, BatchDone(w)
      PROVE  Inductive'
  <2>1. OneOwner'
    BY <1>12, PayloadFields, WebhookAssumption
       DEF Inductive, OneWebhookPerOrder, WebhookTypeOK, BatchDone, OneOwner, WorksOn
  <2>2. OutcomeIsTrue'
    BY <1>12, PayloadFields, WebhookAssumption
       DEF Inductive, OneWebhookPerOrder, WebhookTypeOK, BatchDone, OutcomeIsTrue, Counted
  <2>3. AttemptsBounded'
    BY <1>12, PayloadFields, WebhookAssumption
       DEF Inductive, OneWebhookPerOrder, WebhookTypeOK, BatchDone, AttemptsBounded,
           Counted
  <2>4. \A q \in Procs : Counted(q)'
    BY <1>12, PayloadFields, WebhookAssumption
       DEF Inductive, OneWebhookPerOrder, WebhookTypeOK, BatchDone, Counted, Waiting,
           HasAttempts, Matches, OneOwner, WorksOn, Fresh
  <2>5. \A l \in Keys : Matches(l)'
    BY <1>12, PayloadFields, WebhookAssumption
       DEF Inductive, OneWebhookPerOrder, WebhookTypeOK, BatchDone, Matches, Counted
  <2>6. \A j \in Webhooks : HasAttempts(j)'
    BY <1>12, PayloadFields, WebhookAssumption
       DEF Inductive, OneWebhookPerOrder, WebhookTypeOK, BatchDone, HasAttempts, Waiting,
           Counted, OneOwner, WorksOn, Matches
  <2>7. \A j \in Webhooks : Fresh(j)'
    BY <1>12, PayloadFields, WebhookAssumption
       DEF Inductive, OneWebhookPerOrder, WebhookTypeOK, BatchDone, Fresh, Waiting,
           WorksOn, Counted
  <2>. QED
    BY <2>1, <2>2, <2>3, <2>4, <2>5, <2>6, <2>7 DEF Inductive
<1>13. ASSUME NEW w \in Workers, Load(w)
      PROVE  Inductive'
  <2>0. \A j \in Webhooks, q \in Procs : WorksOn(q, j)' => WorksOn(q, j)
    <3>1. ASSUME NEW j \in Webhooks, WorksOn(w, j)'
          PROVE  WorksOn(w, j)
      <4>1. wp'[w] # None /\ wp'[w].webhook = j
        BY <1>13, <3>1, WebhookAssumption DEF Load, WebhookTypeOK, WorksOn
      <4>2. wpc[w] = "load" /\ claimed[w] \in Keys /\ wp'[w] = data[claimed[w]]
        BY <1>13, <4>1 DEF Load, WebhookTypeOK
      <4>. QED
        BY <4>1, <4>2 DEF Inductive, Matches, WorksOn
    <3>2. \A j \in Webhooks, q \in Procs \ {w} : WorksOn(q, j)' => WorksOn(q, j)
      BY <1>13 DEF Load, WebhookTypeOK, WorksOn
    <3>. QED
      BY <3>1, <3>2
  <2>1. OneOwner'
    <3>1. queue' \subseteq queue /\ OneOwner
      BY <1>13 DEF Load, Inductive
    <3>. QED
      BY <3>1, <2>0, OwnersShrink
  <2>2. OutcomeIsTrue'
    BY <1>13, PayloadFields, WebhookAssumption
       DEF Inductive, OneWebhookPerOrder, WebhookTypeOK, Load, OutcomeIsTrue, Counted
  <2>3. AttemptsBounded'
    BY <1>13, PayloadFields, WebhookAssumption
       DEF Inductive, OneWebhookPerOrder, WebhookTypeOK, Load, AttemptsBounded, Counted
  <2>4. \A q \in Procs : Counted(q)'
    <3>1. UNCHANGED <<data, tries, acked>>
      BY <1>13 DEF Load
    <3>2. ASSUME NEW q \in Procs, q # w
          PROVE  Counted(q)'
      <4>1. wp'[q] = wp[q] /\ wpc'[q] = wpc[q]
        BY <1>13, <3>2 DEF Load, WebhookTypeOK
      <4>. QED
        BY <3>1, <4>1 DEF Inductive, Counted
    <3>3. Counted(w)'
      <4>1. CASE wp'[w] = None
        BY <4>1 DEF Counted
      <4>2. CASE wp'[w] # None
        <5>1. wp'[w] = data[claimed[w]] /\ wpc'[w] = "post" /\ claimed[w] \in Keys
          BY <1>13, <4>2 DEF Load, WebhookTypeOK
        <5>2. wp'[w].webhook \in Webhooks /\ KeyOf[wp'[w].webhook] = claimed[w]
          BY <4>2, <5>1, PayloadFields DEF WebhookTypeOK, Inductive, Matches
        <5>3. Waiting(wp'[w].webhook) /\ HasAttempts(wp'[w].webhook)
          BY <5>2 DEF Waiting, Inductive
        <5>. QED
          BY <3>1, <4>2, <5>1, <5>2, <5>3, WebhookAssumption
             DEF HasAttempts, Counted
      <4>. QED
        BY <4>1, <4>2
    <3>. QED
      BY <3>2, <3>3
  <2>5. \A l \in Keys : Matches(l)'
    BY <1>13, PayloadFields, WebhookAssumption
       DEF Inductive, OneWebhookPerOrder, WebhookTypeOK, Load, Matches, Counted
  <2>6. \A j \in Webhooks : HasAttempts(j)'
    BY <1>13, PayloadFields, WebhookAssumption
       DEF Inductive, OneWebhookPerOrder, WebhookTypeOK, Load, HasAttempts, Waiting,
           Counted, OneOwner, WorksOn, Matches
  <2>7. \A j \in Webhooks : Fresh(j)'
    <3>1. UNCHANGED <<queue, tries, acked>>
      BY <1>13 DEF Load
    <3>2. \A j \in Webhooks : Waiting(j)' => Waiting(j)
      BY <1>13, WebhookAssumption DEF Load, WebhookTypeOK, Waiting
    <3>3. \A j \in Webhooks : wpc'[j] = wpc[j]
      BY <1>13, WebhookAssumption DEF Load, WebhookTypeOK
    <3>. QED
      BY <2>0, <3>1, <3>2, <3>3 DEF Inductive, Fresh
  <2>. QED
    BY <2>1, <2>2, <2>3, <2>4, <2>5, <2>6, <2>7 DEF Inductive
<1>14. ASSUME NEW w \in Workers, ForgetData(w)
      PROVE  Inductive'
  <2>1. OneOwner'
    BY <1>14, PayloadFields, WebhookAssumption
       DEF Inductive, OneWebhookPerOrder, WebhookTypeOK, ForgetData, Key, OneOwner, WorksOn
  <2>2. OutcomeIsTrue'
    BY <1>14, PayloadFields, WebhookAssumption
       DEF Inductive, OneWebhookPerOrder, WebhookTypeOK, ForgetData, Key, OutcomeIsTrue,
           Counted
  <2>3. AttemptsBounded'
    BY <1>14, PayloadFields, WebhookAssumption
       DEF Inductive, OneWebhookPerOrder, WebhookTypeOK, ForgetData, Key, AttemptsBounded,
           Counted
  <2>4. \A q \in Procs : Counted(q)'
    BY <1>14, PayloadFields, WebhookAssumption
       DEF Inductive, OneWebhookPerOrder, WebhookTypeOK, ForgetData, Key, Counted,
           Waiting, HasAttempts, Matches, OneOwner, WorksOn, Fresh
  <2>5. \A l \in Keys : Matches(l)'
    BY <1>14, PayloadFields, WebhookAssumption
       DEF Inductive, OneWebhookPerOrder, WebhookTypeOK, ForgetData, Key, Matches, Counted
  <2>6. \A j \in Webhooks : HasAttempts(j)'
    BY <1>14, PayloadFields, WebhookAssumption
       DEF Inductive, OneWebhookPerOrder, WebhookTypeOK, ForgetData, Key, HasAttempts,
           Waiting, Counted, OneOwner, WorksOn, Matches
  <2>7. \A j \in Webhooks : Fresh(j)'
    BY <1>14, PayloadFields, WebhookAssumption
       DEF Inductive, OneWebhookPerOrder, WebhookTypeOK, ForgetData, Key, Fresh, Waiting,
           WorksOn, Counted
  <2>. QED
    BY <2>1, <2>2, <2>3, <2>4, <2>5, <2>6, <2>7 DEF Inductive
<1>15. ASSUME NEW w \in Workers, NEW k \in batch[w], Claim(w, k)
      PROVE  Inductive'
  <2>1. OneOwner'
    <3>1. OneOwner /\ w \in Procs /\ UNCHANGED wp
      BY <1>15 DEF Inductive, Claim
    <3>2. CASE UNCHANGED <<claimed, wpc>>
      <4>1. \A j \in Webhooks, q \in Procs : WorksOn(q, j)' => WorksOn(q, j)
        BY <3>1, <3>2 DEF WorksOn
      <4>2. queue' \subseteq queue
        BY <1>15 DEF Claim, Remove
      <4>. QED
        BY <3>1, <4>1, <4>2, OwnersShrink
    <3>3. CASE k \in queue /\ Remove(k) /\ claimed' = [claimed EXCEPT ![w] = k]
      <4>1. \A j \in Webhooks, q \in Procs :
               WorksOn(q, j)' => WorksOn(q, j) \/ (q = w /\ KeyOf[j] = k)
        <5>1. \A q \in Procs : q # w => wpc'[q] = wpc[q]
          BY <1>15 DEF Claim, WebhookTypeOK
        <5>2. wp[w] = None
          BY <1>15 DEF Claim, WebhookTypeOK
        <5>. QED
          BY <3>1, <3>3, <5>1, <5>2 DEF WorksOn, WebhookTypeOK
      <4>2. \A j \in Webhooks : KeyOf[j] = k => \A q \in Procs : ~ WorksOn(q, j)
        BY <3>1, <3>3 DEF OneOwner
      <4>3. \A j \in Webhooks : KeyOf[j] \in queue' => KeyOf[j] \in queue /\ KeyOf[j] # k
        BY <3>3 DEF Remove
      <4>. QED
        BY <3>1, <4>1, <4>2, <4>3 DEF OneOwner
    <3>. QED
      BY <1>15, <3>2, <3>3 DEF Claim
  <2>2. OutcomeIsTrue'
    BY <1>15, PayloadFields, WebhookAssumption
       DEF Inductive, OneWebhookPerOrder, WebhookTypeOK, Claim, Remove, OutcomeIsTrue,
           Counted
  <2>3. AttemptsBounded'
    BY <1>15, PayloadFields, WebhookAssumption
       DEF Inductive, OneWebhookPerOrder, WebhookTypeOK, Claim, Remove, AttemptsBounded,
           Counted
  <2>4. \A q \in Procs : Counted(q)'
    BY <1>15, PayloadFields, WebhookAssumption
       DEF Inductive, OneWebhookPerOrder, WebhookTypeOK, Claim, Remove, Counted, Waiting,
           HasAttempts, Matches, OneOwner, WorksOn, Fresh
  <2>5. \A l \in Keys : Matches(l)'
    BY <1>15, PayloadFields, WebhookAssumption
       DEF Inductive, OneWebhookPerOrder, WebhookTypeOK, Claim, Remove, Matches, Counted
  <2>6. \A j \in Webhooks : HasAttempts(j)'
    BY <1>15, PayloadFields, WebhookAssumption
       DEF Inductive, OneWebhookPerOrder, WebhookTypeOK, Claim, Remove, HasAttempts,
           Waiting, Counted, OneOwner, WorksOn, Matches
  <2>7. \A j \in Webhooks : Fresh(j)'
    BY <1>15, PayloadFields, WebhookAssumption
       DEF Inductive, OneWebhookPerOrder, WebhookTypeOK, Claim, Remove, Fresh, Waiting,
           WorksOn, Counted
  <2>. QED
    BY <2>1, <2>2, <2>3, <2>4, <2>5, <2>6, <2>7 DEF Inductive
<1>16. ASSUME NEW i \in Webhooks, ClientGivesUp(i)
      PROVE  Inductive'
  <2>1. OneOwner'
    BY <1>16, PayloadFields, WebhookAssumption
       DEF Inductive, OneWebhookPerOrder, WebhookTypeOK, ClientGivesUp, OneOwner, WorksOn
  <2>2. OutcomeIsTrue'
    BY <1>16, PayloadFields, WebhookAssumption
       DEF Inductive, OneWebhookPerOrder, WebhookTypeOK, ClientGivesUp, OutcomeIsTrue,
           Counted
  <2>3. AttemptsBounded'
    BY <1>16, PayloadFields, WebhookAssumption
       DEF Inductive, OneWebhookPerOrder, WebhookTypeOK, ClientGivesUp, AttemptsBounded,
           Counted
  <2>4. \A q \in Procs : Counted(q)'
    BY <1>16, PayloadFields, WebhookAssumption
       DEF Inductive, OneWebhookPerOrder, WebhookTypeOK, ClientGivesUp, Counted, Waiting,
           HasAttempts, Matches, OneOwner, WorksOn, Fresh
  <2>5. \A l \in Keys : Matches(l)'
    BY <1>16, PayloadFields, WebhookAssumption
       DEF Inductive, OneWebhookPerOrder, WebhookTypeOK, ClientGivesUp, Matches, Counted
  <2>6. \A j \in Webhooks : HasAttempts(j)'
    BY <1>16, PayloadFields, WebhookAssumption
       DEF Inductive, OneWebhookPerOrder, WebhookTypeOK, ClientGivesUp, HasAttempts,
           Waiting, Counted, OneOwner, WorksOn, Matches
  <2>7. \A j \in Webhooks : Fresh(j)'
    BY <1>16, PayloadFields, WebhookAssumption
       DEF Inductive, OneWebhookPerOrder, WebhookTypeOK, ClientGivesUp, Fresh, Waiting,
           WorksOn, Counted
  <2>. QED
    BY <2>1, <2>2, <2>3, <2>4, <2>5, <2>6, <2>7 DEF Inductive
<1>17. ASSUME NEW k \in Keys, Elapse(k) \/ DataExpires(k)
      PROVE  Inductive'
  <2>1. OneOwner'
    BY <1>17, PayloadFields, WebhookAssumption
       DEF Inductive, OneWebhookPerOrder, WebhookTypeOK, Elapse, DataExpires, OneOwner,
           WorksOn
  <2>2. OutcomeIsTrue'
    BY <1>17, PayloadFields, WebhookAssumption
       DEF Inductive, OneWebhookPerOrder, WebhookTypeOK, Elapse, DataExpires,
           OutcomeIsTrue, Counted
  <2>3. AttemptsBounded'
    BY <1>17, PayloadFields, WebhookAssumption
       DEF Inductive, OneWebhookPerOrder, WebhookTypeOK, Elapse, DataExpires,
           AttemptsBounded, Counted
  <2>4. \A q \in Procs : Counted(q)'
    BY <1>17, PayloadFields, WebhookAssumption
       DEF Inductive, OneWebhookPerOrder, WebhookTypeOK, Elapse, DataExpires, Counted,
           Waiting, HasAttempts, Matches, OneOwner, WorksOn, Fresh
  <2>5. \A l \in Keys : Matches(l)'
    BY <1>17, PayloadFields, WebhookAssumption
       DEF Inductive, OneWebhookPerOrder, WebhookTypeOK, Elapse, DataExpires, Matches,
           Counted
  <2>6. \A j \in Webhooks : HasAttempts(j)'
    BY <1>17, PayloadFields, WebhookAssumption
       DEF Inductive, OneWebhookPerOrder, WebhookTypeOK, Elapse, DataExpires, HasAttempts,
           Waiting, Counted, OneOwner, WorksOn, Matches
  <2>7. \A j \in Webhooks : Fresh(j)'
    BY <1>17, PayloadFields, WebhookAssumption
       DEF Inductive, OneWebhookPerOrder, WebhookTypeOK, Elapse, DataExpires, Fresh,
           Waiting, WorksOn, Counted
  <2>. QED
    BY <2>1, <2>2, <2>3, <2>4, <2>5, <2>6, <2>7 DEF Inductive
<1>18. CASE UNCHANGED webhookVars
  BY <1>18
     DEF webhookVars, Inductive, OneOwner, OutcomeIsTrue, AttemptsBounded, Counted,
         Matches, HasAttempts, Fresh, Waiting, WorksOn
<1>. QED
  BY <1>1, <1>2, <1>3, <1>4, <1>5, <1>6, <1>7, <1>8, <1>9, <1>10, <1>11, <1>12,
     <1>13, <1>14, <1>15, <1>16, <1>17, <1>18
     DEF WebhookNext, Attempt, Work

\* The number of attempts that travels through Redis with a webhook is the
\* number that was made, and a webhook is in one place at a time: queued, claimed
\* by one worker, or in the hands of the request that sent it.
THEOREM Invariance ==
    ASSUME OneWebhookPerOrder
    PROVE  WebhookSpec => [](WebhookTypeOK /\ Inductive)
<1>1. WebhookInit => WebhookTypeOK /\ Inductive
  BY InitType, InductiveInit
<1>2. WebhookTypeOK /\ Inductive /\ [WebhookNext]_webhookVars => (WebhookTypeOK /\ Inductive)'
  BY TypeStep, InductiveStep
<1>. QED
  BY <1>1, <1>2, PTL DEF WebhookSpec

\* No webhook is attempted more often than maxWebhookAttempts says, whatever is
\* lost, expires or restarts.
THEOREM AttemptsAreBounded ==
    ASSUME OneWebhookPerOrder
    PROVE  WebhookSpec => []AttemptsBounded
<1>1. Inductive => AttemptsBounded
  BY DEF Inductive
<1>. QED
  BY <1>1, Invariance, PTL

\* The count of the ZREM is enough for any number of workers not to deliver the
\* same webhook at the same time, even with batches that are out of date.
THEOREM OneOwnerAtATime ==
    ASSUME OneWebhookPerOrder
    PROVE  WebhookSpec => []OneOwner
<1>1. Inductive => OneOwner
  BY DEF Inductive
<1>. QED
  BY <1>1, Invariance, PTL

\* Receipts, exhaustions and alerts tell what happened (webhook.go:415, 449); the
\* answer 200 tells no more than that the merchant acknowledged or that a retry is
\* queued (webhook.go:181, 190, 349).
THEOREM OutcomesAreTrue ==
    ASSUME OneWebhookPerOrder
    PROVE  WebhookSpec => []OutcomeIsTrue
<1>1. Inductive => OutcomeIsTrue
  BY DEF Inductive
<1>. QED
  BY <1>1, Invariance, PTL

\* Once the merchant has acknowledged a webhook, nobody sends it again.
THEOREM AcknowledgedIsNotSentAgain ==
    ASSUME OneWebhookPerOrder
    PROVE  WebhookSpec => NotSentAgain
<1>1. WebhookTypeOK /\ Inductive /\ [WebhookNext]_webhookVars
        => [\A i \in acked : tries'[i] = tries[i]]_webhookVars
  <2>. SUFFICES ASSUME WebhookTypeOK, Inductive, WebhookNext, NEW i \in acked
       PROVE  tries'[i] = tries[i]
    OBVIOUS
  <2>1. ASSUME NEW p \in Procs, Deliver(p)
        PROVE  tries'[i] = tries[i]
    <3>1. wp[p] # None /\ wpc[p] = "post"
      BY <2>1, PayloadFields DEF Deliver, WebhookTypeOK
    <3>2. wp[p].webhook # i
      BY <3>1 DEF Inductive, Counted
    <3>. QED
      BY <2>1, <3>2 DEF Deliver, WebhookTypeOK
  <2>2. CASE \A p \in Procs : ~ Deliver(p)
    <3>1. tries' = tries
      BY <2>2
         DEF WebhookNext, Attempt, Work, historyVars, SendWebhook, Store, Enqueue,
             MarkExhausted,
                  DropData, Alert, MarkDelivered, CommandFails, Crash, Poll, BatchDone, Load,
                  ForgetData, Claim, ClientGivesUp, Elapse, DataExpires
    <3>. QED
      BY <3>1
  <2>. QED
    BY <2>1, <2>2
<1>. QED
  BY <1>1, Invariance, PTL DEF WebhookSpec, NotSentAgain

-----------------------------------------------------------------------------
(* Webhooks that share a key                                               *)

\* A step of a process disturbs the invariant only where it writes: an attempt
\* adds one to a count, and every other step moves payloads from place to place.
LEMMA CausedStep ==
    ASSUME WebhookTypeOK, WebhookTypeOK', Caused, [WebhookNext]_webhookVars
    PROVE  Caused'
<1>. USE DEF redisVars, historyVars, workerVars, Proceed, Procs, CountBehind
<1>1. ASSUME NEW i \in Webhooks, SendWebhook(i)
      PROVE  Caused'
  BY <1>1, PayloadFields, WebhookAssumption
     DEF SendWebhook, WebhookTypeOK, Caused, OutcomeHasCause, PayloadCaused, DataCaused, Matches
<1>2. ASSUME NEW p \in Procs, Deliver(p)
      PROVE  Caused'
  <2>. DEFINE x == wp[p]
              i == x.webhook
  <2>1. /\ x \in Payload /\ x # None /\ i \in Webhooks /\ x.attempt \in Nat
        /\ Counting(x) \in Payload /\ Counting(x).webhook = i
        /\ Counting(x).attempt = x.attempt + 1
        /\ wpc[p] = "post"
    BY <1>2, PayloadFields DEF Deliver, WebhookTypeOK
  <2>2. /\ tries'[i] = tries[i] + 1
        /\ \A j \in Webhooks : tries[j] \in Nat /\ tries'[j] \in Nat /\ tries'[j] >= tries[j]
        /\ acked \subseteq acked'
        /\ UNCHANGED <<data, delivered, exhausted, alerts, response, planned>>
    BY <1>2, <2>1 DEF Deliver, Delivered, Failed, WebhookTypeOK
  <2>3. x.attempt <= tries[i] /\ x.attempt < MaxAttempts /\ (p \in Webhooks => i = p)
    BY <2>1 DEF Caused, PayloadCaused
  <2>4. \A q \in Procs : q # p => PayloadCaused(q)'
    <3>. SUFFICES ASSUME NEW q \in Procs, q # p, wp'[q] # None
         PROVE  PayloadCaused(q)'
      BY DEF PayloadCaused
    <3>1. wp'[q] = wp[q] /\ wpc'[q] = wpc[q] /\ PayloadCaused(q)
      BY <1>2 DEF Deliver, Delivered, Failed, WebhookTypeOK, Caused
    <3>2. wp[q].webhook \in Webhooks /\ wp[q].attempt \in Nat
      BY <3>1, PayloadFields DEF WebhookTypeOK
    <3>3. wp[q].attempt <= tries'[wp[q].webhook]
      BY <2>2, <3>1, <3>2 DEF PayloadCaused
    <3>. QED
      BY <2>2, <3>1, <3>3 DEF PayloadCaused
  <2>5. PayloadCaused(p)'
    <3>1. CASE Delivered(p)
      <4>1. wp' = wp /\ wpc'[p] \in {"forget", "receipt"} /\ i \in acked'
        BY <2>1, <3>1 DEF Delivered, WebhookTypeOK
      <4>2. x.attempt <= tries'[i]
        BY <2>1, <2>2, <2>3
      <4>. QED
        BY <2>3, <4>1, <4>2 DEF PayloadCaused
    <3>2. CASE Failed(p)
      <4>1. /\ wp'[p] = Counting(x)
            /\ wpc'[p] = IF x.attempt + 1 >= MaxAttempts THEN "exhaust" ELSE "store"
        BY <3>2 DEF Failed, WebhookTypeOK
      <4>2. x.attempt + 1 <= tries'[i]
        BY <2>1, <2>2, <2>3
      <4>3. x.attempt + 1 >= MaxAttempts \/ x.attempt + 1 < MaxAttempts
        BY <2>1, WebhookAssumption
      <4>. QED
        BY <2>1, <2>3, <4>1, <4>2, <4>3 DEF PayloadCaused
    <3>. QED
      BY <1>2, <3>1, <3>2 DEF Deliver
  <2>6. \A k \in Keys : DataCaused(k)'
    <3>. SUFFICES ASSUME NEW k \in Keys, data[k] # None
         PROVE  DataCaused(k)'
      BY <2>2 DEF DataCaused
    <3>1. DataCaused(k) /\ data[k].webhook \in Webhooks /\ data[k].attempt \in Nat
      BY PayloadFields DEF WebhookTypeOK, Caused
    <3>2. data[k].attempt <= tries'[data[k].webhook]
      BY <2>2, <3>1 DEF DataCaused
    <3>. QED
      BY <2>2, <3>1, <3>2 DEF DataCaused, Matches
  <2>7. OutcomeHasCause'
    <3>1. \A j \in Webhooks : tries[j] >= MaxAttempts => tries'[j] >= MaxAttempts
      BY <2>2, WebhookAssumption
    <3>2. \A q \in Procs : wpc'[q] = "post" => wp'[q].attempt < MaxAttempts
      BY <2>4, <2>5 DEF WebhookTypeOK, PayloadCaused
    <3>3. alerts \subseteq Webhooks /\ OutcomeHasCause
      BY DEF WebhookTypeOK, Caused
    <3>. QED
      BY <2>2, <3>1, <3>2, <3>3 DEF OutcomeHasCause
  <2>. QED
    BY <2>4, <2>5, <2>6, <2>7 DEF Caused
<1>. USE PayloadFields, WebhookAssumption
     DEF WebhookTypeOK, Caused, OutcomeHasCause, PayloadCaused, DataCaused, Matches
<1>3. ASSUME NEW p \in Procs, Store(p) PROVE Caused'
  BY <1>3 DEF Store, Returns, End, Key
<1>4. ASSUME NEW p \in Procs, Enqueue(p) PROVE Caused'
  BY <1>4 DEF Enqueue, End, Key
<1>5. ASSUME NEW p \in Procs, MarkExhausted(p) PROVE Caused'
  BY <1>5 DEF MarkExhausted, Key
<1>6. ASSUME NEW p \in Procs, DropData(p) PROVE Caused'
  BY <1>6 DEF DropData, Key
<1>7. ASSUME NEW p \in Procs, Alert(p) PROVE Caused'
  BY <1>7 DEF Alert, End
<1>8. ASSUME NEW w \in Workers, ForgetData(w) PROVE Caused'
  BY <1>8 DEF ForgetData, Key
<1>9. ASSUME NEW p \in Procs, MarkDelivered(p) PROVE Caused'
  BY <1>9 DEF MarkDelivered, End, Key
<1>10. ASSUME NEW p \in Procs, CommandFails(p) PROVE Caused'
  BY <1>10 DEF CommandFails, End
<1>11. ASSUME NEW w \in Workers, Poll(w) \/ BatchDone(w) PROVE Caused'
  BY <1>11 DEF Poll, BatchDone
<1>12. ASSUME NEW w \in Workers, NEW k \in batch[w], Claim(w, k) PROVE Caused'
  BY <1>12 DEF Claim, Remove
<1>13. ASSUME NEW w \in Workers, Load(w) PROVE Caused'
  BY <1>13 DEF Load
<1>14. ASSUME NEW k \in Keys, Elapse(k) \/ DataExpires(k) PROVE Caused'
  BY <1>14 DEF Elapse, DataExpires
<1>15. ASSUME NEW i \in Webhooks, ClientGivesUp(i) PROVE Caused'
  BY <1>15 DEF ClientGivesUp
<1>16. ASSUME NEW p \in Procs, Crash(p) PROVE Caused'
  BY <1>16 DEF Crash
<1>17. CASE UNCHANGED webhookVars
  BY <1>17 DEF webhookVars
<1>. QED
  BY <1>1, <1>2, <1>3, <1>4, <1>5, <1>6, <1>7, <1>8, <1>9, <1>10, <1>11, <1>12,
     <1>13, <1>14, <1>15, <1>16, <1>17
     DEF WebhookNext, Attempt, Work

\* Whatever the webhooks are about, and although those of one order overwrite
\* each other in Redis: what operations read has its cause in a webhook of that
\* order, and what is answered 200 was acknowledged or queued again.
THEOREM OutcomesHaveCauses == WebhookSpec => []OutcomeHasCause
<1>1. WebhookInit => Caused
  BY WebhookAssumption
     DEF WebhookInit, Procs, Caused, OutcomeHasCause, PayloadCaused, DataCaused
<1>2. WebhookTypeOK /\ WebhookTypeOK' /\ Caused /\ [WebhookNext]_webhookVars => Caused'
  BY CausedStep
<1>3. Caused => OutcomeHasCause
  BY DEF Caused
<1>. QED
  BY <1>1, <1>2, <1>3, TypeCorrect, PTL DEF WebhookSpec
=============================================================================
