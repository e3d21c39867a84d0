------------------------------ MODULE Services -----------------------------
(***************************************************************************)
(* Services that share no table, no key and no call: the two ways a        *)
(* payment is reported (Intake), the webhooks of the notification service  *)
(* (Webhook) and the accounts of the bank service (Bank). What is true of  *)
(* each alone is true of them together, and a behaviour is one of them.    *)
(***************************************************************************)
EXTENDS Intake, Webhook, Bank

VARIABLE service

serviceVars == <<service, vars, webhookVars, bankVars>>

ServicesInit ==
  /\ service \in {"intake", "webhook", "bank"}
  /\ Init
  /\ WebhookInit
  /\ BankInit

ServicesNext ==
  \/ service = "intake" /\ Next /\ UNCHANGED <<service, webhookVars, bankVars>>
  \/ service = "webhook" /\ WebhookNext /\ UNCHANGED <<service, vars, bankVars>>
  \/ service = "bank" /\ BankNext /\ UNCHANGED <<service, vars, webhookVars>>

ServicesSpec == ServicesInit /\ [][ServicesNext]_serviceVars

\* The records of the service at work keep their shape.
ServicesTypeOK ==
  \/ service = "intake" /\ TypeOK
  \/ service = "webhook" /\ WebhookTypeOK
  \/ service = "bank" /\ BankTypeOK
=============================================================================
