----------------------------- MODULE MCServices ----------------------------
(***************************************************************************)
(* The instance of Services for TLC: those of Intake, Webhook and Bank.    *)
(* The two posts, workers and reports of a bank share their names, so that *)
(* one symmetry serves the three.                                          *)
(***************************************************************************)
EXTENDS Services, MCIntake, MCWebhook, MCBank

\* The variables of the services that are not at work stay as one initial state
\* has them.
OneAtWork ==
  /\ channel = "sms" => polling /\ repo = "postgres"
  /\ service # "intake" => channel = "sms"
=============================================================================
