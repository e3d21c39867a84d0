------------------------------ MODULE MCWebhook ------------------------------
(***************************************************************************)
(* The instance of Webhook for TLC: two instances of the service, two      *)
(* orders with a webhook each, and the five attempts of the code.          *)
(***************************************************************************)
EXTENDS Webhook, TLC

CONSTANTS h1, h2, k1, k2, v1, v2

MCKeyOf == (h1 :> k1 @@ h2 :> k2)

WorkerSymmetry == Permutations(Workers)
=============================================================================
