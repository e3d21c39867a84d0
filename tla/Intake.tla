------------------------------- MODULE Intake ------------------------------
(***************************************************************************)
(* The two ways a payment is reported: an SMS of the bank (Sms, the parser *)
(* service) or the photo of a slip (Slip, the Telegram bot). The services  *)
(* share no table, no key and no call, so that whatever is true of each    *)
(* alone is true of both together: a behaviour is one of either.           *)
(***************************************************************************)
EXTENDS Sms, Slip

VARIABLE channel

vars == <<channel, smsVars, slipVars>>

Init ==
  /\ channel \in {"sms", "slip"}
  /\ SmsInit
  /\ SlipInit

Next ==
  \/ channel = "sms" /\ SmsNext /\ UNCHANGED <<channel, slipVars>>
  \/ channel = "slip" /\ SlipNext /\ UNCHANGED <<channel, smsVars>>

Spec == Init /\ [][Next]_vars

TypeOK == channel \in {"sms", "slip"} /\ SmsTypeOK /\ SlipTypeOK
=============================================================================
