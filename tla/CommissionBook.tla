---------------------------- MODULE CommissionBook ---------------------------
(***************************************************************************)
(* What the commission service promises of its tables: a request stores    *)
(* one commission at most, whose shares make up the fee; only then are the *)
(* shares entered, each whole, the agent's before the partner's; and the   *)
(* request is answered once, truthfully, and does nothing afterwards. It   *)
(* may stop anywhere. Percentages, rounding, statements and wallets are    *)
(* not part of the promise.                                                *)
(***************************************************************************)
EXTENDS Integers

CONSTANTS Requests, Commissions, None

VARIABLES
    rows,      \* the commissions that are stored
    ledger,    \* the shares that are entered
    reply      \* what each request was told

vars == <<rows, ledger, reply>>

Init ==
    /\ rows = {}
    /\ ledger = {}
    /\ reply = [r \in Requests |-> "none"]

AddsUp(c) ==
    /\ {c.system, c.agentAmount, c.partnerAmount} \subseteq Nat
    /\ c.fee = c.system + c.agentAmount + c.partnerAmount

AgentEntry(c) ==
    [ref |-> c.id, share |-> "agent", wallet |-> c.agent, amount |-> c.agentAmount]

PartnerEntry(c) ==
    [ref |-> c.id, share |-> "partner", wallet |-> c.partner, amount |-> c.partnerAmount]

\* What has to be entered for a commission.
Owed(c) == {e \in {AgentEntry(c), PartnerEntry(c)} : e.wallet # None /\ e.amount > 0}

Record(r) ==
    /\ \A c \in rows : c.id # r
    /\ \E c \in Commissions : c.id = r /\ AddsUp(c) /\ rows' = rows \cup {c}
    /\ UNCHANGED ledger

Enter(r) ==
    /\ \E c \in rows : \E e \in Owed(c) :
           /\ c.id = r
           /\ e = PartnerEntry(c) => Owed(c) \ {e} \subseteq ledger
           /\ ledger' = ledger \cup {e}
    /\ UNCHANGED rows

\* The answer is about the tables as they are by then; an error says nothing.
Answer(r) ==
    \E a \in {"ok", "invalid_amount", "calc_error", "record_error"} :
        /\ a = "ok" => \E c \in rows' : c.id = r /\ Owed(c) \subseteq ledger'
        /\ a \in {"invalid_amount", "calc_error"} => \A c \in rows' : c.id # r
        /\ reply' = [reply EXCEPT ![r] = a]

Step(r) ==
    /\ reply[r] = "none"
    /\ Record(r) \/ Enter(r) \/ UNCHANGED <<rows, ledger>>
    /\ Answer(r) \/ UNCHANGED reply

Next == \E r \in Requests : Step(r)

Spec == Init /\ [][Next]_vars
=============================================================================
