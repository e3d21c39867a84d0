----------------------------- MODULE WalletCalls -----------------------------
(***************************************************************************)
(* The wallet service as its clients see it: a POST to /wallet/debit or    *)
(* /wallet/credit over HTTP.  The reference is checked when the request    *)
(* arrives and the money moves later, at one instant or not at all         *)
(* (KeepsPromise of Wallet shows that the service keeps this promise).     *)
(* The client waits, and may give up while its request is still underway.  *)
(***************************************************************************)
EXTENDS Integers

CONSTANTS
    Callers,   \* the client processes
    Refs,      \* the reference_id values they send
    Amount,    \* the amount each reference stands for
    Funds      \* what the wallet holds when the model starts

ASSUME WalletCallsAssumption ==
    /\ Funds \in Nat
    /\ Amount \in [Refs -> Nat \ {0}]

VARIABLES
    balance,   \* the available balance of the merchant's wallet
    entries,   \* its ledger: the calls that took effect
    flying     \* the calls the service is working on

walletVars == <<balance, entries, flying>>

Call == [ref: Refs, op: {"credit", "debit"}, by: Callers]

WalletInit == balance = Funds /\ entries = {} /\ flying = {}

Posted(ref) == \E e \in entries : e.ref = ref

\* The reference is in the ledger: success, and nothing moves.
Skip(c) == Posted(c.ref) /\ UNCHANGED walletVars

\* Mutant of Accept: the reference is not looked up.
AcceptUnchecked(c) ==
    /\ flying' = flying \cup {c}
    /\ UNCHANGED <<balance, entries>>

\* A new reference: the service starts to work on the call.
Accept(c) ==
    /\ ~ Posted(c.ref)
    /\ flying' = flying \cup {c}
    /\ UNCHANGED <<balance, entries>>

Affordable(c) == c.op = "debit" => balance >= Amount[c.ref]

\* The money moves and the entry is written.
Settle(c) ==
    /\ c \in flying
    /\ Affordable(c)
    /\ flying' = flying \ {c}
    /\ entries' = entries \cup {c}
    /\ balance' = IF c.op = "debit" THEN balance - Amount[c.ref]
                                    ELSE balance + Amount[c.ref]

\* The service answers with an error, or dies: nothing moves.
Refuse(c) ==
    /\ c \in flying
    /\ flying' = flying \ {c}
    /\ UNCHANGED <<balance, entries>>

WalletStep == \E c \in flying : Settle(c) \/ Refuse(c)

\* What its clients may rely on, whoever they are and however they overlap.
ServiceSpec ==
    WalletInit /\ [][(\E c \in Call : Accept(c)) \/ WalletStep]_walletVars

\* The call took effect, which is what a 200 tells the client.
Took(c) == c \in entries
==============================================================================
