------------------------------ MODULE MCIntake -----------------------------
(***************************************************************************)
(* The instance of Intake for TLC: two notifications, one of a high        *)
(* amount, and one whose sender is padded with spaces, each posted twice   *)
(* or beside another; an order of each amount. Four photos: twice the same *)
(* picture, another picture of the same transfer, one of another transfer. *)
(***************************************************************************)
EXTENDS Intake, TLC, FiniteSets

CONSTANTS p1, p2, r1, r2, r3, a1, o1, o2

MCSenderOf   == r1 :> "listed" @@ r2 :> "listed" @@ r3 :> "padded"
MCBodyOf     == [r \in Receipts |-> "credit"]
MCAccountOf  == [r \in Receipts |-> a1]
MCAmountOf   == r1 :> 1 @@ r2 :> 2 @@ r3 :> 1
MCReceivedAt == r1 :> 2 @@ r2 :> 0 @@ r3 :> 0
MCPlacedFor  == o1 :> <<a1, 1>> @@ o2 :> <<a1, 2>>
MCUpdates    == 1 .. 4
MCImageOf    == <<"photo", "screenshot", "photo", "other">>
MCRefOf      == ("photo" :> "transfer" @@ "screenshot" :> "transfer"
                   @@ "other" :> "another" @@ "error page" :> "")
\* Of the photos that come by webhook, at any time, TLC takes two. By polling they
\* are handled one at a time, in their order, and TLC takes three between two starts;
\* or two over PostgreSQL, where none leaves a record the others could meet.
TwoAtATime ==
  /\ polling \/ Cardinality(confirmed) <= 2
  /\ Cardinality({u \in Updates : step[u] # "none"}) <= (IF repo = "stub" THEN 3 ELSE 2)
PostSymmetry == Permutations(Posts)
=============================================================================
