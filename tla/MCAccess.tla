------------------------------ MODULE MCAccess -----------------------------
(* One account of every kind and an admin who is not there yet; three      *)
(* logins at once, two requests at once, or a login and a request.         *)
EXTENDS Access, TLC

CONSTANTS adm, new, mer, agt, par, l1, l2, l3, q1, q2

MCKindOf   == adm :> "admin" @@ new :> "admin" @@ mer :> "merchant" @@ agt :> "agent"
              @@ par :> "partner"
MCParentOf == mer :> agt @@ agt :> par @@ [u \in {adm, new, par} |-> Nobody]
MCLoads    == {Logins, Requests} \union {{l, q} : l \in Logins, q \in Requests}
AccessSymmetry == Permutations(Logins) \union Permutations(Requests)
=============================================================================
