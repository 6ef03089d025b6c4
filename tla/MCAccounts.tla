----------------------------- MODULE MCAccounts -----------------------------
(***************************************************************************)
(* Small instances of Accounts.                                            *)
(***************************************************************************)
EXTENDS AccountsRefinement, TLC

CONSTANTS e1, s1, t1, c1, c2, c3

\* A shop registers like a customer.
AllRequests == {r \in Request : r.op # "shop"}

OneOwner == [k \in {s1, t1} |-> e1]

Symmetry == Permutations(Calls)
=============================================================================
