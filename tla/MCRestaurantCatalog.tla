------------------------ MODULE MCRestaurantCatalog ------------------------
(***************************************************************************)
(* Small instances of RestaurantCatalog.                                   *)
(***************************************************************************)
EXTENDS RestaurantCatalog, TLC

CONSTANTS r1, n1, n2, c1, c2, c3

\* Every kind of request, for any restaurant.
SomeRequests ==
    {q \in Request :
        /\ q.op = "create" => q.name = n1
        /\ q.op = "setStatus" => q.status = "CLOSED"
        /\ q.op = "update" => \/ q.name \in {n1, Absent} /\ q.status = Absent
                              \/ q.name = n2 /\ q.status = "CLOSED"}

Symmetry == Permutations(Calls)
=============================================================================
