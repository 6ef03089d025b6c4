----------------------------- MODULE MCDispatch -----------------------------
(***************************************************************************)
(* Dispatch and its refinement on small sets of rows, users and requests.  *)
(***************************************************************************)
EXTENDS DispatchRefinement, TLC

CONSTANTS o1, o2, v1, v2

NoneCreated == <<>>
BothCreated == v1 :> o1 @@ v2 :> o2

\* Rows, drivers and requests are only ever compared with each other.
Symmetry == Permutations(Orders) \cup Permutations(Deliveries)
            \cup Permutations(Drivers) \cup Permutations(CreateCalls)
            \cup Permutations(AcceptCalls) \cup Permutations(StatusCalls)

=============================================================================
