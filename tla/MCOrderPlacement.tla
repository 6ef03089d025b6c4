-------------------------- MODULE MCOrderPlacement --------------------------
(***************************************************************************)
(* OrderPlacement on small sets of rows, users, carts and requests.        *)
(***************************************************************************)
EXTENDS PlacementRefinement

CONSTANTS r1, r2, i1, i2, a1, a2, u1, u2

\* Each user has one address, and the menus are one or one for each item.
Owners   == [a \in Addresses |-> IF a = a1 THEN u1 ELSE u2]
OneMenu  == [i \in Items |-> r1]
TwoMenus == [i \in Items |-> IF i = i1 THEN r1 ELSE r2]

Of(i, n) == [item |-> i, quantity |-> n]

\* Carts of one restaurant, of the other and of both; one is empty, one names an
\* item twice.
OneCallCarts == {<<>>, <<Of(i1, 2), Of(i1, 1)>>, <<Of(i2, 4)>>, <<Of(i1, 1), Of(i2, 1)>>}

\* The same with two items of one restaurant.
TwoCallCarts == {<<>>, <<Of(i1, 2), Of(i1, 1)>>, <<Of(i1, 1), Of(i2, 2)>>}
=============================================================================
