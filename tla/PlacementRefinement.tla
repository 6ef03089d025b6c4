------------------------ MODULE PlacementRefinement ------------------------
(***************************************************************************)
(* OrderPlacement implements Sales.                                        *)
(***************************************************************************)
EXTENDS OrderPlacement

Asks == [customer: Customers, restaurant: Restaurants, address: Addresses, cart: Carts]

requestBar == [c \in Calls |->
                 [customer |-> call[c].customer, restaurant |-> call[c].restaurant,
                  address |-> call[c].address, cart |-> call[c].cart]]

\* A call that was admitted stays so when it has its offer, and else until it fails.
admittedBar == {c \in Calls : call[c].pc \in {"open", "addressed"} \/ call[c].lines # <<>>}

offerBar == [c \in Calls |-> call[c].lines]

\* The order with its payment.
SaleOf(o) == [customer |-> order[o].customer, restaurant |-> order[o].restaurant,
              address |-> order[o].address, lines |-> order[o].lines, paid |-> payment[o]]

soldBar == [o \in OrderIds |-> IF order[o] = NoRow THEN NoRow ELSE SaleOf(o)]

numberBar == [c \in Calls |-> call[c].order]

toldBar == {c \in Calls : reply[c] = "ok"}

ChargeFor(lines) == Total(lines) + DeliveryFee

Abstract == INSTANCE Sales
              WITH Requests <- Asks, Rows <- MenuRow, Charge <- ChargeFor, Nothing <- NoRow,
                   status <- restaurant, request <- requestBar, admitted <- admittedBar,
                   offer <- offerBar, sold <- soldBar, number <- numberBar, told <- toldBar

\* Whatever fails, is deleted, repriced or closed between the statements of createOrder,
\* its orders are those of Sales: offered from one menu, made in one step while all that
\* they name is there, and never changed.
ImplementsSales == Abstract!Spec

=============================================================================
