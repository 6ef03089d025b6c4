-------------------------------- MODULE Sales --------------------------------
(***************************************************************************)
(* What POST /order promises, without statements, transactions, locks and  *)
(* time limits: a customer whose restaurant is open at one moment is made  *)
(* an offer from the menu of one later moment, and at a third moment the   *)
(* order and its payment are there at once, if all that they name still    *)
(* is.  From then on nothing of it changes or goes away.  OrderPlacement   *)
(* implements it.                                                          *)
(***************************************************************************)
EXTENDS Sequences

CONSTANTS
    Calls, Requests,        \* who asks, and for what
    Restaurants, Items,     \* what may be on sale, and where
    OrderIds,
    MenuOf, OwnerOf,        \* the restaurant of an item, the customer of an address
    Rows,                   \* a price each, and whether it is available
    Charge(_),              \* what is to be paid for the lines of an order
    Nothing

VARIABLES
    status,     \* of each restaurant: OPEN, BUSY, CLOSED, or Nothing when it is gone
    menu,       \* of each item: its row, or Nothing
    address,    \* those that exist
    request,    \* what each call asks for
    admitted,   \* the calls whose restaurant was open
    offer,      \* the lines each call was offered, none at first
    sold,       \* the orders
    number,     \* the order of each call
    told        \* the calls that were told of success

catalogue == <<status, menu, address>>
sales == <<sold, number>>
vars == <<catalogue, request, admitted, offer, sales, told>>

Named(lines) == {lines[k].item : k \in DOMAIN lines}

Sold == {o \in OrderIds : sold[o] # Nothing}

Init ==
    /\ \A i \in Items : menu[i] # Nothing => status[MenuOf[i]] # Nothing
    /\ request \in [Calls -> Requests]
    /\ admitted = {} /\ told = {}
    /\ offer = [c \in Calls |-> <<>>]
    /\ sold = [o \in OrderIds |-> Nothing]
    /\ number = [c \in Calls |-> Nothing]

Admit(c) ==
    /\ offer[c] = <<>>
    /\ status[request[c].restaurant] \in {"OPEN", "BUSY"}
    /\ admitted' = admitted \cup {c}
    /\ UNCHANGED <<catalogue, request, offer, sales, told>>

Offer(c) ==
    LET cart == request[c].cart IN
    /\ c \in admitted /\ offer[c] = <<>> /\ cart # <<>>
    /\ \A i \in Named(cart) :
          menu[i] # Nothing /\ menu[i].isAvailable /\ MenuOf[i] = request[c].restaurant
    /\ offer' = [offer EXCEPT ![c] =
                    [k \in DOMAIN cart |->
                        [item |-> cart[k].item, quantity |-> cart[k].quantity,
                         price |-> menu[cart[k].item].price]]]
    /\ UNCHANGED <<catalogue, request, admitted, sales, told>>

\* Calls that fail before they have an offer.
GiveUp(calls) ==
    /\ \A c \in calls : offer[c] = <<>>
    /\ admitted' = admitted \ calls
    /\ UNCHANGED <<catalogue, request, offer, sales, told>>

Sell(c, o) ==
    LET r == request[c] IN
    /\ offer[c] # <<>> /\ number[c] = Nothing /\ o \notin Sold
    /\ status[r.restaurant] # Nothing
    /\ r.address \in address /\ OwnerOf[r.address] = r.customer
    /\ \A i \in Named(offer[c]) : menu[i] # Nothing
    /\ sold' = [sold EXCEPT ![o] =
                   [customer |-> r.customer, restaurant |-> r.restaurant, address |-> r.address,
                    lines |-> offer[c], paid |-> Charge(offer[c])]]
    /\ number' = [number EXCEPT ![c] = o]
    /\ UNCHANGED <<catalogue, request, admitted, offer, told>>

Tell(c) ==
    /\ number[c] # Nothing
    /\ told' = told \cup {c}
    /\ UNCHANGED <<catalogue, request, admitted, offer, sales>>

\* What was deleted does not come back, and what an order names is not deleted.
ChangeStatus(r) ==
    /\ status[r] # Nothing
    /\ \E s \in {"OPEN", "BUSY", "CLOSED", Nothing} :
          /\ s = Nothing => /\ \A o \in Sold : sold[o].restaurant # r
                            /\ \A i \in Items : MenuOf[i] = r => menu[i] = Nothing
          /\ status' = [status EXCEPT ![r] = s]
    /\ UNCHANGED <<menu, address, request, admitted, offer, sales, told>>

ChangeItem(i) ==
    /\ menu[i] # Nothing
    /\ \E row \in Rows \cup {Nothing} :
          /\ row = Nothing => \A o \in Sold : i \notin Named(sold[o].lines)
          /\ menu' = [menu EXCEPT ![i] = row]
    /\ UNCHANGED <<status, address, request, admitted, offer, sales, told>>

DeleteAddress(a) ==
    /\ \A o \in Sold : sold[o].address # a
    /\ address' = address \ {a}
    /\ UNCHANGED <<status, menu, request, admitted, offer, sales, told>>

Next ==
    \/ \E c \in Calls : Admit(c) \/ Offer(c) \/ Tell(c)
    \/ \E calls \in SUBSET admitted : GiveUp(calls)
    \/ \E c \in Calls, o \in OrderIds : Sell(c, o)
    \/ \E r \in Restaurants : ChangeStatus(r)
    \/ \E i \in Items : ChangeItem(i)
    \/ \E a \in address : DeleteAddress(a)

Spec == Init /\ [][Next]_vars

=============================================================================
