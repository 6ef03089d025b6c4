--------------------------- MODULE OrderPlacement ---------------------------
(***************************************************************************)
(* Placing an order, OrderService.createOrder of                           *)
(* src/src/order/order.service.ts, while the restaurants, menu items and   *)
(* addresses it names are changed and deleted.                             *)
(*                                                                         *)
(* A call is one POST /order.  Its handler reads the restaurant, the       *)
(* address and the menu in three statements of their own, prices the order *)
(* from what it has read, and writes the order, its lines and its payment  *)
(* in one interactive transaction.  A row inserted in a transaction is     *)
(* invisible until the commit, but the rows it references cannot be        *)
(* deleted meanwhile.  A deletion of a referenced row is refused.          *)
(*                                                                         *)
(* A definition whose comment begins with "Fault:" is no part of the       *)
(* specification: it is a faulty form of the definition that follows it,   *)
(* which one of the properties must find.                                  *)
(***************************************************************************)
EXTENDS Integers, Sequences, FiniteSets, Functions

CONSTANTS
    Restaurants,    \* rows of "restaurants"
    Items,          \* rows of "menu_items"
    Addresses,      \* rows of "addresses"
    Customers,      \* users with the role CUSTOMER
    MenuOf,         \* the restaurant of each item, which no handler changes
    OwnerOf,        \* the customer of each address, which no handler changes
    Prices,         \* the prices a menu item is given
    Carts,          \* the items arrays a request may carry
    Calls,          \* requests POST /order
    OrderIds,       \* primary keys the table "order" may give out
    MaxAmount,      \* the largest number a Decimal(10, 2) column holds
    PoolSize,       \* connections of the pg pool
    NoRow           \* a missing row

DeliveryFee == 30

CartLine == [item: Items, quantity: Nat \ {0}]

ASSUME PlacementAssumption ==
    /\ MenuOf \in [Items -> Restaurants]
    /\ OwnerOf \in [Addresses -> Customers]
    /\ Prices \subseteq Nat
    /\ Carts \subseteq Seq(CartLine)
    /\ MaxAmount \in Nat
    /\ PoolSize \in Nat \ {0}

RestaurantStatus == {"OPEN", "CLOSED", "BUSY"}

MenuRow == [price: Prices, isAvailable: BOOLEAN]

\* A row of "order" with its rows of "order_items".
OrderLine == [item: Items, quantity: Nat \ {0}, price: Nat]

OrderRow == [customer: Customers, restaurant: Restaurants, address: Addresses,
             lines: Seq(OrderLine), totalPrice: 0..MaxAmount]

ASSUME NoRowAssumption ==
    NoRow \notin RestaurantStatus \cup MenuRow \cup OrderRow \cup Nat \cup OrderIds

VARIABLES
    restaurant,     \* the status column of "restaurants"
    menu,           \* the table "menu_items"
    address,        \* the keys of the rows of "addresses"
    order,          \* the tables "order" and "order_items"
    payment,        \* the amount column of "payments", by order_id
    call,           \* the handlers
    reply           \* what the client of each call has been answered

catalogue == <<restaurant, menu, address>>
sales == <<order, payment>>
vars == <<catalogue, sales, call, reply>>

-----------------------------------------------------------------------------
(* The handler's local state: pc names the last thing that happened.       *)

\* A transaction is open in the pcs of InTx.  totalPrice is not bounded before it
\* is written to its column: AmountsAgree says what it is.
InTx == {"ordered", "filled", "paid"}

Reading == {"called", "open", "addressed", "priced"}

Handler == [pc: InTx \cup Reading \cup {"idle", "committed", "done"},
            customer: Customers, restaurant: Restaurants, address: Addresses,
            cart: Carts, lines: Seq(OrderLine), order: OrderIds \cup {NoRow},
            totalPrice: {call[c].totalPrice : c \in Calls}]

Replies == {"none", "ok", "error", "timeout", "lost"}

TypeOK ==
    /\ restaurant \in [Restaurants -> RestaurantStatus \cup {NoRow}]
    /\ menu \in [Items -> MenuRow \cup {NoRow}]
    /\ address \in SUBSET Addresses
    /\ order \in [OrderIds -> OrderRow \cup {NoRow}]
    /\ payment \in [OrderIds -> 0..MaxAmount \cup {NoRow}]
    /\ call \in [Calls -> Handler]
    /\ reply \in [Calls -> Replies]

\* What a request will carry is fixed here; whether and when it arrives is not.
\* An item never outlives its restaurant.
Init ==
    /\ restaurant \in [Restaurants -> RestaurantStatus \cup {NoRow}]
    /\ menu \in [Items -> MenuRow \cup {NoRow}]
    /\ \A i \in Items : menu[i] # NoRow => restaurant[MenuOf[i]] # NoRow
    /\ address \in SUBSET Addresses
    /\ order = [o \in OrderIds |-> NoRow]
    /\ payment = [o \in OrderIds |-> NoRow]
    /\ call \in [Calls -> [pc: {"idle"}, customer: Customers, restaurant: Restaurants,
                           address: Addresses, cart: Carts, lines: {<<>>},
                           totalPrice: {0}, order: {NoRow}]]
    /\ reply = [c \in Calls |-> "none"]

-----------------------------------------------------------------------------
(* The database: connections, row locks and foreign keys.                  *)

FreeConnection == Cardinality({c \in Calls : call[c].pc \in InTx}) < PoolSize

ItemsOf(lines) == {lines[k].item : k \in DOMAIN lines}

\* Rows an order of an open transaction references are locked FOR KEY SHARE.
RestaurantHeld(r) == \E c \in Calls : call[c].pc \in InTx /\ call[c].restaurant = r
AddressHeld(a)    == \E c \in Calls : call[c].pc \in InTx /\ call[c].address = a
ItemHeld(i)       == \E c \in Calls : /\ call[c].pc \in {"filled", "paid"}
                                      /\ i \in ItemsOf(call[c].lines)

Placed == {o \in OrderIds : order[o] # NoRow}

\* The first answer is the one the client gets.
Answer(c, r) == reply' = [reply EXCEPT ![c] = IF @ = "none" THEN r ELSE @]

GoTo(c, pc) ==
    /\ call' = [call EXCEPT ![c].pc = pc]
    /\ UNCHANGED <<catalogue, sales, reply>>

\* A throw ends the handler; in the transaction it rolls everything back.
Throw(c) ==
    /\ call' = [call EXCEPT ![c].pc = "done"]
    /\ Answer(c, "error")
    /\ UNCHANGED <<catalogue, sales>>

-----------------------------------------------------------------------------
(* POST /order, OrderService.createOrder                                   *)

CallCreate(c) == call[c].pc = "idle" /\ GoTo(c, "called")

\* Fault: only that the restaurant exists is checked.
ReadRestaurantOnly(c) ==
    /\ call[c].pc = "called"
    /\ FreeConnection
    /\ IF call[c].cart # <<>> /\ restaurant[call[c].restaurant] # NoRow
         THEN GoTo(c, "open")
         ELSE Throw(c)

\* An empty cart is refused before anything is read.
ReadRestaurant(c) ==
    /\ call[c].pc = "called"
    /\ FreeConnection
    /\ IF call[c].cart # <<>> /\ restaurant[call[c].restaurant] \in {"OPEN", "BUSY"}
         THEN GoTo(c, "open")
         ELSE Throw(c)

ReadAddress(c) ==
    /\ call[c].pc = "open"
    /\ FreeConnection
    /\ IF call[c].address \in address /\ OwnerOf[call[c].address] = call[c].customer
         THEN GoTo(c, "addressed")
         ELSE Throw(c)

\* The where of findMany; deletedAt is NULL in every row, for no handler sets it.
Offered(i, r) == menu[i] # NoRow /\ menu[i].isAvailable /\ MenuOf[i] = r

\* Fault: one line for each menu item that was found.
PricedOnce(cart) ==
    LET first == {k \in DOMAIN cart : \A j \in 1..(k - 1) : cart[j].item # cart[k].item}
    IN  [k \in 1..Cardinality(first) |->
            [item |-> cart[k].item, quantity |-> cart[k].quantity,
             price |-> menu[cart[k].item].price]]

\* The lines keep their order and their repetitions; each has the price of its item.
Priced(cart) == [k \in DOMAIN cart |->
                    [item |-> cart[k].item, quantity |-> cart[k].quantity,
                     price |-> menu[cart[k].item].price]]

Total(lines) ==
    FoldFunction(LAMBDA a, b : a + b, 0,
                 [k \in DOMAIN lines |-> lines[k].price * lines[k].quantity])

ReadMenu(c) ==
    /\ call[c].pc = "addressed"
    /\ FreeConnection
    /\ IF \A i \in ItemsOf(call[c].cart) : Offered(i, call[c].restaurant)
         THEN LET lines == Priced(call[c].cart) IN
              /\ call' = [call EXCEPT ![c].pc = "priced", ![c].lines = lines,
                                      ![c].totalPrice = Total(lines)]
              /\ UNCHANGED <<catalogue, sales, reply>>
         ELSE Throw(c)

\* $transaction takes a connection; the insert checks the foreign keys and the
\* range of total_price.
InsertOrder(c) ==
    /\ call[c].pc = "priced"
    /\ FreeConnection
    /\ IF /\ restaurant[call[c].restaurant] # NoRow
          /\ call[c].address \in address
          /\ call[c].totalPrice \in 0..MaxAmount
         THEN GoTo(c, "ordered")
         ELSE Throw(c)

\* Fault: the lines take the prices of the moment.
InsertItemsRepriced(c) ==
    /\ call[c].pc = "ordered"
    /\ IF \A i \in ItemsOf(call[c].lines) : menu[i] # NoRow
         THEN /\ call' = [call EXCEPT ![c].pc = "filled", ![c].lines = Priced(call[c].cart)]
              /\ UNCHANGED <<catalogue, sales, reply>>
         ELSE Throw(c)

\* Fault: order_items has no foreign key to menu_items.
InsertItemsUnchecked(c) == call[c].pc = "ordered" /\ GoTo(c, "filled")

\* The nested create of orderItems.
InsertItems(c) ==
    /\ call[c].pc = "ordered"
    /\ IF \A i \in ItemsOf(call[c].lines) : menu[i] # NoRow
         THEN GoTo(c, "filled")
         ELSE Throw(c)

\* Fault: this.prisma in place of tx, a second connection while one is held.
InsertPaymentOutside(c) ==
    /\ call[c].pc = "filled"
    /\ FreeConnection
    /\ IF call[c].totalPrice + DeliveryFee \in 0..MaxAmount
         THEN GoTo(c, "paid")
         ELSE Throw(c)

\* Fault: an error of the insert is caught and forgotten.
InsertPaymentAnyway(c) == call[c].pc = "filled" /\ GoTo(c, "paid")

InsertPayment(c) ==
    /\ call[c].pc = "filled"
    /\ IF call[c].totalPrice + DeliveryFee \in 0..MaxAmount
         THEN GoTo(c, "paid")
         ELSE Throw(c)

\* What the order row and the payment row hold.
OrderFor(h) == [customer |-> h.customer, restaurant |-> h.restaurant,
                address |-> h.address, lines |-> h.lines, totalPrice |-> h.totalPrice]

Commit(c) ==
    /\ call[c].pc = "paid"
    /\ \E o \in OrderIds \ Placed :
          /\ order' = [order EXCEPT ![o] = OrderFor(call[c])]
          /\ payment' = [payment EXCEPT ![o] = call[c].totalPrice + DeliveryFee]
          /\ call' = [call EXCEPT ![c].pc = "committed", ![c].order = o]
    /\ UNCHANGED <<catalogue, reply>>

AnswerCreate(c) ==
    /\ call[c].pc = "committed"
    /\ call' = [call EXCEPT ![c].pc = "done"]
    /\ Answer(c, "ok")
    /\ UNCHANGED <<catalogue, sales>>

CreateStep(c) ==
    \/ ReadRestaurant(c) \/ ReadAddress(c) \/ ReadMenu(c) \/ InsertOrder(c)
    \/ InsertItems(c) \/ InsertPayment(c) \/ Commit(c) \/ AnswerCreate(c)

-----------------------------------------------------------------------------
(* The other writers.  Each of them reads only columns that never change   *)
(* before its one write, which fails when the row is gone.                 *)

\* /open, /closed, /busy and PATCH of a restaurant.  The last writes back the
\* status it has read when it is given none, so any status at any time.
SetRestaurantStatus(r, status) ==
    /\ FreeConnection
    /\ restaurant[r] # NoRow
    /\ restaurant' = [restaurant EXCEPT ![r] = status]
    /\ UNCHANGED <<menu, address, sales, call, reply>>

DeleteRestaurant(r) ==
    /\ FreeConnection
    /\ restaurant[r] # NoRow
    /\ ~RestaurantHeld(r)
    /\ \A i \in Items : MenuOf[i] = r => menu[i] = NoRow
    /\ \A o \in Placed : order[o].restaurant # r
    /\ restaurant' = [restaurant EXCEPT ![r] = NoRow]
    /\ UNCHANGED <<menu, address, sales, call, reply>>

\* PATCH of a menu item: its price, its availability or both.
UpdateMenuItem(i, row) ==
    /\ FreeConnection
    /\ menu[i] # NoRow
    /\ menu' = [menu EXCEPT ![i] = row]
    /\ UNCHANGED <<restaurant, address, sales, call, reply>>

DeleteMenuItem(i) ==
    /\ FreeConnection
    /\ menu[i] # NoRow
    /\ ~ItemHeld(i)
    /\ \A o \in Placed : i \notin ItemsOf(order[o].lines)
    /\ menu' = [menu EXCEPT ![i] = NoRow]
    /\ UNCHANGED <<restaurant, address, sales, call, reply>>

\* The first write of deleteAddress; the other moves the default.
DeleteAddress(a) ==
    /\ FreeConnection
    /\ ~AddressHeld(a)
    /\ \A o \in Placed : order[o].address # a
    /\ address' = address \ {a}
    /\ UNCHANGED <<restaurant, menu, sales, call, reply>>

-----------------------------------------------------------------------------
(* What may go wrong around the handler.                                   *)

InFlight(c) == call[c].pc \notin {"idle", "done"}

\* LoggingInterceptor answers 408 after five seconds; the handler goes on.
TimeOut(c) ==
    /\ InFlight(c)
    /\ reply[c] = "none"
    /\ reply' = [reply EXCEPT ![c] = "timeout"]
    /\ UNCHANGED <<catalogue, sales, call>>

\* A statement is rejected, or the transaction exceeds Prisma's time limit, or
\* the commit was done and its acknowledgement is lost.
Fail(c) == InFlight(c) /\ Throw(c)

\* The process stops and starts again: every handler is gone, the committed
\* rows remain, and a client that was not answered never is.
Crash ==
    /\ \E c \in Calls : InFlight(c)
    /\ call' = [c \in Calls |-> IF InFlight(c) THEN [call[c] EXCEPT !.pc = "done"]
                                               ELSE call[c]]
    /\ reply' = [c \in Calls |-> IF InFlight(c) /\ reply[c] = "none"
                                   THEN "lost" ELSE reply[c]]
    /\ UNCHANGED <<catalogue, sales>>

Next ==
    \/ \E c \in Calls : CallCreate(c) \/ CreateStep(c) \/ TimeOut(c) \/ Fail(c)
    \/ \E r \in Restaurants, status \in RestaurantStatus : SetRestaurantStatus(r, status)
    \/ \E r \in Restaurants : DeleteRestaurant(r)
    \/ \E i \in Items, row \in MenuRow : UpdateMenuItem(i, row)
    \/ \E i \in Items : DeleteMenuItem(i)
    \/ \E a \in address : DeleteAddress(a)
    \/ Crash

Spec == Init /\ [][Next]_vars

\* A handler that has been called goes on while its next statement can run.
\* Nothing makes requests arrive, clocks run out or statements fail.
Fairness == \A c \in Calls : WF_vars(CreateStep(c))

FairSpec == Spec /\ Fairness

-----------------------------------------------------------------------------
(* What is claimed of the system.                                          *)

\* An order and its payment appear together and agree: the total is that of the
\* lines as they were priced, and the payment adds the delivery fee, although
\* prices change, statements fail and amounts overflow between the steps.
AmountsAgree ==
    \A o \in OrderIds :
        IF order[o] = NoRow
          THEN payment[o] = NoRow
          ELSE /\ order[o].totalPrice = Total(order[o].lines)
               /\ payment[o] = order[o].totalPrice + DeliveryFee

\* What an order names is still there, although createOrder looked it up before
\* its transaction and the owners may delete it at any time: its restaurant, the
\* customer's own address, and items of that restaurant's menu.
ReferencesExist ==
    \A o \in Placed :
        /\ restaurant[order[o].restaurant] # NoRow
        /\ order[o].address \in address
        /\ OwnerOf[order[o].address] = order[o].customer
        /\ \A i \in ItemsOf(order[o].lines) :
              menu[i] # NoRow /\ MenuOf[i] = order[o].restaurant

\* Every order is what exactly one call asked for, line by line, and a client who
\* was told that his order is placed has one.
Asked(c, row) ==
    /\ row.customer = call[c].customer
    /\ row.restaurant = call[c].restaurant
    /\ row.address = call[c].address
    /\ row.lines # <<>>
    /\ [k \in DOMAIN row.lines |->
          [item |-> row.lines[k].item, quantity |-> row.lines[k].quantity]] = call[c].cart

OrdersAnswerCalls ==
    /\ \A o \in Placed : \E c \in Calls : call[c].order = o /\ Asked(c, order[o])
    /\ \A c, d \in Calls : call[c].order = call[d].order /\ c # d => call[c].order = NoRow
    /\ \A c \in Calls : reply[c] = "ok" => call[c].order \in Placed

\* A request that reaches the handler is answered without the help of a time
\* limit: a transaction never waits for a connection while it holds one.
PlacementEnds == \A c \in Calls : call[c].pc # "idle" ~> ~InFlight(c)

=============================================================================
