------------------------ MODULE OrderPlacementProofs ------------------------
(***************************************************************************)
(* Theorems about OrderPlacement, for any catalogue, carts, requests, pool *)
(* size and range of the amounts.                                          *)
(***************************************************************************)
EXTENDS PlacementRefinement, TLAPS

PastRestaurant == {"open", "addressed", "priced"} \cup InTx
PastAddress    == {"addressed", "priced"} \cup InTx
PastMenu       == {"priced"} \cup InTx

\* The lines are the cart with prices, all of one menu, and the total is theirs.
Quoted(h) ==
    /\ h.lines # <<>>
    /\ [k \in DOMAIN h.lines |->
          [item |-> h.lines[k].item, quantity |-> h.lines[k].quantity]] = h.cart
    /\ h.totalPrice = Total(h.lines)
    /\ \A i \in ItemsOf(h.lines) : MenuOf[i] = h.restaurant

\* What a handler has checked, and what the locks of its transaction preserve.
Ready(h) ==
    /\ h.pc \in PastRestaurant => h.cart # <<>>
    /\ h.pc \in PastAddress => OwnerOf[h.address] = h.customer
    /\ h.pc \in PastMenu => Quoted(h)
    /\ h.pc \in InTx => /\ restaurant[h.restaurant] # NoRow
                        /\ h.address \in address
                        /\ h.totalPrice \in 0..MaxAmount
    /\ h.pc \in {"filled", "paid"} => \A i \in ItemsOf(h.lines) : menu[i] # NoRow
    /\ h.pc = "paid" => h.totalPrice + DeliveryFee \in 0..MaxAmount
    /\ h.order # NoRow => h.pc \in {"committed", "done"}
    /\ h.pc = "committed" => h.order # NoRow
    /\ h.order # NoRow => h.order \in Placed

HandlersReady == \A c \in Calls : Ready(call[c])

IInv ==
    /\ TypeOK
    /\ HandlersReady
    /\ AmountsAgree
    /\ ReferencesExist
    /\ OrdersAnswerCalls

Pcs == InTx \cup Reading \cup {"idle", "committed", "done"}

-----------------------------------------------------------------------------
(* Lemmas about the data.                                                  *)

\* A priced cart is a sequence of order lines, and without the prices it is the cart.
LEMMA PricedCart ==
    ASSUME TypeOK, NEW cart \in Carts,
           \A i \in ItemsOf(cart) : menu[i] # NoRow
    PROVE  /\ Priced(cart) \in Seq(OrderLine)
           /\ DOMAIN Priced(cart) = DOMAIN cart
           /\ [k \in DOMAIN Priced(cart) |->
                 [item |-> Priced(cart)[k].item, quantity |-> Priced(cart)[k].quantity]] = cart
           /\ ItemsOf(Priced(cart)) = ItemsOf(cart)
           /\ cart # <<>> => Priced(cart) # <<>>
  <1>1. cart \in Seq(CartLine)
    BY PlacementAssumption
  <1>2. \A k \in DOMAIN cart : cart[k] \in CartLine /\ cart[k].item \in Items
    <2>1. \A k \in DOMAIN cart : cart[k] \in CartLine
      BY <1>1
    <2> QED
      BY <2>1 DEF CartLine
  <1>3. \A k \in DOMAIN cart : menu[cart[k].item] \in MenuRow /\ menu[cart[k].item].price \in Nat
    <2> TAKE k \in DOMAIN cart
    <2>1. menu[cart[k].item] # NoRow /\ cart[k].item \in Items
      BY <1>2 DEF ItemsOf
    <2>2. menu[cart[k].item] \in MenuRow
      BY <2>1 DEF TypeOK
    <2> QED
      BY <2>2, PlacementAssumption DEF MenuRow
  <1>4. \A k \in DOMAIN cart : Priced(cart)[k] \in OrderLine
    BY <1>2, <1>3 DEF Priced, OrderLine, CartLine
  <1>5. DOMAIN Priced(cart) = DOMAIN cart
    BY DEF Priced
  <1>6. Priced(cart) \in Seq(OrderLine)
    <2>1. PICK n \in Nat : DOMAIN cart = 1..n
      BY <1>1
    <2>2. Priced(cart) \in [1..n -> OrderLine]
      BY <2>1, <1>4 DEF Priced
    <2> QED
      BY <2>2
  <1>7. \A k \in DOMAIN cart :
          /\ Priced(cart)[k].item = cart[k].item
          /\ Priced(cart)[k].quantity = cart[k].quantity
    BY DEF Priced
  <1>8. \A k \in DOMAIN cart : [item |-> cart[k].item, quantity |-> cart[k].quantity] = cart[k]
    BY <1>2 DEF CartLine
  <1>9. [k \in DOMAIN cart |-> cart[k]] = cart
    BY <1>1
  <1>10. [k \in DOMAIN Priced(cart) |->
            [item |-> Priced(cart)[k].item, quantity |-> Priced(cart)[k].quantity]] = cart
    BY <1>5, <1>7, <1>8, <1>9, Zenon
  <1>11. ItemsOf(Priced(cart)) = ItemsOf(cart)
    BY <1>5, <1>7 DEF ItemsOf
  <1>12. cart # <<>> => Priced(cart) # <<>>
    BY <1>1, <1>5, <1>6
  <1> QED
    BY <1>5, <1>6, <1>10, <1>11, <1>12

\* An answer is a reply, and only "ok" makes one "ok".
LEMMA AnswerType ==
    ASSUME TypeOK, NEW c \in Calls, NEW r \in Replies, Answer(c, r)
    PROVE  /\ reply' \in [Calls -> Replies]
           /\ \A d \in Calls : reply'[d] = "ok" => reply[d] = "ok" \/ (d = c /\ r = "ok")
  BY DEF TypeOK, Answer, Replies

\* A row of "order" and the missing row differ, and so do a key and the missing one.
LEMMA RowsDiffer == NoRow \notin OrderRow /\ NoRow \notin OrderIds
  BY NoRowAssumption

-----------------------------------------------------------------------------
(* The inductive invariant holds initially and is preserved.               *)

LEMMA InitIInv == Init => IInv
  <1> SUFFICES ASSUME Init PROVE IInv
    OBVIOUS
  <1>1. TypeOK
    <2>1. \A c \in Calls : call[c] \in Handler
      <3> TAKE c \in Calls
      <3>1. call[c] \in [pc: {"idle"}, customer: Customers, restaurant: Restaurants,
                         address: Addresses, cart: Carts, lines: {<<>>},
                         totalPrice: {0}, order: {NoRow}]
        BY DEF Init
      <3>2. <<>> \in Seq(OrderLine)
        OBVIOUS
      <3>3. call[c].totalPrice \in {call[d].totalPrice : d \in Calls}
        OBVIOUS
      <3> QED
        BY <3>1, <3>2, <3>3 DEF Handler
    <2>2. call \in [Calls -> Handler]
      BY <2>1 DEF Init
    <2>3. reply \in [Calls -> Replies]
      BY DEF Init, Replies
    <2>4. order \in [OrderIds -> OrderRow \cup {NoRow}] /\ payment \in [OrderIds -> 0..MaxAmount \cup {NoRow}]
      BY DEF Init
    <2> QED
      BY <2>2, <2>3, <2>4 DEF Init, TypeOK
  <1>2. HandlersReady
    BY DEF Init, HandlersReady, Ready, PastRestaurant, PastAddress, PastMenu, InTx
  <1>3. AmountsAgree /\ ReferencesExist
    BY DEF Init, AmountsAgree, ReferencesExist, Placed
  <1>4. OrdersAnswerCalls
    BY DEF Init, OrdersAnswerCalls, Placed
  <1> QED
    BY <1>1, <1>2, <1>3, <1>4 DEF IInv

\* Steps that change nothing of the handlers but where they are.
LEMMA PcStep ==
    ASSUME IInv, UNCHANGED <<catalogue, sales>>,
           NEW pcs \in [Calls -> Pcs],
           call' = [c \in Calls |-> [call[c] EXCEPT !.pc = pcs[c]]],
           \A c \in Calls : Ready([call[c] EXCEPT !.pc = pcs[c]]),
           reply' \in [Calls -> Replies],
           \A c \in Calls : reply'[c] = "ok" => reply[c] = "ok" \/ call[c].order # NoRow
    PROVE  IInv'
  <1>1. \A c \in Calls :
          /\ call'[c].customer = call[c].customer
          /\ call'[c].restaurant = call[c].restaurant
          /\ call'[c].address = call[c].address
          /\ call'[c].cart = call[c].cart
          /\ call'[c].lines = call[c].lines
          /\ call'[c].totalPrice = call[c].totalPrice
          /\ call'[c].order = call[c].order
    BY DEF IInv, TypeOK, Handler
  <1>2. TypeOK'
    <2>1. \A c \in Calls : call'[c] \in Handler'
      BY <1>1 DEF IInv, TypeOK, Handler, Pcs
    <2>2. call' \in [Calls -> Handler']
      BY <2>1
    <2> QED
      BY <2>2 DEF IInv, TypeOK, catalogue, sales
  <1>3. HandlersReady'
    <2> SUFFICES ASSUME NEW c \in Calls PROVE Ready(call[c])'
      BY DEF HandlersReady
    <2> DEFINE h == [call[c] EXCEPT !.pc = pcs[c]]
    <2>1. call'[c] = h /\ Ready(h)
      OBVIOUS
    <2>2. Quoted(call[c])' <=> Quoted(h)
      BY <2>1 DEF Quoted
    <2>3. Placed' = Placed /\ restaurant' = restaurant /\ address' = address /\ menu' = menu
      BY DEF Placed, catalogue, sales
    <2> HIDE DEF h
    <2> QED
      BY <2>1, <2>2, <2>3 DEF Ready
  <1>4. AmountsAgree' /\ ReferencesExist'
    BY DEF IInv, AmountsAgree, ReferencesExist, Placed, catalogue, sales
  <1>5. Placed' = Placed
    BY DEF Placed, sales
  <1>6. OrdersAnswerCalls'
    <2>1. \A o \in Placed' : \E c \in Calls : call'[c].order = o /\ Asked(c, order[o])'
      <3> TAKE o \in Placed'
      <3>1. PICK c \in Calls : call[c].order = o /\ Asked(c, order[o])
        BY <1>5 DEF IInv, OrdersAnswerCalls
      <3>2. order' = order
        BY DEF sales
      <3>3. Asked(c, order[o])'
        BY <1>1, <3>1, <3>2 DEF Asked
      <3> QED
        BY <1>1, <3>1, <3>3
    <2>2. \A c, d \in Calls : call'[c].order = call'[d].order /\ c # d => call'[c].order = NoRow
      BY <1>1 DEF IInv, OrdersAnswerCalls
    <2>3. \A c \in Calls : reply'[c] = "ok" => call'[c].order \in Placed'
      BY <1>1, <1>5 DEF IInv, OrdersAnswerCalls, HandlersReady, Ready
    <2> QED
      BY <2>1, <2>2, <2>3 DEF OrdersAnswerCalls
  <1> QED
    BY <1>2, <1>3, <1>4, <1>6 DEF IInv

\* A step of one handler that changes nothing else but its pc.
LEMMA GoToStep ==
    ASSUME IInv, NEW c \in Calls, NEW pc \in Pcs, GoTo(c, pc),
           Ready([call[c] EXCEPT !.pc = pc])
    PROVE  IInv'
  <1> DEFINE pcs == [d \in Calls |-> IF d = c THEN pc ELSE call[d].pc]
  <1>1. pcs \in [Calls -> Pcs]
    BY DEF IInv, TypeOK, Handler, Pcs
  <1>2. call' = [d \in Calls |-> [call[d] EXCEPT !.pc = pcs[d]]]
    BY DEF IInv, TypeOK, Handler, GoTo
  <1>3. \A d \in Calls : Ready([call[d] EXCEPT !.pc = pcs[d]])
    <2> TAKE d \in Calls
    <2>1. CASE d = c
      BY <2>1
    <2>2. CASE d # c
      <3>1. [call[d] EXCEPT !.pc = pcs[d]] = call[d]
        BY <2>2 DEF IInv, TypeOK, Handler
      <3> QED
        BY <3>1 DEF IInv, HandlersReady
    <2> QED
      BY <2>1, <2>2
  <1>4. reply' = reply /\ reply \in [Calls -> Replies] /\ UNCHANGED <<catalogue, sales>>
    BY DEF GoTo, IInv, TypeOK
  <1> HIDE DEF pcs
  <1> QED
    BY <1>1, <1>2, <1>3, <1>4, PcStep

\* A handler may end at any step: nothing is required of one that is done.
LEMMA DoneReady ==
    ASSUME NEW h \in Handler, Ready(h)
    PROVE  Ready([h EXCEPT !.pc = "done"])
  <1> DEFINE g == [h EXCEPT !.pc = "done"]
  <1>1. g.pc = "done" /\ g.order = h.order
    BY DEF Handler
  <1> HIDE DEF g
  <1>2. Ready(g)
    BY <1>1 DEF Ready, PastRestaurant, PastAddress, PastMenu, InTx
  <1> QED
    BY <1>2 DEF g

LEMMA DoneStep ==
    ASSUME IInv, NEW c \in Calls, NEW r \in {"ok", "error"},
           call' = [call EXCEPT ![c].pc = "done"], Answer(c, r),
           UNCHANGED <<catalogue, sales>>, r = "ok" => call[c].order # NoRow
    PROVE  IInv'
  <1> DEFINE pcs == [d \in Calls |-> IF d = c THEN "done" ELSE call[d].pc]
  <1>1. pcs \in [Calls -> Pcs]
    BY DEF IInv, TypeOK, Handler, Pcs
  <1>2. call' = [d \in Calls |-> [call[d] EXCEPT !.pc = pcs[d]]]
    BY DEF IInv, TypeOK, Handler
  <1>3. \A d \in Calls : Ready([call[d] EXCEPT !.pc = pcs[d]])
    <2> TAKE d \in Calls
    <2>1. CASE d = c
      BY <2>1, DoneReady DEF IInv, HandlersReady, TypeOK
    <2>2. CASE d # c
      <3>1. [call[d] EXCEPT !.pc = pcs[d]] = call[d]
        BY <2>2 DEF IInv, TypeOK, Handler
      <3> QED
        BY <3>1 DEF IInv, HandlersReady
    <2> QED
      BY <2>1, <2>2
  <1>4. r \in Replies
    BY DEF Replies
  <1>5. /\ reply' \in [Calls -> Replies]
        /\ \A d \in Calls : reply'[d] = "ok" => reply[d] = "ok" \/ call[d].order # NoRow
    BY <1>4, AnswerType DEF IInv
  <1> HIDE DEF pcs
  <1> QED
    BY <1>1, <1>2, <1>3, <1>5, PcStep

LEMMA ThrowStep == ASSUME IInv, NEW c \in Calls, Throw(c) PROVE IInv'
  BY DoneStep DEF Throw

\* The steps that go on when a check holds and throw when it does not.
LEMMA CheckSteps ==
    ASSUME IInv, NEW c \in Calls,
           \/ CallCreate(c) \/ ReadRestaurant(c) \/ ReadAddress(c)
           \/ InsertOrder(c) \/ InsertItems(c) \/ InsertPayment(c)
    PROVE  IInv'
  <1> DEFINE h(pc) == [call[c] EXCEPT !.pc = pc]
  <1>0. call[c] \in Handler /\ Ready(call[c])
    BY DEF IInv, TypeOK, HandlersReady
  <1>1. \A pc \in Pcs : /\ h(pc).pc = pc
                        /\ h(pc).customer = call[c].customer
                        /\ h(pc).restaurant = call[c].restaurant
                        /\ h(pc).address = call[c].address
                        /\ h(pc).cart = call[c].cart
                        /\ h(pc).lines = call[c].lines
                        /\ h(pc).totalPrice = call[c].totalPrice
                        /\ h(pc).order = call[c].order
    BY <1>0 DEF Handler
  <1>2. \A pc \in Pcs : Quoted(h(pc)) <=> Quoted(call[c])
    BY <1>1 DEF Quoted
  <1>3. \A pc \in Pcs : GoTo(c, pc) /\ Ready(h(pc)) => IInv'
    BY GoToStep
  <1>4. /\ "called" \in Pcs /\ "open" \in Pcs /\ "addressed" \in Pcs
        /\ "ordered" \in Pcs /\ "filled" \in Pcs /\ "paid" \in Pcs
    BY DEF Pcs, InTx, Reading
  <1> HIDE DEF h
  <1> USE DEF Ready, PastRestaurant, PastAddress, PastMenu, InTx
  <1>5. CASE CallCreate(c)
    <2>1. GoTo(c, "called") /\ call[c].pc = "idle"
      BY <1>5 DEF CallCreate
    <2>2. Ready(h("called"))
      BY <1>0, <1>1, <1>4, <2>1
    <2> QED
      BY <1>3, <1>4, <2>1, <2>2
  <1>6. CASE ReadRestaurant(c)
    <2>1. CASE Throw(c)
      BY <2>1, ThrowStep
    <2>2. CASE GoTo(c, "open") /\ call[c].cart # <<>> /\ call[c].pc = "called"
      <3>1. Ready(h("open"))
        BY <1>0, <1>1, <1>4, <2>2
      <3> QED
        BY <1>3, <1>4, <2>2, <3>1
    <2> QED
      BY <1>6, <2>1, <2>2 DEF ReadRestaurant
  <1>7. CASE ReadAddress(c)
    <2>1. CASE Throw(c)
      BY <2>1, ThrowStep
    <2>2. CASE /\ GoTo(c, "addressed")
               /\ call[c].pc = "open"
               /\ OwnerOf[call[c].address] = call[c].customer
      <3>1. Ready(h("addressed"))
        BY <1>0, <1>1, <1>4, <2>2
      <3> QED
        BY <1>3, <1>4, <2>2, <3>1
    <2> QED
      BY <1>7, <2>1, <2>2 DEF ReadAddress
  <1>8. CASE InsertOrder(c)
    <2>1. CASE Throw(c)
      BY <2>1, ThrowStep
    <2>2. CASE /\ GoTo(c, "ordered")
               /\ call[c].pc = "priced"
               /\ restaurant[call[c].restaurant] # NoRow
               /\ call[c].address \in address
               /\ call[c].totalPrice \in 0..MaxAmount
      <3>1. Ready(h("ordered"))
        BY <1>0, <1>1, <1>2, <1>4, <2>2
      <3> QED
        BY <1>3, <1>4, <2>2, <3>1
    <2> QED
      BY <1>8, <2>1, <2>2 DEF InsertOrder
  <1>9. CASE InsertItems(c)
    <2>1. CASE Throw(c)
      BY <2>1, ThrowStep
    <2>2. CASE /\ GoTo(c, "filled")
               /\ call[c].pc = "ordered"
               /\ \A i \in ItemsOf(call[c].lines) : menu[i] # NoRow
      <3>1. Ready(h("filled"))
        BY <1>0, <1>1, <1>2, <1>4, <2>2
      <3> QED
        BY <1>3, <1>4, <2>2, <3>1
    <2> QED
      BY <1>9, <2>1, <2>2 DEF InsertItems
  <1>10. CASE InsertPayment(c)
    <2>1. CASE Throw(c)
      BY <2>1, ThrowStep
    <2>2. CASE /\ GoTo(c, "paid")
               /\ call[c].pc = "filled"
               /\ call[c].totalPrice + DeliveryFee \in 0..MaxAmount
      <3>1. Ready(h("paid"))
        BY <1>0, <1>1, <1>2, <1>4, <2>2
      <3> QED
        BY <1>3, <1>4, <2>2, <3>1
    <2> QED
      BY <1>10, <2>1, <2>2 DEF InsertPayment
  <1> QED
    BY <1>5, <1>6, <1>7, <1>8, <1>9, <1>10

LEMMA ReadMenuStep == ASSUME IInv, NEW c \in Calls, ReadMenu(c) PROVE IInv'
  <1>1. CASE Throw(c)
    BY <1>1, ThrowStep
  <1>2. CASE ~Throw(c)
    <2> DEFINE lines == Priced(call[c].cart)
    <2>1. /\ call[c].pc = "addressed"
          /\ \A i \in ItemsOf(call[c].cart) : Offered(i, call[c].restaurant)
          /\ call' = [call EXCEPT ![c].pc = "priced", ![c].lines = lines,
                                  ![c].totalPrice = Total(lines)]
          /\ UNCHANGED <<catalogue, sales, reply>>
      BY <1>2 DEF ReadMenu
    <2>2. call[c] \in Handler /\ Ready(call[c])
      BY DEF IInv, TypeOK, HandlersReady
    <2>3. call[c].cart \in Carts /\ call[c].cart # <<>>
      BY <2>1, <2>2 DEF Handler, Ready, PastRestaurant
    <2>4. /\ lines \in Seq(OrderLine)
          /\ [k \in DOMAIN lines |->
                [item |-> lines[k].item, quantity |-> lines[k].quantity]] = call[c].cart
          /\ ItemsOf(lines) = ItemsOf(call[c].cart)
          /\ lines # <<>>
      BY <2>1, <2>3, PricedCart DEF IInv, Offered
    <2>5. \A i \in ItemsOf(lines) : MenuOf[i] = call[c].restaurant
      BY <2>1, <2>4 DEF Offered
    <2> HIDE DEF lines
    <2>6. /\ call'[c].pc = "priced" /\ call'[c].lines = lines
          /\ call'[c].totalPrice = Total(lines)
          /\ call'[c].customer = call[c].customer /\ call'[c].restaurant = call[c].restaurant
          /\ call'[c].address = call[c].address /\ call'[c].cart = call[c].cart
          /\ call'[c].order = call[c].order
      BY <2>1, <2>2 DEF IInv, TypeOK, Handler
    <2>7. \A d \in Calls : d # c => call'[d] = call[d]
      BY <2>1 DEF IInv, TypeOK
    <2>8. call[c].order = NoRow
      BY <2>1, <2>2 DEF Ready
    <2>9. TypeOK'
      <3>1. \A d \in Calls : call'[d] \in Handler'
        <4> TAKE d \in Calls
        <4>1. call'[d].totalPrice \in {call'[e].totalPrice : e \in Calls}
          OBVIOUS
        <4>2. CASE d # c
          BY <2>7, <4>1, <4>2 DEF IInv, TypeOK, Handler
        <4>3. CASE d = c
          <5> DEFINE t == call'[c].totalPrice
          <5>1. call'[c] = [call[c] EXCEPT !.pc = "priced", !.lines = lines,
                                           !.totalPrice = Total(lines)]
            BY <2>1 DEF IInv, TypeOK
          <5>2. call'[c] = [pc |-> "priced", customer |-> call[c].customer,
                            restaurant |-> call[c].restaurant, address |-> call[c].address,
                            cart |-> call[c].cart, lines |-> lines,
                            order |-> call[c].order, totalPrice |-> t]
            BY <2>2, <2>6, <5>1 DEF Handler
          <5>3. t \in {call'[e].totalPrice : e \in Calls}
            OBVIOUS
          <5>4. "priced" \in Pcs
            BY DEF Pcs, Reading
          <5> HIDE DEF t
          <5>5. call'[c] \in Handler'
            BY <2>2, <2>4, <5>2, <5>3, <5>4 DEF Handler, Pcs
          <5> QED
            BY <4>3, <5>5
        <4> QED
          BY <4>2, <4>3
      <3>2. call' \in [Calls -> Handler']
        BY <2>1, <3>1 DEF IInv, TypeOK
      <3> QED
        BY <2>1, <3>2 DEF IInv, TypeOK, catalogue, sales
    <2>10. /\ Placed' = Placed /\ reply' = reply
           /\ restaurant' = restaurant /\ menu' = menu /\ address' = address
      BY <2>1 DEF Placed, sales, catalogue
    <2>11. HandlersReady'
      <3> SUFFICES ASSUME NEW d \in Calls PROVE Ready(call[d])'
        BY DEF HandlersReady
      <3>1. CASE d # c
        <4>1. Ready(call[d]) /\ call'[d] = call[d]
          BY <2>7, <3>1 DEF IInv, HandlersReady
        <4>2. Quoted(call[d])' <=> Quoted(call[d])
          BY <4>1 DEF Quoted
        <4> QED
          BY <2>10, <4>1, <4>2 DEF Ready
      <3>2. CASE d = c
        <4>1. Quoted(call[c])'
          BY <2>4, <2>5, <2>6 DEF Quoted
        <4>2. OwnerOf[call[c].address] = call[c].customer
          BY <2>1, <2>2 DEF Ready, PastAddress
        <4>3. /\ call'[c].pc = "priced" /\ call'[c].cart # <<>> /\ call'[c].order = NoRow
              /\ OwnerOf[call'[c].address] = call'[c].customer
          BY <2>3, <2>6, <2>8, <4>2
        <4>4. Ready(call[c])'
          BY <4>1, <4>3 DEF Ready, InTx
        <4> QED
          BY <3>2, <4>4
      <3> QED
        BY <3>1, <3>2
    <2>12. AmountsAgree' /\ ReferencesExist'
      BY <2>1 DEF IInv, AmountsAgree, ReferencesExist, Placed, catalogue, sales
    <2>13. OrdersAnswerCalls'
      <3>1. \A d \in Calls : call'[d].order = call[d].order
        BY <2>6, <2>7
      <3>2. \A o \in Placed' : \E d \in Calls : call'[d].order = o /\ Asked(d, order[o])'
        <4> TAKE o \in Placed'
        <4>1. PICK d \in Calls : call[d].order = o /\ Asked(d, order[o])
          BY <2>10 DEF IInv, OrdersAnswerCalls
        <4>2. o # NoRow
          BY RowsDiffer, <2>10 DEF Placed
        <4>3. d # c
          BY <2>8, <4>1, <4>2
        <4>4. Asked(d, order[o])'
          BY <2>1, <2>7, <4>1, <4>3 DEF Asked, sales
        <4> QED
          BY <3>1, <4>1, <4>4
      <3> QED
        BY <2>10, <3>1, <3>2 DEF IInv, OrdersAnswerCalls
    <2> QED
      BY <2>9, <2>11, <2>12, <2>13 DEF IInv
  <1> QED
    BY <1>1, <1>2

-----------------------------------------------------------------------------
(* The commit.                                                             *)

LEMMA CommitStep == ASSUME IInv, NEW c \in Calls, Commit(c) PROVE IInv'
  <1>1. PICK o \in OrderIds \ Placed :
          /\ order' = [order EXCEPT ![o] = OrderFor(call[c])]
          /\ payment' = [payment EXCEPT ![o] = call[c].totalPrice + DeliveryFee]
          /\ call' = [call EXCEPT ![c].pc = "committed", ![c].order = o]
    BY DEF Commit
  <1>2. call[c].pc = "paid" /\ UNCHANGED <<catalogue, reply>>
    BY DEF Commit
  <1>3. call[c] \in Handler /\ Ready(call[c])
    BY DEF IInv, TypeOK, HandlersReady
  <1>4. /\ call[c].cart # <<>>
        /\ OwnerOf[call[c].address] = call[c].customer
        /\ Quoted(call[c])
        /\ restaurant[call[c].restaurant] # NoRow
        /\ call[c].address \in address
        /\ call[c].totalPrice \in 0..MaxAmount
        /\ \A i \in ItemsOf(call[c].lines) : menu[i] # NoRow
        /\ call[c].totalPrice + DeliveryFee \in 0..MaxAmount
        /\ call[c].order = NoRow
    BY <1>2, <1>3 DEF Ready, PastRestaurant, PastAddress, PastMenu, InTx
  <1> DEFINE row == OrderFor(call[c])
  <1>5. /\ row \in OrderRow
        /\ row.customer = call[c].customer /\ row.restaurant = call[c].restaurant
        /\ row.address = call[c].address /\ row.lines = call[c].lines
        /\ row.totalPrice = call[c].totalPrice
    BY <1>3, <1>4 DEF OrderFor, OrderRow, Handler
  <1>6. row # NoRow /\ o # NoRow
    BY <1>5, RowsDiffer
  <1> HIDE DEF row
  <1>7. /\ call'[c].pc = "committed" /\ call'[c].order = o
        /\ call'[c].customer = call[c].customer /\ call'[c].restaurant = call[c].restaurant
        /\ call'[c].address = call[c].address /\ call'[c].cart = call[c].cart
        /\ call'[c].lines = call[c].lines /\ call'[c].totalPrice = call[c].totalPrice
    BY <1>1, <1>3 DEF IInv, TypeOK, Handler
  <1>8. \A d \in Calls : d # c => call'[d] = call[d]
    BY <1>1 DEF IInv, TypeOK
  <1>9. /\ order'[o] = row
        /\ payment'[o] = call[c].totalPrice + DeliveryFee
        /\ \A p \in OrderIds : p # o => order'[p] = order[p] /\ payment'[p] = payment[p]
    BY <1>1 DEF IInv, TypeOK, row
  <1>10. Placed' = Placed \cup {o}
    BY <1>6, <1>9 DEF Placed
  <1>11. TypeOK'
    <2>1. \A d \in Calls : call'[d] \in Handler'
      <3> TAKE d \in Calls
      <3>1. CASE d # c
        BY <1>8, <3>1 DEF IInv, TypeOK, Handler
      <3>2. CASE d = c
        <4> DEFINE t == call'[c].totalPrice
        <4>1. call'[c] = [call[c] EXCEPT !.pc = "committed", !.order = o]
          BY <1>1 DEF IInv, TypeOK
        <4>2. call'[c] = [pc |-> "committed", customer |-> call[c].customer,
                          restaurant |-> call[c].restaurant, address |-> call[c].address,
                          cart |-> call[c].cart, lines |-> call[c].lines,
                          order |-> o, totalPrice |-> t]
          BY <1>3, <1>7, <4>1 DEF Handler
        <4>3. t \in {call'[e].totalPrice : e \in Calls}
          OBVIOUS
        <4> HIDE DEF t
        <4>4. call'[c] \in Handler'
          BY <1>3, <4>2, <4>3 DEF Handler
        <4> QED
          BY <3>2, <4>4
      <3> QED
        BY <3>1, <3>2
    <2>2. call' \in [Calls -> Handler']
      BY <1>1, <2>1 DEF IInv, TypeOK
    <2>3. order' \in [OrderIds -> OrderRow \cup {NoRow}]
      BY <1>1, <1>5 DEF IInv, TypeOK, row
    <2>4. payment' \in [OrderIds -> 0..MaxAmount \cup {NoRow}]
      BY <1>1, <1>4 DEF IInv, TypeOK
    <2> QED
      BY <1>2, <2>2, <2>3, <2>4 DEF IInv, TypeOK, catalogue
  <1>12. HandlersReady'
    <2> SUFFICES ASSUME NEW d \in Calls PROVE Ready(call[d])'
      BY DEF HandlersReady
    <2>1. CASE d # c
      <3>1. Ready(call[d]) /\ call'[d] = call[d]
        BY <1>8, <2>1 DEF IInv, HandlersReady
      <3>2. Quoted(call[d])' <=> Quoted(call[d])
        BY <3>1 DEF Quoted
      <3> QED
        BY <1>2, <1>10, <3>1, <3>2 DEF Ready, catalogue
    <2>2. CASE d = c
      <3>1. Ready(call[c])'
        BY <1>6, <1>7, <1>10 DEF Ready, PastRestaurant, PastAddress, PastMenu, InTx
      <3> QED
        BY <2>2, <3>1
    <2> QED
      BY <2>1, <2>2
  <1>13. AmountsAgree'
    <2> SUFFICES ASSUME NEW p \in OrderIds
                 PROVE  IF order'[p] = NoRow
                          THEN payment'[p] = NoRow
                          ELSE /\ order'[p].totalPrice = Total(order'[p].lines)
                               /\ payment'[p] = order'[p].totalPrice + DeliveryFee
      BY DEF AmountsAgree
    <2>1. CASE p # o
      BY <1>9, <2>1 DEF IInv, AmountsAgree
    <2>2. CASE p = o
      BY <1>4, <1>5, <1>6, <1>9, <2>2 DEF Quoted
    <2> QED
      BY <2>1, <2>2
  <1>14. ReferencesExist'
    <2> SUFFICES ASSUME NEW p \in Placed'
                 PROVE  /\ restaurant'[order'[p].restaurant] # NoRow
                        /\ order'[p].address \in address'
                        /\ OwnerOf[order'[p].address] = order'[p].customer
                        /\ \A i \in ItemsOf(order'[p].lines) :
                              menu'[i] # NoRow /\ MenuOf[i] = order'[p].restaurant
      BY DEF ReferencesExist
    <2>1. CASE p # o
      <3>1. p \in Placed /\ order'[p] = order[p]
        BY <1>9, <1>10, <2>1 DEF Placed
      <3> QED
        BY <1>2, <3>1 DEF IInv, ReferencesExist, catalogue
    <2>2. CASE p = o
      BY <1>2, <1>4, <1>5, <1>9, <2>2 DEF Quoted, catalogue
    <2> QED
      BY <2>1, <2>2
  <1>15. OrdersAnswerCalls'
    <2>1. \A p \in Placed' : \E d \in Calls : call'[d].order = p /\ Asked(d, order[p])'
      <3> TAKE p \in Placed'
      <3>1. CASE p # o
        <4>1. p \in Placed /\ order'[p] = order[p] /\ p # NoRow
          BY <1>9, <1>10, <3>1, RowsDiffer DEF Placed
        <4>2. PICK d \in Calls : call[d].order = p /\ Asked(d, order[p])
          BY <4>1 DEF IInv, OrdersAnswerCalls
        <4>3. d # c /\ call'[d] = call[d]
          BY <1>4, <1>8, <4>1, <4>2
        <4>4. Asked(d, order[p])'
          BY <4>1, <4>2, <4>3 DEF Asked
        <4> QED
          BY <4>2, <4>3, <4>4
      <3>2. CASE p = o
        <4>1. Asked(c, order[o])'
          BY <1>4, <1>5, <1>7, <1>9 DEF Asked, Quoted
        <4> QED
          BY <1>7, <3>2, <4>1
      <3> QED
        BY <3>1, <3>2
    <2>2. \A d \in Calls : d # c => call'[d].order # o
      <3> TAKE d \in Calls
      <3>1. call[d].order # NoRow => call[d].order \in Placed
        BY DEF IInv, HandlersReady, Ready
      <3> QED
        BY <1>1, <1>6, <1>8, <3>1
    <2>3. \A d, e \in Calls : call'[d].order = call'[e].order /\ d # e => call'[d].order = NoRow
      BY <1>7, <1>8, <2>2 DEF IInv, OrdersAnswerCalls
    <2>4. \A d \in Calls : reply'[d] = "ok" => call'[d].order \in Placed'
      BY <1>2, <1>7, <1>8, <1>10 DEF IInv, OrdersAnswerCalls
    <2> QED
      BY <2>1, <2>3, <2>4 DEF OrdersAnswerCalls
  <1> QED
    BY <1>11, <1>12, <1>13, <1>14, <1>15 DEF IInv

-----------------------------------------------------------------------------
(* The other writers: the locks and the foreign keys keep what is named.   *)

\* The items of an order's lines are items.
LEMMA ItemsOfLines ==
    ASSUME NEW lines \in Seq(OrderLine) PROVE ItemsOf(lines) \subseteq Items
  <1>1. \A k \in DOMAIN lines : lines[k] \in OrderLine
    OBVIOUS
  <1> QED
    BY <1>1 DEF ItemsOf, OrderLine

LEMMA CatalogueStep ==
    ASSUME IInv, UNCHANGED <<sales, call, reply>>,
           restaurant' \in [Restaurants -> RestaurantStatus \cup {NoRow}],
           menu' \in [Items -> MenuRow \cup {NoRow}],
           address' \in SUBSET Addresses,
           \A c \in Calls : call[c].pc \in InTx =>
              /\ restaurant'[call[c].restaurant] # NoRow
              /\ call[c].address \in address',
           \A c \in Calls : call[c].pc \in {"filled", "paid"} =>
              \A i \in ItemsOf(call[c].lines) : menu'[i] # NoRow,
           \A o \in Placed :
              /\ restaurant'[order[o].restaurant] # NoRow
              /\ order[o].address \in address'
              /\ \A i \in ItemsOf(order[o].lines) : menu'[i] # NoRow
    PROVE  IInv'
  <1>1. call' = call /\ reply' = reply /\ order' = order /\ payment' = payment
    BY DEF sales
  <1>2. Placed' = Placed
    BY <1>1 DEF Placed
  <1>3. TypeOK'
    BY <1>1 DEF IInv, TypeOK, Handler
  <1>4. HandlersReady'
    <2> SUFFICES ASSUME NEW c \in Calls PROVE Ready(call[c])'
      BY DEF HandlersReady
    <2>1. Ready(call[c])
      BY DEF IInv, HandlersReady
    <2>2. Quoted(call[c])' <=> Quoted(call[c])
      BY <1>1 DEF Quoted
    <2> QED
      BY <1>1, <1>2, <2>1, <2>2 DEF Ready
  <1>5. AmountsAgree'
    BY <1>1 DEF IInv, AmountsAgree
  <1>6. ReferencesExist'
    BY <1>1, <1>2 DEF IInv, ReferencesExist
  <1>7. OrdersAnswerCalls'
    BY <1>1, <1>2 DEF IInv, OrdersAnswerCalls, Asked
  <1> QED
    BY <1>3, <1>4, <1>5, <1>6, <1>7 DEF IInv

\* What the handlers in a transaction and the orders name before the step.
LEMMA Named ==
    ASSUME IInv
    PROVE  /\ \A c \in Calls : call[c].pc \in InTx =>
                 /\ call[c].restaurant \in Restaurants /\ restaurant[call[c].restaurant] # NoRow
                 /\ call[c].address \in address
           /\ \A c \in Calls : call[c].pc \in {"filled", "paid"} =>
                 \A i \in ItemsOf(call[c].lines) : i \in Items /\ menu[i] # NoRow
           /\ \A o \in Placed :
                 /\ order[o].restaurant \in Restaurants /\ restaurant[order[o].restaurant] # NoRow
                 /\ order[o].address \in address
                 /\ \A i \in ItemsOf(order[o].lines) : i \in Items /\ menu[i] # NoRow
  <1>1. \A c \in Calls : call[c] \in Handler /\ Ready(call[c])
    BY DEF IInv, TypeOK, HandlersReady
  <1>2. \A c \in Calls : ItemsOf(call[c].lines) \subseteq Items /\ call[c].restaurant \in Restaurants
    BY <1>1, ItemsOfLines DEF Handler
  <1>3. \A o \in Placed : order[o] \in OrderRow
    BY DEF IInv, TypeOK, Placed
  <1>4. \A o \in Placed : ItemsOf(order[o].lines) \subseteq Items /\ order[o].restaurant \in Restaurants
    BY <1>3, ItemsOfLines DEF OrderRow
  <1>5. \A c \in Calls : call[c].pc \in InTx =>
           /\ call[c].restaurant \in Restaurants /\ restaurant[call[c].restaurant] # NoRow
           /\ call[c].address \in address
    BY <1>1, <1>2 DEF Ready
  <1>6. \A c \in Calls : call[c].pc \in {"filled", "paid"} =>
           \A i \in ItemsOf(call[c].lines) : i \in Items /\ menu[i] # NoRow
    BY <1>1, <1>2 DEF Ready
  <1>7. \A o \in Placed :
           /\ order[o].restaurant \in Restaurants /\ restaurant[order[o].restaurant] # NoRow
           /\ order[o].address \in address
           /\ \A i \in ItemsOf(order[o].lines) : i \in Items /\ menu[i] # NoRow
    BY <1>4 DEF IInv, ReferencesExist
  <1> QED
    BY <1>5, <1>6, <1>7

LEMMA WriterSteps ==
    ASSUME IInv,
           \/ \E r \in Restaurants, status \in RestaurantStatus : SetRestaurantStatus(r, status)
           \/ \E r \in Restaurants : DeleteRestaurant(r)
           \/ \E i \in Items, row \in MenuRow : UpdateMenuItem(i, row)
           \/ \E i \in Items : DeleteMenuItem(i)
           \/ \E a \in address : DeleteAddress(a)
    PROVE  IInv'
  <1>1. /\ restaurant \in [Restaurants -> RestaurantStatus \cup {NoRow}]
        /\ menu \in [Items -> MenuRow \cup {NoRow}]
        /\ address \in SUBSET Addresses
    BY DEF IInv, TypeOK
  <1>2. NoRow \notin RestaurantStatus /\ NoRow \notin MenuRow
    BY NoRowAssumption
  <1>3. ASSUME NEW r \in Restaurants, NEW status \in RestaurantStatus,
               SetRestaurantStatus(r, status)
        PROVE  IInv'
    <2>1. /\ restaurant' = [restaurant EXCEPT ![r] = status]
          /\ menu' = menu /\ address' = address /\ UNCHANGED <<sales, call, reply>>
      BY <1>3 DEF SetRestaurantStatus
    <2>2. \A q \in Restaurants : restaurant[q] # NoRow => restaurant'[q] # NoRow
      BY <1>1, <1>2, <2>1
    <2>3. restaurant' \in [Restaurants -> RestaurantStatus \cup {NoRow}]
      BY <1>1, <2>1
    <2> QED
      BY <1>1, <2>1, <2>2, <2>3, Named, CatalogueStep
  <1>4. ASSUME NEW r \in Restaurants, DeleteRestaurant(r)
        PROVE  IInv'
    <2>1. /\ restaurant' = [restaurant EXCEPT ![r] = NoRow]
          /\ menu' = menu /\ address' = address /\ UNCHANGED <<sales, call, reply>>
      BY <1>4 DEF DeleteRestaurant
    <2>2. /\ \A c \in Calls : call[c].pc \in InTx => call[c].restaurant # r
          /\ \A o \in Placed : order[o].restaurant # r
      BY <1>4 DEF DeleteRestaurant, RestaurantHeld
    <2>3. \A q \in Restaurants : q # r => restaurant'[q] = restaurant[q]
      BY <1>1, <2>1
    <2>4. restaurant' \in [Restaurants -> RestaurantStatus \cup {NoRow}]
      BY <1>1, <2>1
    <2> QED
      BY <1>1, <2>1, <2>2, <2>3, <2>4, Named, CatalogueStep
  <1>5. ASSUME NEW i \in Items, NEW row \in MenuRow, UpdateMenuItem(i, row)
        PROVE  IInv'
    <2>1. /\ menu' = [menu EXCEPT ![i] = row]
          /\ restaurant' = restaurant /\ address' = address /\ UNCHANGED <<sales, call, reply>>
      BY <1>5 DEF UpdateMenuItem
    <2>2. \A j \in Items : menu[j] # NoRow => menu'[j] # NoRow
      BY <1>1, <1>2, <2>1
    <2>3. menu' \in [Items -> MenuRow \cup {NoRow}]
      BY <1>1, <2>1
    <2> QED
      BY <1>1, <2>1, <2>2, <2>3, Named, CatalogueStep
  <1>6. ASSUME NEW i \in Items, DeleteMenuItem(i)
        PROVE  IInv'
    <2>1. /\ menu' = [menu EXCEPT ![i] = NoRow]
          /\ restaurant' = restaurant /\ address' = address /\ UNCHANGED <<sales, call, reply>>
      BY <1>6 DEF DeleteMenuItem
    <2>2. /\ \A c \in Calls : call[c].pc \in {"filled", "paid"} => i \notin ItemsOf(call[c].lines)
          /\ \A o \in Placed : i \notin ItemsOf(order[o].lines)
      BY <1>6 DEF DeleteMenuItem, ItemHeld
    <2>3. \A j \in Items : j # i => menu'[j] = menu[j]
      BY <1>1, <2>1
    <2>4. menu' \in [Items -> MenuRow \cup {NoRow}]
      BY <1>1, <2>1
    <2> QED
      BY <1>1, <2>1, <2>2, <2>3, <2>4, Named, CatalogueStep
  <1>7. ASSUME NEW a \in address, DeleteAddress(a)
        PROVE  IInv'
    <2>1. /\ address' = address \ {a}
          /\ restaurant' = restaurant /\ menu' = menu /\ UNCHANGED <<sales, call, reply>>
      BY <1>7 DEF DeleteAddress
    <2>2. /\ \A c \in Calls : call[c].pc \in InTx => call[c].address # a
          /\ \A o \in Placed : order[o].address # a
      BY <1>7 DEF DeleteAddress, AddressHeld
    <2> QED
      BY <1>1, <2>1, <2>2, Named, CatalogueStep
  <1> QED
    BY <1>3, <1>4, <1>5, <1>6, <1>7

-----------------------------------------------------------------------------
(* What may go wrong, and the step that changes nothing.                   *)

LEMMA SamePcs ==
    ASSUME IInv PROVE call = [c \in Calls |-> [call[c] EXCEPT !.pc = call[c].pc]]
  <1>1. \A c \in Calls : [call[c] EXCEPT !.pc = call[c].pc] = call[c]
    BY DEF IInv, TypeOK, Handler
  <1> QED
    BY <1>1 DEF IInv, TypeOK

LEMMA TimeOutStep == ASSUME IInv, NEW c \in Calls, TimeOut(c) PROVE IInv'
  <1>1. /\ reply' = [reply EXCEPT ![c] = "timeout"]
        /\ call' = call /\ UNCHANGED <<catalogue, sales>>
    BY DEF TimeOut
  <1> DEFINE pcs == [d \in Calls |-> call[d].pc]
  <1>2. pcs \in [Calls -> Pcs]
    BY DEF IInv, TypeOK, Handler, Pcs
  <1>3. call' = [d \in Calls |-> [call[d] EXCEPT !.pc = pcs[d]]]
    BY <1>1, SamePcs
  <1>4. \A d \in Calls : [call[d] EXCEPT !.pc = pcs[d]] = call[d]
    BY DEF IInv, TypeOK, Handler
  <1>5. \A d \in Calls : Ready([call[d] EXCEPT !.pc = pcs[d]])
    BY <1>4 DEF IInv, HandlersReady
  <1>6. /\ reply' \in [Calls -> Replies]
        /\ \A d \in Calls : reply'[d] = "ok" => reply[d] = "ok" \/ call[d].order # NoRow
    BY <1>1 DEF IInv, TypeOK, Replies
  <1> HIDE DEF pcs
  <1> QED
    BY <1>1, <1>2, <1>3, <1>5, <1>6, PcStep

LEMMA CrashStep == ASSUME IInv, Crash PROVE IInv'
  <1> DEFINE pcs == [c \in Calls |-> IF InFlight(c) THEN "done" ELSE call[c].pc]
  <1>1. pcs \in [Calls -> Pcs]
    BY DEF IInv, TypeOK, Handler, Pcs
  <1>2. \A c \in Calls : ~InFlight(c) => [call[c] EXCEPT !.pc = call[c].pc] = call[c]
    BY DEF IInv, TypeOK, Handler
  <1>3. call' = [c \in Calls |-> [call[c] EXCEPT !.pc = pcs[c]]]
    BY <1>2 DEF Crash
  <1>4. \A c \in Calls : Ready([call[c] EXCEPT !.pc = pcs[c]])
    <2> TAKE c \in Calls
    <2>1. call[c] \in Handler /\ Ready(call[c])
      BY DEF IInv, TypeOK, HandlersReady
    <2>2. CASE InFlight(c)
      BY <2>1, <2>2, DoneReady
    <2>3. CASE ~InFlight(c)
      BY <1>2, <2>1, <2>3
    <2> QED
      BY <2>2, <2>3
  <1>5. /\ reply' \in [Calls -> Replies]
        /\ \A c \in Calls : reply'[c] = "ok" => reply[c] = "ok" \/ call[c].order # NoRow
    BY DEF Crash, IInv, TypeOK, Replies
  <1>6. UNCHANGED <<catalogue, sales>>
    BY DEF Crash
  <1> HIDE DEF pcs
  <1> QED
    BY <1>1, <1>3, <1>4, <1>5, <1>6, PcStep

LEMMA StutterStep == ASSUME IInv, UNCHANGED vars PROVE IInv'
  <1>1. /\ restaurant' = restaurant /\ menu' = menu /\ address' = address
        /\ UNCHANGED <<sales, call, reply>>
    BY DEF vars, catalogue
  <1>2. /\ restaurant \in [Restaurants -> RestaurantStatus \cup {NoRow}]
        /\ menu \in [Items -> MenuRow \cup {NoRow}]
        /\ address \in SUBSET Addresses
    BY DEF IInv, TypeOK
  <1> QED
    BY <1>1, <1>2, Named, CatalogueStep

LEMMA NextIInv == IInv /\ [Next]_vars => IInv'
  <1> SUFFICES ASSUME IInv, [Next]_vars PROVE IInv'
    OBVIOUS
  <1>1. ASSUME NEW c \in Calls, CallCreate(c) \/ CreateStep(c) \/ TimeOut(c) \/ Fail(c)
        PROVE  IInv'
    <2>1. CASE ReadMenu(c)
      BY <2>1, ReadMenuStep
    <2>2. CASE Commit(c)
      BY <2>2, CommitStep
    <2>3. CASE AnswerCreate(c)
      <3>1. call[c].order # NoRow
        BY <2>3 DEF AnswerCreate, IInv, HandlersReady, Ready
      <3> QED
        BY <2>3, <3>1, DoneStep DEF AnswerCreate
    <2>4. CASE TimeOut(c)
      BY <2>4, TimeOutStep
    <2>5. CASE Fail(c)
      BY <2>5, ThrowStep DEF Fail
    <2> QED
      BY <1>1, <2>1, <2>2, <2>3, <2>4, <2>5, CheckSteps DEF CreateStep
  <1>2. CASE Crash
    BY <1>2, CrashStep
  <1>3. CASE UNCHANGED vars
    BY <1>3, StutterStep
  <1> QED
    BY <1>1, <1>2, <1>3, WriterSteps DEF Next

-----------------------------------------------------------------------------
(* The theorems.                                                           *)

\* IInv is an inductive invariant of createOrder among the other writers: what a
\* handler has checked stays true while the locks of its transaction are held.
THEOREM Invariance == Spec => []IInv
  <1> QED
    BY InitIInv, NextIInv, PTL DEF Spec

\* Every table, handler and answer keeps its type; no amount overflows its column.
THEOREM TypeCorrect == Spec => []TypeOK
  <1>1. IInv => TypeOK
    BY DEF IInv
  <1> QED
    BY <1>1, Invariance, PTL

\* The order and its payment are written together and agree with the priced lines,
\* however the prices change and wherever createOrder fails.
THEOREM AmountsAlwaysAgree == Spec => []AmountsAgree
  <1>1. IInv => AmountsAgree
    BY DEF IInv
  <1> QED
    BY <1>1, Invariance, PTL

\* Nothing an order names is deleted, though createOrder checks it before its
\* transaction begins.
THEOREM ReferencesAlwaysExist == Spec => []ReferencesExist
  <1>1. IInv => ReferencesExist
    BY DEF IInv
  <1> QED
    BY <1>1, Invariance, PTL

\* Every order is what exactly one request asked for, and a client told that his
\* order is placed has one.
THEOREM OrdersAlwaysAnswer == Spec => []OrdersAnswerCalls
  <1>1. IInv => OrdersAnswerCalls
    BY DEF IInv
  <1> QED
    BY <1>1, Invariance, PTL

-----------------------------------------------------------------------------
(* OrderPlacement implements Sales.                                        *)

Before == {"idle", "called", "open", "addressed"}

\* A handler has no lines before it has read the menu.
Unpriced == \A c \in Calls : call[c].pc \in Before => call[c].lines = <<>>

LEMMA InitUnpriced == Init => Unpriced
  BY DEF Init, Unpriced

LEMMA NextUnpriced == IInv /\ Unpriced /\ [Next]_vars => Unpriced'
  <1> SUFFICES ASSUME IInv, Unpriced, [Next]_vars PROVE Unpriced'
    OBVIOUS
  <1>1. call \in [Calls -> Handler]
    BY DEF IInv, TypeOK
  <1>2. ASSUME NEW c \in Calls, CallCreate(c) \/ CreateStep(c) \/ TimeOut(c) \/ Fail(c)
        PROVE  Unpriced'
    <2>1. CASE ReadMenu(c)
      <3>1. call[c] \in Handler
        BY <1>1
      <3>2. call'[c].pc \in {"priced", "done"} /\ \A d \in Calls \ {c} : call'[d] = call[d]
        BY <1>1, <2>1, <3>1 DEF ReadMenu, Throw, Handler
      <3> QED
        BY <3>2 DEF Unpriced, Before
    <2>2. CASE TimeOut(c)
      BY <2>2 DEF TimeOut, Unpriced
    <2>3. CASE Commit(c)
      BY <1>1, <2>3 DEF Commit, Unpriced, Before
    <2>4. CASE ~ReadMenu(c) /\ ~TimeOut(c) /\ ~Commit(c)
      <3>1. ASSUME NEW pc, call' = [call EXCEPT ![c].pc = pc],
                   pc \in Before => call[c].pc \in Before
            PROVE  Unpriced'
        BY <1>1, <3>1 DEF Unpriced, Handler
      <3>2. \/ call' = [call EXCEPT ![c].pc = "done"]
            \/ /\ call[c].pc \in Before
               /\ \/ call' = [call EXCEPT ![c].pc = "called"]
                  \/ call' = [call EXCEPT ![c].pc = "open"]
                  \/ call' = [call EXCEPT ![c].pc = "addressed"]
            \/ call' = [call EXCEPT ![c].pc = "ordered"]
            \/ call' = [call EXCEPT ![c].pc = "filled"]
            \/ call' = [call EXCEPT ![c].pc = "paid"]
        BY <1>2, <2>4 DEF CallCreate, CreateStep, Fail, ReadRestaurant, ReadAddress, InsertOrder,
             InsertItems, InsertPayment, AnswerCreate, GoTo, Throw, Before
      <3> QED
        BY <3>1, <3>2 DEF Before
    <2> QED
      BY <2>1, <2>2, <2>3, <2>4
  <1>3. CASE Crash
    BY <1>1, <1>3 DEF Crash, Unpriced, Before, Handler
  <1>4. CASE call' = call
    BY <1>4 DEF Unpriced
  <1> QED
    BY <1>2, <1>3, <1>4 DEF Next, vars, SetRestaurantStatus, DeleteRestaurant, UpdateMenuItem,
       DeleteMenuItem, DeleteAddress

LEMMA RefinesInit == Init => Abstract!Init
  <1> SUFFICES ASSUME Init PROVE Abstract!Init
    OBVIOUS
  <1>1. requestBar \in [Calls -> Asks]
    BY DEF Init, requestBar, Asks
  <1>2. admittedBar = {} /\ toldBar = {}
    BY DEF Init, admittedBar, toldBar
  <1>3. offerBar = [c \in Calls |-> <<>>] /\ numberBar = [c \in Calls |-> NoRow]
    BY DEF Init, offerBar, numberBar
  <1>4. soldBar = [o \in OrderIds |-> NoRow]
    BY DEF Init, soldBar
  <1> QED
    BY <1>1, <1>2, <1>3, <1>4 DEF Init, Abstract!Init

Admitted(h) == h.pc \in {"open", "addressed"} \/ h.lines # <<>>

SameRequest(h, g) ==
    /\ h.customer = g.customer /\ h.restaurant = g.restaurant
    /\ h.address = g.address /\ h.cart = g.cart

\* What Sales sees of a step of one handler.
LEMMA MoveSeen ==
    ASSUME IInv, NEW c \in Calls, NEW h, call' = [call EXCEPT ![c] = h],
           SameRequest(h, call[c])
    PROVE  /\ requestBar' = requestBar
           /\ offerBar' = [offerBar EXCEPT ![c] = h.lines]
           /\ numberBar' = [numberBar EXCEPT ![c] = h.order]
           /\ Admitted(h) => admittedBar' = admittedBar \cup {c}
           /\ ~Admitted(h) => admittedBar' = admittedBar \ {c}
           /\ c \in admittedBar <=> Admitted(call[c])
  <1>1. \A d \in Calls : call'[d] = IF d = c THEN h ELSE call[d]
    BY DEF IInv, TypeOK
  <1>2. requestBar' = requestBar
    BY <1>1 DEF requestBar, SameRequest
  <1>3. offerBar' = [offerBar EXCEPT ![c] = h.lines]
    <2>1. \A d \in Calls : call'[d].lines = IF d = c THEN h.lines ELSE call[d].lines
      BY <1>1
    <2> QED
      BY <2>1 DEF offerBar
  <1>4. numberBar' = [numberBar EXCEPT ![c] = h.order]
    <2>1. \A d \in Calls : call'[d].order = IF d = c THEN h.order ELSE call[d].order
      BY <1>1
    <2> QED
      BY <2>1 DEF numberBar
  <1>5. \A d : d \in admittedBar' <=> d \in Calls /\ IF d = c THEN Admitted(h) ELSE d \in admittedBar
    BY <1>1 DEF admittedBar, Admitted
  <1> QED
    BY <1>2, <1>3, <1>4, <1>5 DEF admittedBar, Admitted

\* The same when only the pc changes, and the other way round what does not change.
LEMMA PcSeen ==
    ASSUME IInv, NEW c \in Calls, NEW pc, call' = [call EXCEPT ![c].pc = pc]
    PROVE  /\ UNCHANGED <<requestBar, offerBar, numberBar>>
           /\ (pc \in {"open", "addressed"} \/ call[c].lines # <<>>)
                 => admittedBar' = admittedBar \cup {c}
           /\ ~(pc \in {"open", "addressed"} \/ call[c].lines # <<>>)
                 => admittedBar' = admittedBar \ {c}
           /\ c \in admittedBar <=> Admitted(call[c])
  <1> DEFINE h == [call[c] EXCEPT !.pc = pc]
  <1>1. call[c] \in Handler
    BY DEF IInv, TypeOK
  <1>2. /\ h.pc = pc /\ h.lines = call[c].lines /\ h.order = call[c].order
        /\ SameRequest(h, call[c])
    BY <1>1 DEF Handler, SameRequest
  <1>3. call' = [call EXCEPT ![c] = h]
    BY DEF IInv, TypeOK
  <1> HIDE DEF h
  <1>4. /\ requestBar' = requestBar
        /\ offerBar' = [offerBar EXCEPT ![c] = h.lines]
        /\ numberBar' = [numberBar EXCEPT ![c] = h.order]
        /\ Admitted(h) => admittedBar' = admittedBar \cup {c}
        /\ ~Admitted(h) => admittedBar' = admittedBar \ {c}
        /\ c \in admittedBar <=> Admitted(call[c])
    BY <1>2, <1>3, MoveSeen
  <1>5. offerBar' = offerBar /\ numberBar' = numberBar
    BY <1>2, <1>4 DEF offerBar, numberBar
  <1> QED
    BY <1>2, <1>4, <1>5 DEF Admitted

LEMMA SalesSeen == ASSUME UNCHANGED sales PROVE soldBar' = soldBar
  BY DEF sales, soldBar, SaleOf

LEMMA AnswerSeen ==
    ASSUME IInv, NEW c \in Calls, NEW r \in Replies, Answer(c, r)
    PROVE  \/ toldBar' = toldBar
           \/ r = "ok" /\ toldBar' = toldBar \cup {c}
  BY DEF IInv, TypeOK, Answer, Replies, toldBar

\* A handler that throws gives up what it was admitted to, unless it has its offer.
LEMMA ThrowSeen ==
    ASSUME IInv, NEW c \in Calls, Throw(c)
    PROVE  Abstract!Next \/ UNCHANGED Abstract!vars
  <1>1. /\ UNCHANGED <<requestBar, offerBar, numberBar>>
        /\ call[c].lines # <<>> => admittedBar' = admittedBar \cup {c}
        /\ call[c].lines = <<>> => admittedBar' = admittedBar \ {c}
        /\ c \in admittedBar <=> Admitted(call[c])
    <2>1. PICK pc : pc = "done" /\ call' = [call EXCEPT ![c].pc = pc]
      BY DEF Throw
    <2>2. /\ UNCHANGED <<requestBar, offerBar, numberBar>>
          /\ (pc \in {"open", "addressed"} \/ call[c].lines # <<>>)
                => admittedBar' = admittedBar \cup {c}
          /\ ~(pc \in {"open", "addressed"} \/ call[c].lines # <<>>)
                => admittedBar' = admittedBar \ {c}
          /\ c \in admittedBar <=> Admitted(call[c])
      BY <2>1, PcSeen
    <2> QED
      BY <2>1, <2>2
  <1>2. UNCHANGED <<catalogue, soldBar>>
    BY SalesSeen DEF Throw
  <1>3. toldBar' = toldBar
    BY AnswerSeen DEF Throw, Replies
  <1>4. CASE admittedBar' = admittedBar
    BY <1>1, <1>2, <1>3, <1>4
       DEF catalogue, Abstract!vars, Abstract!catalogue, Abstract!sales
  <1>5. CASE admittedBar' # admittedBar
    <2>1. call[c].lines = <<>> /\ {c} \in SUBSET admittedBar
      BY <1>1, <1>5 DEF Admitted
    <2>2. offerBar[c] = <<>>
      BY <2>1 DEF offerBar
    <2>3. Abstract!GiveUp({c})
      BY <1>1, <1>2, <1>3, <2>1, <2>2 DEF catalogue, Abstract!GiveUp, Abstract!catalogue, Abstract!sales
    <2> QED
      BY <2>1, <2>3 DEF Abstract!Next
  <1> QED
    BY <1>4, <1>5

\* Where a handler goes on as admitted, or not, as it was, Sales sees nothing.
LEMMA GoToSeen ==
    ASSUME IInv, NEW c \in Calls, NEW pc, GoTo(c, pc),
           (pc \in {"open", "addressed"} \/ call[c].lines # <<>>) <=> Admitted(call[c])
    PROVE  UNCHANGED Abstract!vars
  <1>1. call' = [call EXCEPT ![c].pc = pc] /\ UNCHANGED <<catalogue, sales, reply>>
    BY DEF GoTo
  <1>2. /\ UNCHANGED <<requestBar, offerBar, numberBar>>
        /\ (pc \in {"open", "addressed"} \/ call[c].lines # <<>>)
              => admittedBar' = admittedBar \cup {c}
        /\ ~(pc \in {"open", "addressed"} \/ call[c].lines # <<>>)
              => admittedBar' = admittedBar \ {c}
        /\ c \in admittedBar <=> Admitted(call[c])
    BY <1>1, PcSeen
  <1>3. admittedBar' = admittedBar
    BY <1>2
  <1>4. soldBar' = soldBar
    BY <1>1, SalesSeen
  <1>5. toldBar' = toldBar
    BY <1>1 DEF toldBar
  <1> QED
    BY <1>1, <1>2, <1>3, <1>4, <1>5 DEF catalogue, Abstract!vars, Abstract!catalogue, Abstract!sales

LEMMA CallCreateSeen ==
    ASSUME IInv, Unpriced, NEW c \in Calls, CallCreate(c)
    PROVE  UNCHANGED Abstract!vars
  <1>1. PICK pc : pc = "called" /\ GoTo(c, pc)
    BY DEF CallCreate
  <1>2. call[c].pc = "idle" /\ call[c].lines = <<>>
    BY DEF CallCreate, Unpriced, Before
  <1>3. (pc \in {"open", "addressed"} \/ call[c].lines # <<>>) <=> Admitted(call[c])
    BY <1>1, <1>2 DEF Admitted
  <1> QED
    BY <1>1, <1>3, GoToSeen

LEMMA ReadRestaurantSeen ==
    ASSUME IInv, Unpriced, NEW c \in Calls, ReadRestaurant(c)
    PROVE  Abstract!Next \/ UNCHANGED Abstract!vars
  <1>1. CASE Throw(c)
    BY <1>1, ThrowSeen
  <1>2. CASE GoTo(c, "open") /\ restaurant[call[c].restaurant] \in {"OPEN", "BUSY"}
    <2>1. call[c].lines = <<>>
      BY DEF ReadRestaurant, Unpriced, Before
    <2>2. PICK pc : pc = "open" /\ call' = [call EXCEPT ![c].pc = pc]
      BY <1>2 DEF GoTo
    <2>3. /\ UNCHANGED <<requestBar, offerBar, numberBar>>
          /\ (pc \in {"open", "addressed"} \/ call[c].lines # <<>>)
                => admittedBar' = admittedBar \cup {c}
          /\ ~(pc \in {"open", "addressed"} \/ call[c].lines # <<>>)
                => admittedBar' = admittedBar \ {c}
          /\ c \in admittedBar <=> Admitted(call[c])
      BY <2>2, PcSeen
    <2>4. admittedBar' = admittedBar \cup {c}
      BY <2>2, <2>3
    <2>5. soldBar' = soldBar /\ toldBar' = toldBar /\ UNCHANGED catalogue
      BY <1>2, SalesSeen DEF GoTo, toldBar
    <2>6. offerBar[c] = <<>> /\ requestBar[c].restaurant = call[c].restaurant
      BY <2>1 DEF offerBar, requestBar
    <2>7. Abstract!Admit(c)
      BY <1>2, <2>3, <2>4, <2>5, <2>6
         DEF catalogue, Abstract!Admit, Abstract!catalogue, Abstract!sales
    <2> QED
      BY <2>7 DEF Abstract!Next
  <1> QED
    BY <1>1, <1>2 DEF ReadRestaurant

LEMMA ReadAddressSeen ==
    ASSUME IInv, NEW c \in Calls, ReadAddress(c)
    PROVE  Abstract!Next \/ UNCHANGED Abstract!vars
  <1>1. CASE Throw(c)
    BY <1>1, ThrowSeen
  <1>2. CASE GoTo(c, "addressed")
    <2>1. PICK pc : pc = "addressed" /\ GoTo(c, pc)
      BY <1>2
    <2>2. (pc \in {"open", "addressed"} \/ call[c].lines # <<>>) <=> Admitted(call[c])
      BY <2>1 DEF ReadAddress, Admitted
    <2> QED
      BY <2>1, <2>2, GoToSeen
  <1> QED
    BY <1>1, <1>2 DEF ReadAddress

LEMMA ReadMenuSeen ==
    ASSUME IInv, Unpriced, NEW c \in Calls, ReadMenu(c)
    PROVE  Abstract!Next \/ UNCHANGED Abstract!vars
  <1>1. CASE Throw(c)
    BY <1>1, ThrowSeen
  <1>2. CASE ~Throw(c)
    <2> DEFINE lines == Priced(call[c].cart)
               h == [call[c] EXCEPT !.pc = "priced", !.lines = lines, !.totalPrice = Total(lines)]
    <2>1. /\ call[c].pc = "addressed"
          /\ \A i \in ItemsOf(call[c].cart) : Offered(i, call[c].restaurant)
          /\ call' = [call EXCEPT ![c].pc = "priced", ![c].lines = lines,
                                  ![c].totalPrice = Total(lines)]
          /\ UNCHANGED <<catalogue, sales, reply>>
      BY <1>2 DEF ReadMenu
    <2>2. call[c] \in Handler /\ call[c].cart \in Carts /\ call[c].cart # <<>>
      BY <2>1 DEF IInv, TypeOK, Handler, HandlersReady, Ready, PastRestaurant
    <2>3. lines # <<>>
      <3>1. TypeOK /\ \A i \in ItemsOf(call[c].cart) : menu[i] # NoRow
        BY <2>1 DEF IInv, Offered
      <3> QED
        BY <2>2, <3>1, PricedCart
    <2>4. call' = [call EXCEPT ![c] = h]
      BY <2>1, <2>2 DEF IInv, TypeOK, Handler
    <2>5. h.lines = lines /\ h.order = call[c].order /\ SameRequest(h, call[c])
      BY <2>2 DEF Handler, SameRequest
    <2> HIDE DEF h
    <2>6. /\ requestBar' = requestBar
          /\ offerBar' = [offerBar EXCEPT ![c] = h.lines]
          /\ numberBar' = [numberBar EXCEPT ![c] = h.order]
          /\ Admitted(h) => admittedBar' = admittedBar \cup {c}
          /\ ~Admitted(h) => admittedBar' = admittedBar \ {c}
          /\ c \in admittedBar <=> Admitted(call[c])
      BY <2>4, <2>5, MoveSeen
    <2>7. numberBar' = numberBar
      BY <2>5, <2>6 DEF numberBar
    <2>8. c \in admittedBar /\ admittedBar' = admittedBar
      BY <2>1, <2>3, <2>5, <2>6 DEF Admitted
    <2>9. soldBar' = soldBar /\ toldBar' = toldBar /\ UNCHANGED catalogue
      BY <2>1, SalesSeen DEF toldBar
    <2>10. requestBar[c].cart = call[c].cart /\ requestBar[c].restaurant = call[c].restaurant
      BY DEF requestBar
    <2>11. offerBar[c] = <<>>
      BY <2>1 DEF offerBar, Unpriced, Before
    <2>12. offerBar' = [offerBar EXCEPT ![c] =
                          [k \in DOMAIN call[c].cart |->
                             [item |-> call[c].cart[k].item, quantity |-> call[c].cart[k].quantity,
                              price |-> menu[call[c].cart[k].item].price]]]
      BY <2>5, <2>6 DEF Priced
    <2>13. \A i \in ItemsOf(call[c].cart) :
              menu[i] # NoRow /\ menu[i].isAvailable /\ MenuOf[i] = call[c].restaurant
      BY <2>1 DEF Offered
    <2>14. Abstract!Offer(c)
      <3> DEFINE cart == requestBar[c].cart
      <3>1. c \in admittedBar /\ offerBar[c] = <<>> /\ cart # <<>>
        BY <2>2, <2>8, <2>10, <2>11
      <3>2. \A i \in Abstract!Named(cart) :
               menu[i] # NoRow /\ menu[i].isAvailable /\ MenuOf[i] = requestBar[c].restaurant
        BY <2>10, <2>13 DEF ItemsOf, Abstract!Named
      <3>3. offerBar' = [offerBar EXCEPT ![c] =
                           [k \in DOMAIN cart |->
                              [item |-> cart[k].item, quantity |-> cart[k].quantity,
                               price |-> menu[cart[k].item].price]]]
        BY <2>10, <2>12
      <3>4. UNCHANGED <<Abstract!catalogue, requestBar, admittedBar, Abstract!sales, toldBar>>
        BY <2>6, <2>7, <2>8, <2>9 DEF catalogue, Abstract!catalogue, Abstract!sales
      <3> QED
        BY <3>1, <3>2, <3>3, <3>4 DEF Abstract!Offer
    <2> QED
      BY <2>14 DEF Abstract!Next
  <1> QED
    BY <1>1, <1>2

\* The statements of the transaction are not seen before the commit.
LEMMA InsertSeen ==
    ASSUME IInv, NEW c \in Calls, InsertOrder(c) \/ InsertItems(c) \/ InsertPayment(c)
    PROVE  Abstract!Next \/ UNCHANGED Abstract!vars
  <1>1. CASE Throw(c)
    BY <1>1, ThrowSeen
  <1>2. ASSUME NEW pc, GoTo(c, pc)
        PROVE  UNCHANGED Abstract!vars
    <2>1. call[c].lines # <<>>
      BY DEF InsertOrder, InsertItems, InsertPayment, IInv, HandlersReady, Ready, PastMenu, InTx,
         Quoted
    <2>2. (pc \in {"open", "addressed"} \/ call[c].lines # <<>>) <=> Admitted(call[c])
      BY <2>1 DEF Admitted
    <2> QED
      BY <1>2, <2>2, GoToSeen
  <1>3. \/ Throw(c)
        \/ GoTo(c, "ordered") \/ GoTo(c, "filled") \/ GoTo(c, "paid")
    BY DEF InsertOrder, InsertItems, InsertPayment
  <1> QED
    BY <1>1, <1>2, <1>3

\* The commit sells what the handler was offered, for what it has checked is still there.
LEMMA CommitSeen ==
    ASSUME IInv, NEW c \in Calls, Commit(c)
    PROVE  Abstract!Next
  <1> DEFINE h(o) == [call[c] EXCEPT !.pc = "committed", !.order = o]
  <1>1. PICK o \in OrderIds \ Placed :
          /\ order' = [order EXCEPT ![o] = OrderFor(call[c])]
          /\ payment' = [payment EXCEPT ![o] = call[c].totalPrice + DeliveryFee]
          /\ call' = [call EXCEPT ![c].pc = "committed", ![c].order = o]
    BY DEF Commit
  <1>2. call[c] \in Handler /\ Ready(call[c]) /\ call[c].pc = "paid"
    BY DEF Commit, IInv, TypeOK, HandlersReady
  <1>3. /\ Quoted(call[c])
        /\ OwnerOf[call[c].address] = call[c].customer
        /\ restaurant[call[c].restaurant] # NoRow
        /\ call[c].address \in address
        /\ \A i \in ItemsOf(call[c].lines) : menu[i] # NoRow
        /\ call[c].order = NoRow
        /\ call[c].totalPrice \in 0..MaxAmount
    BY <1>2 DEF Ready, PastAddress, PastMenu, InTx
  <1>4. call' = [call EXCEPT ![c] = h(o)]
    BY <1>1, <1>2 DEF IInv, TypeOK, Handler
  <1>5. h(o).lines = call[c].lines /\ h(o).order = o /\ SameRequest(h(o), call[c])
    BY <1>2 DEF Handler, SameRequest
  <1>6. PICK g : g = h(o) /\ call' = [call EXCEPT ![c] = g]
    BY <1>4
  <1>7. g.lines = call[c].lines /\ g.order = o /\ SameRequest(g, call[c])
    BY <1>5, <1>6
  <1>8. /\ requestBar' = requestBar
        /\ offerBar' = [offerBar EXCEPT ![c] = g.lines]
        /\ numberBar' = [numberBar EXCEPT ![c] = g.order]
        /\ Admitted(g) => admittedBar' = admittedBar \cup {c}
        /\ ~Admitted(g) => admittedBar' = admittedBar \ {c}
        /\ c \in admittedBar <=> Admitted(call[c])
    BY <1>6, <1>7, MoveSeen
  <1>9. offerBar' = offerBar /\ admittedBar' = admittedBar
    BY <1>3, <1>7, <1>8 DEF offerBar, Admitted, Quoted
  <1>10. toldBar' = toldBar /\ UNCHANGED catalogue
    BY DEF Commit, toldBar
  <1> DEFINE sale == [customer |-> call[c].customer, restaurant |-> call[c].restaurant,
                      address |-> call[c].address, lines |-> call[c].lines,
                      paid |-> ChargeFor(call[c].lines)]
  <1>11. soldBar' = [soldBar EXCEPT ![o] = sale]
    <2>1. \A p \in OrderIds \ {o} : order'[p] = order[p] /\ payment'[p] = payment[p]
      BY <1>1 DEF IInv, TypeOK
    <2>2. order'[o] = OrderFor(call[c]) /\ payment'[o] = ChargeFor(call[c].lines)
      BY <1>1, <1>3 DEF IInv, TypeOK, Quoted, ChargeFor
    <2>3. OrderFor(call[c]) # NoRow
      <3>1. OrderFor(call[c]) \in OrderRow
        BY <1>2, <1>3 DEF OrderFor, OrderRow, Handler
      <3> QED
        BY <3>1, RowsDiffer
    <2>4. \A p \in OrderIds : (IF order'[p] = NoRow THEN NoRow ELSE SaleOf(p)')
                              = IF p = o THEN sale ELSE soldBar[p]
      <3> TAKE p \in OrderIds
      <3>1. CASE p = o
        BY <2>2, <2>3, <3>1 DEF SaleOf, OrderFor
      <3>2. CASE p # o
        BY <2>1, <3>2 DEF SaleOf, soldBar
      <3> QED
        BY <3>1, <3>2
    <2> HIDE DEF sale
    <2> QED
      BY <2>4 DEF soldBar
  <1>12. soldBar[o] = NoRow /\ o \in OrderIds
    BY <1>1 DEF soldBar, Placed
  <1>13. Abstract!Sell(c, o)
    <2>1. /\ requestBar[c].customer = call[c].customer
          /\ requestBar[c].restaurant = call[c].restaurant
          /\ requestBar[c].address = call[c].address
          /\ offerBar[c] = call[c].lines
          /\ numberBar[c] = call[c].order
      BY DEF requestBar, offerBar, numberBar
    <2>2. /\ offerBar[c] # <<>> /\ numberBar[c] = NoRow /\ o \notin Abstract!Sold
          /\ restaurant[requestBar[c].restaurant] # NoRow
          /\ requestBar[c].address \in address
          /\ OwnerOf[requestBar[c].address] = requestBar[c].customer
      BY <1>3, <1>12, <2>1 DEF Quoted, Abstract!Sold
    <2>3. \A i \in Abstract!Named(offerBar[c]) : menu[i] # NoRow
      BY <1>3, <2>1 DEF ItemsOf, Abstract!Named
    <2>4. soldBar' = [soldBar EXCEPT ![o] =
                        [customer |-> requestBar[c].customer,
                         restaurant |-> requestBar[c].restaurant,
                         address |-> requestBar[c].address, lines |-> offerBar[c],
                         paid |-> ChargeFor(offerBar[c])]]
      BY <1>11, <2>1
    <2>5. numberBar' = [numberBar EXCEPT ![c] = o]
      BY <1>7, <1>8
    <2>6. UNCHANGED <<Abstract!catalogue, requestBar, admittedBar, offerBar, toldBar>>
      BY <1>8, <1>9, <1>10 DEF catalogue, Abstract!catalogue
    <2> QED
      BY <2>2, <2>3, <2>4, <2>5, <2>6 DEF Abstract!Sell
  <1> QED
    BY <1>12, <1>13 DEF Abstract!Next

LEMMA AnswerCreateSeen ==
    ASSUME IInv, NEW c \in Calls, AnswerCreate(c)
    PROVE  Abstract!Next \/ UNCHANGED Abstract!vars
  <1>1. PICK pc : pc = "done" /\ call' = [call EXCEPT ![c].pc = pc]
    BY DEF AnswerCreate
  <1>2. /\ UNCHANGED <<requestBar, offerBar, numberBar>>
        /\ (pc \in {"open", "addressed"} \/ call[c].lines # <<>>)
              => admittedBar' = admittedBar \cup {c}
        /\ ~(pc \in {"open", "addressed"} \/ call[c].lines # <<>>)
              => admittedBar' = admittedBar \ {c}
        /\ c \in admittedBar <=> Admitted(call[c])
    BY <1>1, PcSeen
  <1>3. admittedBar' = admittedBar
    BY <1>1, <1>2 DEF AnswerCreate, Admitted
  <1>4. soldBar' = soldBar /\ UNCHANGED catalogue
    BY SalesSeen DEF AnswerCreate
  <1>5. toldBar' = toldBar \/ toldBar' = toldBar \cup {c}
    BY AnswerSeen DEF AnswerCreate, Replies
  <1>6. numberBar[c] # NoRow
    BY DEF AnswerCreate, IInv, HandlersReady, Ready, numberBar
  <1>7. UNCHANGED <<Abstract!catalogue, requestBar, admittedBar, offerBar, Abstract!sales>>
    BY <1>2, <1>3, <1>4 DEF catalogue, Abstract!catalogue, Abstract!sales
  <1>8. CASE toldBar' = toldBar
    BY <1>7, <1>8 DEF Abstract!vars
  <1>9. CASE toldBar' = toldBar \cup {c}
    BY <1>6, <1>7, <1>9 DEF Abstract!Tell, Abstract!Next
  <1> QED
    BY <1>5, <1>8, <1>9

\* Of a time limit Sales sees nothing: the handler goes on.
LEMMA TimeOutSeen ==
    ASSUME IInv, NEW c \in Calls, TimeOut(c)
    PROVE  UNCHANGED Abstract!vars
  <1>1. call' = call /\ UNCHANGED <<catalogue, sales>>
    BY DEF TimeOut
  <1>2. UNCHANGED <<requestBar, admittedBar, offerBar, numberBar>>
    BY <1>1 DEF requestBar, admittedBar, offerBar, numberBar
  <1>3. soldBar' = soldBar
    BY <1>1, SalesSeen
  <1>4. toldBar' = toldBar
    BY DEF TimeOut, IInv, TypeOK, toldBar
  <1> QED
    BY <1>1, <1>2, <1>3, <1>4 DEF catalogue, Abstract!vars, Abstract!catalogue, Abstract!sales

\* A crash is the giving up of all that were admitted and have no offer yet.
LEMMA CrashSeen ==
    ASSUME IInv, Crash
    PROVE  Abstract!Next
  <1> DEFINE lost == {c \in Calls : call[c].pc \in {"open", "addressed"} /\ call[c].lines = <<>>}
  <1>1. \A c \in Calls :
          /\ SameRequest(call'[c], call[c])
          /\ call'[c].lines = call[c].lines
          /\ call'[c].order = call[c].order
          /\ call'[c].pc = IF InFlight(c) THEN "done" ELSE call[c].pc
    BY DEF Crash, IInv, TypeOK, Handler, SameRequest
  <1>2. UNCHANGED <<requestBar, offerBar, numberBar>>
    BY <1>1 DEF requestBar, offerBar, numberBar, SameRequest
  <1>3. admittedBar' = admittedBar \ lost
    BY <1>1 DEF admittedBar, InFlight
  <1>4. lost \in SUBSET admittedBar /\ \A c \in lost : offerBar[c] = <<>>
    BY DEF admittedBar, offerBar
  <1>5. soldBar' = soldBar /\ UNCHANGED catalogue
    BY SalesSeen DEF Crash
  <1>6. toldBar' = toldBar
    BY DEF Crash, IInv, TypeOK, toldBar
  <1> HIDE DEF lost
  <1>7. Abstract!GiveUp(lost)
    BY <1>2, <1>3, <1>4, <1>5, <1>6
       DEF catalogue, Abstract!GiveUp, Abstract!catalogue, Abstract!sales
  <1> QED
    BY <1>4, <1>7 DEF Abstract!Next

\* Of what the other writers do to the catalogue Sales sees all, and nothing else changes.
LEMMA WriterSeen ==
    ASSUME UNCHANGED <<sales, call, reply>>
    PROVE  UNCHANGED <<requestBar, admittedBar, offerBar, Abstract!sales, toldBar>>
  <1>1. call' = call /\ reply' = reply
    OBVIOUS
  <1>2. UNCHANGED <<requestBar, admittedBar, offerBar, numberBar, toldBar>>
    BY <1>1 DEF requestBar, admittedBar, offerBar, numberBar, toldBar
  <1>3. soldBar' = soldBar
    BY SalesSeen
  <1> QED
    BY <1>2, <1>3 DEF Abstract!sales

\* What is sold is placed, and names what its order names.
LEMMA SoldArePlaced ==
    \A o \in Abstract!Sold :
       /\ o \in Placed
       /\ soldBar[o].restaurant = order[o].restaurant
       /\ soldBar[o].address = order[o].address
       /\ Abstract!Named(soldBar[o].lines) = ItemsOf(order[o].lines)
  <1> TAKE o \in Abstract!Sold
  <1>1. o \in OrderIds /\ soldBar[o] # NoRow
    BY DEF Abstract!Sold
  <1>2. order[o] # NoRow /\ soldBar[o] = SaleOf(o)
    BY <1>1 DEF soldBar
  <1>3. /\ soldBar[o].restaurant = order[o].restaurant
        /\ soldBar[o].address = order[o].address
        /\ soldBar[o].lines = order[o].lines
    BY <1>2 DEF SaleOf
  <1> QED
    BY <1>1, <1>2, <1>3 DEF Placed, ItemsOf, Abstract!Named

LEMMA WritersSeen ==
    ASSUME \/ \E r \in Restaurants, status \in RestaurantStatus : SetRestaurantStatus(r, status)
           \/ \E r \in Restaurants : DeleteRestaurant(r)
           \/ \E i \in Items, row \in MenuRow : UpdateMenuItem(i, row)
           \/ \E i \in Items : DeleteMenuItem(i)
           \/ \E a \in address : DeleteAddress(a)
    PROVE  Abstract!Next
  <1>1. ASSUME NEW r \in Restaurants, NEW status \in RestaurantStatus,
               SetRestaurantStatus(r, status)
        PROVE  Abstract!Next
    <2>1. UNCHANGED <<requestBar, admittedBar, offerBar, Abstract!sales, toldBar>>
      BY <1>1, WriterSeen DEF SetRestaurantStatus
    <2>2. status # NoRow /\ status \in {"OPEN", "BUSY", "CLOSED", NoRow}
      BY NoRowAssumption DEF RestaurantStatus
    <2>3. Abstract!ChangeStatus(r)
      BY <1>1, <2>1, <2>2 DEF SetRestaurantStatus, Abstract!ChangeStatus
    <2> QED
      BY <2>3 DEF Abstract!Next
  <1>2. ASSUME NEW r \in Restaurants, DeleteRestaurant(r)
        PROVE  Abstract!Next
    <2>1. UNCHANGED <<requestBar, admittedBar, offerBar, Abstract!sales, toldBar>>
      BY <1>2, WriterSeen DEF DeleteRestaurant
    <2>2. \A o \in Abstract!Sold : soldBar[o].restaurant # r
      BY <1>2, SoldArePlaced DEF DeleteRestaurant
    <2>3. Abstract!ChangeStatus(r)
      BY <1>2, <2>1, <2>2 DEF DeleteRestaurant, Abstract!ChangeStatus
    <2> QED
      BY <2>3 DEF Abstract!Next
  <1>3. ASSUME NEW i \in Items, NEW row \in MenuRow, UpdateMenuItem(i, row)
        PROVE  Abstract!Next
    <2>1. UNCHANGED <<requestBar, admittedBar, offerBar, Abstract!sales, toldBar>>
      BY <1>3, WriterSeen DEF UpdateMenuItem
    <2>2. row # NoRow
      BY NoRowAssumption
    <2>3. Abstract!ChangeItem(i)
      BY <1>3, <2>1, <2>2 DEF UpdateMenuItem, Abstract!ChangeItem
    <2> QED
      BY <2>3 DEF Abstract!Next
  <1>4. ASSUME NEW i \in Items, DeleteMenuItem(i)
        PROVE  Abstract!Next
    <2>1. UNCHANGED <<requestBar, admittedBar, offerBar, Abstract!sales, toldBar>>
      BY <1>4, WriterSeen DEF DeleteMenuItem
    <2>2. \A o \in Abstract!Sold : i \notin Abstract!Named(soldBar[o].lines)
      BY <1>4, SoldArePlaced DEF DeleteMenuItem
    <2>3. Abstract!ChangeItem(i)
      BY <1>4, <2>1, <2>2 DEF DeleteMenuItem, Abstract!ChangeItem
    <2> QED
      BY <2>3 DEF Abstract!Next
  <1>5. ASSUME NEW a \in address, DeleteAddress(a)
        PROVE  Abstract!Next
    <2>1. UNCHANGED <<requestBar, admittedBar, offerBar, Abstract!sales, toldBar>>
      BY <1>5, WriterSeen DEF DeleteAddress
    <2>2. \A o \in Abstract!Sold : soldBar[o].address # a
      BY <1>5, SoldArePlaced DEF DeleteAddress
    <2>3. Abstract!DeleteAddress(a)
      BY <1>5, <2>1, <2>2 DEF DeleteAddress, Abstract!DeleteAddress
    <2> QED
      BY <2>3 DEF Abstract!Next
  <1> QED
    BY <1>1, <1>2, <1>3, <1>4, <1>5

LEMMA RefinesNext ==
    ASSUME IInv, Unpriced, [Next]_vars
    PROVE  [Abstract!Next]_(Abstract!vars)
  <1>1. ASSUME NEW c \in Calls, CallCreate(c) \/ CreateStep(c) \/ TimeOut(c) \/ Fail(c)
        PROVE  Abstract!Next \/ UNCHANGED Abstract!vars
    BY <1>1, CallCreateSeen, ReadRestaurantSeen, ReadAddressSeen, ReadMenuSeen, InsertSeen,
       CommitSeen, AnswerCreateSeen, TimeOutSeen, ThrowSeen DEF CreateStep, Fail
  <1>2. CASE Crash
    BY <1>2, CrashSeen
  <1>3. CASE UNCHANGED vars
    BY <1>3, WriterSeen DEF vars, catalogue, Abstract!vars, Abstract!catalogue
  <1> QED
    BY <1>1, <1>2, <1>3, WritersSeen DEF Next

\* createOrder implements Sales: every order was offered from one menu, after its restaurant
\* was seen open, and comes to be with its payment in one step, at which all it names is there.
THEOREM Refinement == Spec => ImplementsSales
  <1>1. Init => Unpriced
    BY InitUnpriced
  <1>2. IInv /\ Unpriced /\ [Next]_vars => Unpriced'
    BY NextUnpriced
  <1>3. IInv /\ Unpriced /\ [Next]_vars => [Abstract!Next]_(Abstract!vars)
    BY RefinesNext
  <1>4. Init => Abstract!Init
    BY RefinesInit
  <1> QED
    BY <1>1, <1>2, <1>3, <1>4, Invariance, PTL DEF Spec, ImplementsSales, Abstract!Spec

=============================================================================
