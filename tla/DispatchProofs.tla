--------------------------- MODULE DispatchProofs ---------------------------
(***************************************************************************)
(* Theorems about Dispatch, for any rows, users, requests and pool size.   *)
(***************************************************************************)
EXTENDS DispatchRefinement, TLAPS

Held == {"claimed", "engaged", "assigned"}

\* The rows a handler relies on are there: no handler deletes one.
RowsExist ==
    /\ \A c \in AcceptCalls : accept[c].pc \in InTx \cup {"committed"}
          => delivery[accept[c].delivery] # NoRow
    /\ \A c \in AcceptCalls : accept[c].pc \in Held \cup {"checked"}
          => profile[accept[c].driver] # NoRow
    /\ \A d \in Deliveries : delivery[d] # NoRow /\ delivery[d].driver # NoDriver
          => profile[delivery[d].driver] # NoRow

\* DriverAgreement, one row at a time.
RowsAgree ==
    /\ \A d \in Deliveries : delivery[d] # NoRow
          => order[delivery[d].order].driver = delivery[d].driver
    /\ \A o \in Orders : ~HasDelivery(o) => order[o].driver = NoDriver

\* OneWinner, from the commit on.
Won(c) == accept[c].pc = "committed" \/ reply[c] = "ok"

WinnersDiffer ==
    \A c \in AcceptCalls : Won(c) =>
        /\ delivery[accept[c].delivery] # NoRow
        /\ delivery[accept[c].delivery].driver = accept[c].driver
        /\ \A e \in AcceptCalls :
              Won(e) /\ accept[e].delivery = accept[c].delivery => e = c

\* A handler about to set a driver free has noted that the delivery was delivered.
DeliveryNoted ==
    \A c \in StatusCalls :
        update[c].pc \in {"written", "ordered"} /\ update[c].status = "DELIVERED"
          => delivery[update[c].delivery].deliveredAt

IInv ==
    /\ TypeOK
    /\ RowsExist
    /\ OneDeliveryPerOrder
    /\ RowsAgree
    /\ LocksHold
    /\ WinnersDiffer
    /\ BusyTracksDeliveries
    /\ CheckStillHolds
    /\ DeliveryNoted

-----------------------------------------------------------------------------
(* The inductive invariant holds initially and is preserved.               *)

LEMMA InitIInv == Init => IInv
  <1> SUFFICES ASSUME Init PROVE IInv
    OBVIOUS
  <1>1. \A d \in DOMAIN Created :
           /\ NewDelivery(Created[d]) \in DeliveryRow
           /\ NewDelivery(Created[d]).order = Created[d]
           /\ NewDelivery(Created[d]).driver = NoDriver
    BY CreatedAssumption DEF NewDelivery, DeliveryRow, DeliveryStatus
  <1>2. \A d \in Deliveries : delivery[d] # NoRow =>
           /\ d \in DOMAIN Created /\ delivery[d] = NewDelivery(Created[d])
           /\ delivery[d].order = Created[d] /\ delivery[d].driver = NoDriver
    BY <1>1 DEF Init
  <1>3. TypeOK
    <2>1. order \in [Orders -> OrderRow] /\ delivery \in [Deliveries -> DeliveryRow \cup {NoRow}]
      <3>1. order \in [Orders -> OrderRow]
        BY DEF Init, OrderRow, OrderStatus
      <3>2. delivery \in [Deliveries -> DeliveryRow \cup {NoRow}]
        BY <1>1 DEF Init
      <3> QED
        BY <3>1, <3>2
    <2>2. profile \in [Drivers -> ProfileRow \cup {NoRow}]
      <3>1. Registered \in ProfileRow /\ Seeded \in ProfileRow
        BY DEF ProfileRow, Registered, Seeded
      <3> QED
        BY <3>1 DEF Init
    <2>3. create \in [CreateCalls -> CreateCall]
      BY DEF Init, CreateCall
    <2>4. accept \in [AcceptCalls -> AcceptCall]
      BY DEF Init, AcceptCall
    <2>5. update \in [StatusCalls -> UpdateCall]
      BY DEF Init, UpdateCall
    <2>6. reply \in [Calls -> Replies]
      BY DEF Init, Replies
    <2> QED
      BY <2>1, <2>2, <2>3, <2>4, <2>5, <2>6 DEF TypeOK
  <1>4. RowsExist
    BY <1>2 DEF Init, RowsExist, InTx, Held
  <1>5. OneDeliveryPerOrder
    BY <1>2, CreatedAssumption DEF OneDeliveryPerOrder
  <1>6. RowsAgree
    BY <1>2, CreatedAssumption DEF Init, RowsAgree
  <1>7. LocksHold
    BY DEF Init, LocksHold
  <1>8. WinnersDiffer
    BY DEF Init, WinnersDiffer, Won, Calls
  <1>9. BusyTracksDeliveries
    BY <1>2, ConstantsAssumption DEF Init, BusyTracksDeliveries, Serves, Registered, Seeded
  <1>10. CheckStillHolds /\ DeliveryNoted
    BY DEF Init, CheckStillHolds, DeliveryNoted
  <1> QED
    BY <1>3, <1>4, <1>5, <1>6, <1>7, <1>8, <1>9, <1>10 DEF IInv

\* What the invariant says of an answer: only "ok" to an accept counts.
LEMMA AnswerType ==
    ASSUME TypeOK, NEW c \in Calls, NEW r \in Replies, Answer(c, r)
    PROVE  /\ reply' \in [Calls -> Replies]
           /\ \A e \in Calls : reply'[e] = "ok" => reply[e] = "ok" \/ (e = c /\ r = "ok")
  BY DEF TypeOK, Answer, Replies

\* The steps of createDelivery that do not insert.
LEMMA CreateLocalStep ==
    ASSUME IInv, NEW c \in CreateCalls, UNCHANGED <<tables, accept, update>>,
           NEW pc \in {"called", "preparing", "absent", "done"},
           create' = [create EXCEPT ![c].pc = pc],
           NEW r \in Replies, Answer(c, r) \/ reply' = reply
    PROVE  IInv'
  <1>1. TypeOK'
    BY AnswerType DEF IInv, TypeOK, tables, CreateCall, Calls
  <1>2. \A e \in AcceptCalls : Won(e)' => Won(e)
    BY ConstantsAssumption, AnswerType DEF IInv, Won, Calls
  <1>3. RowsExist' /\ OneDeliveryPerOrder' /\ RowsAgree' /\ LocksHold'
    BY DEF IInv, tables, RowsExist, OneDeliveryPerOrder, RowsAgree, HasDelivery, LocksHold, Claimable
  <1>4. WinnersDiffer'
    BY <1>2 DEF IInv, tables, WinnersDiffer
  <1>5. BusyTracksDeliveries' /\ CheckStillHolds' /\ DeliveryNoted'
    BY DEF IInv, tables, BusyTracksDeliveries, Serves, CheckStillHolds, Authorized, DeliveryNoted
  <1> QED
    BY <1>1, <1>3, <1>4, <1>5 DEF IInv

LEMMA InsertStep ==
    ASSUME IInv, NEW c \in CreateCalls, InsertDelivery(c)
    PROVE  IInv'
  <1> USE DEF InsertDelivery
  <1>1. PICK d \in Deliveries :
          /\ delivery[d] = NoRow
          /\ delivery' = [delivery EXCEPT ![d] = NewDelivery(create[c].order)]
    OBVIOUS
  <1> USE DEF NewDelivery
  <1> DEFINE row == [order |-> create[c].order, status |-> "WAITING",
                     driver |-> NoDriver, deliveredAt |-> FALSE]
  <1>2. /\ row \in DeliveryRow
        /\ row # NoRow
    <2>1. create[c].order \in Orders
      BY DEF IInv, TypeOK, CreateCall
    <2>2. row \in DeliveryRow
      BY <2>1 DEF DeliveryRow, DeliveryStatus
    <2> QED
      BY <2>2, ConstantsAssumption
  <1>3. /\ \A e \in Deliveries : delivery'[e] = IF e = d THEN row ELSE delivery[e]
        /\ delivery' \in [Deliveries -> DeliveryRow \cup {NoRow}]
    BY <1>1, <1>2 DEF IInv, TypeOK
  <1> HIDE DEF row
  <1>4. TypeOK'
    BY <1>3, AnswerType DEF IInv, TypeOK, CreateCall, Calls, Replies
  <1>5. \A e \in AcceptCalls : Won(e)' => Won(e)
    BY ConstantsAssumption, AnswerType DEF IInv, Won, Calls, Replies
  <1>6. row.order = create[c].order /\ row.driver = NoDriver
    BY DEF row
  <1>7. RowsExist'
    BY <1>1, <1>2, <1>3, <1>6 DEF IInv, TypeOK, AcceptCall, RowsExist
  <1>8. OneDeliveryPerOrder'
    BY <1>1, <1>2, <1>3, <1>6 DEF IInv, OneDeliveryPerOrder, HasDelivery
  <1>9. RowsAgree'
    <2>1. \A e \in Deliveries : delivery'[e] # NoRow
            => order[delivery'[e].order].driver = delivery'[e].driver
      BY <1>1, <1>2, <1>3, <1>6 DEF IInv, TypeOK, CreateCall, RowsAgree
    <2>2. \A o \in Orders : HasDelivery(o) => HasDelivery(o)'
      BY <1>1, <1>2, <1>3, <1>6 DEF HasDelivery
    <2> QED
      BY <2>1, <2>2 DEF IInv, RowsAgree
  <1>10. LocksHold'
    BY <1>1, <1>3 DEF IInv, TypeOK, AcceptCall, LocksHold, Claimable
  <1>11. WinnersDiffer'
    BY <1>1, <1>3, <1>5 DEF IInv, TypeOK, AcceptCall, WinnersDiffer
  <1>12. BusyTracksDeliveries'
    <2>1. \A p \in Drivers, e \in Deliveries : Serves(p, e)' <=> Serves(p, e)
      BY <1>1, <1>2, <1>3, <1>6, ConstantsAssumption DEF Serves
    <2>2. \A p \in Drivers, e \in Deliveries :
             Serves(p, e) => delivery'[e].deliveredAt = delivery[e].deliveredAt
      BY <1>1, <1>3 DEF Serves
    <2> QED
      BY <2>1, <2>2 DEF IInv, BusyTracksDeliveries
  <1>13. CheckStillHolds' /\ DeliveryNoted'
    <2>1. \A e \in StatusCalls : update[e].pc \in {"authorized", "written", "ordered"}
            => delivery'[update[e].delivery] = delivery[update[e].delivery]
      BY <1>1, <1>3 DEF IInv, TypeOK, UpdateCall, CheckStillHolds, Authorized
    <2> QED
      BY <2>1 DEF IInv, CheckStillHolds, Authorized, DeliveryNoted
  <1> QED
    BY <1>4, <1>7, <1>8, <1>9, <1>10, <1>11, <1>12, <1>13 DEF IInv

\* The steps of acceptDelivery before and after its commit: they move one pc.
LEMMA AcceptLocalStep ==
    ASSUME IInv, NEW c \in AcceptCalls, UNCHANGED <<tables, create, update>>,
           NEW pc \in InTx \cup {"called", "done"},
           accept' = [accept EXCEPT ![c].pc = pc],
           NEW r \in Replies, Answer(c, r) \/ reply' = reply,
           r = "ok" => accept[c].pc = "committed",
           pc \in InTx => delivery[accept[c].delivery] # NoRow,
           pc \in Held \cup {"checked"} => profile[accept[c].driver] # NoRow,
           pc \in Held => /\ Claimable(accept[c].delivery)
                         /\ \A e \in AcceptCalls :
                               /\ accept[e].pc \in Held
                               /\ accept[e].delivery = accept[c].delivery
                               => e = c
    PROVE  IInv'
  <1>1. /\ accept' \in [AcceptCalls -> AcceptCall]
        /\ \A e \in AcceptCalls : /\ accept'[e].delivery = accept[e].delivery
                                 /\ accept'[e].driver = accept[e].driver
                                 /\ accept'[e].pc = IF e = c THEN pc ELSE accept[e].pc
    BY DEF IInv, TypeOK, AcceptCall
  <1>2. TypeOK'
    BY <1>1, AnswerType DEF IInv, TypeOK, tables, Calls
  <1>3. \A e \in AcceptCalls : Won(e)' => Won(e)
    BY <1>1, AnswerType DEF IInv, Won, Calls, InTx
  <1>4. RowsExist'
    BY <1>1 DEF IInv, tables, RowsExist, InTx, Held
  <1>5. OneDeliveryPerOrder' /\ RowsAgree'
    BY DEF IInv, tables, OneDeliveryPerOrder, RowsAgree, HasDelivery
  <1>6. LocksHold'
    <2>1. \A e \in AcceptCalls : accept'[e].pc \in Held =>
             delivery[accept[e].delivery] # NoRow /\ Claimable(accept[e].delivery)
      BY <1>1 DEF IInv, LocksHold, Held, InTx
    <2>2. \A e, f \in AcceptCalls :
             accept'[e].pc \in Held /\ accept'[f].pc \in Held
               /\ accept[f].delivery = accept[e].delivery => f = e
      BY <1>1 DEF IInv, LocksHold, Held
    <2> QED
      BY <1>1, <2>1, <2>2 DEF LocksHold, Held, tables, Claimable
  <1>7. WinnersDiffer'
    BY <1>1, <1>3 DEF IInv, tables, WinnersDiffer
  <1>8. BusyTracksDeliveries' /\ CheckStillHolds' /\ DeliveryNoted'
    BY DEF IInv, tables, BusyTracksDeliveries, Serves, CheckStillHolds, Authorized, DeliveryNoted
  <1> QED
    BY <1>2, <1>4, <1>5, <1>6, <1>7, <1>8 DEF IInv

LEMMA ThrowStep ==
    ASSUME IInv, NEW c \in AcceptCalls, Throw(c)
    PROVE  IInv'
  <1>1. /\ UNCHANGED <<tables, create, update>>
        /\ accept' = [accept EXCEPT ![c].pc = "done"]
        /\ Answer(c, "error")
    BY DEF Throw
  <1>2. "done" \in InTx \cup {"called", "done"} /\ "error" \in Replies
    BY DEF Replies
  <1>3. "done" \notin InTx /\ "done" \notin Held \cup {"checked"}
    BY DEF InTx, Held
  <1>4. "error" # "ok"
    OBVIOUS
  <1> QED
    BY <1>1, <1>2, <1>3, <1>4, AcceptLocalStep

LEMMA AcceptStepLemma ==
    ASSUME IInv, NEW c \in AcceptCalls,
           CallAccept(c) \/ AcceptStep(c) \/ FailAccept(c), ~CommitAccept(c)
    PROVE  IInv'
  <1> USE DEF AcceptTo
  <1>1. "ok" \in Replies /\ "error" \in Replies
    BY DEF Replies
  <1>2. CASE CallAccept(c)
    <2>1. /\ UNCHANGED <<tables, create, update>>
          /\ accept' = [accept EXCEPT ![c].pc = "called"]
          /\ reply' = reply
      BY <1>2 DEF CallAccept
    <2>2. "called" \notin InTx /\ "called" \notin Held \cup {"checked"}
      BY DEF InTx, Held
    <2>3. "error" # "ok"
      OBVIOUS
    <2> QED
      BY <1>1, <2>1, <2>2, <2>3, AcceptLocalStep
  <1>3. CASE BeginAccept(c)
    BY <1>1, <1>3, AcceptLocalStep, ThrowStep DEF BeginAccept, InTx, Held
  <1>4. CASE ReadProfile(c)
    <2>1. delivery[accept[c].delivery] # NoRow
      BY <1>4 DEF ReadProfile, IInv, RowsExist, InTx
    <2> QED
      BY <1>1, <1>4, <2>1, AcceptLocalStep, ThrowStep DEF ReadProfile, Eligible, InTx, Held
  <1>5. CASE ClaimDelivery(c)
    <2>1. /\ delivery[accept[c].delivery] # NoRow
          /\ profile[accept[c].driver] # NoRow
      BY <1>5 DEF ClaimDelivery, IInv, RowsExist, InTx
    <2> QED
      BY <1>1, <1>5, <2>1, AcceptLocalStep DEF ClaimDelivery, DeliveryLocked, InTx, Held
  <1>6. CASE ClaimRefused(c)
    BY <1>6, ThrowStep DEF ClaimRefused
  <1>7. CASE EngageDriver(c) \/ AssignOrder(c)
    <2>1. /\ delivery[accept[c].delivery] # NoRow
          /\ profile[accept[c].driver] # NoRow
      BY <1>7 DEF EngageDriver, AssignOrder, IInv, RowsExist, InTx, Held
    <2>2. /\ Claimable(accept[c].delivery)
          /\ \A e \in AcceptCalls :
                /\ accept[e].pc \in Held
                /\ accept[e].delivery = accept[c].delivery
                => e = c
      BY <1>7 DEF EngageDriver, AssignOrder, IInv, LocksHold, Held
    <2> QED
      BY <1>1, <1>7, <2>1, <2>2, AcceptLocalStep DEF EngageDriver, AssignOrder, InTx, Held
  <1>8. CASE AnswerAccept(c)
    <2>1. /\ UNCHANGED <<tables, create, update>>
          /\ accept' = [accept EXCEPT ![c].pc = "done"]
          /\ Answer(c, "ok")
          /\ accept[c].pc = "committed"
      BY <1>8 DEF AnswerAccept
    <2>2. "done" \notin InTx /\ "done" \notin Held \cup {"checked"}
      BY DEF InTx, Held
    <2> QED
      BY <1>1, <2>1, <2>2, AcceptLocalStep
  <1>9. CASE FailAccept(c)
    BY <1>9, ThrowStep DEF FailAccept
  <1> QED
    BY <1>2, <1>3, <1>4, <1>5, <1>6, <1>7, <1>8, <1>9 DEF AcceptStep

LEMMA CommitStep ==
    ASSUME IInv, NEW c \in AcceptCalls, CommitAccept(c)
    PROVE  IInv'
  <1> DEFINE v == accept[c].delivery
             p == accept[c].driver
             o == delivery[v].order
  <1>1. /\ v \in Deliveries
        /\ p \in Drivers
        /\ accept[c].pc = "assigned"
        /\ p # NoDriver
    BY ConstantsAssumption DEF IInv, TypeOK, AcceptCall, CommitAccept
  <1>2. /\ delivery[v] \in DeliveryRow
        /\ delivery[v] # NoRow
        /\ delivery[v].driver = NoDriver
        /\ profile[p] \in ProfileRow
        /\ profile[p] # NoRow
    BY <1>1 DEF IInv, TypeOK, RowsExist, LocksHold, Claimable, InTx, Held
  <1>3. o \in Orders
    BY <1>2 DEF DeliveryRow
  <1> DEFINE dRow == [delivery[v] EXCEPT !.driver = p, !.status = "ACCEPTED"]
             pRow == [profile[p] EXCEPT !.isBusy = TRUE]
             oRow == [status |-> "PICKED_UP", driver |-> p]
  <1>4. /\ dRow \in DeliveryRow
        /\ dRow.order = o
        /\ dRow.driver = p
        /\ dRow.deliveredAt = delivery[v].deliveredAt
    BY <1>1, <1>2 DEF DeliveryRow, DeliveryStatus
  <1>5. pRow \in ProfileRow /\ pRow.isBusy
    BY <1>2 DEF ProfileRow
  <1>6. oRow \in OrderRow /\ oRow.driver = p
    BY <1>1 DEF OrderRow, OrderStatus
  <1>7. dRow # NoRow /\ pRow # NoRow
    BY <1>4, <1>5, ConstantsAssumption
  <1>8. /\ delivery' \in [Deliveries -> DeliveryRow \cup {NoRow}]
        /\ \A d \in Deliveries : delivery'[d] = IF d = v THEN dRow ELSE delivery[d]
    BY <1>1, <1>4 DEF IInv, TypeOK, CommitAccept
  <1>9. /\ profile' \in [Drivers -> ProfileRow \cup {NoRow}]
        /\ \A q \in Drivers : profile'[q] = IF q = p THEN pRow ELSE profile[q]
    BY <1>1, <1>5 DEF IInv, TypeOK, CommitAccept
  <1>10. /\ order' \in [Orders -> OrderRow]
         /\ \A q \in Orders : order'[q] = IF q = o THEN oRow ELSE order[q]
    BY <1>3, <1>6 DEF IInv, TypeOK, CommitAccept
  <1>11. /\ accept' \in [AcceptCalls -> AcceptCall]
         /\ \A e \in AcceptCalls :
               /\ accept'[e].delivery = accept[e].delivery
               /\ accept'[e].driver = accept[e].driver
               /\ accept'[e].pc = IF e = c THEN "committed" ELSE accept[e].pc
    BY DEF IInv, TypeOK, AcceptCall, CommitAccept
  <1>12. create' = create /\ update' = update /\ reply' = reply
    BY DEF CommitAccept
  <1> HIDE DEF v, p, o, dRow, pRow, oRow
  <1>13. TypeOK'
    BY <1>8, <1>9, <1>10, <1>11, <1>12 DEF IInv, TypeOK
  <1>14. \A d \in Deliveries : delivery'[d] # NoRow <=> delivery[d] # NoRow
    BY <1>2, <1>7, <1>8
  <1>15. \A d \in Deliveries : delivery[d] # NoRow => delivery'[d].order = delivery[d].order
    BY <1>4, <1>8 DEF o
  <1>16. \A q \in Drivers : profile'[q] # NoRow <=> profile[q] # NoRow
    BY <1>2, <1>7, <1>9
  <1>17. RowsExist'
    <2>1. \A d \in Deliveries : delivery'[d] # NoRow /\ delivery'[d].driver # NoDriver
             => profile'[delivery'[d].driver] # NoRow
      <3> SUFFICES ASSUME NEW d \in Deliveries,
                          delivery'[d] # NoRow, delivery'[d].driver # NoDriver
                   PROVE  profile'[delivery'[d].driver] # NoRow
        OBVIOUS
      <3>1. CASE d = v
        BY <3>1, <1>1, <1>2, <1>4, <1>8, <1>16
      <3>2. CASE d # v
        <4>1. delivery'[d] = delivery[d] /\ delivery[d].driver \in Drivers
          BY <3>2, <1>8, <1>14 DEF IInv, TypeOK, DeliveryRow
        <4> QED
          BY <4>1, <1>14, <1>16 DEF IInv, RowsExist
      <3> QED
        BY <3>1, <3>2
    <2>2. \A e \in AcceptCalls : accept'[e].pc \in InTx \cup {"committed"}
             => delivery'[accept'[e].delivery] # NoRow
      BY <1>1, <1>2, <1>11, <1>14 DEF IInv, TypeOK, AcceptCall, RowsExist, v
    <2>3. \A e \in AcceptCalls : accept'[e].pc \in Held \cup {"checked"}
             => profile'[accept'[e].driver] # NoRow
      BY <1>11, <1>16 DEF IInv, TypeOK, AcceptCall, RowsExist, Held
    <2> QED
      BY <2>1, <2>2, <2>3 DEF RowsExist
  <1>18. OneDeliveryPerOrder'
    BY <1>14, <1>15 DEF IInv, OneDeliveryPerOrder
  <1>19. RowsAgree'
    <2>1. \A d \in Deliveries : delivery'[d] # NoRow
             => order'[delivery'[d].order].driver = delivery'[d].driver
      <3> SUFFICES ASSUME NEW d \in Deliveries, delivery'[d] # NoRow
                   PROVE  order'[delivery'[d].order].driver = delivery'[d].driver
        OBVIOUS
      <3>1. CASE d = v
        BY <3>1, <1>3, <1>4, <1>6, <1>8, <1>10
      <3>2. CASE d # v
        <4>1. delivery'[d] = delivery[d] /\ delivery[d] # NoRow /\ delivery[d].order \in Orders
          BY <3>2, <1>8, <1>14 DEF IInv, TypeOK, DeliveryRow
        <4>2. delivery[d].order # o
          BY <3>2, <4>1, <1>1, <1>2 DEF IInv, OneDeliveryPerOrder, o
        <4> QED
          BY <4>1, <4>2, <1>10 DEF IInv, RowsAgree
      <3> QED
        BY <3>1, <3>2
    <2>2. \A q \in Orders : ~HasDelivery(q)' => order'[q].driver = NoDriver
      <3>1. \A q \in Orders : HasDelivery(q) => HasDelivery(q)'
        BY <1>14, <1>15 DEF HasDelivery
      <3>2. HasDelivery(o)
        BY <1>1, <1>2 DEF HasDelivery, o
      <3> QED
        BY <3>1, <3>2, <1>10 DEF IInv, RowsAgree
    <2> QED
      BY <2>1, <2>2 DEF RowsAgree
  <1>20. \A e \in AcceptCalls : accept[e].pc \in Held /\ accept[e].delivery = v => e = c
    BY <1>1 DEF IInv, LocksHold, Held, v
  <1>21. LocksHold'
    <2>1. \A e \in AcceptCalls : accept'[e].pc \in Held
             => e # c /\ accept[e].pc \in Held /\ accept[e].delivery # v
      BY <1>11, <1>20 DEF Held
    <2>2. \A e \in AcceptCalls : accept'[e].pc \in Held
             => delivery'[accept[e].delivery] = delivery[accept[e].delivery]
      BY <2>1, <1>8 DEF IInv, TypeOK, AcceptCall
    <2> QED
      BY <2>1, <2>2, <1>11 DEF IInv, LocksHold, Claimable, Held
  <1>22. WinnersDiffer'
    <2>1. \A e \in AcceptCalls : Won(e) => accept[e].delivery # v
      BY <1>1, <1>2, ConstantsAssumption DEF IInv, WinnersDiffer, TypeOK, AcceptCall
    <2>2. \A e \in AcceptCalls : Won(e)' <=> e = c \/ Won(e)
      BY <1>11, <1>12, <1>1 DEF Won
    <2>3. \A e \in AcceptCalls : Won(e)' =>
             /\ delivery'[accept[e].delivery] # NoRow
             /\ delivery'[accept[e].delivery].driver = accept[e].driver
      <3> SUFFICES ASSUME NEW e \in AcceptCalls, Won(e)'
                   PROVE  /\ delivery'[accept[e].delivery] # NoRow
                          /\ delivery'[accept[e].delivery].driver = accept[e].driver
        OBVIOUS
      <3>1. CASE e = c
        BY <3>1, <1>1, <1>4, <1>7, <1>8 DEF v, p
      <3>2. CASE e # c
        <4>1. Won(e) /\ accept[e].delivery # v /\ accept[e].delivery \in Deliveries
          BY <3>2, <2>1, <2>2 DEF IInv, TypeOK, AcceptCall
        <4> QED
          BY <4>1, <1>8 DEF IInv, WinnersDiffer
      <3> QED
        BY <3>1, <3>2
    <2>4. \A e, f \in AcceptCalls :
             Won(e)' /\ Won(f)' /\ accept[f].delivery = accept[e].delivery => f = e
      BY <2>1, <2>2 DEF IInv, WinnersDiffer, v
    <2> QED
      BY <2>3, <2>4, <1>11 DEF WinnersDiffer
  <1>23. BusyTracksDeliveries'
    <2>1. \E d \in Deliveries : delivery'[d] # NoRow /\ delivery'[d].driver = p
      BY <1>1, <1>4, <1>7, <1>8 DEF Serves
    <2>2. \A q \in Drivers, d \in Deliveries : q # p => (Serves(q, d)' <=> Serves(q, d))
      <3> SUFFICES ASSUME NEW q \in Drivers, NEW d \in Deliveries, q # p
                   PROVE  Serves(q, d)' <=> Serves(q, d)
        OBVIOUS
      <3>1. CASE d = v
        BY <3>1, <1>2, <1>4, <1>8, ConstantsAssumption DEF Serves
      <3>2. CASE d # v
        BY <3>2, <1>8 DEF Serves
      <3> QED
        BY <3>1, <3>2
    <2>3. \A d \in Deliveries : delivery[d] # NoRow => delivery'[d].deliveredAt = delivery[d].deliveredAt
      BY <1>4, <1>8
    <2>4. \A q \in Drivers, d \in Deliveries :
             Serves(q, d) => delivery'[d].deliveredAt = delivery[d].deliveredAt
      BY <2>3 DEF Serves
    <2> SUFFICES ASSUME NEW q \in Drivers
                 PROVE  IF profile'[q] # NoRow /\ profile'[q].isBusy
                          THEN \E d \in Deliveries : Serves(q, d)'
                          ELSE (\E d \in Deliveries : Serves(q, d)')
                             => \E d \in Deliveries : Serves(q, d)' /\ delivery'[d].deliveredAt
      BY DEF BusyTracksDeliveries
    <2>5. CASE q = p
      BY <2>5, <2>1, <1>1, <1>5, <1>7, <1>9 DEF Serves
    <2>6. CASE q # p
      BY <2>6, <2>2, <2>4, <1>9 DEF IInv, BusyTracksDeliveries
    <2> QED
      BY <2>5, <2>6
  <1>24. CheckStillHolds'
    <2> SUFFICES ASSUME NEW u \in StatusCalls,
                        update[u].pc \in {"authorized", "written", "ordered"}
                 PROVE  /\ Authorized(update[u])'
                        /\ update[u].seen \in {NoDriver, delivery'[update[u].delivery].driver}
      BY <1>12 DEF CheckStillHolds
    <2>1. /\ update[u].delivery \in Deliveries
          /\ update[u].caller \in Drivers \cup {Admin}
          /\ delivery[update[u].delivery] # NoRow
          /\ update[u].caller \in {Admin, delivery[update[u].delivery].driver}
          /\ update[u].seen \in {NoDriver, delivery[update[u].delivery].driver}
      BY DEF IInv, TypeOK, UpdateCall, CheckStillHolds, Authorized
    <2>2. CASE update[u].delivery = v
      BY <2>1, <2>2, <1>2, <1>12, <1>14, ConstantsAssumption DEF Authorized
    <2>3. CASE update[u].delivery # v
      BY <2>1, <2>3, <1>8, <1>12 DEF Authorized
    <2> QED
      BY <2>2, <2>3
  <1>25. DeliveryNoted'
    <2>1. \A e \in StatusCalls : update[e].delivery \in Deliveries
      BY DEF IInv, TypeOK, UpdateCall
    <2>2. \A d \in Deliveries : delivery[d].deliveredAt => delivery'[d].deliveredAt
      BY <1>4, <1>8
    <2> QED
      BY <2>1, <2>2, <1>12 DEF IInv, DeliveryNoted
  <1> QED
    BY <1>13, <1>17, <1>18, <1>19, <1>21, <1>22, <1>23, <1>24, <1>25 DEF IInv

\* The steps of updateStatus that write no table.
LEMMA UpdateLocalStep ==
    ASSUME IInv, NEW c \in StatusCalls, UNCHANGED <<tables, create, accept>>,
           NEW pc \in {"called", "authorized", "done"},
           NEW s \in Drivers \cup {NoDriver},
           update' = [update EXCEPT ![c].pc = pc, ![c].seen = s],
           NEW r \in Replies, Answer(c, r) \/ reply' = reply,
           pc = "authorized" =>
               /\ Authorized(update[c])
               /\ s \in {NoDriver, delivery[update[c].delivery].driver}
    PROVE  IInv'
  <1>1. /\ update' \in [StatusCalls -> UpdateCall]
        /\ \A e \in StatusCalls :
              /\ update'[e].delivery = update[e].delivery
              /\ update'[e].caller = update[e].caller
              /\ update'[e].status = update[e].status
              /\ update'[e].pc = IF e = c THEN pc ELSE update[e].pc
              /\ update'[e].seen = IF e = c THEN s ELSE update[e].seen
    BY DEF IInv, TypeOK, UpdateCall
  <1>2. TypeOK'
    BY <1>1, AnswerType DEF IInv, TypeOK, tables, Calls
  <1>3. \A e \in AcceptCalls : Won(e)' => Won(e)
    BY ConstantsAssumption, AnswerType DEF IInv, Won, Calls
  <1>4. RowsExist' /\ OneDeliveryPerOrder' /\ RowsAgree' /\ LocksHold'
    BY DEF IInv, tables, RowsExist, OneDeliveryPerOrder, RowsAgree, HasDelivery, LocksHold, Claimable
  <1>5. WinnersDiffer'
    BY <1>3 DEF IInv, tables, WinnersDiffer
  <1>6. BusyTracksDeliveries'
    BY DEF IInv, tables, BusyTracksDeliveries, Serves
  <1>7. CheckStillHolds' /\ DeliveryNoted'
    BY <1>1 DEF IInv, tables, CheckStillHolds, Authorized, DeliveryNoted
  <1> QED
    BY <1>2, <1>4, <1>5, <1>6, <1>7 DEF IInv

\* A write that leaves of every delivery the order and the driver as they are, and
\* a claimed one untouched, disturbs nothing but the columns it writes.
LEMMA WriteDeliveryStep ==
    ASSUME IInv, NEW c \in StatusCalls, WriteDelivery(c)
    PROVE  IInv'
  <1> DEFINE v == update[c].delivery
             dRow == [delivery[v] EXCEPT !.status = update[c].status,
                                         !.deliveredAt = @ \/ update[c].status = "DELIVERED"]
  <1>1. /\ v \in Deliveries
        /\ delivery[v] # NoRow
        /\ delivery[v] \in DeliveryRow
        /\ update[c].status \in DeliveryStatus
        /\ update[c].pc = "authorized"
        /\ ~DeliveryLocked(v)
    BY ConstantsAssumption
    DEF IInv, TypeOK, UpdateCall, CheckStillHolds, Authorized, WriteDelivery
  <1>2. /\ dRow \in DeliveryRow
        /\ dRow.order = delivery[v].order
        /\ dRow.driver = delivery[v].driver
        /\ delivery[v].deliveredAt => dRow.deliveredAt
        /\ update[c].status = "DELIVERED" => dRow.deliveredAt
    BY <1>1 DEF DeliveryRow
  <1>3. dRow # NoRow
    BY <1>2, ConstantsAssumption
  <1>4. /\ delivery' \in [Deliveries -> DeliveryRow \cup {NoRow}]
        /\ \A d \in Deliveries : delivery'[d] = IF d = v THEN dRow ELSE delivery[d]
    BY <1>1, <1>2 DEF IInv, TypeOK, WriteDelivery
  <1>5. /\ update' \in [StatusCalls -> UpdateCall]
        /\ \A e \in StatusCalls :
              /\ update'[e].delivery = update[e].delivery
              /\ update'[e].caller = update[e].caller
              /\ update'[e].seen = update[e].seen
              /\ update'[e].status = update[e].status
              /\ update'[e].pc = IF e = c THEN "written" ELSE update[e].pc
    BY DEF IInv, TypeOK, UpdateCall, WriteDelivery
  <1>6. UNCHANGED <<order, profile, create, accept, reply>>
    BY DEF WriteDelivery
  <1> HIDE DEF v, dRow
  <1>7. \A d \in Deliveries :
          /\ delivery'[d] # NoRow <=> delivery[d] # NoRow
          /\ delivery[d] # NoRow =>
                /\ delivery'[d].order = delivery[d].order
                /\ delivery'[d].driver = delivery[d].driver
                /\ delivery[d].deliveredAt => delivery'[d].deliveredAt
    BY <1>1, <1>2, <1>3, <1>4
  <1>8. TypeOK'
    BY <1>4, <1>5, <1>6 DEF IInv, TypeOK
  <1>9. RowsExist' /\ OneDeliveryPerOrder'
    BY <1>6, <1>7 DEF IInv, TypeOK, AcceptCall, RowsExist, OneDeliveryPerOrder
  <1>10. RowsAgree'
    <2>1. \A o \in Orders : HasDelivery(o)' <=> HasDelivery(o)
      BY <1>7 DEF HasDelivery
    <2> QED
      BY <2>1, <1>6, <1>7 DEF IInv, RowsAgree
  <1>11. LocksHold'
    <2>1. \A e \in AcceptCalls : accept[e].pc \in {"claimed", "engaged", "assigned"}
             => accept[e].delivery # v /\ accept[e].delivery \in Deliveries
      BY <1>1 DEF DeliveryLocked, IInv, TypeOK, AcceptCall
    <2> QED
      BY <2>1, <1>4, <1>6 DEF IInv, LocksHold, Claimable
  <1>12. WinnersDiffer'
    BY <1>6, <1>7 DEF IInv, TypeOK, AcceptCall, WinnersDiffer, Won
  <1>13. BusyTracksDeliveries'
    BY <1>6, <1>7 DEF IInv, BusyTracksDeliveries, Serves
  <1>14. CheckStillHolds'
    <2> SUFFICES ASSUME NEW u \in StatusCalls,
                        update'[u].pc \in {"authorized", "written", "ordered"}
                 PROVE  /\ delivery'[update'[u].delivery] # NoRow
                        /\ update'[u].caller \in {Admin, delivery'[update'[u].delivery].driver}
                        /\ update'[u].seen \in {NoDriver, delivery'[update'[u].delivery].driver}
      BY DEF CheckStillHolds, Authorized
    <2>1. update[u].pc \in {"authorized", "written", "ordered"} /\ update[u].delivery \in Deliveries
      BY <1>1, <1>5 DEF IInv, TypeOK, UpdateCall
    <2> QED
      BY <2>1, <1>5, <1>7 DEF IInv, CheckStillHolds, Authorized
  <1>15. DeliveryNoted'
    <2> SUFFICES ASSUME NEW u \in StatusCalls,
                        update'[u].pc \in {"written", "ordered"},
                        update'[u].status = "DELIVERED"
                 PROVE  delivery'[update'[u].delivery].deliveredAt
      BY DEF DeliveryNoted
    <2>1. CASE u = c
      BY <2>1, <1>1, <1>2, <1>4, <1>5 DEF v
    <2>2. CASE u # c
      <3>1. delivery[update[u].delivery] # NoRow /\ update[u].delivery \in Deliveries
        BY <2>2, <1>5 DEF IInv, TypeOK, UpdateCall, CheckStillHolds, Authorized
      <3> QED
        BY <2>2, <3>1, <1>5, <1>7 DEF IInv, DeliveryNoted
    <2> QED
      BY <2>1, <2>2
  <1> QED
    BY <1>8, <1>9, <1>10, <1>11, <1>12, <1>13, <1>14, <1>15 DEF IInv

\* A write of order rows that leaves their drivers alone.
LEMMA OrderWriteStep ==
    ASSUME IInv, UNCHANGED <<delivery, profile, create, accept, reply>>,
           order' \in [Orders -> OrderRow],
           \A o \in Orders : order'[o].driver = order[o].driver,
           update' \in [StatusCalls -> UpdateCall],
           \A e \in StatusCalls :
              /\ update'[e].delivery = update[e].delivery
              /\ update'[e].caller = update[e].caller
              /\ update'[e].seen = update[e].seen
              /\ update'[e].status = update[e].status
              /\ \/ update'[e].pc = update[e].pc
                 \/ update[e].pc = "written" /\ update'[e].pc = "ordered"
    PROVE  IInv'
  <1>1. TypeOK'
    BY DEF IInv, TypeOK
  <1>2. RowsExist' /\ OneDeliveryPerOrder' /\ LocksHold'
    BY DEF IInv, RowsExist, OneDeliveryPerOrder, LocksHold, Claimable
  <1>3. RowsAgree'
    BY DEF IInv, TypeOK, DeliveryRow, RowsAgree, HasDelivery
  <1>4. WinnersDiffer' /\ BusyTracksDeliveries'
    BY DEF IInv, WinnersDiffer, Won, BusyTracksDeliveries, Serves
  <1>5. CheckStillHolds' /\ DeliveryNoted'
    BY DEF IInv, CheckStillHolds, Authorized, DeliveryNoted
  <1> QED
    BY <1>1, <1>2, <1>3, <1>4, <1>5 DEF IInv

\* A write of profile rows: nobody becomes busy, and whoever ceases to be busy
\* has a delivery that was delivered.
LEMMA ProfileWriteStep ==
    ASSUME IInv, UNCHANGED <<order, delivery, create, accept>>,
           profile' \in [Drivers -> ProfileRow \cup {NoRow}],
           \A p \in Drivers : profile[p] # NoRow => profile'[p] # NoRow,
           \A p \in Drivers : profile'[p] # NoRow /\ profile'[p].isBusy
               => profile[p] # NoRow /\ profile[p].isBusy,
           \A p \in Drivers : profile[p] # NoRow /\ profile[p].isBusy =>
               \/ profile'[p].isBusy
               \/ \E d \in Deliveries : Serves(p, d) /\ delivery[d].deliveredAt,
           update' \in [StatusCalls -> UpdateCall],
           \A e \in StatusCalls :
              /\ update'[e].delivery = update[e].delivery
              /\ update'[e].caller = update[e].caller
              /\ update'[e].seen = update[e].seen
              /\ update'[e].status = update[e].status
              /\ update'[e].pc \in {update[e].pc, "done"},
           reply' \in [Calls -> Replies],
           \A e \in AcceptCalls : reply'[e] = "ok" => reply[e] = "ok"
    PROVE  IInv'
  <1>1. TypeOK'
    BY DEF IInv, TypeOK
  <1>2. RowsExist'
    BY DEF IInv, TypeOK, AcceptCall, DeliveryRow, RowsExist
  <1>3. OneDeliveryPerOrder' /\ LocksHold' /\ RowsAgree'
    BY DEF IInv, OneDeliveryPerOrder, LocksHold, Claimable, RowsAgree, HasDelivery
  <1>4. WinnersDiffer'
    BY DEF IInv, WinnersDiffer, Won
  <1>5. BusyTracksDeliveries'
    BY DEF IInv, BusyTracksDeliveries, Serves
  <1>6. CheckStillHolds' /\ DeliveryNoted'
    BY DEF IInv, CheckStillHolds, Authorized, DeliveryNoted
  <1> QED
    BY <1>1, <1>2, <1>3, <1>4, <1>5, <1>6 DEF IInv

LEMMA WriteOrderStep ==
    ASSUME IInv, NEW c \in StatusCalls, WriteOrder(c)
    PROVE  IInv'
  <1>1. /\ update' \in [StatusCalls -> UpdateCall]
        /\ \A e \in StatusCalls :
              /\ update'[e].delivery = update[e].delivery
              /\ update'[e].caller = update[e].caller
              /\ update'[e].seen = update[e].seen
              /\ update'[e].status = update[e].status
              /\ \/ update'[e].pc = update[e].pc
                 \/ update[e].pc = "written" /\ update'[e].pc = "ordered"
    <2>1. update[c].pc = "written" /\ update' = [update EXCEPT ![c].pc = "ordered"]
      BY DEF WriteOrder
    <2>2. /\ update' \in [StatusCalls -> UpdateCall]
          /\ \A e \in StatusCalls :
                /\ update'[e].delivery = update[e].delivery
                /\ update'[e].caller = update[e].caller
                /\ update'[e].seen = update[e].seen
                /\ update'[e].status = update[e].status
                /\ update'[e].pc = IF e = c THEN "ordered" ELSE update[e].pc
      BY <2>1 DEF IInv, TypeOK, UpdateCall
    <2> QED
      BY <2>1, <2>2
  <1>2. UNCHANGED <<delivery, profile, create, accept, reply>>
    BY DEF WriteOrder
  <1>3. /\ order' \in [Orders -> OrderRow]
        /\ \A o \in Orders : order'[o].driver = order[o].driver
    <2>1. \A s \in DOMAIN Mapped : Mapped[s] \in OrderStatus
      BY DEF Mapped, OrderStatus
    <2>2. \A o \in Orders : order[o] \in OrderRow
      BY DEF IInv, TypeOK
    <2>3. CASE update[c].status \in DOMAIN Mapped
      <3> DEFINE o == delivery[update[c].delivery].order
                 s == Mapped[update[c].status]
      <3>1. order' = [order EXCEPT ![o].status = s] /\ s \in OrderStatus
        BY <2>1, <2>3 DEF WriteOrder
      <3> HIDE DEF o, s
      <3> QED
        BY <3>1, <2>2 DEF IInv, TypeOK, OrderRow
    <2>4. CASE update[c].status \notin DOMAIN Mapped
      BY <2>4 DEF WriteOrder, IInv, TypeOK
    <2> QED
      BY <2>3, <2>4
  <1> QED
    BY <1>1, <1>2, <1>3, OrderWriteStep

LEMMA ReleaseDriverStep ==
    ASSUME IInv, NEW c \in StatusCalls, ReleaseDriver(c)
    PROVE  IInv'
  <1>1. /\ update' \in [StatusCalls -> UpdateCall]
        /\ \A e \in StatusCalls :
              /\ update'[e].delivery = update[e].delivery
              /\ update'[e].caller = update[e].caller
              /\ update'[e].seen = update[e].seen
              /\ update'[e].status = update[e].status
              /\ update'[e].pc \in {update[e].pc, "done"}
    BY DEF IInv, TypeOK, UpdateCall, ReleaseDriver
  <1>2. /\ reply' \in [Calls -> Replies]
        /\ \A e \in AcceptCalls : reply'[e] = "ok" => reply[e] = "ok"
    BY ConstantsAssumption, AnswerType DEF IInv, Calls, Replies, ReleaseDriver
  <1>3. UNCHANGED <<order, delivery, create, accept>>
    BY DEF ReleaseDriver
  <1> DEFINE s == update[c].seen
             v == update[c].delivery
  <1>4. CASE update[c].status = "DELIVERED" /\ s # NoDriver
    <2>1. /\ v \in Deliveries
          /\ delivery[v] # NoRow
          /\ delivery[v].driver = s
          /\ delivery[v].deliveredAt
          /\ s \in Drivers
      BY <1>4 DEF IInv, TypeOK, UpdateCall, CheckStillHolds, Authorized, DeliveryNoted, ReleaseDriver
    <2>2. profile[s] # NoRow /\ profile[s] \in ProfileRow
      BY <2>1, <1>4 DEF IInv, TypeOK, RowsExist
    <2> DEFINE pRow == [profile[s] EXCEPT !.isBusy = FALSE]
    <2>3. pRow \in ProfileRow /\ ~pRow.isBusy
      BY <2>2 DEF ProfileRow
    <2>4. pRow # NoRow
      BY <2>3, ConstantsAssumption
    <2>5. /\ profile' \in [Drivers -> ProfileRow \cup {NoRow}]
          /\ \A p \in Drivers : profile'[p] = IF p = s THEN pRow ELSE profile[p]
      BY <1>4, <2>1, <2>3 DEF IInv, TypeOK, ReleaseDriver
    <2>6. Serves(s, v) /\ delivery[v].deliveredAt
      BY <2>1 DEF Serves
    <2> HIDE DEF pRow, s, v
    <2> QED
      BY <1>1, <1>2, <1>3, <2>1, <2>3, <2>4, <2>5, <2>6, ProfileWriteStep
  <1>5. CASE ~(update[c].status = "DELIVERED" /\ s # NoDriver)
    <2>1. profile' = profile
      BY <1>5 DEF ReleaseDriver
    <2> HIDE DEF s
    <2> QED
      BY <1>1, <1>2, <1>3, <2>1, ProfileWriteStep DEF IInv, TypeOK
  <1> QED
    BY <1>4, <1>5

LEMMA OneWriteStep ==
    ASSUME IInv,
           \/ \E o \in Orders, s \in OrderInputs : SetOrderStatus(o, s)
           \/ \E d \in Drivers : CreateProfile(d)
           \/ \E d \in Drivers, value \in BOOLEAN :
                 SetAvailability(d, value) \/ SetVerification(d, value)
    PROVE  IInv'
  <1>1. /\ update \in [StatusCalls -> UpdateCall]
        /\ reply \in [Calls -> Replies]
    BY DEF IInv, TypeOK
  <1>2. ASSUME NEW o \in Orders, NEW s \in OrderInputs, SetOrderStatus(o, s)
        PROVE  IInv'
    <2>1. s \in OrderStatus
      BY ConstantsAssumption
    <2>2. /\ order' \in [Orders -> OrderRow]
          /\ \A q \in Orders : order'[q].driver = order[q].driver
      BY <1>2, <2>1 DEF IInv, TypeOK, OrderRow, SetOrderStatus
    <2>3. /\ UNCHANGED <<delivery, profile, create, accept, reply>>
          /\ update' = update
      BY <1>2 DEF SetOrderStatus
    <2>4. /\ update' \in [StatusCalls -> UpdateCall]
          /\ \A e \in StatusCalls :
                /\ update'[e].delivery = update[e].delivery
                /\ update'[e].caller = update[e].caller
                /\ update'[e].seen = update[e].seen
                /\ update'[e].status = update[e].status
                /\ \/ update'[e].pc = update[e].pc
                   \/ update[e].pc = "written" /\ update'[e].pc = "ordered"
      BY <1>1, <2>3
    <2> QED
      BY <2>2, <2>3, <2>4, OrderWriteStep
  <1>3. ASSUME NEW d \in Drivers, CreateProfile(d)
        PROVE  IInv'
    <2>1. Registered \in ProfileRow /\ ~Registered.isBusy
      BY DEF Registered, ProfileRow
    <2>2. /\ profile' \in [Drivers -> ProfileRow \cup {NoRow}]
          /\ \A p \in Drivers : profile'[p] = IF p = d THEN Registered ELSE profile[p]
          /\ profile[d] = NoRow
      BY <1>3, <2>1 DEF IInv, TypeOK, CreateProfile
    <2>3. UNCHANGED <<order, delivery, create, accept, update, reply>>
      BY <1>3 DEF CreateProfile
    <2> QED
      BY <1>1, <2>1, <2>2, <2>3, ProfileWriteStep
  <1>4. ASSUME NEW d \in Drivers, NEW row \in ProfileRow, WriteProfile(d, row),
               row.isBusy = profile[d].isBusy
        PROVE  IInv'
    <2>1. row # NoRow
      BY ConstantsAssumption
    <2>2. /\ profile' \in [Drivers -> ProfileRow \cup {NoRow}]
          /\ \A p \in Drivers : profile'[p] = IF p = d THEN row ELSE profile[p]
          /\ profile[d] # NoRow
      BY <1>4 DEF IInv, TypeOK, WriteProfile
    <2>3. UNCHANGED <<order, delivery, create, accept, update, reply>>
      BY <1>4 DEF WriteProfile
    <2> QED
      BY <1>1, <1>4, <2>1, <2>2, <2>3, ProfileWriteStep
  <1>5. ASSUME NEW d \in Drivers, NEW value \in BOOLEAN,
               SetAvailability(d, value) \/ SetVerification(d, value)
        PROVE  IInv'
    <2>1. profile[d] \in ProfileRow
      BY <1>5 DEF IInv, TypeOK, SetAvailability, SetVerification, WriteProfile
    <2>2. CASE SetAvailability(d, value)
      <3> DEFINE row == [profile[d] EXCEPT !.isOnline = value]
      <3>1. row \in ProfileRow /\ row.isBusy = profile[d].isBusy
        BY <2>1 DEF ProfileRow
      <3>2. WriteProfile(d, row)
        BY <2>2 DEF SetAvailability
      <3> QED
        BY <3>1, <3>2, <1>4
    <2>3. CASE SetVerification(d, value)
      <3> DEFINE row == [profile[d] EXCEPT !.isVerified = value]
      <3>1. row \in ProfileRow /\ row.isBusy = profile[d].isBusy
        BY <2>1 DEF ProfileRow
      <3>2. WriteProfile(d, row)
        BY <2>3 DEF SetVerification
      <3> QED
        BY <3>1, <3>2, <1>4
    <2> QED
      BY <1>5, <2>2, <2>3
  <1> QED
    BY <1>2, <1>3, <1>5

LEMMA CreateStepLemma ==
    ASSUME IInv, NEW c \in CreateCalls,
           CallCreate(c) \/ CreateStep(c) \/ FailCreate(c)
    PROVE  IInv'
  <1>1. /\ "ok" \in Replies /\ "error" \in Replies
    BY DEF Replies
  <1>2. CASE InsertDelivery(c)
    BY <1>2, InsertStep
  <1>3. CASE ~InsertDelivery(c)
    <2>1. UNCHANGED <<tables, accept, update>>
      BY <1>3 DEF CreateStep, CallCreate, ReadOrder, FindExisting, InsertRefused, FailCreate
    <2>2. \E pc \in {"called", "preparing", "absent", "done"} :
             create' = [create EXCEPT ![c].pc = pc]
      BY <1>3 DEF CreateStep, CallCreate, ReadOrder, FindExisting, InsertRefused, FailCreate
    <2>3. reply' = reply \/ Answer(c, "ok") \/ Answer(c, "error")
      BY <1>3 DEF CreateStep, CallCreate, ReadOrder, FindExisting, InsertRefused, FailCreate
    <2> QED
      BY <1>1, <2>1, <2>2, <2>3, CreateLocalStep
  <1> QED
    BY <1>2, <1>3

LEMMA UpdateStepLemma ==
    ASSUME IInv, NEW c \in StatusCalls,
           CallUpdate(c) \/ UpdateStep(c) \/ FailUpdate(c)
    PROVE  IInv'
  <1>1. /\ "ok" \in Replies /\ "error" \in Replies
    BY DEF Replies
  <1>2. CASE WriteDelivery(c) \/ WriteOrder(c) \/ ReleaseDriver(c)
    BY <1>2, WriteDeliveryStep, WriteOrderStep, ReleaseDriverStep
  <1>3. update[c].seen \in Drivers \cup {NoDriver}
    BY DEF IInv, TypeOK, UpdateCall
  <1>4. ASSUME NEW pc \in {"called", "done"}, update' = [update EXCEPT ![c].pc = pc],
               UNCHANGED <<tables, create, accept>>,
               reply' = reply \/ Answer(c, "error")
        PROVE  IInv'
    <2>1. update' = [update EXCEPT ![c].pc = pc, ![c].seen = update[c].seen]
      BY <1>4 DEF IInv, TypeOK, UpdateCall
    <2> QED
      BY <1>1, <1>3, <1>4, <2>1, UpdateLocalStep
  <1>5. CASE CallUpdate(c) \/ FailUpdate(c)
    <2>1. UNCHANGED <<tables, create, accept>>
      BY <1>5 DEF CallUpdate, FailUpdate
    <2>2. \E pc \in {"called", "done"} : update' = [update EXCEPT ![c].pc = pc]
      BY <1>5 DEF CallUpdate, FailUpdate
    <2>3. reply' = reply \/ Answer(c, "error")
      BY <1>5 DEF CallUpdate, FailUpdate
    <2> QED
      BY <2>1, <2>2, <2>3, <1>4
  <1>6. CASE ReadDelivery(c)
    <2> DEFINE s == delivery[update[c].delivery].driver
    <2>1. CASE Authorized(update[c])
      <3>1. /\ UNCHANGED <<tables, create, accept>>
            /\ update' = [update EXCEPT ![c].pc = "authorized", ![c].seen = s]
            /\ reply' = reply
        BY <1>6, <2>1 DEF ReadDelivery
      <3>2. s \in Drivers \cup {NoDriver}
        BY <2>1 DEF IInv, TypeOK, UpdateCall, DeliveryRow, Authorized
      <3> QED
        BY <1>1, <2>1, <3>1, <3>2, UpdateLocalStep
    <2>2. CASE ~Authorized(update[c])
      <3>1. /\ UNCHANGED <<tables, create, accept>>
            /\ update' = [update EXCEPT ![c].pc = "done"]
            /\ Answer(c, "error")
        BY <1>6, <2>2 DEF ReadDelivery
      <3> QED
        BY <3>1, <1>4
    <2> QED
      BY <2>1, <2>2
  <1> QED
    BY <1>2, <1>5, <1>6 DEF UpdateStep

\* Neither a late answer nor a restart touches a table.
LEMMA EnvironmentStep ==
    ASSUME IInv, (\E c \in Calls : TimeOut(c)) \/ Crash
    PROVE  IInv'
  <1>1. UNCHANGED tables
    BY DEF TimeOut, Crash
  <1>2. /\ reply' \in [Calls -> Replies]
        /\ \A e \in Calls : reply'[e] = "ok" => reply[e] = "ok"
    BY DEF IInv, TypeOK, TimeOut, Crash, Replies
  <1>3. /\ create' \in [CreateCalls -> CreateCall]
        /\ accept' \in [AcceptCalls -> AcceptCall]
        /\ update' \in [StatusCalls -> UpdateCall]
    <2>1. CASE Crash
      <3>1. /\ DOMAIN create = CreateCalls
            /\ DOMAIN accept = AcceptCalls
            /\ DOMAIN update = StatusCalls
        BY DEF IInv, TypeOK
      <3>2. create' \in [CreateCalls -> CreateCall]
        BY <2>1, <3>1 DEF IInv, TypeOK, Crash, Stopped, CreateCall
      <3>3. accept' \in [AcceptCalls -> AcceptCall]
        BY <2>1, <3>1 DEF IInv, TypeOK, Crash, Stopped, AcceptCall
      <3>4. update' \in [StatusCalls -> UpdateCall]
        BY <2>1, <3>1 DEF IInv, TypeOK, Crash, Stopped, UpdateCall
      <3> QED
        BY <3>2, <3>3, <3>4
    <2>2. CASE ~Crash
      BY <2>2 DEF IInv, TypeOK, TimeOut
    <2> QED
      BY <2>1, <2>2
  <1>4. \A e \in AcceptCalls :
          /\ accept'[e].delivery = accept[e].delivery
          /\ accept'[e].driver = accept[e].driver
          /\ accept'[e].pc \in {accept[e].pc, "done"}
    BY DEF IInv, TypeOK, AcceptCall, TimeOut, Crash, Stopped
  <1>5. \A e \in StatusCalls :
          /\ update'[e].delivery = update[e].delivery
          /\ update'[e].caller = update[e].caller
          /\ update'[e].seen = update[e].seen
          /\ update'[e].status = update[e].status
          /\ update'[e].pc \in {update[e].pc, "done"}
    BY DEF IInv, TypeOK, UpdateCall, TimeOut, Crash, Stopped
  <1>6. \A e \in AcceptCalls : Won(e)' => Won(e)
    BY <1>2, <1>4 DEF Won, Calls
  <1>7. TypeOK'
    BY <1>1, <1>2, <1>3 DEF IInv, TypeOK, tables
  <1>8. RowsExist' /\ OneDeliveryPerOrder' /\ RowsAgree'
    BY <1>1, <1>4 DEF IInv, tables, RowsExist, OneDeliveryPerOrder, RowsAgree, HasDelivery, InTx, Held
  <1>9. LocksHold'
    BY <1>1, <1>4 DEF IInv, tables, LocksHold, Claimable
  <1>10. WinnersDiffer'
    BY <1>1, <1>4, <1>6 DEF IInv, tables, WinnersDiffer
  <1>11. BusyTracksDeliveries'
    BY <1>1 DEF IInv, tables, BusyTracksDeliveries, Serves
  <1>12. CheckStillHolds' /\ DeliveryNoted'
    BY <1>1, <1>5 DEF IInv, tables, CheckStillHolds, Authorized, DeliveryNoted
  <1> QED
    BY <1>7, <1>8, <1>9, <1>10, <1>11, <1>12 DEF IInv

LEMMA NextIInv == IInv /\ [Next]_vars => IInv'
  <1> SUFFICES ASSUME IInv, [Next]_vars PROVE IInv'
    OBVIOUS
  <1>1. CASE \E c \in CreateCalls : CallCreate(c) \/ CreateStep(c) \/ FailCreate(c)
    BY <1>1, CreateStepLemma
  <1>2. CASE \E c \in AcceptCalls : CallAccept(c) \/ AcceptStep(c) \/ FailAccept(c)
    BY <1>2, AcceptStepLemma, CommitStep
  <1>3. CASE \E c \in StatusCalls : CallUpdate(c) \/ UpdateStep(c) \/ FailUpdate(c)
    BY <1>3, UpdateStepLemma
  <1>4. CASE \/ \E o \in Orders, s \in OrderInputs : SetOrderStatus(o, s)
             \/ \E d \in Drivers : CreateProfile(d)
             \/ \E d \in Drivers, value \in BOOLEAN :
                   SetAvailability(d, value) \/ SetVerification(d, value)
    BY <1>4, OneWriteStep
  <1>5. CASE (\E c \in Calls : TimeOut(c)) \/ Crash
    BY <1>5, EnvironmentStep
  <1>6. CASE UNCHANGED vars
    <2>1. UNCHANGED <<order, delivery, profile, create, accept, update, reply>>
      BY <1>6 DEF vars
    <2> QED
      BY <2>1 DEF IInv, TypeOK, RowsExist, OneDeliveryPerOrder, RowsAgree, HasDelivery,
                  LocksHold, Claimable, WinnersDiffer, Won, BusyTracksDeliveries, Serves,
                  CheckStillHolds, Authorized, DeliveryNoted
  <1> QED
    BY <1>1, <1>2, <1>3, <1>4, <1>5, <1>6 DEF Next

-----------------------------------------------------------------------------
(* What holds in every state.                                              *)

\* The inductive invariant holds of every reachable state, for any constants.
THEOREM Invariance == Spec => []IInv
  BY InitIInv, NextIInv, PTL DEF Spec

\* TypeOK: the tables keep their columns' types, whatever is interleaved.
THEOREM TypeCorrect == Spec => []TypeOK
  <1>1. IInv => TypeOK
    BY DEF IInv
  <1> QED
    BY <1>1, Invariance, PTL

\* OneDeliveryPerOrder: racing createDelivery calls leave one row per order.
THEOREM DeliveryUnique == Spec => []OneDeliveryPerOrder
  <1>1. IInv => OneDeliveryPerOrder
    BY DEF IInv
  <1> QED
    BY <1>1, Invariance, PTL

\* DriverAgreement: order and delivery name the same driver in every state.
THEOREM DriversAgree == Spec => []DriverAgreement
  <1>1. IInv => DriverAgreement
    <2> SUFFICES ASSUME IInv, NEW o \in Orders PROVE order[o].driver = DriverOf(o)
      BY DEF DriverAgreement
    <2>1. CASE HasDelivery(o)
      <3> DEFINE d == CHOOSE d \in Deliveries : delivery[d] # NoRow /\ delivery[d].order = o
      <3>1. d \in Deliveries /\ delivery[d] # NoRow /\ delivery[d].order = o
        BY <2>1 DEF HasDelivery
      <3> QED
        BY <2>1, <3>1 DEF IInv, RowsAgree, DriverOf
    <2>2. CASE ~HasDelivery(o)
      BY <2>2 DEF IInv, RowsAgree, DriverOf
    <2> QED
      BY <2>1, <2>2
  <1> QED
    BY <1>1, Invariance, PTL

\* OneWinner: acceptDelivery tells at most one call that it has the delivery,
\* and only the driver who has it.
THEOREM WinnerUnique == Spec => []OneWinner
  <1>1. IInv => OneWinner
    BY DEF IInv, WinnersDiffer, Won, OneWinner, ToldOk
  <1> QED
    BY <1>1, Invariance, PTL

\* BusyTracksDeliveries: isBusy is set with a delivery and cleared with one
\* that was delivered.
THEOREM BusyTracks == Spec => []BusyTracksDeliveries
  <1>1. IInv => BusyTracksDeliveries
    BY DEF IInv
  <1> QED
    BY <1>1, Invariance, PTL

\* CheckStillHolds: what updateStatus checked is so at each of its writes.
THEOREM ChecksHold == Spec => []CheckStillHolds
  <1>1. IInv => CheckStillHolds
    BY DEF IInv
  <1> QED
    BY <1>1, Invariance, PTL

\* LocksHold: one open transaction per claimed row, which waits for its driver.
THEOREM LocksExclusive == Spec => []LocksHold
  <1>1. IInv => LocksHold
    BY DEF IInv
  <1> QED
    BY <1>1, Invariance, PTL

-----------------------------------------------------------------------------
(* What a step may not do.                                                 *)

RowStable(d) ==
    delivery[d] # NoRow =>
        /\ delivery'[d] # NoRow
        /\ delivery'[d].order = delivery[d].order
        /\ delivery[d].driver # NoDriver => delivery'[d].driver = delivery[d].driver

\* Three steps write deliveries.
LEMMA OnlyThreeWrite ==
    ASSUME [Next]_vars,
           ~\E c \in CreateCalls : InsertDelivery(c),
           ~\E c \in AcceptCalls : CommitAccept(c),
           ~\E c \in StatusCalls : WriteDelivery(c)
    PROVE  delivery' = delivery
  BY DEF Next, vars, tables, CreateStep, AcceptStep, UpdateStep, CallCreate, ReadOrder,
         FindExisting, InsertRefused, FailCreate, CallAccept, AcceptTo, Throw, BeginAccept,
         ReadProfile, ClaimDelivery, ClaimRefused, EngageDriver, AssignOrder, AnswerAccept,
         FailAccept, CallUpdate, ReadDelivery, WriteOrder, ReleaseDriver, FailUpdate,
         SetOrderStatus, CreateProfile, WriteProfile, SetAvailability, SetVerification,
         TimeOut, Crash

LEMMA StepStable ==
    ASSUME IInv, IInv', [Next]_vars, NEW d \in Deliveries
    PROVE  RowStable(d)
  <1>1. CASE \E c \in CreateCalls : InsertDelivery(c)
    BY <1>1 DEF InsertDelivery, RowStable, IInv, TypeOK
  <1>2. CASE \E c \in AcceptCalls : CommitAccept(c)
    <2>1. PICK c \in AcceptCalls : CommitAccept(c)
      BY <1>2
    <2> DEFINE v == accept[c].delivery
    <2>2. /\ v \in Deliveries
          /\ delivery[v] \in DeliveryRow
          /\ delivery[v].driver = NoDriver
          /\ accept[c].driver \in Drivers
      <3>1. accept[c].pc = "assigned" /\ v \in Deliveries /\ accept[c].driver \in Drivers
        BY <2>1 DEF CommitAccept, IInv, TypeOK, AcceptCall
      <3>2. delivery[v] # NoRow /\ delivery[v].driver = NoDriver
        BY <3>1 DEF IInv, LocksHold, Claimable
      <3> QED
        BY <3>1, <3>2 DEF IInv, TypeOK
    <2> DEFINE row == [delivery[v] EXCEPT !.driver = accept[c].driver, !.status = "ACCEPTED"]
    <2>3. /\ row \in DeliveryRow
          /\ row.order = delivery[v].order
      BY <2>2 DEF DeliveryRow, DeliveryStatus
    <2>4. row # NoRow
      BY <2>3, ConstantsAssumption
    <2>5. \A e \in Deliveries : delivery'[e] = IF e = v THEN row ELSE delivery[e]
      BY <2>1, <2>2 DEF CommitAccept, IInv, TypeOK
    <2> HIDE DEF row
    <2> QED
      BY <2>2, <2>3, <2>4, <2>5 DEF RowStable
  <1>3. CASE \E c \in StatusCalls : WriteDelivery(c)
    <2>1. PICK c \in StatusCalls : WriteDelivery(c)
      BY <1>3
    <2> DEFINE v == update[c].delivery
    <2>2. /\ v \in Deliveries
          /\ delivery[v] \in DeliveryRow
          /\ update[c].status \in DeliveryStatus
      <3>1. /\ update[c].pc = "authorized"
            /\ v \in Deliveries
            /\ update[c].status \in StatusInputs
        BY <2>1 DEF WriteDelivery, IInv, TypeOK, UpdateCall
      <3>2. delivery[v] # NoRow
        BY <3>1 DEF IInv, CheckStillHolds, Authorized
      <3> QED
        BY <3>1, <3>2, ConstantsAssumption DEF IInv, TypeOK
    <2> DEFINE row == [delivery[v] EXCEPT !.status = update[c].status,
                                          !.deliveredAt = @ \/ update[c].status = "DELIVERED"]
    <2>3. /\ row \in DeliveryRow
          /\ row.order = delivery[v].order
          /\ row.driver = delivery[v].driver
      BY <2>2 DEF DeliveryRow
    <2>4. row # NoRow
      BY <2>3, ConstantsAssumption
    <2>5. \A e \in Deliveries : delivery'[e] = IF e = v THEN row ELSE delivery[e]
      BY <2>1, <2>2 DEF WriteDelivery, IInv, TypeOK
    <2> HIDE DEF row
    <2> QED
      BY <2>2, <2>3, <2>4, <2>5 DEF RowStable
  <1> QED
    BY <1>1, <1>2, <1>3, OnlyThreeWrite DEF RowStable

\* AssignmentStable: no handler takes a delivery from its driver or its order.
THEOREM AssignmentIsStable == Spec => AssignmentStable
  <1>1. IInv /\ IInv' /\ [Next]_vars => [\A d \in Deliveries : delivery[d] # NoRow =>
          /\ delivery'[d] # NoRow
          /\ delivery'[d].order = delivery[d].order
          /\ delivery[d].driver # NoDriver => delivery'[d].driver = delivery[d].driver]_vars
    BY StepStable DEF RowStable
  <1> QED
    BY <1>1, Invariance, PTL DEF Spec, AssignmentStable

-----------------------------------------------------------------------------
(* Dispatch implements Assignment.                                         *)

LEMMA RefinesInit == Init => Abstract!Init
  BY DEF Init, Abstract!Init, riderBar, engagedBar, toldBar, Registered, Seeded, Calls

\* A step is invisible to Assignment if it changes no driver of an order, no
\* isBusy and no "ok" given to an accept call.
LEMMA Stutters ==
    ASSUME IInv, IInv', [Next]_vars,
           \A o \in Orders : order'[o].driver = order[o].driver,
           \A p \in Drivers : (profile'[p] # NoRow /\ profile'[p].isBusy)
                               <=> (profile[p] # NoRow /\ profile[p].isBusy),
           \A c \in AcceptCalls : /\ reply'[c] = "ok" <=> reply[c] = "ok"
                                  /\ accept'[c].delivery = accept[c].delivery
                                  /\ accept'[c].driver = accept[c].driver
    PROVE  UNCHANGED Abstract!vars
  <1>1. riderBar' = riderBar
    BY DEF riderBar
  <1>2. engagedBar' = engagedBar
    BY DEF engagedBar
  <1>3. \A c \in AcceptCalls : reply[c] = "ok" =>
          delivery'[accept[c].delivery].order = delivery[accept[c].delivery].order
    BY StepStable DEF RowStable, IInv, WinnersDiffer, Won, TypeOK, AcceptCall
  <1>4. toldBar' = toldBar
    BY <1>3 DEF toldBar
  <1> QED
    BY <1>1, <1>2, <1>4 DEF Abstract!vars

\* The parameters of a request never change.
LEMMA RequestStable ==
    ASSUME IInv, [Next]_vars, NEW c \in AcceptCalls
    PROVE  /\ accept'[c].delivery = accept[c].delivery
           /\ accept'[c].driver = accept[c].driver
  <1>1. CASE Crash
    BY <1>1 DEF Crash, Stopped, IInv, TypeOK, AcceptCall
  <1>2. CASE \E e \in AcceptCalls : CallAccept(e) \/ AcceptStep(e) \/ FailAccept(e)
    <2>1. \E e \in AcceptCalls, pc \in {"called", "found", "checked", "claimed", "engaged",
                                       "assigned", "committed", "done"} :
             accept' = [accept EXCEPT ![e].pc = pc]
      BY <1>2 DEF CallAccept, AcceptStep, FailAccept, AcceptTo, Throw, BeginAccept, ReadProfile,
                  ClaimDelivery, ClaimRefused, EngageDriver, AssignOrder, CommitAccept, AnswerAccept
    <2> QED
      BY <2>1 DEF IInv, TypeOK, AcceptCall
  <1>3. CASE ~Crash /\ ~\E e \in AcceptCalls : CallAccept(e) \/ AcceptStep(e) \/ FailAccept(e)
    BY <1>3 DEF Next, vars, CreateStep, UpdateStep, CallCreate, ReadOrder, FindExisting,
         InsertDelivery, InsertRefused, FailCreate, CallUpdate, ReadDelivery, WriteDelivery,
         WriteOrder, ReleaseDriver, FailUpdate, SetOrderStatus, CreateProfile, WriteProfile,
         SetAvailability, SetVerification, TimeOut
  <1> QED
    BY <1>1, <1>2, <1>3

LEMMA CommitAssigns ==
    ASSUME IInv, IInv', [Next]_vars, NEW c \in AcceptCalls, CommitAccept(c)
    PROVE  \E o \in Orders, p \in Drivers : Abstract!Assign(o, p)
  <1> DEFINE v == accept[c].delivery
             p == accept[c].driver
             o == delivery[v].order
  <1>1. accept[c].pc = "assigned" /\ v \in Deliveries /\ p \in Drivers
    BY DEF CommitAccept, IInv, TypeOK, AcceptCall
  <1>2. delivery[v] # NoRow /\ delivery[v].driver = NoDriver /\ profile[p] # NoRow
    BY <1>1 DEF IInv, LocksHold, Claimable, RowsExist, Held
  <1>3. delivery[v] \in DeliveryRow /\ profile[p] \in ProfileRow
    BY <1>1, <1>2 DEF IInv, TypeOK
  <1>4. o \in Orders /\ order[o].driver = NoDriver
    BY <1>1, <1>2, <1>3 DEF IInv, RowsAgree, DeliveryRow
  <1>5. riderBar' = [riderBar EXCEPT ![o] = p]
    <2>1. order' = [order EXCEPT ![o] = [status |-> "PICKED_UP", driver |-> p]]
      BY DEF CommitAccept
    <2> QED
      BY <2>1, <1>4 DEF riderBar, IInv, TypeOK
  <1>6. engagedBar' = engagedBar \cup {p}
    <2> DEFINE row == [profile[p] EXCEPT !.isBusy = TRUE]
    <2>1. row \in ProfileRow /\ row.isBusy
      BY <1>3 DEF ProfileRow
    <2>2. row # NoRow
      BY <2>1, ConstantsAssumption
    <2>3. \A q \in Drivers : profile'[q] = IF q = p THEN row ELSE profile[q]
      BY <1>1 DEF CommitAccept, IInv, TypeOK
    <2> HIDE DEF row, p
    <2> QED
      BY <1>1, <2>1, <2>2, <2>3 DEF engagedBar
  <1>7. toldBar' = toldBar
    <2>1. reply' = reply
      BY DEF CommitAccept
    <2>2. \A e \in AcceptCalls : /\ accept'[e].delivery = accept[e].delivery
                                 /\ accept'[e].driver = accept[e].driver
      BY RequestStable
    <2>3. \A e \in AcceptCalls : reply[e] = "ok" =>
            delivery'[accept[e].delivery].order = delivery[accept[e].delivery].order
      BY StepStable DEF RowStable, IInv, WinnersDiffer, Won, TypeOK, AcceptCall
    <2> QED
      BY <2>1, <2>2, <2>3 DEF toldBar
  <1>8. riderBar[o] = NoDriver
    BY <1>4 DEF riderBar
  <1> HIDE DEF o, p
  <1> QED
    BY <1>1, <1>4, <1>5, <1>6, <1>7, <1>8 DEF Abstract!Assign

LEMMA AnswerTells ==
    ASSUME IInv, IInv', [Next]_vars, NEW c \in AcceptCalls, AnswerAccept(c)
    PROVE  (\E o \in Orders, p \in Drivers : Abstract!Tell(o, p)) \/ UNCHANGED Abstract!vars
  <1> DEFINE v == accept[c].delivery
             p == accept[c].driver
             o == delivery[v].order
  <1>1. /\ v \in Deliveries /\ p \in Drivers
        /\ delivery[v] # NoRow /\ delivery[v].driver = p
    BY DEF AnswerAccept, IInv, TypeOK, AcceptCall, WinnersDiffer, Won
  <1>2. o \in Orders /\ order[o].driver = p
    BY <1>1 DEF IInv, TypeOK, RowsAgree, DeliveryRow
  <1>3. order' = order /\ delivery' = delivery /\ profile' = profile
    BY DEF AnswerAccept, tables
  <1>4. riderBar' = riderBar /\ engagedBar' = engagedBar
    BY <1>3 DEF riderBar, engagedBar
  <1>5. \A e \in AcceptCalls : /\ accept'[e].delivery = accept[e].delivery
                               /\ accept'[e].driver = accept[e].driver
    BY RequestStable
  <1>6. \A e \in AcceptCalls :
          reply'[e] = "ok" <=> (reply[e] = "ok" \/ (e = c /\ reply[c] = "none"))
    BY DEF AnswerAccept, Answer, IInv, TypeOK, Calls
  <1>7. CASE reply[c] = "none"
    <2>1. toldBar' = toldBar \cup {<<o, p>>}
      BY <1>3, <1>5, <1>6, <1>7 DEF toldBar
    <2>2. riderBar[o] = p
      BY <1>2 DEF riderBar
    <2> HIDE DEF o, p
    <2> QED
      BY <1>1, <1>2, <1>4, <2>1, <2>2 DEF Abstract!Tell
  <1>8. CASE reply[c] # "none"
    <2>1. toldBar' = toldBar
      BY <1>3, <1>5, <1>6, <1>8 DEF toldBar
    <2> QED
      BY <1>4, <2>1 DEF Abstract!vars
  <1> QED
    BY <1>7, <1>8

LEMMA ReleaseReleases ==
    ASSUME IInv, IInv', [Next]_vars, NEW c \in StatusCalls, ReleaseDriver(c)
    PROVE  (\E p \in Drivers : Abstract!Release(p)) \/ UNCHANGED Abstract!vars
  <1> DEFINE v == update[c].delivery
             s == update[c].seen
  <1>1. order' = order /\ delivery' = delivery /\ accept' = accept
    BY DEF ReleaseDriver
  <1>2. \A e \in AcceptCalls : reply'[e] = reply[e]
    BY ConstantsAssumption DEF ReleaseDriver, Answer, IInv, TypeOK, Calls
  <1>3. riderBar' = riderBar /\ toldBar' = toldBar
    BY <1>1, <1>2 DEF riderBar, toldBar
  <1>4. CASE update[c].status = "DELIVERED" /\ s # NoDriver
    <2>1. /\ v \in Deliveries
          /\ delivery[v] # NoRow
          /\ delivery[v].driver = s
          /\ s \in Drivers
      BY <1>4 DEF ReleaseDriver, IInv, TypeOK, UpdateCall, CheckStillHolds, Authorized
    <2>2. delivery[v].order \in Orders /\ order[delivery[v].order].driver = s
      BY <2>1 DEF IInv, TypeOK, DeliveryRow, RowsAgree
    <2>3. \E o \in Orders : riderBar[o] = s
      BY <2>2 DEF riderBar
    <2>4. profile[s] # NoRow /\ profile[s] \in ProfileRow
      BY <2>1, <1>4 DEF IInv, TypeOK, RowsExist
    <2> DEFINE row == [profile[s] EXCEPT !.isBusy = FALSE]
    <2>5. ~row.isBusy
      BY <2>4 DEF ProfileRow
    <2>6. \A q \in Drivers : profile'[q] = IF q = s THEN row ELSE profile[q]
      BY <1>4, <2>1 DEF ReleaseDriver, IInv, TypeOK
    <2>7. engagedBar' = engagedBar \ {s}
      <3> HIDE DEF row, s
      <3> QED
        BY <2>1, <2>5, <2>6 DEF engagedBar
    <2> HIDE DEF s
    <2>8. CASE s \in engagedBar
      BY <1>3, <2>1, <2>3, <2>7, <2>8 DEF Abstract!Release
    <2>9. CASE s \notin engagedBar
      <3>1. engagedBar' = engagedBar
        BY <2>7, <2>9
      <3> QED
        BY <1>3, <3>1 DEF Abstract!vars
    <2> QED
      BY <2>8, <2>9
  <1>5. CASE ~(update[c].status = "DELIVERED" /\ s # NoDriver)
    <2>1. profile' = profile
      BY <1>5 DEF ReleaseDriver
    <2>2. engagedBar' = engagedBar
      BY <2>1 DEF engagedBar
    <2> QED
      BY <1>3, <2>2 DEF Abstract!vars
  <1> QED
    BY <1>4, <1>5

LEMMA OrdersUnwritten ==
    ASSUME [Next]_vars,
           ~\E c \in AcceptCalls : CommitAccept(c),
           ~\E c \in StatusCalls : WriteOrder(c),
           ~\E o \in Orders, s \in OrderInputs : SetOrderStatus(o, s)
    PROVE  order' = order
  BY DEF Next, vars, tables, CreateStep, AcceptStep, UpdateStep, CallCreate, ReadOrder,
         FindExisting, InsertDelivery, InsertRefused, FailCreate, CallAccept, AcceptTo, Throw,
         BeginAccept, ReadProfile, ClaimDelivery, ClaimRefused, EngageDriver, AssignOrder,
         AnswerAccept, FailAccept, CallUpdate, ReadDelivery, WriteDelivery, ReleaseDriver, FailUpdate,
         CreateProfile, WriteProfile, SetAvailability, SetVerification, TimeOut, Crash

LEMMA ProfilesUnwritten ==
    ASSUME [Next]_vars,
           ~\E c \in AcceptCalls : CommitAccept(c),
           ~\E c \in StatusCalls : ReleaseDriver(c),
           ~\E d \in Drivers : CreateProfile(d),
           ~\E d \in Drivers, value \in BOOLEAN :
               SetAvailability(d, value) \/ SetVerification(d, value)
    PROVE  profile' = profile
  BY DEF Next, vars, tables, CreateStep, AcceptStep, UpdateStep, CallCreate, ReadOrder,
         FindExisting, InsertDelivery, InsertRefused, FailCreate, CallAccept, AcceptTo, Throw,
         BeginAccept, ReadProfile, ClaimDelivery, ClaimRefused, EngageDriver, AssignOrder,
         AnswerAccept, FailAccept, CallUpdate, ReadDelivery, WriteDelivery, WriteOrder, FailUpdate,
         SetOrderStatus, TimeOut, Crash

LEMMA OthersStutter ==
    ASSUME IInv, IInv', [Next]_vars,
           ~\E c \in AcceptCalls : CommitAccept(c) \/ AnswerAccept(c),
           ~\E c \in StatusCalls : ReleaseDriver(c)
    PROVE  UNCHANGED Abstract!vars
  <1>1. \A o \in Orders : order'[o].driver = order[o].driver
    <2>1. \A o \in Orders : order[o] \in OrderRow
      BY DEF IInv, TypeOK
    <2>2. CASE \E o \in Orders, s \in OrderStatus : order' = [order EXCEPT ![o].status = s]
      BY <2>1, <2>2 DEF IInv, TypeOK, OrderRow
    <2>3. CASE \E c \in StatusCalls : WriteOrder(c)
      <3>1. PICK c \in StatusCalls : WriteOrder(c)
        BY <2>3
      <3> DEFINE o == delivery[update[c].delivery].order
      <3>2. order' = order \/ order' = [order EXCEPT ![o].status = Mapped[update[c].status]]
        BY <3>1 DEF WriteOrder
      <3> HIDE DEF o
      <3> QED
        BY <3>2, <2>1 DEF IInv, TypeOK, OrderRow
    <2>4. CASE \E o \in Orders, s \in OrderInputs : SetOrderStatus(o, s)
      BY <2>4, <2>2, ConstantsAssumption DEF SetOrderStatus
    <2>5. CASE /\ ~\E c \in StatusCalls : WriteOrder(c)
               /\ ~\E o \in Orders, s \in OrderInputs : SetOrderStatus(o, s)
      <3>1. order' = order
        BY <2>5, OrdersUnwritten
      <3> QED
        BY <3>1
    <2> QED
      BY <2>3, <2>4, <2>5
  <1>2. \A p \in Drivers : (profile'[p] # NoRow /\ profile'[p].isBusy)
                             <=> (profile[p] # NoRow /\ profile[p].isBusy)
    <2>1. ASSUME NEW d \in Drivers, CreateProfile(d)
          PROVE  \A p \in Drivers : (profile'[p] # NoRow /\ profile'[p].isBusy)
                                     <=> (profile[p] # NoRow /\ profile[p].isBusy)
      BY <2>1 DEF CreateProfile, Registered, IInv, TypeOK
    <2>2. ASSUME NEW d \in Drivers, NEW row \in ProfileRow, WriteProfile(d, row),
                 row.isBusy = profile[d].isBusy
          PROVE  \A p \in Drivers : (profile'[p] # NoRow /\ profile'[p].isBusy)
                                     <=> (profile[p] # NoRow /\ profile[p].isBusy)
      <3>1. row # NoRow
        BY ConstantsAssumption
      <3> QED
        BY <2>2, <3>1 DEF WriteProfile, IInv, TypeOK
    <2>3. ASSUME NEW d \in Drivers, NEW value \in BOOLEAN,
                 SetAvailability(d, value) \/ SetVerification(d, value)
          PROVE  \A p \in Drivers : (profile'[p] # NoRow /\ profile'[p].isBusy)
                                     <=> (profile[p] # NoRow /\ profile[p].isBusy)
      <3>1. profile[d] \in ProfileRow
        BY <2>3 DEF IInv, TypeOK, SetAvailability, SetVerification, WriteProfile
      <3> DEFINE r1 == [profile[d] EXCEPT !.isOnline = value]
                 r2 == [profile[d] EXCEPT !.isVerified = value]
      <3>2. /\ r1 \in ProfileRow /\ r1.isBusy = profile[d].isBusy
            /\ r2 \in ProfileRow /\ r2.isBusy = profile[d].isBusy
        BY <3>1 DEF ProfileRow
      <3>3. WriteProfile(d, r1) \/ WriteProfile(d, r2)
        BY <2>3 DEF SetAvailability, SetVerification
      <3> QED
        BY <3>2, <3>3, <2>2
    <2>4. CASE \/ \E d \in Drivers : CreateProfile(d)
               \/ \E d \in Drivers, value \in BOOLEAN :
                     SetAvailability(d, value) \/ SetVerification(d, value)
      BY <2>1, <2>3, <2>4
    <2>5. CASE /\ ~\E d \in Drivers : CreateProfile(d)
               /\ ~\E d \in Drivers, value \in BOOLEAN :
                     SetAvailability(d, value) \/ SetVerification(d, value)
      <3>1. profile' = profile
        BY <2>5, ProfilesUnwritten
      <3> QED
        BY <3>1
    <2> QED
      BY <2>4, <2>5
  <1>3. \A c \in AcceptCalls : reply'[c] = "ok" <=> reply[c] = "ok"
    <2>1. CASE Crash
      BY <2>1 DEF Crash, IInv, TypeOK, Calls
    <2>2. CASE \E c \in Calls : TimeOut(c)
      BY <2>2 DEF TimeOut, IInv, TypeOK, Calls
    <2>3. CASE \E c \in AcceptCalls : Answer(c, "error")
      BY <2>3 DEF Answer, IInv, TypeOK, Calls
    <2>4. CASE \E c \in CreateCalls \cup StatusCalls, r \in {"ok", "error"} : Answer(c, r)
      BY <2>4, ConstantsAssumption DEF Answer, IInv, TypeOK, Calls
    <2>5. CASE reply' = reply
      BY <2>5
    <2>6. CASE \E c \in CreateCalls : CallCreate(c) \/ CreateStep(c) \/ FailCreate(c)
      BY <2>4, <2>5, <2>6 DEF CallCreate, CreateStep, FailCreate, ReadOrder, FindExisting,
                              InsertDelivery, InsertRefused
    <2>7. CASE \E c \in AcceptCalls : CallAccept(c) \/ AcceptStep(c) \/ FailAccept(c)
      BY <2>3, <2>5, <2>7 DEF CallAccept, AcceptStep, FailAccept, AcceptTo, Throw, BeginAccept,
                  ReadProfile, ClaimDelivery, ClaimRefused, EngageDriver, AssignOrder
    <2>8. CASE \E c \in StatusCalls : CallUpdate(c) \/ UpdateStep(c) \/ FailUpdate(c)
      BY <2>4, <2>5, <2>8 DEF CallUpdate, UpdateStep, FailUpdate, ReadDelivery, WriteDelivery,
                              WriteOrder
    <2>9. CASE UNCHANGED vars
      BY <2>9 DEF vars
    <2>10. CASE \/ \E o \in Orders, s \in OrderInputs : SetOrderStatus(o, s)
                \/ \E d \in Drivers : CreateProfile(d)
                \/ \E d \in Drivers, value \in BOOLEAN :
                      SetAvailability(d, value) \/ SetVerification(d, value)
      BY <2>5, <2>10 DEF SetOrderStatus, CreateProfile, SetAvailability, SetVerification, WriteProfile
    <2> QED
      BY <2>1, <2>2, <2>6, <2>7, <2>8, <2>9, <2>10 DEF Next
  <1> QED
    BY <1>1, <1>2, <1>3, RequestStable, Stutters

\* ImplementsAssignment: every step of Dispatch is a step of Assignment or invisible
\* to it; assigning an order, engaging its driver and the later "ok" are atomic.
THEOREM Refinement == Spec => ImplementsAssignment
  <1>1. IInv /\ IInv' /\ [Next]_vars => [Abstract!Next]_Abstract!vars
    <2> SUFFICES ASSUME IInv, IInv', [Next]_vars
                 PROVE  Abstract!Next \/ UNCHANGED Abstract!vars
      OBVIOUS
    <2>1. CASE \E c \in AcceptCalls : CommitAccept(c)
      BY <2>1, CommitAssigns DEF Abstract!Next
    <2>2. CASE \E c \in AcceptCalls : AnswerAccept(c)
      BY <2>2, AnswerTells DEF Abstract!Next
    <2>3. CASE \E c \in StatusCalls : ReleaseDriver(c)
      BY <2>3, ReleaseReleases DEF Abstract!Next
    <2> QED
      BY <2>1, <2>2, <2>3, OthersStutter
  <1> QED
    BY <1>1, RefinesInit, Invariance, PTL DEF Spec, ImplementsAssignment, Abstract!Spec

=============================================================================
