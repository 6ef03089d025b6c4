------------------------------ MODULE Dispatch ------------------------------
(***************************************************************************)
(* Orders, deliveries and driver profiles, as the handlers of              *)
(* src/src/delivery/delivery.service.ts, src/src/driver/driver.service.ts  *)
(* and OrderService.updateStatus read and write them.                      *)
(*                                                                         *)
(* A call is one HTTP request.  Its handler runs one step per awaited      *)
(* statement, so any other handler may run between two of its steps.       *)
(* acceptDelivery runs in one interactive transaction (READ COMMITTED):    *)
(* what it writes becomes visible at its commit, and the rows it has       *)
(* written stay locked until then.  A write to a locked row waits.  Every  *)
(* other write is a statement of its own that commits at once.             *)
(*                                                                         *)
(* A definition whose comment begins with "Fault:" is no part of the       *)
(* specification: it is a faulty form of the definition that follows it,   *)
(* which one of the properties must find.                                  *)
(***************************************************************************)
EXTENDS Integers, FiniteSets

CONSTANTS
    Orders,         \* rows of "order", all of them placed before we start
    Deliveries,     \* primary keys the "deliveries" table may give out
    Created,        \* those given out before we start, and the order of each
    Drivers,        \* users with the role DRIVER
    Admin,          \* the other caller PATCH /delivery/:id/status admits
    NoDriver,       \* the NULL of a driver_id column
    NoRow,          \* the null findUnique gives for a missing row
    CreateCalls,    \* requests POST  /delivery/order/:orderId
    AcceptCalls,    \* requests POST  /delivery/:deliveryId/accept
    StatusCalls,    \* requests PATCH /delivery/:deliveryId/status
    OrderInputs,    \* the statuses PATCH /order/:orderId/status is sent
    StatusInputs,   \* the statuses PATCH /delivery/:deliveryId/status is sent
    PoolSize        \* connections of the pg pool

OrderStatus == {"PENDING", "CONFIRMED", "PREPARING", "PICKED_UP",
                "DELIVERING", "COMPLETED", "CANCELLED"}

DeliveryStatus == {"WAITING", "ACCEPTED", "PICKED_UP", "DELIVERING",
                   "DELIVERED", "CANCELLED"}

OrderRow == [status: OrderStatus, driver: Drivers \cup {NoDriver}]

\* deliveredAt says whether the timestamp of that name is set.
DeliveryRow == [order: Orders, status: DeliveryStatus,
                driver: Drivers \cup {NoDriver}, deliveredAt: BOOLEAN]

ProfileRow == [isVerified: BOOLEAN, isOnline: BOOLEAN, isBusy: BOOLEAN]

Calls == CreateCalls \cup AcceptCalls \cup StatusCalls

ASSUME ConstantsAssumption ==
    /\ OrderInputs \subseteq OrderStatus
    /\ StatusInputs \subseteq DeliveryStatus
    /\ Admin \notin Drivers
    /\ NoDriver \notin Drivers \cup {Admin}
    /\ NoRow \notin DeliveryRow \cup ProfileRow
    /\ CreateCalls \cap AcceptCalls = {}
    /\ CreateCalls \cap StatusCalls = {}
    /\ AcceptCalls \cap StatusCalls = {}
    /\ PoolSize \in Nat \ {0}

ASSUME CreatedAssumption ==
    /\ DOMAIN Created \subseteq Deliveries
    /\ \A d, e \in DOMAIN Created : Created[d] \in Orders /\ (Created[d] = Created[e] => d = e)

VARIABLES
    order,      \* the table "order"
    delivery,   \* the table "deliveries"
    profile,    \* the table "driver_profiles"
    create,     \* the handlers of the calls in CreateCalls
    accept,     \* the handlers of the calls in AcceptCalls
    update,     \* the handlers of the calls in StatusCalls
    reply       \* what the client of each call has been answered

tables == <<order, delivery, profile>>
vars == <<order, delivery, profile, create, accept, update, reply>>

-----------------------------------------------------------------------------
(* The handlers' local state: pc names the last thing that happened.       *)

CreateCall == [pc: {"idle", "called", "preparing", "absent", "done"},
               order: Orders]

\* A transaction is open in the pcs of InTx.
InTx == {"found", "checked", "claimed", "engaged", "assigned"}

AcceptCall == [pc: InTx \cup {"idle", "called", "committed", "done"},
               delivery: Deliveries, driver: Drivers]

\* seen is the driverId of the row that updateStatus has read.
UpdateCall == [pc: {"idle", "called", "authorized", "written", "ordered", "done"},
               delivery: Deliveries, status: StatusInputs,
               caller: Drivers \cup {Admin}, seen: Drivers \cup {NoDriver}]

Replies == {"none", "ok", "error", "timeout", "lost"}

TypeOK ==
    /\ order \in [Orders -> OrderRow]
    /\ delivery \in [Deliveries -> DeliveryRow \cup {NoRow}]
    /\ profile \in [Drivers -> ProfileRow \cup {NoRow}]
    /\ create \in [CreateCalls -> CreateCall]
    /\ accept \in [AcceptCalls -> AcceptCall]
    /\ update \in [StatusCalls -> UpdateCall]
    /\ reply \in [Calls -> Replies]

Registered == [isVerified |-> FALSE, isOnline |-> FALSE, isBusy |-> FALSE]
Seeded     == [isVerified |-> TRUE,  isOnline |-> TRUE,  isBusy |-> FALSE]

NewDelivery(o) == [order |-> o, status |-> "WAITING", driver |-> NoDriver,
                   deliveredAt |-> FALSE]

\* Orders are as createOrder leaves them, or were set back to PENDING since, and
\* profiles as registration or the seed leaves them.  What a request will carry
\* is fixed here; whether and when it arrives is not.
Init ==
    /\ order = [o \in Orders |-> [status |-> "PENDING", driver |-> NoDriver]]
    /\ delivery = [d \in Deliveries |->
                      IF d \in DOMAIN Created THEN NewDelivery(Created[d]) ELSE NoRow]
    /\ profile \in [Drivers -> {NoRow, Registered, Seeded}]
    /\ create \in [CreateCalls -> [pc: {"idle"}, order: Orders]]
    /\ accept \in [AcceptCalls -> [pc: {"idle"}, delivery: Deliveries, driver: Drivers]]
    /\ update \in [StatusCalls -> [pc: {"idle"}, delivery: Deliveries,
                                   status: StatusInputs, caller: Drivers \cup {Admin},
                                   seen: {NoDriver}]]
    /\ reply = [c \in Calls |-> "none"]

-----------------------------------------------------------------------------
(* The database: connections and row locks.                                *)

\* An open transaction keeps the connection it took.  A statement outside of
\* one takes a connection for as long as it runs.
FreeConnection == Cardinality({c \in AcceptCalls : accept[c].pc \in InTx}) < PoolSize

DeliveryLocked(d) ==
    \E c \in AcceptCalls : /\ accept[c].pc \in {"claimed", "engaged", "assigned"}
                           /\ accept[c].delivery = d

ProfileLocked(d) ==
    \E c \in AcceptCalls : /\ accept[c].pc \in {"engaged", "assigned"}
                           /\ accept[c].driver = d

OrderLocked(o) ==
    \E c \in AcceptCalls : /\ accept[c].pc = "assigned"
                           /\ delivery[accept[c].delivery].order = o

\* The first answer is the one the client gets.
Answer(c, r) == reply' = [reply EXCEPT ![c] = IF @ = "none" THEN r ELSE @]

-----------------------------------------------------------------------------
(* POST /delivery/order/:orderId, DeliveryService.createDelivery           *)

CallCreate(c) ==
    /\ create[c].pc = "idle"
    /\ create' = [create EXCEPT ![c].pc = "called"]
    /\ UNCHANGED <<tables, accept, update, reply>>

ReadOrder(c) ==
    /\ create[c].pc = "called"
    /\ FreeConnection
    /\ IF order[create[c].order].status = "PREPARING"
         THEN /\ create' = [create EXCEPT ![c].pc = "preparing"]
              /\ UNCHANGED reply
         ELSE /\ create' = [create EXCEPT ![c].pc = "done"]
              /\ Answer(c, "error")
    /\ UNCHANGED <<tables, accept, update>>

HasDelivery(o) == \E d \in Deliveries : delivery[d] # NoRow /\ delivery[d].order = o

FindExisting(c) ==
    /\ create[c].pc = "preparing"
    /\ FreeConnection
    /\ IF HasDelivery(create[c].order)
         THEN /\ create' = [create EXCEPT ![c].pc = "done"]
              /\ Answer(c, "ok")
         ELSE /\ create' = [create EXCEPT ![c].pc = "absent"]
              /\ UNCHANGED reply
    /\ UNCHANGED <<tables, accept, update>>

\* Fault: no unique index on deliveries.order_id.
InsertUnindexed(c) ==
    /\ create[c].pc = "absent"
    /\ \E d \in Deliveries :
          /\ delivery[d] = NoRow
          /\ delivery' = [delivery EXCEPT ![d] = NewDelivery(create[c].order)]
    /\ create' = [create EXCEPT ![c].pc = "done"]
    /\ Answer(c, "ok")
    /\ UNCHANGED <<order, profile, accept, update>>

\* The unique index on order_id refuses a second row for the order.
InsertDelivery(c) ==
    /\ create[c].pc = "absent"
    /\ FreeConnection
    /\ ~HasDelivery(create[c].order)
    /\ \E d \in Deliveries :
          /\ delivery[d] = NoRow
          /\ delivery' = [delivery EXCEPT ![d] = NewDelivery(create[c].order)]
    /\ create' = [create EXCEPT ![c].pc = "done"]
    /\ Answer(c, "ok")
    /\ UNCHANGED <<order, profile, accept, update>>

InsertRefused(c) ==
    /\ create[c].pc = "absent"
    /\ FreeConnection
    /\ HasDelivery(create[c].order)
    /\ create' = [create EXCEPT ![c].pc = "done"]
    /\ Answer(c, "error")
    /\ UNCHANGED <<tables, accept, update>>

CreateStep(c) == ReadOrder(c) \/ FindExisting(c) \/ InsertDelivery(c) \/ InsertRefused(c)

-----------------------------------------------------------------------------
(* POST /delivery/:deliveryId/accept, DeliveryService.acceptDelivery       *)

AcceptTo(c, pc) ==
    /\ accept' = [accept EXCEPT ![c].pc = pc]
    /\ UNCHANGED <<tables, create, update, reply>>

\* A throw in the callback rolls the transaction back: nothing was visible.
Throw(c) ==
    /\ accept' = [accept EXCEPT ![c].pc = "done"]
    /\ Answer(c, "error")
    /\ UNCHANGED <<tables, create, update>>

CallAccept(c) == accept[c].pc = "idle" /\ AcceptTo(c, "called")

\* $transaction takes a connection; the callback's first statement reads the row.
BeginAccept(c) ==
    LET row == delivery[accept[c].delivery] IN
    /\ accept[c].pc = "called"
    /\ FreeConnection
    /\ IF row # NoRow /\ row.status = "WAITING"
         THEN AcceptTo(c, "found")
         ELSE Throw(c)

Eligible(row) == row # NoRow /\ row.isVerified /\ row.isOnline /\ ~row.isBusy

ReadProfile(c) ==
    /\ accept[c].pc = "found"
    /\ IF Eligible(profile[accept[c].driver])
         THEN AcceptTo(c, "checked")
         ELSE Throw(c)

\* Fault: updateMany without driverId: null in its where.
ClaimableByStatus(d) == delivery[d].status = "WAITING"

\* The row the updateMany selects: it is evaluated again once a lock it had to
\* wait for is released.
Claimable(d) == delivery[d].status = "WAITING" /\ delivery[d].driver = NoDriver

\* Fault: update by id in place of updateMany with the two conditions.
ClaimUnchecked(c) ==
    /\ accept[c].pc = "checked"
    /\ ~DeliveryLocked(accept[c].delivery)
    /\ AcceptTo(c, "claimed")

\* Fault: this.prisma in place of tx, so that the claim commits at once.
ClaimOutside(c) ==
    LET a == accept[c] IN
    /\ a.pc = "checked"
    /\ Claimable(a.delivery)
    /\ ~DeliveryLocked(a.delivery)
    /\ delivery' = [delivery EXCEPT ![a.delivery].driver = a.driver,
                                    ![a.delivery].status = "ACCEPTED"]
    /\ accept' = [accept EXCEPT ![c].pc = "claimed"]
    /\ UNCHANGED <<order, profile, create, update, reply>>

ClaimDelivery(c) ==
    /\ accept[c].pc = "checked"
    /\ Claimable(accept[c].delivery)
    /\ ~DeliveryLocked(accept[c].delivery)
    /\ AcceptTo(c, "claimed")

ClaimRefused(c) ==
    /\ accept[c].pc = "checked"
    /\ ~Claimable(accept[c].delivery)
    /\ Throw(c)

\* Fault: this.prisma in place of tx, so that the driver is busy at once.
EngageOutside(c) ==
    /\ accept[c].pc = "claimed"
    /\ ~ProfileLocked(accept[c].driver)
    /\ profile' = [profile EXCEPT ![accept[c].driver].isBusy = TRUE]
    /\ accept' = [accept EXCEPT ![c].pc = "engaged"]
    /\ UNCHANGED <<order, delivery, create, update, reply>>

EngageDriver(c) ==
    /\ accept[c].pc = "claimed"
    /\ ~ProfileLocked(accept[c].driver)
    /\ AcceptTo(c, "engaged")

\* Fault: this.prisma in place of tx, a second connection while one is held.
AssignOutside(c) ==
    /\ accept[c].pc = "engaged"
    /\ FreeConnection
    /\ ~OrderLocked(delivery[accept[c].delivery].order)
    /\ AcceptTo(c, "assigned")

AssignOrder(c) ==
    /\ accept[c].pc = "engaged"
    /\ ~OrderLocked(delivery[accept[c].delivery].order)
    /\ AcceptTo(c, "assigned")

\* Fault: the driver is not marked busy.
CommitIdle(c) ==
    LET a == accept[c] IN
    /\ a.pc = "assigned"
    /\ delivery' = [delivery EXCEPT ![a.delivery].driver = a.driver,
                                    ![a.delivery].status = "ACCEPTED"]
    /\ order' = [order EXCEPT ![delivery[a.delivery].order] =
                    [status |-> "PICKED_UP", driver |-> a.driver]]
    /\ accept' = [accept EXCEPT ![c].pc = "committed"]
    /\ UNCHANGED <<profile, create, update, reply>>

CommitAccept(c) ==
    LET a == accept[c] IN
    /\ a.pc = "assigned"
    /\ delivery' = [delivery EXCEPT ![a.delivery].driver = a.driver,
                                    ![a.delivery].status = "ACCEPTED"]
    /\ profile' = [profile EXCEPT ![a.driver].isBusy = TRUE]
    /\ order' = [order EXCEPT ![delivery[a.delivery].order] =
                    [status |-> "PICKED_UP", driver |-> a.driver]]
    /\ accept' = [accept EXCEPT ![c].pc = "committed"]
    /\ UNCHANGED <<create, update, reply>>

AnswerAccept(c) ==
    /\ accept[c].pc = "committed"
    /\ accept' = [accept EXCEPT ![c].pc = "done"]
    /\ Answer(c, "ok")
    /\ UNCHANGED <<tables, create, update>>

AcceptStep(c) ==
    \/ BeginAccept(c) \/ ReadProfile(c) \/ ClaimDelivery(c) \/ ClaimRefused(c)
    \/ EngageDriver(c) \/ AssignOrder(c) \/ CommitAccept(c) \/ AnswerAccept(c)

-----------------------------------------------------------------------------
(* PATCH /delivery/:deliveryId/status, DeliveryService.updateStatus        *)

CallUpdate(c) ==
    /\ update[c].pc = "idle"
    /\ update' = [update EXCEPT ![c].pc = "called"]
    /\ UNCHANGED <<tables, create, accept, reply>>

Authorized(u) == /\ delivery[u.delivery] # NoRow
                 /\ u.caller \in {Admin, delivery[u.delivery].driver}

ReadDelivery(c) ==
    LET u == update[c] IN
    /\ u.pc = "called"
    /\ FreeConnection
    /\ IF Authorized(u)
         THEN /\ update' = [update EXCEPT ![c].pc = "authorized",
                                          ![c].seen = delivery[u.delivery].driver]
              /\ UNCHANGED reply
         ELSE /\ update' = [update EXCEPT ![c].pc = "done"]
              /\ Answer(c, "error")
    /\ UNCHANGED <<tables, create, accept>>

\* Fault: a delivery set back to WAITING loses its driver.
WriteReopening(c) ==
    LET u == update[c] IN
    /\ u.pc = "authorized"
    /\ FreeConnection
    /\ ~DeliveryLocked(u.delivery)
    /\ delivery' = [delivery EXCEPT
            ![u.delivery].status = u.status,
            ![u.delivery].driver = IF u.status = "WAITING" THEN NoDriver ELSE @]
    /\ update' = [update EXCEPT ![c].pc = "written"]
    /\ UNCHANGED <<order, profile, create, accept, reply>>

WriteDelivery(c) ==
    LET u == update[c] IN
    /\ u.pc = "authorized"
    /\ FreeConnection
    /\ ~DeliveryLocked(u.delivery)
    /\ delivery' = [delivery EXCEPT
            ![u.delivery].status = u.status,
            ![u.delivery].deliveredAt = @ \/ u.status = "DELIVERED"]
    /\ update' = [update EXCEPT ![c].pc = "written"]
    /\ UNCHANGED <<order, profile, create, accept, reply>>

\* Fault: the order is given the delivery's status.
Unmapped == [s \in {"PICKED_UP", "DELIVERING", "DELIVERED"} |-> s]

Mapped == [s \in {"PICKED_UP", "DELIVERING", "DELIVERED"} |->
              IF s = "DELIVERED" THEN "COMPLETED" ELSE s]

WriteOrder(c) ==
    LET u == update[c]
        o == delivery[u.delivery].order IN
    /\ u.pc = "written"
    /\ IF u.status \in DOMAIN Mapped
         THEN /\ FreeConnection
              /\ ~OrderLocked(o)
              /\ order' = [order EXCEPT ![o].status = Mapped[u.status]]
         ELSE UNCHANGED order
    /\ update' = [update EXCEPT ![c].pc = "ordered"]
    /\ UNCHANGED <<delivery, profile, create, accept, reply>>

\* The driver set free is the one read at the start of the handler.
ReleaseDriver(c) ==
    LET u == update[c] IN
    /\ u.pc = "ordered"
    /\ IF u.status = "DELIVERED" /\ u.seen # NoDriver
         THEN /\ FreeConnection
              /\ ~ProfileLocked(u.seen)
              /\ profile' = [profile EXCEPT ![u.seen].isBusy = FALSE]
         ELSE UNCHANGED profile
    /\ update' = [update EXCEPT ![c].pc = "done"]
    /\ Answer(c, "ok")
    /\ UNCHANGED <<order, delivery, create, accept>>

UpdateStep(c) == ReadDelivery(c) \/ WriteDelivery(c) \/ WriteOrder(c) \/ ReleaseDriver(c)

-----------------------------------------------------------------------------
(* Handlers of one write: the row each of them reads first is never        *)
(* deleted, so nothing can come between its read and its write.            *)

\* PATCH /order/:orderId/status, OrderService.updateStatus: any status, at any time
SetOrderStatus(o, s) ==
    /\ FreeConnection
    /\ ~OrderLocked(o)
    /\ order' = [order EXCEPT ![o].status = s]
    /\ UNCHANGED <<delivery, profile, create, accept, update, reply>>

\* POST /driver/me: the update branch of the upsert touches none of these fields
CreateProfile(d) ==
    /\ FreeConnection
    /\ profile[d] = NoRow
    /\ profile' = [profile EXCEPT ![d] = Registered]
    /\ UNCHANGED <<order, delivery, create, accept, update, reply>>

WriteProfile(d, row) ==
    /\ FreeConnection
    /\ profile[d] # NoRow
    /\ ~ProfileLocked(d)
    /\ profile' = [profile EXCEPT ![d] = row]
    /\ UNCHANGED <<order, delivery, create, accept, update, reply>>

\* PATCH /driver/me/online and /driver/me/offline
SetAvailability(d, value) == WriteProfile(d, [profile[d] EXCEPT !.isOnline = value])

\* PATCH /driver/:driverId/verification
SetVerification(d, value) == WriteProfile(d, [profile[d] EXCEPT !.isVerified = value])

-----------------------------------------------------------------------------
(* What may go wrong around a handler.                                     *)

InFlight(c) == \/ c \in CreateCalls /\ create[c].pc \notin {"idle", "done"}
               \/ c \in AcceptCalls /\ accept[c].pc \notin {"idle", "done"}
               \/ c \in StatusCalls /\ update[c].pc \notin {"idle", "done"}

\* LoggingInterceptor answers 408 after five seconds; the handler goes on.
TimeOut(c) ==
    /\ InFlight(c)
    /\ reply[c] = "none"
    /\ reply' = [reply EXCEPT ![c] = "timeout"]
    /\ UNCHANGED <<tables, create, accept, update>>

\* A statement is rejected, or the transaction exceeds Prisma's time limit: the
\* handler throws, and of an uncommitted transaction nothing remains.
FailCreate(c) ==
    /\ create[c].pc \in {"called", "preparing", "absent"}
    /\ create' = [create EXCEPT ![c].pc = "done"]
    /\ Answer(c, "error")
    /\ UNCHANGED <<tables, accept, update>>

FailAccept(c) == accept[c].pc \in InTx \cup {"called", "committed"} /\ Throw(c)

FailUpdate(c) ==
    /\ update[c].pc \in {"called", "authorized", "written", "ordered"}
    /\ update' = [update EXCEPT ![c].pc = "done"]
    /\ Answer(c, "error")
    /\ UNCHANGED <<tables, create, accept>>

\* The process stops and starts again: every handler is gone, the committed
\* rows remain, and a client that was not answered never is.
Stopped(calls) ==
    [c \in DOMAIN calls |-> IF InFlight(c) THEN [calls[c] EXCEPT !.pc = "done"]
                                           ELSE calls[c]]

Crash ==
    /\ \E c \in Calls : InFlight(c)
    /\ create' = Stopped(create)
    /\ accept' = Stopped(accept)
    /\ update' = Stopped(update)
    /\ reply' = [c \in Calls |-> IF InFlight(c) /\ reply[c] = "none"
                                   THEN "lost" ELSE reply[c]]
    /\ UNCHANGED tables

Next ==
    \/ \E c \in CreateCalls : CallCreate(c) \/ CreateStep(c) \/ FailCreate(c)
    \/ \E c \in AcceptCalls : CallAccept(c) \/ AcceptStep(c) \/ FailAccept(c)
    \/ \E c \in StatusCalls : CallUpdate(c) \/ UpdateStep(c) \/ FailUpdate(c)
    \/ \E o \in Orders, s \in OrderInputs : SetOrderStatus(o, s)
    \/ \E d \in Drivers : CreateProfile(d)
    \/ \E d \in Drivers, value \in BOOLEAN :
          SetAvailability(d, value) \/ SetVerification(d, value)
    \/ \E c \in Calls : TimeOut(c)
    \/ Crash

Spec == Init /\ [][Next]_vars

\* A handler that has been called goes on while its next statement can run.
\* Nothing makes requests arrive, clocks run out or statements fail.
Fairness ==
    /\ \A c \in CreateCalls : WF_vars(CreateStep(c))
    /\ \A c \in AcceptCalls : WF_vars(AcceptStep(c))
    /\ \A c \in StatusCalls : WF_vars(UpdateStep(c))

FairSpec == Spec /\ Fairness

-----------------------------------------------------------------------------
(* What is claimed of the system.                                          *)

\* createDelivery looks for a delivery and inserts one two statements later, so
\* two calls may both find none: still no order ever has two deliveries.
OneDeliveryPerOrder ==
    \A d, e \in Deliveries :
        (/\ delivery[d] # NoRow
         /\ delivery[e] # NoRow
         /\ delivery[d].order = delivery[e].order) => d = e

\* The driver of an order is the driver of its delivery, in every committed
\* state: no handler, failure or crash shows a client one without the other.
DriverOf(o) ==
    IF HasDelivery(o)
      THEN delivery[CHOOSE d \in Deliveries : delivery[d] # NoRow /\ delivery[d].order = o].driver
      ELSE NoDriver

DriverAgreement == \A o \in Orders : order[o].driver = DriverOf(o)

\* A driver told that the delivery is his has it, and nobody else was ever told
\* so, however the status of the delivery is set back in between.
ToldOk(c) == c \in AcceptCalls /\ reply[c] = "ok"

OneWinner ==
    \A c \in AcceptCalls : ToldOk(c) =>
        /\ delivery[accept[c].delivery] # NoRow
        /\ delivery[accept[c].delivery].driver = accept[c].driver
        /\ \A e \in AcceptCalls :
              ToldOk(e) /\ accept[e].delivery = accept[c].delivery => e = c

\* isBusy follows the deliveries: a busy driver has been given one, and a driver
\* who has been given one is busy until one of his has been delivered.
Serves(p, d) == delivery[d] # NoRow /\ delivery[d].driver = p

BusyTracksDeliveries ==
    \A p \in Drivers :
        IF profile[p] # NoRow /\ profile[p].isBusy
          THEN \E d \in Deliveries : Serves(p, d)
          ELSE (\E d \in Deliveries : Serves(p, d))
                  => \E d \in Deliveries : Serves(p, d) /\ delivery[d].deliveredAt

\* updateStatus checks the caller against a row it reads before it writes: what
\* it checked is still so at each of its writes, and the driver it sets free is
\* either nobody or the driver of the delivery.
CheckStillHolds ==
    \A c \in StatusCalls : update[c].pc \in {"authorized", "written", "ordered"} =>
        LET u == update[c] IN
        /\ Authorized(u)
        /\ u.seen \in {NoDriver, delivery[u.delivery].driver}

\* A row is written by one uncommitted transaction at a time, and stays as that
\* transaction found it: a claimed delivery waits, without a driver.
LocksHold ==
    \A c \in AcceptCalls : accept[c].pc \in {"claimed", "engaged", "assigned"} =>
        /\ delivery[accept[c].delivery] # NoRow
        /\ Claimable(accept[c].delivery)
        /\ \A e \in AcceptCalls :
              /\ accept[e].pc \in {"claimed", "engaged", "assigned"}
              /\ accept[e].delivery = accept[c].delivery
              => e = c

\* Once a delivery has a driver it keeps that driver, and its row keeps its order.
AssignmentStable ==
    [][\A d \in Deliveries : delivery[d] # NoRow =>
          /\ delivery'[d] # NoRow
          /\ delivery'[d].order = delivery[d].order
          /\ delivery[d].driver # NoDriver => delivery'[d].driver = delivery[d].driver
      ]_vars

\* Every request that reaches a handler is answered, without the help of a time
\* limit: transactions and single statements that wait for rows and connections,
\* which others hold, never wait for each other.
Arrived(c) == \/ c \in CreateCalls /\ create[c].pc # "idle"
              \/ c \in AcceptCalls /\ accept[c].pc # "idle"
              \/ c \in StatusCalls /\ update[c].pc # "idle"

RequestsEnd == \A c \in Calls : Arrived(c) ~> ~InFlight(c)

-----------------------------------------------------------------------------
(* What the handlers' error answers say, and the interleavings refute.     *)

\* 'Driver is already busy' (delivery.service.ts:134-138): a driver is not given
\* a delivery while another of his is under way.
OneDeliveryAtATime ==
    \A p \in Drivers : \A d, e \in Deliveries :
        (/\ Serves(p, d) /\ delivery[d].status = "ACCEPTED"
         /\ Serves(p, e) /\ delivery[e].status = "ACCEPTED") => d = e

\* 'Order is not ready for delivery' (delivery.service.ts:52-59): a delivery is
\* created for an order that is being prepared.
DeliveryOnlyIfPreparing ==
    [][\A d \in Deliveries : delivery[d] = NoRow /\ delivery'[d] # NoRow
          => order[delivery'[d].order].status = "PREPARING"]_vars

=============================================================================
