# DeliverySystems: specifications, model checking and proofs

The service is a NestJS application for food delivery: customers order from
restaurants, drivers accept deliveries. State is kept in PostgreSQL (through
Prisma), in a Redis cache and in socket rooms. Every HTTP request is an
asynchronous handler that awaits one database statement after another, so any
two handlers interleave between statements. That is where the system is hard to
test, and what these modules are about.

Paths below are relative to the repository; `src/src/` is the application.

## 1. The system

### Components

| component | state | operations | modelled in |
|---|---|---|---|
| deliveries (`delivery/`) | `deliveries`, and parts of `"order"` and `driver_profiles` | createDelivery, acceptDelivery, updateStatus | `Dispatch` |
| driver profiles (`driver/`) | `driver_profiles` | createProfile, setAvailability, setVerification | `Dispatch` |
| order status (`order/`) | `"order".order_status` | updateStatus | `Dispatch` |
| order placement (`order/`) | `"order"`, `order_items`, `payments` | createOrder | `OrderPlacement` |
| restaurants (`restaurants/`) | `restaurants`, a cached list for each owner | create, open/closed/busy, update, delete, image | `RestaurantCatalog`, and `OrderPlacement` |
| menu items (`menu-items/`) | `menu_items`, a cached menu for each restaurant | create, update, delete, image, list | `MenuCache` and `OrderPlacement` |
| address book (`address/`) | `addresses` with one default for each user | create, setDefault, update, delete | `AddressBook` and `OrderPlacement` |
| sessions (`auth/`) | `refreshToken`, `password_reset_tokens`, passwords | login, refresh, logout, change, forgot, reset | `Accounts` |
| registration (`auth/`) | `users`, `driver_profiles` | createUser, createDriver, createShop | `Accounts` |
| driver locations (`driver-location/`, `websocket/`) | cache key, `driver_locations`, `last_active_at` | updateLocation, getLocation | `DriverSearch` |
| chat, events (`chat/`, `gateway/`) | socket rooms, `messages` | join, leave, send, list | not modelled (section 10) |
| driver search (`delivery/`, `google-routes/`) | none | findDriversForDelivery, rankDriversByEta | `DriverSearch` |
| user profiles, images (`user/`, `cloudinary/`) | `users`, files at Cloudinary | update, deactivate, upload | the image store in `RestaurantCatalog` |
| categories | `category` | create, list | not modelled (section 10) |
| mail, guards, logging, configuration | none of their own | | environment of the above |

### How they interact

* Through rows. `createOrder` reads what the restaurant, menu and address
  services write; `createDelivery` reads the status `PATCH /order/:id/status`
  writes; `acceptDelivery` and `updateStatus` write delivery, order and profile.
* Through row locks, foreign keys, unique indexes and connections of PostgreSQL.
  Two handlers use interactive transactions (`createOrder`, `acceptDelivery`);
  three use batch transactions (`setDefaultAddress`, `refreshToken`,
  password changes); everything else is one statement at a time.
* `LoggingInterceptor` answers 408 after five seconds and lets the handler go on.

### What is hard

Checks in one statement and writes in a later one; several rows written in turn;
handlers that outlive the answer given to the client; transactions that hold
locks and a connection while they wait; caches filled by a reader that is late.
`PROJECT.json` lists each such place under "hazards", with the properties that
cover it.

## 2. Plan

The order is that of importance for the service, and is the order of the sections
below.

1. `Assignment`, `Dispatch`, `DispatchRefinement`: checked and proved.
2. `Sales`, `OrderPlacement`, `PlacementRefinement`: checked and proved.
3. `AddressBook`: checked and proved.
4. `MenuCache`, `StaleMenu`: checked and proved.
5. `DriverSearch`: checked and proved.
6. `Logins`, `Accounts`, `AccountsRefinement`: checked and proved.
7. `RestaurantCatalog`: checked and proved.

Every invariant and action property of the passing runs is proved, and so are the four
refinements, of `Assignment`, `Sales`, `StaleMenu` and `Logins`.
Only the liveness properties `RequestsEnd` and `PlacementEnds` rest on TLC alone.

## 3. Dispatch

### Model

`Dispatch.tla` models `delivery.service.ts`, the writers of `driver.service.ts`
and `OrderService.updateStatus`.

| model | code |
|---|---|
| `order`, `delivery`, `profile` | the columns of the three tables that these handlers read or write; `NoRow` is a row that does not exist |
| `create`, `accept`, `update` | the running handlers: where they are (`pc`), what the request carries, and in `seen` the driver of the row `updateStatus` has read |
| `reply` | what the client was told first: the result, an error, the 408 of the time limit, or nothing because the process stopped |
| `ReadOrder`, `FindExisting`, `InsertDelivery`, `InsertRefused` | the three statements of `createDelivery`; the last one is refused by the unique index on `order_id` |
| `BeginAccept` ... `CommitAccept`, `AnswerAccept` | `acceptDelivery`: two reads, `updateMany` on the delivery, the profile, the order, the commit |
| `ReadDelivery`, `WriteDelivery`, `WriteOrder`, `ReleaseDriver` | the statements of `updateStatus`, which has no transaction |
| `SetOrderStatus`, `CreateProfile`, `SetAvailability`, `SetVerification` | handlers of a single write |
| `TimeOut`, `FailCreate`, `FailAccept`, `FailUpdate`, `Crash` | the time limit, a rejected statement or transaction at any point, a restart |

A transaction is READ COMMITTED. What it writes becomes visible in
`CommitAccept`; from each write until then the row is locked (`DeliveryLocked`,
`ProfileLocked`, `OrderLocked`) and every other writer of it waits. A transaction
keeps one connection of the pool from its first statement to its end; any other
statement needs a free one when it runs. A single statement that waits for a row
is modelled as not yet started, so it holds no connection while it waits. That
cannot hide a deadlock: what it waits for is held by a transaction that already
has its connection and needs no other.

What a request carries is chosen in the initial state, whether and when it
arrives is not. Deliveries, orders and profiles are never deleted by any handler.
`Created` says which deliveries are there at the start; it is empty in all runs but one.

### Abstract specification

`Assignment.tla` says what dispatch promises: an order is given to one rider, for
good; giving the order and engaging the rider is one step; a rider is told only
after that; an engaged rider can be set free. `DispatchRefinement.tla` maps the
tables to its variables, and `ImplementsAssignment` is its specification under
that mapping. `CommitAccept` is the abstract `Assign`, `AnswerAccept` is `Tell`,
`ReleaseDriver` is `Release`; every other step is invisible.

### Runs

| run | what it asks | instance |
|---|---|---|
| `dispatch_accept` | `OneWinner`, `CheckStillHolds`, `DriverAgreement`, `LocksHold`, `AssignmentStable` | two drivers accept the same delivery while its status is set back |
| `dispatch_tables` | `TypeOK`, `OneDeliveryPerOrder`, `BusyTracksDeliveries`, `ImplementsAssignment` | two orders, two creations, an acceptance and an update to DELIVERED, one connection |
| `dispatch_live` | `RequestsEnd` | two orders with their deliveries, one driver, two acceptances and an update to DELIVERED, two connections |
| `dispatch_two_at_once` | `OneDeliveryAtATime` is refuted | one driver, two acceptances |
| `dispatch_not_preparing` | `DeliveryOnlyIfPreparing` is refuted | one creation and a change of the order's status |

Two handlers of a kind suffice for each of these properties: every one of them
is violated, if at all, by two handlers that compete for one row, and each
mutant of `PROJECT.json` shows that the run would find it. The theorems below
remove the bounds for all safety properties.

`dispatch_live` is about waiting. Its deliveries are there from the start (`Created`), so
two acceptances of the driver may both have claimed one: then the second waits for the row
of his profile with a connection and a locked delivery of its own, while the update waits
for a connection, or for one of the three rows if one is left. With fewer connections than
two nobody would ever wait for a row, and with one delivery no transaction for another that
holds locks; a third transaction adds nothing new to wait for, since all lock in the order
delivery, profile, order. `createDelivery` has no part in this run: it waits for connections
only and holds none between its statements.

The two refuted properties are what error messages of the code say. A driver may
be given two deliveries at once, since `isBusy` is read without a lock (line 134
of `delivery.service.ts`) and set without a condition (line 159). An order that
is cancelled between the check and the insert of `createDelivery` gets a
delivery all the same.

### Fairness

`FairSpec` assumes weak fairness of each handler's own steps: Node.js resumes a
handler whose statement was answered, and PostgreSQL grants a free row. It
assumes nothing of the arrival of requests, of `TimeOut`, of the failures or of
`Crash`. So `RequestsEnd` holds because no handler waits for ever, not because
something ends it from outside.

### Proofs

`DispatchProofs.tla` proves, for every value of the constants that satisfies
`ConstantsAssumption` and `CreatedAssumption` (the sets of calls are disjoint, the
special values are distinct from the others, the pool is not empty, an order has at most
one delivery at the start), all safety and action
properties of the passing runs, and that `Spec` implements `Assignment`.

The inductive invariant `IInv` is the conjunction of the properties and of what
they need: `RowsExist` (a handler past its first read has the rows it works on),
`RowsAgree` (the driver of an order is that of its delivery, stated without the
choice of a row that `DriverAgreement` uses), `LocksHold` and `WinnersDiffer`
(two transactions never hold one delivery, and two winners never share one), and
`DeliveryNoted` (a delivery marked DELIVERED by a running handler has its time
stamp, so that its driver may be set free). `LocksHold` is the heart: `Claimable`
is tested when the row lock is taken, and from then on no writer can make it
false, so that the commit overwrites nothing. There is a lemma for each handler's
steps, and under it a step for each conjunct that the action can disturb.

Only model-checked: `RequestsEnd`, since liveness under fairness is outside of
the prover.

## 4. OrderPlacement

### Model

`OrderPlacement.tla` models `createOrder` statement by statement, and the
handlers that change or delete what it reads.

| model | code |
|---|---|
| `restaurant`, `menu`, `address` | the status of restaurants; price and availability of items; which addresses exist |
| `order`, `payment` | orders with their lines, and the amount of the payment of each |
| `call` | the running handlers, with the lines and the total that they have computed |
| `ReadRestaurant`, `ReadAddress`, `ReadMenu` | the three reads and the checks after each, and the pricing |
| `InsertOrder`, `InsertItems`, `InsertPayment`, `Commit` | the interactive transaction |
| `SetRestaurantStatus`, `UpdateMenuItem` | PATCH of a restaurant's status, of an item's price or availability |
| `DeleteRestaurant`, `DeleteMenuItem`, `DeleteAddress` | deletions, which foreign keys refuse and which wait for an open transaction that references the row |

The restaurant of an item and the owner of an address are constants, since no
handler changes them. Prices are whole numbers of the smallest unit: JavaScript's
sums of numbers of two decimals are exact to the cent far beyond the range of
the columns, so rounding is left out. `MaxAmount` stands for the largest value of
a `Decimal(10, 2)` column; a larger one is refused by the insert. Rows are not
created in this module, except orders and payments: new keys are unknown to the
calls that are running. So the model may come to an end, and deadlock is not
checked.

### Abstract specification

`Sales.tla` says what `POST /order` promises: a customer whose restaurant is open at
one moment is made an offer from the menu of one later moment; at a third moment the
order and its payment are there at once, if all that they name still is; from then on
nothing of it changes or goes away. Three moments is what the code has: the restaurant
is read first and the items later, in one query, and neither status nor price is read
again. So an order may be at a restaurant that closes meanwhile, at a price that has
changed. `PlacementRefinement.tla` maps the tables and handlers to its variables, and
`ImplementsSales` is its specification under that mapping.

| `OrderPlacement` | `Sales` |
|---|---|
| `ReadRestaurant` that finds it open or busy | `Admit` |
| `ReadMenu` that finds every item | `Offer` |
| `Commit` | `Sell` |
| `AnswerCreate` that is the first answer | `Tell` |
| a step that fails before the pricing; `Crash` | `GiveUp` |
| `SetRestaurantStatus`, `DeleteRestaurant` | `ChangeStatus` |
| `UpdateMenuItem`, `DeleteMenuItem` | `ChangeItem` |
| `DeleteAddress` | `DeleteAddress` |
| the inserts, `TimeOut`, all other failures | nothing |

### Runs

| run | what it asks | instance |
|---|---|---|
| `placement_one_call` | `TypeOK`, `AmountsAgree`, `ReferencesExist`, `ImplementsSales` | one call; two restaurants, items, addresses and customers, each row present or not; two prices, one of them 0; carts that are empty, repeat an item or mix two restaurants |
| `placement_two_calls` | `OrdersAnswerCalls`, `PlacementEnds`, `ImplementsSales` | two calls of one customer, two connections; carts of two items |

One call is enough for the first run: calls share no row that either of them
changes, and only the other writers compete with them. `MaxAmount = 90` lies such
that a total of 75 fits its column while 105, with the delivery fee, does not, and
one of 100 fits neither. Two connections for two calls are enough for a deadlock:
both transactions may hold one and wait.

Fairness is as in Dispatch: weak fairness of the handlers' own steps.

### Proofs

`OrderPlacementProofs.tla` proves `TypeOK`, `AmountsAgree`, `ReferencesExist`,
`OrdersAnswerCalls` and `ImplementsSales` for every value of the constants that satisfies
`PlacementAssumption` and `NoRowAssumption`: any catalogue, any carts over it, any
number of calls, any pool.

The inductive invariant adds `HandlersReady`, what a handler knows at each `pc`.
The facts fall in three groups. Some cannot change: the owner of the address and
the lines, the total and the cart, which are the handler's own (`Quoted`). Some
are read before the transaction and may be false a moment later: the status of
the restaurant, the availability of the items. The invariant says nothing of
these. And some are checked again by the inserts and then kept by the locks of the transaction: that
restaurant, address and items exist (`Ready` for the pcs of `InTx`). `CatalogueStep`
is the lemma that every deleter goes through: it must leave what handlers in a
transaction and orders name, and `RestaurantHeld`, `ItemHeld`, `AddressHeld` with
the foreign keys are just what makes it so. `CommitStep` then turns what the
handler knows into what the properties say of the new order.

For the refinement one more invariant is needed: `Unpriced`, that a handler has no lines
before it has read the menu, so that a failure after that is invisible and one before it
gives up the admission. There is a lemma for each action that says which step of `Sales`
it is (their names end in `Seen`). `CommitSeen` carries the weight: `Ready` and the locks
give that everything the order names is there, and `Quoted` that what is charged is the
charge for the lines on offer. `WritersSeen` needs the foreign keys: a row that an order
names is not deleted.

`Total` is a fold, about which the prover knows nothing but its name. No proof
needs more: the total of the order is the same fold of the same lines. What
number it is, is checked by TLC (`placement_one_call`).

## 5. AddressBook

### Model

`AddressBook.tla` models the addresses of one user, the newest last, and which of
them have `is_default` set. Every statement of `address.service.ts` has the user or
one of the user's own addresses in its condition, so the books of two users are
independent.

| model | code |
|---|---|
| `book`, `default` | the user's rows of `addresses`, and those with `is_default` |
| `call` | the handlers: `found` is what the last query returned, `locked` the rows that an open transaction has cleared |
| `FindAddress` | `findUnique` and the checks after it, in setDefault and delete |
| `FindDefaults`, `ClearNow`, `ClearInTransaction` | `updateMany` of the defaults: its snapshot, and its writes |
| `CommitDefault` | the second update of the transaction, and its commit |
| `CountAddresses`, `InsertAddress` | the rest of `createAddress` |
| `DeleteRow`, `FindNext`, `MakeNextDefault` | the rest of `deleteAddress` |
| `Fail`, `Crash` | a rejected statement, a transaction chosen to end a deadlock, a restart |
| `overlapped` | history: the calls that ran while another one did |

In READ COMMITTED an `updateMany` finds its rows in a snapshot, and checks each one
again after it has waited for its lock. A row that became default in between is
not in the snapshot and stays as it is. That is why finding and clearing are two
steps. The rows themselves are taken to be cleared at one moment. `updateAddress`
writes text and coordinates, which no statement here reads, and is left out.

### Runs

| run | what it asks | instance |
|---|---|---|
| `address_book` | `TypeOK`, `DefaultsBounded`, `SetDefaultRepairs`, `DefaultKept` | three calls of any kind, two old addresses |

The user may start with no, one or two addresses, in either order. Two calls are
enough to disturb each other; with a third one the bound of `DefaultsBounded` is
seen to grow with the calls that overlapped, and a later `setDefaultAddress` meets
what two earlier ones have left. The calls end, so deadlock is not checked.

What the code does not promise shows in the conditions. Overlapping calls may
leave several defaults, or none; a creation that fails after it has cleared the
defaults leaves none; and so does a first address created with `isDefault: false`.

### Proofs

`AddressBookProofs.tla` proves `TypeOK` and `SetDefaultRepairs` for any sets of
addresses, calls and requests. `Alone` says that a call outside of `overlapped` is
the only one that runs; with it `Kept` follows, that the defaults which
`setDefaultAddress` has found and cleared are all there are. `Named` keeps new rows
apart from old ones, so that no address is listed twice.

The other two stand on layers of their own over that invariant. `Counting` bounds the
defaults by `Spent`, the calls that have overlapped and already written: that is stronger
than `DefaultsBounded`, and it must be, since a call that is about to add a default
will only then be counted. `Knows` says what such a call may rely on until it writes: while
it runs alone, or while nobody who overlapped has written, no default has appeared
since it looked, and a deleter has taken one away for the one it may add. `Keeping` says
that in a book nobody disturbs there is a default unless the one running handler is
`Restoring` it, and that such a handler still `Sees` what is there.

## 6. MenuCache

### Model

`MenuCache.tla` models the menu of one restaurant and its entry in the cache. A
menu is known by the number of committed changes before it: the cache treats all
of them alike.

| model | code |
|---|---|
| `changes`, `gone` | the times of the committed changes of `menu_items`; the restaurant's row is deleted |
| `cache` | the entry `menu-item:<restaurantId>`, with the time it expires |
| `GetCached`, `CheckRestaurant`, `FindItems`, `Fill`, `AnswerRead` | the statements of `getMenuItems` |
| `Write`, `DeleteCached` | the write of `createMenuItem` and its `del`; the write of any other handler, which leaves the cache alone |
| `Tick`, `Evict`, `CacheFails`, `FailRead`, `FailWrite` | the clock, and what Redis and PostgreSQL may do |
| `shown` | history: the newest menu that a `createMenuItem` has made room for while no reader held an older one |

The checks of the writers (owner, category, price) read what never changes, or
make the write itself fail, so they are part of `Write` and `FailWrite`.
`MaxFill` bounds the time from a reader's query to its answer. The code has no
such limit (the 408 of the interceptor does not stop a handler): it is an
assumption about the database, Redis and the event loop, and the theorem gives the
age of an answer in terms of it.

### Abstract specification

`StaleMenu.tla` has a clock, the changes and the answers, and no cache. An answer is
the newest menu or one that ended at most `Bound` ago. `ImplementsStaleMenu` is its
specification with `Bound` = `TTL + MaxFill`. A smaller bound would be wrong: a
reader may query just before a change, fill `MaxFill` later, and the entry lives
for `TTL` from then. In particular `createMenuItem`, which empties the cache, gives
no better bound than the handlers that do not: a slow reader may fill it again.
What emptying does give is `NewItemShown`: if no reader is in between, the item is
on every menu cached from then on.

### Runs

| run | what it asks | instance |
|---|---|---|
| `menu_cache` | `TypeOK`, `NewItemShown`, `ImplementsStaleMenu` | two readers, two writers of any kind, `TTL` 2, `MaxFill` 1, clock up to 4 |

One reader fills and the other is shown what it has filled; two changes let one
fall before and one after a read; a clock of 4 outlives the bound of 3. The clock
stops at `MaxTime` and the requests end, so deadlock is not checked.

### Proofs

`MenuCacheProofs.tla` proves all three for any readers, writers, `TTL` and `MaxFill`.
The inductive invariant says of a reader's menu that it had not ended when it was
read (`Fresh`), and of the entry that it expires at most `TTL + MaxFill` after its
menu ended (`CacheFresh`); the second follows from the first when the entry is
filled. `StepRefines` then maps every answer to `Show`, every write to `Change`, and
the rest to a stuttering step.

## 7. DriverSearch

### Model

`DriverSearch.tla` models `findDriversForDelivery` with `getAvailableDrivers` and
`rankDriversByEta`, while drivers report their locations.

| model | code |
|---|---|
| `location` | `driver_locations.updated_at`; the coordinates are known by it |
| `available` | whether a profile is verified, online and not busy; `Dispatch` models its writers |
| `report` | the handlers of `driver:location`: `at` is the time that Prisma gives the row when the upsert is issued; `overran`, a history variable, that the row it wrote over was of a later time |
| `FindDelivery` | the query of the delivery, and the time that fresh locations are measured from |
| `FindAvailable`, `ReadLocations` | the two statements of one `findMany` with `include` that matter: the filter on the users, and the location rows of those it found; `found`, a history field, is the time of the row that the filter saw |
| `RankDrivers` | the question to the routes service, its answer, the loop over it and the sort |
| `AnswerSearch`, `TimeOut`, `FailSearch` | what the client is told: the offers, 408 after five seconds, an error |

The routes service is external. It answers with at most one element for each origin,
in any order; elements may be missing, have no route, or an index that was not asked
for. A failure and the eight seconds of `AbortSignal` are `FailSearch`: the
client has been answered 408 before those are over. `updateLocation` also writes a
cache key, which only `getLocation` reads, and that has no caller: it is left out. Timers
are taken to fire when they are due, which is what `Tick` waits for; of the
database and the routes service nothing is assumed.

### Runs

| run | what it asks | instance |
|---|---|---|
| `driver_search` | `TypeOK`, `OffersFresh`, `OffersRanked` | one search, three drivers for two places, two reports of one driver or of two, matrices of up to two elements, durations on both sides of a minute |

Searches do not influence each other, so one is enough. Its configuration has a `VIEW`:
once the search has read the profiles and the locations, states that differ in what
happens to them later are taken for one, since neither a later step of the search nor
a property looks at them; what reports and profiles do by themselves is explored before
the search reads them. Without it the instance of two reports is too large.

`OffersFresh` is the reason for the clock: the freshness of a location is compared with
a time taken early in the handler, so it is the time limit of the interceptor, not
the handler, that bounds how long ago an offered driver was heard of. The location he is
ranked by is read by a later statement. It is of the report that the filter saw or of a
later one, but not always: the row keeps the report whose statement runs last, and when
two reports of a driver overlap that may be the earlier one. The run reaches such
a state, and the property names it (`Overrun`). `OffersRanked` states the result without
the filter, the join by index and the sort that produce it.

### Proofs

`DriverSearchProofs.tla` proves `TypeOK` and `OffersFresh` for any finite set of
drivers and any reports, searches, limits and times. The inductive invariant has three
parts besides `TypeOK`. `Recent` says that a candidate, and later an offer, was found by
a location no older than `Fresh` at a time after the search was called; it needs
`RankDrivers` to keep the candidate that an index names. `Kept` says that the row of a
driver found is still there, and no older than when it was found unless a report of his
overran another: before `ReadLocations` of the row, afterwards of the candidate and the
offer. `InTime` says that a
search still unanswered, and the answer of one that was told its drivers, are within
`TimeLimit` of its call, which `Tick` keeps by waiting for the timer. `OffersFresh` is the
sum of the three.

`OffersRanked` stands on a second layer, `Ranking`: a question names a driver once, and
between the sort and the answer the ranked offers and the usable elements correspond
(`Sorted`). Lemma `Permutation` says what the order of the rows and of the elements may
be; the sort is a choice among such orders, and `RoundedUp` is the arithmetic of
`Math.ceil`.

## 8. Accounts

### Model

`Accounts.tla` models the handlers of `auth.service.ts`: three registrations, login,
refresh, logout, and the two ways to a new password.

| model | code |
|---|---|
| `user` | `users` by e-mail: the call that registered it, the call that set its password, whether there is a driver profile |
| `session` | `"refreshToken"`: live, expired or revoked |
| `token` | `password_reset_tokens`: unused, expired or used |
| `call` | the handlers: `given` is the cookie or reset token of the request, `row` the row that the handler has found for it, `seen` the snapshot of the sessions in an open transaction |
| `Cookies`, `Mailed`, `Carried` | what clients have got: a request carries any cookie or reset token that its user was ever given, also one that was replaced, revoked or used |
| `FindUser`, `FindEmail`, `FindSession`, `FindToken` | the first query of each handler with the comparisons after it |
| `InsertUser`, `CompleteUser` | the insert, which the unique index on the e-mail decides, and what follows it: the driver's profile, the mail to a customer |
| `InsertSession`, `Refresh`, `Logout`, `InsertToken` | the last statement, or the transaction, of each |
| `LockUser`, `CommitPassword` | the transaction of `changePassword` and `resetPassword` |
| `ExpireSession`, `ExpireToken` | seven days, fifteen minutes; there is no clock, a row may expire at any time |
| `Fail` | a comparison that does not match, a token that cannot be verified, a rejected statement, a stopped process |
| `before`, `login` | history: the calls that had ended when one began; the first session of the login that a session goes back to |

`compare` of bcrypt reads 72 bytes, and two tokens of one user begin with more equal
ones than that. So `Compare` holds of any token and any row of one user, the handlers
take the first row that compares, and it need not be the one that the token was made out
with: `FindSession` and `FindToken` choose one. Three things follow, which the model does
and no property here denies:

* forgot, forgot, `reset(T1)`, `reset(T1)`: the second reset finds the other unused row
  (lines 313-331), so one token sets two passwords;
* a logout with the cookie of one login may delete the row of another login of the user
  (lines 265-274), and the first goes on;
* a cookie that was replaced, or logged out, refreshes by another live row of its user,
  its own successor for one (lines 213-219).

No document, comment, message or test of the repository says that a token is good for one
use or that a logout ends the login of its cookie, so none of this is listed as a
disagreement. What the code does keep is claimed instead: a row is used up, replaced and
deleted once, so resets are bounded by mails and logouts by logins.

Three transactions are batches, whose statements follow each other without a
question from outside. A refresh deletes a row and inserts another: it waits for a
lock at most in its first statement, and nobody sees it before the commit, so it
is one step. A new password updates the user first, and so waits for others that do
the same (`LockUser`); its second statement then takes a snapshot of the sessions,
waits for rows that a refresh or a logout holds, and skips those that are gone. A
session inserted after the snapshot is not touched. That is the one place where a
transaction needs two steps. The 408 of the interceptor ends no handler, and what
it told a client is not part of the properties here.

### Abstract specification

`Logins.tla` has no rows, queries or snapshots. A login is a chain of keys, one at a
time: it is carried on with a new key (`Rotate`), its key is no longer taken (`Expire`),
or it ends (`Close`), and has then no key to go on with. A key that was given out says
whose it is and not which login it is of: with any key of a user, held or not, a client
carries on or ends some login of that user (`HasKey`). A user registers once. A new
password is set in one step that ends keys of its user, by taking them away or by taking
them no more: all that were given out before the call was asked for, and perhaps others of
the same user since. `AccountsRefinement.tla` maps the tables to its variables: a held key
is a row, and its login the first session that the row goes back to. `ImplementsLogins` is
the specification of `Logins` under that mapping.

| `Accounts` | `Logins` |
|---|---|
| `Call` | `Ask` |
| `InsertUser` of a new e-mail | `Register` |
| `InsertSession` | `Open` |
| `Refresh` | `Rotate` |
| `Logout` | `Close` |
| `CommitPassword` | `SetPassword` |
| `ExpireSession` | `Expire` |
| the other steps | nothing |

`ended` is what makes `Close` a promise: a call that is answered has taken a key away in
the same step, though a refresh may compete for its row, and since a login has one key at a
time no two logouts have ended the same login. `Rotate` allows a key that is no longer
taken, since the code does: the delete of `refreshToken` is by id (line 229).

### Runs

| run | what it asks | instance |
|---|---|---|
| `accounts` | `TypeOK`, `OneSessionPerLogin`, `OldSessionsEnd`, `ResetsPerMail`, `AnswersHold`, `ImplementsLogins` | one e-mail, unknown or with a session and a reset token; three calls of any kind, a shop's registration being that of a customer |

Every statement has the user, or a row of the user's own, in its condition, so one is
enough. Two calls are what it takes to disturb a third; the mutants show that each
property is at stake in such an instance. The calls end, so deadlock is not checked.

The conditions of the properties say what the code does not promise. A refresh
that runs while the password is changed may leave a live session, since its delete is by
id and does not look at `revoked` again (line 229). Two resets that overlap may
both use one row, since its update is by id (line 350); `ResetsPerMail` is about those
that follow one another, with one token from before, those that are mailed meanwhile and
any of them given again. A customer
whose mail fails is told of an error and is registered; a driver may be left without
a profile.

### Proofs

`AccountsProofs.tla` proves all six for any e-mails, calls and old rows.

The inductive invariant has four parts besides the properties. `Held` says what a
handler may rely on at each `pc`, and what an answer says of the tables from then on.
`RowsOfCalls` ties a row to the call it is named after: no session of a call exists
before that call has ended, so a new one belongs to no login but its own.
`SnapshotTaken` says that a session of the user of an open transaction is in its
snapshot or of a call that had not ended when the transaction's call began; it is
what makes `OldSessionsEnd` true at the commit. `ResetsApart` says that nobody who begins
after a row was used finds it: so resets in turn have rows of their own, all of them rows
of their user (`TokenFound`), and `ResetsBounded` counts them.

`QuietMove` covers the steps that only read, `OrdinaryStep` those that write a row and
set no password, `LockStep` and `CommitStep` the transaction, `ExpireSteps` the clock.

The refinement rests on three facts more. `CookieGiven` says that a refresh or logout
carries a key that had been given out to its user when it began. `Found`, an invariant of
its own, says that what a handler has found, or has in its snapshot, was given out and is,
if it is still there, a row of the handler's user. `RowsKept` says what every step leaves
of the rows that were given out: their login and their user stay, and what is gone does
not come back. `RowHeld` ties a row to its key, which makes each change of a row a change
of one key. `CommitSeen` uses `SnapshotTaken`: every key given out before the call was
asked for is in the snapshot, or its row is gone. `NoKeyAssumption` says that `NoRow` is no
key and no set of keys, for it is also the `None` of `Logins`.

## 9. RestaurantCatalog

### Model

`RestaurantCatalog.tla` models the restaurants of one owner, the list of them in the
cache, and the images.

| model | code |
|---|---|
| `restaurant` | the rows: name, status, image; the other columns are written like the name |
| `files` | the files at Cloudinary, named after the upload that stored them |
| `entry` | the cached list `restaurants:<ownerId>`, and the call that has filled it |
| `FindName`, `Insert` | `createRestaurant` |
| `FindRow` | the first query of `setOpen`, `setClosed`, `setBusy`, `updateRestaurant`, `deleteRestaurant`, `uploadRestaurantImage` |
| `SetStatus`, `UpdateRestaurant`, `Delete` | their last statement, by id |
| `RemoveOldFile`, `StoreFile`, `SetImage` | the rest of an upload |
| `GetEntry`, `ReadList`, `SetEntry`, `Expire` | `getAllRestaurants` and the six seconds of an entry |
| `Fail` | a statement, the cache or the image store fails, or the process stops |
| `before`, `renamed` | history: the calls that had ended when one began; the rows an update has given another name |

The second query of most handlers reads the owner's role, which no handler changes,
and is left out. A restaurant created with an image URL names no file of the store.
Names are looked for among all restaurants; those of other owners behave alike, and are
not told apart. `Delete` may be refused for the menu items and orders that name the row, which is `Fail`.

### Runs

| run | what it asks | instance |
|---|---|---|
| `restaurant_catalog` | `TypeOK`, `NamesUnique`, `StatusKept`, `ImagesStored`, `ListsAsFilled` | one restaurant or none; three calls of any kind; two names, two statuses |

A call may also be for the restaurant that another call creates. Three calls let a
status be set, an update begin before or after that, and a third one interfere. The
requests are restricted to one name for creations, CLOSED for a change of status, and
three forms of an update: without a status, with one, with another name. The calls
end, so deadlock is not checked.

Again the conditions say what the code does not promise. Two creations that overlap
may use one name, and an update may take a name that exists. A status that was told to
the owner is undone by an update without a status that read the row before it
(`Undisturbed`). After an upload that fails half-way the row names a file that is gone,
and two at once leave a file that no row names (`UploadsInTurn`). The cached list is
never deleted: `ListsAsFilled` says how old it may be, namely as old as the call that
filled it.

### Proofs

`RestaurantCatalogProofs.tla` proves all five for any restaurants, calls, names and
statuses.

The inductive invariant adds to them what handlers have read. `Ready` says that a handler
past its first query works on a row that was created before; `RowsOfCalls`, that no row
is created twice. `NameFree` and `ReadKept` are `NamesUnique` and `StatusKept` for a
creation and an update that have read and not yet written: a name that was found free is
used by nobody who had ended before, and a status that will be written back is the one told
before the update began. `Listed` and `EntryListed` carry `AsOf`, how old a list may
be, from the query through the cache to the answer. `Stable` and the lemmas after it
say what a step cannot undo; `QuietMove`, `InsertStep` and `WriteStep` are the three kinds
of steps.

`ImagesStored` stands on a second layer, `Images`. `AsStored` follows one upload
through its steps, from the old file over none to the new one. It rests on `OneUpload`,
that uploads which do not overlap run one at a time, and on `OwnApart`, that no two
restaurants share a file. A step can end that uploads follow each other and never
bring it back (`ImagesStable`), so that the condition may be used in both states.

## 10. Not modelled

* Chat: a message is one insert and one emit; membership of rooms is kept in socket.io.
  `join-room` joins `chat-<id>` while `send-message` emits to `chat:<id>`, so no message
  reaches anybody, whatever the order of events.
* Event notifications: no handler calls `NotificationService`.
* Categories: a check and an insert, of the form of `createRestaurant`.
* User profiles: single statements on one row. The upload of an avatar or of the image of
  a menu item has the statements of that of a restaurant.
* Handlers without a caller: `createDeliveryForOrder`, `findNearestDrivers`,
  `getCustomerOrder`, `getLocation`. Searches that only read.
* Mail, logging, guards and configuration keep no state that two requests could
  disagree about. That mail may fail is part of `Accounts`; the image and map services are
  external, and appear as steps that may fail.

Liveness under fairness is out of the prover's reach, and so is what the folds over data
compute (`Total`): both are checked by TLC only.
