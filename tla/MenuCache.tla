------------------------------ MODULE MenuCache ------------------------------
(***************************************************************************)
(* The menu of one restaurant in the cache: getMenuItems and the handlers  *)
(* of src/src/menu-items/menu-items.service.ts that change the menu, with  *)
(* deleteRestaurant of src/src/restaurants/restaurants.service.ts.         *)
(*                                                                         *)
(* Only createMenuItem deletes the cached menu; what the others change is  *)
(* shown when it has expired.  A menu is known by the number of changes    *)
(* before it, and a deleted restaurant has the last one, an empty menu.    *)
(*                                                                         *)
(* A definition whose comment begins with "Fault:" is no part of the       *)
(* specification: it is a faulty form of the definition that follows it,   *)
(* which one of the properties must find.                                  *)
(***************************************************************************)
EXTENDS Naturals, Sequences

CONSTANTS
    Readers,        \* requests GET /menu-items/:restaurantId/all
    Writers,        \* requests that change the menu
    TTL,            \* 60000 ms
    MaxFill,        \* the longest time from the read of a menu to its answer
    MaxTime,        \* when the clock stops
    None            \* no entry, no answer

ASSUME MenuAssumption ==
    /\ TTL \in Nat /\ MaxFill \in Nat /\ MaxTime \in Nat
    /\ None \notin Nat
    /\ None \notin [menu: Nat, expires: Nat]

VARIABLES
    now,            \* the clock, of which only differences matter
    changes,        \* the times of the committed changes, in order
    gone,           \* the restaurant was deleted
    cache,          \* the entry menu-item:<restaurantId> in Redis
    reader, writer, \* the handlers
    shown           \* history: the newest menu that a createMenuItem has made
                    \* room for while no reader held an older one

vars == <<now, changes, gone, cache, reader, writer, shown>>

Current == Len(changes)

\* A reader holds a menu from its read to its answer.
Holding == {"read", "filled"}

Reader == [pc: Holding \cup {"idle", "called", "missed", "checked", "done", "failed"},
           menu: Nat, readAt: Nat, answer: Nat \cup {None}]

Writer == [op: {"create", "change", "deleteRestaurant"},
           pc: {"idle", "called", "inserted", "done", "failed"}, menu: Nat]

TypeOK ==
    /\ now \in 0..MaxTime
    /\ changes \in Seq(0..now)
    /\ gone \in BOOLEAN
    /\ cache \in [menu: 0..Current, expires: 0..(now + TTL)] \cup {None}
    /\ reader \in [Readers -> Reader]
    /\ writer \in [Writers -> Writer]
    /\ shown \in 0..Current

Init ==
    /\ now = 0
    /\ changes = <<>>
    /\ gone = FALSE
    /\ cache = None
    /\ reader = [r \in Readers |-> [pc |-> "idle", menu |-> 0, readAt |-> 0, answer |-> None]]
    /\ writer \in [Writers -> [op: {"create", "change", "deleteRestaurant"},
                               pc: {"idle"}, menu: {0}]]
    /\ shown = 0

-----------------------------------------------------------------------------
(* getMenuItems                                                            *)

Read(r, pc) ==
    /\ reader' = [reader EXCEPT ![r].pc = pc]
    /\ UNCHANGED <<now, changes, gone, writer, shown>>

CallRead(r) == reader[r].pc = "idle" /\ Read(r, "called") /\ UNCHANGED cache

\* An empty menu is an entry as well: an array is true.
GetCached(r) ==
    /\ reader[r].pc = "called"
    /\ IF cache # None /\ now < cache.expires
         THEN /\ reader' = [reader EXCEPT ![r].pc = "done", ![r].answer = cache.menu]
              /\ UNCHANGED <<now, changes, gone, writer, shown>>
         ELSE Read(r, "missed")
    /\ UNCHANGED cache

CheckRestaurant(r) ==
    /\ reader[r].pc = "missed"
    /\ Read(r, IF gone THEN "failed" ELSE "checked")
    /\ UNCHANGED cache

FindItems(r) ==
    /\ reader[r].pc = "checked"
    /\ reader' = [reader EXCEPT ![r].pc = "read", ![r].menu = Current, ![r].readAt = now]
    /\ UNCHANGED <<now, changes, gone, cache, writer, shown>>

\* Fault: the time to live is given in another unit.
FillLong(r) ==
    /\ reader[r].pc = "read"
    /\ cache' = [menu |-> reader[r].menu, expires |-> now + 10 * TTL]
    /\ Read(r, "filled")

Fill(r) ==
    /\ reader[r].pc = "read"
    /\ cache' = [menu |-> reader[r].menu, expires |-> now + TTL]
    /\ Read(r, "filled")

AnswerRead(r) ==
    /\ reader[r].pc = "filled"
    /\ reader' = [reader EXCEPT ![r].pc = "done", ![r].answer = reader[r].menu]
    /\ UNCHANGED <<now, changes, gone, cache, writer, shown>>

-----------------------------------------------------------------------------
(* The writers.  Their checks read what never changes, except that the     *)
(* restaurant exists, without which the write itself fails.                *)

CallWrite(w) ==
    /\ writer[w].pc = "idle"
    /\ writer' = [writer EXCEPT ![w].pc = "called"]
    /\ UNCHANGED <<now, changes, gone, cache, reader, shown>>

Write(w) ==
    /\ writer[w].pc = "called"
    /\ IF gone
         THEN writer' = [writer EXCEPT ![w].pc = "failed"] /\ UNCHANGED <<changes, gone>>
         ELSE /\ changes' = Append(changes, now)
              /\ gone' = (writer[w].op = "deleteRestaurant")
              /\ writer' = [writer EXCEPT
                    ![w].pc = IF writer[w].op = "create" THEN "inserted" ELSE "done",
                    ![w].menu = Current + 1]
    /\ UNCHANGED <<now, cache, reader, shown>>

\* No reader is about to put a menu without the new item into the cache.
NoLateFill(w) ==
    \A r \in Readers : reader[r].pc = "read" => reader[r].menu >= writer[w].menu

\* Fault: another key is deleted.
DeleteOther(w) ==
    /\ writer[w].pc = "inserted"
    /\ writer' = [writer EXCEPT ![w].pc = "done"]
    /\ shown' = IF NoLateFill(w) /\ writer[w].menu > shown THEN writer[w].menu ELSE shown
    /\ UNCHANGED <<now, changes, gone, cache, reader>>

DeleteCached(w) ==
    /\ writer[w].pc = "inserted"
    /\ cache' = None
    /\ writer' = [writer EXCEPT ![w].pc = "done"]
    /\ shown' = IF NoLateFill(w) /\ writer[w].menu > shown THEN writer[w].menu ELSE shown
    /\ UNCHANGED <<now, changes, gone, reader>>

-----------------------------------------------------------------------------
(* The environment                                                         *)

\* That a reader answers within MaxFill of its read is assumed of the database,
\* of Redis and of the event loop; nothing in the code enforces it.
Tick ==
    /\ now < MaxTime
    /\ \A r \in Readers : reader[r].pc \in Holding => now < reader[r].readAt + MaxFill
    /\ now' = now + 1
    /\ UNCHANGED <<changes, gone, cache, reader, writer, shown>>

\* Redis drops the entry before its time.
Evict ==
    /\ cache # None
    /\ cache' = None
    /\ UNCHANGED <<now, changes, gone, reader, writer, shown>>

\* Redis does not answer and the cache library keeps the error to itself: a get is
\* a miss, a set changes nothing.
CacheFails(r) ==
    /\ \/ reader[r].pc = "called" /\ Read(r, "missed")
       \/ reader[r].pc = "read" /\ Read(r, "filled")
    /\ UNCHANGED cache

\* A statement or a command of Redis is rejected.
FailRead(r) ==
    /\ reader[r].pc \notin {"idle", "done", "failed"}
    /\ Read(r, "failed")
    /\ UNCHANGED cache

\* The same, and a deletion of the entry that changes nothing, whatever the client
\* is told of it.
FailWrite(w) ==
    /\ writer[w].pc \in {"called", "inserted"}
    /\ writer' = [writer EXCEPT ![w].pc = "failed"]
    /\ UNCHANGED <<now, changes, gone, cache, reader, shown>>

Next ==
    \/ \E r \in Readers :
          \/ CallRead(r) \/ GetCached(r) \/ CheckRestaurant(r) \/ FindItems(r)
          \/ Fill(r) \/ AnswerRead(r) \/ CacheFails(r) \/ FailRead(r)
    \/ \E w \in Writers : CallWrite(w) \/ Write(w) \/ DeleteCached(w) \/ FailWrite(w)
    \/ Tick \/ Evict

Spec == Init /\ [][Next]_vars

-----------------------------------------------------------------------------
(* What is claimed of the system.                                          *)

\* What the clients have been answered.
Answered == [r \in Readers |-> reader[r].answer]

Promise == INSTANCE StaleMenu
             WITH Bound <- TTL + MaxFill, NoAnswer <- None, answer <- Answered

\* No answer is older than the time to live and one fill together, although updates
\* and deletions leave the cached menu, and a slow reader may put an old menu into
\* the cache just after createMenuItem has emptied it.
ImplementsStaleMenu == Promise!Spec

\* When createMenuItem deletes the entry while no reader holds a menu without the new
\* item, the item is on every menu that is in the cache afterwards.
NewItemShown == cache # None => cache.menu >= shown

=============================================================================
