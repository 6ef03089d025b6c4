------------------------- MODULE RestaurantCatalog -------------------------
(***************************************************************************)
(* The restaurants of one owner, the cached list of them and their images, *)
(* the handlers of src/src/restaurants/restaurants.service.ts.             *)
(*                                                                         *)
(* A restaurant and an image are named after the call that makes them.     *)
(* Each handler but the list has one statement that writes, its last one;  *)
(* all of them are outside of transactions.  The second read of most, of   *)
(* the owner and his role, finds what never changes and is left out.       *)
(*                                                                         *)
(* A definition whose comment begins with "Fault:" is no part of the       *)
(* specification: it is a faulty form of the definition that follows it,   *)
(* which one of the properties must find.                                  *)
(***************************************************************************)
EXTENDS Naturals, FiniteSets

CONSTANTS
    Old,            \* restaurants the owner has at first
    Calls, Requests,
    Names, Statuses,
    Absent,         \* an optional field that the body does not have
    NoImage,        \* none, or a URL that names no file of the image store
    NoRow

Restaurants == Old \cup Calls
Files       == Restaurants

Request == [op: {"create"}, name: Names]
           \cup [op: {"setStatus"}, id: Restaurants, status: Statuses]
           \cup [op: {"update"}, id: Restaurants, name: Names \cup {Absent},
                                 status: Statuses \cup {Absent}]
           \cup [op: {"delete", "upload"}, id: Restaurants]
           \cup [op: {"list"}]

Row == [name: Names, status: Statuses, image: Files \cup {NoImage}]

ASSUME CatalogAssumption ==
    /\ Requests \subseteq Request /\ "OPEN" \in Statuses
    /\ Old \cap Calls = {} /\ NoRow \notin Row /\ NoRow \notin Restaurants
    /\ NoImage \notin Files /\ Absent \notin Names \cup Statuses

VARIABLES
    restaurant,     \* the rows
    files,          \* at Cloudinary
    entry,          \* of the cache: the list and the call that has put it there
    call,           \* the handlers
    renamed         \* history: the restaurants an update has given another name

vars == <<restaurant, files, entry, call, renamed>>

Running == {"called", "found", "removed", "stored", "missed", "listed"}

\* read is the row as the handler has found it, list the answer and filler the call
\* that has read it; before, the calls that had ended when it began, is history.
Handler == [pc: Running \cup {"idle", "done", "failed"}, request: Requests,
            read: Row \cup {NoRow}, list: SUBSET Restaurants,
            filler: Calls \cup {NoRow}, before: SUBSET Calls]

Exists(r) == restaurant[r] # NoRow

TypeOK ==
    /\ restaurant \in [Restaurants -> Row \cup {NoRow}]
    /\ files \subseteq Files
    /\ entry \in [list: SUBSET Restaurants, filler: Calls] \cup {NoRow}
    /\ call \in [Calls -> Handler]
    /\ renamed \subseteq Restaurants

Init ==
    /\ restaurant \in [Restaurants -> Row \cup {NoRow}]
    /\ \A r \in Restaurants : Exists(r) => r \in Old /\ restaurant[r].image \in {r, NoImage}
    /\ \A r, q \in Restaurants :
          Exists(r) /\ Exists(q) /\ restaurant[r].name = restaurant[q].name => r = q
    /\ files = {r \in Old : Exists(r) /\ restaurant[r].image = r}
    /\ entry = NoRow
    /\ call \in [Calls -> [pc: {"idle"}, request: Requests, read: {NoRow}, list: {{}},
                           filler: {NoRow}, before: {{}}]]
    /\ renamed = {}

-----------------------------------------------------------------------------
InFlight(c) == call[c].pc \in Running
Ended(c)    == call[c].pc \in {"done", "failed"}

At(c, op, pc) == call[c].request.op = op /\ call[c].pc = pc

Target(c) == call[c].request.id

GoTo(c, pc) == call' = [call EXCEPT ![c].pc = pc]

\* What the handler has read is no more.
Finish(c, pc) == call' = [call EXCEPT ![c].pc = pc, ![c].read = NoRow]

Call(c) ==
    /\ call[c].pc = "idle"
    /\ call' = [call EXCEPT ![c].pc = "called", ![c].before = {d \in Calls : Ended(d)}]
    /\ UNCHANGED <<restaurant, files, entry, renamed>>

\* A statement, the cache or the image store fails, or the process stops.
Fail(c) ==
    /\ InFlight(c)
    /\ call' = [call EXCEPT ![c].pc = "failed", ![c].read = NoRow, ![c].list = {},
                            ![c].filler = NoRow]
    /\ UNCHANGED <<restaurant, files, entry, renamed>>

-----------------------------------------------------------------------------
(* createRestaurant                                                        *)

\* Fault: the restaurants that are not open do not count.
FindOpenName(c) ==
    /\ At(c, "create", "called")
    /\ GoTo(c, IF \E r \in Restaurants : /\ Exists(r) /\ restaurant[r].status = "OPEN"
                                         /\ restaurant[r].name = call[c].request.name
                 THEN "failed" ELSE "found")
    /\ UNCHANGED <<restaurant, files, entry, renamed>>

FindName(c) ==
    /\ At(c, "create", "called")
    /\ GoTo(c, IF \E r \in Restaurants : /\ Exists(r)
                                         /\ restaurant[r].name = call[c].request.name
                 THEN "failed" ELSE "found")
    /\ UNCHANGED <<restaurant, files, entry, renamed>>

\* The cached list stays: its deletion stands after the return.
Insert(c) ==
    /\ At(c, "create", "found")
    /\ restaurant' = [restaurant EXCEPT ![c] =
                        [name |-> call[c].request.name, status |-> "OPEN", image |-> NoImage]]
    /\ GoTo(c, "done")
    /\ UNCHANGED <<files, entry, renamed>>

-----------------------------------------------------------------------------
(* setOpen, setClosed, setBusy, updateRestaurant and deleteRestaurant      *)

FindRow(c) ==
    /\ call[c].pc = "called" /\ call[c].request.op \notin {"create", "list"}
    /\ call' = [call EXCEPT ![c].pc = IF Exists(Target(c)) THEN "found" ELSE "failed",
                            ![c].read = restaurant[Target(c)]]
    /\ UNCHANGED <<restaurant, files, entry, renamed>>

\* An update by id, and a delete, fail when the row is gone.
Write(c, row) ==
    /\ Exists(Target(c))
    /\ restaurant' = [restaurant EXCEPT ![Target(c)] = row]
    /\ Finish(c, "done")
    /\ UNCHANGED <<files, entry>>

SetStatus(c) ==
    /\ At(c, "setStatus", "found")
    /\ Write(c, [restaurant[Target(c)] EXCEPT !.status = call[c].request.status])
    /\ UNCHANGED renamed

Given(field, default) == IF field = Absent THEN default ELSE field

Update(c, row) ==
    /\ At(c, "update", "found")
    /\ Write(c, row)
    /\ renamed' = IF row.name = restaurant[Target(c)].name THEN renamed
                                                          ELSE renamed \cup {Target(c)}

\* Fault: the body is written as it is.
UpdateBare(c) ==
    Update(c, [restaurant[Target(c)] EXCEPT !.name = call[c].request.name,
                                            !.status = call[c].request.status])

\* Fault: a body without a status opens the restaurant.
UpdateOpens(c) ==
    Update(c, [restaurant[Target(c)] EXCEPT
                 !.name   = Given(call[c].request.name, call[c].read.name),
                 !.status = Given(call[c].request.status, "OPEN")])

\* What the body lacks is written as it was read.
UpdateRestaurant(c) ==
    Update(c, [restaurant[Target(c)] EXCEPT
                 !.name   = Given(call[c].request.name, call[c].read.name),
                 !.status = Given(call[c].request.status, call[c].read.status)])

\* Menu items and orders that name the restaurant make it Fail.
Delete(c) ==
    /\ At(c, "delete", "found")
    /\ Write(c, NoRow)
    /\ UNCHANGED renamed

-----------------------------------------------------------------------------
(* uploadRestaurantImage                                                   *)

\* Fault: the old file is kept.
KeepOldFile(c) ==
    /\ At(c, "upload", "found")
    /\ GoTo(c, "removed")
    /\ UNCHANGED <<restaurant, files, entry, renamed>>

\* The store does not mind when there is no such file.
RemoveOldFile(c) ==
    /\ At(c, "upload", "found")
    /\ files' = files \ {call[c].read.image}
    /\ GoTo(c, "removed")
    /\ UNCHANGED <<restaurant, entry, renamed>>

StoreFile(c) ==
    /\ At(c, "upload", "removed")
    /\ files' = files \cup {c}
    /\ GoTo(c, "stored")
    /\ UNCHANGED <<restaurant, entry, renamed>>

SetImage(c) ==
    /\ At(c, "upload", "stored")
    /\ Write(c, [restaurant[Target(c)] EXCEPT !.image = c])
    /\ UNCHANGED renamed

-----------------------------------------------------------------------------
(* getAllRestaurants                                                       *)

Answer(c, e) ==
    call' = [call EXCEPT ![c].pc = "done", ![c].list = e.list, ![c].filler = e.filler]

\* Fault: a hit puts the list into the cache again, in its own name.
GetAndRefill(c) ==
    /\ At(c, "list", "called")
    /\ IF entry = NoRow THEN GoTo(c, "missed") /\ UNCHANGED entry
       ELSE Answer(c, [entry EXCEPT !.filler = c]) /\ entry' = [entry EXCEPT !.filler = c]
    /\ UNCHANGED <<restaurant, files, renamed>>

GetEntry(c) ==
    /\ At(c, "list", "called")
    /\ IF entry = NoRow THEN GoTo(c, "missed") ELSE Answer(c, entry)
    /\ UNCHANGED <<restaurant, files, entry, renamed>>

ReadList(c) ==
    /\ At(c, "list", "missed")
    /\ call' = [call EXCEPT ![c].pc = "listed", ![c].filler = c,
                            ![c].list = {r \in Restaurants : Exists(r)}]
    /\ UNCHANGED <<restaurant, files, entry, renamed>>

SetEntry(c) ==
    /\ At(c, "list", "listed")
    /\ entry' = [list |-> call[c].list, filler |-> c]
    /\ GoTo(c, "done")
    /\ UNCHANGED <<restaurant, files, renamed>>

\* Six seconds.
Expire ==
    /\ entry # NoRow
    /\ entry' = NoRow
    /\ UNCHANGED <<restaurant, files, call, renamed>>

Next ==
    \/ \E c \in Calls :
          \/ Call(c) \/ Fail(c) \/ FindName(c) \/ Insert(c) \/ FindRow(c)
          \/ SetStatus(c) \/ UpdateRestaurant(c) \/ Delete(c)
          \/ RemoveOldFile(c) \/ StoreFile(c) \/ SetImage(c)
          \/ GetEntry(c) \/ ReadList(c) \/ SetEntry(c)
    \/ Expire

Spec == Init /\ [][Next]_vars

-----------------------------------------------------------------------------
(* What is claimed of the system.                                          *)

Told(c, op) == At(c, op, "done")

Begun(c) == call[c].pc # "idle"

Overlap(c, d) == c \notin call[d].before /\ d \notin call[c].before

\* Two restaurants have one name only when an update has renamed one of them, or the
\* calls that created them overlapped: each looked for the name before the other's
\* insert.
NamesUnique ==
    \A r, q \in Restaurants :
        /\ r # q /\ Exists(r) /\ Exists(q) /\ {r, q} \cap renamed = {}
        /\ restaurant[r].name = restaurant[q].name
        => r \in Calls /\ q \in Calls /\ Overlap(r, q)

\* The status that its owner has been told of is the restaurant's, and remains so
\* through updates without a status that begin later: no other call has set one, or
\* ran at the time and may write back what it read.
Undisturbed(c) ==
    \A d \in Calls \ {c} :
        /\ Begun(d) /\ call[d].request.op \in {"setStatus", "update"} /\ Target(d) = Target(c)
        => \/ d \in call[c].before
           \/ call[d].request.op = "update" /\ call[d].request.status = Absent /\ c \in call[d].before

StatusKept ==
    \A c \in Calls :
        Told(c, "setStatus") /\ Exists(Target(c)) /\ Undisturbed(c)
            => restaurant[Target(c)].status = call[c].request.status

\* The image of a restaurant is a stored file, and no image that was its own is stored
\* besides, unless an upload is running, has failed half-way, or overlapped another.
UploadsInTurn(r) ==
    \A c \in Calls :
        At(c, "upload", call[c].pc) /\ Begun(c) /\ Target(c) = r =>
            /\ Told(c, "upload")
            /\ \A d \in Calls \ {c} :
                  At(d, "upload", call[d].pc) /\ Begun(d) /\ Target(d) = r => ~Overlap(c, d)

ImagesStored ==
    \A r \in Restaurants :
        Exists(r) /\ UploadsInTurn(r) =>
            /\ restaurant[r].image \in files \cup {NoImage}
            /\ \A f \in files : f = r \/ (\E c \in Calls : c = f /\ At(c, "upload", "done") /\ Target(c) = r)
                                  => f = restaurant[r].image

\* A list is as new as the call that has filled it: what was told to be created
\* before that is on it, what was told to be deleted is not.
AsOf(list, f) ==
    \A c \in call[f].before :
        /\ Told(c, "create") =>
              c \in list \/ \E d \in Calls : At(d, "delete", call[d].pc) /\ Begun(d) /\ Target(d) = c
        /\ Told(c, "delete") => Target(c) \notin list

ListsAsFilled ==
    /\ entry # NoRow => AsOf(entry.list, entry.filler)
    /\ \A c \in Calls : Told(c, "list") => AsOf(call[c].list, call[c].filler)

=============================================================================
