----------------------- MODULE RestaurantCatalogProofs -----------------------
(***************************************************************************)
(* Theorems about RestaurantCatalog, for any restaurants, calls and names. *)
(***************************************************************************)
EXTENDS RestaurantCatalog, TLAPS

ForRow(c) == call[c].request.op \notin {"create", "list"}

DeleteBegun(r) ==
    \E d \in Calls : At(d, "delete", call[d].pc) /\ Begun(d) /\ Target(d) = r

\* What a handler has read, and what its answer says.
Ready(c) ==
    /\ call[c].before \subseteq {d \in Calls : Ended(d)}
    /\ ForRow(c) /\ call[c].pc \in {"found", "removed", "stored"} => call[c].read \in Row
    /\ ForRow(c) /\ call[c].pc \in {"found", "removed", "stored", "done"} /\ Target(c) \in Calls
          => Told(Target(c), "create")
    /\ Told(c, "create") => Exists(c) \/ DeleteBegun(c)
    /\ Told(c, "delete") => ~Exists(Target(c))

\* A list is as of its filler already when it is read.
Listed(c) ==
    /\ At(c, "list", "listed") => call[c].filler = c /\ AsOf(call[c].list, c)
    /\ Told(c, "list") =>
          /\ call[c].filler \in Calls /\ Begun(call[c].filler)
          /\ AsOf(call[c].list, call[c].filler)

EntryListed == entry # NoRow => Begun(entry.filler) /\ AsOf(entry.list, entry.filler)

\* No row is created twice.
RowsOfCalls == \A r \in Calls : Exists(r) => Told(r, "create")

\* A name that a handler has found free is used by nobody but those who ran at the time.
NameFree(c) ==
    At(c, "create", "found") =>
        \A r \in Old \cup call[c].before :
            Exists(r) /\ r \notin renamed => restaurant[r].name # call[c].request.name

\* An update that will write back a status has read the one that was told before it.
ReadKept(c) ==
    At(c, "update", "found") /\ call[c].request.status = Absent =>
        \A d \in call[c].before :
            Told(d, "setStatus") /\ Target(d) = Target(c) /\ Undisturbed(d)
                => call[c].read.status = call[d].request.status

StatusKeptFor(c) ==
    Told(c, "setStatus") /\ Exists(Target(c)) /\ Undisturbed(c)
        => restaurant[Target(c)].status = call[c].request.status

IInv ==
    /\ TypeOK
    /\ \A c \in Calls : Ready(c)
    /\ \A c \in Calls : Listed(c)
    /\ EntryListed
    /\ RowsOfCalls
    /\ \A c \in Calls : NameFree(c)
    /\ NamesUnique
    /\ \A c \in Calls : ReadKept(c)
    /\ \A c \in Calls : StatusKeptFor(c)

-----------------------------------------------------------------------------
LEMMA RequestFields ==
    ASSUME TypeOK, NEW c \in Calls
    PROVE  /\ call[c] \in Handler
           /\ ForRow(c) => Target(c) \in Restaurants
           /\ call[c].request.op = "create" => call[c].request.name \in Names
           /\ call[c].request.op = "setStatus" => call[c].request.status \in Statuses
           /\ call[c].request.op = "update" =>
                 /\ call[c].request.name \in Names \cup {Absent}
                 /\ call[c].request.status \in Statuses \cup {Absent}
  <1>1. call[c] \in Handler
    BY DEF TypeOK
  <1>2. call[c].request \in Request
    BY <1>1, CatalogAssumption DEF Handler
  <1> QED
    BY <1>1, <1>2 DEF Request, ForRow, Target

LEMMA InitIInv == Init => IInv
  <1> SUFFICES ASSUME Init PROVE IInv
    OBVIOUS
  <1>1. \A c \in Calls : /\ call[c] \in Handler /\ call[c].pc = "idle" /\ call[c].before = {}
    BY DEF Init, Handler, Running
  <1>2. TypeOK
    <2>1. call \in [Calls -> Handler]
      BY DEF Init, Handler
    <2>2. files \subseteq Files
      BY DEF Init, Files, Restaurants
    <2> QED
      BY <2>1, <2>2 DEF Init, TypeOK
  <1>3. \A c \in Calls : Ready(c) /\ Listed(c) /\ NameFree(c) /\ ReadKept(c) /\ StatusKeptFor(c)
    BY <1>1 DEF Ready, Listed, NameFree, ReadKept, StatusKeptFor, At, Told
  <1>4. EntryListed
    BY DEF Init, EntryListed
  <1>5. RowsOfCalls
    BY CatalogAssumption DEF Init, RowsOfCalls, Restaurants
  <1>6. NamesUnique
    BY DEF Init, NamesUnique, Exists
  <1> QED
    BY <1>2, <1>3, <1>4, <1>5, <1>6 DEF IInv

\* How the handlers change when one of them moves.
Moves(c) ==
    /\ call' \in [Calls -> Handler]
    /\ \A d \in Calls : d # c => call'[d] = call[d]
    /\ call'[c].request = call[c].request
    /\ ~Ended(c) /\ call'[c].pc # "idle"
    /\ IF call[c].pc = "idle" THEN call'[c].before = {d \in Calls : Ended(d)}
                              ELSE call'[c].before = call[c].before

\* What stays as it is when one of them moves.
LEMMA Stable ==
    ASSUME IInv, NEW c \in Calls, Moves(c)
    PROVE  /\ \A d \in Calls : /\ call'[d].request = call[d].request
                               /\ Target(d)' = Target(d)
                               /\ Begun(d) => Begun(d)' /\ call'[d].before = call[d].before
                               /\ Ended(d) => Ended(d)' /\ Begun(d) /\ call'[d] = call[d]
           /\ \A d \in Calls : \A op : Told(d, op) => Told(d, op)' /\ Begun(d) /\ Ended(d)
           /\ \A d \in Calls : (call[d].before \subseteq {e \in Calls : Ended(e)})'
           /\ \A r : DeleteBegun(r) => DeleteBegun(r)'
  <1>1. \A d \in Calls : /\ call'[d].request = call[d].request
                         /\ Target(d)' = Target(d)
                         /\ Begun(d) => Begun(d)' /\ call'[d].before = call[d].before
                         /\ Ended(d) => Ended(d)' /\ Begun(d) /\ call'[d] = call[d]
    BY DEF Moves, Target, Begun, Ended
  <1>2. \A d \in Calls : \A op : Told(d, op) => Told(d, op)' /\ Begun(d) /\ Ended(d)
    BY <1>1 DEF Told, At, Ended
  <1>3. \A d \in Calls : (call[d].before \subseteq {e \in Calls : Ended(e)})'
    <2> SUFFICES ASSUME NEW d \in Calls
                 PROVE  (call[d].before \subseteq {e \in Calls : Ended(e)})'
      OBVIOUS
    <2>1. call[d].before \subseteq {e \in Calls : Ended(e)}
      BY DEF IInv, Ready
    <2>2. call'[d].before \subseteq {e \in Calls : Ended(e)}
      BY <2>1 DEF Moves
    <2> QED
      BY <1>1, <2>2
  <1>4. ASSUME NEW r, DeleteBegun(r) PROVE DeleteBegun(r)'
    <2>1. PICK d \in Calls : At(d, "delete", call[d].pc) /\ Begun(d) /\ Target(d) = r
      BY <1>4 DEF DeleteBegun
    <2>2. At(d, "delete", call[d].pc)' /\ Begun(d)' /\ Target(d)' = r
      BY <1>1, <2>1 DEF At
    <2> QED
      BY <2>2 DEF DeleteBegun
  <1> QED
    BY <1>1, <1>2, <1>3, <1>4

LEMMA AsOfStable ==
    ASSUME IInv, NEW c \in Calls, Moves(c), NEW f \in Calls, Begun(f), NEW list, AsOf(list, f)
    PROVE  AsOf(list, f)'
  <1>1. call'[f].before = call[f].before
    BY Stable
  <1>2. ASSUME NEW d \in call[f].before
        PROVE  /\ d \in Calls /\ call'[d] = call[d] /\ Target(d)' = Target(d)
               /\ Told(d, "create") => d \in list \/ DeleteBegun(d)
               /\ Told(d, "delete") => Target(d) \notin list
    <2>1. d \in Calls /\ Ended(d)
      BY DEF IInv, Ready
    <2> QED
      BY <2>1, Stable DEF AsOf, DeleteBegun
  <1>3. ASSUME NEW d \in call[f].before
        PROVE  /\ Told(d, "create")' => d \in list \/ DeleteBegun(d)'
               /\ Told(d, "delete")' => Target(d)' \notin list
    <2>1. /\ Told(d, "create")' <=> Told(d, "create")
          /\ Told(d, "delete")' <=> Told(d, "delete")
      BY <1>2 DEF Told, At
    <2> QED
      BY <1>2, <2>1, Stable
  <1>4. \A d \in call'[f].before : /\ Told(d, "create")' => d \in list \/ DeleteBegun(d)'
                                   /\ Told(d, "delete")' => Target(d)' \notin list
    BY <1>1, <1>3
  <1> QED
    BY <1>4 DEF AsOf, DeleteBegun

LEMMA UndisturbedStable ==
    ASSUME IInv, NEW c \in Calls, Moves(c), NEW d \in Calls, Begun(d), Undisturbed(d)'
    PROVE  Undisturbed(d)
  <1> SUFFICES ASSUME NEW e \in Calls \ {d}, Begun(e),
                      call[e].request.op \in {"setStatus", "update"}, Target(e) = Target(d)
               PROVE  \/ e \in call[d].before
                      \/ /\ call[e].request.op = "update" /\ call[e].request.status = Absent
                         /\ d \in call[e].before
    BY DEF Undisturbed
  <1>1. /\ Begun(e)' /\ call'[e].request = call[e].request
        /\ Target(e)' = Target(e) /\ Target(d)' = Target(d)
        /\ call'[e].before = call[e].before /\ call'[d].before = call[d].before
    BY Stable
  <1> QED
    BY <1>1 DEF Undisturbed

\* A step of one call that writes no restaurant and is no answer, except to a request for
\* the list, keeps the invariant when the handler has read what it must.
LEMMA QuietMove ==
    ASSUME IInv, NEW c \in Calls, Moves(c), TypeOK',
           restaurant' = restaurant, renamed' = renamed,
           call'[c].pc = "done" => call[c].request.op = "list",
           ForRow(c) /\ call'[c].pc \in {"found", "removed", "stored"} =>
               call'[c].read \in Row /\ (Target(c) \in Calls => Told(Target(c), "create")),
           call[c].request.op = "list" /\ call'[c].pc = "listed" =>
               call'[c].filler = c /\ AsOf(call'[c].list, c),
           Begun(c) \/ call'[c].pc = "called",
           call[c].request.op = "list" /\ call'[c].pc = "done" =>
               /\ call'[c].filler \in Calls /\ Begun(call'[c].filler)
               /\ AsOf(call'[c].list, call'[c].filler),
           entry' # NoRow =>
               entry'.filler \in Calls /\ Begun(entry'.filler) /\ AsOf(entry'.list, entry'.filler),
           call[c].request.op = "create" /\ call'[c].pc = "found" =>
               \A r \in Old \cup call[c].before : Exists(r) => restaurant[r].name # call[c].request.name,
           call[c].request.op = "update" /\ call'[c].pc = "found" =>
               Exists(Target(c)) /\ call'[c].read = restaurant[Target(c)]
    PROVE  IInv'
  <1>1. /\ \A d \in Calls : d # c => call'[d] = call[d]
        /\ \A d \in Calls : Exists(d)' <=> Exists(d)
        /\ \A d \in Calls : ForRow(d)' <=> ForRow(d)
    BY DEF Moves, Exists, ForRow
  <1>2. \A d \in Calls : Ready(d)'
    <2> SUFFICES ASSUME NEW d \in Calls PROVE Ready(d)'
      OBVIOUS
    <2>1. Ready(d) /\ (call[d].before \subseteq {e \in Calls : Ended(e)})'
      BY Stable DEF IInv
    <2>2. CASE d # c
      <3>1. /\ call'[d] = call[d] /\ Target(d)' = Target(d)
            /\ Target(d) \in Calls /\ Told(Target(d), "create") => Told(Target(d), "create")'
            /\ DeleteBegun(d) => DeleteBegun(d)'
        BY <2>2, Stable DEF Moves
      <3>2. \A op : Told(d, op)' <=> Told(d, op)
        BY <3>1 DEF Told, At
      <3> QED
        BY <1>1, <2>1, <3>1, <3>2 DEF Ready, Exists
    <2>3. CASE d = c
      <3>1. Target(c)' = Target(c) /\ ~Told(c, "create")' /\ ~Told(c, "delete")'
        BY Stable DEF Told, At
      <3>2. Target(c) \in Calls /\ Told(Target(c), "create") => Told(Target(c), "create")'
        BY Stable
      <3>3. ForRow(c) => call'[c].pc # "done"
        BY DEF ForRow
      <3> QED
        BY <1>1, <2>1, <2>3, <3>1, <3>2, <3>3 DEF Ready
    <2> QED
      BY <2>2, <2>3
  <1>3. \A d \in Calls : Listed(d)'
    <2> SUFFICES ASSUME NEW d \in Calls PROVE Listed(d)'
      OBVIOUS
    <2>1. CASE d # c
      <3>1. /\ call'[d] = call[d] /\ Listed(d)
            /\ At(d, "list", "listed") => Begun(d)
        BY <2>1 DEF IInv, Moves, At, Begun
      <3>2. At(d, "list", "listed")' => call'[d].filler = d /\ AsOf(call[d].list, d)'
        BY <3>1, AsOfStable DEF Listed, At
      <3>3. Told(d, "list")' => /\ call'[d].filler \in Calls /\ Begun(call[d].filler)'
                                /\ AsOf(call[d].list, call[d].filler)'
        BY <3>1, AsOfStable, Stable DEF Listed, Told, At
      <3> QED
        BY <3>1, <3>2, <3>3 DEF Listed
    <2>2. CASE d = c
      <3>1. call'[c].request = call[c].request
        BY DEF Moves
      <3>2. At(c, "list", "listed")' => call'[c].filler = c /\ AsOf(call[c].list, c)'
        BY <3>1, AsOfStable DEF At
      <3>3. Told(c, "list")' => /\ call'[c].filler \in Calls /\ Begun(call[c].filler)'
                                /\ AsOf(call[c].list, call[c].filler)'
        BY <3>1, AsOfStable, Stable DEF Told, At
      <3> QED
        BY <2>2, <3>2, <3>3 DEF Listed
    <2> QED
      BY <2>1, <2>2
  <1>4. EntryListed'
    BY AsOfStable, Stable DEF EntryListed
  <1>5. RowsOfCalls'
    BY <1>1, Stable DEF IInv, RowsOfCalls
  <1>6. \A d \in Calls : NameFree(d)'
    <2> SUFFICES ASSUME NEW d \in Calls, At(d, "create", "found")',
                        NEW r \in Old \cup call'[d].before, Exists(r)', r \notin renamed
                 PROVE  restaurant[r].name # call'[d].request.name
      BY DEF NameFree
    <2>1. CASE d # c
      BY <1>1, <2>1 DEF IInv, NameFree, At, Exists
    <2>2. CASE d = c
      <3>1. Begun(c) /\ call'[c].before = call[c].before /\ call'[c].request = call[c].request
        BY <2>2, Stable DEF At
      <3> QED
        BY <2>2, <3>1 DEF At, Exists
    <2> QED
      BY <2>1, <2>2
  <1>7. NamesUnique'
    <2> SUFFICES ASSUME NEW r \in Restaurants, NEW q \in Restaurants, r # q, Exists(r),
                        Exists(q), {r, q} \cap renamed = {}, restaurant[r].name = restaurant[q].name
                 PROVE  r \in Calls /\ q \in Calls /\ Overlap(r, q)'
      BY DEF NamesUnique, Exists
    <2>1. r \in Calls /\ q \in Calls /\ Overlap(r, q)
      BY DEF IInv, NamesUnique
    <2>2. Begun(r) /\ Begun(q)
      BY <2>1, Stable DEF IInv, RowsOfCalls
    <2> QED
      BY <2>1, <2>2, Stable DEF Overlap
  <1>8. \A d \in Calls : StatusKeptFor(d)'
    <2> SUFFICES ASSUME NEW d \in Calls, Told(d, "setStatus")', Exists(Target(d))',
                        Undisturbed(d)'
                 PROVE  restaurant[Target(d)].status = call[d].request.status
      BY Stable DEF StatusKeptFor
    <2>1. d # c /\ Told(d, "setStatus")
      BY <1>1 DEF Told, At, Moves
    <2>2. Begun(d) /\ Target(d)' = Target(d)
      BY <2>1, Stable
    <2>3. Exists(Target(d)) /\ Undisturbed(d)
      BY <2>2, UndisturbedStable DEF Exists
    <2> QED
      BY <2>1, <2>3 DEF IInv, StatusKeptFor
  <1>9. \A d \in Calls : ReadKept(d)'
    <2> SUFFICES ASSUME NEW d \in Calls, At(d, "update", "found")',
                        call'[d].request.status = Absent, NEW e \in call'[d].before,
                        Told(e, "setStatus")', Target(e)' = Target(d)', Undisturbed(e)'
                 PROVE  call'[d].read.status = call'[e].request.status
      BY DEF ReadKept
    <2>1. e \in Calls
      BY Stable
    <2>2. e # c /\ Told(e, "setStatus") /\ call'[e] = call[e]
      BY <1>1, <2>1 DEF Told, At, Moves
    <2>3. Begun(e) /\ Undisturbed(e) /\ Target(e) = Target(d)
      BY <2>1, <2>2, Stable, UndisturbedStable
    <2>4. CASE d # c
      BY <1>1, <2>2, <2>3, <2>4 DEF IInv, ReadKept, At
    <2>5. CASE d = c
      <3>1. Exists(Target(c)) /\ call'[c].read = restaurant[Target(c)]
        BY <2>5 DEF At, Moves
      <3> QED
        BY <2>1, <2>2, <2>3, <2>5, <3>1 DEF IInv, StatusKeptFor
    <2> QED
      BY <2>4, <2>5
  <1> QED
    BY <1>2, <1>3, <1>4, <1>5, <1>6, <1>7, <1>8, <1>9 DEF IInv

LEMMA MovesTo ==
    ASSUME TypeOK, NEW c \in Calls, NEW h \in Handler, call' = [call EXCEPT ![c] = h],
           h.request = call[c].request, h.pc # "idle", ~Ended(c), call[c].pc # "idle",
           h.before = call[c].before
    PROVE  Moves(c) /\ call'[c] = h
  BY DEF TypeOK, Moves

LEMMA GoToMoves ==
    ASSUME TypeOK, NEW c \in Calls, NEW pc \in Running \cup {"done", "failed"}, GoTo(c, pc),
           InFlight(c)
    PROVE  /\ Moves(c) /\ call'[c].pc = pc /\ call'[c].read = call[c].read
           /\ call'[c].list = call[c].list /\ call'[c].filler = call[c].filler
  <1> DEFINE h == [call[c] EXCEPT !.pc = pc]
  <1>1. /\ call[c] \in Handler /\ call' = [call EXCEPT ![c] = h] /\ ~Ended(c)
        /\ call[c].pc # "idle"
    BY DEF TypeOK, GoTo, InFlight, Running, Ended
  <1>2. /\ h \in Handler /\ h.request = call[c].request /\ h.pc = pc /\ h.pc # "idle"
        /\ h.before = call[c].before /\ h.read = call[c].read /\ h.list = call[c].list
        /\ h.filler = call[c].filler
    BY <1>1 DEF Handler, Running
  <1> HIDE DEF h
  <1> QED
    BY <1>1, <1>2, MovesTo

LEMMA QuietSteps ==
    ASSUME IInv, NEW c \in Calls,
           \/ Call(c) \/ Fail(c) \/ FindName(c) \/ FindRow(c) \/ RemoveOldFile(c)
           \/ StoreFile(c) \/ GetEntry(c) \/ ReadList(c) \/ SetEntry(c)
    PROVE  IInv'
  <1>1. /\ TypeOK /\ call \in [Calls -> Handler] /\ call[c] \in Handler /\ Ready(c)
        /\ restaurant' = restaurant /\ renamed' = renamed
    BY DEF IInv, TypeOK, Call, Fail, FindName, FindRow, RemoveOldFile, StoreFile, GetEntry,
           ReadList, SetEntry
  <1>2. entry # NoRow =>
           /\ entry.list \in SUBSET Restaurants /\ entry.filler \in Calls
           /\ Begun(entry.filler) /\ AsOf(entry.list, entry.filler)
    BY <1>1 DEF IInv, EntryListed, TypeOK
  <1>3. CASE Call(c)
    <2> DEFINE h == [call[c] EXCEPT !.pc = "called", !.before = {d \in Calls : Ended(d)}]
    <2>1. /\ call' = [call EXCEPT ![c] = h] /\ call[c].pc = "idle"
          /\ files' = files /\ entry' = entry
      BY <1>3 DEF Call
    <2>2. h \in Handler /\ h.pc = "called" /\ h.request = call[c].request
          /\ h.before = {d \in Calls : Ended(d)}
      BY <1>1 DEF Handler, Running
    <2> HIDE DEF h
    <2>3. call'[c] = h /\ Moves(c)
      BY <1>1, <2>1, <2>2 DEF Moves, Ended
    <2>4. TypeOK'
      BY <1>1, <2>1, <2>3 DEF TypeOK, Moves
    <2> QED
      BY <1>1, <1>2, <2>1, <2>2, <2>3, <2>4, QuietMove
  <1>4. CASE Fail(c)
    <2> DEFINE h == [call[c] EXCEPT !.pc = "failed", !.read = NoRow, !.list = {}, !.filler = NoRow]
    <2>1. /\ call' = [call EXCEPT ![c] = h] /\ InFlight(c)
          /\ files' = files /\ entry' = entry
      BY <1>4 DEF Fail
    <2>2. h \in Handler /\ h.pc = "failed" /\ h.request = call[c].request
          /\ h.before = call[c].before
      BY <1>1 DEF Handler, Running
    <2> HIDE DEF h
    <2>3. call'[c] = h /\ Moves(c) /\ Begun(c)
      BY <1>1, <2>1, <2>2, MovesTo DEF Ended, InFlight, Running, Begun
    <2>4. TypeOK'
      BY <1>1, <2>1, <2>3 DEF TypeOK, Moves
    <2> QED
      BY <1>1, <1>2, <2>1, <2>2, <2>3, <2>4, QuietMove
  <1>5. CASE FindName(c)
    <2>1. /\ files' = files /\ entry' = entry /\ call[c].request.op = "create"
          /\ InFlight(c) /\ Begun(c)
      BY <1>5 DEF FindName, At, InFlight, Running, Begun
    <2>2. \/ GoTo(c, "failed")
          \/ /\ GoTo(c, "found")
             /\ \A r \in Restaurants : Exists(r) => restaurant[r].name # call[c].request.name
      BY <1>5 DEF FindName
    <2>3. /\ Moves(c) /\ call'[c].pc \in {"found", "failed"}
          /\ call'[c].pc = "found" =>
                \A r \in Restaurants : Exists(r) => restaurant[r].name # call[c].request.name
      BY <1>1, <2>1, <2>2, GoToMoves DEF Running
    <2>4. Old \cup call[c].before \subseteq Restaurants
      BY <1>1 DEF Restaurants, Handler
    <2>5. TypeOK'
      BY <1>1, <2>1, <2>3 DEF TypeOK, Moves
    <2> QED
      BY <1>1, <1>2, <2>1, <2>3, <2>4, <2>5, QuietMove DEF ForRow
  <1>6. CASE FindRow(c)
    <2> DEFINE h == [call[c] EXCEPT !.pc = IF Exists(Target(c)) THEN "found" ELSE "failed",
                                    !.read = restaurant[Target(c)]]
    <2>1. /\ call' = [call EXCEPT ![c] = h] /\ ForRow(c) /\ InFlight(c) /\ Begun(c)
          /\ files' = files /\ entry' = entry
      BY <1>6 DEF FindRow, ForRow, InFlight, Running, Begun
    <2>2. restaurant[Target(c)] \in Row \cup {NoRow} /\ Target(c) \in Restaurants
      BY <1>1, <2>1, RequestFields DEF TypeOK
    <2>3. /\ h \in Handler /\ h.request = call[c].request
          /\ h.before = call[c].before /\ h.read = restaurant[Target(c)]
          /\ h.pc \in {"found", "failed"}
          /\ h.pc = "found" => Exists(Target(c))
      BY <1>1, <2>2 DEF Handler, Running
    <2> HIDE DEF h
    <2>4. call'[c] = h /\ Moves(c)
      BY <1>1, <2>1, <2>3, MovesTo DEF Ended, InFlight, Running
    <2>5. h.pc = "found" => h.read \in Row /\ (Target(c) \in Calls => Told(Target(c), "create"))
      BY <2>2, <2>3 DEF IInv, RowsOfCalls, Exists
    <2>6. TypeOK'
      BY <1>1, <2>1, <2>4 DEF TypeOK, Moves
    <2> QED
      BY <1>1, <1>2, <2>1, <2>3, <2>4, <2>5, <2>6, QuietMove DEF ForRow
  <1>7. CASE RemoveOldFile(c) \/ StoreFile(c)
    <2>1. /\ call[c].request.op = "upload" /\ call[c].pc \in {"found", "removed"} /\ entry' = entry
          /\ files' \in {files \ {call[c].read.image}, files \cup {c}}
          /\ GoTo(c, "removed") \/ GoTo(c, "stored")
      BY <1>7 DEF RemoveOldFile, StoreFile, At
    <2>2. InFlight(c) /\ Begun(c) /\ ForRow(c)
      BY <2>1 DEF InFlight, Running, Begun, ForRow
    <2>3. Moves(c) /\ call'[c].pc \in {"removed", "stored"} /\ call'[c].read = call[c].read
      BY <1>1, <2>1, <2>2, GoToMoves DEF Running
    <2>4. files' \subseteq Files
      BY <1>1, <2>1 DEF TypeOK, Files, Restaurants
    <2>5. TypeOK'
      BY <1>1, <2>1, <2>3, <2>4 DEF TypeOK, Moves
    <2>6. call[c].read \in Row /\ (Target(c) \in Calls => Told(Target(c), "create"))
      BY <1>1, <2>1, <2>2 DEF Ready
    <2> QED
      BY <1>1, <1>2, <2>1, <2>2, <2>3, <2>5, <2>6, QuietMove
  <1>8. CASE GetEntry(c)
    <2>1. /\ call[c].request.op = "list" /\ InFlight(c) /\ Begun(c)
          /\ files' = files /\ entry' = entry
      BY <1>8 DEF GetEntry, At, InFlight, Running, Begun
    <2>2. CASE entry = NoRow
      <3>1. Moves(c) /\ call'[c].pc = "missed"
        BY <1>1, <1>8, <2>1, <2>2, GoToMoves DEF GetEntry, Running
      <3>2. TypeOK'
        BY <1>1, <2>1, <3>1 DEF TypeOK, Moves
      <3> QED
        BY <1>1, <2>1, <2>2, <3>1, <3>2, QuietMove DEF ForRow
    <2>3. CASE entry # NoRow
      <3> DEFINE h == [call[c] EXCEPT !.pc = "done", !.list = entry.list, !.filler = entry.filler]
      <3>1. call' = [call EXCEPT ![c] = h]
        BY <1>8, <2>3 DEF GetEntry, Answer
      <3>2. /\ h \in Handler /\ h.request = call[c].request /\ h.pc = "done"
            /\ h.before = call[c].before /\ h.list = entry.list /\ h.filler = entry.filler
        BY <1>1, <1>2, <2>3 DEF Handler
      <3> HIDE DEF h
      <3>3. call'[c] = h /\ Moves(c)
        BY <1>1, <2>1, <3>1, <3>2, MovesTo DEF Ended, InFlight, Running
      <3>4. TypeOK'
        BY <1>1, <2>1, <3>3 DEF TypeOK, Moves
      <3> QED
        BY <1>1, <1>2, <2>1, <2>3, <3>2, <3>3, <3>4, QuietMove DEF ForRow
    <2> QED
      BY <2>2, <2>3
  <1>9. CASE ReadList(c)
    <2> DEFINE all == {r \in Restaurants : Exists(r)}
               h   == [call[c] EXCEPT !.pc = "listed", !.filler = c, !.list = all]
    <2>1. /\ call' = [call EXCEPT ![c] = h] /\ call[c].request.op = "list"
          /\ InFlight(c) /\ Begun(c) /\ files' = files /\ entry' = entry
      BY <1>9 DEF ReadList, At, InFlight, Running, Begun
    <2>2. all \in SUBSET Restaurants
      OBVIOUS
    <2>3. AsOf(all, c)
      <3> SUFFICES ASSUME NEW d \in call[c].before
                   PROVE  /\ Told(d, "create") => d \in all \/ DeleteBegun(d)
                          /\ Told(d, "delete") => Target(d) \notin all
        BY DEF AsOf, DeleteBegun
      <3>1. d \in Calls /\ d \in Restaurants /\ Ready(d)
        BY <1>1 DEF IInv, Handler, Restaurants
      <3> QED
        BY <3>1 DEF Ready
    <2> HIDE DEF all
    <2>4. /\ h \in Handler /\ h.request = call[c].request /\ h.pc = "listed"
          /\ h.before = call[c].before /\ h.list = all /\ h.filler = c
      BY <1>1, <2>2 DEF Handler, Running
    <2> HIDE DEF h
    <2>5. call'[c] = h /\ Moves(c)
      BY <1>1, <2>1, <2>4, MovesTo DEF Ended, InFlight, Running
    <2>6. TypeOK'
      BY <1>1, <2>1, <2>5 DEF TypeOK, Moves
    <2> QED
      BY <1>1, <1>2, <2>1, <2>3, <2>4, <2>5, <2>6, QuietMove DEF ForRow
  <1>10. CASE SetEntry(c)
    <2>1. /\ At(c, "list", "listed") /\ InFlight(c) /\ Begun(c) /\ files' = files
          /\ entry' = [list |-> call[c].list, filler |-> c] /\ GoTo(c, "done")
      BY <1>10 DEF SetEntry, At, InFlight, Running, Begun
    <2>2. /\ Moves(c) /\ call'[c].pc = "done" /\ call'[c].list = call[c].list
          /\ call'[c].filler = call[c].filler
      BY <1>1, <2>1, GoToMoves
    <2>3. call[c].list \in SUBSET Restaurants /\ AsOf(call[c].list, c) /\ call[c].filler = c
      BY <1>1, <2>1 DEF IInv, Listed, Handler
    <2>4. TypeOK'
      BY <1>1, <2>1, <2>2, <2>3 DEF TypeOK, Moves
    <2> QED
      BY <1>1, <2>1, <2>2, <2>3, <2>4, QuietMove DEF ForRow, At
  <1> QED
    BY <1>3, <1>4, <1>5, <1>6, <1>7, <1>8, <1>9, <1>10

-----------------------------------------------------------------------------
LEMMA ListsStay ==
    ASSUME IInv, NEW c \in Calls, Moves(c), entry' = entry,
           call'[c].pc = "done", call[c].request.op # "list"
    PROVE  EntryListed' /\ \A d \in Calls : Listed(d)'
  <1>1. EntryListed'
    <2>1. entry # NoRow => /\ entry.filler \in Calls /\ Begun(entry.filler)
                           /\ AsOf(entry.list, entry.filler)
      BY DEF IInv, EntryListed, TypeOK
    <2> QED
      BY <2>1, AsOfStable, Stable DEF EntryListed
  <1>2. ASSUME NEW d \in Calls PROVE Listed(d)'
    <2>1. CASE d = c
      BY <2>1 DEF Listed, At, Told, Moves
    <2>2. CASE d # c
      <3>1. /\ call'[d] = call[d] /\ Listed(d)
            /\ At(d, "list", "listed") => Begun(d)
        BY <2>2 DEF IInv, Moves, At, Begun
      <3>2. At(d, "list", "listed")' => call'[d].filler = d /\ AsOf(call[d].list, d)'
        BY <3>1, AsOfStable DEF Listed, At
      <3>3. Told(d, "list")' => /\ call'[d].filler \in Calls /\ Begun(call[d].filler)'
                                /\ AsOf(call[d].list, call[d].filler)'
        BY <3>1, AsOfStable, Stable DEF Listed, Told, At
      <3> QED
        BY <3>1, <3>2, <3>3 DEF Listed
    <2> QED
      BY <2>1, <2>2
  <1> QED
    BY <1>1, <1>2

LEMMA InsertStep ==
    ASSUME IInv, NEW c \in Calls, Insert(c)
    PROVE  IInv'
  <1> DEFINE row == [name |-> call[c].request.name, status |-> "OPEN", image |-> NoImage]
  <1>1. /\ restaurant' = [restaurant EXCEPT ![c] = row]
        /\ files' = files /\ entry' = entry /\ renamed' = renamed
        /\ At(c, "create", "found") /\ InFlight(c) /\ ~Ended(c) /\ GoTo(c, "done")
    BY DEF Insert, At, InFlight, Running, Ended
  <1>2. Moves(c) /\ call'[c].pc = "done" /\ call[c].request.op = "create"
    BY <1>1, GoToMoves DEF IInv, At
  <1>3. /\ row \in Row /\ row # NoRow /\ row.name = call[c].request.name
        /\ c \in Restaurants /\ restaurant \in [Restaurants -> Row \cup {NoRow}]
    BY <1>2, RequestFields, CatalogAssumption DEF IInv, Row, Restaurants, TypeOK
  <1> HIDE DEF row
  <1>4. /\ restaurant' \in [Restaurants -> Row \cup {NoRow}]
        /\ restaurant'[c] = row
        /\ \A r \in Restaurants : r # c => restaurant'[r] = restaurant[r]
        /\ Exists(c)' /\ \A r \in Restaurants : Exists(r) => Exists(r)'
        /\ \A r \in Restaurants : r # c => (Exists(r)' <=> Exists(r))
    BY <1>1, <1>3 DEF Exists
  <1>5. /\ \A d \in Calls : c \notin call[d].before
        /\ \A d \in Calls : d # c => call'[d] = call[d]
        /\ \A d \in Calls : ForRow(d)' <=> ForRow(d)
    BY <1>1, <1>2 DEF IInv, Ready, Moves, ForRow
  <1>6. \A d \in Calls : ForRow(d) /\ call[d].pc \in {"found", "removed", "stored", "done"}
                            => Target(d) # c /\ Target(d) \in Restaurants
    BY <1>1, RequestFields DEF IInv, Ready, Told, At, Ended
  <1>7. TypeOK'
    BY <1>1, <1>2, <1>4 DEF IInv, TypeOK, Moves
  <1>8. \A d \in Calls : Ready(d)'
    <2> SUFFICES ASSUME NEW d \in Calls PROVE Ready(d)'
      OBVIOUS
    <2>1. Ready(d) /\ (call[d].before \subseteq {e \in Calls : Ended(e)})'
      BY <1>2, Stable DEF IInv
    <2>2. CASE d # c
      <3>1. /\ call'[d] = call[d] /\ Target(d)' = Target(d) /\ d \in Restaurants
            /\ Target(d) \in Calls /\ Told(Target(d), "create") => Told(Target(d), "create")'
            /\ DeleteBegun(d) => DeleteBegun(d)'
        BY <1>2, <1>5, <2>2, Stable DEF Restaurants
      <3>2. \A op : Told(d, op)' <=> Told(d, op)
        BY <3>1 DEF Told, At
      <3>3. Told(d, "delete") => Target(d) # c /\ Target(d) \in Restaurants
        BY <1>6 DEF Told, At, ForRow
      <3> QED
        BY <1>4, <1>5, <2>1, <2>2, <3>1, <3>2, <3>3 DEF Ready
    <2>3. CASE d = c
      BY <1>2, <1>4, <1>5, <2>1, <2>3 DEF Ready, ForRow, Told, At, Moves
    <2> QED
      BY <2>2, <2>3
  <1>9. EntryListed' /\ \A d \in Calls : Listed(d)'
    BY <1>1, <1>2, ListsStay
  <1>10. RowsOfCalls'
    <2>1. Told(c, "create")'
      BY <1>2 DEF Told, At, Moves
    <2> QED
      BY <1>4, <2>1, Stable, <1>2 DEF IInv, RowsOfCalls, Restaurants
  <1>11. \A d \in Calls : NameFree(d)'
    <2> SUFFICES ASSUME NEW d \in Calls, At(d, "create", "found")',
                        NEW r \in Old \cup call'[d].before, Exists(r)', r \notin renamed
                 PROVE  restaurant'[r].name # call'[d].request.name
      BY <1>1 DEF NameFree
    <2>1. d # c /\ call'[d] = call[d]
      BY <1>2, <1>5 DEF At
    <2>2. r # c /\ r \in Restaurants
      BY <1>2, <1>5, <2>1, Stable, CatalogAssumption DEF Restaurants
    <2> QED
      BY <1>4, <2>1, <2>2 DEF IInv, NameFree, At
  <1>12. NamesUnique'
    <2>1. ASSUME NEW q \in Restaurants, q # c, Exists(q), q \notin renamed,
                 restaurant[q].name = call[c].request.name
          PROVE  q \in Calls /\ Overlap(c, q)' /\ Overlap(q, c)'
      <3>1. q \notin Old \cup call[c].before
        BY <1>1, <2>1 DEF IInv, NameFree
      <3>2. q \in Calls /\ Begun(q) /\ Begun(c)
        BY <1>1, <2>1, <3>1, <1>2, Stable DEF Restaurants, IInv, RowsOfCalls, Begun, At
      <3> QED
        BY <1>2, <1>5, <3>1, <3>2, Stable DEF Overlap
    <2> SUFFICES ASSUME NEW r \in Restaurants, NEW q \in Restaurants, r # q, Exists(r)',
                        Exists(q)', {r, q} \cap renamed = {}, restaurant'[r].name = restaurant'[q].name
                 PROVE  r \in Calls /\ q \in Calls /\ Overlap(r, q)'
      BY <1>1 DEF NamesUnique
    <2>2. CASE r = c
      BY <1>3, <1>4, <2>1, <2>2
    <2>3. CASE q = c
      BY <1>3, <1>4, <2>1, <2>3
    <2>4. CASE r # c /\ q # c
      <3>1. r \in Calls /\ q \in Calls /\ Overlap(r, q)
        BY <1>4, <2>4 DEF IInv, NamesUnique
      <3>2. Begun(r) /\ Begun(q)
        BY <1>2, <1>4, <2>4, <3>1, Stable DEF IInv, RowsOfCalls
      <3> QED
        BY <1>2, <3>1, <3>2, Stable DEF Overlap
    <2> QED
      BY <2>2, <2>3, <2>4
  <1>13. \A d \in Calls : StatusKeptFor(d)'
    <2> SUFFICES ASSUME NEW d \in Calls, Told(d, "setStatus")', Exists(Target(d))',
                        Undisturbed(d)'
                 PROVE  (restaurant[Target(d)].status = call[d].request.status)'
      BY DEF StatusKeptFor
    <2>1. d # c /\ Told(d, "setStatus") /\ Begun(d) /\ call'[d] = call[d]
      BY <1>2, <1>5 DEF Told, At, Moves, Begun
    <2>2. Target(d) # c /\ Target(d) \in Restaurants /\ Target(d)' = Target(d)
      BY <1>2, <1>6, <2>1, Stable DEF Told, At, ForRow
    <2>3. Exists(Target(d)) /\ Undisturbed(d) /\ restaurant'[Target(d)] = restaurant[Target(d)]
      BY <1>2, <1>4, <2>1, <2>2, UndisturbedStable
    <2> QED
      BY <2>1, <2>2, <2>3 DEF IInv, StatusKeptFor
  <1>14. \A d \in Calls : ReadKept(d)'
    <2> SUFFICES ASSUME NEW d \in Calls, At(d, "update", "found")',
                        call'[d].request.status = Absent, NEW e \in call'[d].before,
                        Told(e, "setStatus")', Target(e)' = Target(d)', Undisturbed(e)'
                 PROVE  call'[d].read.status = call'[e].request.status
      BY DEF ReadKept
    <2>1. d # c /\ call'[d] = call[d] /\ e \in Calls
      BY <1>2, <1>5, Stable DEF At
    <2>2. e # c /\ Told(e, "setStatus") /\ call'[e] = call[e]
      BY <1>2, <1>5, <2>1 DEF Told, At, Moves
    <2>3. Begun(e) /\ Undisturbed(e) /\ Target(e) = Target(d)
      BY <1>2, <2>1, <2>2, Stable, UndisturbedStable
    <2> QED
      BY <2>1, <2>2, <2>3 DEF IInv, ReadKept, At
  <1> QED
    BY <1>7, <1>8, <1>9, <1>10, <1>11, <1>12, <1>13, <1>14 DEF IInv

\* The last statement of a handler for one row: it keeps the invariant when it writes a
\* status that was asked for or read, and another name only as a renaming.
LEMMA WriteStep ==
    ASSUME IInv, NEW c \in Calls, NEW row \in Row \cup {NoRow}, Write(c, row),
           ForRow(c), call[c].pc \in {"found", "stored"},
           call[c].request.op = "update" => call[c].pc = "found",
           row = NoRow <=> call[c].request.op = "delete",
           renamed' \in {renamed, renamed \cup {Target(c)}},
           row # NoRow /\ row.name # restaurant[Target(c)].name => Target(c) \in renamed',
           row # NoRow =>
               \/ call[c].request.op = "setStatus" /\ row.status = call[c].request.status
               \/ call[c].request.op = "update" /\ (call[c].request.status = Absent
                                                      => row.status = call[c].read.status)
               \/ /\ call[c].request.op \notin {"setStatus", "update"}
                  /\ row.status = restaurant[Target(c)].status
    PROVE  IInv'
  <1> DEFINE t == Target(c)
             h == [call[c] EXCEPT !.pc = "done", !.read = NoRow]
  <1>1. /\ restaurant' = [restaurant EXCEPT ![t] = row]
        /\ Exists(t) /\ files' = files /\ entry' = entry /\ call' = [call EXCEPT ![c] = h]
        /\ ~Ended(c) /\ call[c].pc # "idle" /\ Begun(c)
    BY DEF Write, Finish, Ended, Begun
  <1>2. call[c] \in Handler /\ t \in Restaurants
        /\ restaurant \in [Restaurants -> Row \cup {NoRow}]
    BY RequestFields DEF IInv, TypeOK
  <1>3. Moves(c) /\ call'[c].pc = "done"
    <2>1. /\ h \in Handler /\ h.request = call[c].request /\ h.pc = "done"
          /\ h.before = call[c].before
      BY <1>2 DEF Handler
    <2> HIDE DEF h
    <2> QED
      BY <1>1, <2>1, MovesTo DEF IInv
  <1> HIDE DEF t
  <1>4. /\ restaurant' \in [Restaurants -> Row \cup {NoRow}]
        /\ restaurant'[t] = row
        /\ \A r \in Restaurants : r # t => restaurant'[r] = restaurant[r]
        /\ \A r \in Restaurants : Exists(r)' => Exists(r)
        /\ \A r \in Restaurants : r # t => (Exists(r)' <=> Exists(r))
        /\ \A r \in Restaurants : r = t => (Exists(r)' <=> row # NoRow)
    BY <1>1, <1>2 DEF Exists
  <1>5. /\ \A d \in Calls : c \notin call[d].before
        /\ \A d \in Calls : d # c => call'[d] = call[d]
        /\ \A d \in Calls : ForRow(d)' <=> ForRow(d)
    BY <1>1, <1>3 DEF IInv, Ready, Moves, ForRow
  <1>6. TypeOK'
    BY <1>1, <1>2, <1>3, <1>4 DEF IInv, TypeOK, Moves, t
  <1>7. \A r : r = t /\ call[c].request.op = "delete" => DeleteBegun(r)'
    BY <1>1, <1>3, Stable DEF DeleteBegun, At, t
  <1>8. \A d \in Calls : Ready(d)'
    <2> SUFFICES ASSUME NEW d \in Calls PROVE Ready(d)'
      OBVIOUS
    <2>1. Ready(d) /\ (call[d].before \subseteq {e \in Calls : Ended(e)})'
      BY <1>3, Stable DEF IInv
    <2>2. /\ Target(d)' = Target(d) /\ d \in Restaurants
          /\ Target(d) \in Calls /\ Told(Target(d), "create") => Told(Target(d), "create")'
          /\ DeleteBegun(d) => DeleteBegun(d)'
      BY <1>3, Stable DEF Restaurants
    <2>3. Exists(d) => Exists(d)' \/ DeleteBegun(d)'
      BY <1>4, <1>7, <2>2
    <2>4. CASE d # c
      <3>1. call'[d] = call[d]
        BY <1>5, <2>4
      <3>2. \A op : Told(d, op)' <=> Told(d, op)
        BY <3>1 DEF Told, At
      <3>3. Told(d, "delete") => Target(d) \in Restaurants
        BY RequestFields DEF IInv, Told, At, ForRow
      <3> QED
        BY <1>4, <1>5, <2>1, <2>2, <2>3, <3>1, <3>2, <3>3 DEF Ready
    <2>5. CASE d = c
      <3>1. /\ ~Told(c, "create")' /\ (Told(c, "delete")' => ~Exists(Target(c))')
            /\ Target(c) \in Calls => Told(Target(c), "create")
        <4>1. /\ ~Told(c, "create")' /\ (Told(c, "delete")' => row = NoRow)
              /\ Target(c) \in Calls => Told(Target(c), "create")
          BY <1>3, <2>1, <2>5 DEF ForRow, Told, At, Moves, Ready
        <4>2. row = NoRow => ~Exists(Target(c))'
          BY <1>2, <1>4, <2>2, <2>5 DEF t, Exists
        <4> QED
          BY <4>1, <4>2
      <3> QED
        BY <1>3, <2>1, <2>2, <2>5, <3>1 DEF Ready
    <2> QED
      BY <2>4, <2>5
  <1>9. EntryListed' /\ \A d \in Calls : Listed(d)'
    BY <1>1, <1>3, ListsStay DEF ForRow
  <1>10. RowsOfCalls'
    BY <1>3, <1>4, Stable DEF IInv, RowsOfCalls, Restaurants
  <1>11. \A r \in Restaurants : Exists(r)' /\ r \notin renamed' =>
             Exists(r) /\ r \notin renamed /\ restaurant'[r].name = restaurant[r].name
    <2> SUFFICES ASSUME NEW r \in Restaurants, Exists(r)', r \notin renamed'
                 PROVE  Exists(r) /\ r \notin renamed /\ restaurant'[r].name = restaurant[r].name
      OBVIOUS
    <2>1. CASE r = t
      BY <1>4, <2>1 DEF t
    <2>2. CASE r # t
      BY <1>4, <2>2
    <2> QED
      BY <2>1, <2>2
  <1>12. \A d \in Calls : NameFree(d)'
    <2> SUFFICES ASSUME NEW d \in Calls, At(d, "create", "found")',
                        NEW r \in Old \cup call'[d].before, Exists(r)', r \notin renamed'
                 PROVE  restaurant'[r].name # call'[d].request.name
      BY DEF NameFree
    <2>1. d # c /\ call'[d] = call[d]
      BY <1>3, <1>5 DEF At
    <2>2. r \in Restaurants
      BY <1>3, Stable DEF Restaurants
    <2> QED
      BY <1>11, <2>1, <2>2 DEF IInv, NameFree, At
  <1>13. NamesUnique'
    <2> SUFFICES ASSUME NEW r \in Restaurants, NEW q \in Restaurants, r # q, Exists(r)',
                        Exists(q)', {r, q} \cap renamed' = {}, restaurant'[r].name = restaurant'[q].name
                 PROVE  r \in Calls /\ q \in Calls /\ Overlap(r, q)'
      BY DEF NamesUnique
    <2>1. r \in Calls /\ q \in Calls /\ Overlap(r, q)
      BY <1>11 DEF IInv, NamesUnique
    <2>2. Begun(r) /\ Begun(q)
      BY <1>3, <1>11, <2>1, Stable DEF IInv, RowsOfCalls
    <2> QED
      BY <1>3, <2>1, <2>2, Stable DEF Overlap
  <1>14. \A d \in Calls : StatusKeptFor(d)'
    <2> SUFFICES ASSUME NEW d \in Calls, Told(d, "setStatus")', Exists(Target(d))',
                        Undisturbed(d)'
                 PROVE  restaurant'[Target(d)].status = call[d].request.status
      BY <1>3, Stable DEF StatusKeptFor
    <2>1. /\ Target(d) \in Restaurants /\ Target(d)' = Target(d)
          /\ restaurant'[Target(d)] # NoRow
      <3>1. call[d].request.op = "setStatus" /\ Target(d)' = Target(d)
        BY <1>3, Stable DEF Told, At
      <3> QED
        BY <3>1, RequestFields DEF IInv, ForRow, Exists
    <2>2. CASE d = c
      BY <1>3, <1>4, <2>1, <2>2 DEF Told, At, Moves, t
    <2>3. CASE d # c
      <3>1. /\ Told(d, "setStatus") /\ Begun(d) /\ call'[d] = call[d] /\ Exists(Target(d))
        BY <1>4, <1>5, <2>1, <2>3 DEF Told, At, Begun
      <3>2. Undisturbed(d)
        BY <1>3, <3>1, UndisturbedStable
      <3>3. restaurant[Target(d)].status = call[d].request.status
        BY <3>1, <3>2 DEF IInv, StatusKeptFor
      <3>4. CASE Target(d) # t
        BY <1>4, <2>1, <3>3, <3>4
      <3>5. CASE Target(d) = t
        <4>1. row # NoRow /\ restaurant'[Target(d)] = row
          BY <1>4, <2>1, <3>5
        <4>2. call[c].request.op \in {"setStatus", "update"} =>
                 call[c].request.op = "update" /\ call[c].request.status = Absent /\ d \in call[c].before
          BY <1>1, <1>5, <2>3, <3>2, <3>5 DEF Undisturbed, t
        <4>3. CASE call[c].request.op = "update"
          <5>1. At(c, "update", "found") => call[c].read.status = call[d].request.status
            BY <3>1, <3>2, <3>5, <4>2, <4>3 DEF IInv, ReadKept, t
          <5> QED
            BY <4>1, <4>2, <4>3, <5>1 DEF At
        <4>4. CASE call[c].request.op # "update"
          BY <3>3, <3>5, <4>1, <4>2, <4>4 DEF t
        <4> QED
          BY <4>3, <4>4
      <3> QED
        BY <3>4, <3>5
    <2> QED
      BY <2>2, <2>3
  <1>15. \A d \in Calls : ReadKept(d)'
    <2> SUFFICES ASSUME NEW d \in Calls, At(d, "update", "found")',
                        call'[d].request.status = Absent, NEW e \in call'[d].before,
                        Told(e, "setStatus")', Target(e)' = Target(d)', Undisturbed(e)'
                 PROVE  call'[d].read.status = call'[e].request.status
      BY DEF ReadKept
    <2>1. d # c /\ call'[d] = call[d] /\ e \in Calls
      BY <1>3, <1>5, Stable DEF At
    <2>2. e # c
      BY <1>5, <2>1
    <2>3. Told(e, "setStatus") /\ call'[e] = call[e]
      BY <1>5, <2>1, <2>2 DEF Told, At
    <2>4. Begun(e) /\ Undisturbed(e) /\ Target(e) = Target(d)
      BY <1>3, <2>1, <2>3, Stable, UndisturbedStable
    <2> QED
      BY <2>1, <2>3, <2>4 DEF IInv, ReadKept, At
  <1> QED
    BY <1>6, <1>8, <1>9, <1>10, <1>12, <1>13, <1>14, <1>15 DEF IInv

LEMMA WriteSteps ==
    ASSUME IInv, NEW c \in Calls,
           SetStatus(c) \/ UpdateRestaurant(c) \/ Delete(c) \/ SetImage(c)
    PROVE  IInv'
  <1> DEFINE t == Target(c)
  <1>1. TypeOK /\ Ready(c) /\ ForRow(c) /\ Exists(t)
    BY DEF IInv, SetStatus, UpdateRestaurant, Update, Delete, SetImage, Write, At, ForRow
  <1>2. t \in Restaurants /\ restaurant[t] \in Row
    BY <1>1, RequestFields DEF TypeOK, Exists
  <1>3. CASE SetStatus(c)
    <2> DEFINE row == [restaurant[t] EXCEPT !.status = call[c].request.status]
    <2>1. /\ Write(c, row) /\ renamed' = renamed /\ At(c, "setStatus", "found")
      BY <1>3 DEF SetStatus
    <2>2. call[c].request.op = "setStatus" /\ call[c].request.status \in Statuses
      BY <1>1, <2>1, RequestFields DEF At
    <2>3. /\ row \in Row /\ row.status = call[c].request.status
          /\ row.name = restaurant[t].name
      BY <1>2, <2>2 DEF Row
    <2> HIDE DEF row
    <2>4. row # NoRow
      BY <2>3, CatalogAssumption
    <2> QED
      BY <1>1, <2>1, <2>2, <2>3, <2>4, WriteStep DEF At
  <1>4. CASE UpdateRestaurant(c)
    <2> DEFINE name   == Given(call[c].request.name, call[c].read.name)
               status == Given(call[c].request.status, call[c].read.status)
               row == [restaurant[t] EXCEPT !.name = name, !.status = status]
    <2>1. /\ Write(c, row) /\ At(c, "update", "found")
          /\ renamed' = IF row.name = restaurant[t].name THEN renamed ELSE renamed \cup {t}
      BY <1>4 DEF UpdateRestaurant, Update
    <2>2. /\ call[c].request.op = "update" /\ call[c].pc = "found" /\ call[c].read \in Row
          /\ call[c].request.name \in Names \cup {Absent}
          /\ call[c].request.status \in Statuses \cup {Absent}
      BY <1>1, <2>1, RequestFields DEF At, Ready
    <2>3. /\ name \in Names /\ status \in Statuses
          /\ call[c].request.status = Absent => status = call[c].read.status
      BY <2>2 DEF Given, Row
    <2> HIDE DEF name, status
    <2>4. row \in Row /\ row.status = status
      BY <1>2, <2>3 DEF Row
    <2> HIDE DEF row
    <2>5. row # NoRow
      BY <2>4, CatalogAssumption
    <2> QED
      BY <1>1, <2>1, <2>2, <2>3, <2>4, <2>5, WriteStep
  <1>5. CASE Delete(c)
    <2>1. Write(c, NoRow) /\ renamed' = renamed /\ At(c, "delete", "found")
      BY <1>5 DEF Delete
    <2> QED
      BY <1>1, <2>1, WriteStep DEF At
  <1>6. CASE SetImage(c)
    <2> DEFINE row == [restaurant[t] EXCEPT !.image = c]
    <2>1. Write(c, row) /\ renamed' = renamed /\ At(c, "upload", "stored")
      BY <1>6 DEF SetImage
    <2>2. /\ row \in Row /\ row.status = restaurant[t].status /\ row.name = restaurant[t].name
      BY <1>2 DEF Row, Files, Restaurants
    <2> HIDE DEF row
    <2>3. row # NoRow
      BY <2>2, CatalogAssumption
    <2> QED
      BY <1>1, <2>1, <2>2, <2>3, WriteStep DEF At
  <1> QED
    BY <1>3, <1>4, <1>5, <1>6

LEMMA NextIInv == IInv /\ [Next]_vars => IInv'
  <1> SUFFICES ASSUME IInv, [Next]_vars PROVE IInv'
    OBVIOUS
  <1>1. ASSUME NEW c \in Calls,
               \/ Call(c) \/ Fail(c) \/ FindName(c) \/ FindRow(c) \/ RemoveOldFile(c)
               \/ StoreFile(c) \/ GetEntry(c) \/ ReadList(c) \/ SetEntry(c)
        PROVE  IInv'
    BY <1>1, QuietSteps
  <1>2. ASSUME NEW c \in Calls, Insert(c) PROVE IInv'
    BY <1>2, InsertStep
  <1>3. ASSUME NEW c \in Calls,
               SetStatus(c) \/ UpdateRestaurant(c) \/ Delete(c) \/ SetImage(c)
        PROVE  IInv'
    BY <1>3, WriteSteps
  <1>4. CASE UNCHANGED vars \/ Expire
    <2>1. /\ restaurant' = restaurant /\ files' = files /\ call' = call /\ renamed' = renamed
          /\ entry' \in {entry, NoRow}
      BY <1>4 DEF vars, Expire
    <2>2. TypeOK'
      BY <2>1 DEF IInv, TypeOK
    <2>3. \A d \in Calls : Ready(d)' /\ Listed(d)'
      BY <2>1 DEF IInv, Ready, Listed, Ended, ForRow, Target, Told, At, Exists, DeleteBegun,
                  Begun, AsOf
    <2>4. EntryListed'
      BY <2>1 DEF IInv, EntryListed, AsOf, Begun, Told, At, Target
    <2>5. RowsOfCalls' /\ NamesUnique'
      BY <2>1 DEF IInv, RowsOfCalls, NamesUnique, Exists, Told, At, Overlap
    <2>6. \A d \in Calls : NameFree(d)' /\ ReadKept(d)' /\ StatusKeptFor(d)'
      BY <2>1 DEF IInv, NameFree, ReadKept, StatusKeptFor, At, Told, Exists, Target,
                  Undisturbed, Begun
    <2> QED
      BY <2>2, <2>3, <2>4, <2>5, <2>6 DEF IInv
  <1> QED
    BY <1>1, <1>2, <1>3, <1>4 DEF Next

-----------------------------------------------------------------------------
(* The images.                                                             *)

Upload(c, r) == call[c].request.op = "upload" /\ Target(c) = r

\* What the image of r may be called.
Own(r) == {r} \cup {c \in Calls : Upload(c, r)}

\* The uploads for r that have begun follow each other, and none has failed.
InTurn(r) ==
    \A c \in Calls : Upload(c, r) /\ Begun(c) =>
        /\ call[c].pc # "failed"
        /\ \A d \in Calls \ {c} : Upload(d, r) /\ Begun(d) => ~Overlap(c, d)

Changing == {"removed", "stored"}

Idle(r) == \A c \in Calls : Upload(c, r) => call[c].pc \notin Changing

Created(r) == r \in Old \/ (r \in Calls /\ Told(r, "create"))

ImageOwn(r) == Exists(r) => restaurant[r].image \in Own(r) \cup {NoImage}

ReadOwn(c) == At(c, "upload", "found") => call[c].read.image \in Own(Target(c)) \cup {NoImage}

FilesKnown ==
    \A f \in files : f \in Calls => /\ call[f].request.op = "upload"
                                    /\ Created(Target(f))

\* Between two uploads the image is the only stored file of its own; during one there is
\* none, and then the new one.
AsStored(r) ==
    Exists(r) /\ InTurn(r) =>
        /\ Idle(r) => /\ restaurant[r].image \in files \cup {NoImage}
                      /\ Own(r) \cap files \subseteq {restaurant[r].image}
        /\ \A c \in Calls : Upload(c, r) =>
              /\ call[c].pc = "found" => call[c].read.image = restaurant[r].image
              /\ call[c].pc = "removed" => Own(r) \cap files = {}
              /\ call[c].pc = "stored" => Own(r) \cap files = {c}

Images ==
    /\ \A r \in Restaurants : ImageOwn(r) /\ AsStored(r)
    /\ \A c \in Calls : ReadOwn(c)
    /\ FilesKnown

LEMMA InitImages == Init => Images
  <1> SUFFICES ASSUME Init PROVE Images
    OBVIOUS
  <1>1. \A c \in Calls : call[c].pc = "idle"
    BY DEF Init
  <1>2. \A r \in Restaurants : Exists(r) => r \in Old /\ restaurant[r].image \in {r, NoImage}
    BY DEF Init
  <1>3. files = {r \in Old : Exists(r) /\ restaurant[r].image = r}
    BY DEF Init
  <1>4. FilesKnown
    BY <1>3, CatalogAssumption DEF FilesKnown
  <1>5. ASSUME NEW r \in Restaurants PROVE ImageOwn(r) /\ AsStored(r)
    <2>1. ImageOwn(r)
      BY <1>2 DEF ImageOwn, Own
    <2>2. Exists(r) => /\ restaurant[r].image \in files \cup {NoImage}
                       /\ Own(r) \cap files \subseteq {restaurant[r].image}
      BY <1>2, <1>3, CatalogAssumption DEF Own
    <2> QED
      BY <1>1, <2>1, <2>2 DEF AsStored
  <1> QED
    BY <1>1, <1>4, <1>5 DEF Images, ReadOwn, At

LEMMA ExistsCreated ==
    ASSUME IInv
    PROVE  /\ \A r \in Restaurants : Exists(r) => Created(r)
           /\ \A c \in Calls :
                (call[c].request.op = "upload" /\ call[c].pc \in {"found", "removed", "stored"})
                => (Target(c) \in Restaurants /\ Created(Target(c)))
  <1>1. \A r \in Restaurants : Exists(r) => Created(r)
    BY DEF IInv, RowsOfCalls, Created, Restaurants
  <1>2. ASSUME NEW c \in Calls, call[c].request.op = "upload",
               call[c].pc \in {"found", "removed", "stored"}
        PROVE  Target(c) \in Restaurants /\ Created(Target(c))
    <2>1. ForRow(c) /\ Ready(c) /\ TypeOK
      BY <1>2 DEF ForRow, IInv
    <2>2. Target(c) \in Restaurants
      BY <2>1, RequestFields
    <2> QED
      BY <1>2, <2>1, <2>2 DEF Ready, Created, Restaurants
  <1> QED
    BY <1>1, <1>2

LEMMA OwnApart ==
    ASSUME NEW r \in Restaurants, NEW q \in Restaurants, Created(r), Created(q), r # q
    PROVE  Own(r) \cap Own(q) = {}
  <1>1. \A p \in Restaurants : \A s : Created(p) => ~(p \in Calls /\ Upload(p, s))
    BY CatalogAssumption DEF Created, Told, At, Upload
  <1> QED
    BY <1>1 DEF Own, Upload

LEMMA OwnFiles == ASSUME IInv, NEW r \in Restaurants PROVE NoImage \notin Own(r)
  BY CatalogAssumption DEF Own, Files, Restaurants

LEMMA OneUpload ==
    ASSUME IInv, NEW r, InTurn(r), NEW c \in Calls, NEW d \in Calls,
           Upload(c, r), Upload(d, r), InFlight(c), InFlight(d)
    PROVE  c = d
  <1>1. Begun(c) /\ Begun(d) /\ ~Ended(c) /\ ~Ended(d)
    BY DEF Begun, Ended, InFlight, Running
  <1>2. call[c].before \subseteq {e \in Calls : Ended(e)}
        /\ call[d].before \subseteq {e \in Calls : Ended(e)}
    BY DEF IInv, Ready
  <1>3. Overlap(c, d)
    BY <1>1, <1>2 DEF Overlap
  <1> QED
    BY <1>1, <1>3 DEF InTurn

\* What a step of a handler cannot change.
LEMMA ImagesStable ==
    ASSUME IInv, NEW c \in Calls, Moves(c)
    PROVE  /\ \A d \in Calls : \A r : Upload(d, r)' <=> Upload(d, r)
           /\ \A r : Own(r)' = Own(r)
           /\ \A r : InTurn(r)' => InTurn(r)
           /\ \A r : Created(r) => Created(r)'
           /\ FilesKnown /\ files' \subseteq files => FilesKnown'
  <1>1. /\ \A d \in Calls : /\ call'[d].request = call[d].request
                            /\ Target(d)' = Target(d)
                            /\ Begun(d) => Begun(d)' /\ call'[d].before = call[d].before
                            /\ Ended(d) => Ended(d)' /\ Begun(d) /\ call'[d] = call[d]
        /\ \A d \in Calls : \A op : Told(d, op) => Told(d, op)' /\ Begun(d) /\ Ended(d)
    BY Stable
  <1>2. \A d \in Calls : \A r : Upload(d, r)' <=> Upload(d, r)
    BY <1>1 DEF Upload
  <1>3. \A r : Own(r)' = Own(r)
    BY <1>2 DEF Own
  <1>4. ASSUME NEW r, InTurn(r)' PROVE InTurn(r)
    <2> SUFFICES ASSUME NEW d \in Calls, Upload(d, r), Begun(d)
                 PROVE  /\ call[d].pc # "failed"
                        /\ \A e \in Calls \ {d} : Upload(e, r) /\ Begun(e) => ~Overlap(d, e)
      BY DEF InTurn
    <2>1. call[d].pc # "failed"
      BY <1>1, <1>2, <1>4 DEF InTurn, Ended
    <2>2. \A e \in Calls \ {d} : Upload(e, r) /\ Begun(e) => ~Overlap(d, e)
      BY <1>1, <1>2, <1>4 DEF InTurn, Overlap
    <2> QED
      BY <2>1, <2>2
  <1>5. \A r : Created(r) => Created(r)'
    BY <1>1 DEF Created
  <1>6. FilesKnown /\ files' \subseteq files => FilesKnown'
    BY <1>1, <1>5 DEF FilesKnown
  <1> QED
    BY <1>2, <1>3, <1>4, <1>5, <1>6

\* A restaurant whose image the step of c is not about.
LEMMA OtherStored ==
    ASSUME IInv, Images, NEW c \in Calls, Moves(c), NEW r \in Restaurants, ~Upload(c, r),
           Own(r) \cap files' = Own(r) \cap files,
           Exists(r)' => Exists(r) /\ restaurant'[r].image = restaurant[r].image
    PROVE  ImageOwn(r)' /\ AsStored(r)'
  <1>1. /\ \A d \in Calls : \A q : Upload(d, q)' <=> Upload(d, q)
        /\ Own(r)' = Own(r) /\ (InTurn(r)' => InTurn(r))
        /\ \A d \in Calls : d # c => call'[d] = call[d]
    BY ImagesStable DEF Moves
  <1>2. ImageOwn(r) /\ AsStored(r)
    BY DEF Images
  <1>3. ImageOwn(r)'
    BY <1>1, <1>2 DEF ImageOwn
  <1>4. \A d \in Calls : Upload(d, r) => d # c /\ call'[d] = call[d]
    BY <1>1
  <1>5. Idle(r)' => Idle(r)
    BY <1>1, <1>4 DEF Idle
  <1>6. Exists(r) /\ restaurant[r].image \in files \cup {NoImage}
           => restaurant[r].image \in files' \cup {NoImage}
    BY <1>2 DEF ImageOwn
  <1>7. SUFFICES ASSUME Exists(r)', InTurn(r)'
                 PROVE  /\ Idle(r)' => /\ restaurant'[r].image \in files' \cup {NoImage}
                                       /\ Own(r) \cap files' \subseteq {restaurant'[r].image}
                        /\ \A d \in Calls : Upload(d, r) =>
                              /\ call'[d].pc = "found" => call'[d].read.image = restaurant'[r].image
                              /\ call'[d].pc = "removed" => Own(r) \cap files' = {}
                              /\ call'[d].pc = "stored" => Own(r) \cap files' = {d}
    BY <1>1, <1>3 DEF AsStored
  <1>8. /\ Exists(r) /\ InTurn(r) /\ restaurant'[r].image = restaurant[r].image
    BY <1>1, <1>7
  <1>9. Idle(r)' => /\ restaurant'[r].image \in files' \cup {NoImage}
                    /\ Own(r) \cap files' \subseteq {restaurant'[r].image}
    BY <1>2, <1>5, <1>6, <1>8 DEF AsStored
  <1>10. ASSUME NEW d \in Calls, Upload(d, r)
         PROVE  /\ call'[d].pc = "found" => call'[d].read.image = restaurant'[r].image
                /\ call'[d].pc = "removed" => Own(r) \cap files' = {}
                /\ call'[d].pc = "stored" => Own(r) \cap files' = {d}
    BY <1>2, <1>4, <1>8, <1>10 DEF AsStored
  <1> QED
    BY <1>9, <1>10

\* A step that neither touches the files nor gives anything another image.
LEMMA QuietImages ==
    ASSUME IInv, Images, NEW c \in Calls, Moves(c), files' = files,
           \A r \in Restaurants :
              Exists(r)' => Exists(r) /\ restaurant'[r].image = restaurant[r].image,
           call[c].request.op = "upload" =>
              \/ call'[c].pc = "failed"
              \/ call[c].pc \notin Changing /\ call'[c].pc \notin Changing \cup {"found"}
              \/ /\ call[c].pc = "called" /\ call'[c].pc = "found" /\ Exists(Target(c))
                 /\ Target(c) \in Restaurants
                 /\ restaurant' = restaurant /\ call'[c].read = restaurant[Target(c)]
    PROVE  Images'
  <1>1. /\ \A d \in Calls : \A q : Upload(d, q)' <=> Upload(d, q)
        /\ \A r : Own(r)' = Own(r) /\ (InTurn(r)' => InTurn(r))
        /\ \A d \in Calls : d # c => call'[d] = call[d]
        /\ FilesKnown'
    BY ImagesStable DEF Moves, Images
  <1>2. \A d \in Calls : call'[d].request = call[d].request /\ Target(d)' = Target(d)
    BY Stable
  <1>3. ASSUME NEW r \in Restaurants PROVE ImageOwn(r)' /\ AsStored(r)'
    <2>1. CASE ~Upload(c, r)
      BY <1>3, <2>1, OtherStored
    <2>2. CASE Upload(c, r)
      <3>1. ImageOwn(r) /\ AsStored(r) /\ ImageOwn(r)'
        BY <1>1 DEF Images, ImageOwn
      <3>2. SUFFICES ASSUME Exists(r)', InTurn(r)'
                     PROVE  /\ Idle(r)' => /\ restaurant'[r].image \in files \cup {NoImage}
                                           /\ Own(r) \cap files \subseteq {restaurant'[r].image}
                            /\ \A d \in Calls : Upload(d, r) =>
                                  /\ call'[d].pc = "found" =>
                                        call'[d].read.image = restaurant'[r].image
                                  /\ call'[d].pc = "removed" => Own(r) \cap files = {}
                                  /\ call'[d].pc = "stored" => Own(r) \cap files = {d}
        BY <1>1, <3>1 DEF AsStored
      <3>3. /\ Exists(r) /\ InTurn(r) /\ restaurant'[r].image = restaurant[r].image
        BY <1>1, <3>2
      <3>4. call'[c].pc # "failed"
        BY <1>1, <2>2, <3>2 DEF InTurn, Begun, Moves
      <3>5. call[c].pc \notin Changing /\ call'[c].pc \notin Changing
        BY <2>2, <3>4 DEF Upload, Changing
      <3>6. Idle(r)' => Idle(r)
        BY <1>1, <3>5 DEF Idle
      <3>7. call'[c].pc = "found" => call'[c].read.image = restaurant'[r].image
        BY <2>2, <3>4 DEF Upload, Changing
      <3>8. ASSUME NEW d \in Calls, Upload(d, r)
            PROVE  /\ call'[d].pc = "found" => call'[d].read.image = restaurant'[r].image
                   /\ call'[d].pc = "removed" => Own(r) \cap files = {}
                   /\ call'[d].pc = "stored" => Own(r) \cap files = {d}
        BY <1>1, <3>1, <3>3, <3>5, <3>7, <3>8 DEF AsStored, Changing
      <3> QED
        BY <3>1, <3>3, <3>6, <3>8 DEF AsStored
    <2> QED
      BY <2>1, <2>2
  <1>4. ASSUME NEW d \in Calls PROVE ReadOwn(d)'
    <2>1. CASE d # c
      BY <1>1, <1>2, <2>1 DEF Images, ReadOwn, At
    <2>2. CASE d = c
      <3>1. SUFFICES ASSUME At(c, "upload", "found")'
                     PROVE  call'[c].read.image \in Own(Target(c)) \cup {NoImage}
        BY <1>1, <1>2, <2>2 DEF ReadOwn
      <3>2. call'[c].read = restaurant[Target(c)] /\ Exists(Target(c)) /\ Target(c) \in Restaurants
        BY <1>2, <3>1 DEF At
      <3> QED
        BY <3>2 DEF Images, ImageOwn
    <2> QED
      BY <2>1, <2>2
  <1> QED
    BY <1>1, <1>3, <1>4 DEF Images

LEMMA InsertImages == ASSUME IInv, Images, NEW c \in Calls, Insert(c) PROVE Images'
  <1>1. /\ At(c, "create", "found") /\ GoTo(c, "done") /\ files' = files /\ InFlight(c)
        /\ restaurant' = [restaurant EXCEPT ![c] =
                            [name |-> call[c].request.name, status |-> "OPEN", image |-> NoImage]]
    BY DEF Insert, At, InFlight, Running
  <1>2. Moves(c) /\ TypeOK
    BY <1>1, GoToMoves DEF IInv
  <1>3. /\ c \in Restaurants /\ restaurant'[c].image = NoImage
        /\ \A r \in Restaurants : r # c => restaurant'[r] = restaurant[r]
    BY <1>1, <1>2 DEF TypeOK, Restaurants
  <1>4. ~Created(c) /\ c \notin Old
    BY <1>1, CatalogAssumption DEF Created, Told, At
  <1>5. /\ \A d \in Calls : \A q : Upload(d, q)' <=> Upload(d, q)
        /\ \A r : Own(r)' = Own(r)
        /\ \A d \in Calls : d # c => call'[d] = call[d]
        /\ FilesKnown'
    BY <1>1, <1>2, ImagesStable DEF Moves, Images
  <1>6. Own(c) \cap files = {}
    BY <1>1, <1>4 DEF Own, Upload, Images, FilesKnown, At
  <1>7. \A d \in Calls : Upload(d, c) => call[d].pc \notin {"found", "removed", "stored"} /\ d # c
    BY <1>1, <1>4, ExistsCreated DEF Upload, At
  <1>8. ASSUME NEW r \in Restaurants PROVE ImageOwn(r)' /\ AsStored(r)'
    <2>1. CASE r = c
      BY <1>1, <1>3, <1>5, <1>6, <1>7, <2>1 DEF ImageOwn, AsStored
    <2>2. CASE r # c
      <3>1. ~Upload(c, r)
        BY <1>1 DEF Upload, At
      <3>2. Exists(r)' => Exists(r) /\ restaurant'[r].image = restaurant[r].image
        BY <1>3, <2>2 DEF Exists
      <3> QED
        BY <1>1, <1>2, <3>1, <3>2, OtherStored
    <2> QED
      BY <2>1, <2>2
  <1>9. ASSUME NEW d \in Calls PROVE ReadOwn(d)'
    <2>1. d # c => call'[d] = call[d] /\ Target(d)' = Target(d)
      BY <1>5 DEF Target
    <2>2. call'[c].pc = "done"
      BY <1>1, <1>2, GoToMoves
    <2> QED
      BY <1>5, <2>1, <2>2 DEF Images, ReadOwn, At
  <1> QED
    BY <1>5, <1>8, <1>9 DEF Images

\* The three steps of an upload.
LEMMA UploadImages ==
    ASSUME IInv, Images, NEW c \in Calls, RemoveOldFile(c) \/ StoreFile(c) \/ SetImage(c)
    PROVE  Images'
  <1>1. /\ call[c].request.op = "upload" /\ InFlight(c)
        /\ call[c].pc \in {"found", "removed", "stored"}
    BY DEF RemoveOldFile, StoreFile, SetImage, At, InFlight, Running
  <1>2. PICK t \in Restaurants :
          t = Target(c) /\ Created(t) /\ Upload(c, t) /\ TypeOK /\ c \in Own(t)
    BY <1>1, ExistsCreated DEF Upload, IInv, Own
  <1>3. /\ Moves(c)
        /\ RemoveOldFile(c) => call'[c].pc = "removed"
        /\ StoreFile(c) => call'[c].pc = "stored"
        /\ SetImage(c) => call'[c].pc = "done"
    <2>1. CASE RemoveOldFile(c) \/ StoreFile(c)
      <3>1. CASE RemoveOldFile(c)
        BY <1>1, <1>2, <3>1, GoToMoves DEF RemoveOldFile, StoreFile, SetImage, At, Running
      <3>2. CASE StoreFile(c)
        BY <1>1, <1>2, <3>2, GoToMoves DEF RemoveOldFile, StoreFile, SetImage, At, Running
      <3> QED
        BY <2>1, <3>1, <3>2
    <2>2. CASE SetImage(c)
      <3> DEFINE h == [call[c] EXCEPT !.pc = "done", !.read = NoRow]
      <3>1. call' = [call EXCEPT ![c] = h] /\ call[c].pc = "stored" /\ call[c] \in Handler
        BY <1>2, <2>2 DEF SetImage, Write, Finish, At, TypeOK
      <3>2. /\ h \in Handler /\ h.request = call[c].request /\ h.pc = "done"
            /\ h.before = call[c].before
        BY <3>1 DEF Handler
      <3> HIDE DEF h
      <3>3. ~Ended(c) /\ call[c].pc # "idle"
        BY <3>1 DEF Ended
      <3>4. Moves(c) /\ call'[c] = h
        BY <1>2, <3>1, <3>2, <3>3, MovesTo
      <3> QED
        BY <2>2, <3>1, <3>2, <3>4 DEF RemoveOldFile, StoreFile, At
    <2> QED
      BY <2>1, <2>2
  <1>4. /\ \A d \in Calls : \A q : Upload(d, q)' <=> Upload(d, q)
        /\ \A r : Own(r)' = Own(r) /\ (InTurn(r)' => InTurn(r)) /\ (Created(r) => Created(r)')
        /\ \A d \in Calls : d # c => call'[d] = call[d]
    BY <1>3, ImagesStable DEF Moves
  <1>5. \A d \in Calls : call'[d].request = call[d].request /\ Target(d)' = Target(d)
    BY <1>3, Stable
  <1>6. \A d \in Calls : ReadOwn(d)'
    BY <1>3, <1>4, <1>5 DEF Images, ReadOwn, At
  <1>7. \A r \in Restaurants \ {t} : Exists(r)' => Exists(r) /\ restaurant'[r] = restaurant[r]
    BY <1>2 DEF RemoveOldFile, StoreFile, SetImage, Write, Exists, TypeOK
  <1>8. ASSUME NEW d \in Calls, d # c, Upload(d, t), InTurn(t)
        PROVE  call'[d].pc \notin {"found", "removed", "stored"}
    <2>1. ~InFlight(d)
      BY <1>1, <1>2, <1>8, OneUpload
    <2> QED
      BY <1>4, <1>8, <2>1 DEF InFlight, Running
  <1>9. \A r \in Restaurants : Exists(r) /\ r # t => Own(r) \cap Own(t) = {}
    BY <1>2, ExistsCreated, OwnApart
  <1>10. CASE RemoveOldFile(c)
    <2>1. /\ files' = files \ {call[c].read.image} /\ restaurant' = restaurant
          /\ call[c].pc = "found"
      BY <1>10 DEF RemoveOldFile, At
    <2>2. FilesKnown'
      BY <1>3, <2>1, ImagesStable DEF Images
    <2>3. call[c].read.image \in Own(t) \cup {NoImage}
      BY <1>1, <1>2, <2>1 DEF Images, ReadOwn, At
    <2>4. ASSUME NEW r \in Restaurants PROVE ImageOwn(r)' /\ AsStored(r)'
      <3>1. CASE r # t /\ Exists(r)
        <4>1. Own(r) \cap files' = Own(r) \cap files
          BY <1>9, <2>1, <2>3, <3>1, OwnFiles
        <4>2. ~Upload(c, r)
          BY <1>2, <3>1 DEF Upload
        <4> QED
          BY <1>3, <1>7, <3>1, <4>1, <4>2, OtherStored
      <3>2. CASE ~Exists(r)
        BY <2>1, <3>2 DEF ImageOwn, AsStored, Exists
      <3>3. CASE r = t /\ Exists(t)
        <4>1. ImageOwn(t)'
          BY <1>2, <1>4, <2>1 DEF Images, ImageOwn, Exists
        <4>2. ASSUME InTurn(t) PROVE Own(t) \cap files' = {}
          <5>1. Idle(t)
            BY <1>4, <1>8, <2>1, <4>2 DEF Idle, Changing
          <5>2. AsStored(t)
            BY <1>2 DEF Images
          <5> QED
            BY <1>2, <2>1, <3>3, <4>2, <5>1, <5>2 DEF AsStored
        <4>3. ~Idle(t)'
          BY <1>2, <1>3, <1>4, <1>10 DEF Idle, Changing
        <4>4. ASSUME InTurn(t)', NEW d \in Calls, Upload(d, t)'
              PROVE  /\ call'[d].pc \notin {"found", "stored"}
                     /\ call'[d].pc = "removed" => Own(t)' \cap files' = {}
          BY <1>3, <1>4, <1>8, <1>10, <4>2, <4>4
        <4>5. AsStored(t)'
          BY <4>3, <4>4 DEF AsStored
        <4> QED
          BY <3>3, <4>1, <4>5
      <3> QED
        BY <3>1, <3>2, <3>3
    <2> QED
      BY <1>6, <2>2, <2>4 DEF Images
  <1>11. CASE StoreFile(c)
    <2>1. files' = files \cup {c} /\ restaurant' = restaurant /\ call[c].pc = "removed"
      BY <1>11 DEF StoreFile, At
    <2>2. FilesKnown'
      BY <1>1, <1>2, <1>4, <1>5, <2>1 DEF Images, FilesKnown
    <2>3. ASSUME NEW r \in Restaurants PROVE ImageOwn(r)' /\ AsStored(r)'
      <3>1. CASE r # t /\ Exists(r)
        <4>1. Own(r) \cap files' = Own(r) \cap files
          BY <1>2, <1>9, <2>1, <3>1
        <4>2. ~Upload(c, r)
          BY <1>2, <3>1 DEF Upload
        <4> QED
          BY <1>3, <1>7, <3>1, <4>1, <4>2, OtherStored
      <3>2. CASE ~Exists(r)
        BY <2>1, <3>2 DEF ImageOwn, AsStored, Exists
      <3>3. CASE r = t /\ Exists(t)
        <4>1. ImageOwn(t)'
          BY <1>2, <1>4, <2>1 DEF Images, ImageOwn, Exists
        <4>2. ASSUME InTurn(t) PROVE Own(t) \cap files' = {c}
          <5>1. AsStored(t)
            BY <1>2 DEF Images
          <5>2. Own(t) \cap files = {}
            BY <1>2, <2>1, <3>3, <4>2, <5>1 DEF AsStored
          <5> QED
            BY <1>2, <2>1, <5>2
        <4>3. ~Idle(t)'
          BY <1>2, <1>3, <1>4, <1>11 DEF Idle, Changing
        <4>4. ASSUME InTurn(t)', NEW d \in Calls, Upload(d, t)'
              PROVE  /\ call'[d].pc \notin {"found", "removed"}
                     /\ call'[d].pc = "stored" => Own(t)' \cap files' = {d}
          BY <1>3, <1>4, <1>8, <1>11, <4>2, <4>4
        <4>5. AsStored(t)'
          BY <4>3, <4>4 DEF AsStored
        <4> QED
          BY <3>3, <4>1, <4>5
      <3> QED
        BY <3>1, <3>2, <3>3
    <2> QED
      BY <1>6, <2>2, <2>3 DEF Images
  <1>12. CASE SetImage(c)
    <2>1. /\ files' = files /\ Exists(t) /\ call[c].pc = "stored"
          /\ restaurant' = [restaurant EXCEPT ![t] = [restaurant[t] EXCEPT !.image = c]]
      BY <1>2, <1>12 DEF SetImage, Write, At
    <2>2. FilesKnown'
      BY <1>3, <2>1, ImagesStable DEF Images
    <2>3. restaurant'[t].image = c
      <3>1. restaurant[t] \in Row
        BY <1>2, <2>1 DEF TypeOK, Exists
      <3> QED
        BY <1>2, <2>1, <3>1 DEF TypeOK, Row
    <2>4. ASSUME NEW r \in Restaurants PROVE ImageOwn(r)' /\ AsStored(r)'
      <3>1. CASE r # t
        <4>1. ~Upload(c, r)
          BY <1>2, <3>1 DEF Upload
        <4>2. Exists(r)' => Exists(r) /\ restaurant'[r].image = restaurant[r].image
          BY <1>7, <3>1
        <4> QED
          BY <1>3, <2>1, <4>1, <4>2, OtherStored
      <3>2. CASE r = t
        <4>1. ImageOwn(t)'
          BY <1>2, <1>4, <2>3 DEF ImageOwn
        <4>2. ASSUME InTurn(t) PROVE Own(t) \cap files' = {c}
          <5>1. AsStored(t)
            BY <1>2 DEF Images
          <5> QED
            BY <1>2, <2>1, <4>2, <5>1 DEF AsStored
        <4>3. ASSUME InTurn(t)', NEW d \in Calls, Upload(d, t)'
              PROVE  call'[d].pc \notin {"found", "removed", "stored"}
          BY <1>3, <1>4, <1>8, <1>12, <4>3
        <4>4. ASSUME InTurn(t)'
              PROVE  /\ restaurant'[t].image \in files' \cup {NoImage}
                     /\ Own(t)' \cap files' \subseteq {restaurant'[t].image}
          BY <1>4, <2>3, <4>2, <4>4
        <4>5. AsStored(t)'
          BY <4>3, <4>4 DEF AsStored
        <4> QED
          BY <3>2, <4>1, <4>5
      <3> QED
        BY <3>1, <3>2
    <2> QED
      BY <1>6, <2>2, <2>4 DEF Images
  <1> QED
    BY <1>10, <1>11, <1>12

LEMMA MovesOfReads ==
    ASSUME IInv, NEW c \in Calls, FindName(c) \/ GetEntry(c) \/ ReadList(c) \/ SetEntry(c)
    PROVE  Moves(c)
  <1>1. TypeOK /\ TypeOK' /\ call[c] \in Handler
    BY QuietSteps DEF IInv, TypeOK
  <1>2. InFlight(c) /\ ~Ended(c) /\ call[c].pc # "idle"
    BY DEF FindName, GetEntry, ReadList, SetEntry, At, InFlight, Running, Ended
  <1>3. /\ \A d \in Calls : d # c => call'[d] = call[d]
        /\ call'[c].request = call[c].request /\ call'[c].before = call[c].before
        /\ call'[c].pc # "idle"
    <2>1. CASE FindName(c) \/ SetEntry(c)
      <3>1. PICK pc \in {"failed", "found", "done"} : GoTo(c, pc)
        BY <2>1 DEF FindName, SetEntry
      <3> QED
        BY <1>1, <3>1 DEF GoTo, TypeOK, Handler
    <2>2. CASE GetEntry(c)
      BY <1>1, <2>2 DEF GetEntry, GoTo, Answer, TypeOK, Handler
    <2>3. CASE ReadList(c)
      BY <1>1, <2>3 DEF ReadList, TypeOK, Handler
    <2> QED
      BY <2>1, <2>2, <2>3
  <1> QED
    BY <1>1, <1>2, <1>3 DEF Moves, TypeOK

LEMMA OtherImages ==
    ASSUME IInv, Images, NEW c \in Calls,
           \/ Call(c) \/ Fail(c) \/ FindName(c) \/ FindRow(c) \/ GetEntry(c) \/ ReadList(c)
           \/ SetEntry(c) \/ SetStatus(c) \/ UpdateRestaurant(c) \/ Delete(c)
    PROVE  Images'
  <1>0. TypeOK /\ call[c] \in Handler /\ (ForRow(c) => Target(c) \in Restaurants)
    BY RequestFields DEF IInv
  <1>1. CASE Call(c)
    <2>1. /\ call[c].pc = "idle" /\ files' = files /\ restaurant' = restaurant
          /\ call' = [call EXCEPT ![c].pc = "called", ![c].before = {d \in Calls : Ended(d)}]
      BY <1>1 DEF Call
    <2>2. Moves(c) /\ call'[c].pc = "called"
      <3> DEFINE h == [call[c] EXCEPT !.pc = "called", !.before = {d \in Calls : Ended(d)}]
      <3>1. call' = [call EXCEPT ![c] = h]
        BY <2>1
      <3>2. /\ h \in Handler /\ h.request = call[c].request /\ h.pc = "called"
            /\ h.before = {d \in Calls : Ended(d)}
        BY <1>0 DEF Handler, Running
      <3> HIDE DEF h
      <3> QED
        BY <1>0, <2>1, <3>1, <3>2 DEF Moves, TypeOK, Ended
    <2> QED
      BY <2>1, <2>2, QuietImages DEF Exists, Changing
  <1>2. CASE Fail(c)
    <2> DEFINE h == [call[c] EXCEPT !.pc = "failed", !.read = NoRow, !.list = {}, !.filler = NoRow]
    <2>1. /\ InFlight(c) /\ files' = files /\ restaurant' = restaurant
          /\ call' = [call EXCEPT ![c] = h]
      BY <1>2 DEF Fail
    <2>2. /\ h \in Handler /\ h.request = call[c].request /\ h.pc = "failed"
          /\ h.before = call[c].before
      BY <1>0 DEF Handler
    <2> HIDE DEF h
    <2>3. ~Ended(c) /\ call[c].pc # "idle"
      BY <2>1 DEF InFlight, Ended, Running
    <2>4. Moves(c) /\ call'[c] = h
      BY <1>0, <2>1, <2>2, <2>3, MovesTo
    <2> QED
      BY <2>1, <2>2, <2>4, QuietImages DEF Exists
  <1>3. CASE FindRow(c)
    <2> DEFINE pc == IF Exists(Target(c)) THEN "found" ELSE "failed"
               h == [call[c] EXCEPT !.pc = pc, !.read = restaurant[Target(c)]]
    <2>1. /\ call[c].pc = "called" /\ files' = files /\ restaurant' = restaurant
          /\ call' = [call EXCEPT ![c] = h] /\ ForRow(c)
      BY <1>3 DEF FindRow, ForRow
    <2>2. restaurant[Target(c)] \in Row \cup {NoRow} /\ pc \in {"found", "failed"}
      BY <1>0, <2>1 DEF TypeOK
    <2>3. pc = "failed" \/ (pc = "found" /\ Exists(Target(c)))
      OBVIOUS
    <2> HIDE DEF pc
    <2>4. /\ h \in Handler /\ h.request = call[c].request /\ h.pc = pc
          /\ h.before = call[c].before /\ h.read = restaurant[Target(c)]
      BY <1>0, <2>2 DEF Handler, Running
    <2> HIDE DEF h
    <2>5. ~Ended(c) /\ call[c].pc # "idle" /\ pc # "idle"
      BY <2>1, <2>2 DEF Ended
    <2>6. Moves(c) /\ call'[c] = h
      BY <1>0, <2>1, <2>4, <2>5, MovesTo
    <2> QED
      BY <1>0, <2>1, <2>3, <2>4, <2>6, QuietImages DEF Exists
  <1>4. CASE FindName(c) \/ GetEntry(c) \/ ReadList(c) \/ SetEntry(c)
    <2>1. /\ InFlight(c) /\ call[c].request.op # "upload" /\ files' = files
          /\ restaurant' = restaurant
      BY <1>4 DEF FindName, GetEntry, ReadList, SetEntry, At, InFlight, Running
    <2>2. Moves(c)
      BY <1>4, MovesOfReads
    <2> QED
      BY <2>1, <2>2, QuietImages DEF Exists
  <1>5. CASE SetStatus(c) \/ UpdateRestaurant(c) \/ Delete(c)
    <2>1. /\ call[c].request.op # "upload" /\ ForRow(c) /\ call[c].pc = "found"
          /\ Exists(Target(c)) /\ Finish(c, "done") /\ files' = files
      BY <1>5 DEF SetStatus, UpdateRestaurant, Update, Delete, Write, At, ForRow
    <2>2. restaurant[Target(c)] \in Row
      BY <1>0, <2>1 DEF TypeOK, Exists
    <2>3. PICK row : /\ restaurant' = [restaurant EXCEPT ![Target(c)] = row]
                     /\ row = NoRow \/ row.image = restaurant[Target(c)].image
      <3>1. CASE SetStatus(c)
        <4> DEFINE row == [restaurant[Target(c)] EXCEPT !.status = call[c].request.status]
        <4>1. restaurant' = [restaurant EXCEPT ![Target(c)] = row]
          BY <3>1 DEF SetStatus, Write
        <4>2. row.image = restaurant[Target(c)].image
          BY <2>2 DEF Row
        <4> QED
          BY <4>1, <4>2
      <3>2. CASE UpdateRestaurant(c)
        <4> DEFINE name   == Given(call[c].request.name, call[c].read.name)
                   status == Given(call[c].request.status, call[c].read.status)
                   row == [restaurant[Target(c)] EXCEPT !.name = name, !.status = status]
        <4>1. restaurant' = [restaurant EXCEPT ![Target(c)] = row]
          BY <3>2 DEF UpdateRestaurant, Update, Write
        <4> HIDE DEF name, status
        <4>2. row.image = restaurant[Target(c)].image
          BY <2>2 DEF Row
        <4> QED
          BY <4>1, <4>2
      <3>3. CASE Delete(c)
        BY <3>3 DEF Delete, Write
      <3> QED
        BY <1>5, <3>1, <3>2, <3>3
    <2>4. \A r \in Restaurants :
             Exists(r)' => Exists(r) /\ restaurant'[r].image = restaurant[r].image
      BY <1>0, <2>1, <2>3 DEF Exists, TypeOK
    <2>5. Moves(c)
      <3> DEFINE h == [call[c] EXCEPT !.pc = "done", !.read = NoRow]
      <3>1. call' = [call EXCEPT ![c] = h]
        BY <2>1 DEF Finish
      <3>2. /\ h \in Handler /\ h.request = call[c].request /\ h.pc = "done"
            /\ h.before = call[c].before
        BY <1>0 DEF Handler
      <3> HIDE DEF h
      <3>3. ~Ended(c) /\ call[c].pc # "idle"
        BY <2>1 DEF Ended
      <3> QED
        BY <1>0, <3>1, <3>2, <3>3, MovesTo
    <2> QED
      BY <2>1, <2>4, <2>5, QuietImages
  <1> QED
    BY <1>1, <1>2, <1>3, <1>4, <1>5

LEMMA NextImages == IInv /\ Images /\ [Next]_vars => Images'
  <1> SUFFICES ASSUME IInv, Images, [Next]_vars PROVE Images'
    OBVIOUS
  <1>1. CASE UNCHANGED vars \/ Expire
    <2>1. restaurant' = restaurant /\ files' = files /\ call' = call
      BY <1>1 DEF vars, Expire
    <2> QED
      BY <2>1 DEF Images, ImageOwn, AsStored, ReadOwn, FilesKnown, Own, Upload, Target, Exists,
                  InTurn, Idle, At, Begun, Overlap, Created, Told
  <1> QED
    BY <1>1, InsertImages, UploadImages, OtherImages DEF Next

-----------------------------------------------------------------------------
\* The strengthened invariant holds in every state, whatever the restaurants, the calls and
\* what they ask for.
THEOREM Invariance == Spec => []IInv
  BY InitIInv, NextIInv, PTL DEF Spec

\* A row is always written whole: what the body of an update lacks is filled from a row that
\* was there.
THEOREM TypeCorrect == Spec => []TypeOK
  <1>1. IInv => TypeOK
    BY DEF IInv
  <1> QED
    BY <1>1, Invariance, PTL

\* Without an update of the name, only creations that overlap give one name to two
\* restaurants.
THEOREM NamesAlwaysUnique == Spec => []NamesUnique
  <1>1. IInv => NamesUnique
    BY DEF IInv
  <1> QED
    BY <1>1, Invariance, PTL

\* A status that the owner was told of is not undone by an update without a status that
\* begins later.
THEOREM StatusAlwaysKept == Spec => []StatusKept
  <1>1. IInv => StatusKept
    BY DEF IInv, StatusKept, StatusKeptFor
  <1> QED
    BY <1>1, Invariance, PTL

\* A list that is shown or cached is as new as the call that has filled it.
THEOREM ListsAlwaysAsFilled == Spec => []ListsAsFilled
  <1>1. IInv => ListsAsFilled
    BY DEF IInv, EntryListed, Listed, ListsAsFilled
  <1> QED
    BY <1>1, Invariance, PTL

\* As long as uploads to a restaurant follow each other and succeed, its image is a stored
\* file, and no other file that was its image is stored.
THEOREM ImagesAlwaysStored == Spec => []ImagesStored
  <1>1. IInv /\ Images => ImagesStored
    <2> SUFFICES ASSUME Images, NEW r \in Restaurants, Exists(r), UploadsInTurn(r)
                 PROVE  /\ restaurant[r].image \in files \cup {NoImage}
                        /\ \A f \in files :
                              f = r \/ (\E c \in Calls : c = f /\ At(c, "upload", "done")
                                                               /\ Target(c) = r)
                                 => f = restaurant[r].image
      BY DEF ImagesStored
    <2>1. \A c \in Calls : Upload(c, r) /\ Begun(c) =>
             /\ call[c].pc = "done"
             /\ \A d \in Calls \ {c} : Upload(d, r) /\ Begun(d) => ~Overlap(c, d)
      BY DEF UploadsInTurn, Upload, At, Told
    <2>2. InTurn(r) /\ Idle(r)
      BY <2>1 DEF InTurn, Idle, Changing, Begun
    <2>3. /\ restaurant[r].image \in files \cup {NoImage}
          /\ Own(r) \cap files \subseteq {restaurant[r].image}
      BY <2>2 DEF Images, AsStored
    <2>4. \A f : f = r \/ (\E c \in Calls : c = f /\ At(c, "upload", "done") /\ Target(c) = r)
                    => f \in Own(r)
      BY DEF Own, Upload, At
    <2> QED
      BY <2>3, <2>4
  <1> QED
    BY <1>1, InitImages, NextImages, Invariance, PTL DEF Spec

=============================================================================
