---------------------------- MODULE DriverSearch ----------------------------
(***************************************************************************)
(* Which drivers a delivery is offered to: findDriversForDelivery of       *)
(* src/src/delivery/delivery.service.ts with getAvailableDrivers and       *)
(* rankDriversByEta, while drivers report where they are to updateLocation *)
(* of src/src/driver-location/driver-location.service.ts.                  *)
(*                                                                         *)
(* A location is known by the time in its column updated_at.  The cache    *)
(* that updateLocation writes as well is read by getLocation only, which   *)
(* has no caller.                                                          *)
(*                                                                         *)
(* A definition whose comment begins with "Fault:" is no part of the       *)
(* specification: it is a faulty form of the definition that follows it,   *)
(* which one of the properties must find.                                  *)
(***************************************************************************)
EXTENDS Naturals, SequencesExt

CONSTANTS
    Drivers,        \* active users with the role DRIVER
    Reports,        \* events driver:location
    Searches,       \* requests GET /delivery/:deliveryId/drivers
    MaxCandidates,  \* 20 origins for one question to the routes service
    Fresh,          \* 30 s
    TimeLimit,      \* 5 s, after which the client is answered 408
    Minute,         \* 60 s
    Durations,      \* of routes
    MaxTime,        \* when the clock stops
    NoRow,          \* no location was reported
    NoRoute         \* the routes service knows none, or no duration

ASSUME SearchAssumption ==
    /\ Fresh \in Nat /\ TimeLimit \in Nat /\ MaxTime \in Nat /\ MaxCandidates \in Nat
    /\ Minute \in Nat \ {0} /\ Durations \subseteq Nat /\ IsFiniteSet(Drivers)
    /\ NoRow \notin Nat /\ NoRoute \notin Nat

VARIABLES
    now,            \* the clock of the process
    location,       \* driver_locations.updated_at
    available,      \* users and driver_profiles: active, verified, online, not busy
    report, search, \* the handlers
    reply           \* what the client of a search was told first

vars == <<now, location, available, report, search, reply>>

\* overran is history: the row that the report wrote over was of a later time.
Report == [pc: {"idle", "called", "issued", "stored", "done", "failed"},
           driver: Drivers, at: 0..MaxTime, overran: BOOLEAN]

\* found is history: the time of the row that the filter took the driver for.
Candidate == [driver: Drivers, found: 0..MaxTime, at: 0..MaxTime]

\* One element of the matrix: the origin is an index of the question.
Element == [origin: Nat, duration: Durations \cup {NoRoute}]

Running == {"called", "found", "filtered", "asked", "ranked"}

\* What rankDriversByEta returns keeps the candidate and the duration.
Search == [pc: Running \cup {"idle", "done", "failed"}, calledAt: 0..MaxTime,
           since: 0..MaxTime, sent: Seq(Candidate), elements: Seq(Element),
           ranked: Seq([driver: Drivers, found: 0..MaxTime, at: 0..MaxTime,
                        duration: Durations]),
           answeredAt: 0..MaxTime]

TypeOK ==
    /\ now \in 0..MaxTime
    /\ location \in [Drivers -> 0..now \cup {NoRow}]
    /\ available \in [Drivers -> BOOLEAN]
    /\ report \in [Reports -> Report]
    /\ search \in [Searches -> Search]
    /\ \A s \in Searches : Len(search[s].sent) <= MaxCandidates
    /\ reply \in [Searches -> {"none", "drivers", "error", "timeout"}]

Init ==
    /\ now = 0
    /\ location \in [Drivers -> {0, NoRow}]
    /\ available \in [Drivers -> BOOLEAN]
    /\ \E driver \in [Reports -> Drivers] :
          report = [u \in Reports |-> [pc |-> "idle", driver |-> driver[u], at |-> 0,
                                      overran |-> FALSE]]
    /\ search = [s \in Searches |->
                   [pc |-> "idle", calledAt |-> 0, since |-> 0, sent |-> <<>>,
                    elements |-> <<>>, ranked |-> <<>>, answeredAt |-> 0]]
    /\ reply = [s \in Searches |-> "none"]

-----------------------------------------------------------------------------
(* updateLocation                                                          *)

ReportTo(u, pc) ==
    /\ report' = [report EXCEPT ![u].pc = pc]
    /\ UNCHANGED <<now, available, search, reply>>

CallReport(u) == report[u].pc = "idle" /\ ReportTo(u, "called") /\ UNCHANGED location

\* After the cache.  Prisma, not the database, gives the row its time.
IssueUpsert(u) ==
    /\ report[u].pc = "called"
    /\ report' = [report EXCEPT ![u].pc = "issued", ![u].at = now]
    /\ UNCHANGED <<now, location, available, search, reply>>

\* Of two reports the one whose statement runs last is kept, older or not.
Upsert(u) ==
    /\ report[u].pc = "issued"
    /\ LET row == location[report[u].driver] IN
          /\ location' = [location EXCEPT ![report[u].driver] = report[u].at]
          /\ report' = [report EXCEPT ![u].pc = "stored",
                                      ![u].overran = row # NoRow /\ row > report[u].at]
    /\ UNCHANGED <<now, available, search, reply>>

\* lastActiveAt, which no handler reads.
TouchProfile(u) == report[u].pc = "stored" /\ ReportTo(u, "done") /\ UNCHANGED location

\* A statement is rejected, the last one for a driver without a profile, too.
FailReport(u) ==
    /\ report[u].pc \in {"called", "issued", "stored"}
    /\ ReportTo(u, "failed")
    /\ UNCHANGED location

-----------------------------------------------------------------------------
(* findDriversForDelivery                                                  *)

SearchTo(s, h) ==
    /\ search' = [search EXCEPT ![s] = h]
    /\ UNCHANGED <<now, location, available, report>>

CallSearch(s) ==
    /\ search[s].pc = "idle"
    /\ SearchTo(s, [search[s] EXCEPT !.pc = "called", !.calledAt = now])
    /\ UNCHANGED reply

\* The delivery and its restaurant are read, and Date.now() after it.
FindDelivery(s) ==
    /\ search[s].pc = "called"
    /\ SearchTo(s, [search[s] EXCEPT !.pc = "found", !.since = now])
    /\ UNCHANGED reply

Available(s) ==
    {d \in Drivers : /\ available[d]
                     /\ location[d] # NoRow
                     /\ location[d] + Fresh >= search[s].since}

Candidates(order) ==
    [k \in DOMAIN order |->
       [driver |-> order[k], found |-> location[order[k]], at |-> location[order[k]]]]

FirstOf(order) == SubSeq(order, 1, IF Len(order) < MaxCandidates THEN Len(order) ELSE MaxCandidates)

\* Fault: how old the location is does not matter.
FindOnline(s) ==
    /\ search[s].pc = "found"
    /\ \E order \in SetToSeqs({d \in Drivers : available[d] /\ location[d] # NoRow}) :
          SearchTo(s, [search[s] EXCEPT !.pc = IF order = <<>> THEN "ranked" ELSE "filtered",
                                        !.sent = Candidates(FirstOf(order))])
    /\ UNCHANGED reply

\* Fault: every driver is sent.
FindAll(s) ==
    /\ search[s].pc = "found"
    /\ \E order \in SetToSeqs(Available(s)) :
          SearchTo(s, [search[s] EXCEPT !.pc = IF order = <<>> THEN "ranked" ELSE "filtered",
                                        !.sent = Candidates(order)])
    /\ UNCHANGED reply

\* The first of the statements of one findMany finds the users, in no given order.
\* Without drivers nothing more is asked.
FindAvailable(s) ==
    /\ search[s].pc = "found"
    /\ \E order \in SetToSeqs(Available(s)) :
          SearchTo(s, [search[s] EXCEPT !.pc = IF order = <<>> THEN "ranked" ELSE "filtered",
                                        !.sent = Candidates(FirstOf(order))])
    /\ UNCHANGED reply

\* Another one reads the locations that the users found have by then.
ReadLocations(s) ==
    /\ search[s].pc = "filtered"
    /\ LET sent == search[s].sent IN
          SearchTo(s, [search[s] EXCEPT !.pc = "asked",
                                        !.sent = [k \in DOMAIN sent |->
                                          [sent[k] EXCEPT !.at = location[sent[k].driver]]]])
    /\ UNCHANGED reply

\* One element at most for each origin, in any order; the last index stands for
\* those that the question did not contain.
Matrices ==
    {m \in UNION {[1..n -> [origin: 0..MaxCandidates, duration: Durations \cup {NoRoute}]] :
                     n \in 0..MaxCandidates} :
        \A i, j \in DOMAIN m : i # j => m[i].origin # m[j].origin}

\* The places of the elements that the loop does not skip.
Usable(s, m) ==
    {i \in DOMAIN m : m[i].origin < Len(search[s].sent) /\ m[i].duration # NoRoute}

Route(s, e) ==
    LET c == search[s].sent[e.origin + 1] IN
    [driver |-> c.driver, found |-> c.found, at |-> c.at, duration |-> e.duration]

\* Array.sort is stable: p lists places of m, the shortest duration first.
StableSort(m, p) ==
    \A i, j \in DOMAIN p : i < j =>
        \/ m[p[i]].duration < m[p[j]].duration
        \/ m[p[i]].duration = m[p[j]].duration /\ p[i] < p[j]

\* Fault: the sort is forgotten.
RankUnsorted(s) ==
    /\ search[s].pc = "asked"
    /\ \E m \in Matrices : \E p \in SetToSeqs(Usable(s, m)) :
          /\ \A i, j \in DOMAIN p : i < j => p[i] < p[j]
          /\ SearchTo(s, [search[s] EXCEPT !.pc = "ranked", !.elements = m,
                                           !.ranked = [k \in DOMAIN p |-> Route(s, m[p[k]])]])
    /\ UNCHANGED reply

\* The answer of the routes service is received and ranked without a further wait.
RankDrivers(s) ==
    /\ search[s].pc = "asked"
    /\ \E m \in Matrices : \E p \in SetToSeqs(Usable(s, m)) :
          /\ StableSort(m, p)
          /\ SearchTo(s, [search[s] EXCEPT !.pc = "ranked", !.elements = m,
                                           !.ranked = [k \in DOMAIN p |-> Route(s, m[p[k]])]])
    /\ UNCHANGED reply

Tell(s, what) == reply' = [reply EXCEPT ![s] = IF reply[s] = "none" THEN what ELSE reply[s]]

AnswerSearch(s) ==
    /\ search[s].pc = "ranked"
    /\ SearchTo(s, [search[s] EXCEPT !.pc = "done", !.answeredAt = now])
    /\ Tell(s, "drivers")

\* No delivery, no coordinates, a rejected statement; the routes service is not
\* available, has answered an error, or nothing for eight seconds.
FailSearch(s) ==
    /\ search[s].pc \in {"called", "found", "filtered", "asked"}
    /\ SearchTo(s, [search[s] EXCEPT !.pc = "failed"])
    /\ Tell(s, "error")

\* The minutes of the answer: Math.ceil(durationSeconds / 60).
EstimatedMinutes(r) == (r.duration + Minute - 1) \div Minute

-----------------------------------------------------------------------------
Late(s) == search[s].pc \in Running /\ reply[s] = "none" /\ now >= search[s].calledAt + TimeLimit

TimeOut(s) ==
    /\ Late(s)
    /\ Tell(s, "timeout")
    /\ UNCHANGED <<now, location, available, report, search>>

\* The writers of driver_profiles, which Dispatch models.
ChangeProfile(d) ==
    /\ available' = [available EXCEPT ![d] = ~available[d]]
    /\ UNCHANGED <<now, location, report, search, reply>>

\* The timer of a request fires when it is due.
Tick ==
    /\ now < MaxTime
    /\ \A s \in Searches : ~Late(s)
    /\ now' = now + 1
    /\ UNCHANGED <<location, available, report, search, reply>>

Next ==
    \/ \E u \in Reports :
          \/ CallReport(u) \/ IssueUpsert(u) \/ Upsert(u)
          \/ TouchProfile(u) \/ FailReport(u)
    \/ \E s \in Searches :
          \/ CallSearch(s) \/ FindDelivery(s) \/ FindAvailable(s) \/ ReadLocations(s)
          \/ RankDrivers(s) \/ AnswerSearch(s) \/ FailSearch(s) \/ TimeOut(s)
    \/ \E d \in Drivers : ChangeProfile(d)
    \/ Tick

Spec == Init /\ [][Next]_vars

-----------------------------------------------------------------------------
(* What is claimed of the system.                                          *)

\* The drivers one of whose reports wrote over a later one.
Overrun == {d \in Drivers : \E u \in Reports : report[u].driver = d /\ report[u].overran}

\* A driver is only offered if he was heard of recently: however slow the database and
\* the routes service are, he had reported within the time of a fresh location and the
\* time limit of a request together before the client is told of him.  The location he
\* is ranked by, which a later statement reads, is of that report or a later one,
\* unless two of his reports overlapped and the earlier one was stored last.
OffersFresh ==
    \A s \in Searches : reply[s] = "drivers" =>
        \A k \in DOMAIN search[s].ranked :
            LET offer == search[s].ranked[k] IN
            /\ search[s].answeredAt <= offer.found + Fresh + TimeLimit
            /\ \/ offer.at >= offer.found
               \/ offer.driver \in Overrun

\* The client is told just the drivers whose element in the matrix has a route, each
\* of them once and with the minutes his own route takes, the nearest first, whatever
\* the order, the gaps and the strange indices of the routes service's answer.
OffersRanked ==
    \A s \in Searches : reply[s] = "drivers" =>
        LET h == search[s]
            Offered(k, e) == /\ e.origin + 1 \in DOMAIN h.sent
                             /\ h.sent[e.origin + 1].driver = h.ranked[k].driver
                             /\ e.duration \in Durations
                             /\ e.duration <= EstimatedMinutes(h.ranked[k]) * Minute
                             /\ e.duration + Minute > EstimatedMinutes(h.ranked[k]) * Minute
        IN /\ \A k \in DOMAIN h.ranked : \E e \in Range(h.elements) : Offered(k, e)
           /\ \A e \in Range(h.elements) :
                 (e.origin + 1 \in DOMAIN h.sent /\ e.duration # NoRoute)
                    => \E k \in DOMAIN h.ranked : Offered(k, e)
           /\ \A i, j \in DOMAIN h.ranked : i < j =>
                 /\ h.ranked[i].driver # h.ranked[j].driver
                 /\ h.ranked[i].duration <= h.ranked[j].duration

=============================================================================
