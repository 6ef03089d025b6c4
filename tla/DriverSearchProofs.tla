------------------------- MODULE DriverSearchProofs -------------------------
(***************************************************************************)
(* Theorems about DriverSearch, for any drivers, searches and times.       *)
(***************************************************************************)
EXTENDS DriverSearch, FiniteSetTheorems, TLAPS

\* A search has taken drivers for locations that were fresh at a time after it was
\* called, and has ranked no others.
Recent(h) ==
    /\ h.pc \notin {"ranked", "done"} => h.ranked = <<>>
    /\ h.calledAt <= now
    /\ h.pc \in {"found", "filtered", "asked", "ranked", "done"} =>
          h.calledAt <= h.since /\ h.since <= now
    /\ h.pc \in {"filtered", "asked", "ranked", "done"} =>
          \A k \in DOMAIN h.sent : h.since <= h.sent[k].found + Fresh
    /\ h.pc \in {"ranked", "done"} =>
          \A k \in DOMAIN h.ranked : h.since <= h.ranked[k].found + Fresh

\* The row of a driver is kept, and becomes older only by a report that overruns another.
Kept(h) ==
    /\ h.pc = "filtered" =>
          \A k \in DOMAIN h.sent :
             /\ location[h.sent[k].driver] # NoRow
             /\ location[h.sent[k].driver] >= h.sent[k].found \/ h.sent[k].driver \in Overrun
    /\ h.pc \in {"asked", "ranked", "done"} =>
          \A k \in DOMAIN h.sent :
             h.sent[k].at >= h.sent[k].found \/ h.sent[k].driver \in Overrun
    /\ h.pc \in {"ranked", "done"} =>
          \A k \in DOMAIN h.ranked :
             h.ranked[k].at >= h.ranked[k].found \/ h.ranked[k].driver \in Overrun

\* A client that waits has not waited for longer than the time limit, and one that
\* was told of drivers was told in time.
InTime(h, r) ==
    /\ h.pc \in Running /\ r = "none" => now <= h.calledAt + TimeLimit
    /\ h.pc \in Running \cup {"idle"} => r # "drivers"
    /\ r = "drivers" => h.pc = "done" /\ h.answeredAt <= h.calledAt + TimeLimit

IInv ==
    /\ TypeOK
    /\ \A u \in Reports : /\ report[u].at <= now
                          /\ report[u].pc \in {"idle", "called", "issued"} => ~report[u].overran
    /\ \A s \in Searches : Recent(search[s]) /\ InTime(search[s], reply[s]) /\ Kept(search[s])

-----------------------------------------------------------------------------
(* The invariant holds initially and is preserved.                         *)

LEMMA InitIInv == Init => IInv
  <1> SUFFICES ASSUME Init PROVE IInv
    OBVIOUS
  <1> DEFINE h == [pc |-> "idle", calledAt |-> 0, since |-> 0, sent |-> <<>>,
                   elements |-> <<>>, ranked |-> <<>>, answeredAt |-> 0]
  <1>1. /\ h \in Search /\ h.pc = "idle" /\ h.calledAt = 0 /\ h.sent = <<>> /\ h.ranked = <<>>
    BY SearchAssumption DEF Search
  <1>2. \A s \in Searches : search[s] = h
    BY DEF Init
  <1>3. search \in [Searches -> Search]
    BY <1>1, <1>2 DEF Init
  <1> HIDE DEF h
  <1>4. now = 0 /\ now \in 0..MaxTime
    BY SearchAssumption DEF Init
  <1>5. report \in [Reports -> Report] /\ \A u \in Reports : report[u].at <= now /\ ~report[u].overran
    <2>1. PICK driver \in [Reports -> Drivers] :
            report = [u \in Reports |-> [pc |-> "idle", driver |-> driver[u], at |-> 0,
                                        overran |-> FALSE]]
      BY DEF Init
    <2> QED
      BY <1>4, <2>1, SearchAssumption DEF Report
  <1>6. location \in [Drivers -> 0..now \cup {NoRow}]
    BY <1>4 DEF Init
  <1>7. \A s \in Searches : Len(search[s].sent) <= MaxCandidates
    BY <1>1, <1>2, SearchAssumption
  <1>8. TypeOK
    BY <1>3, <1>4, <1>5, <1>6, <1>7 DEF Init, TypeOK
  <1>9. \A s \in Searches : Recent(search[s]) /\ InTime(search[s], reply[s]) /\ Kept(search[s])
    BY <1>1, <1>2, <1>4 DEF Init, Recent, InTime, Running, Kept
  <1> QED
    BY <1>5, <1>8, <1>9 DEF IInv

\* One search moves, and nothing but it and what its client is told changes.
LEMMA SearchMoves ==
    ASSUME IInv, NEW s \in Searches, NEW h \in Search, NEW r \in {"none", "drivers", "error", "timeout"},
           SearchTo(s, h), reply' = [reply EXCEPT ![s] = r],
           Len(h.sent) <= MaxCandidates, Recent(h), InTime(h, r), Kept(h)
    PROVE  IInv'
  <1>1. /\ search' = [search EXCEPT ![s] = h]
        /\ now' = now /\ location' = location /\ available' = available /\ report' = report
    BY DEF SearchTo
  <1>2. /\ search \in [Searches -> Search]
        /\ reply \in [Searches -> {"none", "drivers", "error", "timeout"}]
    BY DEF IInv, TypeOK
  <1>3. /\ search'[s] = h /\ \A q \in Searches : q # s => search'[q] = search[q]
        /\ reply'[s] = r /\ \A q \in Searches : q # s => reply'[q] = reply[q]
    BY <1>1, <1>2
  <1>4. TypeOK'
    BY <1>1, <1>2, <1>3 DEF IInv, TypeOK
  <1>5. \A q \in Searches : (Recent(search[q]) /\ InTime(search[q], reply[q]))'
    BY <1>1, <1>3 DEF IInv, Recent, InTime
  <1>6. \A q \in Searches : Kept(search[q])'
    BY <1>1, <1>3 DEF IInv, Kept, Overrun
  <1> QED
    BY <1>1, <1>4, <1>5, <1>6 DEF IInv

LEMMA ReportStep ==
    ASSUME IInv, NEW u \in Reports,
           \/ CallReport(u) \/ IssueUpsert(u) \/ Upsert(u) \/ TouchProfile(u) \/ FailReport(u)
    PROVE  IInv'
  <1>0. /\ report \in [Reports -> Report] /\ report[u] \in Report /\ now \in 0..MaxTime
        /\ report[u].at \in 0..now
    BY DEF IInv, TypeOK, Report
  <1>1. /\ now' = now /\ search' = search /\ reply' = reply /\ available' = available
    BY DEF CallReport, IssueUpsert, Upsert, TouchProfile, FailReport, ReportTo
  <1>2. \A s \in Searches : (Recent(search[s]) /\ InTime(search[s], reply[s]))'
    BY <1>1 DEF IInv, Recent, InTime
  <1> DEFINE Good(f) == /\ f \in [Reports -> Report]
                        /\ \A v \in Reports :
                              /\ f[v].at <= now
                              /\ f[v].pc \in {"idle", "called", "issued"} => ~f[v].overran
  <1> DEFINE row == location[report[u].driver]
  <1>a. ASSUME NEW g \in Report, report' = [report EXCEPT ![u] = g], g.at <= now,
               g.driver = report[u].driver, report[u].overran => g.overran,
               g.pc \in {"idle", "called", "issued"} => ~g.overran
        PROVE  /\ Good(report') /\ report'[u] = g
               /\ \A v \in Reports : /\ report'[v].driver = report[v].driver
                                     /\ report[v].overran => report'[v].overran
    BY <1>0, <1>a DEF IInv
  <1> HIDE DEF Good
  <1>b. ASSUME Upsert(u)
        PROVE  /\ Good(report')
               /\ \A v \in Reports : /\ report'[v].driver = report[v].driver
                                     /\ report[v].overran => report'[v].overran
               /\ row # NoRow /\ row > report[u].at => report'[u].overran
    <2> DEFINE over == row # NoRow /\ row > report[u].at
    <2> DEFINE g == [report[u] EXCEPT !.pc = "stored", !.overran = over]
    <2>1. report' = [report EXCEPT ![u] = g] /\ report[u].pc = "issued"
      BY <1>b DEF Upsert
    <2>2. over \in BOOLEAN
      OBVIOUS
    <2> HIDE DEF over
    <2>3. /\ g \in Report /\ g.at = report[u].at /\ g.driver = report[u].driver
          /\ g.overran = over /\ g.pc = "stored"
      BY <1>0, <2>2 DEF Report
    <2> HIDE DEF g
    <2>4. ~report[u].overran /\ report[u].at <= now
      BY <2>1 DEF IInv
    <2>5. /\ Good(report') /\ report'[u] = g
          /\ \A v \in Reports : /\ report'[v].driver = report[v].driver
                                /\ report[v].overran => report'[v].overran
      BY <1>a, <2>1, <2>3, <2>4
    <2> QED
      BY <2>3, <2>5 DEF over
  <1>3. /\ Good(report')
        /\ \A v \in Reports : /\ report'[v].driver = report[v].driver
                              /\ report[v].overran => report'[v].overran
    <2>1. CASE IssueUpsert(u)
      <3> DEFINE g == [report[u] EXCEPT !.pc = "issued", !.at = now]
      <3>1. report' = [report EXCEPT ![u] = g] /\ report[u].pc = "called"
        BY <2>1 DEF IssueUpsert
      <3>2. /\ g \in Report /\ g.at = now /\ g.driver = report[u].driver
            /\ g.overran = report[u].overran
        BY <1>0 DEF Report
      <3> HIDE DEF g
      <3>3. ~report[u].overran /\ g.at <= now
        BY <1>0, <3>1, <3>2, SearchAssumption DEF IInv
      <3> QED
        BY <1>a, <3>1, <3>2, <3>3
    <2>2. CASE CallReport(u) \/ TouchProfile(u) \/ FailReport(u)
      <3>1. PICK pc \in {"called", "done", "failed"} :
              /\ report' = [report EXCEPT ![u].pc = pc]
              /\ pc = "called" => report[u].pc = "idle"
        BY <2>2 DEF CallReport, TouchProfile, FailReport, ReportTo
      <3> DEFINE g == [report[u] EXCEPT !.pc = pc]
      <3>2. report' = [report EXCEPT ![u] = g]
        BY <3>1
      <3>3. /\ g \in Report /\ g.at = report[u].at /\ g.driver = report[u].driver
            /\ g.overran = report[u].overran /\ g.pc = pc
        BY <1>0 DEF Report
      <3> HIDE DEF g
      <3>4. /\ g.at <= now
            /\ g.pc \in {"idle", "called", "issued"} => ~g.overran
        BY <3>1, <3>3 DEF IInv
      <3> QED
        BY <1>a, <3>2, <3>3, <3>4
    <2> QED
      BY <1>b, <2>1, <2>2
  <1>4. location' \in [Drivers -> 0..now \cup {NoRow}]
    BY <1>0 DEF CallReport, IssueUpsert, Upsert, TouchProfile, FailReport, IInv, TypeOK, ReportTo
  <1>5. \A d : d \in Overrun => d \in Overrun'
    BY <1>3 DEF Overrun
  <1>6. /\ \A d \in Drivers : d # report[u].driver => location'[d] = location[d]
        /\ \/ location' = location
           \/ Upsert(u) /\ location'[report[u].driver] = report[u].at
    BY <1>0 DEF CallReport, IssueUpsert, Upsert, TouchProfile, FailReport, IInv, TypeOK, ReportTo, Report
  <1>7. ASSUME NEW d \in Drivers, NEW t \in 0..MaxTime, location[d] # NoRow,
               location[d] >= t \/ d \in Overrun
        PROVE  location'[d] # NoRow /\ (location'[d] >= t \/ d \in Overrun')
    <2>1. CASE location'[d] = location[d]
      BY <1>5, <1>7, <2>1
    <2>2. CASE Upsert(u) /\ d = report[u].driver /\ location'[d] = report[u].at
      <3>1. report[u].at \in 0..MaxTime /\ location[d] \in 0..now /\ now \in Nat
        BY <1>0, <1>7, SearchAssumption DEF IInv, TypeOK, Report
      <3>2. CASE location[d] > report[u].at
        BY <1>3, <1>b, <1>7, <2>2, <3>1, <3>2, SearchAssumption DEF Overrun
      <3>3. CASE ~(location[d] > report[u].at)
        BY <1>5, <1>7, <2>2, <3>1, <3>3, SearchAssumption
      <3> QED
        BY <3>2, <3>3
    <2> QED
      BY <1>6, <2>1, <2>2
  <1>8. ASSUME NEW s \in Searches PROVE Kept(search[s])'
    <2>1. Kept(search[s]) /\ search[s] \in Search /\ search' = search
      BY <1>1 DEF IInv, TypeOK
    <2>2. search[s].sent \in Seq(Candidate)
      BY <2>1 DEF Search
    <2>3. \A k \in DOMAIN search[s].sent :
            search[s].sent[k].driver \in Drivers /\ search[s].sent[k].found \in 0..MaxTime
      <3>1. \A x \in Candidate : x.driver \in Drivers /\ x.found \in 0..MaxTime
        BY DEF Candidate
      <3>2. \A k \in DOMAIN search[s].sent : search[s].sent[k] \in Candidate
        BY <2>2
      <3> QED
        BY <3>1, <3>2
    <2> QED
      BY <1>5, <1>7, <2>1, <2>3 DEF Kept
  <1> HIDE DEF row
  <1>9. TypeOK'
    BY <1>1, <1>3, <1>4 DEF IInv, TypeOK, Good
  <1> QED
    BY <1>1, <1>2, <1>3, <1>8, <1>9 DEF IInv, Good

LEMMA SeqOfSet ==
    ASSUME NEW S, IsFiniteSet(S), NEW p \in SetToSeqs(S)
    PROVE  p \in Seq(S)
  BY FS_CardinalityType DEF SetToSeqs

LEMMA FindAvailableStep == ASSUME IInv, NEW s \in Searches, FindAvailable(s) PROVE IInv'
  <1>1. PICK order \in SetToSeqs(Available(s)) :
          SearchTo(s, [search[s] EXCEPT !.pc = IF order = <<>> THEN "ranked" ELSE "filtered",
                                        !.sent = Candidates(FirstOf(order))])
    BY DEF FindAvailable
  <1>0. /\ search[s] \in Search /\ search[s].pc = "found" /\ Recent(search[s])
        /\ InTime(search[s], reply[s]) /\ reply \in [Searches -> {"none", "drivers", "error", "timeout"}]
        /\ reply' = reply
    BY DEF IInv, TypeOK, FindAvailable
  <1>2. IsFiniteSet(Available(s)) /\ Available(s) \subseteq Drivers
    BY SearchAssumption, FS_Subset DEF Available
  <1>3. order \in Seq(Available(s))
    BY <1>2, SeqOfSet
  <1> DEFINE f == FirstOf(order)
  <1>4. f \in Seq(Available(s)) /\ Len(f) <= MaxCandidates
    BY <1>3, SearchAssumption DEF FirstOf
  <1> HIDE DEF f
  <1>5. \A d \in Available(s) : location[d] \in 0..MaxTime /\ search[s].since <= location[d] + Fresh
    BY SearchAssumption DEF Available, IInv, TypeOK
  <1> DEFINE c == Candidates(f)
  <1>6. c = [k \in 1..Len(f) |->
               [driver |-> f[k], found |-> location[f[k]], at |-> location[f[k]]]]
    BY <1>4 DEF Candidates
  <1>7. \A k \in 1..Len(f) :
          /\ f[k] \in Available(s) /\ c[k] \in Candidate /\ c[k].driver = f[k]
          /\ c[k].found = location[f[k]] /\ c[k].at = location[f[k]]
    BY <1>2, <1>4, <1>5, <1>6 DEF Candidate
  <1> HIDE DEF c
  <1>8. /\ c \in Seq(Candidate) /\ Len(c) = Len(f)
        /\ \A k \in DOMAIN c : search[s].since <= c[k].found + Fresh
        /\ \A k \in DOMAIN c : /\ location[c[k].driver] # NoRow
                               /\ c[k].found = location[c[k].driver] /\ c[k].at = c[k].found
                               /\ c[k].found \in Nat
    BY <1>4, <1>5, <1>6, <1>7, SearchAssumption
  <1> DEFINE h == [search[s] EXCEPT !.pc = IF order = <<>> THEN "ranked" ELSE "filtered", !.sent = c]
  <1>9. /\ h \in Search /\ h.pc \in {"filtered", "ranked"} /\ h.sent = c
        /\ h.calledAt = search[s].calledAt /\ h.since = search[s].since
        /\ h.ranked = search[s].ranked
    BY <1>0, <1>8 DEF Search, Running
  <1>10. SearchTo(s, h)
    BY <1>1 DEF c, f
  <1> HIDE DEF h
  <1>11. h.ranked = <<>> /\ DOMAIN h.ranked = {}
    BY <1>0, <1>9 DEF Recent
  <1>12. Recent(h)
    BY <1>0, <1>8, <1>9, <1>11 DEF Recent
  <1>13. InTime(h, reply[s])
    BY <1>0, <1>9 DEF InTime, Running
  <1>14. reply' = [reply EXCEPT ![s] = reply[s]] /\ reply[s] \in {"none", "drivers", "error", "timeout"}
    BY <1>0
  <1>15. Kept(h)
    BY <1>8, <1>9, <1>11 DEF Kept
  <1> QED
    BY <1>4, <1>8, <1>9, <1>10, <1>12, <1>13, <1>14, <1>15, SearchMoves

LEMMA ReadLocationsStep == ASSUME IInv, NEW s \in Searches, ReadLocations(s) PROVE IInv'
  <1> DEFINE sent == search[s].sent
  <1> DEFINE c == [k \in DOMAIN sent |-> [sent[k] EXCEPT !.at = location[sent[k].driver]]]
  <1> DEFINE h == [search[s] EXCEPT !.pc = "asked", !.sent = c]
  <1>0. /\ search[s] \in Search /\ search[s].pc = "filtered" /\ Recent(search[s])
        /\ InTime(search[s], reply[s]) /\ reply \in [Searches -> {"none", "drivers", "error", "timeout"}]
        /\ reply' = reply /\ Len(sent) <= MaxCandidates /\ Kept(search[s])
    BY DEF IInv, TypeOK, ReadLocations
  <1>1. SearchTo(s, h)
    BY DEF ReadLocations
  <1>2. sent \in Seq(Candidate)
    BY <1>0 DEF Search
  <1>3. ASSUME NEW k \in DOMAIN sent
        PROVE  /\ c[k] \in Candidate /\ c[k].driver = sent[k].driver
               /\ c[k].found = sent[k].found /\ c[k].at = location[sent[k].driver]
    <2>1. sent[k] \in Candidate /\ location[sent[k].driver] # NoRow
      BY <1>0, <1>2 DEF Kept
    <2>2. location[sent[k].driver] \in 0..MaxTime
      BY <2>1, SearchAssumption DEF Candidate, IInv, TypeOK
    <2> QED
      BY <2>1, <2>2 DEF Candidate
  <1>4. c \in Seq(Candidate) /\ DOMAIN c = DOMAIN sent /\ Len(c) = Len(sent)
    <2>1. /\ DOMAIN c = DOMAIN sent /\ DOMAIN sent = 1..Len(sent) /\ Len(sent) \in Nat
          /\ c = [k \in DOMAIN sent |-> c[k]]
      BY <1>2
    <2> HIDE DEF c
    <2>2. c \in [1..Len(sent) -> Candidate]
      BY <1>3, <2>1
    <2> QED
      BY <2>1, <2>2
  <1>5. \A k \in DOMAIN c : /\ search[s].since <= c[k].found + Fresh
                            /\ c[k].at >= c[k].found \/ c[k].driver \in Overrun
    BY <1>0, <1>3, <1>4 DEF Recent, Kept
  <1> HIDE DEF c
  <1>6. /\ h \in Search /\ h.pc = "asked" /\ h.sent = c /\ h.ranked = search[s].ranked
        /\ h.calledAt = search[s].calledAt /\ h.since = search[s].since
    BY <1>0, <1>4 DEF Search, Running
  <1> HIDE DEF h
  <1>7. Recent(h) /\ Kept(h)
    BY <1>0, <1>5, <1>6 DEF Recent, Kept
  <1>8. InTime(h, reply[s])
    BY <1>0, <1>6 DEF InTime, Running
  <1>9. reply' = [reply EXCEPT ![s] = reply[s]] /\ reply[s] \in {"none", "drivers", "error", "timeout"}
    BY <1>0
  <1> HIDE DEF sent
  <1> QED
    BY <1>0, <1>1, <1>4, <1>6, <1>7, <1>8, <1>9, SearchMoves

LEMMA RankStep == ASSUME IInv, NEW s \in Searches, RankDrivers(s) PROVE IInv'
  <1>1. PICK m \in Matrices : \E p \in SetToSeqs(Usable(s, m)) :
          SearchTo(s, [search[s] EXCEPT !.pc = "ranked", !.elements = m,
                                        !.ranked = [k \in DOMAIN p |-> Route(s, m[p[k]])]])
    BY DEF RankDrivers
  <1>2. PICK p \in SetToSeqs(Usable(s, m)) :
          SearchTo(s, [search[s] EXCEPT !.pc = "ranked", !.elements = m,
                                        !.ranked = [k \in DOMAIN p |-> Route(s, m[p[k]])]])
    BY <1>1
  <1>0. /\ search[s] \in Search /\ search[s].pc = "asked" /\ Recent(search[s])
        /\ InTime(search[s], reply[s]) /\ reply \in [Searches -> {"none", "drivers", "error", "timeout"}]
        /\ reply' = reply /\ Len(search[s].sent) <= MaxCandidates /\ Kept(search[s])
    BY DEF IInv, TypeOK, RankDrivers
  <1>3. PICK n \in 0..MaxCandidates :
          m \in [1..n -> [origin: 0..MaxCandidates, duration: Durations \cup {NoRoute}]]
    BY DEF Matrices
  <1>4. n \in Nat /\ m \in Seq(Element) /\ DOMAIN m = 1..n
    <2>1. n \in Nat
      BY <1>3, SearchAssumption
    <2>2. 0..MaxCandidates \subseteq Nat
      BY SearchAssumption
    <2>3. [origin: 0..MaxCandidates, duration: Durations \cup {NoRoute}] \subseteq Element
      BY <2>2 DEF Element
    <2>4. m \in [1..n -> Element]
      BY <1>3, <2>3
    <2> QED
      BY <2>1, <2>4
  <1>5. IsFiniteSet(Usable(s, m)) /\ Usable(s, m) \subseteq 1..n
    BY <1>4, FS_Interval, FS_Subset DEF Usable
  <1>6. p \in Seq(Usable(s, m))
    BY <1>5, SeqOfSet
  <1> DEFINE R == [driver: Drivers, found: 0..MaxTime, at: 0..MaxTime, duration: Durations]
  <1> DEFINE q == [k \in DOMAIN p |-> Route(s, m[p[k]])]
  <1>7. ASSUME NEW i \in Usable(s, m)
        PROVE  LET x == Route(s, m[i]) IN
               x \in R /\ search[s].since <= x.found + Fresh /\ (x.at >= x.found \/ x.driver \in Overrun)
    <2>1. /\ m[i].origin \in Nat /\ m[i].origin < Len(search[s].sent)
          /\ m[i].duration \in Durations
      BY <1>3, <1>4, <1>5, SearchAssumption DEF Usable
    <2>2. search[s].sent \in Seq(Candidate)
      BY <1>0 DEF Search
    <2>3. m[i].origin + 1 \in DOMAIN search[s].sent
      BY <2>1, <2>2
    <2> DEFINE c == search[s].sent[m[i].origin + 1]
    <2>4. /\ c \in Candidate /\ search[s].since <= c.found + Fresh
          /\ c.at >= c.found \/ c.driver \in Overrun
      BY <1>0, <2>2, <2>3 DEF Recent, Kept
    <2>5. Route(s, m[i]) = [driver |-> c.driver, found |-> c.found, at |-> c.at,
                            duration |-> m[i].duration]
      BY DEF Route
    <2> HIDE DEF c
    <2> QED
      BY <2>1, <2>4, <2>5 DEF Candidate
  <1>8. \A k \in DOMAIN p : p[k] \in Usable(s, m)
    BY <1>6
  <1>9. /\ DOMAIN q = DOMAIN p
        /\ \A k \in DOMAIN p : /\ q[k] \in R /\ search[s].since <= q[k].found + Fresh
                               /\ q[k].at >= q[k].found \/ q[k].driver \in Overrun
    BY <1>7, <1>8
  <1>10. q \in Seq(R)
    <2>1. DOMAIN p = 1..Len(p) /\ Len(p) \in Nat
      BY <1>6
    <2> HIDE DEF R
    <2>2. q \in [1..Len(p) -> R]
      BY <1>9, <2>1
    <2> HIDE DEF q
    <2> QED
      BY <2>1, <2>2
  <1> HIDE DEF q
  <1> DEFINE h == [search[s] EXCEPT !.pc = "ranked", !.elements = m, !.ranked = q]
  <1>11. /\ h \in Search /\ h.pc = "ranked" /\ h.sent = search[s].sent
         /\ h.calledAt = search[s].calledAt /\ h.since = search[s].since /\ h.ranked = q
    BY <1>0, <1>4, <1>10 DEF Search, Running
  <1>12. SearchTo(s, h)
    BY <1>2 DEF q
  <1> HIDE DEF h
  <1>13. Recent(h) /\ Kept(h)
    BY <1>0, <1>9, <1>11 DEF Recent, Kept
  <1>14. InTime(h, reply[s])
    BY <1>0, <1>11 DEF InTime, Running
  <1>15. reply' = [reply EXCEPT ![s] = reply[s]] /\ reply[s] \in {"none", "drivers", "error", "timeout"}
    BY <1>0
  <1> QED
    BY <1>0, <1>11, <1>12, <1>13, <1>14, <1>15, SearchMoves

\* The other steps of a search write no candidates.
LEMMA SearchStep ==
    ASSUME IInv, NEW s \in Searches,
           CallSearch(s) \/ FindDelivery(s) \/ AnswerSearch(s) \/ FailSearch(s)
    PROVE  IInv'
  <1>0. /\ search[s] \in Search /\ Recent(search[s]) /\ InTime(search[s], reply[s])
        /\ Kept(search[s]) /\ reply \in [Searches -> {"none", "drivers", "error", "timeout"}]
        /\ Len(search[s].sent) <= MaxCandidates /\ now \in 0..MaxTime /\ now \in Nat
    BY DEF IInv, TypeOK
  <1>1. CASE CallSearch(s)
    <2> DEFINE h == [search[s] EXCEPT !.pc = "called", !.calledAt = now]
    <2>1. SearchTo(s, h) /\ reply' = [reply EXCEPT ![s] = reply[s]] /\ search[s].pc = "idle"
      BY <1>0, <1>1 DEF CallSearch
    <2>2. /\ h \in Search /\ h.pc = "called" /\ h.calledAt = now
          /\ h.sent = search[s].sent /\ h.ranked = search[s].ranked
      BY <1>0 DEF Search, Running
    <2> HIDE DEF h
    <2>3. Recent(h) /\ InTime(h, reply[s]) /\ Kept(h)
      BY <1>0, <2>1, <2>2, SearchAssumption DEF Recent, InTime, Running, Kept
    <2> QED
      BY <1>0, <2>1, <2>2, <2>3, SearchMoves
  <1>2. CASE FindDelivery(s)
    <2> DEFINE h == [search[s] EXCEPT !.pc = "found", !.since = now]
    <2>1. SearchTo(s, h) /\ reply' = [reply EXCEPT ![s] = reply[s]] /\ search[s].pc = "called"
      BY <1>0, <1>2 DEF FindDelivery
    <2>2. /\ h \in Search /\ h.pc = "found" /\ h.since = now /\ h.calledAt = search[s].calledAt
          /\ h.sent = search[s].sent /\ h.ranked = search[s].ranked
      BY <1>0 DEF Search, Running
    <2> HIDE DEF h
    <2>3. Recent(h) /\ InTime(h, reply[s]) /\ Kept(h)
      BY <1>0, <2>1, <2>2 DEF Recent, InTime, Running, Kept
    <2> QED
      BY <1>0, <2>1, <2>2, <2>3, SearchMoves
  <1>3. CASE AnswerSearch(s)
    <2> DEFINE h == [search[s] EXCEPT !.pc = "done", !.answeredAt = now]
    <2> DEFINE r == IF reply[s] = "none" THEN "drivers" ELSE reply[s]
    <2>1. SearchTo(s, h) /\ reply' = [reply EXCEPT ![s] = r] /\ search[s].pc = "ranked"
      BY <1>3 DEF AnswerSearch, Tell
    <2>2. /\ h \in Search /\ h.pc = "done" /\ h.answeredAt = now /\ h.since = search[s].since
          /\ h.calledAt = search[s].calledAt
          /\ h.sent = search[s].sent /\ h.ranked = search[s].ranked
      BY <1>0 DEF Search, Running
    <2>3. r \in {"none", "drivers", "error", "timeout"} /\ r # "none"
          /\ (r = "drivers" => reply[s] = "none")
      BY <1>0, <2>1 DEF InTime, Running
    <2> HIDE DEF h, r
    <2>4. Recent(h) /\ InTime(h, r) /\ Kept(h)
      BY <1>0, <2>1, <2>2, <2>3 DEF Recent, InTime, Running, Kept
    <2> QED
      BY <1>0, <2>1, <2>2, <2>3, <2>4, SearchMoves
  <1>4. CASE FailSearch(s)
    <2> DEFINE h == [search[s] EXCEPT !.pc = "failed"]
    <2> DEFINE r == IF reply[s] = "none" THEN "error" ELSE reply[s]
    <2>1. /\ SearchTo(s, h) /\ reply' = [reply EXCEPT ![s] = r]
          /\ search[s].pc \in {"called", "found", "filtered", "asked"}
      BY <1>4 DEF FailSearch, Tell
    <2>2. /\ h \in Search /\ h.pc = "failed" /\ h.calledAt = search[s].calledAt
          /\ h.sent = search[s].sent /\ h.ranked = search[s].ranked
      BY <1>0 DEF Search, Running
    <2>3. r \in {"none", "drivers", "error", "timeout"} /\ r # "drivers"
      BY <1>0, <2>1 DEF InTime, Running
    <2> HIDE DEF h, r
    <2>4. Recent(h) /\ InTime(h, r) /\ Kept(h)
      BY <1>0, <2>1, <2>2, <2>3 DEF Recent, InTime, Running, Kept
    <2> QED
      BY <1>0, <2>1, <2>2, <2>3, <2>4, SearchMoves
  <1> QED
    BY <1>1, <1>2, <1>3, <1>4

LEMMA TimeOutStep == ASSUME IInv, NEW s \in Searches, TimeOut(s) PROVE IInv'
  <1>1. /\ UNCHANGED <<now, location, available, report, search>>
        /\ reply' = [reply EXCEPT ![s] = IF reply[s] = "none" THEN "timeout" ELSE reply[s]]
        /\ reply[s] = "none"
    BY DEF TimeOut, Late, Tell
  <1>2. reply' = [reply EXCEPT ![s] = "timeout"]
        /\ reply \in [Searches -> {"none", "drivers", "error", "timeout"}]
    BY <1>1 DEF IInv, TypeOK
  <1>3. TypeOK'
    BY <1>1, <1>2 DEF IInv, TypeOK
  <1>4. reply'[s] = "timeout" /\ \A q \in Searches : q # s => reply'[q] = reply[q]
    BY <1>2
  <1>5. \A q \in Searches : (Recent(search[q]) /\ InTime(search[q], reply[q]) /\ Kept(search[q]))'
    BY <1>1, <1>4 DEF IInv, Recent, InTime, Kept, Overrun
  <1> QED
    BY <1>1, <1>3, <1>5 DEF IInv

LEMMA TickStep == ASSUME IInv, Tick PROVE IInv'
  <1>1. /\ now \in Nat /\ now' = now + 1 /\ now' \in 0..MaxTime
        /\ UNCHANGED <<location, available, report, search, reply>>
    BY SearchAssumption DEF IInv, TypeOK, Tick
  <1>2. location' \in [Drivers -> 0..now' \cup {NoRow}]
    BY <1>1 DEF IInv, TypeOK
  <1>3. TypeOK'
    BY <1>1, <1>2 DEF IInv, TypeOK
  <1>4. \A u \in Reports : /\ report'[u].at <= now'
                           /\ report'[u].pc \in {"idle", "called", "issued"} => ~report'[u].overran
    BY <1>1 DEF IInv, TypeOK, Report
  <1>5. ASSUME NEW s \in Searches
        PROVE  (Recent(search[s]) /\ InTime(search[s], reply[s]) /\ Kept(search[s]))'
    <2>1. /\ search[s] \in Search /\ Recent(search[s]) /\ InTime(search[s], reply[s])
          /\ ~Late(s)
      BY DEF IInv, TypeOK, Tick
    <2>2. search[s].calledAt \in Nat /\ search[s].since \in Nat
      BY <2>1 DEF Search
    <2>3. search' = search /\ reply' = reply
      BY <1>1
    <2>4. Recent(search[s])'
      BY <1>1, <2>1, <2>2, <2>3 DEF Recent
    <2>5. InTime(search[s], reply[s])'
      BY <1>1, <2>1, <2>2, <2>3, SearchAssumption DEF InTime, Late
    <2>6. Kept(search[s])'
      BY <1>1, <2>3 DEF IInv, Kept, Overrun
    <2> QED
      BY <2>4, <2>5, <2>6
  <1> QED
    BY <1>3, <1>4, <1>5 DEF IInv

LEMMA QuietStep ==
    ASSUME IInv, (\E d \in Drivers : ChangeProfile(d)) \/ UNCHANGED vars
    PROVE  IInv'
  <1>1. /\ UNCHANGED <<now, location, report, search, reply>>
        /\ available' \in [Drivers -> BOOLEAN]
    BY DEF ChangeProfile, vars, IInv, TypeOK
  <1> QED
    BY <1>1 DEF IInv, TypeOK, Recent, InTime, Kept, Overrun

LEMMA NextIInv == IInv /\ [Next]_vars => IInv'
  BY ReportStep, FindAvailableStep, ReadLocationsStep, RankStep, SearchStep, TimeOutStep, TickStep, QuietStep
  DEF Next

-----------------------------------------------------------------------------
(* What is offered is what the routes service has ranked.                  *)

\* The driver that an element of the matrix is about.
Names(h, e, r) ==
    /\ e.origin + 1 \in DOMAIN h.sent
    /\ h.sent[e.origin + 1].driver = r.driver
    /\ e.duration \in Durations
    /\ e.duration = r.duration

\* The ranked offers and the usable elements correspond, and the former are sorted.
Sorted(h) ==
    /\ \A k \in DOMAIN h.ranked : \E i \in DOMAIN h.elements : Names(h, h.elements[i], h.ranked[k])
    /\ \A i \in DOMAIN h.elements :
          h.elements[i].origin + 1 \in DOMAIN h.sent /\ h.elements[i].duration # NoRoute
             => \E k \in DOMAIN h.ranked : Names(h, h.elements[i], h.ranked[k])
    /\ \A i, j \in DOMAIN h.ranked : i < j =>
          /\ h.ranked[i].driver # h.ranked[j].driver
          /\ h.ranked[i].duration <= h.ranked[j].duration

\* A question names a driver once.
Ranks(h) ==
    /\ h.pc \in {"filtered", "asked"} =>
          \A i, j \in DOMAIN h.sent : i # j => h.sent[i].driver # h.sent[j].driver
    /\ h.pc \in {"ranked", "done"} => Sorted(h)

Ranking == \A s \in Searches : Ranks(search[s])

LEMMA Permutation ==
    ASSUME NEW S, IsFiniteSet(S), NEW p \in SetToSeqs(S)
    PROVE  /\ p \in Seq(S)
           /\ \A i, j \in DOMAIN p : i # j => p[i] # p[j]
           /\ \A x \in S : \E k \in DOMAIN p : p[k] = x
  <1> DEFINE n == Cardinality(S)
  <1>1. n \in Nat
    BY FS_CardinalityType
  <1>2. p \in [1..n -> S] /\ \A i, j \in 1..n : i # j => p[i] # p[j]
    BY DEF SetToSeqs
  <1>3. p \in Injection(1..n, S)
    BY <1>2 DEF Injection, IsInjective
  <1>4. Cardinality(1..n) = n
    BY <1>1, FS_Interval
  <1> HIDE DEF n
  <1>5. n = Cardinality(S)
    BY DEF n
  <1>6. p \in Surjection(1..n, S)
    BY <1>3, <1>4, <1>5, FS_Injection
  <1> QED
    BY <1>1, <1>2, <1>6 DEF Surjection

LEMMA RankingMoves ==
    ASSUME IInv, Ranking, NEW s \in Searches, NEW h, SearchTo(s, h), Ranks(h)
    PROVE  Ranking'
  <1>1. search'[s] = h /\ \A q \in Searches : q # s => search'[q] = search[q]
    BY DEF SearchTo, IInv, TypeOK
  <1> QED
    BY <1>1 DEF Ranking, Ranks, Sorted, Names

LEMMA FindRanking ==
    ASSUME IInv, Ranking, NEW s \in Searches, FindAvailable(s)
    PROVE  Ranking'
  <1>1. PICK order \in SetToSeqs(Available(s)) :
          SearchTo(s, [search[s] EXCEPT !.pc = IF order = <<>> THEN "ranked" ELSE "filtered",
                                        !.sent = Candidates(FirstOf(order))])
    BY DEF FindAvailable
  <1>0. search[s] \in Search /\ search[s].pc = "found" /\ Recent(search[s])
    BY DEF IInv, TypeOK, FindAvailable
  <1>2. IsFiniteSet(Available(s))
    BY SearchAssumption, FS_Subset DEF Available
  <1>3. order \in Seq(Available(s)) /\ \A i, j \in DOMAIN order : i # j => order[i] # order[j]
    BY <1>2, Permutation
  <1> DEFINE f == FirstOf(order)
  <1>4. /\ f \in Seq(Available(s)) /\ DOMAIN f \subseteq DOMAIN order
        /\ \A k \in DOMAIN f : f[k] = order[k]
    BY <1>3, SearchAssumption DEF FirstOf
  <1> HIDE DEF f
  <1> DEFINE c == Candidates(f)
  <1>5. DOMAIN c = DOMAIN f /\ \A k \in DOMAIN c : c[k].driver = f[k]
    BY DEF Candidates
  <1>6. order = <<>> => DOMAIN c = {}
    BY <1>4, <1>5
  <1> HIDE DEF c
  <1> DEFINE h == [search[s] EXCEPT !.pc = IF order = <<>> THEN "ranked" ELSE "filtered", !.sent = c]
  <1>7. /\ h.pc = IF order = <<>> THEN "ranked" ELSE "filtered"
        /\ h.sent = c /\ h.ranked = search[s].ranked
    BY <1>0 DEF Search
  <1>8. SearchTo(s, h)
    BY <1>1 DEF c, f
  <1> HIDE DEF h
  <1>9. DOMAIN h.ranked = {}
    BY <1>0, <1>7 DEF Recent
  <1>10. Ranks(h)
    BY <1>3, <1>4, <1>5, <1>6, <1>7, <1>9 DEF Ranks, Sorted
  <1> QED
    BY <1>8, <1>10, RankingMoves

LEMMA ReadRanking ==
    ASSUME IInv, Ranking, NEW s \in Searches, ReadLocations(s)
    PROVE  Ranking'
  <1> DEFINE sent == search[s].sent
  <1> DEFINE c == [k \in DOMAIN sent |-> [sent[k] EXCEPT !.at = location[sent[k].driver]]]
  <1> DEFINE h == [search[s] EXCEPT !.pc = "asked", !.sent = c]
  <1>1. search[s] \in Search /\ Ranks(search[s]) /\ search[s].pc = "filtered"
    BY DEF IInv, TypeOK, Ranking, ReadLocations
  <1>2. sent \in Seq(Candidate)
    BY <1>1 DEF Search
  <1>3. DOMAIN c = DOMAIN sent /\ \A k \in DOMAIN sent : c[k].driver = sent[k].driver
    BY <1>2 DEF Candidate
  <1>4. SearchTo(s, h)
    BY DEF ReadLocations
  <1> HIDE DEF c
  <1>5. h.pc = "asked" /\ h.sent = c
    BY <1>1 DEF Search
  <1> HIDE DEF h
  <1>6. Ranks(h)
    BY <1>1, <1>3, <1>5 DEF Ranks
  <1> QED
    BY <1>4, <1>6, RankingMoves

LEMMA RankRanking ==
    ASSUME IInv, Ranking, NEW s \in Searches, RankDrivers(s)
    PROVE  Ranking'
  <1>1. PICK m \in Matrices : \E p \in SetToSeqs(Usable(s, m)) :
          /\ StableSort(m, p)
          /\ SearchTo(s, [search[s] EXCEPT !.pc = "ranked", !.elements = m,
                                           !.ranked = [k \in DOMAIN p |-> Route(s, m[p[k]])]])
    BY DEF RankDrivers
  <1>2. PICK p \in SetToSeqs(Usable(s, m)) :
          /\ StableSort(m, p)
          /\ SearchTo(s, [search[s] EXCEPT !.pc = "ranked", !.elements = m,
                                           !.ranked = [k \in DOMAIN p |-> Route(s, m[p[k]])]])
    BY <1>1
  <1>0. search[s] \in Search /\ search[s].pc = "asked" /\ search[s].sent \in Seq(Candidate)
    BY DEF IInv, TypeOK, RankDrivers, Search
  <1>3. PICK n \in 0..MaxCandidates :
          m \in [1..n -> [origin: 0..MaxCandidates, duration: Durations \cup {NoRoute}]]
    BY DEF Matrices
  <1>4. \A i, j \in DOMAIN m : i # j => m[i].origin # m[j].origin
    BY DEF Matrices
  <1>5. /\ n \in Nat /\ DOMAIN m = 1..n
        /\ \A i \in DOMAIN m : m[i].origin \in Nat /\ m[i].duration \in Durations \cup {NoRoute}
    BY <1>3, SearchAssumption
  <1>6. IsFiniteSet(Usable(s, m)) /\ Usable(s, m) \subseteq DOMAIN m
    BY <1>5, FS_Interval, FS_Subset DEF Usable
  <1>7. /\ p \in Seq(Usable(s, m))
        /\ \A i, j \in DOMAIN p : i # j => p[i] # p[j]
        /\ \A x \in Usable(s, m) : \E k \in DOMAIN p : p[k] = x
    BY <1>6, Permutation
  <1>8. /\ \A k \in DOMAIN p : p[k] \in Usable(s, m)
        /\ DOMAIN p \subseteq Nat
    BY <1>7
  <1>9. DOMAIN search[s].sent = 1..Len(search[s].sent) /\ Len(search[s].sent) \in Nat
    BY <1>0
  <1>10. \A i \in DOMAIN m : i \in Usable(s, m) <=> /\ m[i].origin + 1 \in DOMAIN search[s].sent
                                                    /\ m[i].duration # NoRoute
    BY <1>5, <1>9 DEF Usable
  <1> DEFINE q == [k \in DOMAIN p |-> Route(s, m[p[k]])]
  <1>11. /\ DOMAIN q = DOMAIN p
         /\ \A k \in DOMAIN p : /\ q[k].driver = search[s].sent[m[p[k]].origin + 1].driver
                                /\ q[k].duration = m[p[k]].duration
    BY DEF Route
  <1> DEFINE h == [search[s] EXCEPT !.pc = "ranked", !.elements = m, !.ranked = q]
  <1>12. SearchTo(s, h)
    BY <1>2
  <1> HIDE DEF q
  <1>13. h.pc = "ranked" /\ h.sent = search[s].sent /\ h.elements = m /\ h.ranked = q
    BY <1>0 DEF Search
  <1> HIDE DEF h
  <1>14. ASSUME NEW k \in DOMAIN p PROVE Names(h, m[p[k]], q[k])
    BY <1>5, <1>6, <1>8, <1>10, <1>11, <1>13, <1>14 DEF Names
  <1>15. \A k \in DOMAIN q : \E i \in DOMAIN m : Names(h, m[i], q[k])
    BY <1>6, <1>8, <1>11, <1>14
  <1>16. \A i \in DOMAIN m : m[i].origin + 1 \in DOMAIN h.sent /\ m[i].duration # NoRoute
                                => \E k \in DOMAIN q : Names(h, m[i], q[k])
    BY <1>7, <1>10, <1>11, <1>13, <1>14
  <1>17. ASSUME NEW i \in DOMAIN p, NEW j \in DOMAIN p, i < j
         PROVE  q[i].driver # q[j].driver /\ q[i].duration <= q[j].duration
    <2>1. i # j /\ p[i] # p[j] /\ p[i] \in DOMAIN m /\ p[j] \in DOMAIN m
      BY <1>6, <1>7, <1>8, <1>17
    <2>2. m[p[i]].origin + 1 # m[p[j]].origin + 1
      BY <1>4, <1>5, <2>1
    <2>3. \A a, b \in DOMAIN search[s].sent :
            a # b => search[s].sent[a].driver # search[s].sent[b].driver
      BY <1>0 DEF Ranking, Ranks
    <2>4. q[i].driver # q[j].driver
      BY <1>8, <1>10, <1>11, <2>1, <2>2, <2>3
    <2>5. /\ m[p[i]].duration \in Nat /\ m[p[j]].duration \in Nat
          /\ \/ m[p[i]].duration < m[p[j]].duration
             \/ m[p[i]].duration = m[p[j]].duration
      BY <1>2, <1>5, <1>8, <1>10, <1>17, <2>1, SearchAssumption DEF StableSort
    <2> QED
      BY <1>11, <2>4, <2>5
  <1>18. Ranks(h)
    BY <1>11, <1>13, <1>15, <1>16, <1>17 DEF Ranks, Sorted
  <1> QED
    BY <1>12, <1>18, RankingMoves

\* The other steps of a search leave its candidates and offers alone.
LEMMA SearchRanking ==
    ASSUME IInv, Ranking, NEW s \in Searches,
           CallSearch(s) \/ FindDelivery(s) \/ AnswerSearch(s) \/ FailSearch(s)
    PROVE  Ranking'
  <1>0. search[s] \in Search /\ Ranks(search[s])
    BY DEF IInv, TypeOK, Ranking
  <1>1. CASE AnswerSearch(s)
    <2> DEFINE h == [search[s] EXCEPT !.pc = "done", !.answeredAt = now]
    <2>1. SearchTo(s, h) /\ search[s].pc = "ranked"
      BY <1>1 DEF AnswerSearch
    <2>2. /\ h.pc = "done" /\ h.sent = search[s].sent
          /\ h.elements = search[s].elements /\ h.ranked = search[s].ranked
      BY <1>0 DEF Search
    <2> HIDE DEF h
    <2>3. Ranks(h)
      BY <1>0, <2>1, <2>2 DEF Ranks, Sorted, Names
    <2> QED
      BY <2>1, <2>3, RankingMoves
  <1>2. CASE CallSearch(s) \/ FindDelivery(s) \/ FailSearch(s)
    <2>1. PICK h : SearchTo(s, h) /\ h.pc \in {"called", "found", "failed"}
      <3>1. CASE CallSearch(s)
        <4> DEFINE h == [search[s] EXCEPT !.pc = "called", !.calledAt = now]
        <4>1. SearchTo(s, h) /\ h.pc = "called"
          BY <1>0, <3>1 DEF CallSearch, Search
        <4> QED
          BY <4>1
      <3>2. CASE FindDelivery(s)
        <4> DEFINE h == [search[s] EXCEPT !.pc = "found", !.since = now]
        <4>1. SearchTo(s, h) /\ h.pc = "found"
          BY <1>0, <3>2 DEF FindDelivery, Search
        <4> QED
          BY <4>1
      <3>3. CASE FailSearch(s)
        <4> DEFINE h == [search[s] EXCEPT !.pc = "failed"]
        <4>1. SearchTo(s, h) /\ h.pc = "failed"
          BY <1>0, <3>3 DEF FailSearch, Search
        <4> QED
          BY <4>1
      <3> QED
        BY <1>2, <3>1, <3>2, <3>3
    <2>2. Ranks(h)
      BY <2>1 DEF Ranks
    <2> QED
      BY <2>1, <2>2, RankingMoves
  <1> QED
    BY <1>1, <1>2

LEMMA NextRanking == IInv /\ Ranking /\ [Next]_vars => Ranking'
  <1> SUFFICES ASSUME IInv, Ranking, [Next]_vars PROVE Ranking'
    OBVIOUS
  <1>1. ASSUME search' = search PROVE Ranking'
    BY <1>1 DEF Ranking, Ranks, Sorted, Names
  <1>2. ASSUME NEW u \in Reports,
               CallReport(u) \/ IssueUpsert(u) \/ Upsert(u) \/ TouchProfile(u) \/ FailReport(u)
        PROVE  search' = search
    BY <1>2 DEF CallReport, IssueUpsert, Upsert, TouchProfile, FailReport, ReportTo
  <1>3. ASSUME (\E s \in Searches : TimeOut(s)) \/ (\E d \in Drivers : ChangeProfile(d))
                  \/ Tick \/ UNCHANGED vars
        PROVE  search' = search
    BY <1>3 DEF TimeOut, ChangeProfile, Tick, vars
  <1> QED
    BY <1>1, <1>2, <1>3, FindRanking, ReadRanking, RankRanking, SearchRanking DEF Next

\* Minutes are rounded up to the next whole one.
LEMMA RoundedUp ==
    ASSUME NEW d \in Nat, NEW b \in Nat \ {0}
    PROVE  /\ d <= ((d + b - 1) \div b) * b
           /\ d + b > ((d + b - 1) \div b) * b
  <1> DEFINE a == d + b - 1
  <1> DEFINE q == a \div b
  <1>1. a \in Nat
    OBVIOUS
  <1> HIDE DEF a
  <1>2. q \in Nat /\ b * q <= a /\ a < b * q + b
    BY <1>1
  <1> HIDE DEF q
  <1>3. b * q = q * b /\ q * b \in Nat
    BY <1>2
  <1>4. d <= q * b /\ d + b > q * b
    BY <1>1, <1>2, <1>3 DEF a
  <1> QED
    BY <1>4 DEF a, q

-----------------------------------------------------------------------------
(* The theorems.                                                           *)

\* IInv is an inductive invariant of reports and searches: what is found was fresh
\* at a time after the search was called, and what is told is told in time.
THEOREM Invariance == Spec => []IInv
  <1> QED
    BY InitIInv, NextIInv, PTL DEF Spec

\* No location is of the future, and no question has more than MaxCandidates origins.
THEOREM TypeCorrect == Spec => []TypeOK
  <1>1. IInv => TypeOK
    BY DEF IInv
  <1> QED
    BY <1>1, Invariance, PTL

\* A driver is only offered if he had reported at most the time of a fresh location and
\* the time limit of a request before, and by the location of that report or a later
\* one, unless a report of his overran another.
THEOREM OffersAlwaysFresh == Spec => []OffersFresh
  <1>1. IInv => OffersFresh
    <2> SUFFICES ASSUME IInv, NEW s \in Searches, reply[s] = "drivers",
                        NEW k \in DOMAIN search[s].ranked
                 PROVE  LET offer == search[s].ranked[k] IN
                        /\ search[s].answeredAt <= offer.found + Fresh + TimeLimit
                        /\ \/ offer.at >= offer.found
                           \/ offer.driver \in Overrun
      BY DEF OffersFresh
    <2>1. /\ search[s] \in Search /\ Recent(search[s]) /\ InTime(search[s], reply[s])
          /\ Kept(search[s])
      BY DEF IInv, TypeOK
    <2>2. /\ search[s].calledAt \in Nat /\ search[s].since \in Nat /\ search[s].answeredAt \in Nat
          /\ search[s].ranked[k].found \in Nat
      <3> DEFINE R == [driver: Drivers, found: 0..MaxTime, at: 0..MaxTime, duration: Durations]
      <3>1. /\ search[s].calledAt \in 0..MaxTime /\ search[s].since \in 0..MaxTime
            /\ search[s].answeredAt \in 0..MaxTime /\ search[s].ranked \in Seq(R)
        BY <2>1 DEF Search
      <3>2. \A x \in R : x.found \in 0..MaxTime
        OBVIOUS
      <3> HIDE DEF R
      <3>3. search[s].ranked[k] \in R
        BY <3>1
      <3> QED
        BY <3>1, <3>2, <3>3, SearchAssumption
    <2>3. /\ search[s].calledAt <= search[s].since
          /\ search[s].since <= search[s].ranked[k].found + Fresh
          /\ search[s].answeredAt <= search[s].calledAt + TimeLimit
      BY <2>1 DEF Recent, InTime
    <2>4. \/ search[s].ranked[k].at >= search[s].ranked[k].found
          \/ search[s].ranked[k].driver \in Overrun
      BY <2>1 DEF Kept, InTime
    <2> QED
      BY <2>2, <2>3, <2>4, SearchAssumption
  <1> QED
    BY <1>1, Invariance, PTL

\* The client is told just the drivers with a usable element of the matrix, each once and
\* the nearest first, with the minutes of his own route.
THEOREM OffersAlwaysRanked == Spec => []OffersRanked
  <1>1. Init => Ranking
    BY DEF Init, Ranking, Ranks
  <1>2. IInv /\ Ranking => OffersRanked
    <2> SUFFICES ASSUME IInv, Ranking, NEW s \in Searches, reply[s] = "drivers"
                 PROVE  LET h == search[s]
                            Offered(k, e) ==
                              /\ e.origin + 1 \in DOMAIN h.sent
                              /\ h.sent[e.origin + 1].driver = h.ranked[k].driver
                              /\ e.duration \in Durations
                              /\ e.duration <= EstimatedMinutes(h.ranked[k]) * Minute
                              /\ e.duration + Minute > EstimatedMinutes(h.ranked[k]) * Minute
                        IN /\ \A k \in DOMAIN h.ranked : \E e \in Range(h.elements) : Offered(k, e)
                           /\ \A e \in Range(h.elements) :
                                 (e.origin + 1 \in DOMAIN h.sent /\ e.duration # NoRoute)
                                    => \E k \in DOMAIN h.ranked : Offered(k, e)
                           /\ \A i, j \in DOMAIN h.ranked : i < j =>
                                 /\ h.ranked[i].driver # h.ranked[j].driver
                                 /\ h.ranked[i].duration <= h.ranked[j].duration
      BY DEF OffersRanked
    <2> DEFINE h == search[s]
    <2> DEFINE Offered(k, e) ==
                 /\ e.origin + 1 \in DOMAIN h.sent
                 /\ h.sent[e.origin + 1].driver = h.ranked[k].driver
                 /\ e.duration \in Durations
                 /\ e.duration <= EstimatedMinutes(h.ranked[k]) * Minute
                 /\ e.duration + Minute > EstimatedMinutes(h.ranked[k]) * Minute
    <2>1. Sorted(h)
      BY DEF IInv, InTime, Ranking, Ranks
    <2> HIDE DEF h
    <2>2. ASSUME NEW k, NEW e, Names(h, e, h.ranked[k]) PROVE Offered(k, e)
      <3>1. e.duration \in Nat /\ h.ranked[k].duration = e.duration
        BY <2>2, SearchAssumption DEF Names
      <3>2. /\ e.duration <= EstimatedMinutes(h.ranked[k]) * Minute
            /\ e.duration + Minute > EstimatedMinutes(h.ranked[k]) * Minute
        BY <3>1, RoundedUp, SearchAssumption DEF EstimatedMinutes
      <3> QED
        BY <2>2, <3>2 DEF Names
    <2> HIDE DEF Offered
    <2>3. \A k \in DOMAIN h.ranked : \E e \in Range(h.elements) : Offered(k, e)
      BY <2>1, <2>2 DEF Sorted, Range
    <2>4. \A e \in Range(h.elements) :
            (e.origin + 1 \in DOMAIN h.sent /\ e.duration # NoRoute)
               => \E k \in DOMAIN h.ranked : Offered(k, e)
      BY <2>1, <2>2 DEF Sorted, Range
    <2>5. \A i, j \in DOMAIN h.ranked : i < j =>
            /\ h.ranked[i].driver # h.ranked[j].driver
            /\ h.ranked[i].duration <= h.ranked[j].duration
      BY <2>1 DEF Sorted
    <2>6. /\ \A k \in DOMAIN h.ranked : \E e \in Range(h.elements) : Offered(k, e)
          /\ \A e \in Range(h.elements) :
                (e.origin + 1 \in DOMAIN h.sent /\ e.duration # NoRoute)
                   => \E k \in DOMAIN h.ranked : Offered(k, e)
          /\ \A i, j \in DOMAIN h.ranked : i < j =>
                /\ h.ranked[i].driver # h.ranked[j].driver
                /\ h.ranked[i].duration <= h.ranked[j].duration
      BY <2>3, <2>4, <2>5
    <2> QED
      BY <2>6, Zenon DEF h, Offered
  <1> QED
    BY <1>1, <1>2, NextRanking, Invariance, PTL DEF Spec

=============================================================================
