--------------------------- MODULE MenuCacheProofs ---------------------------
(***************************************************************************)
(* Theorems about MenuCache, for any readers, writers and times.           *)
(***************************************************************************)
EXTENDS MenuCache, TLAPS

\* A menu was the newest one until at least t.
LastsUntil(v, t) == v \in 0..Current /\ (v < Current => t <= changes[v + 1])

\* What a reader holds was the newest menu when it was read, not long ago, and
\* has every item that is said to be shown.
Fresh(r) ==
    /\ reader[r].pc \in Holding => /\ LastsUntil(reader[r].menu, reader[r].readAt)
                                   /\ now <= reader[r].readAt + MaxFill
                                   /\ reader[r].readAt <= now
    /\ reader[r].pc = "read" => shown <= reader[r].menu
    /\ reader[r].answer # None => reader[r].pc = "done"

\* What is in the cache lasted until the time of a fill before it expires.
CacheFresh ==
    cache # None => /\ cache.menu \in 0..Current
                    /\ cache.menu < Current => cache.expires <= changes[cache.menu + 1] + (TTL + MaxFill)

Inserted == \A w \in Writers : writer[w].pc = "inserted" => writer[w].menu \in 0..Current

IInv ==
    /\ TypeOK
    /\ \A r \in Readers : Fresh(r)
    /\ CacheFresh
    /\ Inserted
    /\ NewItemShown

-----------------------------------------------------------------------------
LEMMA Sums ==
    ASSUME NEW n \in Nat, NEW a \in Nat, NEW e \in Nat, NEW t \in Nat, NEW f \in Nat,
           n <= a + f, a <= e
    PROVE  n + t <= e + (t + f)
  OBVIOUS

LEMMA InitIInv == Init => IInv
  <1> SUFFICES ASSUME Init PROVE IInv
    OBVIOUS
  <1>1. changes = <<>> /\ Current = 0
    BY DEF Init, Current
  <1>2. TypeOK
    <2>1. now \in 0..MaxTime /\ changes \in Seq(0..now) /\ shown \in 0..Current
      BY <1>1, MenuAssumption DEF Init
    <2>2. reader \in [Readers -> Reader]
      BY DEF Init, Reader
    <2>3. writer \in [Writers -> Writer]
      BY DEF Init, Writer
    <2> QED
      BY <2>1, <2>2, <2>3 DEF Init, TypeOK
  <1>3. \A r \in Readers : Fresh(r)
    BY DEF Init, Fresh, Holding
  <1> QED
    BY <1>2, <1>3 DEF Init, IInv, CacheFresh, Inserted, NewItemShown

\* Another change ends the newest menu now, and no other menu.
LEMMA ChangeLasts ==
    ASSUME TypeOK, changes' = Append(changes, now)
    PROVE  /\ Current' = Current + 1 /\ Current \in Nat
           /\ changes' \in Seq(0..now)
           /\ \A v \in 0..Current :
                 changes'[v + 1] = IF v < Current THEN changes[v + 1] ELSE now
  <1>1. changes \in Seq(0..now) /\ now \in 0..now
    BY MenuAssumption DEF TypeOK
  <1> QED
    BY <1>1 DEF Current

\* One reader moves, and nothing but it and the cache changes.
LEMMA ReaderMoves ==
    ASSUME IInv, NEW r \in Readers, NEW h \in Reader,
           reader' = [reader EXCEPT ![r] = h],
           UNCHANGED <<now, changes, gone, writer, shown>>,
           h.pc \in Holding => /\ LastsUntil(h.menu, h.readAt)
                               /\ now <= h.readAt + MaxFill
                               /\ h.readAt <= now,
           h.pc = "read" => shown <= h.menu,
           h.answer # None => h.pc = "done",
           \/ cache' = cache
           \/ /\ cache' = [menu |-> reader[r].menu, expires |-> now + TTL]
              /\ reader[r].pc = "read"
    PROVE  IInv'
  <1>1. reader'[r] = h /\ \A q \in Readers : q # r => reader'[q] = reader[q]
    BY DEF IInv, TypeOK
  <1>2. Current' = Current
    BY DEF Current
  <1>3. \A q \in Readers : Fresh(q)'
    BY <1>1, <1>2 DEF IInv, Fresh, LastsUntil
  <1>4. Inserted'
    BY <1>2 DEF IInv, Inserted
  <1>5. reader' \in [Readers -> Reader]
    BY DEF IInv, TypeOK
  <1>6. CASE cache' = cache
    <2>1. CacheFresh' /\ NewItemShown'
      BY <1>2, <1>6 DEF IInv, CacheFresh, NewItemShown
    <2>2. TypeOK'
      BY <1>2, <1>5, <1>6 DEF IInv, TypeOK
    <2> QED
      BY <1>3, <1>4, <2>1, <2>2 DEF IInv
  <1>7. CASE /\ cache' = [menu |-> reader[r].menu, expires |-> now + TTL]
             /\ reader[r].pc = "read"
    <2>1. /\ reader[r].menu \in 0..Current /\ reader[r].readAt \in Nat
          /\ reader[r].menu < Current => reader[r].readAt <= changes[reader[r].menu + 1]
          /\ now <= reader[r].readAt + MaxFill
          /\ shown <= reader[r].menu
      BY <1>7 DEF IInv, Fresh, LastsUntil, Holding, TypeOK, Reader
    <2>2. cache'.menu = reader[r].menu /\ cache'.expires = now + TTL
      BY <1>7
    <2>3. now \in Nat /\ changes \in Seq(Nat)
      BY DEF IInv, TypeOK
    <2>4. reader[r].menu < Current => changes[reader[r].menu + 1] \in Nat
      <3>1. Current \in Nat /\ DOMAIN changes = 1..Current
        BY <2>3 DEF Current
      <3>2. reader[r].menu < Current => reader[r].menu + 1 \in 1..Current
        BY <2>1, <3>1
      <3> QED
        BY <2>3, <3>1, <3>2
    <2>5. CacheFresh'
      <3>1. reader[r].menu < Current
              => now + TTL <= changes[reader[r].menu + 1] + (TTL + MaxFill)
        BY <2>1, <2>3, <2>4, MenuAssumption, Sums
      <3>2. changes' = changes
        OBVIOUS
      <3> QED
        BY <1>2, <2>1, <2>2, <3>1, <3>2 DEF CacheFresh
    <2>6. NewItemShown'
      BY <2>1, <2>2 DEF NewItemShown
    <2>7. cache' \in [menu: 0..Current, expires: 0..(now + TTL)]
      BY <1>7, <2>1, <2>3, MenuAssumption
    <2>8. TypeOK'
      BY <1>2, <1>5, <2>7 DEF IInv, TypeOK
    <2> QED
      BY <1>3, <1>4, <2>5, <2>6, <2>8 DEF IInv
  <1> QED
    BY <1>6, <1>7

LEMMA ReaderSteps ==
    ASSUME IInv, NEW r \in Readers,
           \/ CallRead(r) \/ GetCached(r) \/ CheckRestaurant(r) \/ FindItems(r)
           \/ Fill(r) \/ AnswerRead(r) \/ CacheFails(r) \/ FailRead(r)
    PROVE  IInv'
  <1> DEFINE h(pc) == [reader[r] EXCEPT !.pc = pc]
  <1>0. reader[r] \in Reader /\ Fresh(r)
    BY DEF IInv, TypeOK
  <1>1. \A pc \in Holding \cup {"called", "missed", "checked", "done", "failed"} :
          /\ h(pc) \in Reader /\ h(pc).pc = pc
          /\ h(pc).menu = reader[r].menu /\ h(pc).readAt = reader[r].readAt
          /\ h(pc).answer = reader[r].answer
    BY <1>0 DEF Reader
  <1> HIDE DEF h
  <1>2. ASSUME NEW pc \in {"called", "missed", "checked", "failed"},
               Read(r, pc), UNCHANGED cache, reader[r].pc # "done"
        PROVE  IInv'
    <2>1. reader' = [reader EXCEPT ![r] = h(pc)]
      BY <1>2 DEF Read, h
    <2>2. reader[r].answer = None
      BY <1>0, <1>2 DEF Fresh
    <2> QED
      BY <1>1, <1>2, <2>1, <2>2, ReaderMoves DEF Read, Holding
  <1>3. CASE CallRead(r)
    BY <1>2, <1>3 DEF CallRead
  <1>4. CASE CheckRestaurant(r)
    BY <1>2, <1>4 DEF CheckRestaurant
  <1>5. CASE FailRead(r)
    BY <1>2, <1>5 DEF FailRead
  <1>6. CASE GetCached(r)
    <2>1. CASE Read(r, "missed")
      BY <1>2, <1>6, <2>1 DEF GetCached
    <2>2. CASE ~Read(r, "missed")
      <3> DEFINE g == [reader[r] EXCEPT !.pc = "done", !.answer = cache.menu]
      <3>1. /\ reader' = [reader EXCEPT ![r] = g] /\ cache' = cache /\ cache # None
            /\ UNCHANGED <<now, changes, gone, writer, shown>>
        BY <1>6, <2>2 DEF GetCached
      <3>2. cache.menu \in Nat
        BY <3>1 DEF IInv, TypeOK, Current
      <3>3. g \in Reader /\ g.pc = "done"
        BY <1>0, <3>2 DEF Reader
      <3> HIDE DEF g
      <3> QED
        BY <3>1, <3>3, ReaderMoves DEF Holding
    <2> QED
      BY <2>1, <2>2
  <1>7. CASE FindItems(r)
    <2> DEFINE g == [reader[r] EXCEPT !.pc = "read", !.menu = Current, !.readAt = now]
    <2>1. /\ reader' = [reader EXCEPT ![r] = g] /\ cache' = cache
          /\ UNCHANGED <<now, changes, gone, writer, shown>>
          /\ reader[r].answer = None
      BY <1>0, <1>7 DEF FindItems, Fresh
    <2>2. now \in Nat /\ Current \in Nat /\ shown \in 0..Current
      BY DEF IInv, TypeOK, Current
    <2>3. /\ g \in Reader /\ g.pc = "read" /\ g.menu = Current /\ g.readAt = now
          /\ g.answer = reader[r].answer
      BY <1>0, <2>2 DEF Reader, Holding
    <2> HIDE DEF g
    <2>4. /\ LastsUntil(g.menu, g.readAt) /\ now <= g.readAt + MaxFill
          /\ g.readAt <= now /\ shown <= g.menu /\ g.answer = None
      BY <2>1, <2>2, <2>3, MenuAssumption DEF LastsUntil
    <2> QED
      BY <2>1, <2>2, <2>3, <2>4, ReaderMoves
  <1>8. CASE Fill(r)
    <2>1. /\ reader' = [reader EXCEPT ![r] = h("filled")]
          /\ UNCHANGED <<now, changes, gone, writer, shown>>
          /\ reader[r].pc = "read"
          /\ cache' = [menu |-> reader[r].menu, expires |-> now + TTL]
      BY <1>8 DEF Fill, Read, h
    <2>2. /\ LastsUntil(reader[r].menu, reader[r].readAt)
          /\ now <= reader[r].readAt + MaxFill /\ reader[r].readAt <= now
          /\ reader[r].answer = None
      BY <1>0, <2>1 DEF Fresh, Holding
    <2> DEFINE g == h("filled")
    <2>3. /\ g \in Reader /\ g.pc = "filled" /\ g.menu = reader[r].menu
          /\ g.readAt = reader[r].readAt /\ g.answer = None
          /\ reader' = [reader EXCEPT ![r] = g]
      BY <1>1, <2>1, <2>2 DEF Holding
    <2>4. LastsUntil(g.menu, g.readAt) /\ now <= g.readAt + MaxFill /\ g.readAt <= now
      BY <2>2, <2>3
    <2> HIDE DEF g
    <2> QED
      BY <2>1, <2>3, <2>4, ReaderMoves
  <1>9. CASE AnswerRead(r)
    <2> DEFINE g == [reader[r] EXCEPT !.pc = "done", !.answer = reader[r].menu]
    <2>1. /\ reader' = [reader EXCEPT ![r] = g] /\ cache' = cache
          /\ UNCHANGED <<now, changes, gone, writer, shown>>
      BY <1>9 DEF AnswerRead
    <2>2. g \in Reader /\ g.pc = "done"
      BY <1>0 DEF Reader
    <2> HIDE DEF g
    <2> QED
      BY <2>1, <2>2, ReaderMoves DEF Holding
  <1>10. CASE CacheFails(r)
    <2>1. CASE Read(r, "missed") /\ reader[r].pc = "called"
      BY <1>2, <1>10, <2>1 DEF CacheFails
    <2>2. CASE Read(r, "filled") /\ reader[r].pc = "read"
      <3> DEFINE g == h("filled")
      <3>1. /\ reader' = [reader EXCEPT ![r] = g] /\ cache' = cache
            /\ UNCHANGED <<now, changes, gone, writer, shown>>
        BY <1>10, <2>2 DEF Read, CacheFails, h
      <3>2. /\ g \in Reader /\ g.pc = "filled" /\ g.menu = reader[r].menu
            /\ g.readAt = reader[r].readAt /\ g.answer = reader[r].answer
        BY <1>1 DEF Holding
      <3>3. /\ LastsUntil(g.menu, g.readAt) /\ now <= g.readAt + MaxFill
            /\ g.readAt <= now /\ g.answer = None
        BY <1>0, <2>2, <3>2 DEF Fresh, Holding
      <3> HIDE DEF g
      <3> QED
        BY <3>1, <3>2, <3>3, ReaderMoves
    <2> QED
      BY <1>10, <2>1, <2>2 DEF CacheFails
  <1> QED
    BY <1>3, <1>4, <1>5, <1>6, <1>7, <1>8, <1>9, <1>10

LEMMA WriteStep == ASSUME IInv, NEW w \in Writers, Write(w) PROVE IInv'
  <1>0. /\ now \in Nat /\ Current \in Nat /\ writer[w] \in Writer
        /\ writer \in [Writers -> Writer] /\ reader \in [Readers -> Reader]
    BY DEF IInv, TypeOK, Current
  <1>1. CASE gone
    <2> DEFINE h == [writer[w] EXCEPT !.pc = "failed"]
    <2>1. /\ writer' = [writer EXCEPT ![w] = h]
          /\ UNCHANGED <<now, changes, gone, cache, reader, shown>>
      BY <1>1 DEF Write
    <2>2. h \in Writer /\ h.pc = "failed"
      BY <1>0 DEF Writer
    <2> HIDE DEF h
    <2>3. TypeOK' /\ Current' = Current
      BY <1>0, <2>1, <2>2 DEF IInv, TypeOK, Current
    <2>4. \A r \in Readers : Fresh(r)'
      BY <2>1, <2>3 DEF IInv, Fresh, LastsUntil
    <2>5. CacheFresh' /\ NewItemShown'
      BY <2>1, <2>3 DEF IInv, CacheFresh, NewItemShown
    <2>6. Inserted'
      BY <1>0, <2>1, <2>2, <2>3 DEF IInv, Inserted
    <2> QED
      BY <2>3, <2>4, <2>5, <2>6 DEF IInv
  <1>2. CASE ~gone
    <2> DEFINE h == [writer[w] EXCEPT !.pc = IF writer[w].op = "create" THEN "inserted" ELSE "done",
                                      !.menu = Current + 1]
    <2>1. /\ writer' = [writer EXCEPT ![w] = h]
          /\ changes' = Append(changes, now) /\ gone' \in BOOLEAN
          /\ now' = now /\ cache' = cache /\ reader' = reader /\ shown' = shown
      BY <1>2 DEF Write
    <2>2. h \in Writer /\ h.menu = Current + 1
      <3>1. Current + 1 \in Nat
        BY <1>0
      <3>2. CASE writer[w].op = "create"
        BY <1>0, <3>1, <3>2 DEF Writer
      <3>3. CASE writer[w].op # "create"
        BY <1>0, <3>1, <3>3 DEF Writer
      <3> QED
        BY <3>2, <3>3
    <2> HIDE DEF h
    <2>3. /\ Current' = Current + 1
          /\ changes' \in Seq(0..now)
          /\ \A v \in 0..Current :
                changes'[v + 1] = IF v < Current THEN changes[v + 1] ELSE now
      BY <2>1, ChangeLasts DEF IInv
    <2>4. \A v \in 0..Current : v \in 0..Current' /\ v < Current'
      BY <1>0, <2>3
    <2>5. TypeOK'
      <3>1. shown \in 0..Current'
        BY <2>4 DEF IInv, TypeOK
      <3>2. cache \in [menu: 0..Current', expires: 0..(now + TTL)] \cup {None}
        BY <2>4 DEF IInv, TypeOK
      <3> QED
        BY <1>0, <2>1, <2>2, <2>3, <3>1, <3>2 DEF IInv, TypeOK
    <2>6. ASSUME NEW r \in Readers PROVE Fresh(r)'
      <3>1. CASE reader[r].pc \in Holding
        <4>1. /\ reader[r].menu \in 0..Current /\ reader[r].readAt <= now
              /\ reader[r].menu < Current => reader[r].readAt <= changes[reader[r].menu + 1]
          BY <3>1 DEF IInv, Fresh, LastsUntil
        <4>2. reader[r].readAt <= changes'[reader[r].menu + 1]
          BY <2>3, <4>1
        <4>3. LastsUntil(reader[r].menu, reader[r].readAt)'
          BY <2>1, <2>4, <4>1, <4>2 DEF LastsUntil
        <4> QED
          BY <2>1, <3>1, <4>3 DEF IInv, Fresh
      <3>2. CASE reader[r].pc \notin Holding
        BY <2>1, <3>2 DEF IInv, Fresh, Holding
      <3> QED
        BY <3>1, <3>2
    <2>7. CacheFresh'
      <3> SUFFICES ASSUME cache # None PROVE /\ cache.menu \in 0..Current'
                                             /\ cache.expires <= changes'[cache.menu + 1] + (TTL + MaxFill)
        BY <2>1 DEF CacheFresh
      <3>1. /\ cache.menu \in 0..Current /\ cache.expires \in 0..(now + TTL)
            /\ cache.menu < Current => cache.expires <= changes[cache.menu + 1] + (TTL + MaxFill)
        BY DEF IInv, CacheFresh, TypeOK
      <3>2. cache.expires <= now + (TTL + MaxFill)
        BY <1>0, <3>1, MenuAssumption
      <3> QED
        BY <2>3, <2>4, <3>1, <3>2
    <2>8. Inserted'
      <3>1. h.menu \in 0..Current'
        BY <1>0, <2>2, <2>3
      <3> QED
        BY <1>0, <2>1, <2>4, <3>1 DEF IInv, Inserted
    <2>9. NewItemShown'
      BY <2>1 DEF IInv, NewItemShown
    <2> QED
      BY <2>5, <2>6, <2>7, <2>8, <2>9 DEF IInv
  <1> QED
    BY <1>1, <1>2

\* The other steps of a writer change no menu.
LEMMA WriterMoves ==
    ASSUME IInv, NEW w \in Writers, CallWrite(w) \/ DeleteCached(w) \/ FailWrite(w)
    PROVE  IInv'
  <1>1. PICK pc \in {"called", "done", "failed"} : writer' = [writer EXCEPT ![w].pc = pc]
    BY DEF CallWrite, DeleteCached, FailWrite
  <1>2. UNCHANGED <<now, changes, gone, reader>> /\ Current' = Current
    BY DEF CallWrite, DeleteCached, FailWrite, Current
  <1>3. writer' \in [Writers -> Writer]
    BY <1>1 DEF IInv, TypeOK, Writer
  <1>4. Inserted'
    BY <1>1, <1>2 DEF IInv, Inserted, TypeOK, Writer
  <1>5. CASE UNCHANGED <<cache, shown>>
    <2>1. TypeOK'
      BY <1>2, <1>3, <1>5 DEF IInv, TypeOK
    <2>2. \A r \in Readers : Fresh(r)'
      BY <1>2, <1>5 DEF IInv, Fresh, LastsUntil
    <2>3. CacheFresh' /\ NewItemShown'
      BY <1>2, <1>5 DEF IInv, CacheFresh, NewItemShown
    <2> QED
      BY <1>4, <2>1, <2>2, <2>3 DEF IInv
  <1>6. CASE DeleteCached(w)
    <2>1. /\ cache' = None /\ writer[w].pc = "inserted"
          /\ shown' = IF NoLateFill(w) /\ writer[w].menu > shown THEN writer[w].menu ELSE shown
      BY <1>6 DEF DeleteCached
    <2>2. writer[w].menu \in 0..Current /\ shown \in 0..Current
      BY <2>1 DEF IInv, Inserted, TypeOK
    <2>3. shown' \in 0..Current
      BY <2>1, <2>2
    <2>4. TypeOK'
      BY <1>2, <1>3, <2>1, <2>3 DEF IInv, TypeOK
    <2>5. ASSUME NEW r \in Readers PROVE Fresh(r)'
      <3>1. CASE reader[r].pc = "read"
        <4>1. NoLateFill(w) => writer[w].menu <= reader[r].menu
          BY <2>2, <3>1 DEF NoLateFill, IInv, TypeOK, Reader
        <4>2. shown' <= reader[r].menu
          BY <2>1, <3>1, <4>1 DEF IInv, Fresh
        <4> QED
          BY <1>2, <3>1, <4>2 DEF IInv, Fresh, LastsUntil, Holding
      <3>2. CASE reader[r].pc # "read"
        BY <1>2, <3>2 DEF IInv, Fresh, LastsUntil
      <3> QED
        BY <3>1, <3>2
    <2>6. CacheFresh' /\ NewItemShown'
      BY <2>1 DEF CacheFresh, NewItemShown
    <2> QED
      BY <1>4, <2>4, <2>5, <2>6 DEF IInv
  <1> QED
    BY <1>5, <1>6 DEF CallWrite, FailWrite

LEMMA TickStep == ASSUME IInv, Tick PROVE IInv'
  <1>1. /\ now' = now + 1 /\ now \in Nat /\ now' \in 0..MaxTime
        /\ UNCHANGED <<changes, gone, cache, reader, writer, shown>>
        /\ \A r \in Readers : reader[r].pc \in Holding => now < reader[r].readAt + MaxFill
    BY MenuAssumption DEF Tick, IInv, TypeOK
  <1>2. Current' = Current
    BY <1>1 DEF Current
  <1>3. TypeOK'
    <2>1. changes' \in Seq(0..now')
      <3>1. \A i \in DOMAIN changes : changes[i] \in 0..now'
        BY <1>1 DEF IInv, TypeOK
      <3> QED
        BY <1>1, <3>1 DEF IInv, TypeOK
    <2>2. 0..(now + TTL) \subseteq 0..(now' + TTL)
      BY <1>1, MenuAssumption
    <2>3. cache' \in [menu: 0..Current', expires: 0..(now' + TTL)] \cup {None}
      BY <1>1, <1>2, <2>2 DEF IInv, TypeOK
    <2> QED
      BY <1>1, <1>2, <2>1, <2>3 DEF IInv, TypeOK
  <1>4. ASSUME NEW r \in Readers PROVE Fresh(r)'
    <2>1. reader[r].readAt \in Nat
      BY DEF IInv, TypeOK, Reader
    <2>2. reader[r].pc \in Holding => now' <= reader[r].readAt + MaxFill /\ reader[r].readAt <= now'
      BY <1>1, <2>1, MenuAssumption DEF IInv, Fresh
    <2> QED
      BY <1>1, <1>2, <2>2 DEF IInv, Fresh, LastsUntil
  <1>5. CacheFresh' /\ Inserted' /\ NewItemShown'
    BY <1>1, <1>2 DEF IInv, CacheFresh, Inserted, NewItemShown
  <1> QED
    BY <1>3, <1>4, <1>5 DEF IInv

LEMMA QuietStep == ASSUME IInv, Evict \/ UNCHANGED vars PROVE IInv'
  <1>1. /\ UNCHANGED <<now, changes, gone, reader, writer, shown>>
        /\ cache' = None \/ cache' = cache
        /\ Current' = Current
    BY DEF Evict, vars, Current
  <1>2. TypeOK'
    BY <1>1 DEF IInv, TypeOK
  <1>3. \A r \in Readers : Fresh(r)'
    BY <1>1 DEF IInv, Fresh, LastsUntil
  <1>4. CacheFresh' /\ Inserted' /\ NewItemShown'
    BY <1>1 DEF IInv, CacheFresh, Inserted, NewItemShown
  <1> QED
    BY <1>2, <1>3, <1>4 DEF IInv

LEMMA NextIInv == IInv /\ [Next]_vars => IInv'
  BY ReaderSteps, WriteStep, WriterMoves, TickStep, QuietStep DEF Next

-----------------------------------------------------------------------------
(* MenuCache implements StaleMenu.                                         *)

LEMMA RefinesInit == Init => Promise!Init
  BY DEF Init, Promise!Init, Answered

\* An answer that was the newest menu until Bound ago is one that may be shown.
LEMMA AnswerShows ==
    ASSUME IInv, NEW r \in Readers, NEW v \in 0..Current,
           reader[r].answer = None,
           v < Current => now <= changes[v + 1] + (TTL + MaxFill),
           reader' = [reader EXCEPT ![r].pc = "done", ![r].answer = v],
           UNCHANGED <<now, changes>>
    PROVE  Promise!Show(r)
  <1>1. reader \in [Readers -> Reader]
    BY DEF IInv, TypeOK
  <1>2. /\ reader'[r].answer = v
        /\ \A q \in Readers : q # r => reader'[q] = reader[q]
    BY <1>1 DEF Reader
  <1>3. Answered' = [Answered EXCEPT ![r] = v]
    <2>1. \A q \in Readers : reader'[q].answer = IF q = r THEN v ELSE reader[q].answer
      <3> TAKE q \in Readers
      <3>1. CASE q = r
        BY <1>2, <3>1
      <3>2. CASE q # r
        <4>1. reader'[q] = reader[q]
          BY <1>2, <3>2
        <4> QED
          BY <3>2, <4>1
      <3> QED
        BY <3>1, <3>2
    <2>2. Answered' = [q \in Readers |-> IF q = r THEN v ELSE reader[q].answer]
      BY <2>1, Zenon DEF Answered
    <2> QED
      BY <2>2 DEF Answered
  <1>4. Promise!Recent(v)
    BY DEF Promise!Recent, Current, IInv, TypeOK
  <1>5. Answered[r] = None
    BY DEF Answered
  <1> QED
    BY <1>3, <1>4, <1>5 DEF Promise!Show, Current

LEMMA ReaderRefines ==
    ASSUME IInv, NEW r \in Readers,
           \/ CallRead(r) \/ GetCached(r) \/ CheckRestaurant(r) \/ FindItems(r)
           \/ Fill(r) \/ AnswerRead(r) \/ CacheFails(r) \/ FailRead(r)
    PROVE  Promise!Show(r) \/ UNCHANGED Promise!vars
  <1>0. reader \in [Readers -> Reader] /\ now \in Nat /\ Fresh(r)
    BY DEF IInv, TypeOK
  <1>1. CASE GetCached(r) /\ cache # None /\ now < cache.expires
    <2>1. /\ reader' = [reader EXCEPT ![r].pc = "done", ![r].answer = cache.menu]
          /\ UNCHANGED <<now, changes>>
          /\ reader[r].pc = "called"
      BY <1>1 DEF GetCached
    <2>2. reader[r].answer = None
      BY <1>0, <2>1 DEF Fresh
    <2>3. /\ cache.menu \in 0..Current /\ cache.expires \in Nat
          /\ cache.menu < Current => cache.expires <= changes[cache.menu + 1] + (TTL + MaxFill)
      BY <1>1, MenuAssumption DEF IInv, CacheFresh, TypeOK
    <2>4. cache.menu < Current => changes[cache.menu + 1] \in Nat
      <3>1. changes \in Seq(Nat) /\ Current \in Nat /\ DOMAIN changes = 1..Current
        BY DEF IInv, TypeOK, Current
      <3>2. cache.menu < Current => cache.menu + 1 \in 1..Current
        BY <2>3, <3>1
      <3> QED
        BY <3>1, <3>2
    <2>5. cache.menu < Current => now <= changes[cache.menu + 1] + (TTL + MaxFill)
      BY <1>0, <1>1, <2>3, <2>4, MenuAssumption
    <2> QED
      BY <2>1, <2>2, <2>3, <2>5, AnswerShows
  <1>2. CASE AnswerRead(r)
    <2>1. /\ reader' = [reader EXCEPT ![r].pc = "done", ![r].answer = reader[r].menu]
          /\ UNCHANGED <<now, changes>>
          /\ reader[r].pc = "filled"
      BY <1>2 DEF AnswerRead
    <2>2. /\ reader[r].answer = None /\ reader[r].menu \in 0..Current
          /\ reader[r].menu < Current => reader[r].readAt <= changes[reader[r].menu + 1]
          /\ now <= reader[r].readAt + MaxFill
          /\ reader[r].readAt \in Nat
      BY <1>0, <2>1 DEF Fresh, LastsUntil, Holding, Reader
    <2>3. reader[r].menu < Current => changes[reader[r].menu + 1] \in Nat
      <3>1. changes \in Seq(Nat) /\ Current \in Nat /\ DOMAIN changes = 1..Current
        BY DEF IInv, TypeOK, Current
      <3>2. reader[r].menu < Current => reader[r].menu + 1 \in 1..Current
        BY <2>2, <3>1
      <3> QED
        BY <3>1, <3>2
    <2>4. reader[r].menu < Current => now <= changes[reader[r].menu + 1] + (TTL + MaxFill)
      BY <1>0, <2>2, <2>3, MenuAssumption
    <2> QED
      BY <2>1, <2>2, <2>4, AnswerShows
  <1>3. ASSUME NEW pc, Read(r, pc)
        PROVE  UNCHANGED Promise!vars
    <2>1. \A q \in Readers : reader'[q].answer = reader[q].answer
      BY <1>0, <1>3 DEF Read, Reader
    <2> QED
      BY <1>3, <2>1 DEF Read, Promise!vars, Answered
  <1>4. CASE FindItems(r)
    <2>1. \A q \in Readers : reader'[q].answer = reader[q].answer
      BY <1>0, <1>4 DEF FindItems, Reader
    <2> QED
      BY <1>4, <2>1 DEF FindItems, Promise!vars, Answered
  <1> QED
    BY <1>1, <1>2, <1>3, <1>4 DEF CallRead, GetCached, CheckRestaurant, Fill, CacheFails, FailRead

LEMMA StepRefines ==
    ASSUME IInv, [Next]_vars
    PROVE  Promise!Next \/ UNCHANGED Promise!vars
  <1>1. ASSUME NEW w \in Writers, Write(w)
        PROVE  Promise!Next \/ UNCHANGED Promise!vars
    BY <1>1 DEF Write, Promise!Next, Promise!Change, Promise!vars, Answered
  <1>2. ASSUME NEW w \in Writers, CallWrite(w) \/ DeleteCached(w) \/ FailWrite(w)
        PROVE  UNCHANGED Promise!vars
    BY <1>2 DEF CallWrite, DeleteCached, FailWrite, Promise!vars, Answered
  <1>3. CASE Tick
    BY <1>3 DEF Tick, Promise!Next, Promise!Tick, Answered
  <1>4. CASE Evict \/ UNCHANGED vars
    BY <1>4 DEF Evict, vars, Promise!vars, Answered
  <1> QED
    BY <1>1, <1>2, <1>3, <1>4, ReaderRefines DEF Next, Promise!Next

-----------------------------------------------------------------------------
(* The theorems.                                                           *)

\* IInv is an inductive invariant of the cache: whatever is held or cached ended, if
\* at all, after it was read.
THEOREM Invariance == Spec => []IInv
  <1> QED
    BY InitIInv, NextIInv, PTL DEF Spec

\* The clock, the changes, the entry and the handlers keep their types: an entry
\* never lives longer than the time to live.
THEOREM TypeCorrect == Spec => []TypeOK
  <1>1. IInv => TypeOK
    BY DEF IInv
  <1> QED
    BY <1>1, Invariance, PTL

\* An item that createMenuItem has made room for is on every menu in the cache.
THEOREM NewItemAlwaysShown == Spec => []NewItemShown
  <1>1. IInv => NewItemShown
    BY DEF IInv
  <1> QED
    BY <1>1, Invariance, PTL

\* ImplementsStaleMenu: no answer of getMenuItems is older than the time to live
\* and one fill together.
THEOREM Refinement == Spec => ImplementsStaleMenu
  <1>1. IInv /\ [Next]_vars => [Promise!Next]_Promise!vars
    BY StepRefines
  <1> QED
    BY <1>1, RefinesInit, Invariance, PTL DEF Spec, ImplementsStaleMenu, Promise!Spec

=============================================================================
