-------------------------- MODULE AddressBookProofs --------------------------
(***************************************************************************)
(* Theorems about AddressBook, for any addresses, calls and requests.      *)
(***************************************************************************)
EXTENDS AddressBook, FiniteSetTheorems, TLAPS

\* A call that has not overlapped has the book to itself.
Alone == \A c \in Calls : InFlight(c) /\ c \notin overlapped
                             => \A d \in Calls \ {c} : ~InFlight(d)

\* What setDefaultAddress has found and locked is all there is, if nobody disturbs it.
Kept(c) ==
    c \notin overlapped /\ call[c].request.op = "setDefault"
      => /\ call[c].pc = "clearing" => call[c].found = default
         /\ call[c].pc = "cleared" => call[c].locked = default
         /\ call[c].pc = "written" => default = {call[c].request.id}

\* A new row has the name of the call that has inserted it.
Written == {"written", "done", "failed"}

Named == \A c \in Calls : c \in Range(book) => /\ call[c].request.op = "create"
                                               /\ call[c].pc \in Written

IInv ==
    /\ TypeOK
    /\ Named
    /\ Alone
    /\ \A c \in Calls : Kept(c)

-----------------------------------------------------------------------------
(* Lemmas about sequences without repetition.                              *)

LEMMA RemoveAtType ==
    ASSUME NEW S, NEW s \in Seq(S), NEW k \in DOMAIN s, IsInjective(s)
    PROVE  /\ RemoveAt(s, k) \in Seq(S)
           /\ IsInjective(RemoveAt(s, k))
           /\ Range(RemoveAt(s, k)) = Range(s) \ {s[k]}
  <1> DEFINE t == RemoveAt(s, k)
  <1> DEFINE n == Len(s)
  <1>1. n \in Nat /\ k \in 1..n /\ DOMAIN s = 1..n
    OBVIOUS
  <1>2. t \in Seq(S) /\ Len(t) = n - 1
    BY <1>1 DEF RemoveAt
  <1>3. \A i \in 1..(n - 1) : t[i] = IF i < k THEN s[i] ELSE s[i + 1]
    <2> DEFINE u == SubSeq(s, 1, k - 1)
    <2> DEFINE v == SubSeq(s, k + 1, n)
    <2>1. /\ u \in Seq(S) /\ Len(u) = k - 1
          /\ \A i \in 1..(k - 1) : u[i] = s[i]
      BY <1>1
    <2>2. /\ v \in Seq(S) /\ Len(v) = n - k
          /\ \A i \in 1..(n - k) : v[i] = s[k + i]
      BY <1>1
    <2>3. t = u \o v
      BY DEF RemoveAt
    <2> HIDE DEF t, u, v, n
    <2> TAKE i \in 1..(n - 1)
    <2>4. CASE i < k
      <3>1. i \in 1..(k - 1)
        BY <1>1, <2>4
      <3> QED
        BY <1>1, <2>1, <2>2, <2>3, <2>4, <3>1
    <2>5. CASE ~(i < k)
      <3>1. (i - (k - 1)) \in 1..(n - k) /\ k + (i - (k - 1)) = i + 1
        BY <1>1, <2>5
      <3>2. t[i] = v[i - (k - 1)]
        BY <1>1, <2>1, <2>2, <2>3, <2>5, <3>1
      <3> QED
        BY <2>2, <2>5, <3>1, <3>2
    <2> QED
      BY <2>4, <2>5
  <1>4. DOMAIN t = 1..(n - 1)
    BY <1>1, <1>2
  <1>5. \A i, j \in 1..n : s[i] = s[j] => i = j
    BY <1>1 DEF IsInjective
  <1> HIDE DEF t, n
  <1>6. \A i, j \in 1..(n - 1) : t[i] = t[j] => i = j
    <2> TAKE i, j \in 1..(n - 1)
    <2>1. /\ i \in 1..n /\ i + 1 \in 1..n
          /\ j \in 1..n /\ j + 1 \in 1..n
      BY <1>1
    <2> QED
      BY <1>1, <1>3, <1>5, <2>1
  <1>7. Range(t) \subseteq Range(s) \ {s[k]}
    <2> SUFFICES ASSUME NEW i \in 1..(n - 1) PROVE t[i] \in Range(s) \ {s[k]}
      BY <1>4 DEF Range
    <2>1. i \in 1..n /\ i + 1 \in 1..n
      BY <1>1
    <2>2. t[i] # s[k] /\ \E j \in 1..n : t[i] = s[j]
      BY <1>1, <1>3, <1>5, <2>1
    <2> QED
      BY <1>1, <2>2 DEF Range
  <1>8. Range(s) \ {s[k]} \subseteq Range(t)
    <2> SUFFICES ASSUME NEW j \in 1..n, j # k PROVE s[j] \in Range(t)
      BY <1>1 DEF Range
    <2>1. CASE j < k
      BY <1>1, <1>3, <1>4, <2>1 DEF Range
    <2>2. CASE j > k
      <3>1. j - 1 \in 1..(n - 1) /\ ~(j - 1 < k) /\ (j - 1) + 1 = j
        BY <1>1, <2>2
      <3> QED
        BY <1>3, <1>4, <3>1 DEF Range
    <2> QED
      BY <1>1, <2>1, <2>2
  <1> QED
    BY <1>2, <1>4, <1>6, <1>7, <1>8 DEF IsInjective, t

LEMMA AppendType ==
    ASSUME NEW S, NEW s \in Seq(S), NEW a \in S, a \notin Range(s), IsInjective(s)
    PROVE  /\ Append(s, a) \in Seq(S)
           /\ IsInjective(Append(s, a))
           /\ Range(Append(s, a)) = Range(s) \cup {a}
  <1> DEFINE t == Append(s, a)
  <1> DEFINE n == Len(s)
  <1>1. /\ n \in Nat /\ DOMAIN s = 1..n
        /\ t \in Seq(S) /\ DOMAIN t = 1..(n + 1)
        /\ \A i \in 1..n : t[i] = s[i]
        /\ t[n + 1] = a
    OBVIOUS
  <1>2. \A i \in 1..(n + 1) : i \in 1..n \/ i = n + 1
    BY <1>1
  <1>3. \A i \in 1..n : i \in 1..(n + 1)
    BY <1>1
  <1>4. n + 1 \in 1..(n + 1)
    BY <1>1
  <1> HIDE DEF t, n
  <1>5. \A i, j \in 1..(n + 1) : t[i] = t[j] => i = j
    BY <1>1, <1>2 DEF IsInjective, Range
  <1>6. Range(t) = Range(s) \cup {a}
    BY <1>1, <1>2, <1>3, <1>4, Zenon DEF Range
  <1> QED
    BY <1>1, <1>5, <1>6 DEF IsInjective, t

-----------------------------------------------------------------------------
(* The inductive invariant holds initially and is preserved.               *)

LEMMA InitIInv == Init => IInv
  <1> SUFFICES ASSUME Init PROVE IInv
    OBVIOUS
  <1>1. PICK old \in SUBSET Old : book \in SetToSeqs(old)
    BY DEF Init
  <1>2. /\ book \in [1..Cardinality(old) -> old]
        /\ \A i, j \in 1..Cardinality(old) : i # j => book[i] # book[j]
    BY <1>1 DEF SetToSeqs
  <1>3. book \in Seq(Old) /\ IsInjective(book)
    <2>1. Cardinality(old) \in Nat
      BY AddressAssumption, FS_Subset, FS_CardinalityType
    <2> QED
      BY <1>2, <2>1 DEF IsInjective
  <1>4. Range(book) \subseteq Old
    BY <1>2 DEF Range
  <1>5. TypeOK
    BY <1>3, <1>4 DEF Init, TypeOK, Handler, Addresses
  <1>6. Named
    BY <1>4, AddressAssumption DEF Named
  <1>7. Alone /\ \A c \in Calls : Kept(c)
    BY DEF Init, Alone, Kept, InFlight, Running
  <1> QED
    BY <1>5, <1>6, <1>7 DEF IInv

\* One running handler moves on: what it does to the rows concerns no other one
\* that has not overlapped, since there is none.
LEMMA OneMoves ==
    ASSUME IInv, NEW c \in Calls, InFlight(c), overlapped' = overlapped,
           NEW h \in Handler, h.request = call[c].request,
           call' = [call EXCEPT ![c] = h],
           book' \in Seq(Addresses), IsInjective(book'), default' \subseteq Range(book'),
           Range(book') \subseteq Range(book) \cup {c},
           c \in Range(book') => h.request.op = "create" /\ h.pc \in Written,
           c \notin overlapped /\ h.request.op = "setDefault" =>
              /\ h.pc = "clearing" => h.found = default'
              /\ h.pc = "cleared" => h.locked = default'
              /\ h.pc = "written" => default' = {h.request.id}
    PROVE  IInv'
  <1>1. call'[c] = h /\ \A d \in Calls : d # c => call'[d] = call[d]
    BY DEF IInv, TypeOK
  <1>2. TypeOK'
    BY DEF IInv, TypeOK
  <1>3. Named'
    BY <1>1 DEF IInv, Named
  <1>4. Alone'
    <2> SUFFICES ASSUME NEW d \in Calls, InFlight(d)', d \notin overlapped,
                        NEW e \in Calls \ {d}
                 PROVE  ~InFlight(e)'
      BY DEF Alone
    <2>1. InFlight(d)
      BY <1>1 DEF InFlight
    <2>2. ~InFlight(e)
      BY <2>1 DEF IInv, Alone
    <2>3. e # c
      BY <2>2
    <2> QED
      BY <1>1, <2>2, <2>3 DEF InFlight
  <1>5. \A d \in Calls : Kept(d)'
    <2> TAKE d \in Calls
    <2>1. CASE d = c
      BY <1>1, <2>1 DEF Kept
    <2>2. CASE d # c
      <3>1. d \notin overlapped => ~InFlight(d)
        BY <2>2 DEF IInv, Alone
      <3> QED
        BY <1>1, <2>2, <3>1 DEF Kept, InFlight, Running
    <2> QED
      BY <2>1, <2>2
  <1> QED
    BY <1>2, <1>3, <1>4, <1>5 DEF IInv

LEMMA GoToStep ==
    ASSUME IInv, NEW c \in Calls, InFlight(c),
           NEW pc \in Running \cup {"done", "failed"}, NEW found \in SUBSET Addresses,
           GoTo(c, pc, found),
           book' \in Seq(Addresses), IsInjective(book'), default' \subseteq Range(book'),
           Range(book') \subseteq Range(book) \cup {c},
           c \in Range(book') => call[c].request.op = "create" /\ pc \in Written,
           c \notin overlapped /\ call[c].request.op = "setDefault" =>
              /\ pc = "clearing" => found = default'
              /\ pc # "cleared"
              /\ pc = "written" => default' = {call[c].request.id}
    PROVE  IInv'
  <1> DEFINE h == [call[c] EXCEPT !.pc = pc, !.found = found, !.locked = {}]
  <1>1. call[c] \in Handler
    BY DEF IInv, TypeOK
  <1>2. /\ h \in Handler /\ h.request = call[c].request
        /\ h.pc = pc /\ h.found = found /\ h.locked = {}
    BY <1>1 DEF Handler
  <1>3. call' = [call EXCEPT ![c] = h] /\ overlapped' = overlapped
    BY DEF GoTo
  <1> HIDE DEF h
  <1> QED
    BY <1>2, <1>3, OneMoves

\* A step that leaves the rows alone.
LEMMA ReadStep ==
    ASSUME IInv, NEW c \in Calls, InFlight(c), UNCHANGED <<book, default>>,
           NEW pc \in Running \cup {"done", "failed"}, NEW found \in SUBSET Addresses,
           GoTo(c, pc, found),
           c \in Range(book) => pc \in Written,
           c \notin overlapped /\ call[c].request.op = "setDefault" =>
              /\ pc = "clearing" => found = default
              /\ pc # "cleared"
              /\ pc = "written" => default = {call[c].request.id}
    PROVE  IInv'
  <1>1. c \in Range(book) => call[c].request.op = "create"
    BY DEF IInv, Named
  <1>2. /\ book \in Seq(Addresses) /\ IsInjective(book) /\ default \subseteq Range(book)
        /\ book' = book /\ default' = default
    BY DEF IInv, TypeOK
  <1> QED
    BY <1>1, <1>2, GoToStep

LEMMA FinishStep ==
    ASSUME IInv, NEW c \in Calls, InFlight(c), NEW pc \in {"done", "failed"}, Finish(c, pc)
    PROVE  IInv'
  BY ReadStep DEF Finish, Written

LEMMA CallStep == ASSUME IInv, NEW c \in Calls, Call(c) PROVE IInv'
  <1> DEFINE others == {d \in Calls : InFlight(d)}
  <1>1. /\ call[c].pc = "idle" /\ call' = [call EXCEPT ![c].pc = "called"]
        /\ overlapped' = IF others = {} THEN overlapped ELSE overlapped \cup others \cup {c}
        /\ book' = book /\ default' = default
    BY DEF Call
  <1>2. /\ call'[c].pc = "called" /\ call'[c].request = call[c].request
        /\ call'[c] \in Handler
        /\ \A d \in Calls : d # c => call'[d] = call[d]
    BY <1>1 DEF IInv, TypeOK, Handler, Running
  <1>3. TypeOK'
    <2>1. call' \in [Calls -> Handler]
      BY <1>1, <1>2 DEF IInv, TypeOK
    <2>2. overlapped' \subseteq Calls
      BY <1>1 DEF IInv, TypeOK
    <2> QED
      BY <1>1, <2>1, <2>2 DEF IInv, TypeOK
  <1>4. Named'
    <2>1. c \notin Range(book)
      BY <1>1 DEF IInv, Named, Written
    <2> QED
      BY <1>1, <1>2, <2>1 DEF IInv, Named
  <1>5. Alone'
    <2> SUFFICES ASSUME NEW d \in Calls, InFlight(d)', d \notin overlapped',
                        NEW e \in Calls \ {d}
                 PROVE  ~InFlight(e)'
      BY DEF Alone
    <2>1. others = {}
      BY <1>1, <1>2 DEF InFlight
    <2>2. \A b \in Calls : b # c => ~InFlight(b)'
      BY <1>2, <2>1 DEF InFlight
    <2> QED
      BY <2>2
  <1>6. \A d \in Calls : Kept(d)'
    BY <1>1, <1>2 DEF IInv, Kept
  <1> QED
    BY <1>3, <1>4, <1>5, <1>6 DEF IInv

LEMMA CrashStep == ASSUME IInv, Crash PROVE IInv'
  <1>1. /\ book' = book /\ default' = default /\ overlapped' = overlapped
        /\ call' = [c \in Calls |->
                      IF InFlight(c)
                        THEN [call[c] EXCEPT !.pc = "failed", !.found = {}, !.locked = {}]
                        ELSE call[c]]
    BY DEF Crash
  <1>2. \A c \in Calls : InFlight(c) => /\ call'[c].pc = "failed"
                                        /\ call'[c].request = call[c].request
                                        /\ call'[c] \in Handler
    BY <1>1 DEF IInv, TypeOK, Handler
  <1>3. \A c \in Calls : ~InFlight(c) => call'[c] = call[c]
    BY <1>1
  <1>4. TypeOK'
    BY <1>1, <1>2, <1>3 DEF IInv, TypeOK
  <1>5. Named'
    BY <1>1, <1>2, <1>3 DEF IInv, Named, Written
  <1>6. \A c \in Calls : ~InFlight(c)'
    BY <1>2, <1>3 DEF InFlight, Running
  <1>7. Alone'
    BY <1>6 DEF Alone
  <1>8. \A c \in Calls : Kept(c)'
    BY <1>1, <1>2, <1>3 DEF IInv, Kept
  <1> QED
    BY <1>4, <1>5, <1>7, <1>8 DEF IInv

LEMMA ReadingSteps ==
    ASSUME IInv, NEW c \in Calls,
           \/ FindAddress(c) \/ FindDefaults(c) \/ CountAddresses(c) \/ FindNext(c)
    PROVE  IInv'
  <1>0. /\ book \in Seq(Addresses) /\ default \subseteq Range(book)
        /\ Range(book) \subseteq Addresses
        /\ call[c].pc \in Running => InFlight(c) /\ (c \notin Range(book) \/ call[c].pc = "written")
    BY DEF IInv, TypeOK, Named, Written, Running, InFlight, Range
  <1>1. CASE FindAddress(c)
    <2>1. call[c].pc = "called" /\ InFlight(c) /\ c \notin Range(book)
      BY <1>0, <1>1 DEF FindAddress, At, Running
    <2>2. CASE Finish(c, "done")
      BY <2>1, <2>2, FinishStep
    <2>3. CASE GoTo(c, "found", default \cap {call[c].request.id})
      <3>1. UNCHANGED <<book, default>>
        BY <1>1 DEF FindAddress
      <3> QED
        BY <1>0, <2>1, <2>3, <3>1, ReadStep DEF Running
    <2> QED
      BY <1>1, <2>2, <2>3 DEF FindAddress
  <1>2. CASE FindDefaults(c)
    <2>1. /\ InFlight(c) /\ c \notin Range(book)
          /\ GoTo(c, "clearing", default) /\ UNCHANGED <<book, default>>
      BY <1>0, <1>2 DEF FindDefaults, At, Running
    <2> QED
      BY <1>0, <2>1, ReadStep DEF Running
  <1>3. CASE CountAddresses(c)
    <2>1. /\ InFlight(c) /\ c \notin Range(book) /\ call[c].request.op = "create"
          /\ GoTo(c, "counted", Range(book)) /\ UNCHANGED <<book, default>>
      BY <1>0, <1>3 DEF CountAddresses, At, Running
    <2> QED
      BY <1>0, <2>1, ReadStep DEF Running
  <1>4. CASE FindNext(c)
    <2>1. /\ InFlight(c) /\ c \notin Range(book) /\ call[c].request.op = "delete"
          /\ UNCHANGED <<book, default>>
      BY <1>0, <1>4 DEF FindNext, At, Running
    <2>2. CASE GoTo(c, "written", {})
      BY <2>1, <2>2, ReadStep DEF Running
    <2>3. CASE book # <<>> /\ GoTo(c, "chosen", {Last(book)})
      <3>1. {Last(book)} \in SUBSET Addresses
        BY <1>0, <2>3 DEF Last
      <3> QED
        BY <2>1, <2>3, <3>1, ReadStep DEF Running
    <2> QED
      BY <1>4, <2>2, <2>3 DEF FindNext
  <1> QED
    BY <1>1, <1>2, <1>3, <1>4

LEMMA WritingSteps ==
    ASSUME IInv, NEW c \in Calls,
           \/ ClearNow(c) \/ ClearInTransaction(c) \/ CommitDefault(c)
           \/ InsertAddress(c) \/ DeleteRow(c) \/ MakeNextDefault(c)
    PROVE  IInv'
  <1>0. /\ book \in Seq(Addresses) /\ IsInjective(book) /\ default \subseteq Range(book)
        /\ call[c] \in Handler
        /\ call[c].pc \in Running => InFlight(c) /\ (c \notin Range(book) \/ call[c].pc = "written")
    BY DEF IInv, TypeOK, Named, Written, Running, InFlight
  <1>1. CASE ClearNow(c)
    <2>1. /\ call[c].request.op = "create" /\ InFlight(c) /\ c \notin Range(book)
          /\ GoTo(c, "cleared", {}) /\ book' = book /\ default' \subseteq Range(book)
      BY <1>0, <1>1 DEF ClearNow, At, Running
    <2> QED
      BY <1>0, <2>1, GoToStep DEF Running
  <1>2. CASE ClearInTransaction(c)
    <2> DEFINE h == [call[c] EXCEPT !.pc = "cleared", !.locked = call[c].found \cap default]
    <2>1. /\ call[c].request.op = "setDefault" /\ call[c].pc = "clearing"
          /\ InFlight(c) /\ c \notin Range(book)
          /\ call' = [call EXCEPT ![c] = h]
          /\ book' = book /\ default' = default /\ overlapped' = overlapped
      BY <1>0, <1>2 DEF ClearInTransaction, At, Running
    <2>2. /\ h \in Handler /\ h.request = call[c].request
          /\ h.pc = "cleared" /\ h.locked = call[c].found \cap default
      BY <1>0 DEF Handler, Running
    <2>3. c \notin overlapped => h.locked = default
      BY <2>1, <2>2 DEF IInv, Kept
    <2> HIDE DEF h
    <2> QED
      BY <1>0, <2>1, <2>2, <2>3, OneMoves
  <1>3. CASE CommitDefault(c)
    <2> DEFINE a == call[c].request.id
    <2>1. /\ call[c].request.op = "setDefault" /\ call[c].pc = "cleared"
          /\ InFlight(c) /\ c \notin Range(book)
      BY <1>0, <1>3 DEF CommitDefault, At, Running
    <2>2. CASE Finish(c, "done")
      BY <2>1, <2>2, FinishStep
    <2>3. CASE /\ a \in Range(book)
               /\ default' = (default \ call[c].locked) \cup {a}
               /\ GoTo(c, "written", {})
               /\ UNCHANGED book
      <3>1. c \notin overlapped => default' = {a}
        BY <2>1, <2>3 DEF IInv, Kept
      <3>2. default' \subseteq Range(book)
        BY <1>0, <2>3
      <3> QED
        BY <1>0, <2>1, <2>3, <3>1, <3>2, GoToStep DEF Running
    <2> QED
      BY <1>3, <2>2, <2>3 DEF CommitDefault
  <1>4. CASE InsertAddress(c)
    <2>1. /\ call[c].request.op = "create" /\ InFlight(c) /\ c \notin Range(book)
          /\ GoTo(c, "written", {}) /\ book' = Append(book, c)
          /\ default' \subseteq default \cup {c}
      BY <1>0, <1>4 DEF InsertAddress, At, Running
    <2>2. c \in Addresses
      BY DEF Addresses
    <2>3. /\ book' \in Seq(Addresses) /\ IsInjective(book')
          /\ Range(book') = Range(book) \cup {c}
      BY <1>0, <2>1, <2>2, AppendType
    <2> QED
      BY <1>0, <2>1, <2>3, GoToStep DEF Running, Written
  <1>5. CASE DeleteRow(c)
    <2> DEFINE a == call[c].request.id
    <2>1. /\ call[c].request.op = "delete" /\ InFlight(c) /\ c \notin Range(book)
      BY <1>0, <1>5 DEF DeleteRow, At, Running
    <2>2. CASE Finish(c, "done")
      BY <2>1, <2>2, FinishStep
    <2>3. CASE ~Finish(c, "done")
      <3>1. PICK k \in DOMAIN book : book[k] = a /\ book' = RemoveAt(book, k)
        BY <1>5, <2>3 DEF DeleteRow
      <3>2. /\ default' = default \ {a}
            /\ GoTo(c, IF call[c].found = {} THEN "written" ELSE "deleted", {})
        BY <1>5, <2>3 DEF DeleteRow
      <3>3. /\ book' \in Seq(Addresses) /\ IsInjective(book')
            /\ Range(book') = Range(book) \ {a}
        BY <1>0, <3>1, RemoveAtType
      <3>4. CASE call[c].found = {}
        BY <1>0, <2>1, <3>2, <3>3, <3>4, GoToStep DEF Running
      <3>5. CASE call[c].found # {}
        BY <1>0, <2>1, <3>2, <3>3, <3>5, GoToStep DEF Running
      <3> QED
        BY <3>4, <3>5
    <2> QED
      BY <2>2, <2>3
  <1>6. CASE MakeNextDefault(c)
    <2>1. /\ call[c].request.op = "delete" /\ InFlight(c) /\ c \notin Range(book)
      BY <1>0, <1>6 DEF MakeNextDefault, At, Running
    <2>2. CASE Finish(c, "done")
      BY <2>1, <2>2, FinishStep
    <2>3. CASE /\ call[c].found \subseteq Range(book)
               /\ default' = default \cup call[c].found
               /\ GoTo(c, "written", {})
               /\ UNCHANGED book
      BY <1>0, <2>1, <2>3, GoToStep DEF Running
    <2> QED
      BY <1>6, <2>2, <2>3 DEF MakeNextDefault
  <1> QED
    BY <1>1, <1>2, <1>3, <1>4, <1>5, <1>6

LEMMA NextIInv == IInv /\ [Next]_vars => IInv'
  <1> SUFFICES ASSUME IInv, [Next]_vars PROVE IInv'
    OBVIOUS
  <1>1. ASSUME NEW c \in Calls, Answer(c) PROVE IInv'
    BY <1>1, FinishStep DEF Answer, InFlight, Running
  <1>2. ASSUME NEW c \in Calls, Fail(c) PROVE IInv'
    BY <1>2, FinishStep DEF Fail
  <1>3. CASE UNCHANGED vars
    BY <1>3 DEF vars, IInv, TypeOK, Named, Alone, InFlight, Kept
  <1> QED
    BY <1>1, <1>2, <1>3, CallStep, ReadingSteps, WritingSteps, CrashStep DEF Next

-----------------------------------------------------------------------------
(* How many defaults there are.                                            *)

Begun == {c \in Calls : call[c].pc # "idle"}

\* The calls that have overlapped and have written what they had to.
Spent == {c \in overlapped : call[c].pc \in Written}

Few == Cardinality(default) <= 1 \/ Cardinality(default) <= Cardinality(Spent)

Adds(c) == \/ call[c].request.isDefault = "true"
           \/ call[c].request.isDefault = "undefined" /\ call[c].found = {}

\* While c runs alone, or nobody who overlapped has written, no default has appeared
\* since it looked.  A deleter has taken one away and may add one.
Knows(c) ==
    c \notin overlapped \/ Spent = {} =>
        /\ call[c].pc = "clearing" => default \subseteq call[c].found
        /\ At(c, "setDefault", "cleared") => default \subseteq call[c].locked
        /\ At(c, "create", "cleared") => default = {}
        /\ At(c, "create", "counted") /\ Adds(c) => default = {}
        /\ At(c, "delete", "found") /\ call[c].found # {} =>
              IF Spent = {} THEN default \subseteq {call[c].request.id}
                            ELSE call[c].request.id \in default
        /\ At(c, "delete", "deleted") \/ At(c, "delete", "chosen") =>
              default = {} \/ Cardinality(default) < Cardinality(Spent)

Chosen(c) == At(c, "delete", "chosen") => \E a : call[c].found \subseteq {a}

Counting ==
    /\ IsFiniteSet(Begun) /\ overlapped \subseteq Begun
    /\ IsFiniteSet(default) /\ Few
    /\ \A c \in Calls : Knows(c) /\ Chosen(c)

LEMMA InitCounting == Init => Counting
  <1> SUFFICES ASSUME Init PROVE Counting
    OBVIOUS
  <1>1. \A c \in Calls : call[c].pc = "idle"
    BY DEF Init
  <1>2. Begun = {} /\ IsFiniteSet(Begun) /\ overlapped \subseteq Begun
    BY <1>1, FS_EmptySet DEF Begun, Init
  <1>3. default = {} \/ \E a : default = {a}
    BY DEF Init
  <1>4. IsFiniteSet(default) /\ Cardinality(default) \in {0, 1}
    BY <1>3, FS_EmptySet, FS_Singleton
  <1>5. Few
    BY <1>4 DEF Few
  <1>6. \A c \in Calls : Knows(c) /\ Chosen(c)
    BY <1>1 DEF Knows, Chosen, At
  <1> QED
    BY <1>2, <1>4, <1>5, <1>6 DEF Counting

LEMMA CountsAreFinite ==
    ASSUME Counting
    PROVE  /\ IsFiniteSet(Spent) /\ Cardinality(Spent) \in Nat
           /\ Cardinality(default) \in Nat
           /\ Spent = {} <=> Cardinality(Spent) = 0
           /\ default = {} <=> Cardinality(default) = 0
  <1>1. Spent \subseteq Begun
    BY DEF Spent, Counting
  <1>2. IsFiniteSet(Spent)
    BY <1>1, FS_Subset DEF Counting
  <1> QED
    BY <1>2, FS_CardinalityType, FS_EmptySet DEF Counting

\* Nobody who has written begins again.
Advances(c, h) ==
    /\ call' = [call EXCEPT ![c] = h] /\ overlapped' = overlapped
    /\ h.request = call[c].request /\ h.pc # "idle"
    /\ call[c].pc \in Written => h.pc \in Written

LEMMA SpentGrows ==
    ASSUME IInv, Counting, NEW c \in Calls, InFlight(c), NEW h, Advances(c, h)
    PROVE  /\ call'[c] = h /\ \A d \in Calls : d # c => call'[d] = call[d]
           /\ Begun' = Begun
           /\ Spent' = IF c \in overlapped /\ h.pc \in Written THEN Spent \cup {c} ELSE Spent
           /\ Spent \subseteq Spent' /\ IsFiniteSet(Spent') /\ Cardinality(Spent') \in Nat
           /\ Cardinality(Spent) <= Cardinality(Spent')
           /\ \A d \in Calls \ {c} : InFlight(d) => d \in overlapped /\ c \in overlapped
  <1>1. call'[c] = h /\ \A d \in Calls : d # c => call'[d] = call[d]
    BY DEF Advances, IInv, TypeOK
  <1>2. Begun' = Begun
    BY <1>1 DEF Begun, Advances, InFlight, Running
  <1>3. Spent' = IF c \in overlapped /\ h.pc \in Written THEN Spent \cup {c} ELSE Spent
    BY <1>1 DEF Spent, Advances, Counting, Begun
  <1>4. IsFiniteSet(Spent') /\ Cardinality(Spent) <= Cardinality(Spent')
    <2>1. IsFiniteSet(Spent')
      BY <1>3, CountsAreFinite, FS_AddElement
    <2>2. Spent \subseteq Spent'
      BY <1>3
    <2> QED
      BY <2>1, <2>2, FS_Subset
  <1>5. Cardinality(Spent') \in Nat
    BY <1>4, FS_CardinalityType
  <1>6. \A d \in Calls \ {c} : InFlight(d) => d \in overlapped /\ c \in overlapped
    BY DEF IInv, Alone
  <1> QED
    BY <1>1, <1>2, <1>3, <1>4, <1>5, <1>6

\* A step that adds no default.
LEMMA NoNewDefault ==
    ASSUME IInv, Counting, NEW c \in Calls, InFlight(c), NEW h, Advances(c, h),
           default' \subseteq default, Knows(c)', Chosen(c)'
    PROVE  Counting'
  <1>0. /\ call'[c] = h /\ \A d \in Calls : d # c => call'[d] = call[d]
        /\ Begun' = Begun /\ Spent \subseteq Spent' /\ overlapped' = overlapped
        /\ Cardinality(Spent) <= Cardinality(Spent') /\ Cardinality(Spent') \in Nat
        /\ \A d \in Calls \ {c} : InFlight(d) => d \in overlapped
    BY SpentGrows DEF Advances
  <1>1. IsFiniteSet(default') /\ Cardinality(default') <= Cardinality(default)
    BY FS_Subset DEF Counting
  <1>2. Cardinality(default') \in Nat /\ Cardinality(default) \in Nat /\ Cardinality(Spent) \in Nat
    BY <1>1, FS_CardinalityType, CountsAreFinite
  <1>3. Few'
    BY <1>0, <1>1, <1>2 DEF Counting, Few
  <1>4. ASSUME NEW d \in Calls, d # c PROVE Knows(d)' /\ Chosen(d)'
    <2>1. call'[d] = call[d] /\ Knows(d) /\ Chosen(d)
      BY <1>0, <1>4 DEF Counting
    <2>2. Chosen(d)'
      BY <2>1 DEF Chosen, At
    <2>3. CASE InFlight(d)
      <3>1. CASE Spent' = {}
        <4>1. Spent = {} /\ Cardinality(Spent) = 0
          BY <1>0, <3>1, CountsAreFinite
        <4>2. default = {} => default' = {}
          OBVIOUS
        <4> QED
          BY <1>2, <2>1, <2>2, <3>1, <4>1, <4>2 DEF Knows, At, Adds
      <3>2. CASE Spent' # {}
        BY <1>0, <1>4, <2>2, <2>3, <3>2 DEF Knows
      <3> QED
        BY <3>1, <3>2
    <2>4. CASE ~InFlight(d)
      BY <2>1, <2>2, <2>4 DEF Knows, At, InFlight, Running
    <2> QED
      BY <2>2, <2>3, <2>4
  <1> QED
    BY <1>0, <1>1, <1>3, <1>4 DEF Counting

\* A step that may add one is the last but the answer.
LEMMA NewDefault ==
    ASSUME IInv, Counting, NEW c \in Calls, InFlight(c), NEW h, Advances(c, h),
           h.pc = "written", NEW a, default' \subseteq default \cup {a},
           c \notin overlapped \/ Spent = {} =>
              Cardinality(default') <= 1 \/ Cardinality(default') <= Cardinality(Spent),
           call[c].pc \notin Written
    PROVE  Counting'
  <1>0. /\ call'[c] = h /\ \A d \in Calls : d # c => call'[d] = call[d]
        /\ Begun' = Begun /\ overlapped' = overlapped
        /\ Spent' = IF c \in overlapped THEN Spent \cup {c} ELSE Spent
        /\ Cardinality(Spent) <= Cardinality(Spent') /\ Cardinality(Spent') \in Nat
        /\ \A d \in Calls \ {c} : InFlight(d) => d \in overlapped /\ c \in overlapped
    BY SpentGrows DEF Advances, Written
  <1>1. /\ IsFiniteSet(default \cup {a})
        /\ Cardinality(default \cup {a}) <= Cardinality(default) + 1
        /\ Cardinality(default) \in Nat /\ Cardinality(default \cup {a}) \in Nat
    <2>1. IsFiniteSet(default) /\ Cardinality(default) \in Nat
      BY CountsAreFinite DEF Counting
    <2>2. /\ IsFiniteSet(default \cup {a})
          /\ Cardinality(default \cup {a}) =
               IF a \in default THEN Cardinality(default) ELSE Cardinality(default) + 1
      BY <2>1, FS_AddElement
    <2> QED
      BY <2>1, <2>2
  <1>2. /\ IsFiniteSet(default') /\ Cardinality(default') <= Cardinality(default) + 1
        /\ Cardinality(default') \in Nat
    BY <1>1, FS_Subset, FS_CardinalityType
  <1>3. /\ Cardinality(Spent) \in Nat
        /\ c \in overlapped => Cardinality(Spent') = Cardinality(Spent) + 1
        /\ Spent # {} => Cardinality(Spent) >= 1
    <2>1. c \notin Spent
      BY DEF Spent
    <2> QED
      <3>1. /\ IsFiniteSet(Spent) /\ Cardinality(Spent) \in Nat
            /\ Spent = {} <=> Cardinality(Spent) = 0
        BY CountsAreFinite
      <3>2. Cardinality(Spent \cup {c}) = Cardinality(Spent) + 1
        BY <2>1, <3>1, FS_AddElement
      <3> QED
        BY <1>0, <3>1, <3>2
  <1>4. Few'
    <2>1. CASE c \in overlapped /\ Spent # {}
      BY <1>1, <1>2, <1>3, <2>1 DEF Counting, Few
    <2>2. CASE ~(c \in overlapped /\ Spent # {})
      BY <1>0, <1>2, <1>3, <2>2 DEF Few
    <2> QED
      BY <2>1, <2>2
  <1>5. ASSUME NEW d \in Calls PROVE Knows(d)' /\ Chosen(d)'
    <2>1. CASE d = c
      BY <1>0, <2>1 DEF Knows, Chosen, At
    <2>2. CASE d # c /\ InFlight(d)
      <3>1. d \in overlapped' /\ Spent' # {}
        BY <1>0, <2>2
      <3>2. Chosen(d)'
        BY <1>0, <2>2 DEF Counting, Chosen, At
      <3> QED
        BY <3>1, <3>2 DEF Knows
    <2>3. CASE d # c /\ ~InFlight(d)
      BY <1>0, <2>3 DEF Knows, Chosen, At, InFlight, Running
    <2> QED
      BY <2>1, <2>2, <2>3
  <1> QED
    BY <1>0, <1>2, <1>4, <1>5 DEF Counting

LEMMA CallCounting == ASSUME IInv, Counting, NEW c \in Calls, Call(c) PROVE Counting'
  <1> DEFINE others == {d \in Calls : InFlight(d)}
  <1>1. /\ call[c].pc = "idle" /\ default' = default
        /\ call' = [call EXCEPT ![c].pc = "called"]
        /\ overlapped' = IF others = {} THEN overlapped ELSE overlapped \cup others \cup {c}
    BY DEF Call
  <1>2. /\ call'[c].pc = "called"
        /\ \A d \in Calls : d # c => call'[d] = call[d]
    BY <1>1 DEF IInv, TypeOK, Handler
  <1>3. Begun' = Begun \cup {c}
    BY <1>2 DEF Begun
  <1>4. IsFiniteSet(Begun') /\ overlapped' \subseteq Begun'
    <2>1. others \subseteq Begun
      BY DEF Begun, InFlight, Running
    <2> QED
      BY <1>1, <1>3, <2>1, FS_AddElement DEF Counting
  <1>5. Spent' \subseteq Begun' /\ Spent \subseteq Spent'
    BY <1>1, <1>2, <1>4 DEF Spent, Written
  <1>6. IsFiniteSet(Spent') /\ Cardinality(Spent) <= Cardinality(Spent')
    BY <1>4, <1>5, FS_Subset
  <1>7. Few'
    BY <1>1, <1>6, FS_CardinalityType, CountsAreFinite DEF Counting, Few
  <1>8. ASSUME NEW d \in Calls PROVE Knows(d)' /\ Chosen(d)'
    <2>1. CASE d = c
      BY <1>2, <2>1 DEF Knows, Chosen, At
    <2>2. CASE d # c
      <3>1. call'[d] = call[d] /\ Knows(d) /\ Chosen(d)
        BY <1>2, <2>2 DEF Counting
      <3>2. Chosen(d)'
        BY <3>1 DEF Chosen, At
      <3>3. CASE Spent' = {}
        <4>1. Spent = {}
          BY <1>5, <3>3
        <4> QED
          BY <1>1, <3>1, <3>2, <3>3, <4>1 DEF Knows, At, Adds
      <3>4. CASE Spent' # {} /\ InFlight(d)
        BY <1>1, <3>2, <3>4 DEF Knows
      <3>5. CASE ~InFlight(d)
        BY <3>1, <3>2, <3>5 DEF Knows, At, InFlight, Running
      <3> QED
        BY <3>3, <3>4, <3>5
    <2> QED
      BY <2>1, <2>2
  <1> QED
    BY <1>1, <1>4, <1>7, <1>8 DEF Counting

LEMMA CrashCounting == ASSUME IInv, Counting, Crash PROVE Counting'
  <1>1. /\ default' = default /\ overlapped' = overlapped
        /\ \A c \in Calls : call'[c].pc = IF InFlight(c) THEN "failed" ELSE call[c].pc
    BY DEF Crash, IInv, TypeOK, Handler
  <1>2. Begun' = Begun
    BY <1>1 DEF Begun, InFlight, Running
  <1>3. Spent' \subseteq Begun' /\ Spent \subseteq Spent'
    <2>1. overlapped \subseteq Calls
      BY DEF Counting, Begun
    <2> QED
      BY <1>1, <1>2, <2>1 DEF Spent, Written, Counting
  <1>4. IsFiniteSet(Spent') /\ Cardinality(Spent) <= Cardinality(Spent')
    BY <1>2, <1>3, FS_Subset DEF Counting
  <1>5. Few'
    BY <1>1, <1>4, FS_CardinalityType, CountsAreFinite DEF Counting, Few
  <1>6. \A c \in Calls : Knows(c)' /\ Chosen(c)'
    BY <1>1 DEF Knows, Chosen, At, InFlight, Running
  <1> QED
    BY <1>1, <1>2, <1>5, <1>6 DEF Counting

\* A handler that stops, at whatever point.
LEMMA FinishCounting ==
    ASSUME IInv, Counting, NEW c \in Calls, InFlight(c),
           NEW pc \in {"done", "failed", "written"}, GoTo(c, pc, {}), default' \subseteq default
    PROVE  Counting'
  <1> DEFINE h == [call[c] EXCEPT !.pc = pc, !.found = {}, !.locked = {}]
  <1>1. h.pc = pc /\ h.request = call[c].request
    BY DEF IInv, TypeOK, Handler
  <1>2. Advances(c, h)
    BY <1>1 DEF GoTo, Advances, Written
  <1> HIDE DEF h
  <1>3. call'[c] = h
    BY <1>2, SpentGrows
  <1>4. Knows(c)' /\ Chosen(c)'
    BY <1>1, <1>3 DEF Knows, Chosen, At
  <1> QED
    BY <1>2, <1>4, NoNewDefault

\* Any other step that adds no default.
LEMMA StepCounting ==
    ASSUME IInv, Counting, NEW c \in Calls, InFlight(c), call[c].pc \notin Written,
           NEW pc \in {"found", "clearing", "cleared", "counted", "deleted", "chosen"},
           NEW found, GoTo(c, pc, found), default' \subseteq default,
           call'[c].pc = pc /\ call'[c].found = found /\ call'[c].request = call[c].request
              /\ Spent' = Spent /\ overlapped' = overlapped => Knows(c)' /\ Chosen(c)'
    PROVE  Counting'
  <1> DEFINE h == [call[c] EXCEPT !.pc = pc, !.found = found, !.locked = {}]
  <1>1. h.pc = pc /\ h.request = call[c].request /\ h.found = found
    BY DEF IInv, TypeOK, Handler
  <1>2. Advances(c, h)
    BY <1>1 DEF GoTo, Advances
  <1> HIDE DEF h
  <1>3. call'[c] = h /\ Spent' = Spent /\ overlapped' = overlapped
    BY <1>1, <1>2, SpentGrows DEF Written, Advances
  <1> QED
    BY <1>1, <1>2, <1>3, NoNewDefault

LEMMA ReadingCounts ==
    ASSUME IInv, Counting, NEW c \in Calls,
           \/ FindAddress(c) \/ FindDefaults(c) \/ CountAddresses(c) \/ FindNext(c)
           \/ Answer(c) \/ Fail(c)
    PROVE  Counting'
  <1>0. /\ Knows(c) /\ Chosen(c) /\ default \subseteq Range(book)
        /\ call[c].pc \in Running => InFlight(c)
    BY DEF Counting, IInv, TypeOK, InFlight
  <1>1. CASE FindAddress(c)
    <2> DEFINE a == call[c].request.id
    <2>1. call[c].pc = "called" /\ InFlight(c) /\ default' = default
      BY <1>0, <1>1 DEF FindAddress, At, Running
    <2>2. CASE Finish(c, "done")
      BY <2>1, <2>2, FinishCounting DEF Finish
    <2>3. CASE GoTo(c, "found", default \cap {a})
      <3>1. a \in default /\ Spent = {} => default \subseteq {a}
        <4>1. SUFFICES ASSUME a \in default, Spent = {} PROVE default \subseteq {a}
          OBVIOUS
        <4>2. Cardinality(default) <= 1 /\ Cardinality(default) \in Nat
          BY <4>1, CountsAreFinite DEF Counting, Few
        <4>3. Cardinality(default) = 1
          BY <4>1, <4>2, CountsAreFinite
        <4> QED
          BY <4>1, <4>3, FS_Singleton DEF Counting
      <3>2. call'[c].pc = "found" /\ call'[c].found = default \cap {a}
          /\ call'[c].request = call[c].request /\ Spent' = Spent /\ overlapped' = overlapped
               => Knows(c)' /\ Chosen(c)'
        BY <2>1, <3>1 DEF Knows, Chosen, At
      <3> QED
        BY <2>1, <2>3, <3>2, StepCounting DEF Written
    <2> QED
      BY <1>1, <2>2, <2>3 DEF FindAddress
  <1>2. CASE FindDefaults(c)
    <2>1. /\ call[c].pc \notin Written /\ InFlight(c) /\ default' = default
          /\ GoTo(c, "clearing", default)
      BY <1>0, <1>2 DEF FindDefaults, At, Running, Written
    <2>2. call'[c].pc = "clearing" /\ call'[c].found = default
        /\ call'[c].request = call[c].request /\ Spent' = Spent /\ overlapped' = overlapped
             => Knows(c)' /\ Chosen(c)'
      BY <2>1 DEF Knows, Chosen, At
    <2> QED
      BY <2>1, <2>2, StepCounting
  <1>3. CASE CountAddresses(c)
    <2>1. /\ call[c].pc \notin Written /\ InFlight(c) /\ default' = default
          /\ GoTo(c, "counted", Range(book))
          /\ At(c, "create", "cleared") \/ call[c].request.isDefault # "true"
      BY <1>0, <1>3 DEF CountAddresses, At, Running, Written
    <2>2. call'[c].pc = "counted" /\ call'[c].found = Range(book)
        /\ call'[c].request = call[c].request /\ Spent' = Spent /\ overlapped' = overlapped
             => Knows(c)' /\ Chosen(c)'
      BY <1>0, <2>1 DEF Knows, Chosen, At, Adds
    <2> QED
      BY <2>1, <2>2, StepCounting
  <1>4. CASE FindNext(c)
    <2>1. /\ At(c, "delete", "deleted") /\ call[c].pc \notin Written /\ InFlight(c)
          /\ default' = default
      BY <1>0, <1>4 DEF FindNext, At, Running, Written
    <2>2. CASE GoTo(c, "written", {})
      BY <2>1, <2>2, FinishCounting
    <2>3. CASE GoTo(c, "chosen", {Last(book)})
      <3>1. call'[c].pc = "chosen" /\ call'[c].found = {Last(book)}
          /\ call'[c].request = call[c].request /\ Spent' = Spent /\ overlapped' = overlapped
               => Knows(c)' /\ Chosen(c)'
        BY <1>0, <2>1 DEF Knows, Chosen, At
      <3> QED
        BY <2>1, <2>3, <3>1, StepCounting
    <2> QED
      BY <1>4, <2>2, <2>3 DEF FindNext
  <1>5. CASE Answer(c) \/ Fail(c)
    <2>1. InFlight(c) /\ default' = default /\ (GoTo(c, "done", {}) \/ GoTo(c, "failed", {}))
      BY <1>0, <1>5 DEF Answer, Fail, Finish, Running
    <2> QED
      BY <2>1, FinishCounting
  <1> QED
    BY <1>1, <1>2, <1>3, <1>4, <1>5

LEMMA WrittenCounting ==
    ASSUME IInv, Counting, NEW c \in Calls, InFlight(c), call[c].pc \notin Written,
           GoTo(c, "written", {}), NEW a, default' \subseteq default \cup {a},
           c \notin overlapped \/ Spent = {} =>
              Cardinality(default') <= 1 \/ Cardinality(default') <= Cardinality(Spent)
    PROVE  Counting'
  <1> DEFINE h == [call[c] EXCEPT !.pc = "written", !.found = {}, !.locked = {}]
  <1>1. h.pc = "written" /\ h.request = call[c].request
    BY DEF IInv, TypeOK, Handler
  <1>2. Advances(c, h)
    BY <1>1 DEF GoTo, Advances
  <1> HIDE DEF h
  <1> QED
    BY <1>1, <1>2, NewDefault

LEMMA WritingCounts ==
    ASSUME IInv, Counting, NEW c \in Calls,
           \/ ClearNow(c) \/ ClearInTransaction(c) \/ CommitDefault(c)
           \/ InsertAddress(c) \/ DeleteRow(c) \/ MakeNextDefault(c)
    PROVE  Counting'
  <1>0. /\ Knows(c) /\ Chosen(c) /\ call[c] \in Handler
        /\ call[c].pc \in Running => InFlight(c)
        /\ \A a : Cardinality({a}) = 1
    BY FS_Singleton DEF Counting, IInv, TypeOK, InFlight
  <1>1. CASE ClearNow(c)
    <2>1. /\ At(c, "create", "clearing") /\ call[c].pc \notin Written /\ InFlight(c)
          /\ GoTo(c, "cleared", {}) /\ default' = default \ call[c].found
      BY <1>0, <1>1 DEF ClearNow, At, Running, Written
    <2>2. call'[c].pc = "cleared" /\ call'[c].found = {}
        /\ call'[c].request = call[c].request /\ Spent' = Spent /\ overlapped' = overlapped
             => Knows(c)' /\ Chosen(c)'
      BY <1>0, <2>1 DEF Knows, Chosen, At
    <2> QED
      BY <2>1, <2>2, StepCounting
  <1>2. CASE ClearInTransaction(c)
    <2> DEFINE h == [call[c] EXCEPT !.pc = "cleared", !.locked = call[c].found \cap default]
    <2>1. /\ At(c, "setDefault", "clearing") /\ InFlight(c) /\ default' = default
          /\ call' = [call EXCEPT ![c] = h] /\ overlapped' = overlapped
      BY <1>0, <1>2 DEF ClearInTransaction, At, Running
    <2>2. /\ h.pc = "cleared" /\ h.locked = call[c].found \cap default
          /\ h.request = call[c].request
      BY <1>0 DEF Handler
    <2>3. Advances(c, h)
      BY <2>1, <2>2 DEF Advances, At, Written
    <2> HIDE DEF h
    <2>4. call'[c] = h /\ Spent' = Spent
      BY <2>1, <2>2, <2>3, SpentGrows DEF Written
    <2>5. Knows(c)' /\ Chosen(c)'
      BY <1>0, <2>1, <2>2, <2>4 DEF Knows, Chosen, At
    <2> QED
      BY <2>1, <2>3, <2>5, NoNewDefault
  <1>3. CASE CommitDefault(c)
    <2> DEFINE a == call[c].request.id
    <2>1. At(c, "setDefault", "cleared") /\ call[c].pc \notin Written /\ InFlight(c)
      BY <1>0, <1>3 DEF CommitDefault, At, Running, Written
    <2>2. CASE Finish(c, "done")
      BY <2>1, <2>2, FinishCounting DEF Finish
    <2>3. CASE default' = (default \ call[c].locked) \cup {a} /\ GoTo(c, "written", {})
      <3>1. c \notin overlapped \/ Spent = {} => default' = {a}
        BY <1>0, <2>1, <2>3 DEF Knows
      <3>2. default' \subseteq default \cup {a}
        BY <2>1, <2>3
      <3>3. c \notin overlapped \/ Spent = {} => Cardinality(default') <= 1
        <4>1. Cardinality({a}) = 1
          BY FS_Singleton
        <4> QED
          BY <3>1, <4>1
      <3> QED
        BY <3>3, <2>1, <2>3, <3>2, WrittenCounting
    <2> QED
      BY <1>3, <2>2, <2>3 DEF CommitDefault
  <1>4. CASE InsertAddress(c)
    <2>1. /\ At(c, "create", "counted") /\ call[c].pc \notin Written /\ InFlight(c)
          /\ GoTo(c, "written", {})
          /\ default' = IF Adds(c) THEN default \cup {c} ELSE default
      BY <1>0, <1>4 DEF InsertAddress, Adds, At, Running, Written
    <2>2. CASE ~Adds(c)
      BY <2>1, <2>2, FinishCounting
    <2>3. CASE Adds(c)
      <3>1. c \notin overlapped \/ Spent = {} => default' = {c}
        BY <1>0, <2>1, <2>3 DEF Knows
      <3>2. default' \subseteq default \cup {c}
        BY <2>1, <2>3
      <3>3. c \notin overlapped \/ Spent = {} => Cardinality(default') <= 1
        <4>1. Cardinality({c}) = 1
          BY FS_Singleton
        <4> QED
          BY <3>1, <4>1
      <3> QED
        BY <3>3, <2>1, <3>2, WrittenCounting
    <2> QED
      BY <2>2, <2>3
  <1>5. CASE DeleteRow(c)
    <2> DEFINE a == call[c].request.id
    <2>1. At(c, "delete", "found") /\ call[c].pc \notin Written /\ InFlight(c)
      BY <1>0, <1>5 DEF DeleteRow, At, Running, Written
    <2>2. CASE Finish(c, "done")
      BY <2>1, <2>2, FinishCounting DEF Finish
    <2>3. CASE ~Finish(c, "done")
      <3>1. /\ default' = default \ {a}
            /\ GoTo(c, IF call[c].found = {} THEN "written" ELSE "deleted", {})
        BY <1>5, <2>3 DEF DeleteRow
      <3>2. CASE call[c].found = {}
        BY <2>1, <3>1, <3>2, FinishCounting
      <3>3. CASE call[c].found # {}
        <4>1. c \notin overlapped \/ Spent = {} =>
                 default' = {} \/ Cardinality(default') < Cardinality(Spent)
          <5>1. CASE Spent = {}
            BY <1>0, <2>1, <3>1, <3>3, <5>1 DEF Knows
          <5>2. CASE Spent # {} /\ c \notin overlapped
            <6>1. a \in default
              BY <1>0, <2>1, <3>3, <5>2 DEF Knows
            <6>2. /\ IsFiniteSet(default') /\ Cardinality(default') = Cardinality(default) - 1
                  /\ Cardinality(default) \in Nat /\ Cardinality(Spent) \in Nat
              BY <3>1, <6>1, FS_RemoveElement, CountsAreFinite DEF Counting
            <6>3. Cardinality(default') = 0 => default' = {}
              BY <6>2, FS_EmptySet
            <6>4. Cardinality(default) <= 1 \/ Cardinality(default) <= Cardinality(Spent)
              BY DEF Counting, Few
            <6>5. Cardinality(default') \in Nat
              BY <6>2, FS_CardinalityType
            <6> QED
              BY <6>2, <6>3, <6>4, <6>5
          <5> QED
            BY <5>1, <5>2
        <4>2. call'[c].pc = "deleted" /\ call'[c].found = {}
            /\ call'[c].request = call[c].request /\ Spent' = Spent /\ overlapped' = overlapped
                 => Knows(c)' /\ Chosen(c)'
          BY <4>1 DEF Knows, Chosen, At
        <4> QED
          BY <2>1, <3>1, <3>3, <4>2, StepCounting
      <3> QED
        BY <3>2, <3>3
    <2> QED
      BY <2>2, <2>3
  <1>6. CASE MakeNextDefault(c)
    <2>1. At(c, "delete", "chosen") /\ call[c].pc \notin Written /\ InFlight(c)
      BY <1>0, <1>6 DEF MakeNextDefault, At, Running, Written
    <2>2. CASE Finish(c, "done")
      BY <2>1, <2>2, FinishCounting DEF Finish
    <2>3. CASE default' = default \cup call[c].found /\ GoTo(c, "written", {})
      <3>1. PICK a : call[c].found \subseteq {a}
        BY <1>0, <2>1 DEF Chosen
      <3>2. default' \subseteq default \cup {a}
        BY <2>3, <3>1
      <3>3. /\ IsFiniteSet(default \cup {a})
            /\ Cardinality(default \cup {a}) <= Cardinality(default) + 1
            /\ Cardinality(default \cup {a}) \in Nat
        <4>1. IsFiniteSet(default) /\ Cardinality(default) \in Nat
          BY CountsAreFinite DEF Counting
        <4>2. /\ IsFiniteSet(default \cup {a})
              /\ Cardinality(default \cup {a}) =
                   IF a \in default THEN Cardinality(default) ELSE Cardinality(default) + 1
          BY <4>1, FS_AddElement
        <4> QED
          BY <4>1, <4>2
      <3>4. /\ IsFiniteSet(default') /\ Cardinality(default') <= Cardinality(default) + 1
            /\ Cardinality(default') \in Nat
        BY <3>2, <3>3, CountsAreFinite, FS_Subset, FS_CardinalityType
      <3>5. default = {} => Cardinality(default') <= 1
        <4>1. default = {} => Cardinality(default) = 0
          BY CountsAreFinite
        <4> QED
          BY <3>4, <4>1
      <3>6. c \notin overlapped \/ Spent = {} =>
               Cardinality(default') <= 1 \/ Cardinality(default') <= Cardinality(Spent)
        BY <1>0, <2>1, <3>4, <3>5, CountsAreFinite DEF Knows
      <3> QED
        BY <2>1, <2>3, <3>2, <3>6, WrittenCounting
    <2> QED
      BY <1>6, <2>2, <2>3 DEF MakeNextDefault
  <1> QED
    BY <1>1, <1>2, <1>3, <1>4, <1>5, <1>6

LEMMA NextCounting == IInv /\ Counting /\ [Next]_vars => Counting'
  <1> SUFFICES ASSUME IInv, Counting, [Next]_vars PROVE Counting'
    OBVIOUS
  <1>1. CASE UNCHANGED vars
    BY <1>1 DEF vars, Counting, Begun, Spent, Few, Knows, Chosen, At, Adds
  <1> QED
    BY <1>1, CallCounting, ReadingCounts, WritingCounts, CrashCounting DEF Next

-----------------------------------------------------------------------------
(* That there is a default.                                                *)

\* c has taken the default away and will put another in its place.
Restoring(c) ==
    \/ At(c, "create", "cleared")
    \/ At(c, "create", "counted") /\ call[c].request.isDefault = "true"
    \/ At(c, "delete", "deleted") \/ At(c, "delete", "chosen")

OneLeft == book # <<>> => default # {}

\* What a handler has found is still so.
Sees(c) ==
    /\ At(c, "create", "clearing") \/ At(c, "create", "cleared")
          => call[c].request.isDefault = "true"
    /\ At(c, "create", "counted") /\ call[c].request.isDefault = "undefined"
          => call[c].found = Range(book)
    /\ At(c, "delete", "found") => call[c].found = default \cap {call[c].request.id}
    /\ At(c, "delete", "chosen") => call[c].found # {} /\ call[c].found \subseteq Range(book)

Keeping ==
    Undisturbed => /\ (\E c \in Calls : Restoring(c)) \/ OneLeft
                   /\ \A c \in Calls : Sees(c)

LEMMA EmptyBook == ASSUME NEW S, NEW s \in Seq(S) PROVE s = <<>> <=> Range(s) = {}
  <1>1. CASE s = <<>>
    BY <1>1 DEF Range
  <1>2. CASE s # <<>>
    <2>1. 1 \in DOMAIN s
      BY <1>2
    <2> QED
      BY <1>2, <2>1 DEF Range
  <1> QED
    BY <1>1, <1>2

LEMMA InitKeeping == Init => Keeping
  <1> SUFFICES ASSUME Init PROVE Keeping
    OBVIOUS
  <1>1. \A c \in Calls : call[c].pc = "idle"
    BY DEF Init
  <1>2. \A c \in Calls : Sees(c)
    BY <1>1 DEF Sees, At
  <1>3. OneLeft
    BY DEF Init, OneLeft
  <1> QED
    BY <1>2, <1>3 DEF Keeping

\* Nobody else runs, so that only c's own step can disturb what it has found.
LEMMA KeepMove ==
    ASSUME IInv, Keeping, NEW c \in Calls, InFlight(c),
           NEW h, call' = [call EXCEPT ![c] = h], overlapped' = overlapped,
           h.request = call[c].request,
           ASSUME Undisturbed, Restoring(c) \/ OneLeft, Sees(c), call'[c] = h, h.pc # "failed"
           PROVE  (Restoring(c)' \/ OneLeft') /\ Sees(c)'
    PROVE  Keeping'
  <1> SUFFICES ASSUME Undisturbed'
               PROVE  /\ (\E d \in Calls : Restoring(d)') \/ OneLeft'
                      /\ \A d \in Calls : Sees(d)'
    BY DEF Keeping
  <1>1. call'[c] = h /\ \A d \in Calls : d # c => call'[d] = call[d]
    BY DEF IInv, TypeOK
  <1>2. Undisturbed /\ h.pc # "failed"
    BY <1>1 DEF Undisturbed, InFlight, Running
  <1>3. \A d \in Calls : d # c => ~InFlight(d)
    BY <1>2 DEF IInv, Alone, Undisturbed
  <1>4. \A d \in Calls : d # c => ~Restoring(d) /\ Sees(d)'
    BY <1>1, <1>3 DEF Restoring, Sees, At, InFlight, Running
  <1>5. Restoring(c) \/ OneLeft
    BY <1>2, <1>4 DEF Keeping
  <1>6. Sees(c)
    BY <1>2 DEF Keeping
  <1>7. (Restoring(c)' \/ OneLeft') /\ Sees(c)'
    BY <1>1, <1>2, <1>5, <1>6
  <1> QED
    BY <1>4, <1>7

LEMMA KeepGoTo ==
    ASSUME IInv, Keeping, NEW c \in Calls, InFlight(c), NEW pc, NEW found, GoTo(c, pc, found),
           ASSUME Undisturbed, Restoring(c) \/ OneLeft, Sees(c), call'[c].pc = pc,
                  call'[c].found = found, call'[c].request = call[c].request, pc # "failed"
           PROVE  (Restoring(c)' \/ OneLeft') /\ Sees(c)'
    PROVE  Keeping'
  <1> DEFINE h == [call[c] EXCEPT !.pc = pc, !.found = found, !.locked = {}]
  <1>1. h.pc = pc /\ h.found = found /\ h.request = call[c].request
    BY DEF IInv, TypeOK, Handler
  <1>2. call' = [call EXCEPT ![c] = h] /\ overlapped' = overlapped
    BY DEF GoTo
  <1> HIDE DEF h
  <1>3. ASSUME Undisturbed, Restoring(c) \/ OneLeft, Sees(c), call'[c] = h, h.pc # "failed"
        PROVE  (Restoring(c)' \/ OneLeft') /\ Sees(c)'
    BY <1>1, <1>3
  <1> QED
    BY <1>1, <1>2, <1>3, KeepMove

\* A handler that stops where it has nothing to restore, or fails.
LEMMA FinishKeeps ==
    ASSUME IInv, Keeping, NEW c \in Calls, InFlight(c), NEW pc \in {"done", "failed"},
           Finish(c, pc), pc = "done" => ~Restoring(c) \/ ~Sees(c)
    PROVE  Keeping'
  <1>1. GoTo(c, pc, {}) /\ book' = book /\ default' = default
    BY DEF Finish
  <1>2. ASSUME Undisturbed, Restoring(c) \/ OneLeft, Sees(c), call'[c].pc = pc,
               call'[c].found = {}, call'[c].request = call[c].request, pc # "failed"
        PROVE  (Restoring(c)' \/ OneLeft') /\ Sees(c)'
    <2>1. OneLeft' /\ Sees(c)'
      BY <1>1, <1>2 DEF OneLeft, Sees, At
    <2> QED
      BY <2>1
  <1> QED
    BY <1>1, <1>2, KeepGoTo

LEMMA ReadingKeeps ==
    ASSUME IInv, Keeping, NEW c \in Calls,
           \/ FindAddress(c) \/ FindDefaults(c) \/ CountAddresses(c) \/ FindNext(c)
           \/ Answer(c) \/ Fail(c)
    PROVE  Keeping'
  <1>0. /\ book \in Seq(Addresses)
        /\ call[c].pc \in Running => InFlight(c)
    BY DEF IInv, TypeOK, InFlight
  <1>1. CASE FindAddress(c)
    <2> DEFINE a == call[c].request.id
    <2>1. /\ call[c].pc = "called" /\ InFlight(c) /\ book' = book /\ default' = default
          /\ ~Restoring(c)
      BY <1>0, <1>1 DEF FindAddress, At, Running, Restoring
    <2>2. CASE Finish(c, "done")
      BY <2>1, <2>2, FinishKeeps
    <2>3. CASE GoTo(c, "found", default \cap {a})
      <3>1. ASSUME OneLeft, call'[c].pc = "found", call'[c].found = default \cap {a},
                   call'[c].request = call[c].request
            PROVE  OneLeft' /\ Sees(c)'
        BY <2>1, <3>1 DEF OneLeft, Sees, At
      <3> QED
        BY <2>1, <2>3, <3>1, KeepGoTo
    <2> QED
      BY <1>1, <2>2, <2>3 DEF FindAddress
  <1>2. CASE FindDefaults(c)
    <2>1. /\ InFlight(c) /\ book' = book /\ default' = default /\ ~Restoring(c)
          /\ GoTo(c, "clearing", default)
          /\ call[c].request.op = "create" => call[c].request.isDefault = "true"
      BY <1>0, <1>2 DEF FindDefaults, At, Running, Restoring
    <2>2. ASSUME OneLeft, call'[c].pc = "clearing", call'[c].request = call[c].request
          PROVE  OneLeft' /\ Sees(c)'
      BY <2>1, <2>2 DEF OneLeft, Sees, At
    <2> QED
      BY <2>1, <2>2, KeepGoTo
  <1>3. CASE CountAddresses(c)
    <2>1. /\ InFlight(c) /\ book' = book /\ default' = default
          /\ GoTo(c, "counted", Range(book)) /\ call[c].request.op = "create"
          /\ At(c, "create", "cleared") \/ ~Restoring(c)
      BY <1>0, <1>3 DEF CountAddresses, At, Running, Restoring
    <2>2. ASSUME Restoring(c) \/ OneLeft, Sees(c), call'[c].pc = "counted",
                 call'[c].found = Range(book), call'[c].request = call[c].request
          PROVE  (Restoring(c)' \/ OneLeft') /\ Sees(c)'
      <3>1. Sees(c)'
        BY <2>1, <2>2 DEF Sees, At
      <3>2. CASE At(c, "create", "cleared")
        BY <2>2, <3>1, <3>2 DEF Sees, Restoring, At
      <3>3. CASE ~Restoring(c)
        BY <2>1, <2>2, <3>1, <3>3 DEF OneLeft
      <3> QED
        BY <2>1, <3>2, <3>3
    <2> QED
      BY <2>1, <2>2, KeepGoTo
  <1>4. CASE FindNext(c)
    <2>1. /\ At(c, "delete", "deleted") /\ InFlight(c) /\ book' = book /\ default' = default
      BY <1>0, <1>4 DEF FindNext, At, Running
    <2>2. CASE book = <<>> /\ GoTo(c, "written", {})
      <3>1. ASSUME call'[c].pc = "written" PROVE OneLeft' /\ Sees(c)'
        BY <2>1, <2>2, <3>1 DEF OneLeft, Sees, At
      <3> QED
        BY <2>1, <2>2, <3>1, KeepGoTo
    <2>3. CASE book # <<>> /\ GoTo(c, "chosen", {Last(book)})
      <3>1. Last(book) \in Range(book)
        BY <1>0, <2>3 DEF Last, Range
      <3>2. ASSUME call'[c].pc = "chosen", call'[c].found = {Last(book)},
                   call'[c].request = call[c].request
            PROVE  Restoring(c)' /\ Sees(c)'
        BY <2>1, <3>1, <3>2 DEF Restoring, Sees, At
      <3> QED
        BY <2>1, <2>3, <3>2, KeepGoTo
    <2> QED
      BY <1>4, <2>2, <2>3 DEF FindNext
  <1>5. CASE Answer(c)
    <2>1. InFlight(c) /\ Finish(c, "done") /\ ~Restoring(c)
      BY <1>0, <1>5 DEF Answer, Running, Restoring, At
    <2> QED
      BY <2>1, FinishKeeps
  <1>6. CASE Fail(c)
    BY <1>6, FinishKeeps DEF Fail
  <1> QED
    BY <1>1, <1>2, <1>3, <1>4, <1>5, <1>6

LEMMA WritingKeeps ==
    ASSUME IInv, Keeping, NEW c \in Calls,
           \/ ClearNow(c) \/ ClearInTransaction(c) \/ CommitDefault(c)
           \/ InsertAddress(c) \/ DeleteRow(c) \/ MakeNextDefault(c)
    PROVE  Keeping'
  <1>0. /\ call[c] \in Handler /\ book \in Seq(Addresses) /\ default \subseteq Range(book)
        /\ call[c].pc \in Running => InFlight(c)
    BY DEF IInv, TypeOK, InFlight
  <1>1. CASE ClearNow(c)
    <2>1. At(c, "create", "clearing") /\ InFlight(c) /\ GoTo(c, "cleared", {})
      BY <1>0, <1>1 DEF ClearNow, At, Running
    <2>2. ASSUME Sees(c), call'[c].pc = "cleared", call'[c].request = call[c].request
          PROVE  Restoring(c)' /\ Sees(c)'
      BY <2>1, <2>2 DEF Restoring, Sees, At
    <2> QED
      BY <2>1, <2>2, KeepGoTo
  <1>2. CASE ClearInTransaction(c)
    <2> DEFINE h == [call[c] EXCEPT !.pc = "cleared", !.locked = call[c].found \cap default]
    <2>1. /\ At(c, "setDefault", "clearing") /\ InFlight(c)
          /\ call' = [call EXCEPT ![c] = h]
          /\ book' = book /\ default' = default /\ overlapped' = overlapped
      BY <1>0, <1>2 DEF ClearInTransaction, At, Running
    <2>2. h.pc = "cleared" /\ h.request = call[c].request
      BY <1>0 DEF Handler
    <2> HIDE DEF h
    <2>3. ASSUME Restoring(c) \/ OneLeft, call'[c] = h PROVE OneLeft' /\ Sees(c)'
      BY <2>1, <2>2, <2>3 DEF Restoring, OneLeft, Sees, At
    <2> QED
      BY <2>1, <2>2, <2>3, KeepMove
  <1>3. CASE CommitDefault(c)
    <2> DEFINE a == call[c].request.id
    <2>1. At(c, "setDefault", "cleared") /\ InFlight(c) /\ ~Restoring(c)
      BY <1>0, <1>3 DEF CommitDefault, At, Running, Restoring
    <2>2. CASE Finish(c, "done")
      BY <2>1, <2>2, FinishKeeps
    <2>3. CASE default' = (default \ call[c].locked) \cup {a} /\ GoTo(c, "written", {})
      <3>1. ASSUME call'[c].pc = "written" PROVE OneLeft' /\ Sees(c)'
        BY <2>3, <3>1 DEF OneLeft, Sees, At
      <3> QED
        BY <2>1, <2>3, <3>1, KeepGoTo
    <2> QED
      BY <1>3, <2>2, <2>3 DEF CommitDefault
  <1>4. CASE InsertAddress(c)
    <2>1. /\ At(c, "create", "counted") /\ InFlight(c) /\ GoTo(c, "written", {})
          /\ default' = IF Adds(c) THEN default \cup {c} ELSE default
      BY <1>0, <1>4 DEF InsertAddress, Adds, At, Running
    <2>2. call[c].request.isDefault \in {"true", "false", "undefined"}
      <3>1. call[c].request \in Request /\ call[c].request.op = "create"
        BY <1>0, <2>1, AddressAssumption DEF Handler, At
      <3> QED
        BY <3>1 DEF Request
    <2>3. ASSUME Undisturbed, Restoring(c) \/ OneLeft, Sees(c), call'[c].pc = "written"
          PROVE  OneLeft' /\ Sees(c)'
      <3>1. Sees(c)'
        BY <2>3 DEF Sees, At
      <3>2. CASE Adds(c)
        BY <2>1, <3>1, <3>2 DEF OneLeft
      <3>3. CASE ~Adds(c)
        <4>1. call[c].request.isDefault = "undefined" /\ call[c].found # {}
          BY <2>1, <2>2, <2>3, <3>3 DEF Adds, Undisturbed, At
        <4>2. book # <<>>
          BY <1>0, <2>1, <2>3, <4>1, EmptyBook DEF Sees
        <4>3. default # {}
          BY <2>1, <2>3, <4>1, <4>2 DEF Restoring, OneLeft, At
        <4> QED
          BY <2>1, <3>1, <3>3, <4>3 DEF OneLeft
      <3> QED
        BY <3>2, <3>3
    <2> QED
      BY <2>1, <2>3, KeepGoTo
  <1>5. CASE DeleteRow(c)
    <2> DEFINE a == call[c].request.id
    <2>1. At(c, "delete", "found") /\ InFlight(c) /\ ~Restoring(c)
      BY <1>0, <1>5 DEF DeleteRow, At, Running, Restoring
    <2>2. CASE Finish(c, "done")
      BY <2>1, <2>2, FinishKeeps
    <2>3. CASE ~Finish(c, "done")
      <3>1. /\ default' = default \ {a} /\ a \in Range(book)
            /\ GoTo(c, IF call[c].found = {} THEN "written" ELSE "deleted", {})
        BY <1>5, <2>3 DEF DeleteRow
      <3>2. CASE call[c].found = {}
        <4>1. ASSUME Restoring(c) \/ OneLeft, Sees(c), call'[c].pc = "written"
              PROVE  OneLeft' /\ Sees(c)'
          <5>1. default' = default
            BY <2>1, <3>1, <3>2, <4>1 DEF Sees
          <5>2. book # <<>>
            BY <1>0, <3>1, EmptyBook
          <5> QED
            BY <2>1, <4>1, <5>1, <5>2 DEF OneLeft, Sees, At
        <4>2. GoTo(c, "written", {})
          BY <3>1, <3>2
        <4> QED
          BY <2>1, <4>1, <4>2, KeepGoTo
      <3>3. CASE call[c].found # {}
        <4>1. ASSUME call'[c].pc = "deleted", call'[c].request = call[c].request
              PROVE  Restoring(c)' /\ Sees(c)'
          BY <2>1, <4>1 DEF Restoring, Sees, At
        <4>2. GoTo(c, "deleted", {})
          BY <3>1, <3>3
        <4> QED
          BY <2>1, <4>1, <4>2, KeepGoTo
      <3> QED
        BY <3>2, <3>3
    <2> QED
      BY <2>2, <2>3
  <1>6. CASE MakeNextDefault(c)
    <2>1. At(c, "delete", "chosen") /\ InFlight(c)
      BY <1>0, <1>6 DEF MakeNextDefault, At, Running
    <2>2. CASE Finish(c, "done") /\ ~(call[c].found \subseteq Range(book))
      <3>1. ~Sees(c)
        BY <2>1, <2>2 DEF Sees
      <3> QED
        BY <2>1, <2>2, <3>1, FinishKeeps
    <2>3. CASE default' = default \cup call[c].found /\ GoTo(c, "written", {})
      <3>1. ASSUME Sees(c), call'[c].pc = "written" PROVE OneLeft' /\ Sees(c)'
        BY <2>1, <2>3, <3>1 DEF OneLeft, Sees, At
      <3> QED
        BY <2>1, <2>3, <3>1, KeepGoTo
    <2> QED
      BY <1>6, <2>2, <2>3 DEF MakeNextDefault
  <1> QED
    BY <1>1, <1>2, <1>3, <1>4, <1>5, <1>6

LEMMA CallKeeps == ASSUME IInv, Keeping, NEW c \in Calls, Call(c) PROVE Keeping'
  <1> SUFFICES ASSUME Undisturbed' PROVE OneLeft' /\ \A d \in Calls : Sees(d)'
    BY DEF Keeping
  <1>1. /\ call[c].pc = "idle" /\ call' = [call EXCEPT ![c].pc = "called"]
        /\ book' = book /\ default' = default
        /\ overlapped = {} /\ \A d \in Calls : ~InFlight(d)
    BY DEF Call, Undisturbed
  <1>2. /\ call'[c].pc = "called" /\ call'[c].request = call[c].request
        /\ \A d \in Calls : d # c => call'[d] = call[d]
    BY <1>1 DEF IInv, TypeOK, Handler
  <1>3. Undisturbed
    BY <1>1, <1>2 DEF Undisturbed
  <1>4. \A d \in Calls : ~Restoring(d) /\ Sees(d)'
    BY <1>1, <1>2 DEF Restoring, Sees, At, InFlight, Running
  <1>5. OneLeft
    BY <1>3, <1>4 DEF Keeping
  <1> QED
    BY <1>1, <1>4, <1>5 DEF OneLeft

LEMMA NextKeeping == IInv /\ Keeping /\ [Next]_vars => Keeping'
  <1> SUFFICES ASSUME IInv, Keeping, [Next]_vars PROVE Keeping'
    OBVIOUS
  <1>1. CASE Crash
    <2>1. PICK c \in Calls : InFlight(c)
      BY <1>1 DEF Crash
    <2>2. call'[c].pc = "failed"
      BY <1>1, <2>1 DEF Crash, IInv, TypeOK, Handler
    <2>3. ~Undisturbed'
      BY <2>2 DEF Undisturbed
    <2> QED
      BY <2>3 DEF Keeping
  <1>2. CASE UNCHANGED vars
    BY <1>2 DEF vars, Keeping, Undisturbed, Restoring, OneLeft, Sees, At
  <1> QED
    BY <1>1, <1>2, CallKeeps, ReadingKeeps, WritingKeeps DEF Next

-----------------------------------------------------------------------------
(* The theorems.                                                           *)

\* IInv is an inductive invariant of the three handlers: a call that has not
\* overlapped has the book to itself, and what it has read is still so.
THEOREM Invariance == Spec => []IInv
  <1> QED
    BY InitIInv, NextIInv, PTL DEF Spec

\* The book lists no address twice, and every default is in the book.
THEOREM TypeCorrect == Spec => []TypeOK
  <1>1. IInv => TypeOK
    BY DEF IInv
  <1> QED
    BY <1>1, Invariance, PTL

\* setDefaultAddress, when it does not overlap, leaves its address as the only
\* default, however many defaults overlapping calls have left before it.
THEOREM SetDefaultAlwaysRepairs == Spec => []SetDefaultRepairs
  <1>1. IInv => SetDefaultRepairs
    BY DEF IInv, Kept, SetDefaultRepairs, At
  <1> QED
    BY <1>1, Invariance, PTL

\* There are never more defaults than calls that overlapped, if more than one.
THEOREM DefaultsAlwaysBounded == Spec => []DefaultsBounded
  <1>1. IInv /\ Counting => DefaultsBounded
    <2> SUFFICES ASSUME Counting PROVE DefaultsBounded
      OBVIOUS
    <2>1. IsFiniteSet(overlapped)
      BY FS_Subset DEF Counting
    <2>2. Cardinality(Spent) <= Cardinality(overlapped) /\ Cardinality(overlapped) \in Nat
      BY <2>1, FS_Subset, FS_CardinalityType DEF Spent
    <2> QED
      BY <2>2, CountsAreFinite DEF Counting, Few, DefaultsBounded
  <1> QED
    BY <1>1, InitCounting, NextCounting, Invariance, PTL DEF Spec

\* A user with addresses has a default one, as long as calls neither overlap nor fail and
\* no address is created as not the default.
THEOREM DefaultAlwaysKept == Spec => []DefaultKept
  <1>1. Keeping => DefaultKept
    BY DEF Keeping, DefaultKept, OneLeft, Restoring, At, InFlight, Running
  <1> QED
    BY <1>1, InitKeeping, NextKeeping, Invariance, PTL DEF Spec

=============================================================================
