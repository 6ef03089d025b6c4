----------------------------- MODULE AddressBook -----------------------------
(***************************************************************************)
(* The addresses of one user and which of them is his default, the         *)
(* handlers of src/src/address/address.service.ts.  The rows of other      *)
(* users are out of their reach: each statement has the user or one of     *)
(* the user's own addresses in its condition.                              *)
(*                                                                         *)
(* Only setDefaultAddress has a transaction.  An updateMany in READ        *)
(* COMMITTED finds its rows in a snapshot and checks each of them again    *)
(* when it has the row's lock, so that what has become default meanwhile   *)
(* is left alone; Find... and Clear are these two moments.                 *)
(*                                                                         *)
(* A definition whose comment begins with "Fault:" is no part of the       *)
(* specification: it is a faulty form of the definition that follows it,   *)
(* which one of the properties must find.                                  *)
(***************************************************************************)
EXTENDS Naturals, FiniteSets, SequencesExt

CONSTANTS
    Old,            \* addresses the user has at first
    Calls,          \* his requests; an address created by one is named after it
    Requests        \* what they may ask for

Addresses == Old \cup Calls

\* isDefault is optional in the body of POST /address.
Request == [op: {"create"}, isDefault: {"true", "false", "undefined"}]
           \cup [op: {"setDefault", "delete"}, id: Addresses]

ASSUME AddressAssumption ==
    /\ Old \cap Calls = {} /\ IsFiniteSet(Old)
    /\ Requests \subseteq Request

VARIABLES
    book,           \* the user's rows of "addresses", the newest last
    default,        \* those with is_default
    call,           \* the handlers
    overlapped      \* history: the calls that ran while another one did

vars == <<book, default, call, overlapped>>

Running == {"called", "found", "clearing", "cleared", "counted",
            "deleted", "chosen", "written"}

\* found is what the last query of the handler returned, locked the rows that
\* its open transaction has cleared.
Handler == [pc: Running \cup {"idle", "done", "failed"}, request: Requests,
            found: SUBSET Addresses, locked: SUBSET Addresses]

TypeOK ==
    /\ book \in Seq(Addresses)
    /\ IsInjective(book)
    /\ default \subseteq Range(book)
    /\ call \in [Calls -> Handler]
    /\ overlapped \subseteq Calls

\* A book as calls one after the other leave it.
Init ==
    /\ \E old \in SUBSET Old : book \in SetToSeqs(old)
    /\ IF book = <<>> THEN default = {} ELSE \E a \in Range(book) : default = {a}
    /\ call \in [Calls -> [pc: {"idle"}, request: Requests, found: {{}}, locked: {{}}]]
    /\ overlapped = {}

-----------------------------------------------------------------------------
InFlight(c) == call[c].pc \in Running

At(c, op, pc) == call[c].request.op = op /\ call[c].pc = pc

GoTo(c, pc, found) ==
    /\ call' = [call EXCEPT ![c].pc = pc, ![c].found = found, ![c].locked = {}]
    /\ UNCHANGED overlapped

\* A handler that throws or returns leaves the rows as its statements have left them.
Finish(c, pc) == GoTo(c, pc, {}) /\ UNCHANGED <<book, default>>

Unlocked(c, a) == \A d \in Calls \ {c} : a \notin call[d].locked

Call(c) ==
    LET others == {d \in Calls : InFlight(d)} IN
    /\ call[c].pc = "idle"
    /\ call' = [call EXCEPT ![c].pc = "called"]
    /\ overlapped' = IF others = {} THEN overlapped ELSE overlapped \cup others \cup {c}
    /\ UNCHANGED <<book, default>>

\* findUnique and the two checks after it.  deleteAddress keeps the row it found,
\* of which only is_default matters later.
FindAddress(c) ==
    /\ At(c, "setDefault", "called") \/ At(c, "delete", "called")
    /\ UNCHANGED <<book, default>>
    /\ LET a == call[c].request.id IN
       IF a \in Range(book) THEN GoTo(c, "found", default \cap {a}) ELSE Finish(c, "done")

-----------------------------------------------------------------------------
(* The updateMany that clears the defaults, in create and in setDefault.   *)

\* Fault: findFirst in place of updateMany, one default is found.
FindOneDefault(c) ==
    /\ \/ At(c, "create", "called") /\ call[c].request.isDefault = "true"
       \/ At(c, "setDefault", "found")
    /\ \E one \in {{a} : a \in default} \cup ({{}} \cap {default}) : GoTo(c, "clearing", one)
    /\ UNCHANGED <<book, default>>

FindDefaults(c) ==
    /\ \/ At(c, "create", "called") /\ call[c].request.isDefault = "true"
       \/ At(c, "setDefault", "found")
    /\ GoTo(c, "clearing", default)
    /\ UNCHANGED <<book, default>>

\* createAddress is not in a transaction: its update is visible at once.
ClearNow(c) ==
    /\ At(c, "create", "clearing")
    /\ \A a \in call[c].found : Unlocked(c, a)
    /\ default' = default \ call[c].found
    /\ GoTo(c, "cleared", {})
    /\ UNCHANGED book

ClearInTransaction(c) ==
    /\ At(c, "setDefault", "clearing")
    /\ \A a \in call[c].found : Unlocked(c, a)
    /\ call' = [call EXCEPT ![c].pc = "cleared",
                            ![c].locked = call[c].found \cap default]
    /\ UNCHANGED <<book, default, overlapped>>

\* Fault: the update that clears is forgotten.
CommitAnother(c) ==
    /\ At(c, "setDefault", "cleared")
    /\ LET a == call[c].request.id IN
       IF a \in Range(book)
         THEN /\ Unlocked(c, a)
              /\ default' = default \cup {a}
              /\ GoTo(c, "written", {})
              /\ UNCHANGED book
         ELSE Finish(c, "done")

\* The second update fails when the row is gone, and the first one with it.
CommitDefault(c) ==
    /\ At(c, "setDefault", "cleared")
    /\ LET a == call[c].request.id IN
       IF a \in Range(book)
         THEN /\ Unlocked(c, a)
              /\ default' = (default \ call[c].locked) \cup {a}
              /\ GoTo(c, "written", {})
              /\ UNCHANGED book
         ELSE Finish(c, "done")

-----------------------------------------------------------------------------
(* The rest of createAddress                                               *)

CountAddresses(c) ==
    /\ \/ At(c, "create", "called") /\ call[c].request.isDefault # "true"
       \/ At(c, "create", "cleared")
    /\ GoTo(c, "counted", Range(book))
    /\ UNCHANGED <<book, default>>

\* isDefault ?? count === 0
InsertAddress(c) ==
    /\ At(c, "create", "counted")
    /\ book' = Append(book, c)
    /\ default' = IF \/ call[c].request.isDefault = "true"
                     \/ call[c].request.isDefault = "undefined" /\ call[c].found = {}
                    THEN default \cup {c} ELSE default
    /\ GoTo(c, "written", {})

-----------------------------------------------------------------------------
(* The rest of deleteAddress                                               *)

\* Fault: the row is hidden, and keeps its flag.
HideAddress(c) ==
    /\ At(c, "delete", "found")
    /\ LET a == call[c].request.id IN
       IF a \in Range(book)
         THEN /\ Unlocked(c, a)
              /\ \E k \in DOMAIN book : book[k] = a /\ book' = RemoveAt(book, k)
              /\ UNCHANGED default
              /\ GoTo(c, IF call[c].found = {} THEN "written" ELSE "deleted", {})
         ELSE Finish(c, "done")

\* An order that names the address makes the delete fail, which is Fail(c).
DeleteRow(c) ==
    /\ At(c, "delete", "found")
    /\ LET a == call[c].request.id IN
       IF a \in Range(book)
         THEN /\ Unlocked(c, a)
              /\ \E k \in DOMAIN book : book[k] = a /\ book' = RemoveAt(book, k)
              /\ default' = default \ {a}
              /\ GoTo(c, IF call[c].found = {} THEN "written" ELSE "deleted", {})
         ELSE Finish(c, "done")

\* Fault: nothing becomes the default in place of the deleted one.
FindNoNext(c) == At(c, "delete", "deleted") /\ Finish(c, "written")

FindNext(c) ==
    /\ At(c, "delete", "deleted")
    /\ IF book = <<>>
         THEN GoTo(c, "written", {})
         ELSE GoTo(c, "chosen", {Last(book)})
    /\ UNCHANGED <<book, default>>

MakeNextDefault(c) ==
    /\ At(c, "delete", "chosen")
    /\ IF call[c].found \subseteq Range(book)
         THEN /\ \A a \in call[c].found : Unlocked(c, a)
              /\ default' = default \cup call[c].found
              /\ GoTo(c, "written", {})
              /\ UNCHANGED book
         ELSE Finish(c, "done")

Answer(c) == call[c].pc = "written" /\ Finish(c, "done")

-----------------------------------------------------------------------------
\* A statement is rejected or the transaction rolled back.
Fail(c) == InFlight(c) /\ Finish(c, "failed")

\* The process stops; what was written outside of a transaction stays.
Crash ==
    /\ \E c \in Calls : InFlight(c)
    /\ call' = [c \in Calls |->
                  IF InFlight(c)
                    THEN [call[c] EXCEPT !.pc = "failed", !.found = {}, !.locked = {}]
                    ELSE call[c]]
    /\ UNCHANGED <<book, default, overlapped>>

Next ==
    \/ \E c \in Calls :
          \/ Call(c) \/ FindAddress(c) \/ FindDefaults(c)
          \/ ClearNow(c) \/ ClearInTransaction(c) \/ CommitDefault(c)
          \/ CountAddresses(c) \/ InsertAddress(c)
          \/ DeleteRow(c) \/ FindNext(c) \/ MakeNextDefault(c)
          \/ Answer(c) \/ Fail(c)
    \/ Crash

Spec == Init /\ [][Next]_vars

-----------------------------------------------------------------------------
(* What is claimed of the system.                                          *)

\* A second default comes only from calls that overlapped, and there are never more
\* defaults than such calls: calls one after the other, failing and interrupted
\* ones included, leave one default at most.
DefaultsBounded ==
    \/ Cardinality(default) <= 1
    \/ Cardinality(default) <= Cardinality(overlapped)

\* setDefaultAddress repairs what overlapping calls have left: when it had the book
\* to itself, its address is the only default.
SetDefaultRepairs ==
    \A c \in Calls :
        At(c, "setDefault", "written") /\ c \notin overlapped
            => default = {call[c].request.id}

\* A user with addresses has a default one, unless calls overlapped, one of them
\* failed half-way, or an address was created with isDefault false.
Undisturbed ==
    /\ overlapped = {}
    /\ \A c \in Calls : /\ call[c].pc # "failed"
                        /\ call[c].request.op = "create" => call[c].request.isDefault # "false"

DefaultKept ==
    Undisturbed /\ (\A c \in Calls : ~InFlight(c)) /\ book # <<>> => default # {}

=============================================================================
