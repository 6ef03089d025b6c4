------------------------------ MODULE StaleMenu ------------------------------
(***************************************************************************)
(* What GET /menu-items/:restaurantId/all promises: a menu that was the    *)
(* restaurant's at some moment of the last Bound units of time.            *)
(*                                                                         *)
(* A menu is known by the number of changes before it.                     *)
(***************************************************************************)
EXTENDS Naturals, Sequences

CONSTANTS
    Readers,        \* requests for the menu
    Bound,          \* how stale an answer may be
    MaxTime,        \* when the clock stops
    NoAnswer

VARIABLES
    now,
    changes,        \* the times of the changes, in order
    answer          \* the menu each request was answered

vars == <<now, changes, answer>>

Init ==
    /\ now = 0
    /\ changes = <<>>
    /\ answer = [r \in Readers |-> NoAnswer]

Tick ==
    /\ now < MaxTime
    /\ now' = now + 1
    /\ UNCHANGED <<changes, answer>>

Change ==
    /\ changes' = Append(changes, now)
    /\ UNCHANGED <<now, answer>>

\* The newest menu may always be shown, another one until Bound after its end.
Recent(v) == v = Len(changes) \/ now <= changes[v + 1] + Bound

Show(r) ==
    /\ answer[r] = NoAnswer
    /\ \E v \in 0..Len(changes) : Recent(v) /\ answer' = [answer EXCEPT ![r] = v]
    /\ UNCHANGED <<now, changes>>

Next == Tick \/ Change \/ \E r \in Readers : Show(r)

Spec == Init /\ [][Next]_vars

=============================================================================
