----------------------------- MODULE Assignment -----------------------------
(***************************************************************************)
(* What dispatching promises, without requests, transactions or locks: an  *)
(* order is given to one driver, who is engaged in that same step and only *)
(* afterwards told; a driver is set free only if he has been given an      *)
(* order.  Dispatch implements it.                                         *)
(***************************************************************************)
CONSTANTS Orders, Drivers, NoDriver

VARIABLES
    rider,      \* the driver of each order, NoDriver until there is one
    engaged,    \* the drivers who are marked busy
    told        \* who was told that an order is his

vars == <<rider, engaged, told>>

Init == /\ rider = [o \in Orders |-> NoDriver]
        /\ engaged = {}
        /\ told = {}

Assign(o, p) == /\ rider[o] = NoDriver
                /\ rider' = [rider EXCEPT ![o] = p]
                /\ engaged' = engaged \cup {p}
                /\ UNCHANGED told

Tell(o, p) == /\ rider[o] = p
              /\ told' = told \cup {<<o, p>>}
              /\ UNCHANGED <<rider, engaged>>

Release(p) == /\ p \in engaged
              /\ \E o \in Orders : rider[o] = p
              /\ engaged' = engaged \ {p}
              /\ UNCHANGED <<rider, told>>

Next == \/ \E o \in Orders, p \in Drivers : Assign(o, p) \/ Tell(o, p)
        \/ \E p \in Drivers : Release(p)

Spec == Init /\ [][Next]_vars

=============================================================================
