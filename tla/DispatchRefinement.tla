------------------------- MODULE DispatchRefinement -------------------------
(***************************************************************************)
(* Dispatch implements Assignment.                                         *)
(***************************************************************************)
EXTENDS Dispatch

riderBar == [o \in Orders |-> order[o].driver]

engagedBar == {p \in Drivers : profile[p] # NoRow /\ profile[p].isBusy}

toldBar == {<<delivery[accept[c].delivery].order, accept[c].driver>> :
               c \in {e \in AcceptCalls : reply[e] = "ok"}}

Abstract == INSTANCE Assignment
              WITH rider <- riderBar, engaged <- engagedBar, told <- toldBar

\* Whatever requests, failures and crashes do, the tables and the answers of
\* acceptDelivery behave as Assignment says.
ImplementsAssignment == Abstract!Spec

=============================================================================
