--------------------------- MODULE MCDriverSearch ---------------------------
(***************************************************************************)
(* A small instance of DriverSearch.                                       *)
(***************************************************************************)
EXTENDS DriverSearch, TLC

CONSTANTS d1, d2, d3, u1, u2, s1

Symmetry == Permutations(Drivers) \cup Permutations(Reports)

\* What the rest of a search, its answer and the properties can depend on.  States that
\* differ in what the search has read already, or never reads, are taken for one.
View ==
    LET pc == search[s1].pc IN
    <<search, reply,
      CASE pc \in {"idle", "called", "found"} -> <<now, report, location, available>>
        [] pc = "filtered" -> <<now, report, location>>
        [] pc \in {"asked", "ranked"} -> <<now, Overrun>>
        [] OTHER -> <<Overrun>> >>
=============================================================================
