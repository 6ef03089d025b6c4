---------------------------- MODULE MCAddressBook ----------------------------
(***************************************************************************)
(* Small instances of AddressBook.                                         *)
(***************************************************************************)
EXTENDS AddressBook

CONSTANTS a1, a2, c1, c2, c3

\* Every request, for old and for new addresses.
AllRequests == Request

Symmetry == Permutations(Calls)
=============================================================================
