------------------------ MODULE MCAddressBookChanges ------------------------
(* Small instances of AddressBookChanges for TLC. *)
EXTENDS AddressBookChanges

CONSTANTS c1, c2, sLocal, sRemote

\* One contact in each source, so that one may be hidden while the other is not.
MCSourceOf == [c \in Contact |-> IF c = c1 THEN sLocal ELSE sRemote]
=============================================================================
