-------------------------- MODULE MCClientRequests --------------------------
(* Small instances of ClientRequests for TLC. *)
EXTENDS ClientRequests

CONSTANTS a, b

Fetch == <<"query", "page">>
FetchById == <<"queryNow", "page">>
Save == <<"createGroup", "createContact", "updateGroups", "updateContacts">>
Removal == <<"removeContacts", "removeSource">>

\* Two requests; between them every type there is.
MCPlans == [r \in Request |-> IF r = a THEN {Fetch, <<"collections">>, << >>, Unsupported}
                                       ELSE {FetchById, <<"groups">>, Save, Removal}]
=============================================================================
