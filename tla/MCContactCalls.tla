--------------------------- MODULE MCContactCalls ---------------------------
(* ContactCalls for TLC: two contacts, the system source, one more and one   *)
(* that is created, and requests of every kind that meet in them.            *)
EXTENDS ContactCalls

CONSTANTS p1, p2, s0, s1, s2

MCRequests ==
    {[kind |-> "createContact", contact |-> p2, source |-> s1],
     [kind |-> "createContact", contact |-> p2, source |-> s2],
     [kind |-> "createContact", contact |-> p2, source |-> None],
     [kind |-> "removeContacts", ids |-> <<p1, p2>>],
     [kind |-> "removeContacts", ids |-> <<p1>>],
     [kind |-> "purge", source |-> s0],
     [kind |-> "createSource", source |-> s2, primary |-> TRUE],
     [kind |-> "updateSources", list |-> <<s2, s1>>, primary |-> s1],
     [kind |-> "removeSource", source |-> s0],
     [kind |-> "removeSource", source |-> s1],
     [kind |-> "source"],
     [kind |-> "availableSources"]}
=============================================================================
