------------------------------ MODULE MCPlugin ------------------------------
(* Two kinds of requests of the plugin for TLC: every save of up to MaxLen   *)
(* items, and the fetch of every page of a result of up to four contacts,    *)
(* one of which a query by id may find twice.  They share nothing; while one *)
(* is of any kind the other has the least to do.                             *)
EXTENDS SaveRequests, Pages

CONSTANT MaxLen

MCInputs == BoundedSeq(Items, MaxLen)
MCResults == {SubSeq(<<"c1", "c2", "c3", "c4">>, 1, n) : n \in 0 .. 4}
             \cup {<<"c1", "c2", "c1", "c3">>}
MCPageSizes == -1 .. 4

MCInit == Init /\ PagesInit /\ (input = << >> \/ (result = << >> /\ pageSize = 1))
MCNext == (Next /\ UNCHANGED pagesVars) \/ (PagesNext /\ UNCHANGED vars)
MCSpec == MCInit /\ [][MCNext]_<<vars, pagesVars>> /\ WF_vars(Answers)
=============================================================================
