------------------------------ MODULE MCQueries ------------------------------
(* Queries for TLC: two contacts and filters of every form, up to an         *)
(* intersection of unions, for scans that are let alone; and a few of them,  *)
(* one for each order of the visits, for scans that others meddle with.      *)
EXTENDS Queries

CONSTANTS c1, c2, n1

\* No number, one, and a list with two numbers that end in the same digits and
\* one without any.
MCPhones == {<< >>, <<n1>>, <<n1, Blank, n1>>}

Default == [kind |-> "default"]
Invalid == [kind |-> "invalid"]
Ids(s) == [kind |-> "ids", ids |-> s]
Guid(c, exactly) == [kind |-> "guid", id |-> c, exactly |-> exactly]
Phone(n, accepts) == [kind |-> "phone", number |-> n, accepts |-> accepts]
Removed(since) == [kind |-> "removed", since |-> since]
Other(accepts) == [kind |-> "other", accepts |-> accepts]
And(s) == [kind |-> "and", terms |-> s]
Or(s) == [kind |-> "or", terms |-> s]

\* "part" is a piece of n1, which the index does not have.
MCLeaves == {Default, Invalid, Ids(<<c1>>), Guid(c2, FALSE), Phone(n1, {n1}), Removed(1)}

MCQueried ==
    MCLeaves
    \cup {Ids(<< >>), Ids(<<c2, c1>>), Ids(<<c1, c1>>), Guid(c2, TRUE), Phone("part", {n1}),
          Phone("part", {}), Removed(0), Removed(2), Other({c2})}
    \cup {And(<< >>), Or(<< >>), Or(<<Guid(c2, FALSE)>>), Or(<<Phone(n1, {n1})>>)}
    \cup {And(<<f, g>>) : f, g \in MCLeaves} \cup {Or(<<f, g>>) : f, g \in MCLeaves}
    \cup {And(<<Or(<<Ids(<<c1>>), Other({c2})>>), Phone(n1, {n1})>>),
          And(<<Or(<<Default, Other({c2})>>), Other({c1})>>),
          Or(<<And(<<Ids(<<c1>>), Other({c1})>>), And(<<Ids(<<c2>>), Other({c2})>>)>>)}

\* Scans that are let alone: any filter ...
Alone ==
    /\ looking = {} /\ meddling = 0
    /\ \A c \in ids : phones[c] # <<n1>>

\* ... and scans that are not: contacts of one key, some of the filters.
Meddled ==
    /\ \A c \in ids : key[c] = 0 /\ phones[c] \in {<< >>, <<n1>>}
    /\ scan = Idle \/ drifted \subseteq unsteady

MCSpec == QueriesInit
          /\ [][QueriesNext /\ (Alone \/ Meddled)']_<<vars, queryVars>>
=============================================================================
