---------------------------- MODULE MCContactsMap ----------------------------
(* A small instance of ContactsMap for TLC: three contacts are the fewest   *)
(* for which a search can go wrong in the middle of the list.               *)
EXTENDS ContactsMap

CONSTANTS c1, c2, c3, n1

\* No number, one, and a list with two numbers that end in the same digits and
\* one without any.
MCPhones == {<< >>, <<n1>>, <<n1, Blank, n1>>}
=============================================================================
