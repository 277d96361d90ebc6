-------------------------- MODULE MCUpdateContacts --------------------------
(* Small instances of UpdateContacts for TLC. *)
EXTENDS UpdateContacts

CONSTANTS c1, c2, k1, k2, k3

\* Two details: b is the value of the first one, d of the second.
For(c, b, d) == [id |-> c, new |-> <<b, d>>]

\* Lists that change everything, one detail, nothing of a contact that was
\* updated before, two contacts, and none.
MCLists ==
  { << >>,
    <<For(c1, 1, 1)>>,
    <<For(c1, 0, 0)>>,
    <<For(c2, 1, 0), For(c1, 0, 1)>> }

\* The calls are alike, so it does not matter in which order they are made.
InOrder == k2 \in called' => k1 \in called'

\* A third call is made where it is to wait inside a call that waits, with a list that
\* is soon done; then there is one contact, and nobody else is at work.
Quiet == map /\ reader = None /\ foreign = 0 /\ entries = {c1}
ThirdWaits ==
  /\ command.list = <<For(c1, 1, 1)>>
  /\ waiting # << >>
  /\ Last(queue').list \in {<< >>, <<For(c1, 0, 0)>>}
Third == k3 \in called' => Quiet' /\ (k3 \in called \/ ThirdWaits)

\* Neither keeps a fair action from being taken.
MCSpec == Init /\ [][Next /\ InOrder /\ Third]_vars /\ Fairness
=============================================================================
