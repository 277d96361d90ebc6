------------------------------- MODULE Filters -------------------------------
(***************************************************************************)
(* The filter of a query (common/filter.cpp): a tree of unions and         *)
(* intersections.  The service tests contacts with it, and it looks into   *)
(* the tree beforehand for what it can shorten: nothing to test, nothing   *)
(* to find, ids or a phone number to look up, deleted contacts asked for.  *)
(*                                                                         *)
(* The leaves are the filters of QtContacts the code tells apart; "other"  *)
(* is one that QContactManagerEngine tests, given by what it accepts.  A   *)
(* phone filter is the minimal number of its value and the numbers of the  *)
(* contacts that comparePhoneNumbers accepts for it.                       *)
(***************************************************************************)
EXTENDS Naturals, SequencesExt

None == "none"
NotDeleted == 0     \* deletedAt() of a contact that is not deleted, and an invalid date

\* What a filter may look at: the id of a contact, its phone numbers, and the date of
\* its deletion.
Subject(c, phones, deletedAt) == [id |-> c, phones |-> phones, deletedAt |-> deletedAt]

\* Filter::testFilter.  A contact that is not deleted has an invalid date, which is as
\* late as the date of a filter for removed contacts without a date.
RECURSIVE TestFilter(_, _)
TestFilter(f, s) ==
    CASE f.kind = "default" -> TRUE
      [] f.kind = "invalid" -> FALSE
      [] f.kind = "ids" -> s.id \in ToSet(f.ids)
      [] f.kind = "guid" -> s.id = f.id
      [] f.kind = "phone" -> ToSet(s.phones) \intersect f.accepts # {}
      [] f.kind = "removed" -> s.deletedAt >= f.since
      [] f.kind = "other" -> s.id \in f.accepts
      [] f.kind = "and" -> f.terms # <<>> /\ \A i \in DOMAIN f.terms : TestFilter(f.terms[i], s)
      [] f.kind = "or" -> \E i \in DOMAIN f.terms : TestFilter(f.terms[i], s)

Node(f) == f.kind \in {"and", "or"}

\* The loops of checkIsValid and checkIsEmpty return in every branch: they look at the
\* first term only, and at the first of its terms.
RECURSIVE CheckIsValid(_)
CheckIsValid(terms) ==
    IF terms = <<>> THEN TRUE
    ELSE IF Node(Head(terms)) THEN CheckIsValid(Head(terms).terms)
    ELSE Head(terms).kind # "invalid"

RECURSIVE CheckIsEmpty(_)
CheckIsEmpty(terms) ==
    IF terms = <<>> THEN TRUE
    ELSE IF Node(Head(terms)) THEN CheckIsEmpty(Head(terms).terms)
    ELSE Head(terms).kind = "default"

IsValid(f) == CheckIsValid(<<f>>)
IsEmpty(f) == CheckIsEmpty(<<f>>)

\* A query by id, or what a client makes of one.
IsIdFilter(f) ==
    \/ f.kind = "ids"
    \/ f.kind = "or" /\ Len(f.terms) = 1 /\ f.terms[1].kind = "guid"

RECURSIVE AsksForRemoved(_)
AsksForRemoved(f) ==
    \/ f.kind = "removed"
    \/ Node(f) /\ \E i \in DOMAIN f.terms : AsksForRemoved(f.terms[i])

IncludeRemoved(f) == IsIdFilter(f) \/ AsksForRemoved(f)

\* Filter::test
FilterTest(f, s) == (s.deletedAt # NotDeleted => IncludeRemoved(f)) /\ TestFilter(f, s)

\* The ids named anywhere in the tree.
RECURSIVE IdsToFilter(_)
IdsToFilter(f) ==
    CASE f.kind = "ids" -> f.ids
      [] f.kind = "guid" -> IF f.exactly THEN <<f.id>> ELSE <<>>
      [] Node(f) -> FlattenSeq([i \in DOMAIN f.terms |-> IdsToFilter(f.terms[i])])
      [] OTHER -> <<>>

\* The number to look up, unless there is none in the tree or it is one of several terms
\* of a union; None is the empty string.
RECURSIVE PhoneNumberToFilter(_)
PhoneNumberToFilter(f) ==
    CASE f.kind = "phone" -> f.number
      [] f.kind = "or" /\ Len(f.terms) = 1 -> PhoneNumberToFilter(f.terms[1])
      [] f.kind = "and" ->
            LET i == SelectInSeq(f.terms, LAMBDA g : PhoneNumberToFilter(g) # None)
            IN  IF i = 0 THEN None ELSE PhoneNumberToFilter(f.terms[i])
      [] OTHER -> None
=============================================================================
