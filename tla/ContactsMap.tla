----------------------------- MODULE ContactsMap -----------------------------
(***************************************************************************)
(* The contacts the service holds in memory, in three structures that are  *)
(* updated one after the other: a hash from id to entry, the list of the   *)
(* entries in the order of the default sort, and a multimap from the last  *)
(* digits of a phone number to entries.  The entries are pointers to live  *)
(* individuals: their sort key and their phone numbers change under the    *)
(* map, and nobody moves an entry unless updatePosition is called.         *)
(*                                                                         *)
(* A sort key is a number here; the comparison of two contacts compares    *)
(* keys.  A phone number is what minimalNumber makes of it, Blank when no  *)
(* diallable character is left.                                            *)
(***************************************************************************)
EXTENDS Naturals, SequencesExt

CONSTANTS Contact,     \* the contact ids
          Key,         \* the sort keys
          Number,      \* the minimal phone numbers
          Blank,       \* the minimal number of a text without digits
          Phones       \* bound: the lists of phone numbers a contact may have

ASSUME KeyAssumption == Key \subseteq Nat
ASSUME PhonesAssumption == Phones \subseteq Seq(Number \cup {Blank}) /\ Blank \notin Number

VARIABLES ids,     \* the keys of m_idToEntry
          list,    \* m_contacts
          index,   \* m_phoneToEntry: how often an entry is filed under a number
          key,     \* the sort key each individual has now
          phones,  \* the phone numbers each individual has now
          drifted  \* history: entries changed by others since they were filed

vars == <<ids, list, index, key, phones, drifted>>

Init ==
  /\ ids = {}
  /\ list = << >>
  /\ index = [n \in Number |-> [c \in Contact |-> 0]]
  /\ key \in [Contact -> {0}]
  /\ phones = [c \in Contact |-> << >>]
  /\ drifted = {}

-----------------------------------------------------------------------------
(***************************************************************************)
(* The parts of the operations                                             *)
(***************************************************************************)

\* ContactEntryLessThan, the way std::upper_bound asks it: the new entry goes
\* before an entry it compares equal to.
Before(k, c) == k <= key'[c]

\* Mutant: the search compares the wrong way round.
UpperBoundReversed(s, k) ==
  LET search[n \in Nat] ==
        [first \in Nat |->
          IF n = 0 THEN first
          ELSE LET half == n \div 2
               IN  IF ~Before(k, s[first + half + 1])
                   THEN search[half][first]
                   ELSE search[n - half - 1][first + half + 1]]
  IN  search[Len(s)][0]

\* std::upper_bound over the list s as it is, sorted or not: how many entries
\* it leaves in front of an entry with key k.
UpperBound(s, k) ==
  LET search[n \in Nat] ==
        [first \in Nat |->
          IF n = 0 THEN first
          ELSE LET half == n \div 2
               IN  IF Before(k, s[first + half + 1])
                   THEN search[half][first]
                   ELSE search[n - half - 1][first + half + 1]]
  IN  search[Len(s)][0]

\* The list part of insertData(entry).
Filed(s, c) == InsertAt(s, UpperBound(s, key'[c]) + 1, c)

\* QList::move, from and to counted from 1.
Moved(s, from, to) == InsertAt(RemoveAt(s, from), to, s[from])

\* The list part of updatePosition: the new place is looked up in the list
\* that still holds the entry, at its old place, with its new key.
Repositioned(s, c) ==
  LET old == SelectInSeq(s, LAMBDA e : e = c)
      new == UpperBound(s, key'[c]) + 1
  IN  IF new <= Len(s) THEN Moved(s, old, new) ELSE Moved(s, old, Len(s))

\* How often insertData(numbers, entry) files an entry under n.
Occurrences(ps, n) == Cardinality({i \in DOMAIN ps : ps[i] = n})

\* The phone part: the entry leaves the index and is filed under ps.
Reindexed(c, ps) ==
  [n \in Number |-> [index[n] EXCEPT ![c] = Occurrences(ps, n)]]

-----------------------------------------------------------------------------
(***************************************************************************)
(* The operations                                                          *)
(***************************************************************************)

\* insert(entry): addContact of an individual that is not in the map.
Insert(c, k, ps) ==
  /\ c \notin ids
  /\ key' = [key EXCEPT ![c] = k]
  /\ phones' = [phones EXCEPT ![c] = ps]
  /\ ids' = ids \cup {c}
  /\ list' = Filed(list, c)
  /\ index' = Reindexed(c, ps)
  /\ UNCHANGED drifted

\* The individual of an entry that is deleted has no key and no numbers.
Gone(c) ==
  /\ key' = [key EXCEPT ![c] = 0]
  /\ phones' = [phones EXCEPT ![c] = << >>]
  /\ drifted' = drifted \ {c}

\* Mutant: the entry is left in the phone index.
TakeLeavesNumbers(c) ==
  /\ c \in ids
  /\ ids' = ids \ {c}
  /\ list' = RemoveFirst(list, c)
  /\ Gone(c)
  /\ UNCHANGED index

\* take(id): removeContact, which deletes the entry afterwards.
Take(c) ==
  /\ c \in ids
  /\ ids' = ids \ {c}
  /\ list' = RemoveFirst(list, c)
  /\ index' = Reindexed(c, << >>)
  /\ Gone(c)

\* An update through the service: the details change, then updateContactsDone
\* (or addContact of an entry that exists) calls updatePosition.
UpdatePosition(c, k, ps) ==
  /\ c \in ids
  /\ key' = [key EXCEPT ![c] = k]
  /\ phones' = [phones EXCEPT ![c] = ps]
  /\ list' = Repositioned(list, c)
  /\ index' = Reindexed(c, ps)
  /\ drifted' = drifted \ {c}
  /\ UNCHANGED ids

\* An update by somebody else: folks reports it, the individual is marked
\* dirty and individualChanged notifies; the map is not touched.
ChangedElsewhere(c, k, ps) ==
  /\ c \in ids
  /\ key' = [key EXCEPT ![c] = k]
  /\ phones' = [phones EXCEPT ![c] = ps]
  /\ drifted' = drifted \cup {c}
  /\ UNCHANGED <<ids, list, index>>

OwnStep ==
  \E c \in Contact :
    \/ Take(c)
    \/ \E k \in Key, ps \in Phones : Insert(c, k, ps) \/ UpdatePosition(c, k, ps)

ForeignStep ==
  \E c \in Contact, k \in Key, ps \in Phones : ChangedElsewhere(c, k, ps)

Spec == Init /\ [][OwnStep \/ ForeignStep]_vars

-----------------------------------------------------------------------------
(***************************************************************************)
(* Properties                                                              *)
(***************************************************************************)

\* m_idToEntry and m_contacts hold the same entries, each once, whatever
\* place the searches in an unsorted list find and however entries move: a
\* query over the list sees the contacts a query by id sees.
OneOfEach == ToSet(list) = ids /\ Len(list) = Cardinality(ids)

\* No structure points to an entry that take() handed over to be deleted.
NoDangling == \A n \in Number, c \in Contact : index[n][c] > 0 => c \in ids

\* An entry that nobody changed behind the back of the map is filed exactly
\* under the numbers it has, so valueByPhone finds it, whatever happens to the
\* other entries.
IndexedByPhone ==
  \A c \in ids \ drifted, n \in Number : index[n][c] = Occurrences(phones[c], n)

\* The three structures agree, whatever is inserted, changed, moved and taken.
MapAgrees == OneOfEach /\ NoDangling /\ IndexedByPhone

SortedBy(s, f) == \A i, j \in DOMAIN s : i < j => f[s[i]] <= f[s[j]]

\* An insertion into a sorted list keeps it sorted, and so does updatePosition
\* of a contact whose key does not grow.
KeepsOrder ==
  [][\A c \in Contact :
       /\ SortedBy(list, key)
       /\ list' # list
       /\ \/ c \notin ids /\ c \in ids'
          \/ c \in ids /\ ids' = ids /\ key'[c] < key[c]
       => SortedBy(list', key')]_vars

=============================================================================
