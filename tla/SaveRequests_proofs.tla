------------------------- MODULE SaveRequests_proofs -------------------------
(***************************************************************************)
(* Proofs about SaveRequests, for requests of any length and any mix of    *)
(* groups and contacts.                                                    *)
(*                                                                         *)
(* A save goes through its items in the order Before gives: at every step  *)
(* the items before it were sent once and handled, those of the call under *)
(* way were sent once, and the others were not sent.  Books says what the  *)
(* data object holds about the items that were handled, Final what is left *)
(* of that when the request has ended.                                     *)
(*                                                                         *)
(* The refinement of ClientRequests adds which calls are left at each step *)
(* (ToGo): what a step leaves is the rest of what was left before (Goes).  *)
(***************************************************************************)
EXTENDS SaveRequests, FiniteSetTheorems, SequenceTheorems, WellFoundedInduction, TLAPS

\* The operators of this section have the items i, the data object d, the stored
\* places sv, the places without an answer un and the counters ak as arguments.
New(i, kind) == {k \in DOMAIN i : i[k].new /\ i[k].kind = kind}
Old(i, kind) == {k \in DOMAIN i : ~i[k].new /\ i[k].kind = kind}
AllNew(i) == {k \in DOMAIN i : i[k].new}
AllOld(i) == DOMAIN i \ AllNew(i)

Steps == {"createGroup", "createContact", "updateGroups", "updateContacts"}
Filed == [of : Nat, is : {"given", "answered", "empty"}]

DataType(i, d) ==
  d \in [toCreate : [AllNew(i) -> Filed], toUpdate : [AllOld(i) -> Filed],
         groups : SUBSET DOMAIN i, contacts : SUBSET DOMAIN i,
         current : Nat, errors : SUBSET DOMAIN i]

\* What is pending when op is the step to be taken.
Pends(i, op, d) ==
  /\ op = "createGroup" => d.groups \subseteq New(i, "group") /\ d.contacts = New(i, "contact")
  /\ op = "createContact" => d.groups = {} /\ d.contacts \subseteq New(i, "contact")
  /\ op \in {"updateGroups", "updateContacts"} =>
       d.groups = Old(i, "group") /\ d.contacts = Old(i, "contact")

\* The items the steps before were about.
Before(i, op, d) ==
  CASE op = "createGroup" -> New(i, "group") \ d.groups
    [] op = "createContact" -> New(i, "group") \union (New(i, "contact") \ d.contacts)
    [] op = "updateGroups" -> AllNew(i)
    [] op = "updateContacts" -> AllNew(i) \union Old(i, "group")

AskedIs(i, ak, A) == ak = [k \in DOMAIN i |-> IF k \in A THEN 1 ELSE 0]

\* The books when the items of H were handled: the items to create are at their
\* places, an answer is of a stored item, a contact of H is stored and found, or in
\* the error map, or got no answer; the items to update are as they were given, but
\* for the groups if all of them were stored.
Books(i, d, sv, un, H) ==
  /\ \A k \in AllNew(i) : /\ d.toCreate[k].of = k
                          /\ d.toCreate[k].is = "answered" => k \in sv
  /\ d.errors \subseteq H \intersect New(i, "contact")
  /\ \A k \in H \intersect New(i, "contact") :
       /\ k \in sv => (d.toCreate[k] = Answered(k) /\ k \notin d.errors) \/ k \in un
       /\ k \in sv \/ k \in d.errors
  /\ \/ \A k \in AllOld(i) : d.toUpdate[k] = Given(k)
     \/ /\ Old(i, "group") \subseteq sv
        /\ \A k \in Old(i, "group") : d.toUpdate[k] = Answered(k)
        /\ \A k \in Old(i, "contact") : d.toUpdate[k] = Given(k)

\* The step op can be taken with d.
Ready(i, op, d, sv, un, ak) ==
  /\ DataType(i, d) /\ Pends(i, op, d)
  /\ AskedIs(i, ak, Before(i, op, d))
  /\ sv \subseteq Before(i, op, d) /\ un \subseteq Before(i, op, d)
  /\ Books(i, d, sv, un, Before(i, op, d))

\* The step op is under way.
Underway(i, op, d, sv, un, ak) ==
  /\ op \in Steps
  /\ DataType(i, d) /\ Pends(i, op, d)
  /\ op \in {"createGroup", "updateGroups"} => d.groups # {}
  /\ op \in {"createContact", "updateContacts"} => d.contacts # {}
  /\ op = "createContact" => d.current = Min(d.contacts)
  /\ AskedIs(i, ak, Before(i, op, d) \union Sent(op, d))
  /\ sv \subseteq Before(i, op, d) \union Sent(op, d)
  /\ un \subseteq Before(i, op, d)
  /\ Books(i, d, sv, un, Before(i, op, d))

\* No item was sent twice, and no contact before a new group.
AskedRight(i, ak) ==
  /\ ak \in [DOMAIN i -> {0, 1}]
  /\ \A k \in New(i, "contact") \union Old(i, "contact"), g \in New(i, "group") :
       ak[k] > 0 => ak[g] > 0

MisfiledAt(i, sv) ==
  \E j, k \in AllOld(i) : /\ j < k /\ i[k].kind = "contact"
                          /\ i[j].kind = "group" \/ j \notin sv

\* The books of a request that has ended.
Final(i, d, sv, un) ==
  /\ \A k \in AllNew(i) : /\ d.toCreate[k].of = k
                          /\ d.toCreate[k].is = "answered" => k \in sv
  /\ \A k \in AllOld(i) : d.toUpdate[k].is = "answered" => d.toUpdate[k].of \in sv
  /\ \A k \in sv \intersect New(i, "contact") :
       (d.toCreate[k] = Answered(k) /\ k \notin d.errors) \/ k \in un
  /\ \/ \A k \in AllOld(i) : d.toUpdate[k].of = k
     \/ MisfiledAt(i, sv) /\ un \intersect Old(i, "contact") = {}

\* What they tell when it has ended without an error.
Tells(i, d, sv) ==
  /\ New(i, "contact") \subseteq sv \union d.errors
  /\ \/ DOMAIN i \subseteq sv \union d.errors
     \/ \E k \in AllNew(i) : d.toCreate[k].is # "answered"
     \/ \E k \in AllOld(i) : d.toUpdate[k].is # "answered"

-----------------------------------------------------------------------------
IInv ==
  /\ input \in Seq(Items) /\ crashed \in BOOLEAN /\ served \in BOOLEAN
  /\ state \in {"idle", "active", "finished", "canceled"}
  /\ DataType(input, data)
  /\ saved \subseteq DOMAIN input /\ unanswered \subseteq DOMAIN input
  /\ AskedRight(input, asked)
  /\ \A k \in saved \union unanswered : asked[k] = 1
  /\ state = "idle" => /\ data = NewData /\ saved = {} /\ unanswered = {} /\ ~crashed
                       /\ asked = [k \in DOMAIN input |-> 0]
  /\ state = "active" => Underway(input, step, data, saved, unanswered, asked)
  /\ state # "active" => step = "none"
  /\ Final(input, data, saved, unanswered) \/ state = "active"
  /\ state = "finished" /\ error = "NoError" =>
       /\ \A k \in DOMAIN input : asked[k] = 1
       /\ Tells(input, data, saved)
-----------------------------------------------------------------------------
(* The items of a request. *)

\* A set of numbers has its least number.
LEMMA MinIsLeast ==
  ASSUME NEW S \in SUBSET Nat, S # {}
  PROVE  Min(S) \in S /\ \A n \in S : Min(S) <= n
<1>1. PICK m \in S : \A n \in S : ~(<<n, m>> \in OpToRel(<, Nat))
  BY NatLessThanWellFounded, WFMin, Zenon
<1>2. \A n \in S : ~(n < m)
  BY <1>1 DEF OpToRel
<1>3. \A n \in S : m <= n BY <1>2
<1> QED BY <1>3 DEF Min

\* The places of a request: every item is a group or a contact, new or old.
LEMMA PlaceFacts ==
  ASSUME NEW i \in Seq(Items)
  PROVE  /\ DOMAIN i \in SUBSET Nat /\ 0 \notin DOMAIN i
         /\ IsFiniteSet(DOMAIN i)
         /\ AllNew(i) = New(i, "group") \union New(i, "contact")
         /\ AllOld(i) = Old(i, "group") \union Old(i, "contact")
         /\ New(i, "group") \intersect New(i, "contact") = {}
         /\ Old(i, "group") \intersect Old(i, "contact") = {}
         /\ AllNew(i) \union AllOld(i) = DOMAIN i
         /\ AllNew(i) \intersect AllOld(i) = {}
<1>1. \A k \in DOMAIN i : i[k] \in Items
  OBVIOUS
<1>2. \A k \in DOMAIN i : i[k].kind \in {"group", "contact"} /\ i[k].new \in BOOLEAN
  BY <1>1 DEF Items
<1>3. AllNew(i) = New(i, "group") \union New(i, "contact")
  BY <1>2 DEF AllNew, New
<1>4. AllOld(i) = Old(i, "group") \union Old(i, "contact")
  BY <1>2 DEF AllOld, AllNew, Old
<1>5. /\ New(i, "group") \intersect New(i, "contact") = {}
      /\ Old(i, "group") \intersect Old(i, "contact") = {}
  BY DEF New, Old
<1>6. AllNew(i) \union AllOld(i) = DOMAIN i /\ AllNew(i) \intersect AllOld(i) = {}
  BY DEF AllNew, AllOld
<1>7. DOMAIN i = 1 .. Len(i) /\ Len(i) \in Nat
  OBVIOUS
<1>8. IsFiniteSet(DOMAIN i)
  BY <1>7, FS_Interval
<1> QED BY <1>3, <1>4, <1>5, <1>6, <1>7, <1>8

\* The sets of the model by these names.
LEMMA SetFacts ==
  /\ Places = DOMAIN input
  /\ ToCreate = AllNew(input) /\ ToUpdate = AllOld(input)
  /\ Kind(ToCreate, "group") = New(input, "group")
  /\ Kind(ToCreate, "contact") = New(input, "contact")
  /\ Kind(ToUpdate, "group") = Old(input, "group")
  /\ Kind(ToUpdate, "contact") = Old(input, "contact")
BY DEF Places, ToCreate, ToUpdate, Kind, AllNew, AllOld, New, Old

-----------------------------------------------------------------------------
(* The books.  The item handled, k, was not handled before. *)

\* A contact that was created.
LEMMA ContactFiled ==
  ASSUME NEW i \in Seq(Items), NEW d, NEW sv, NEW un, NEW H,
         DataType(i, d), Books(i, d, sv, un, H),
         NEW k \in New(i, "contact"), k \notin H, k \in sv
  PROVE  LET e == UpdateCurrentContact(d, k)
         IN  /\ DataType(i, e) /\ Books(i, e, sv, un, H \union {k})
             /\ e.groups = d.groups /\ e.contacts = d.contacts \ {k}
<1> DEFINE e == UpdateCurrentContact(d, k)
<1>1. k \in AllNew(i) /\ k \in Nat /\ AllNew(i) \subseteq DOMAIN i
  BY PlaceFacts DEF AllNew, New
<1>2. Answered(k) \in Filed /\ Answered(k).of = k
  BY <1>1 DEF Answered, Filed
<1>3. /\ e.groups = d.groups /\ e.contacts = d.contacts \ {k} /\ e.errors = d.errors
      /\ e.toUpdate = d.toUpdate /\ e.current = d.current
      /\ e.toCreate = [d.toCreate EXCEPT ![k] = Answered(k)]
  BY DEF UpdateCurrentContact, DataType
<1>4. DataType(i, e)
  BY <1>1, <1>2 DEF DataType, UpdateCurrentContact
<1>5. /\ e.toCreate[k] = Answered(k)
      /\ \A j \in AllNew(i) \ {k} : e.toCreate[j] = d.toCreate[j]
  BY <1>1, <1>3 DEF DataType
<1>6. Books(i, e, sv, un, H \union {k})
  BY <1>1, <1>2, <1>3, <1>5 DEF Books, New, AllNew
<1> HIDE DEF e
<1> QED BY <1>3, <1>4, <1>6 DEF e

\* A contact that was refused, or whose call got no answer.
LEMMA ContactRefused ==
  ASSUME NEW i \in Seq(Items), NEW d, NEW sv, NEW un, NEW H,
         DataType(i, d), Books(i, d, sv, un, H),
         NEW k \in New(i, "contact"), k \notin H, d.current = k,
         k \notin sv \/ k \in un,
         NEW e, e = NotifyUpdateError(d)
  PROVE  DataType(i, e) /\ Books(i, e, sv, un, H \union {k})
<1>1. k \in AllNew(i) /\ k \in DOMAIN i
  BY PlaceFacts DEF AllNew, New
<1>2. /\ e.errors = d.errors \union {k}
      /\ e.toUpdate = d.toUpdate /\ e.toCreate = d.toCreate
  BY DEF NotifyUpdateError, DataType
<1>3. DataType(i, e)
  BY <1>1 DEF DataType, NotifyUpdateError
<1>4. Books(i, e, sv, un, H \union {k})
  BY <1>1, <1>2 DEF Books, New, AllNew
<1> QED BY <1>3, <1>4

\* A group that was created or, by its answer, was not.
LEMMA GroupFiled ==
  ASSUME NEW i \in Seq(Items), NEW d, NEW un, NEW H,
         DataType(i, d), Books(i, d, saved, un, H),
         NEW k \in New(i, "group")
  PROVE  LET e == UpdateCurrentGroup(d, k)
         IN  /\ DataType(i, e) /\ Books(i, e, saved, un, H \union {k})
             /\ e.groups = d.groups \ {k} /\ e.contacts = d.contacts
<1> DEFINE e == UpdateCurrentGroup(d, k)
           x == IF k \in saved THEN Answered(k) ELSE Empty(k)
<1>1. k \in AllNew(i) /\ k \in Nat /\ k \notin New(i, "contact")
  BY PlaceFacts DEF AllNew, New
<1>2. x \in Filed /\ x.of = k /\ (x.is = "answered" => k \in saved)
  BY <1>1 DEF Answered, Empty, Filed
<1>3. /\ e.groups = d.groups \ {k} /\ e.contacts = d.contacts /\ e.errors = d.errors
      /\ e.toUpdate = d.toUpdate
      /\ e.toCreate = [d.toCreate EXCEPT ![k] = x]
  BY DEF UpdateCurrentGroup, DataType
<1> HIDE DEF x
<1>4. DataType(i, e)
  BY <1>1, <1>2 DEF DataType, UpdateCurrentGroup, x
<1>5. /\ e.toCreate[k] = x
      /\ \A j \in AllNew(i) \ {k} : e.toCreate[j] = d.toCreate[j]
  BY <1>1, <1>3 DEF DataType
<1>6. Books(i, e, saved, un, H \union {k})
  BY <1>1, <1>2, <1>3, <1>5 DEF Books, New, AllNew
<1> HIDE DEF e
<1> QED BY <1>3, <1>4, <1>6 DEF e

\* Items that are no new contacts are not in these books.
LEMMA BooksWiden ==
  ASSUME NEW i, NEW d, NEW sv, NEW un, NEW uw, NEW H, NEW G,
         Books(i, d, sv, un, H), un \subseteq uw, G \intersect New(i, "contact") = {}
  PROVE  Books(i, d, sv, uw, H \union G)
BY DEF Books

\* The groups that were updated: all of them, or the answer is not used.
LEMMA GroupsFiled ==
  ASSUME NEW d, NEW un, NEW H, input \in Seq(Items),
         DataType(input, d), Books(input, d, saved, un, H),
         d.groups = Old(input, "group")
  PROVE  LET e == UpdatePendingGroups(d, d.groups \intersect saved)
         IN  /\ DataType(input, e) /\ Books(input, e, saved, un, H)
             /\ e.groups = d.groups /\ e.contacts = d.contacts
<1> DEFINE A == d.groups \intersect saved
           e == UpdatePendingGroups(d, A)
           t == [k \in AllOld(input) |-> IF k \in d.groups THEN Answered(k) ELSE d.toUpdate[k]]
<1>1. CASE Cardinality(A) # Cardinality(d.groups)
  <2>1. e = d
    BY <1>1 DEF UpdatePendingGroups
  <2> QED BY <2>1
<1>2. CASE Cardinality(A) = Cardinality(d.groups)
  <2>1. IsFiniteSet(d.groups)
    BY PlaceFacts, FS_Subset DEF DataType
  <2>2. d.groups \subseteq saved
    <3>1. A \in SUBSET d.groups OBVIOUS
    <3>2. d.groups = A BY <1>2, <2>1, <3>1, FS_Subset
    <3> QED BY <3>2
  <2>3. e = [d EXCEPT !.toUpdate = t]
    BY <1>2, SetFacts DEF UpdatePendingGroups
  <2>4. \A k \in AllOld(input) : k \in Nat /\ Answered(k) \in Filed
    BY PlaceFacts DEF Answered, Filed
  <2>5. t \in [AllOld(input) -> Filed]
    BY <2>4 DEF DataType
  <2>6. /\ e.toUpdate = t /\ e.toCreate = d.toCreate /\ e.groups = d.groups
        /\ e.contacts = d.contacts /\ e.errors = d.errors
    BY <2>3 DEF DataType
  <2>7. DataType(input, e)
    BY <2>3, <2>5 DEF DataType
  <2>8. /\ \A k \in Old(input, "group") : t[k] = Answered(k)
        /\ \A k \in Old(input, "contact") : t[k] = Given(k)
    BY PlaceFacts DEF Books
  <2> HIDE DEF e, t
  <2>9. Books(input, e, saved, un, H)
    BY <2>2, <2>6, <2>8 DEF Books
  <2> QED BY <2>6, <2>7, <2>9 DEF e
<1> QED BY <1>1, <1>2

\* Later items have higher ranks.
LEMMA RankGrows ==
  ASSUME NEW K \in SUBSET Nat, IsFiniteSet(K), NEW j \in K, NEW k \in K, j < k
  PROVE  Rank(K, j) # Rank(K, k)
<1> DEFINE J == {n \in K : n <= j}
           L == {n \in K : n <= k}
<1>1. J \in SUBSET L /\ k \in L /\ k \notin J
  <2>1. j \in Nat /\ k \in Nat /\ \A n \in K : n \in Nat
    OBVIOUS
  <2>2. \A n \in K : n <= j => n <= k
    BY <2>1
  <2>3. k <= k /\ ~(k <= j)
    BY <2>1
  <2>4. J \subseteq L
    BY <2>2
  <2> QED BY <2>3, <2>4
<1>2. IsFiniteSet(L)
  BY FS_Subset, L \in SUBSET K
<1>3. Cardinality(L) # Cardinality(J)
  BY <1>1, <1>2, FS_Subset
<1> QED BY <1>3 DEF Rank

LEMMA RankInjective ==
  ASSUME NEW K \in SUBSET Nat, IsFiniteSet(K), NEW j \in K, NEW k \in K,
         Rank(K, j) = Rank(K, k)
  PROVE  j = k
<1>1. j \in Nat /\ k \in Nat OBVIOUS
<1>2. ~(j < k) BY RankGrows
<1>3. ~(k < j) BY RankGrows
<1> QED BY <1>1, <1>2, <1>3

\* The books at the end, when nothing more is filed.
LEMMA BooksFinal ==
  ASSUME NEW i \in Seq(Items), NEW d, NEW sv, NEW un, NEW uw, NEW H, DataType(i, d),
         Books(i, d, sv, un, H), un \subseteq uw, sv \subseteq H \union uw
  PROVE  Final(i, d, sv, uw)
<1>1. \A k : Given(k).of = k /\ Given(k).is = "given" /\ Answered(k).of = k
  BY DEF Given, Answered
<1>2. \A k \in AllOld(i) :
        /\ d.toUpdate[k].of = k
        /\ d.toUpdate[k].is = "answered" => k \in sv
  BY <1>1, PlaceFacts DEF Books
<1> QED BY <1>2 DEF Books, Final

\* What the contacts that were updated leave behind, wherever they were filed.
LEMMA ContactsFiled ==
  ASSUME NEW d, NEW un, NEW H, input \in Seq(Items),
         DataType(input, d), Books(input, d, saved, un, H),
         saved \subseteq H \union Old(input, "contact"), AllNew(input) \subseteq H,
         un \intersect Old(input, "contact") = {},
         d.contacts = Old(input, "contact")
  PROVE  LET e == UpdatePendingContacts(d, d.contacts \intersect saved)
         IN  DataType(input, e) /\ Final(input, e, saved, un) /\ Tells(input, e, saved)
<1> DEFINE A == d.contacts \intersect saved
           e == UpdatePendingContacts(d, A)
           filed(k) == {a \in A : Rank(A, a) = Rank(AllOld(input), k)}
           at(k) == CHOOSE a \in filed(k) : TRUE
           t == [k \in AllOld(input) |-> IF filed(k) # {} THEN Answered(at(k)) ELSE d.toUpdate[k]]
<1>1. /\ A \in SUBSET AllOld(input) /\ AllOld(input) \in SUBSET Nat
      /\ IsFiniteSet(AllOld(input)) /\ IsFiniteSet(A) /\ IsFiniteSet(d.contacts)
  <2>1. /\ A \in SUBSET AllOld(input) /\ AllOld(input) \in SUBSET Nat
        /\ d.contacts \in SUBSET DOMAIN input
    <3>1. d.contacts \in SUBSET AllOld(input)
      BY PlaceFacts
    <3>2. AllOld(input) \in SUBSET DOMAIN input
      BY DEF AllOld
    <3>3. DOMAIN input \in SUBSET Nat
      BY PlaceFacts
    <3> QED BY <3>1, <3>2, <3>3
  <2>2. AllOld(input) \in SUBSET DOMAIN input /\ IsFiniteSet(DOMAIN input)
    BY PlaceFacts DEF AllOld
  <2> QED BY <2>1, <2>2, FS_Subset
<1>2. e = [d EXCEPT !.toUpdate = t]
  BY SetFacts DEF UpdatePendingContacts
<1>3. \A k : filed(k) # {} => at(k) \in A /\ Rank(A, at(k)) = Rank(AllOld(input), k)
  OBVIOUS
<1>4. \A k \in AllOld(input) : t[k] = IF filed(k) # {} THEN Answered(at(k)) ELSE d.toUpdate[k]
  OBVIOUS
<1>5. t \in [AllOld(input) -> Filed]
  <2>1. \A a \in A : Answered(a) \in Filed
    BY <1>1 DEF Answered, Filed
  <2>2. \A k \in AllOld(input) : d.toUpdate[k] \in Filed
    BY DEF DataType
  <2> HIDE DEF filed, at
  <2> QED BY <1>3, <2>1, <2>2
<1> HIDE DEF filed, at, t
<1>6. /\ e.toUpdate = t /\ e.toCreate = d.toCreate /\ e.errors = d.errors
  BY <1>2 DEF DataType
<1>7. DataType(input, e)
  BY <1>2, <1>5 DEF DataType
<1>8. \A k : Given(k).of = k /\ Given(k).is = "given" /\ Answered(k).of = k
  BY DEF Given, Answered
<1>9. \A k \in AllOld(input) : /\ d.toUpdate[k].of = k
                               /\ d.toUpdate[k].is = "answered" => k \in saved
  BY <1>8, PlaceFacts DEF Books
\* An item at another's place means that one before it was not answered.
<1>10. ASSUME ~MisfiledAt(input, saved), NEW k \in AllOld(input) PROVE t[k].of = k
  <2>1. CASE filed(k) = {}
    BY <1>4, <1>9, <2>1
  <2>2. CASE filed(k) # {}
    <3> DEFINE a == at(k)
    <3>1. a \in A /\ a \in AllOld(input) /\ Rank(A, a) = Rank(AllOld(input), k)
      BY <1>1, <1>3, <2>2
    <3>2. input[a].kind = "contact"
      BY <3>1 DEF Old
    <3> HIDE DEF a
    <3>3. \A j \in AllOld(input) : j < a => input[j].kind # "group" /\ j \in saved
      BY <1>10, <3>1, <3>2 DEF MisfiledAt
    <3>4. \A j \in AllOld(input) : j < a => j \in A
      BY <3>3, PlaceFacts DEF Old
    <3>5. {j \in A : j <= a} = {j \in AllOld(input) : j <= a}
      BY <1>1, <3>1, <3>4
    <3>6. Rank(AllOld(input), a) = Rank(AllOld(input), k)
      BY <3>1, <3>5 DEF Rank
    <3>7. a = k
      BY <1>1, <3>1, <3>6, RankInjective
    <3> QED BY <1>4, <1>8, <2>2, <3>7 DEF a
  <2> QED BY <2>1, <2>2
<1>11. \A k \in AllOld(input) : t[k].is = "answered" => t[k].of \in saved
  BY <1>3, <1>4, <1>8, <1>9
<1>12. Final(input, e, saved, un)
  <2>1. (\A k \in AllOld(input) : t[k].of = k) \/ MisfiledAt(input, saved)
    BY <1>10
  <2>2. \A k \in saved \intersect New(input, "contact") :
          (d.toCreate[k] = Answered(k) /\ k \notin d.errors) \/ k \in un
    BY PlaceFacts DEF Books
  <2> HIDE DEF e
  <2> QED BY <1>6, <1>11, <2>1, <2>2 DEF Final, Books
\* There are no more places filed than answers.
<1>13. ASSUME \A k \in AllNew(input) : d.toCreate[k].is = "answered",
              \A k \in AllOld(input) : t[k].is = "answered"
       PROVE  DOMAIN input \subseteq saved \union d.errors
  <2> DEFINE S == {k \in AllOld(input) : filed(k) # {}}
             f == [k \in S |-> at(k)]
  <2>1. IsFiniteSet(S)
    BY <1>1, FS_Subset, S \in SUBSET AllOld(input)
  <2>2. f \in [S -> A] /\ \A k \in S : f[k] = at(k)
    BY <1>3
  <2>3. \A j, k \in S : f[j] = f[k] => j = k
    BY <1>1, <1>3, <2>2, RankInjective
  <2>4. ~(Cardinality(A) < Cardinality(S))
    <3> HIDE DEF S, f
    <3> QED BY <1>1, <2>1, <2>2, <2>3, FS_PigeonHole
  <2>5. d.contacts \in SUBSET S
    <3>1. \A k \in d.contacts : k \in AllOld(input) /\ d.toUpdate[k].is = "given"
      <4>1. d.contacts \subseteq AllOld(input)
        BY PlaceFacts
      <4>2. \A k \in d.contacts : d.toUpdate[k] = Given(k)
        BY <4>1 DEF Books
      <4> QED BY <1>8, <4>1, <4>2
    <3> QED BY <1>4, <1>13, <3>1
  <2>6. /\ Cardinality(A) \in Nat /\ Cardinality(S) \in Nat /\ Cardinality(d.contacts) \in Nat
        /\ Cardinality(A) <= Cardinality(d.contacts)
        /\ Cardinality(d.contacts) <= Cardinality(S)
    <3> HIDE DEF S
    <3> QED BY <1>1, <2>1, <2>5, FS_Subset, FS_CardinalityType
  <2>7. d.contacts = A /\ S = d.contacts
    <3>1. /\ Cardinality(d.contacts) = Cardinality(A) /\ Cardinality(S) = Cardinality(d.contacts)
      BY <2>4, <2>6
    <3>2. A \in SUBSET d.contacts OBVIOUS
    <3> HIDE DEF S, A
    <3>3. d.contacts = A BY <1>1, <3>1, <3>2, FS_Subset
    <3>4. S = d.contacts BY <2>1, <2>5, <3>1, FS_Subset
    <3> QED BY <3>3, <3>4
  <2>8. Old(input, "group") \subseteq saved
    <3>1. CASE Old(input, "group") \subseteq saved
      BY <3>1
    <3>2. CASE \A k \in AllOld(input) : d.toUpdate[k] = Given(k)
      <4>1. AllOld(input) \subseteq S
        BY <1>4, <1>8, <1>13, <3>2
      <4> QED BY <2>7, <4>1, PlaceFacts
    <3> QED BY <3>1, <3>2 DEF Books
  <2>9. AllNew(input) \subseteq saved
    BY <1>13 DEF Books
  <2>10. Old(input, "contact") \subseteq saved
    BY <2>7
  <2> QED BY <2>8, <2>9, <2>10, PlaceFacts
<1>14. New(input, "contact") \subseteq saved \union d.errors
  BY PlaceFacts DEF Books
<1>15. Tells(input, e, saved)
  <2> HIDE DEF e
  <2> QED BY <1>6, <1>13, <1>14 DEF Tells
<1> QED BY <1>7, <1>12, <1>15
-----------------------------------------------------------------------------
(* Taking a step.  A save is at a step, Ready, with the d the last answer left. *)

Frame ==
  /\ input \in Seq(Items) /\ input' = input
  /\ crashed \in BOOLEAN /\ crashed' = crashed

\* The items of a call were not sent before, and those before are the earlier ones.
LEMMA SentFacts ==
  ASSUME NEW i \in Seq(Items), NEW op \in Steps, NEW d, DataType(i, d), Pends(i, op, d),
         op \in {"createGroup", "updateGroups"} => d.groups # {},
         op \in {"createContact", "updateContacts"} => d.contacts # {}
  PROVE  /\ Sent(op, d) \subseteq DOMAIN i /\ Before(i, op, d) \subseteq DOMAIN i
         /\ Sent(op, d) \intersect Before(i, op, d) = {}
         /\ \A A : AskedIs(i, A, Before(i, op, d) \union Sent(op, d)) => AskedRight(i, A)
         /\ \A A : AskedIs(i, A, Before(i, op, d)) => AskedRight(i, A)
<1>1. d.groups \in SUBSET Nat /\ d.contacts \in SUBSET Nat
  BY PlaceFacts DEF DataType
<1>2. d.groups # {} => Min(d.groups) \in d.groups
  BY <1>1, MinIsLeast
<1>3. d.contacts # {} => Min(d.contacts) \in d.contacts
  BY <1>1, MinIsLeast
<1>4. /\ AllNew(i) \subseteq DOMAIN i /\ New(i, "group") \subseteq DOMAIN i
      /\ Old(i, "group") \subseteq DOMAIN i
      /\ d.groups \subseteq DOMAIN i /\ d.contacts \subseteq DOMAIN i
  BY DEF AllNew, New, Old, DataType
<1>5. /\ AllNew(i) = New(i, "group") \union New(i, "contact")
      /\ New(i, "group") \intersect New(i, "contact") = {}
      /\ Old(i, "group") \intersect Old(i, "contact") = {}
      /\ AllNew(i) \intersect Old(i, "group") = {}
      /\ AllNew(i) \intersect Old(i, "contact") = {}
  BY PlaceFacts
<1> DEFINE S == Sent(op, d)
           B == Before(i, op, d)
           C == New(i, "contact") \union Old(i, "contact")
<1>6. /\ S \subseteq DOMAIN i /\ B \subseteq DOMAIN i /\ S \intersect B = {}
      /\ B \intersect C # {} \/ S \intersect C # {} => New(i, "group") \subseteq B
  <2>1. CASE op = "createGroup"
    <3>1. S = {Min(d.groups)} /\ B = New(i, "group") \ d.groups /\ Min(d.groups) \in d.groups
      BY <1>2, <2>1 DEF Sent, Before
    <3> QED BY <1>4, <1>5, <2>1, <3>1 DEF Pends
  <2>2. CASE op = "createContact"
    <3>1. /\ S = {Min(d.contacts)} /\ Min(d.contacts) \in d.contacts
          /\ B = New(i, "group") \union (New(i, "contact") \ d.contacts)
      BY <1>3, <2>2 DEF Sent, Before
    <3> QED BY <1>4, <1>5, <2>2, <3>1 DEF Pends
  <2>3. CASE op = "updateGroups"
    <3>1. S = d.groups /\ B = AllNew(i)
      BY <2>3 DEF Sent, Before
    <3> QED BY <1>4, <1>5, <2>3, <3>1 DEF Pends
  <2>4. CASE op = "updateContacts"
    <3>1. S = d.contacts /\ B = AllNew(i) \union Old(i, "group")
      BY <2>4 DEF Sent, Before
    <3> QED BY <1>4, <1>5, <2>4, <3>1 DEF Pends
  <2> QED BY <2>1, <2>2, <2>3, <2>4 DEF Steps
<1> HIDE DEF S, B
<1>7. ASSUME NEW A, AskedIs(i, A, B \union S) PROVE AskedRight(i, A)
  <2>1. \A k \in DOMAIN i : A[k] = IF k \in B \union S THEN 1 ELSE 0
    BY <1>7 DEF AskedIs
  <2>2. A \in [DOMAIN i -> {0, 1}]
    BY <1>7 DEF AskedIs
  <2>3. C \subseteq DOMAIN i
    BY DEF New, Old
  <2> QED BY <1>4, <1>6, <2>1, <2>2, <2>3 DEF AskedRight
<1>8. ASSUME NEW A, AskedIs(i, A, B) PROVE AskedRight(i, A)
  <2>1. \A k \in DOMAIN i : A[k] = IF k \in B THEN 1 ELSE 0
    BY <1>8 DEF AskedIs
  <2>2. A \in [DOMAIN i -> {0, 1}]
    BY <1>8 DEF AskedIs
  <2>3. C \subseteq DOMAIN i
    BY DEF New, Old
  <2> QED BY <1>4, <1>6, <2>1, <2>2, <2>3 DEF AskedRight
<1> QED BY <1>6, <1>7, <1>8 DEF S, B

LEMMA TwoOrOne == Min({2, 0 + 1}) = 1
BY DEF Min

\* A call that is sent.
LEMMA CallSent ==
  ASSUME Frame, NEW op \in Steps, NEW d, Ready(input, op, d, saved', unanswered', asked),
         op \in {"createGroup", "updateGroups"} => d.groups # {},
         op \in {"createContact", "updateContacts"} => d.contacts # {},
         op = "createContact" => d.current = Min(d.contacts),
         Send(op, d)
  PROVE  IInv'
<1> DEFINE S == Sent(op, d)
           B == Before(input, op, d)
<1>1. DataType(input, d) /\ Pends(input, op, d)
  BY DEF Ready
<1>2. S \subseteq DOMAIN input /\ B \subseteq DOMAIN input /\ S \intersect B = {}
  BY <1>1, SentFacts DEF Frame
<1>3. /\ state' = "active" /\ step' = op /\ data' = d /\ served' = FALSE
      /\ asked' = [k \in DOMAIN input |-> IF k \in S THEN Min({2, asked[k] + 1}) ELSE asked[k]]
  BY DEF Send, Places
<1>4. asked = [k \in DOMAIN input |-> IF k \in B THEN 1 ELSE 0]
  BY DEF Ready, AskedIs
<1> HIDE DEF S, B
<1>5. AskedIs(input, asked', B \union S)
  <2>1. \A k \in S : k \in DOMAIN input /\ asked[k] = 0
    BY <1>2, <1>4
  <2>2. \A k \in S : Min({2, asked[k] + 1}) = 1
    BY <2>1, TwoOrOne
  <2>3. \A k \in DOMAIN input :
          (IF k \in S THEN Min({2, asked[k] + 1}) ELSE asked[k]) = IF k \in B \union S THEN 1 ELSE 0
    BY <1>4, <2>2
  <2> QED BY <1>3, <2>3 DEF AskedIs
<1>6. AskedRight(input, asked')
  BY <1>1, <1>5, SentFacts DEF Frame, S, B
<1>7. saved' \subseteq B /\ unanswered' \subseteq B
  BY DEF Ready, B
<1>8. \A k \in saved' \union unanswered' : asked'[k] = 1
  BY <1>2, <1>5, <1>7 DEF AskedIs
<1>9. Underway(input, op, d, saved', unanswered', asked')
  BY <1>5 DEF Ready, Underway, S, B
<1> QED BY <1>1, <1>2, <1>3, <1>6, <1>7, <1>8, <1>9 DEF IInv, Frame

\* A save that ends.
LEMMA Ended ==
  ASSUME Frame, NEW d, NEW e, DataType(input, d), Final(input, d, saved', unanswered'),
         AskedRight(input, asked), \A k \in saved' \union unanswered' : asked[k] = 1,
         saved' \subseteq DOMAIN input, unanswered' \subseteq DOMAIN input,
         e = "NoError" => (\A k \in DOMAIN input : asked[k] = 1) /\ Tells(input, d, saved'),
         served \in BOOLEAN, Finish(d, e)
  PROVE  IInv'
<1>1. /\ state' = "finished" /\ error' = e /\ data' = d /\ step' = "none"
      /\ served' = served /\ asked' = asked
  BY DEF Finish
<1> QED BY <1>1 DEF IInv, Frame

\* A save that ends at the step it is ready for, with an error or with all asked.
LEMMA EndedReady ==
  ASSUME Frame, NEW op \in Steps, NEW d, NEW e, served \in BOOLEAN,
         Ready(input, op, d, saved', unanswered', asked),
         op \in {"createGroup", "updateGroups"} => d.groups # {},
         op = "createContact" => d.contacts # {},
         e = "NoError" => op = "updateContacts" /\ d.contacts = {},
         d.contacts = {} => e = "NoError" \/ op # "updateContacts",
         Finish(d, e)
  PROVE  IInv'
<1> DEFINE B == Before(input, op, d)
<1>1. /\ DataType(input, d) /\ Pends(input, op, d) /\ AskedIs(input, asked, B)
      /\ saved' \subseteq B /\ unanswered' \subseteq B
      /\ Books(input, d, saved', unanswered', B)
  BY DEF Ready
<1>2. CASE e = "NoError"
  <2>1. B = DOMAIN input
    BY <1>1, <1>2, PlaceFacts DEF Before, Pends, Frame
  <2> HIDE DEF B
  <2>2. \A k \in DOMAIN input : asked[k] = 1
    BY <1>1, <2>1 DEF AskedIs
  <2>3. AskedRight(input, asked)
    BY <1>1, <2>1, <2>2, PlaceFacts DEF AskedIs, AskedRight, New, Old, Frame
  <2>4. Final(input, d, saved', unanswered')
    <3> DEFINE sv == saved'
               un == unanswered'
    <3>1. Books(input, d, sv, un, B) /\ sv \subseteq B BY <1>1
    <3> HIDE DEF sv, un
    <3>2. Final(input, d, sv, un)
      BY <1>1, <3>1, BooksFinal DEF Frame
    <3> QED BY <3>2 DEF sv, un
  <2>5. Tells(input, d, saved')
    <3>1. Old(input, "contact") = {}
      BY <1>1, <1>2 DEF Pends
    <3>2. New(input, "contact") \subseteq saved' \union d.errors
      BY <1>1, <2>1, PlaceFacts DEF Books, New
    <3>3. \A k : Given(k).is = "given" BY DEF Given
    <3>4. CASE Old(input, "group") \subseteq saved'
      <4>1. ASSUME \A k \in AllNew(input) : d.toCreate[k].is = "answered"
            PROVE  DOMAIN input \subseteq saved'
        <5>1. AllNew(input) \subseteq saved' BY <1>1, <4>1 DEF Books
        <5> QED BY <3>1, <3>4, <5>1, PlaceFacts DEF Frame
      <4> QED BY <3>2, <4>1 DEF Tells
    <3>5. CASE \A k \in AllOld(input) : d.toUpdate[k] = Given(k)
      <4>1. CASE AllOld(input) = {}
        <5>1. ASSUME \A k \in AllNew(input) : d.toCreate[k].is = "answered"
              PROVE  DOMAIN input \subseteq saved'
          <6>1. AllNew(input) \subseteq saved' BY <1>1, <5>1 DEF Books
          <6> QED BY <4>1, <6>1, PlaceFacts DEF Frame
        <5> QED BY <3>2, <5>1 DEF Tells
      <4>2. CASE AllOld(input) # {}
        BY <3>2, <3>3, <3>5, <4>2 DEF Tells
      <4> QED BY <4>1, <4>2
    <3> QED BY <1>1, <3>4, <3>5 DEF Books
  <2> QED BY <1>1, <2>1, <2>2, <2>3, <2>4, <2>5, Ended
<1>3. CASE e # "NoError"
  <2>1. AskedRight(input, asked) /\ B \subseteq DOMAIN input
    BY <1>1, <1>3, SentFacts DEF Frame, Steps
  <2>2. \A k \in B : asked[k] = 1
    BY <1>1, <2>1 DEF AskedIs
  <2> HIDE DEF B
  <2>3. Final(input, d, saved', unanswered')
    <3> DEFINE sv == saved'
               un == unanswered'
    <3>1. Books(input, d, sv, un, B) /\ sv \subseteq B BY <1>1
    <3> HIDE DEF sv, un
    <3>2. Final(input, d, sv, un)
      BY <1>1, <3>1, BooksFinal DEF Frame
    <3> QED BY <3>2 DEF sv, un
  <2> QED BY <1>1, <1>3, <2>1, <2>2, <2>3, Ended
<1> QED BY <1>2, <1>3

\* The operators of the model that go on from a step, each with the d it is given.
LEMMA UpdateContactsStep ==
  ASSUME Frame, served \in BOOLEAN, NEW d,
         Ready(input, "updateContacts", d, saved', unanswered', asked), UpdateContacts(d)
  PROVE  IInv'
<1>1. "updateContacts" \in Steps BY DEF Steps
<1>2. CASE d.contacts = {}
  <2>1. Finish(d, "NoError") BY <1>2 DEF UpdateContacts
  <2> QED BY <1>1, <1>2, <2>1, EndedReady
<1>3. CASE d.contacts # {} /\ Send("updateContacts", d)
  BY <1>1, <1>3, CallSent
<1>4. CASE d.contacts # {} /\ Finish(d, "UnspecifiedError")
  BY <1>1, <1>4, EndedReady
<1> QED BY <1>2, <1>3, <1>4 DEF UpdateContacts

LEMMA UpdateGroupsStep ==
  ASSUME Frame, served \in BOOLEAN, NEW d,
         Ready(input, "updateGroups", d, saved', unanswered', asked), UpdateGroups(d)
  PROVE  IInv'
<1>1. "updateGroups" \in Steps BY DEF Steps
<1>2. CASE d.groups = {}
  <2>1. UpdateContacts(d) BY <1>2 DEF UpdateGroups
  <2>2. Pends(input, "updateContacts", d) /\ Old(input, "group") = {}
    BY <1>2 DEF Ready, Pends
  <2>3. Before(input, "updateContacts", d) = Before(input, "updateGroups", d)
    BY <2>2 DEF Before
  <2>4. Ready(input, "updateContacts", d, saved', unanswered', asked)
    BY <2>2, <2>3 DEF Ready
  <2> QED BY <2>1, <2>4, UpdateContactsStep
<1>3. CASE d.groups # {} /\ Send("updateGroups", d)
  BY <1>1, <1>3, CallSent
<1>4. CASE d.groups # {} /\ Finish(d, "UnspecifiedError")
  BY <1>1, <1>4, EndedReady
<1> QED BY <1>2, <1>3, <1>4 DEF UpdateGroups

LEMMA CreateContactsStep ==
  ASSUME Frame, served \in BOOLEAN, NEW d,
         Ready(input, "createContact", d, saved', unanswered', asked), CreateContactsStart(d)
  PROVE  IInv'
<1>1. CASE d.contacts = {}
  <2> DEFINE e == Prepared(d, ToUpdate)
  <2>1. UpdateGroups(e) BY <1>1 DEF CreateContactsStart
  <2>2. /\ e.groups = Old(input, "group") /\ e.contacts = Old(input, "contact")
        /\ e.toCreate = d.toCreate /\ e.toUpdate = d.toUpdate /\ e.errors = d.errors
        /\ DataType(input, e)
    BY SetFacts DEF Ready, DataType, Prepared, Old
  <2> HIDE DEF e
  <2>3. Pends(input, "updateGroups", e)
    BY <2>2 DEF Pends
  <2>4. Before(input, "updateGroups", e) = Before(input, "createContact", d)
    BY <1>1, PlaceFacts DEF Before, Frame
  <2>5. Ready(input, "updateGroups", e, saved', unanswered', asked)
    BY <2>2, <2>3, <2>4 DEF Ready, Books
  <2> QED BY <2>1, <2>5, UpdateGroupsStep
<1>2. CASE d.contacts # {}
  <2> DEFINE e == [d EXCEPT !.current = Min(d.contacts)]
  <2>1. Send("createContact", e) BY <1>2 DEF CreateContactsStart
  <2>2. d.contacts \in SUBSET Nat
    BY PlaceFacts DEF Ready, DataType, Frame
  <2>3. Min(d.contacts) \in Nat
    BY <1>2, <2>2, MinIsLeast
  <2>4. /\ e.groups = d.groups /\ e.contacts = d.contacts /\ e.current = Min(e.contacts)
        /\ e.toCreate = d.toCreate /\ e.toUpdate = d.toUpdate /\ e.errors = d.errors
        /\ DataType(input, e)
    BY <2>3 DEF Ready, DataType
  <2> HIDE DEF e
  <2>5. /\ Pends(input, "createContact", e)
        /\ Before(input, "createContact", e) = Before(input, "createContact", d)
    BY <2>4 DEF Ready, Pends, Before
  <2>6. Ready(input, "createContact", e, saved', unanswered', asked)
    BY <2>4, <2>5 DEF Ready, Books
  <2>7. "createContact" \in Steps BY DEF Steps
  <2> QED BY <1>2, <2>1, <2>4, <2>6, <2>7, CallSent
<1> QED BY <1>1, <1>2

LEMMA CreateGroupsStep ==
  ASSUME Frame, served \in BOOLEAN, NEW d,
         Ready(input, "createGroup", d, saved', unanswered', asked), CreateGroupsStart(d)
  PROVE  IInv'
<1>1. CASE d.groups = {}
  <2>1. CreateContactsStart(d) BY <1>1 DEF CreateGroupsStart
  <2>2. /\ Pends(input, "createContact", d)
        /\ Before(input, "createContact", d) = Before(input, "createGroup", d)
    BY <1>1 DEF Ready, Pends, Before
  <2>3. Ready(input, "createContact", d, saved', unanswered', asked)
    BY <2>2 DEF Ready
  <2> QED BY <2>1, <2>3, CreateContactsStep
<1>2. CASE d.groups # {}
  <2>1. Send("createGroup", d) BY <1>2 DEF CreateGroupsStart
  <2>2. "createGroup" \in Steps BY DEF Steps
  <2> QED BY <1>2, <2>1, <2>2, CallSent
<1> QED BY <1>1, <1>2

-----------------------------------------------------------------------------
(* The actions. *)

LEMMA InitInv == Init => IInv
<1> SUFFICES ASSUME Init PROVE IInv
  OBVIOUS
<1>1. input \in Seq(Items)
  BY InputsAssumption DEF Init
<1>2. \A k \in DOMAIN input : Given(k) \in Filed /\ Given(k).of = k /\ Given(k).is = "given"
  BY <1>1, PlaceFacts DEF Given, Filed
<1>3. AllNew(input) \subseteq DOMAIN input /\ AllOld(input) \subseteq DOMAIN input
  BY DEF AllNew, AllOld
<1>4. /\ data = NewData
      /\ data.toCreate = [k \in AllNew(input) |-> Given(k)]
      /\ data.toUpdate = [k \in AllOld(input) |-> Given(k)]
      /\ data.errors = {}
  BY SetFacts DEF Init, NewData
<1>5. DataType(input, data)
  <2>1. [k \in AllNew(input) |-> Given(k)] \in [AllNew(input) -> Filed]
    BY <1>2, <1>3
  <2>2. [k \in AllOld(input) |-> Given(k)] \in [AllOld(input) -> Filed]
    BY <1>2, <1>3
  <2> QED BY <1>4, <2>1, <2>2, SetFacts DEF DataType, NewData, None
<1>6. saved = {} /\ unanswered = {} /\ asked = [k \in DOMAIN input |-> 0]
  BY DEF Init, Places
<1>7. AskedRight(input, asked)
  BY <1>6 DEF AskedRight, New, Old
<1>8. Final(input, data, saved, unanswered)
  BY <1>2, <1>3, <1>4, <1>6 DEF Final
<1> QED BY <1>1, <1>4, <1>5, <1>6, <1>7, <1>8 DEF Init, IInv

\* The save as it begins.
LEMMA SaveContactInv == IInv /\ SaveContact => IInv'
<1> SUFFICES ASSUME IInv, SaveContact PROVE IInv'
  OBVIOUS
<1> DEFINE d == Prepared(NewData, ToCreate)
<1>1. /\ data = NewData /\ saved' = {} /\ unanswered' = {} /\ DataType(input, NewData)
      /\ asked = [k \in DOMAIN input |-> 0] /\ Frame /\ served \in BOOLEAN
      /\ CreateGroupsStart(d)
  BY DEF SaveContact, IInv, Frame
<1>2. /\ d.groups = New(input, "group") /\ d.contacts = New(input, "contact")
      /\ d.toCreate = [k \in AllNew(input) |-> Given(k)]
      /\ d.toUpdate = [k \in AllOld(input) |-> Given(k)]
      /\ d.errors = {}
      /\ DataType(input, d)
  BY <1>1, SetFacts DEF Prepared, NewData, DataType, New
<1> HIDE DEF d
<1>3. Pends(input, "createGroup", d) /\ Before(input, "createGroup", d) = {}
  BY <1>2 DEF Pends, Before
<1>4. \A k : Given(k).of = k /\ Given(k).is = "given"
  BY DEF Given
<1>5. Books(input, d, {}, {}, {})
  BY <1>2, <1>4 DEF Books
<1>6. Ready(input, "createGroup", d, saved', unanswered', asked)
  BY <1>1, <1>2, <1>3, <1>5 DEF Ready, AskedIs
<1> QED BY <1>1, <1>6, CreateGroupsStep

LEMMA CreateGroupDoneInv == IInv /\ CreateGroupDone => IInv'
<1> SUFFICES ASSUME IInv, CreateGroupDone PROVE IInv'
  OBVIOUS
<1> DEFINE k == Min(data.groups)
           d == UpdateCurrentGroup(data, k)
           B == Before(input, "createGroup", data)
<1>1. /\ Underway(input, "createGroup", data, saved, unanswered, asked) /\ Frame
      /\ served \in BOOLEAN /\ CreateGroupsStart(d)
      /\ saved' = saved /\ unanswered' = unanswered
  BY DEF CreateGroupDone, Waiting, IInv, Frame
<1>2. data.groups \in SUBSET Nat /\ data.groups # {}
  BY <1>1, PlaceFacts DEF Underway, DataType, Frame
<1>3. k \in data.groups /\ data.groups \subseteq New(input, "group")
  BY <1>1, <1>2, MinIsLeast DEF Underway, Pends
<1>4. DataType(input, data) /\ Books(input, data, saved, unanswered, B)
  BY <1>1 DEF Underway
<1>5. Sent("createGroup", data) = {k}
  BY DEF Sent
<1> HIDE DEF k
<1>6. /\ DataType(input, d) /\ Books(input, d, saved, unanswered, B \union {k})
      /\ d.groups = data.groups \ {k} /\ d.contacts = data.contacts
  <2>1. k \in New(input, "group") BY <1>3
  <2> HIDE DEF B
  <2> QED BY <1>1, <1>4, <2>1, GroupFiled DEF Frame
<1> HIDE DEF d
<1>7. Pends(input, "createGroup", d)
  BY <1>1, <1>6 DEF Underway, Pends
<1>8. Before(input, "createGroup", d) = B \union {k}
  BY <1>3, <1>6 DEF Before
<1>9. Ready(input, "createGroup", d, saved', unanswered', asked)
  BY <1>1, <1>5, <1>6, <1>7, <1>8 DEF Ready, Underway
<1> QED BY <1>1, <1>9, CreateGroupsStep

LEMMA CreateContactsDoneInv == IInv /\ CreateContactsDone => IInv'
<1> SUFFICES ASSUME IInv, CreateContactsDone PROVE IInv'
  OBVIOUS
<1> DEFINE k == data.current
           B == Before(input, "createContact", data)
<1>1. /\ Underway(input, "createContact", data, saved, unanswered, asked) /\ Frame
      /\ served \in BOOLEAN /\ saved' = saved
  BY DEF CreateContactsDone, Waiting, IInv, Frame
<1>2. data.contacts \in SUBSET Nat /\ data.contacts # {} /\ k = Min(data.contacts)
  BY <1>1, PlaceFacts DEF Underway, DataType, Frame
<1>3. k \in data.contacts /\ data.contacts \subseteq New(input, "contact") /\ data.groups = {}
  BY <1>1, <1>2, MinIsLeast DEF Underway, Pends
<1>4. k \in New(input, "contact") /\ k \notin B
  BY <1>1, <1>3, PlaceFacts DEF Before, Frame
<1>5. DataType(input, data) /\ Books(input, data, saved, unanswered, B)
  BY <1>1 DEF Underway
<1>6. Sent("createContact", data) = {k}
  BY <1>2 DEF Sent
<1> HIDE DEF k, B
<1>7. ASSUME NEW d, NEW uw, DataType(input, d), Books(input, d, saved, uw, B \union {k}),
             d.groups = data.groups, d.contacts = data.contacts \ {k},
             unanswered' = uw, uw \subseteq unanswered \union {k}, CreateContactsStart(d)
      PROVE  IInv'
  <2>1. Pends(input, "createContact", d)
    BY <1>3, <1>7 DEF Pends
  <2>2. Before(input, "createContact", d) = B \union {k}
    BY <1>3, <1>7 DEF Before, B
  <2>3. unanswered \subseteq B /\ saved \subseteq B \union {k}
    BY <1>1, <1>6 DEF Underway, B
  <2>4. AskedIs(input, asked, B \union {k})
    BY <1>1, <1>6 DEF Underway, B
  <2>5. Ready(input, "createContact", d, saved', unanswered', asked)
    BY <1>1, <1>7, <2>1, <2>2, <2>3, <2>4 DEF Ready
  <2> QED BY <1>1, <1>7, <2>5, CreateContactsStep
<1>8. CASE /\ k \in saved /\ unanswered' = unanswered
           /\ CreateContactsStart(UpdateCurrentContact(data, k))
  <2> DEFINE d == UpdateCurrentContact(data, k)
  <2>1. /\ DataType(input, d) /\ Books(input, d, saved, unanswered, B \union {k})
        /\ d.groups = data.groups /\ d.contacts = data.contacts \ {k}
    BY <1>1, <1>4, <1>5, <1>8, ContactFiled DEF Frame
  <2>2. CreateContactsStart(d) BY <1>8
  <2> HIDE DEF d
  <2> QED BY <1>7, <1>8, <2>1, <2>2
<1>9. ASSUME NEW uw, unanswered' = uw, unanswered \subseteq uw,
             uw \subseteq unanswered \union {k}, k \notin saved \/ k \in uw,
             CreateContactsStart(NotifyUpdateError(data))
      PROVE  IInv'
  <2> DEFINE d == NotifyUpdateError(data)
  <2>1. data.current = k /\ input \in Seq(Items)
    BY <1>1 DEF k, Frame
  <2> HIDE DEF d
  <2>2. /\ DataType(input, d) /\ Books(input, d, saved, uw, B \union {k})
        /\ d.groups = data.groups /\ d.contacts = data.contacts \ {k}
    <3>1. d = NotifyUpdateError(data) BY DEF d
    <3>2. Books(input, data, saved, uw, B)
      BY <1>5, <1>9 DEF Books
    <3>3. d.groups = data.groups /\ d.contacts = data.contacts \ {k}
      BY <1>5, <2>1, <3>1 DEF NotifyUpdateError, DataType
    <3>4. DataType(input, d) /\ Books(input, d, saved, uw, B \union {k})
      BY <1>4, <1>5, <1>9, <2>1, <3>1, <3>2, ContactRefused
    <3> QED BY <3>3, <3>4
  <2>3. CreateContactsStart(d) BY <1>9 DEF d
  <2> QED BY <1>7, <1>9, <2>2, <2>3
<1>10. \/ /\ k \in saved /\ unanswered' = unanswered
          /\ CreateContactsStart(UpdateCurrentContact(data, k))
       \/ /\ k \notin saved /\ unanswered' = unanswered
          /\ CreateContactsStart(NotifyUpdateError(data))
       \/ /\ unanswered' = unanswered \union {k}
          /\ CreateContactsStart(NotifyUpdateError(data))
  <2>1. CASE k \in saved
    BY <2>1 DEF CreateContactsDone, k
  <2>2. CASE k \notin saved
    BY <2>2 DEF CreateContactsDone, k
  <2> QED BY <2>1, <2>2
<1>11. CASE /\ k \notin saved /\ unanswered' = unanswered
            /\ CreateContactsStart(NotifyUpdateError(data))
  BY <1>9, <1>11
<1>12. CASE /\ unanswered' = unanswered \union {k}
            /\ CreateContactsStart(NotifyUpdateError(data))
  BY <1>9, <1>12
<1> QED BY <1>8, <1>10, <1>11, <1>12

LEMMA UpdateGroupsDoneInv == IInv /\ UpdateGroupsDone => IInv'
<1> SUFFICES ASSUME IInv, UpdateGroupsDone PROVE IInv'
  OBVIOUS
<1> DEFINE B == Before(input, "updateGroups", data)
<1>1. /\ Underway(input, "updateGroups", data, saved, unanswered, asked) /\ Frame
      /\ served \in BOOLEAN /\ saved' = saved
  BY DEF UpdateGroupsDone, Waiting, IInv, Frame
<1>2. /\ data.groups = Old(input, "group") /\ data.contacts = Old(input, "contact")
      /\ DataType(input, data) /\ Books(input, data, saved, unanswered, B)
      /\ Sent("updateGroups", data) = data.groups
      /\ saved \subseteq B \union data.groups /\ unanswered \subseteq B
      /\ AskedIs(input, asked, B \union data.groups)
  BY <1>1 DEF Underway, Pends, Sent
<1>3. B \union data.groups = Before(input, "updateContacts", data)
  BY <1>2 DEF Before
<1>4. data.groups \intersect New(input, "contact") = {}
  BY <1>2 DEF Old, New
<1> HIDE DEF B
<1>5. ASSUME NEW d, NEW uw, DataType(input, d), Books(input, d, saved, unanswered, B),
             d.groups = data.groups, d.contacts = data.contacts,
             unanswered' = uw, unanswered \subseteq uw,
             uw \subseteq unanswered \union data.groups, UpdateContacts(d)
      PROVE  IInv'
  <2>1. Books(input, d, saved, uw, B \union data.groups)
    BY <1>4, <1>5, BooksWiden
  <2>2. Pends(input, "updateContacts", d)
    BY <1>2, <1>5 DEF Pends
  <2>3. Before(input, "updateContacts", d) = B \union data.groups
    BY <1>3 DEF Before
  <2>4. Ready(input, "updateContacts", d, saved', unanswered', asked)
    BY <1>1, <1>2, <1>5, <2>1, <2>2, <2>3 DEF Ready
  <2> QED BY <1>1, <1>5, <2>4, UpdateContactsStep
<1>6. CASE /\ unanswered' = unanswered
           /\ UpdateContacts(UpdatePendingGroups(data, data.groups \intersect saved))
  <2> DEFINE d == UpdatePendingGroups(data, data.groups \intersect saved)
  <2>1. /\ DataType(input, d) /\ Books(input, d, saved, unanswered, B)
        /\ d.groups = data.groups /\ d.contacts = data.contacts
    BY <1>1, <1>2, GroupsFiled DEF Frame
  <2>2. UpdateContacts(d) BY <1>6
  <2> HIDE DEF d
  <2> QED BY <1>5, <1>6, <2>1, <2>2
<1>7. CASE unanswered' = unanswered \union data.groups /\ UpdateContacts(data)
  BY <1>2, <1>5, <1>7
<1> QED BY <1>6, <1>7 DEF UpdateGroupsDone

LEMMA UpdateContactDoneInv == IInv /\ UpdateContactDone => IInv'
<1> SUFFICES ASSUME IInv, UpdateContactDone PROVE IInv'
  OBVIOUS
<1> DEFINE B == Before(input, "updateContacts", data)
<1>1. /\ Underway(input, "updateContacts", data, saved, unanswered, asked) /\ Frame
      /\ served \in BOOLEAN /\ saved' = saved
  BY DEF UpdateContactDone, Waiting, IInv, Frame
<1>2. /\ data.contacts = Old(input, "contact") /\ data.contacts # {}
      /\ DataType(input, data) /\ Books(input, data, saved, unanswered, B)
      /\ Sent("updateContacts", data) = data.contacts
      /\ saved \subseteq B \union data.contacts /\ unanswered \subseteq B
      /\ AskedIs(input, asked, B \union data.contacts)
      /\ B = AllNew(input) \union Old(input, "group")
  BY <1>1 DEF Underway, Pends, Sent, Before
<1>3. B \union data.contacts = DOMAIN input /\ unanswered \intersect Old(input, "contact") = {}
  BY <1>1, <1>2, PlaceFacts DEF Frame
<1> HIDE DEF B
<1>4. \A k \in DOMAIN input : asked[k] = 1
  BY <1>2, <1>3 DEF AskedIs
<1>5. AskedRight(input, asked) /\ saved \subseteq DOMAIN input /\ unanswered \subseteq DOMAIN input
  BY DEF IInv
<1>6. CASE /\ unanswered' = unanswered
           /\ Finish(UpdatePendingContacts(data, data.contacts \intersect saved), "NoError")
  <2> DEFINE d == UpdatePendingContacts(data, data.contacts \intersect saved)
  <2>1. DataType(input, d) /\ Final(input, d, saved, unanswered) /\ Tells(input, d, saved)
    BY <1>1, <1>2, <1>3, ContactsFiled DEF Frame
  <2>2. Finish(d, "NoError") BY <1>6
  <2> HIDE DEF d
  <2> QED BY <1>1, <1>4, <1>5, <1>6, <2>1, <2>2, Ended
<1>7. CASE unanswered' = unanswered \union data.contacts /\ Finish(data, "UnspecifiedError")
  <2>1. Final(input, data, saved, unanswered \union data.contacts)
    BY <1>1, <1>2, BooksFinal DEF Frame
  <2>2. unanswered' \subseteq DOMAIN input
    BY <1>3, <1>5, <1>7
  <2> QED BY <1>1, <1>2, <1>4, <1>5, <1>7, <2>1, <2>2, Ended
<1> QED BY <1>6, <1>7 DEF UpdateContactDone

LEMMA CancelInv == IInv /\ Cancel => IInv'
<1> SUFFICES ASSUME IInv, Cancel PROVE IInv'
  OBVIOUS
<1> DEFINE B == Before(input, step, data)
           S == Sent(step, data)
<1>1. /\ Underway(input, step, data, saved, unanswered, asked) /\ input \in Seq(Items)
      /\ step \in Steps
  BY DEF Cancel, IInv, Underway
<1>2. S \subseteq DOMAIN input /\ B \subseteq DOMAIN input
  BY <1>1, SentFacts DEF Underway
<1>3. /\ DataType(input, data) /\ Books(input, data, saved, unanswered, B)
      /\ saved \subseteq B \union S /\ AskedIs(input, asked, B \union S)
  BY <1>1 DEF Underway
<1>4. /\ state' = "canceled" /\ error' = "NoError" /\ step' = "none"
      /\ unanswered' = unanswered \union S
      /\ UNCHANGED <<input, data, served, saved, asked, crashed>>
  BY DEF Cancel
<1> HIDE DEF B, S
<1>5. Final(input, data, saved, unanswered \union S)
  BY <1>1, <1>3, BooksFinal
<1>6. \A k \in S : asked[k] = 1
  BY <1>2, <1>3 DEF AskedIs
<1> QED BY <1>2, <1>4, <1>5, <1>6 DEF IInv

LEMMA ServeInv == IInv /\ Serve => IInv'
<1> SUFFICES ASSUME IInv, Serve PROVE IInv'
  OBVIOUS
<1> DEFINE B == Before(input, step, data)
<1>1. PICK S \in SUBSET Sent(step, data) : saved' = saved \union S
  BY DEF Serve
<1>2. /\ state = "active" /\ served' = TRUE
      /\ UNCHANGED <<input, state, error, data, step, unanswered, asked, crashed>>
  BY DEF Serve, Waiting
<1>3. /\ Underway(input, step, data, saved, unanswered, asked) /\ input \in Seq(Items)
      /\ step \in Steps
  BY <1>2 DEF IInv, Underway
<1>4. S \subseteq DOMAIN input /\ S \intersect B = {}
  BY <1>1, <1>3, SentFacts DEF Underway
<1>5. Books(input, data, saved, unanswered, B) /\ AskedIs(input, asked, B \union Sent(step, data))
  BY <1>3 DEF Underway
<1>6. \A k \in S : asked[k] = 1
  BY <1>1, <1>4, <1>5 DEF AskedIs
<1>7. Books(input, data, saved \union S, unanswered, B)
  <2> HIDE DEF B
  <2> QED BY <1>4, <1>5 DEF Books
<1>8. Underway(input, step, data, saved', unanswered, asked)
  BY <1>1, <1>3, <1>7 DEF Underway
<1> QED BY <1>1, <1>2, <1>4, <1>6, <1>8 DEF IInv

LEMMA ServeLateInv == IInv /\ ServeLate => IInv'
<1> SUFFICES ASSUME IInv, ServeLate PROVE IInv'
  OBVIOUS
<1>1. PICK k \in unanswered : saved' = saved \union {k}
  BY DEF ServeLate
<1>2. UNCHANGED <<input, state, error, data, step, served, unanswered, asked, crashed>>
  BY DEF ServeLate
<1>3. state # "idle" /\ k \in DOMAIN input /\ asked[k] = 1
  BY DEF IInv
<1>4. CASE state = "active"
  <2> DEFINE B == Before(input, step, data)
  <2>1. /\ Underway(input, step, data, saved, unanswered, asked)
        /\ Books(input, data, saved, unanswered, B) /\ k \in B
    BY <1>4 DEF IInv, Underway
  <2>2. Books(input, data, saved \union {k}, unanswered, B)
    <3> HIDE DEF B
    <3> QED BY <2>1 DEF Books
  <2>3. Underway(input, step, data, saved', unanswered, asked)
    BY <1>1, <2>1, <2>2 DEF Underway
  <2> QED BY <1>1, <1>2, <1>3, <1>4, <2>3 DEF IInv
<1>5. CASE state # "active"
  <2>1. Final(input, data, saved, unanswered)
    BY <1>5 DEF IInv
  <2>2. MisfiledAt(input, saved) /\ unanswered \intersect Old(input, "contact") = {}
          => MisfiledAt(input, saved')
    <3>1. k \notin Old(input, "contact") /\ input \in Seq(Items)
            => ~(k \in AllOld(input)) \/ input[k].kind = "group"
      BY PlaceFacts DEF Old
    <3>2. input \in Seq(Items) BY DEF IInv
    <3> QED BY <1>1, <3>1, <3>2 DEF MisfiledAt
  <2>3. Final(input, data, saved', unanswered)
    BY <1>1, <2>1, <2>2 DEF Final
  <2>4. Tells(input, data, saved) => Tells(input, data, saved')
    BY <1>1 DEF Tells
  <2> QED BY <1>1, <1>2, <1>3, <1>5, <2>3, <2>4 DEF IInv
<1> QED BY <1>4, <1>5

LEMMA NextInv == IInv /\ [Next]_vars => IInv'
<1> SUFFICES ASSUME IInv, [Next]_vars PROVE IInv'
  OBVIOUS
<1>1. CASE SaveContact BY <1>1, SaveContactInv
<1>2. CASE CreateGroupDone BY <1>2, CreateGroupDoneInv
<1>3. CASE CreateGroupFailed
  BY <1>3 DEF CreateGroupFailed, serviceVars, IInv, Waiting
<1>4. CASE CreateContactsDone BY <1>4, CreateContactsDoneInv
<1>5. CASE UpdateGroupsDone BY <1>5, UpdateGroupsDoneInv
<1>6. CASE UpdateContactDone BY <1>6, UpdateContactDoneInv
<1>7. CASE Cancel BY <1>7, CancelInv
<1>8. CASE Serve BY <1>8, ServeInv
<1>9. CASE ServeLate BY <1>9, ServeLateInv
<1>10. CASE UNCHANGED vars
  BY <1>10 DEF vars, serviceVars, IInv, NewData, ToCreate, ToUpdate, Places
<1> QED BY <1>1, <1>2, <1>3, <1>4, <1>5, <1>6, <1>7, <1>8, <1>9, <1>10 DEF Next, Answers

-----------------------------------------------------------------------------
\* What a save stores is what it was given, and it is found in its place: every item is
\* sent at most once, a contact after every new group, and the books keep the places,
\* but for the misfiled answers of updatePendingContacts.
THEOREM EachInPlaceTheorem == Spec => []EachInPlace
<1>1. IInv => EachOnce
  <2> SUFFICES ASSUME IInv PROVE EachOnce
    OBVIOUS
  <2>1. AskedRight(input, asked) /\ Kind(ToCreate, "group") = New(input, "group")
    BY SetFacts DEF IInv
  <2>2. Kind(Places, "contact") \subseteq New(input, "contact") \union Old(input, "contact")
    BY DEF Kind, Places, New, Old
  <2> QED BY <2>1, <2>2 DEF EachOnce, AskedRight, IInv, Places
<1>2. IInv => FiledInPlace
  <2> SUFFICES ASSUME IInv PROVE FiledInPlace
    OBVIOUS
  <2>1. DataType(input, data) /\ input \in Seq(Items) BY DEF IInv
  <2>2. /\ DOMAIN Result = DOMAIN input
        /\ \A k \in AllNew(input) : Result[k] = data.toCreate[k]
        /\ \A k \in AllOld(input) : Result[k] = data.toUpdate[k]
    BY <2>1, PlaceFacts DEF Result, DataType
  <2>3. \A k \in AllNew(input) : data.toCreate[k].of = k
    BY DEF IInv, Final, Underway, Books
  <2>4. MisfiledAt(input, saved) \/ \A k \in AllOld(input) : data.toUpdate[k].of = k
    <3>1. \A k : Given(k).of = k /\ Answered(k).of = k BY DEF Given, Answered
    <3>2. CASE Final(input, data, saved, unanswered) BY <3>2 DEF Final
    <3>3. CASE Underway(input, step, data, saved, unanswered, asked)
      BY <2>1, <3>1, <3>3, PlaceFacts DEF Underway, Books
    <3> QED BY <3>2, <3>3 DEF IInv
  <2>5. MisfiledAt(input, saved) => Misfiled
    BY SetFacts DEF MisfiledAt, Misfiled
  <2>6. Places = AllNew(input) \union AllOld(input)
    BY <2>1, PlaceFacts DEF Places
  <2> QED BY <2>2, <2>3, <2>4, <2>5, <2>6 DEF FiledInPlace, Places
<1> QED BY <1>1, <1>2, InitInv, NextInv, PTL DEF Spec, EachInPlace

\* The application can tell from what it is handed what was stored and what was not: it
\* makes no doubles by saving again what it was not told is stored, and every item that
\* was not stored shows, in the error map or in the result.
THEOREM ResultTellsTheorem == Spec => []ResultTells
<1>1. ASSUME IInv PROVE NoDoubles /\ ErrorsTold
  <2>1. DataType(input, data) /\ input \in Seq(Items) BY <1>1 DEF IInv
  <2>2. /\ \A k \in AllNew(input) : Result[k] = data.toCreate[k]
        /\ \A k \in AllOld(input) : Result[k] = data.toUpdate[k]
    BY <2>1, PlaceFacts DEF Result, DataType
  <2>3. /\ Places = AllNew(input) \union AllOld(input)
        /\ New(input, "contact") \subseteq AllNew(input)
        /\ Kind(ToCreate, "contact") = New(input, "contact") /\ Places = DOMAIN input
    BY <2>1, PlaceFacts, SetFacts DEF Places
  <2>4. /\ \A k \in AllNew(input) : /\ data.toCreate[k].of = k
                                    /\ data.toCreate[k].is = "answered" => k \in saved
        /\ \A k \in AllOld(input) : data.toUpdate[k].is = "answered" => data.toUpdate[k].of \in saved
    <3>1. \A k : /\ Given(k).of = k /\ Given(k).is = "given" /\ Answered(k).of = k
      BY DEF Given, Answered
    <3>2. CASE Final(input, data, saved, unanswered) BY <3>2 DEF Final
    <3>3. CASE Underway(input, step, data, saved, unanswered, asked)
      <4>1. Books(input, data, saved, unanswered, Before(input, step, data))
        BY <3>3 DEF Underway
      <4>2. \A k \in AllOld(input) : k \in Old(input, "group") \/ k \in Old(input, "contact")
        BY <2>1, PlaceFacts
      <4>3. \A k \in AllOld(input) :
              data.toUpdate[k].is = "answered" => data.toUpdate[k].of \in saved
        BY <3>1, <4>1, <4>2 DEF Books
      <4> QED BY <4>1, <4>3 DEF Books
    <3> QED BY <1>1, <3>2, <3>3 DEF IInv
  <2>5. NoDoubles
    <3>1. \A k \in Places : Result[k].is = "answered" => Result[k].of \in saved
      BY <2>2, <2>3, <2>4
    <3>2. ASSUME state \in {"finished", "canceled"}
          PROVE  \A k \in New(input, "contact") : k \in saved =>
                   (Result[k] = Answered(k) /\ k \notin data.errors) \/ k \in unanswered
      BY <1>1, <2>2, <2>3, <3>2 DEF IInv, Final
    <3> QED BY <2>3, <3>1, <3>2 DEF NoDoubles
  <2>6. ErrorsTold
    <3> SUFFICES ASSUME state = "finished", error = "NoError"
                 PROVE  /\ New(input, "contact") \subseteq saved \union data.errors
                        /\ \/ Places \subseteq saved \union data.errors
                           \/ \E k \in Places : Result[k].is # "answered"
      BY <2>3 DEF ErrorsTold
    <3>1. Tells(input, data, saved) BY <1>1 DEF IInv
    <3> QED BY <2>2, <2>3, <3>1 DEF Tells
  <2> QED BY <2>5, <2>6
<1> QED BY <1>1, InitInv, NextInv, PTL DEF Spec, ResultTells
-----------------------------------------------------------------------------
(* The calls of a save, in their order. *)

Repeated(n, op) == [j \in 1 .. n |-> op]
Once(op, some) == IF some THEN <<op>> ELSE << >>
Updates(og, oc) == Once("updateGroups", og) \o Once("updateContacts", oc)

LEMMA RepeatedFacts ==
  ASSUME NEW n \in Nat, NEW op \in Steps
  PROVE  /\ Repeated(n, op) \in Seq(Steps) /\ Len(Repeated(n, op)) = n
         /\ \A j \in 1 .. n : Repeated(n, op)[j] = op
<1>1. \A j \in 1 .. n : op \in Steps OBVIOUS
<1>2. Repeated(n, op) \in [1 .. n -> Steps] BY DEF Repeated
<1>3. Repeated(n, op) \in Seq(Steps) BY <1>2, SeqDef
<1>4. DOMAIN Repeated(n, op) = 1 .. n BY DEF Repeated
<1>5. Len(Repeated(n, op)) = n BY <1>3, <1>4, LenProperties
<1> QED BY <1>3, <1>5 DEF Repeated

LEMMA OnceFacts ==
  ASSUME NEW op \in Steps, NEW some
  PROVE  Once(op, some) \in Seq(Steps)
<1>1. <<op>> \in Seq(Steps) /\ << >> \in Seq(Steps)
  OBVIOUS
<1>2. Once(op, some) = <<op>> \/ Once(op, some) = << >>
  BY Zenon DEF Once
<1> QED BY <1>1, <1>2

\* The first of n calls, and those after it.
LEMMA RepeatedTail ==
  ASSUME NEW n \in Nat, n > 0, NEW op \in Steps, NEW u \in Seq(Steps)
  PROVE  /\ Repeated(n, op) \o u # << >>
         /\ Head(Repeated(n, op) \o u) = op
         /\ Tail(Repeated(n, op) \o u) = Repeated(n - 1, op) \o u
<1>1. PICK m \in Nat : n = m + 1 /\ n - 1 = m
  BY n - 1 \in Nat
<1> DEFINE r == Repeated(n, op)
           q == Repeated(m, op)
           s == r \o u
           t == q \o u
<1>2. /\ r \in Seq(Steps) /\ Len(r) = m + 1 /\ \A j \in 1 .. m + 1 : r[j] = op
      /\ q \in Seq(Steps) /\ Len(q) = m /\ \A j \in 1 .. m : q[j] = op
  BY <1>1, RepeatedFacts
<1> HIDE DEF r, q
<1>3. /\ s \in Seq(Steps) /\ Len(s) = m + 1 + Len(u)
      /\ \A j \in 1 .. m + 1 + Len(u) : s[j] = IF j <= m + 1 THEN r[j] ELSE u[j - (m + 1)]
  <2>1. /\ s \in Seq(Steps) /\ Len(s) = Len(r) + Len(u)
        /\ \A j \in 1 .. Len(r) + Len(u) : s[j] = IF j <= Len(r) THEN r[j] ELSE u[j - Len(r)]
    BY <1>2, ConcatProperties
  <2>2. Len(r) = m + 1 BY <1>2
  <2> HIDE DEF s
  <2> QED BY <2>1, <2>2
<1>4. /\ t \in Seq(Steps) /\ Len(t) = m + Len(u)
      /\ \A j \in 1 .. m + Len(u) : t[j] = IF j <= m THEN q[j] ELSE u[j - m]
  BY <1>2, ConcatProperties
<1>5. Len(u) \in Nat OBVIOUS
<1> HIDE DEF s, t
<1>6. s # << >> BY <1>3, <1>5, EmptySeq
<1>7. Head(s) = s[1] /\ s[1] = op
  BY <1>2, <1>3, <1>5, <1>6, HeadTailProperties
<1>8. /\ Tail(s) \in Seq(Steps) /\ Len(Tail(s)) = m + Len(u)
      /\ \A j \in 1 .. m + Len(u) : Tail(s)[j] = s[j + 1]
  BY <1>3, <1>5, <1>6, HeadTailProperties
<1>9. \A j \in 1 .. m + Len(u) : s[j + 1] = t[j]
  <2>1. SUFFICES ASSUME NEW j \in 1 .. m + Len(u) PROVE s[j + 1] = t[j]
    OBVIOUS
  <2>2. j + 1 \in 1 .. m + 1 + Len(u) BY <1>5
  <2>3. CASE j <= m
    BY <1>2, <1>3, <1>4, <2>2, <2>3
  <2>4. CASE ~(j <= m)
    <3>1. (j + 1) - (m + 1) = j - m /\ ~(j + 1 <= m + 1) BY <1>5, <2>4
    <3> QED BY <1>3, <1>4, <2>2, <2>4, <3>1
  <2> QED BY <2>3, <2>4
<1>10. Tail(s) = t
  BY <1>4, <1>8, <1>9, SeqEqual
<1> QED BY <1>1, <1>6, <1>7, <1>10 DEF s, t, r, q

LEMMA RepeatedNone ==
  ASSUME NEW op \in Steps, NEW u \in Seq(Steps)
  PROVE  Repeated(0, op) \o u = u
<1>1. Repeated(0, op) = << >> BY RepeatedFacts, EmptySeq
<1> QED BY <1>1, ConcatEmptySeq

\* The calls of a save, the parts in brackets from the right.
CallList(g, c, og, oc) ==
  Repeated(g, "createGroup") \o (Repeated(c, "createContact") \o Updates(og, oc))

LEMMA PartsFacts ==
  ASSUME NEW c \in Nat, NEW og, NEW oc
  PROVE  /\ Updates(og, oc) \in Seq(Steps)
         /\ Repeated(c, "createContact") \o Updates(og, oc) \in Seq(Steps)
<1>1. Once("updateGroups", og) \in Seq(Steps) /\ Once("updateContacts", oc) \in Seq(Steps)
  BY OnceFacts DEF Steps
<1>2. Updates(og, oc) \in Seq(Steps) BY <1>1, ConcatProperties DEF Updates
<1>3. Repeated(c, "createContact") \in Seq(Steps) BY RepeatedFacts DEF Steps
<1> QED BY <1>2, <1>3, ConcatProperties

LEMMA CallsAreListed ==
  ASSUME NEW g \in Nat, NEW c \in Nat, NEW og, NEW oc
  PROVE  Calls(g, c, og, oc) = CallList(g, c, og, oc)
<1> DEFINE s1 == Repeated(g, "createGroup")
           s2 == Repeated(c, "createContact")
           s3 == Once("updateGroups", og)
           s4 == Once("updateContacts", oc)
<1>a. CallList(g, c, og, oc) = s1 \o (s2 \o (s3 \o s4)) BY DEF CallList, Updates
<1>1. s1 \in Seq(Steps) /\ s2 \in Seq(Steps)
  BY RepeatedFacts DEF Steps
<1>2. s3 \in Seq(Steps) /\ s4 \in Seq(Steps)
  BY OnceFacts DEF Steps
<1>3. Calls(g, c, og, oc) = ((s1 \o s2) \o s3) \o s4
  BY Zenon DEF Calls, Repeated, Once
<1> HIDE DEF s1, s2, s3, s4
<1>4. s1 \o s2 \in Seq(Steps) /\ s3 \o s4 \in Seq(Steps) /\ s2 \o (s3 \o s4) \in Seq(Steps)
  BY <1>1, <1>2, ConcatProperties
<1>5. ((s1 \o s2) \o s3) \o s4 = (s1 \o s2) \o (s3 \o s4)
  BY <1>2, <1>4, ConcatAssociative
<1>6. (s1 \o s2) \o (s3 \o s4) = s1 \o (s2 \o (s3 \o s4))
  BY <1>1, <1>4, ConcatAssociative
<1> QED BY <1>a, <1>3, <1>5, <1>6

\* The first call, and the calls that are left after it.
LEMMA GroupCreatedFirst ==
  ASSUME NEW g \in Nat, g > 0, NEW c \in Nat, NEW og, NEW oc
  PROVE  /\ Calls(g, c, og, oc) # << >>
         /\ Head(Calls(g, c, og, oc)) = "createGroup"
         /\ Tail(Calls(g, c, og, oc)) = Calls(g - 1, c, og, oc)
<1> DEFINE w == Repeated(c, "createContact") \o Updates(og, oc)
<1>1. w \in Seq(Steps) BY PartsFacts
<1>2. CallList(g, c, og, oc) = Repeated(g, "createGroup") \o w
  BY DEF CallList
<1>3. CallList(g - 1, c, og, oc) = Repeated(g - 1, "createGroup") \o w
  BY DEF CallList
<1> HIDE DEF w
<1>4. g - 1 \in Nat /\ "createGroup" \in Steps BY DEF Steps
<1>5. /\ Repeated(g, "createGroup") \o w # << >>
      /\ Head(Repeated(g, "createGroup") \o w) = "createGroup"
      /\ Tail(Repeated(g, "createGroup") \o w) = Repeated(g - 1, "createGroup") \o w
  BY <1>1, <1>4, RepeatedTail
<1>6. Calls(g, c, og, oc) = CallList(g, c, og, oc) BY CallsAreListed
<1>7. Calls(g - 1, c, og, oc) = CallList(g - 1, c, og, oc) BY <1>4, CallsAreListed
<1> QED BY <1>2, <1>3, <1>5, <1>6, <1>7, Zenon

LEMMA NoGroups ==
  ASSUME NEW c \in Nat, NEW og, NEW oc
  PROVE  Calls(0, c, og, oc) = Repeated(c, "createContact") \o Updates(og, oc)
<1> DEFINE w == Repeated(c, "createContact") \o Updates(og, oc)
<1>1. w \in Seq(Steps) BY PartsFacts
<1>2. CallList(0, c, og, oc) = Repeated(0, "createGroup") \o w
  BY DEF CallList
<1> HIDE DEF w
<1>3. Repeated(0, "createGroup") \o w = w BY <1>1, RepeatedNone DEF Steps
<1>4. Calls(0, c, og, oc) = CallList(0, c, og, oc) BY CallsAreListed
<1> QED BY <1>2, <1>3, <1>4, Zenon DEF w

LEMMA ContactCreatedNext ==
  ASSUME NEW c \in Nat, c > 0, NEW og, NEW oc
  PROVE  /\ Calls(0, c, og, oc) # << >>
         /\ Head(Calls(0, c, og, oc)) = "createContact"
         /\ Tail(Calls(0, c, og, oc)) = Calls(0, c - 1, og, oc)
<1> DEFINE w == Updates(og, oc)
<1>1. w \in Seq(Steps) BY PartsFacts
<1>2. Calls(0, c, og, oc) = Repeated(c, "createContact") \o w BY NoGroups
<1>3. c - 1 \in Nat /\ "createContact" \in Steps BY DEF Steps
<1>4. Calls(0, c - 1, og, oc) = Repeated(c - 1, "createContact") \o w BY <1>3, NoGroups
<1> HIDE DEF w
<1>5. /\ Repeated(c, "createContact") \o w # << >>
      /\ Head(Repeated(c, "createContact") \o w) = "createContact"
      /\ Tail(Repeated(c, "createContact") \o w) = Repeated(c - 1, "createContact") \o w
  BY <1>1, <1>3, RepeatedTail
<1> QED BY <1>2, <1>4, <1>5, Zenon

LEMMA NothingToCreate ==
  ASSUME NEW og, NEW oc
  PROVE  Calls(0, 0, og, oc) = Updates(og, oc)
<1> DEFINE w == Updates(og, oc)
<1>1. w \in Seq(Steps) BY PartsFacts, 0 \in Nat
<1>2. Calls(0, 0, og, oc) = Repeated(0, "createContact") \o w BY NoGroups, 0 \in Nat
<1> HIDE DEF w
<1>3. Repeated(0, "createContact") \o w = w BY <1>1, RepeatedNone DEF Steps
<1> QED BY <1>2, <1>3, Zenon DEF w
\* The calls for the new groups g, the new contacts c and the groups G and contacts C
\* that have an id.
CallsFor(g, c, G, C) == Calls(Cardinality(g), Cardinality(c), G # {}, C # {})

LEMMA CallsForGroups ==
  ASSUME NEW g, NEW c, NEW G, NEW C, NEW m, IsFiniteSet(g), IsFiniteSet(c), m \in g
  PROVE  /\ CallsFor(g, c, G, C) # << >>
         /\ Head(CallsFor(g, c, G, C)) = "createGroup"
         /\ Tail(CallsFor(g, c, G, C)) = CallsFor(g \ {m}, c, G, C)
<1> DEFINE n == Cardinality(g)
           k == Cardinality(c)
           og == G # {}
           oc == C # {}
<1>1. n \in Nat /\ k \in Nat /\ n > 0 /\ Cardinality(g \ {m}) = n - 1
  <2>1. n \in Nat /\ k \in Nat /\ Cardinality(g \ {m}) = n - 1 BY FS_CardinalityType, FS_RemoveElement
  <2>2. n # 0 BY FS_EmptySet
  <2> QED BY <2>1, <2>2
<1>2. CallsFor(g, c, G, C) = Calls(n, k, og, oc)
  BY Zenon DEF CallsFor
<1>3. CallsFor(g \ {m}, c, G, C) = Calls(n - 1, k, og, oc)
  BY <1>1, Zenon DEF CallsFor
<1> HIDE DEF n, k, og, oc
<1>4. \A a, b : /\ Calls(n, k, a, b) # << >>
               /\ Head(Calls(n, k, a, b)) = "createGroup"
               /\ Tail(Calls(n, k, a, b)) = Calls(n - 1, k, a, b)
  BY <1>1, GroupCreatedFirst
<1> QED BY <1>2, <1>3, <1>4, Zenon

LEMMA CallsForContacts ==
  ASSUME NEW c, NEW G, NEW C, NEW m, IsFiniteSet(c), m \in c
  PROVE  /\ CallsFor({}, c, G, C) # << >>
         /\ Head(CallsFor({}, c, G, C)) = "createContact"
         /\ Tail(CallsFor({}, c, G, C)) = CallsFor({}, c \ {m}, G, C)
<1> DEFINE k == Cardinality(c)
           og == G # {}
           oc == C # {}
<1>1. k \in Nat /\ k > 0 /\ Cardinality(c \ {m}) = k - 1
  <2>1. k \in Nat /\ Cardinality(c \ {m}) = k - 1 BY FS_CardinalityType, FS_RemoveElement
  <2>2. k # 0 BY FS_EmptySet
  <2> QED BY <2>1, <2>2
<1>2. Cardinality({}) = 0
  BY FS_EmptySet
<1>3. CallsFor({}, c, G, C) = Calls(0, k, og, oc)
  BY <1>2, Zenon DEF CallsFor
<1>4. CallsFor({}, c \ {m}, G, C) = Calls(0, k - 1, og, oc)
  BY <1>1, <1>2, Zenon DEF CallsFor
<1> HIDE DEF k, og, oc
<1>5. /\ Calls(0, k, og, oc) # << >>
      /\ Head(Calls(0, k, og, oc)) = "createContact"
      /\ Tail(Calls(0, k, og, oc)) = Calls(0, k - 1, og, oc)
  BY <1>1, ContactCreatedNext, Zenon
<1> QED BY <1>3, <1>4, <1>5, Zenon

\* Without items to create, only the updates are left.
LEMMA CallsForUpdates ==
  ASSUME NEW G, NEW C
  PROVE  /\ G # {} => /\ CallsFor({}, {}, G, C) # << >>
                      /\ Head(CallsFor({}, {}, G, C)) = "updateGroups"
                      /\ Tail(CallsFor({}, {}, G, C)) = CallsFor({}, {}, {}, C)
         /\ C # {} => /\ CallsFor({}, {}, {}, C) # << >>
                      /\ Head(CallsFor({}, {}, {}, C)) = "updateContacts"
         /\ CallsFor({}, {}, {}, {}) = << >>
         /\ G # {} => Calls(0, 0, TRUE, C # {}) = CallsFor({}, {}, G, C)
         /\ C # {} => Calls(0, 0, FALSE, TRUE) = CallsFor({}, {}, {}, C)
<1> DEFINE u(D) == IF D # {} THEN <<"updateGroups">> ELSE << >>
           v(D) == IF D # {} THEN <<"updateContacts">> ELSE << >>
<1>1. Cardinality({}) = 0
  BY FS_EmptySet
<1>2. \A D, E : CallsFor({}, {}, D, E) = u(D) \o v(E)
  <2> TAKE D, E
  <2>1. CallsFor({}, {}, D, E) = Calls(0, 0, D # {}, E # {})
    BY <1>1, Zenon DEF CallsFor
  <2>2. Calls(0, 0, D # {}, E # {}) = Updates(D # {}, E # {})
    BY NothingToCreate, Zenon
  <2> QED BY <2>1, <2>2, Zenon DEF Updates, Once
<1>3. \A E : v(E) \in Seq(Steps) /\ (E # {} => v(E) = <<"updateContacts">>) /\ v({}) = << >>
  BY DEF Steps
<1>4. G # {} => u(G) = <<"updateGroups">>
  OBVIOUS
<1>5. u({}) = << >>
  OBVIOUS
<1>6. Calls(0, 0, TRUE, C # {}) = <<"updateGroups">> \o v(C)
  <2>1. Calls(0, 0, TRUE, C # {}) = Updates(TRUE, C # {})
    BY NothingToCreate, Zenon
  <2> QED BY <2>1, Zenon DEF Updates, Once
<1>7. Calls(0, 0, FALSE, TRUE) = << >> \o <<"updateContacts">>
  <2>1. Calls(0, 0, FALSE, TRUE) = Updates(FALSE, TRUE)
    BY NothingToCreate, Zenon
  <2> QED BY <2>1, Zenon DEF Updates, Once
<1>8. /\ CallsFor({}, {}, G, C) = u(G) \o v(C)
      /\ CallsFor({}, {}, {}, C) = u({}) \o v(C)
      /\ CallsFor({}, {}, {}, {}) = u({}) \o v({})
  BY <1>2, Zenon
<1> HIDE DEF u, v
<1>9. ASSUME NEW s \in Seq(Steps)
      PROVE  /\ << >> \o s = s
             /\ <<"updateGroups">> \o s # << >>
             /\ Head(<<"updateGroups">> \o s) = "updateGroups"
             /\ Tail(<<"updateGroups">> \o s) = s
  <2> DEFINE h == <<"updateGroups">>
  <2>1. h \in Seq(Steps) /\ Len(h) = 1 /\ h[1] = "updateGroups" /\ Len(s) \in Nat
    BY DEF Steps
  <2> HIDE DEF h
  <2>2. /\ h \o s \in Seq(Steps) /\ Len(h \o s) = 1 + Len(s)
        /\ \A j \in 1 .. 1 + Len(s) : (h \o s)[j] = IF j <= 1 THEN h[j] ELSE s[j - 1]
    <3> DEFINE t == h \o s
    <3>1. /\ t \in Seq(Steps) /\ Len(t) = Len(h) + Len(s)
          /\ \A j \in 1 .. Len(h) + Len(s) : t[j] = IF j <= Len(h) THEN h[j] ELSE s[j - Len(h)]
      BY <2>1, ConcatProperties
    <3> HIDE DEF t
    <3>2. /\ t \in Seq(Steps) /\ Len(t) = 1 + Len(s)
          /\ \A j \in 1 .. 1 + Len(s) : t[j] = IF j <= 1 THEN h[j] ELSE s[j - 1]
      BY <2>1, <3>1
    <3> QED BY <3>2 DEF t
  <2>3. h \o s # << >> BY <2>1, <2>2, EmptySeq
  <2>4. Head(h \o s) = "updateGroups"
    BY <2>1, <2>2, <2>3, HeadTailProperties
  <2>5. /\ Tail(h \o s) \in Seq(Steps) /\ Len(Tail(h \o s)) = Len(s)
        /\ \A j \in 1 .. Len(s) : Tail(h \o s)[j] = (h \o s)[j + 1]
    BY <2>1, <2>2, <2>3, HeadTailProperties
  <2>6. \A j \in 1 .. Len(s) : Tail(h \o s)[j] = s[j]
    <3> TAKE j \in 1 .. Len(s)
    <3>1. j + 1 \in 1 .. 1 + Len(s) /\ ~(j + 1 <= 1) /\ (j + 1) - 1 = j BY <2>1
    <3> QED BY <2>2, <2>5, <3>1
  <2>7. Tail(h \o s) = s BY <2>5, <2>6, SeqEqual
  <2>8. << >> \o s = s BY ConcatEmptySeq
  <2> QED BY <2>3, <2>4, <2>7, <2>8 DEF h
<1>10. <<"updateContacts">> \in Seq(Steps) /\ << >> \in Seq(Steps)
       /\ <<"updateContacts">> # << >> /\ Head(<<"updateContacts">>) = "updateContacts"
  BY DEF Steps
<1> QED BY <1>3, <1>4, <1>5, <1>6, <1>7, <1>8, <1>9, <1>10, Zenon
\* The calls from the step op on, which is taken with d.
ToGo(i, op, d) ==
  CASE op = "createGroup" -> CallsFor(d.groups, d.contacts, Old(i, "group"), Old(i, "contact"))
    [] op = "createContact" -> CallsFor({}, d.contacts, Old(i, "group"), Old(i, "contact"))
    [] op = "updateGroups" -> CallsFor({}, {}, d.groups, d.contacts)
    [] op = "updateContacts" -> CallsFor({}, {}, {}, d.contacts)

\* What becomes of the calls that are left, rest: the first one is sent, or the save
\* ends, be it because there is none or because it cannot be sent.
Goes(rest) ==
  \/ /\ state' = "active" /\ rest # << >>
     /\ todo' = rest /\ rest = ToGo(input, step', data')
  \/ /\ state' = "finished" /\ UNCHANGED <<todo, asked>>
     /\ rest = << >> \/ Head(rest) \in {"updateGroups", "updateContacts"}

LEMMA UpdateContactsGoes ==
  ASSUME NEW d, UpdateContacts(d)
  PROVE  Goes(ToGo(input, "updateContacts", d))
<1> DEFINE rest == CallsFor({}, {}, {}, d.contacts)
<1>1. ToGo(input, "updateContacts", d) = rest
  BY DEF ToGo
<1>2. CASE d.contacts = {}
  <2>1. rest = << >> BY <1>2, CallsForUpdates
  <2>2. Finish(d, "NoError") BY <1>2 DEF UpdateContacts
  <2> QED BY <1>1, <2>1, <2>2 DEF Goes, Finish
<1>3. CASE d.contacts # {}
  <2>1. /\ rest # << >> /\ Head(rest) = "updateContacts"
        /\ Calls(0, 0, FALSE, TRUE) = rest
    BY <1>3, CallsForUpdates, Zenon
  <2>2. CallsLeft("updateContacts", d) = Calls(0, 0, FALSE, TRUE)
    BY DEF CallsLeft
  <2> HIDE DEF rest
  <2>3. CASE Send("updateContacts", d)
    BY <1>1, <2>1, <2>2, <2>3 DEF Goes, Send
  <2>4. CASE Finish(d, "UnspecifiedError")
    BY <1>1, <2>1, <2>4 DEF Goes, Finish
  <2> QED BY <1>3, <2>3, <2>4 DEF UpdateContacts
<1> QED BY <1>2, <1>3

LEMMA UpdateGroupsGoes ==
  ASSUME NEW d, UpdateGroups(d)
  PROVE  Goes(ToGo(input, "updateGroups", d))
<1> DEFINE rest == CallsFor({}, {}, d.groups, d.contacts)
<1>1. ToGo(input, "updateGroups", d) = rest
  BY DEF ToGo
<1>2. CASE d.groups = {}
  <2>1. ToGo(input, "updateContacts", d) = rest BY <1>2 DEF ToGo
  <2>2. UpdateContacts(d) BY <1>2 DEF UpdateGroups
  <2> QED BY <1>1, <2>1, <2>2, UpdateContactsGoes
<1>3. CASE d.groups # {}
  <2>1. /\ rest # << >> /\ Head(rest) = "updateGroups"
        /\ Calls(0, 0, TRUE, d.contacts # {}) = rest
    BY <1>3, CallsForUpdates, Zenon
  <2>2. CallsLeft("updateGroups", d) = Calls(0, 0, TRUE, d.contacts # {})
    BY Zenon DEF CallsLeft
  <2>3. CallsLeft("updateGroups", d) = rest
    BY <2>1, <2>2, Zenon
  <2> HIDE DEF rest
  <2>4. CASE Send("updateGroups", d)
    BY <1>1, <2>1, <2>3, <2>4 DEF Goes, Send
  <2>5. CASE Finish(d, "UnspecifiedError")
    BY <1>1, <2>1, <2>5 DEF Goes, Finish
  <2> QED BY <1>3, <2>4, <2>5 DEF UpdateGroups
<1> QED BY <1>2, <1>3

LEMMA CreateContactsGoes ==
  ASSUME input \in Seq(Items), NEW d, DataType(input, d), d.groups = {},
         CreateContactsStart(d)
  PROVE  Goes(ToGo(input, "createContact", d))
<1> DEFINE rest == CallsFor({}, d.contacts, Old(input, "group"), Old(input, "contact"))
<1>1. ToGo(input, "createContact", d) = rest
  BY DEF ToGo
<1>2. CASE d.contacts = {}
  <2> DEFINE e == Prepared(d, ToUpdate)
  <2>1. UpdateGroups(e) BY <1>2 DEF CreateContactsStart
  <2>2. e.groups = Old(input, "group") /\ e.contacts = Old(input, "contact")
    BY SetFacts DEF DataType, Prepared
  <2> HIDE DEF e
  <2>3. ToGo(input, "updateGroups", e) = rest
    BY <1>2, <2>2 DEF ToGo
  <2> QED BY <1>1, <2>1, <2>3, UpdateGroupsGoes
<1>3. CASE d.contacts # {}
  <2> DEFINE e == [d EXCEPT !.current = Min(d.contacts)]
  <2>1. Send("createContact", e) BY <1>3 DEF CreateContactsStart
  <2>2. e.groups = {} /\ e.contacts = d.contacts
    BY DEF DataType
  <2> HIDE DEF e
  <2>3. CallsLeft("createContact", e) = rest
    <3>1. CallsLeft("createContact", e)
            = Calls(Cardinality(e.groups), Cardinality(e.contacts),
                    Kind(ToUpdate, "group") # {}, Kind(ToUpdate, "contact") # {})
      BY Zenon DEF CallsLeft
    <3> QED BY <2>2, <3>1, SetFacts, Zenon DEF CallsFor
  <2>4. ToGo(input, "createContact", e) = rest
    BY <2>2 DEF ToGo
  <2>5. PICK m : m \in d.contacts BY <1>3
  <2>6. IsFiniteSet(d.contacts) BY PlaceFacts, FS_Subset DEF DataType
  <2>7. rest # << >> BY <2>5, <2>6, CallsForContacts
  <2> HIDE DEF rest
  <2> QED BY <1>1, <2>1, <2>3, <2>4, <2>7 DEF Goes, Send
<1> QED BY <1>2, <1>3

LEMMA CreateGroupsGoes ==
  ASSUME input \in Seq(Items), NEW d, DataType(input, d), CreateGroupsStart(d)
  PROVE  Goes(ToGo(input, "createGroup", d))
<1> DEFINE rest == CallsFor(d.groups, d.contacts, Old(input, "group"), Old(input, "contact"))
<1>1. ToGo(input, "createGroup", d) = rest
  BY DEF ToGo
<1>2. CASE d.groups = {}
  <2>1. ToGo(input, "createContact", d) = rest BY <1>2 DEF ToGo
  <2>2. CreateContactsStart(d) BY <1>2 DEF CreateGroupsStart
  <2> QED BY <1>1, <1>2, <2>1, <2>2, CreateContactsGoes
<1>3. CASE d.groups # {}
  <2>1. Send("createGroup", d) BY <1>3 DEF CreateGroupsStart
  <2>2. CallsLeft("createGroup", d) = rest
    <3>1. CallsLeft("createGroup", d)
            = Calls(Cardinality(d.groups), Cardinality(d.contacts),
                    Kind(ToUpdate, "group") # {}, Kind(ToUpdate, "contact") # {})
      BY Zenon DEF CallsLeft
    <3> QED BY <3>1, SetFacts, Zenon DEF CallsFor
  <2>3. PICK m : m \in d.groups BY <1>3
  <2>4. IsFiniteSet(d.groups) /\ IsFiniteSet(d.contacts)
    BY PlaceFacts, FS_Subset DEF DataType
  <2>5. rest # << >>
    <3>1. PICK g, c, G, C : /\ g = d.groups /\ c = d.contacts
                            /\ G = Old(input, "group") /\ C = Old(input, "contact")
      OBVIOUS
    <3>2. IsFiniteSet(g) /\ IsFiniteSet(c) /\ m \in g BY <2>3, <2>4, <3>1
    <3>3. /\ CallsFor(g, c, G, C) # << >>
          /\ Tail(CallsFor(g, c, G, C)) = CallsFor(g \ {m}, c, G, C)
      BY <3>2, CallsForGroups
    <3> QED BY <3>1, <3>3, Zenon
  <2> HIDE DEF rest
  <2> QED BY <1>1, <2>1, <2>2, <2>5 DEF Goes, Send
<1> QED BY <1>2, <1>3
-----------------------------------------------------------------------------
(* The refinement. *)

\* What is left of the calls, by the state of the request.
TodoInv ==
  /\ input \in Inputs
  /\ state = "idle" => todo = PlanOf(input)
  /\ state = "active" => todo = ToGo(input, step, data)

\* An answer is one to the first of the calls that are left.
Answering(op) ==
  /\ state = "active" /\ ~crashed /\ UNCHANGED <<input, crashed>>
  /\ todo # << >> /\ Head(todo) = op /\ Goes(Tail(todo))

LEMMA CreateGroupAnswered ==
  ASSUME IInv, TodoInv, CreateGroupDone
  PROVE  Answering("createGroup")
<1> DEFINE k == Min(data.groups)
           d == UpdateCurrentGroup(data, k)
           G == Old(input, "group")
           C == Old(input, "contact")
<1>1. /\ Underway(input, "createGroup", data, saved, unanswered, asked) /\ input \in Seq(Items)
      /\ CreateGroupsStart(d) /\ UNCHANGED <<input, crashed>> /\ state = "active" /\ ~crashed
      /\ todo = ToGo(input, "createGroup", data)
  BY DEF CreateGroupDone, Waiting, IInv, TodoInv
<1>2. /\ DataType(input, data) /\ data.groups \in SUBSET Nat /\ data.groups # {}
      /\ data.groups \subseteq New(input, "group")
  BY <1>1, PlaceFacts DEF Underway, DataType, Pends
<1>3. k \in data.groups /\ k \in New(input, "group")
  BY <1>2, MinIsLeast
<1>4. IsFiniteSet(data.groups) /\ IsFiniteSet(data.contacts)
  BY <1>1, <1>2, PlaceFacts, FS_Subset DEF DataType
<1>5. DataType(input, d) /\ d.groups = data.groups \ {k} /\ d.contacts = data.contacts
  <2> DEFINE B == Before(input, "createGroup", data)
  <2>1. Books(input, data, saved, unanswered, B) BY <1>1 DEF Underway
  <2> HIDE DEF B, k
  <2> QED BY <1>1, <1>2, <1>3, <2>1, GroupFiled
<1>6. Goes(ToGo(input, "createGroup", d))
  <2> HIDE DEF d
  <2> QED BY <1>1, <1>5, CreateGroupsGoes
<1> HIDE DEF k, d, G, C
<1>7. /\ todo = CallsFor(data.groups, data.contacts, G, C)
      /\ ToGo(input, "createGroup", d) = CallsFor(data.groups \ {k}, data.contacts, G, C)
  BY <1>1, <1>5 DEF ToGo, G, C
<1>8. /\ CallsFor(data.groups, data.contacts, G, C) # << >>
      /\ Head(CallsFor(data.groups, data.contacts, G, C)) = "createGroup"
      /\ Tail(CallsFor(data.groups, data.contacts, G, C))
           = CallsFor(data.groups \ {k}, data.contacts, G, C)
  <2>1. PICK g, c, m : g = data.groups /\ c = data.contacts /\ m = k
    OBVIOUS
  <2>2. IsFiniteSet(g) /\ IsFiniteSet(c) /\ m \in g BY <1>3, <1>4, <2>1
  <2>3. /\ CallsFor(g, c, G, C) # << >>
        /\ Head(CallsFor(g, c, G, C)) = "createGroup"
        /\ Tail(CallsFor(g, c, G, C)) = CallsFor(g \ {m}, c, G, C)
    BY <2>2, CallsForGroups
  <2> QED BY <2>1, <2>3, Zenon
<1>9. Tail(todo) = ToGo(input, "createGroup", d)
  BY <1>7, <1>8, Zenon
<1> QED BY <1>1, <1>6, <1>7, <1>8, <1>9, Zenon DEF Answering

LEMMA CreateContactAnswered ==
  ASSUME IInv, TodoInv, CreateContactsDone
  PROVE  Answering("createContact")
<1> DEFINE k == data.current
           G == Old(input, "group")
           C == Old(input, "contact")
<1>1. /\ Underway(input, "createContact", data, saved, unanswered, asked) /\ input \in Seq(Items)
      /\ UNCHANGED <<input, crashed>> /\ state = "active" /\ ~crashed
      /\ todo = ToGo(input, "createContact", data)
  BY DEF CreateContactsDone, Waiting, IInv, TodoInv
<1>2. /\ DataType(input, data) /\ data.contacts \in SUBSET Nat /\ data.contacts # {}
      /\ data.contacts \subseteq New(input, "contact") /\ k = Min(data.contacts)
      /\ data.groups = {}
  BY <1>1, PlaceFacts DEF Underway, DataType, Pends
<1>3. k \in data.contacts /\ k \in AllNew(input) /\ k \in Nat /\ k \in DOMAIN input
  BY <1>2, MinIsLeast DEF New, AllNew
<1>4. IsFiniteSet(data.contacts)
  BY <1>1, <1>2, PlaceFacts, FS_Subset DEF DataType
<1>5. PICK d : /\ CreateContactsStart(d)
               /\ d = UpdateCurrentContact(data, k) \/ d = NotifyUpdateError(data)
  <2>1. CASE data.current \in saved
    BY <2>1 DEF CreateContactsDone
  <2>2. CASE data.current \notin saved
    BY <2>2 DEF CreateContactsDone
  <2> QED BY <2>1, <2>2
<1>6. Answered(k) \in Filed BY <1>3 DEF Answered, Filed
<1>7. DataType(input, d) /\ d.groups = {} /\ d.contacts = data.contacts \ {k}
  <2>1. CASE d = UpdateCurrentContact(data, k)
    BY <1>2, <1>3, <1>6, <2>1 DEF UpdateCurrentContact, DataType
  <2>2. CASE d = NotifyUpdateError(data)
    BY <1>2, <1>3, <2>2 DEF NotifyUpdateError, DataType
  <2> QED BY <1>5, <2>1, <2>2
<1>8. Goes(ToGo(input, "createContact", d))
  BY <1>1, <1>5, <1>7, CreateContactsGoes
<1> HIDE DEF k, G, C
<1>9. /\ todo = CallsFor({}, data.contacts, G, C)
      /\ ToGo(input, "createContact", d) = CallsFor({}, data.contacts \ {k}, G, C)
  BY <1>1, <1>7 DEF ToGo, G, C
<1>10. /\ CallsFor({}, data.contacts, G, C) # << >>
       /\ Head(CallsFor({}, data.contacts, G, C)) = "createContact"
       /\ Tail(CallsFor({}, data.contacts, G, C)) = CallsFor({}, data.contacts \ {k}, G, C)
  <2>1. PICK c, m : c = data.contacts /\ m = k
    OBVIOUS
  <2>2. IsFiniteSet(c) /\ m \in c BY <1>3, <1>4, <2>1
  <2>3. /\ CallsFor({}, c, G, C) # << >>
        /\ Head(CallsFor({}, c, G, C)) = "createContact"
        /\ Tail(CallsFor({}, c, G, C)) = CallsFor({}, c \ {m}, G, C)
    BY <2>2, CallsForContacts
  <2> QED BY <2>1, <2>3, Zenon
<1>11. Tail(todo) = ToGo(input, "createContact", d)
  BY <1>9, <1>10, Zenon
<1> QED BY <1>1, <1>8, <1>9, <1>10, <1>11, Zenon DEF Answering

LEMMA UpdateGroupsAnswered ==
  ASSUME IInv, TodoInv, UpdateGroupsDone
  PROVE  Answering("updateGroups")
<1>1. /\ Underway(input, "updateGroups", data, saved, unanswered, asked)
      /\ UNCHANGED <<input, crashed>> /\ state = "active" /\ ~crashed
      /\ todo = ToGo(input, "updateGroups", data)
  BY DEF UpdateGroupsDone, Waiting, IInv, TodoInv
<1>2. DataType(input, data) /\ data.groups # {}
  BY <1>1 DEF Underway
<1>3. PICK d : UpdateContacts(d) /\ d.contacts = data.contacts
  <2>1. CASE UpdateContacts(UpdatePendingGroups(data, data.groups \intersect saved))
    <3> DEFINE e == UpdatePendingGroups(data, data.groups \intersect saved)
    <3>1. e.contacts = data.contacts BY <1>2 DEF UpdatePendingGroups, DataType
    <3> QED BY <2>1, <3>1
  <2>2. CASE UpdateContacts(data)
    BY <2>2
  <2> QED BY <2>1, <2>2 DEF UpdateGroupsDone
<1>4. Goes(ToGo(input, "updateContacts", d))
  BY <1>3, UpdateContactsGoes
<1>5. /\ todo = CallsFor({}, {}, data.groups, data.contacts)
      /\ ToGo(input, "updateContacts", d) = CallsFor({}, {}, {}, data.contacts)
  BY <1>1, <1>3 DEF ToGo
<1>6. /\ CallsFor({}, {}, data.groups, data.contacts) # << >>
      /\ Head(CallsFor({}, {}, data.groups, data.contacts)) = "updateGroups"
      /\ Tail(CallsFor({}, {}, data.groups, data.contacts)) = CallsFor({}, {}, {}, data.contacts)
  BY <1>2, CallsForUpdates
<1>7. Tail(todo) = ToGo(input, "updateContacts", d)
  BY <1>5, <1>6, Zenon
<1> QED BY <1>1, <1>4, <1>5, <1>6, <1>7, Zenon DEF Answering
\* The plan is what is to go when the save begins, and its first call is of a save.
LEMMA PlanToGo ==
  ASSUME input \in Seq(Items), NEW d,
         d.groups = New(input, "group"), d.contacts = New(input, "contact")
  PROVE  /\ PlanOf(input) = ToGo(input, "createGroup", d)
         /\ PlanOf(input) # << >> => Head(PlanOf(input)) \in Steps
<1> DEFINE g == New(input, "group")
           c == New(input, "contact")
           G == Old(input, "group")
           C == Old(input, "contact")
           number(kind, new) ==
             Cardinality({k \in DOMAIN input : input[k] = [kind |-> kind, new |-> new]})
<1>a. \A k \in DOMAIN input : input[k] \in Items
  OBVIOUS
<1>1. \A k \in DOMAIN input, x \in {"group", "contact"} :
        /\ input[k] = [kind |-> x, new |-> TRUE] <=> input[k].new /\ input[k].kind = x
        /\ input[k] = [kind |-> x, new |-> FALSE] <=> ~input[k].new /\ input[k].kind = x
  BY <1>a DEF Items
<1>2. /\ {k \in DOMAIN input : input[k] = [kind |-> "group", new |-> TRUE]} = g
      /\ {k \in DOMAIN input : input[k] = [kind |-> "contact", new |-> TRUE]} = c
      /\ {k \in DOMAIN input : input[k] = [kind |-> "group", new |-> FALSE]} = G
      /\ {k \in DOMAIN input : input[k] = [kind |-> "contact", new |-> FALSE]} = C
  BY <1>1 DEF New, Old
<1>3. IsFiniteSet(g) /\ IsFiniteSet(c) /\ IsFiniteSet(G) /\ IsFiniteSet(C)
  BY PlaceFacts, FS_Subset DEF New, Old
<1>4. PlanOf(input) = Calls(number("group", TRUE), number("contact", TRUE),
                            number("group", FALSE) > 0, number("contact", FALSE) > 0)
  BY Zenon DEF PlanOf
<1>5. /\ number("group", TRUE) = Cardinality(g) /\ number("contact", TRUE) = Cardinality(c)
      /\ number("group", FALSE) = Cardinality(G) /\ number("contact", FALSE) = Cardinality(C)
  BY <1>2, Zenon
<1>6. ToGo(input, "createGroup", d) = Calls(Cardinality(g), Cardinality(c), G # {}, C # {})
  BY Zenon DEF ToGo, CallsFor
<1> HIDE DEF number, g, c, G, C
<1>7. (Cardinality(G) > 0 <=> G # {}) /\ (Cardinality(C) > 0 <=> C # {})
  BY <1>3, FS_EmptySet, FS_CardinalityType
<1>8. (Cardinality(G) > 0) = (G # {}) /\ (Cardinality(C) > 0) = (C # {})
  BY <1>7
<1>9. PlanOf(input) = ToGo(input, "createGroup", d)
  BY <1>4, <1>5, <1>6, <1>8, Zenon
<1>10. ToGo(input, "createGroup", d) = CallsFor(g, c, G, C)
  BY DEF ToGo, g, c, G, C
<1>11. ASSUME CallsFor(g, c, G, C) # << >> PROVE Head(CallsFor(g, c, G, C)) \in Steps
  <2>1. CASE g # {}
    <3>1. PICK m : m \in g BY <2>1
    <3>2. IsFiniteSet(g) /\ IsFiniteSet(c) BY <1>3
    <3>3. /\ CallsFor(g, c, G, C) # << >>
          /\ Head(CallsFor(g, c, G, C)) = "createGroup"
          /\ Tail(CallsFor(g, c, G, C)) = CallsFor(g \ {m}, c, G, C)
      BY <3>1, <3>2, CallsForGroups
    <3> QED BY <3>3 DEF Steps
  <2>2. CASE g = {} /\ c # {}
    <3> PICK m : m \in c BY <2>2
    <3>1. Head(CallsFor({}, c, G, C)) = "createContact"
      BY <1>3, CallsForContacts, Zenon
    <3> QED BY <2>2, <3>1 DEF Steps
  <2>3. CASE g = {} /\ c = {} /\ G # {}
    BY <2>3, CallsForUpdates DEF Steps
  <2>4. CASE g = {} /\ c = {} /\ G = {} /\ C # {}
    BY <2>4, CallsForUpdates DEF Steps
  <2>5. CASE g = {} /\ c = {} /\ G = {} /\ C = {}
    BY <1>11, <2>5, CallsForUpdates
  <2> QED BY <2>1, <2>2, <2>3, <2>4, <2>5
<1> QED BY <1>9, <1>10, <1>11
LEMMA SaveBegins ==
  ASSUME IInv, TodoInv, SaveContact
  PROVE  /\ state = "idle" /\ ~crashed /\ UNCHANGED <<input, crashed>>
         /\ asked = [k \in DOMAIN input |-> 0]
         /\ Goes(todo) /\ (todo # << >> => Head(todo) \in Steps)
<1> DEFINE d == Prepared(NewData, ToCreate)
<1>1. /\ state = "idle" /\ ~crashed /\ UNCHANGED <<input, crashed>>
      /\ asked = [k \in DOMAIN input |-> 0] /\ input \in Seq(Items)
      /\ data = NewData /\ DataType(input, NewData) /\ todo = PlanOf(input)
      /\ CreateGroupsStart(d)
  BY DEF SaveContact, IInv, TodoInv
<1>2. d.groups = New(input, "group") /\ d.contacts = New(input, "contact")
  BY SetFacts DEF Prepared, NewData
<1>3. DataType(input, d)
  BY <1>1, SetFacts DEF Prepared, DataType, New
<1> HIDE DEF d
<1>4. Goes(ToGo(input, "createGroup", d))
  BY <1>1, <1>3, CreateGroupsGoes
<1>5. todo = ToGo(input, "createGroup", d) /\ (todo # << >> => Head(todo) \in Steps)
  BY <1>1, <1>2, PlanToGo
<1> QED BY <1>1, <1>4, <1>5

LEMMA UpdateContactAnswered ==
  ASSUME IInv, TodoInv, UpdateContactDone
  PROVE  /\ state = "active" /\ ~crashed /\ UNCHANGED <<input, crashed, asked, todo>>
         /\ todo # << >> /\ Head(todo) = "updateContacts" /\ state' = "finished"
<1>1. /\ Underway(input, "updateContacts", data, saved, unanswered, asked)
      /\ UNCHANGED <<input, crashed, asked, todo>> /\ state = "active" /\ ~crashed
      /\ state' = "finished" /\ todo = ToGo(input, "updateContacts", data)
  BY DEF UpdateContactDone, Waiting, IInv, TodoInv, Finish
<1>2. data.contacts # {} /\ todo = CallsFor({}, {}, {}, data.contacts)
  BY <1>1 DEF Underway, ToGo
<1> QED BY <1>1, <1>2, CallsForUpdates

LEMMA CreateGroupUnanswered ==
  ASSUME IInv, TodoInv, CreateGroupFailed
  PROVE  /\ state = "active" /\ ~crashed /\ crashed' = TRUE
         /\ UNCHANGED <<input, state, data, step, asked, todo>>
         /\ todo # << >> /\ Head(todo) = "createGroup"
<1> DEFINE G == Old(input, "group")
           C == Old(input, "contact")
<1>1. /\ Underway(input, "createGroup", data, saved, unanswered, asked) /\ input \in Seq(Items)
      /\ state = "active" /\ ~crashed /\ crashed' = TRUE
      /\ UNCHANGED <<input, state, data, step, asked, todo>>
      /\ todo = ToGo(input, "createGroup", data)
  BY DEF CreateGroupFailed, Waiting, IInv, TodoInv
<1> HIDE DEF G, C
<1>2. PICK g, c, m : g = data.groups /\ c = data.contacts /\ m \in g
  BY <1>1 DEF Underway
<1>3. IsFiniteSet(g) /\ IsFiniteSet(c) /\ m \in g
  BY <1>1, <1>2, PlaceFacts, FS_Subset DEF Underway, DataType
<1>4. /\ CallsFor(g, c, G, C) # << >>
      /\ Head(CallsFor(g, c, G, C)) = "createGroup"
      /\ Tail(CallsFor(g, c, G, C)) = CallsFor(g \ {m}, c, G, C)
  BY <1>3, CallsForGroups
<1>5. todo = CallsFor(g, c, G, C)
  BY <1>1, <1>2 DEF ToGo, G, C
<1> QED BY <1>1, <1>4, <1>5, Zenon

LEMMA TodoInit == Init => TodoInv
BY DEF Init, TodoInv

LEMMA TodoNext == IInv /\ TodoInv /\ [Next]_vars => TodoInv'
<1> SUFFICES ASSUME IInv, TodoInv, [Next]_vars PROVE TodoInv'
  OBVIOUS
<1>1. ASSUME NEW rest, Goes(rest), UNCHANGED input PROVE TodoInv'
  BY <1>1 DEF Goes, TodoInv
<1>2. CASE SaveContact BY <1>1, <1>2, SaveBegins
<1>3. CASE CreateGroupDone BY <1>1, <1>3, CreateGroupAnswered DEF Answering
<1>4. CASE CreateContactsDone BY <1>1, <1>4, CreateContactAnswered DEF Answering
<1>5. CASE UpdateGroupsDone BY <1>1, <1>5, UpdateGroupsAnswered DEF Answering
<1>6. CASE CreateGroupFailed BY <1>6, CreateGroupUnanswered DEF TodoInv
<1>7. CASE UpdateContactDone BY <1>7, UpdateContactAnswered DEF TodoInv
<1>8. CASE Cancel BY <1>8 DEF Cancel, TodoInv
<1>9. CASE Serve BY <1>9 DEF Serve, TodoInv
<1>10. CASE ServeLate BY <1>10 DEF ServeLate, TodoInv
<1>11. CASE UNCHANGED vars BY <1>11 DEF vars, TodoInv
<1> QED BY <1>2, <1>3, <1>4, <1>5, <1>6, <1>7, <1>8, <1>9, <1>10, <1>11 DEF Next, Answers

\* The request of ClientRequests starts, or is turned away.
LEMMA StartRefines ==
  ASSUME state = "idle", ~crashed, UNCHANGED <<input, crashed>>,
         asked = [k \in DOMAIN input |-> 0],
         Goes(todo), todo # << >> => Head(todo) \in Steps
  PROVE  Abstract!Next
<1>1. Abstract!IsOnline
  BY DEF Abstract!IsOnline
<1>2. todo # Abstract!Unsupported
  <2>1. Head(<<"unsupported">>) = "unsupported" /\ <<"unsupported">> # << >>
    OBVIOUS
  <2> QED BY <2>1 DEF Abstract!Unsupported, Steps
<1>3. ~(\E k \in Places : asked[k] > 0)
  BY DEF Places
<1>4. CASE state' = "active"
  <2>1. todo # << >> /\ todo' = todo /\ Head(todo) # "queryNow"
    BY <1>4 DEF Goes, Steps
  <2>2. Abstract!Start("save")
    BY <1>1, <1>2, <1>3, <1>4, <2>1
       DEF Abstract!Start, Abstract!serviceVars, Abstract!Calls
  <2> QED BY <2>2 DEF Abstract!Next, Abstract!Application
<1>5. CASE state' = "finished"
  <2>1. todo' = todo /\ asked' = asked /\ (todo # << >> => Head(todo) \in Abstract!Checked)
    BY <1>5 DEF Goes, Abstract!Checked, Abstract!Calls
  <2>2. ~(\E k \in Places' : asked'[k] > 0)
    BY <1>3, <2>1 DEF Places
  <2>3. Abstract!Reject("save")
    BY <1>3, <1>5, <2>1, <2>2 DEF Abstract!Reject
  <2>4. Abstract!Start("save")
    BY <1>1, <1>2, <2>1, <2>3 DEF Abstract!Start, Abstract!serviceVars
  <2> QED BY <2>4 DEF Abstract!Next, Abstract!Application
<1> QED BY <1>4, <1>5 DEF Goes
\* The request ends: its state is told and its data object destroyed.
LEMMA EndRefines ==
  ASSUME state = "active", NEW s \in {"finished", "canceled"}, state' = s,
         UNCHANGED <<input, asked>>, \E k \in Places : asked[k] > 0
  PROVE  Abstract!Told("save", s) /\ Abstract!DestroyRequest("save")
<1>1. ~Abstract!Waited("save")
  <2>1. DOMAIN << >> = {} OBVIOUS
  <2> QED BY <2>1 DEF Abstract!Waited
<1>2. \E k \in Places' : asked'[k] > 0
  BY DEF Places
<1>3. Abstract!Destroyed("save") = "deleted"
  BY <1>1 DEF Abstract!Destroyed
<1>4. Abstract!Told("save", s)
  BY <1>1 DEF Abstract!Told
<1>5. Abstract!DestroyRequest("save")
  BY <1>2, <1>3 DEF Abstract!DestroyRequest
<1> QED BY <1>4, <1>5

\* An answer: the next call goes out or the request is finished.
LEMMA AnswerRefines ==
  ASSUME NEW op \in {"createGroup", "createContact", "updateGroups"}, Answering(op),
         \E k \in DOMAIN input : asked[k] > 0
  PROVE  Abstract!Next
<1>1. /\ state = "active" /\ ~crashed /\ UNCHANGED <<input, crashed>>
      /\ todo # << >> /\ Head(todo) = op /\ Goes(Tail(todo))
  BY DEF Answering
<1>2. \E k \in Places : asked[k] > 0
  BY DEF Places
<1>3. Abstract!Continue("save", Tail(todo))
  <2>1. CASE state' = "active"
    <3>1. Tail(todo) # << >> /\ todo' = Tail(todo)
      BY <2>1 DEF Goes, Answering
    <3> QED BY <1>1, <2>1, <3>1 DEF Abstract!Continue
  <2>2. CASE state' = "finished"
    <3>1. todo' = todo /\ asked' = asked
          /\ (Tail(todo) = << >> \/ Head(Tail(todo)) \in Abstract!Checked)
      BY <1>1, <2>2 DEF Goes, Abstract!Checked, Abstract!Calls
    <3>2. Abstract!Told("save", "finished") /\ Abstract!DestroyRequest("save")
      BY <1>1, <1>2, <2>2, <3>1, EndRefines
    <3>3. Abstract!Finish("save")
      BY <3>1, <3>2 DEF Abstract!Finish
    <3> QED BY <3>1, <3>3 DEF Abstract!Continue
  <2> QED BY <1>1, <2>1, <2>2 DEF Goes
<1>4. Abstract!StepReply("save", TRUE)
  BY <1>3 DEF Abstract!StepReply, Abstract!Continue
<1>5. Abstract!Reply("save", TRUE)
  BY <1>1, <1>4 DEF Abstract!Reply, Abstract!serviceVars
<1> QED BY <1>1, <1>5 DEF Abstract!Next, Abstract!Answer

\* The answer to the last call finishes the request.
LEMMA LastAnswerRefines ==
  ASSUME state = "active", ~crashed, UNCHANGED <<input, crashed, asked, todo>>,
         todo # << >>, Head(todo) = "updateContacts", state' = "finished",
         \E k \in DOMAIN input : asked[k] > 0
  PROVE  Abstract!Next
<1>1. Abstract!Told("save", "finished") /\ Abstract!DestroyRequest("save")
  BY EndRefines DEF Places
<1>2. Abstract!Finish("save")
  BY <1>1 DEF Abstract!Finish
<1>3. Abstract!Reply("save", TRUE)
  BY <1>2 DEF Abstract!Reply, Abstract!serviceVars
<1> QED BY <1>3 DEF Abstract!Next, Abstract!Answer

LEMMA CancelRefines ==
  ASSUME Cancel, \E k \in DOMAIN input : asked[k] > 0
  PROVE  Abstract!Next
<1>1. /\ state = "active" /\ ~crashed /\ state' = "canceled"
      /\ UNCHANGED <<input, asked, todo, crashed>>
  BY DEF Cancel
<1>2. Abstract!Told("save", "canceled") /\ Abstract!DestroyRequest("save")
  BY <1>1, EndRefines DEF Places
<1>3. Abstract!Cancel("save")
  BY <1>1, <1>2 DEF Abstract!Cancel, Abstract!serviceVars
<1> QED BY <1>1, <1>3 DEF Abstract!Next, Abstract!Application

LEMMA CrashRefines ==
  ASSUME state = "active", ~crashed, crashed' = TRUE,
         UNCHANGED <<input, state, asked, todo>>,
         todo # << >>, Head(todo) = "createGroup"
  PROVE  Abstract!Next
<1>1. Abstract!GroupNotCreated("save")
  BY DEF Abstract!GroupNotCreated, Abstract!requestVars, Abstract!serviceVars
<1> QED BY <1>1 DEF Abstract!Next, Abstract!Answer

\* The service does not show: nothing of what is mapped changes.
LEMMA StutterRefines ==
  ASSUME UNCHANGED <<input, state, asked, todo, crashed>>
  PROVE  UNCHANGED Abstract!vars
BY DEF Abstract!vars, Abstract!requestVars, Abstract!serviceVars, Places

LEMMA StepRefines == IInv /\ TodoInv /\ [Next]_vars => [Abstract!Next]_(Abstract!vars)
<1> SUFFICES ASSUME IInv, TodoInv, [Next]_vars PROVE Abstract!Next \/ UNCHANGED Abstract!vars
  OBVIOUS
<1>1. state = "active" => \E k \in DOMAIN input : asked[k] > 0
  <2> SUFFICES ASSUME state = "active" PROVE \E k \in DOMAIN input : asked[k] > 0
    OBVIOUS
  <2> DEFINE S == Sent(step, data)
             B == Before(input, step, data)
  <2>1. /\ Underway(input, step, data, saved, unanswered, asked) /\ input \in Seq(Items)
        /\ step \in Steps
    BY DEF IInv, Underway
  <2>2. S \subseteq DOMAIN input
    BY <2>1, SentFacts DEF Underway
  <2>3. S # {}
    BY <2>1 DEF Underway, Sent, Steps
  <2>4. AskedIs(input, asked, B \union S)
    BY <2>1 DEF Underway
  <2> HIDE DEF S, B
  <2> QED BY <2>2, <2>3, <2>4 DEF AskedIs
<1>2. CASE SaveContact BY <1>2, SaveBegins, StartRefines
<1>3. CASE CreateGroupDone
  <2>1. Answering("createGroup") BY <1>3, CreateGroupAnswered
  <2> QED BY <1>1, <2>1, AnswerRefines DEF Answering
<1>4. CASE CreateContactsDone
  <2>1. Answering("createContact") BY <1>4, CreateContactAnswered
  <2> QED BY <1>1, <2>1, AnswerRefines DEF Answering
<1>5. CASE UpdateGroupsDone
  <2>1. Answering("updateGroups") BY <1>5, UpdateGroupsAnswered
  <2> QED BY <1>1, <2>1, AnswerRefines DEF Answering
<1>6. CASE CreateGroupFailed BY <1>6, CreateGroupUnanswered, CrashRefines
<1>7. CASE UpdateContactDone BY <1>1, <1>7, UpdateContactAnswered, LastAnswerRefines
<1>8. CASE Cancel BY <1>1, <1>8, CancelRefines DEF Cancel
<1>9. CASE Serve BY <1>9, StutterRefines DEF Serve
<1>10. CASE ServeLate BY <1>10, StutterRefines DEF ServeLate
<1>11. CASE UNCHANGED vars BY <1>11, StutterRefines DEF vars
<1> QED BY <1>2, <1>3, <1>4, <1>5, <1>6, <1>7, <1>8, <1>9, <1>10, <1>11 DEF Next, Answers

LEMMA InitRefines == Init => Abstract!Init
<1> SUFFICES ASSUME Init PROVE Abstract!Init
  OBVIOUS
<1>1. /\ input \in Inputs /\ state = "idle" /\ todo = PlanOf(input) /\ ~crashed
      /\ crashed = FALSE
      /\ ~(\E k \in Places : asked[k] > 0)
  BY DEF Init, Places
<1> QED BY <1>1 DEF Abstract!Init

\* A save of any items makes, step for step, the calls of its plan as a request of
\* ClientRequests does: one after the other, each once, none of them left out because an
\* item was refused; it is finished when the plan is done or a call cannot be sent.
THEOREM SaveRefinesRequest == Spec => ImplementsRequest
<1>1. Init => Abstract!Init BY InitRefines
<1>2. Init => IInv /\ TodoInv BY InitInv, TodoInit
<1>3. IInv /\ TodoInv /\ [Next]_vars => IInv' /\ TodoInv' BY NextInv, TodoNext
<1>4. IInv /\ TodoInv /\ [Next]_vars => [Abstract!Next]_(Abstract!vars) BY StepRefines
<1> QED BY <1>1, <1>2, <1>3, <1>4, PTL DEF Spec, ImplementsRequest, Abstract!Spec
=============================================================================
