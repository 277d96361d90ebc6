-------------------------- MODULE Components_proofs --------------------------
(***************************************************************************)
(* Proofs about four components, each with a specification of its own:     *)
(* ContactsMap, EdsSources, ServiceLifecycle and Pages.  No theorem relates*)
(* them.                                                                   *)
(*                                                                         *)
(* ContactsMap.  The place std::upper_bound finds does not matter to what  *)
(* the structures hold, only that it is a place; the order needs to know   *)
(* which.  The search is a recursive function: that it exists, and what it *)
(* returns, is shown by the least number of entries for which it would     *)
(* not.                                                                    *)
(***************************************************************************)
EXTENDS ContactsMap, Pages, EdsSources, ServiceLifecycle,
        FiniteSetTheorems, SequenceTheorems, WellFoundedInduction, TLAPS

(* The binary search of std::upper_bound. *)

\* What the search does with f entries in front and n entries left, for an entry with key k; K
\* are the keys, and S is what it does with fewer.
Search(S, K, s, k, n) ==
  [first \in Nat |->
    IF n = 0 THEN first
    ELSE LET half == n \div 2
         IN  IF k <= K[s[first + half + 1]]
             THEN S[half][first]
             ELSE S[n - half - 1][first + half + 1]]

IsSearch(S, K, s, k) == S = [n \in Nat |-> Search(S, K, s, k, n)]

\* S is the search of up to m entries.
Searches(S, K, s, k, m) == \A n \in 0 .. m : S[n] = Search(S, K, s, k, n)

\* Half of the entries, and the rest, are fewer.
LEMMA Halves ==
  ASSUME NEW n \in Nat, n > 0
  PROVE  /\ n \div 2 \in Nat /\ n \div 2 < n
         /\ n - n \div 2 - 1 \in Nat /\ n - n \div 2 - 1 < n
         /\ n \div 2 + (n - n \div 2 - 1) + 1 = n
OBVIOUS

\* A set of numbers that has one has a least one.
LEMMA LeastOf ==
  ASSUME NEW S \in SUBSET Nat, S # {}
  PROVE  \E m \in S : \A n \in S : m <= n
<1>1. PICK m \in S : \A n \in S : ~(<<n, m>> \in OpToRel(<, Nat))
  BY NatLessThanWellFounded, WFMin, Zenon
<1>2. \A n \in S : ~(n < m)
  BY <1>1 DEF OpToRel
<1> QED BY <1>2

\* The search depends on what it does with fewer entries only.
LEMMA SearchSame ==
  ASSUME NEW S, NEW T, NEW K, NEW s, NEW k, NEW n \in Nat,
         \A j \in Nat : j < n => S[j] = T[j]
  PROVE  Search(S, K, s, k, n) = Search(T, K, s, k, n)
<1>1. CASE n = 0 BY <1>1 DEF Search
<1>2. CASE n # 0
  <2>1. /\ n \div 2 \in Nat /\ n \div 2 < n
        /\ n - n \div 2 - 1 \in Nat /\ n - n \div 2 - 1 < n
    BY <1>2, Halves
  <2> DEFINE h == n \div 2
             r == n - h - 1
  <2>2. S[h] = T[h] /\ S[r] = T[r] BY <2>1
  <2> HIDE DEF h
  <2> QED BY <1>2, <2>2 DEF Search, h
<1> QED BY <1>1, <1>2

\* Two searches agree as far as both go.
LEMMA SearchesAgree ==
  ASSUME NEW S, NEW T, NEW K, NEW s, NEW k, NEW m \in Nat,
         Searches(S, K, s, k, m), Searches(T, K, s, k, m)
  PROVE  \A n \in 0 .. m : S[n] = T[n]
<1> DEFINE bad == {n \in Nat : n <= m /\ S[n] # T[n]}
<1>1. SUFFICES ASSUME bad # {} PROVE FALSE OBVIOUS
<1>2. PICK n \in bad : \A j \in bad : n <= j
  <2> HIDE DEF bad
  <2> QED BY <1>1, LeastOf, bad \in SUBSET Nat DEF bad
<1>3. \A j \in Nat : j < n => S[j] = T[j] BY <1>2
<1>4. Search(S, K, s, k, n) = Search(T, K, s, k, n) BY <1>2, <1>3, SearchSame
<1> QED BY <1>2, <1>4 DEF Searches

\* There is a search of any number of entries.
LEMMA SearchesExist ==
  ASSUME NEW K, NEW s, NEW k, NEW m \in Nat
  PROVE  \E S : Searches(S, K, s, k, m)
<1> DEFINE bad == {n \in Nat : ~\E S : Searches(S, K, s, k, n)}
<1>1. SUFFICES ASSUME bad # {} PROVE FALSE OBVIOUS
<1>2. PICK n \in bad : \A j \in bad : n <= j
  <2> HIDE DEF bad
  <2> QED BY <1>1, LeastOf, bad \in SUBSET Nat DEF bad
<1>3. PICK S : n > 0 => Searches(S, K, s, k, n - 1)
  <2>1. CASE n = 0 BY <2>1
  <2>2. CASE n > 0
    <3>1. n - 1 \in Nat /\ ~(n <= n - 1) BY <2>2
    <3>2. n - 1 \notin bad BY <1>2, <3>1
    <3> QED BY <3>1, <3>2
  <2> QED BY <2>1, <2>2
<1> DEFINE T == [j \in Nat |-> IF j = n THEN Search(S, K, s, k, n) ELSE S[j]]
<1>4. ASSUME NEW j \in 0 .. n PROVE T[j] = Search(T, K, s, k, j)
  <2>1. T[j] = Search(S, K, s, k, j)
    <3>1. CASE j = n BY <3>1
    <3>2. CASE j # n BY <1>3, <3>2 DEF Searches
    <3> QED BY <3>1, <3>2
  <2>2. \A i \in Nat : i < j => S[i] = T[i] OBVIOUS
  <2> HIDE DEF T
  <2> QED BY <2>1, <2>2, SearchSame
<1>5. Searches(T, K, s, k, n) BY <1>4 DEF Searches
<1> QED BY <1>2, <1>5

\* There is one for all numbers.
LEMMA SearchExists ==
  ASSUME NEW K, NEW s, NEW k
  PROVE  \E S : IsSearch(S, K, s, k)
<1> DEFINE F(m) == CHOOSE S : Searches(S, K, s, k, m)
           T == [n \in Nat |-> F(n)[n]]
<1>1. \A m \in Nat : Searches(F(m), K, s, k, m) BY SearchesExist
<1> HIDE DEF F
<1>2. ASSUME NEW n \in Nat PROVE T[n] = Search(T, K, s, k, n)
  <2>1. T[n] = Search(F(n), K, s, k, n) BY <1>1 DEF Searches
  <2>2. ASSUME NEW j \in Nat, j < n PROVE F(n)[j] = T[j]
    <3>1. Searches(F(n), K, s, k, j) BY <1>1, <2>2 DEF Searches
    <3>2. Searches(F(j), K, s, k, j) BY <1>1
    <3>3. F(n)[j] = F(j)[j]
      <4>1. PICK A, B : A = F(n) /\ B = F(j) OBVIOUS
      <4>2. \A i \in 0 .. j : A[i] = B[i] BY <3>1, <3>2, <4>1, SearchesAgree
      <4> QED BY <4>1, <4>2
    <3> QED BY <3>3
  <2> HIDE DEF T
  <2>3. PICK A : A = F(n) OBVIOUS
  <2>4. Search(A, K, s, k, n) = Search(T, K, s, k, n) BY <2>2, <2>3, SearchSame
  <2> QED BY <2>1, <2>3, <2>4
<1>3. T = [n \in Nat |-> Search(T, K, s, k, n)]
  <2>1. T = [n \in Nat |-> T[n]] OBVIOUS
  <2> HIDE DEF T
  <2> QED BY <1>2, <2>1
<1>4. IsSearch(T, K, s, k) BY <1>3 DEF IsSearch
<1> QED BY <1>4

\* What UpperBound finds is what the search finds among all entries.
LEMMA UpperBoundSearches ==
  ASSUME NEW s, NEW k
  PROVE  \E S : IsSearch(S, key', s, k) /\ UpperBound(s, k) = S[Len(s)][0]
<1> DEFINE S == CHOOSE S : IsSearch(S, key', s, k)
<1>1. IsSearch(S, key', s, k) BY SearchExists
<1>2. UpperBound(s, k) = S[Len(s)][0]
  BY Zenon DEF UpperBound, Before, IsSearch, Search
<1> QED BY <1>1, <1>2

\* The search ends within the n entries behind first; if those that go behind the new entry
\* are the last of them, they are the ones behind the place it finds.
Divides(K, s, k, first, n) ==
  \A i, j \in first + 1 .. first + n : i < j /\ k <= K[s[i]] => k <= K[s[j]]

Placed(S, K, s, k, first, n) ==
  /\ S[n][first] \in first .. first + n
  /\ Divides(K, s, k, first, n) =>
       \A i \in first + 1 .. first + n : k <= K[s[i]] <=> i > S[n][first]

LEMMA SearchPlaces ==
  ASSUME NEW S, NEW K, NEW s, NEW k, IsSearch(S, K, s, k)
  PROVE  \A n, first \in Nat : Placed(S, K, s, k, first, n)
<1> DEFINE bad == {n \in Nat : \E first \in Nat : ~Placed(S, K, s, k, first, n)}
<1>1. SUFFICES ASSUME bad # {} PROVE FALSE OBVIOUS
<1>2. PICK n \in bad : \A j \in bad : n <= j
  <2> HIDE DEF bad
  <2> QED BY <1>1, LeastOf, bad \in SUBSET Nat DEF bad
<1>3. PICK first \in Nat : ~Placed(S, K, s, k, first, n) BY <1>2
<1>4. S[n][first] = IF n = 0 THEN first
                    ELSE IF k <= K[s[first + n \div 2 + 1]]
                         THEN S[n \div 2][first]
                         ELSE S[n - n \div 2 - 1][first + n \div 2 + 1]
  BY DEF IsSearch, Search
<1>5. CASE n = 0 BY <1>3, <1>4, <1>5 DEF Placed
<1>6. CASE n # 0
  <2>1. PICK h, r : h = n \div 2 /\ r = n - n \div 2 - 1 OBVIOUS
  <2>2. h \in Nat /\ h < n /\ r \in Nat /\ r < n /\ h + r + 1 = n BY <1>6, <2>1, Halves
  <2>3. \A f \in Nat : Placed(S, K, s, k, f, h) /\ Placed(S, K, s, k, f, r)
    BY <1>2, <2>2
  <2>4. CASE k <= K[s[first + h + 1]]
    <3>1. S[n][first] = S[h][first] BY <1>4, <1>6, <2>1, <2>4
    <3>2. Placed(S, K, s, k, first, h) BY <2>3
    <3>3. S[n][first] \in first .. first + n BY <2>2, <3>1, <3>2 DEF Placed
    <3>4. ASSUME Divides(K, s, k, first, n), NEW i \in first + 1 .. first + n
          PROVE  k <= K[s[i]] <=> i > S[n][first]
      <4>1. Divides(K, s, k, first, h) BY <2>2, <3>4 DEF Divides
      <4>2. CASE i <= first + h BY <2>2, <3>1, <3>2, <4>1, <4>2 DEF Placed
      <4>3. CASE i > first + h
        <5>1. k <= K[s[i]] BY <2>2, <2>4, <3>4, <4>3 DEF Divides
        <5> QED BY <2>2, <3>1, <3>2, <4>3, <5>1 DEF Placed
      <4> QED BY <2>2, <4>2, <4>3
    <3> QED BY <1>3, <3>3, <3>4 DEF Placed
  <2>5. CASE ~(k <= K[s[first + h + 1]])
    <3> DEFINE g == first + h + 1
    <3>0. g \in Nat /\ g + r = first + n BY <2>2
    <3>1. S[n][first] = S[r][g] BY <1>4, <1>6, <2>1, <2>5
    <3>2. Placed(S, K, s, k, g, r) BY <2>3, <3>0
    <3>3. S[n][first] \in first .. first + n BY <2>2, <3>0, <3>1, <3>2 DEF Placed
    <3>4. ASSUME Divides(K, s, k, first, n), NEW i \in first + 1 .. first + n
          PROVE  k <= K[s[i]] <=> i > S[n][first]
      <4>1. Divides(K, s, k, g, r) BY <2>2, <3>4 DEF Divides
      <4>2. CASE i > g BY <2>2, <3>0, <3>1, <3>2, <4>1, <4>2 DEF Placed
      <4>3. CASE i <= g
        <5>1. ~(k <= K[s[i]]) BY <2>2, <2>5, <3>4, <4>3 DEF Divides
        <5> QED BY <2>2, <3>1, <3>2, <4>3, <5>1 DEF Placed
      <4> QED BY <2>2, <4>2, <4>3
    <3> QED BY <1>3, <3>3, <3>4 DEF Placed
  <2> QED BY <2>4, <2>5
<1> QED BY <1>5, <1>6

\* std::upper_bound, as insertData and updatePosition use it, for lists of any length: it
\* returns a place in the list, sorted or not, and if the entries that go behind an entry with
\* key k are the last ones, the place in front of them.
THEOREM UpperBoundPlaces ==
  ASSUME NEW s, NEW k, Len(s) \in Nat
  PROVE  /\ UpperBound(s, k) \in 0 .. Len(s)
         /\ (\A i, j \in 1 .. Len(s) : i < j /\ k <= key'[s[i]] => k <= key'[s[j]]) =>
              \A i \in 1 .. Len(s) : k <= key'[s[i]] <=> i > UpperBound(s, k)
<1>1. PICK S : IsSearch(S, key', s, k) /\ UpperBound(s, k) = S[Len(s)][0]
  BY UpperBoundSearches
<1>2. Placed(S, key', s, k, 0, Len(s)) BY <1>1, SearchPlaces
<1> QED BY <1>1, <1>2 DEF Placed, Divides

-----------------------------------------------------------------------------
(* The list, with each entry in it once. *)

\* A place is found in front of each entry, or at the end.
LEMMA Inserted ==
  ASSUME NEW s \in Seq(Contact), NEW c \in Contact, NEW i \in 1 .. Len(s) + 1, NEW t,
         t = InsertAt(s, i, c)
  PROVE  /\ t \in Seq(Contact) /\ Len(t) = Len(s) + 1
         /\ \A j \in 1 .. Len(s) + 1 :
              t[j] = IF j < i THEN s[j] ELSE IF j = i THEN c ELSE s[j - 1]
<1> DEFINE a == SubSeq(s, 1, i - 1)
           b == SubSeq(s, i, Len(s))
           m == <<c>>
<1>1. /\ a \in Seq(Contact) /\ Len(a) = i - 1
      /\ \A j \in 1 .. i - 1 : a[j] = s[j]
  OBVIOUS
<1>2. /\ b \in Seq(Contact) /\ Len(b) = Len(s) - i + 1
      /\ \A j \in 1 .. Len(s) - i + 1 : b[j] = s[i + j - 1]
  OBVIOUS
<1>3. m \in Seq(Contact) /\ Len(m) = 1 /\ m[1] = c OBVIOUS
<1>4. t = a \o m \o b BY DEF InsertAt
<1> HIDE DEF a, b, m
<1>5. PICK d : d = a \o m OBVIOUS
<1>0. Len(s) \in Nat /\ i \in Nat OBVIOUS
<1>6. /\ d \in Seq(Contact) /\ Len(d) = i
      /\ \A j \in 1 .. i : d[j] = IF j < i THEN s[j] ELSE c
  <2>1. d \in Seq(Contact) BY <1>1, <1>3, <1>5
  <2>2. /\ Len(d) = Len(a) + Len(m)
        /\ \A j \in 1 .. Len(a) + Len(m) :
             d[j] = IF j <= Len(a) THEN a[j] ELSE m[j - Len(a)]
    BY <1>1, <1>3, <1>5, ConcatProperties
  <2>3. Len(d) = i BY <1>0, <1>1, <1>3, <2>2
  <2>4. ASSUME NEW j \in 1 .. i PROVE d[j] = IF j < i THEN s[j] ELSE c
    <3>1. d[j] = IF j <= Len(a) THEN a[j] ELSE m[j - Len(a)]
      BY <2>2, <2>3
    <3> QED BY <1>0, <1>1, <1>3, <3>1
  <2> QED BY <2>1, <2>3, <2>4
<1>7. t = d \o b BY <1>4, <1>5
<1>8. t \in Seq(Contact) /\ Len(t) = Len(s) + 1
  <2>1. t \in Seq(Contact) BY <1>2, <1>6, <1>7
  <2>2. Len(t) = Len(d) + Len(b) BY <1>2, <1>6, <1>7, ConcatProperties
  <2> QED BY <1>0, <1>2, <1>6, <2>1, <2>2
<1>9. ASSUME NEW j \in 1 .. Len(s) + 1
      PROVE  t[j] = IF j < i THEN s[j] ELSE IF j = i THEN c ELSE s[j - 1]
  <2>1. t[j] = IF j <= i THEN d[j] ELSE b[j - i] BY <1>2, <1>6, <1>7
  <2>2. CASE j <= i BY <1>6, <2>1, <2>2
  <2>3. CASE j > i
    <3>1. j - i \in 1 .. Len(s) - i + 1 /\ i + (j - i) - 1 = j - 1 BY <2>3
    <3> QED BY <1>2, <2>1, <2>3, <3>1
  <2> QED BY <2>2, <2>3
<1> QED BY <1>8, <1>9

LEMMA Removed ==
  ASSUME NEW s \in Seq(Contact), NEW i \in 1 .. Len(s), NEW t, t = RemoveAt(s, i)
  PROVE  /\ t \in Seq(Contact) /\ Len(t) = Len(s) - 1
         /\ \A j \in 1 .. Len(s) - 1 : t[j] = IF j < i THEN s[j] ELSE s[j + 1]
<1> DEFINE a == SubSeq(s, 1, i - 1)
           b == SubSeq(s, i + 1, Len(s))
<1>1. /\ a \in Seq(Contact) /\ Len(a) = i - 1
      /\ \A j \in 1 .. i - 1 : a[j] = s[j]
  OBVIOUS
<1>2. /\ b \in Seq(Contact) /\ Len(b) = Len(s) - i
      /\ \A j \in 1 .. Len(s) - i : b[j] = s[i + j]
  OBVIOUS
<1>3. t = a \o b BY DEF RemoveAt
<1> HIDE DEF a, b
<1>4. t \in Seq(Contact) /\ Len(t) = Len(s) - 1
  <2>1. t \in Seq(Contact) BY <1>1, <1>2, <1>3
  <2>2. Len(t) = Len(a) + Len(b) BY <1>1, <1>2, <1>3, ConcatProperties
  <2>3. Len(s) \in Nat /\ i \in Nat OBVIOUS
  <2> QED BY <1>1, <1>2, <2>1, <2>2, <2>3
<1>5. ASSUME NEW j \in 1 .. Len(s) - 1 PROVE t[j] = IF j < i THEN s[j] ELSE s[j + 1]
  <2>1. t[j] = IF j < i THEN a[j] ELSE b[j - (i - 1)] BY <1>1, <1>2, <1>3
  <2>2. CASE j < i BY <1>1, <2>1, <2>2
  <2>3. CASE j >= i
    <3>1. j - (i - 1) \in 1 .. Len(s) - i /\ i + (j - (i - 1)) = j + 1 BY <2>3
    <3> QED BY <1>2, <2>1, <2>3, <3>1
  <2> QED BY <2>2, <2>3
<1> QED BY <1>4, <1>5

\* The list s holds each of the entries in I once, and nothing else.
Holds(s, I) ==
  /\ s \in Seq(Contact)
  /\ \A i \in 1 .. Len(s) : s[i] \in I
  /\ \A c \in I : \E i \in 1 .. Len(s) : s[i] = c
  /\ \A i, j \in 1 .. Len(s) : s[i] = s[j] => i = j

LEMMA InsertedHolds ==
  ASSUME NEW s, NEW I, NEW c \in Contact, NEW i, NEW t,
         Holds(s, I), c \notin I, i \in 1 .. Len(s) + 1, t = InsertAt(s, i, c)
  PROVE  Holds(t, I \union {c})
<1>1. /\ t \in Seq(Contact) /\ Len(t) = Len(s) + 1
      /\ \A j \in 1 .. Len(s) + 1 :
           t[j] = IF j < i THEN s[j] ELSE IF j = i THEN c ELSE s[j - 1]
  BY Inserted DEF Holds
<1>2. Len(s) \in Nat BY DEF Holds
<1>3. \A j \in 1 .. Len(t) : t[j] \in I \union {c} BY <1>1, <1>2 DEF Holds
<1>4. ASSUME NEW d \in I \union {c} PROVE \E j \in 1 .. Len(t) : t[j] = d
  <2>1. CASE d = c BY <1>1, <1>2, <2>1
  <2>2. CASE d \in I
    <3>1. PICK j \in 1 .. Len(s) : s[j] = d BY <2>2 DEF Holds
    <3>2. CASE j < i
      <4>1. j \in 1 .. Len(t) /\ t[j] = d BY <1>1, <1>2, <3>1, <3>2
      <4> QED BY <4>1
    <3>3. CASE j >= i
      <4>1. j + 1 \in 1 .. Len(t) /\ t[j + 1] = d BY <1>1, <1>2, <3>1, <3>3
      <4> QED BY <4>1
    <3> QED BY <1>2, <3>2, <3>3
  <2> QED BY <2>1, <2>2
<1>5. ASSUME NEW j \in 1 .. Len(t), NEW l \in 1 .. Len(t), t[j] = t[l] PROVE j = l
  <2>1. \A p, q \in 1 .. Len(s) : s[p] = s[q] => p = q BY DEF Holds
  <2>2. \A p \in 1 .. Len(s) : s[p] # c BY DEF Holds
  <2>3. CASE j < i \/ l < i
    <3>1. CASE j < i /\ l < i BY <1>1, <1>2, <1>5, <2>1, <3>1
    <3>2. CASE j < i /\ l >= i BY <1>1, <1>2, <1>5, <2>1, <2>2, <3>2
    <3>3. CASE j >= i /\ l < i BY <1>1, <1>2, <1>5, <2>1, <2>2, <3>3
    <3> QED BY <1>1, <1>2, <2>3, <3>1, <3>2, <3>3
  <2>4. CASE j >= i /\ l >= i
    <3>1. CASE j = i BY <1>1, <1>2, <1>5, <2>2, <2>4, <3>1
    <3>2. CASE l = i BY <1>1, <1>2, <1>5, <2>2, <2>4, <3>2
    <3>3. CASE j > i /\ l > i
      <4>1. j - 1 \in 1 .. Len(s) /\ l - 1 \in 1 .. Len(s) BY <1>1, <1>2, <3>3
      <4>2. t[j] = s[j - 1] /\ t[l] = s[l - 1] BY <1>1, <1>2, <3>3
      <4>3. j - 1 = l - 1 BY <1>5, <2>1, <4>1, <4>2
      <4> QED BY <1>1, <1>2, <4>3
    <3> QED BY <1>1, <1>2, <2>4, <3>1, <3>2, <3>3
  <2> QED BY <1>1, <1>2, <2>3, <2>4
<1> QED BY <1>1, <1>3, <1>4, <1>5 DEF Holds

LEMMA RemovedHolds ==
  ASSUME NEW s, NEW I, NEW i, NEW t, Holds(s, I), i \in 1 .. Len(s), t = RemoveAt(s, i)
  PROVE  Holds(t, I \ {s[i]}) /\ Len(t) = Len(s) - 1
<1>1. /\ t \in Seq(Contact) /\ Len(t) = Len(s) - 1
      /\ \A j \in 1 .. Len(s) - 1 : t[j] = IF j < i THEN s[j] ELSE s[j + 1]
  <2>1. s \in Seq(Contact) BY DEF Holds
  <2> QED BY <2>1, Removed
<1>2. Len(s) \in Nat BY DEF Holds
<1>3. \A j \in 1 .. Len(t) : t[j] \in I \ {s[i]} BY <1>1, <1>2 DEF Holds
<1>4. ASSUME NEW d \in I \ {s[i]} PROVE \E j \in 1 .. Len(t) : t[j] = d
  <2>1. PICK j \in 1 .. Len(s) : s[j] = d BY DEF Holds
  <2>2. CASE j < i
    <3>1. j \in 1 .. Len(t) /\ t[j] = d BY <1>1, <1>2, <2>1, <2>2
    <3> QED BY <3>1
  <2>3. CASE j > i
    <3>1. j - 1 \in 1 .. Len(t) /\ t[j - 1] = d BY <1>1, <1>2, <2>1, <2>3
    <3> QED BY <3>1
  <2> QED BY <1>2, <2>1, <2>2, <2>3
<1>5. ASSUME NEW j \in 1 .. Len(t), NEW l \in 1 .. Len(t), t[j] = t[l] PROVE j = l
  <2>1. \A p, q \in 1 .. Len(s) : s[p] = s[q] => p = q BY DEF Holds
  <2>2. CASE j < i /\ l < i BY <1>1, <1>2, <1>5, <2>1, <2>2
  <2>3. CASE j < i /\ l >= i
    <3>1. l + 1 \in 1 .. Len(s) /\ t[l] = s[l + 1] /\ t[j] = s[j] BY <1>1, <1>2, <2>3
    <3>a. s[j] = s[l + 1] BY <1>5, <3>1
    <3>b. j \in 1 .. Len(s) BY <1>1, <1>2
    <3>2. j = l + 1 BY <2>1, <3>1, <3>a, <3>b
    <3> QED BY <1>1, <1>2, <2>3, <3>2
  <2>4. CASE j >= i /\ l < i
    <3>1. j + 1 \in 1 .. Len(s) /\ t[j] = s[j + 1] /\ t[l] = s[l] BY <1>1, <1>2, <2>4
    <3>a. s[j + 1] = s[l] BY <1>5, <3>1
    <3>b. l \in 1 .. Len(s) BY <1>1, <1>2
    <3>2. j + 1 = l BY <2>1, <3>1, <3>a, <3>b
    <3> QED BY <1>1, <1>2, <2>4, <3>2
  <2>5. CASE j >= i /\ l >= i
    <3>1. j + 1 \in 1 .. Len(s) /\ l + 1 \in 1 .. Len(s) BY <1>1, <1>2, <2>5
    <3>2. t[j] = s[j + 1] /\ t[l] = s[l + 1] BY <1>1, <1>2, <2>5
    <3>3. j + 1 = l + 1 BY <1>5, <2>1, <3>1, <3>2
    <3> QED BY <1>1, <1>2, <3>3
  <2> QED BY <1>1, <1>2, <2>2, <2>3, <2>4, <2>5
<1> QED BY <1>1, <1>3, <1>4, <1>5 DEF Holds

\* The place of an entry.
LEMMA PlaceOf ==
  ASSUME NEW s, NEW I, NEW c \in I, NEW i, Holds(s, I), i = SelectInSeq(s, LAMBDA e : e = c)
  PROVE  i \in 1 .. Len(s) /\ s[i] = c
<1> DEFINE P == {j \in 1 .. Len(s) : s[j] = c}
<1>1. P # {} BY DEF Holds
<1>2. i = Min(P) BY <1>1 DEF SelectInSeq
<1>3. PICK m \in P : \A j \in P : m <= j
  <2>1. P \in SUBSET Nat BY DEF Holds
  <2> HIDE DEF P
  <2> QED BY <1>1, <2>1, LeastOf
<1>4. i \in P BY <1>2, <1>3 DEF Min
<1> QED BY <1>4

\* A list of each entry is as long as there are entries.
LEMMA HoldsCardinality ==
  ASSUME NEW s, NEW I, Holds(s, I)
  PROVE  ToSet(s) = I /\ Len(s) = Cardinality(I)
<1>1. ToSet(s) = I BY DEF Holds, ToSet
<1>2. Len(s) \in Nat /\ s \in [1 .. Len(s) -> I] BY DEF Holds
<1>3. s \in Bijection(1 .. Len(s), I)
  BY <1>2 DEF Holds, Bijection, Injection, Surjection, IsInjective
<1>4. IsFiniteSet(1 .. Len(s)) /\ Cardinality(1 .. Len(s)) = Len(s) BY <1>2, FS_Interval
<1>5. ExistsBijection(1 .. Len(s), I) BY <1>3 DEF ExistsBijection
<1>6. Cardinality(I) = Cardinality(1 .. Len(s)) BY <1>4, <1>5, FS_Bijection
<1> QED BY <1>1, <1>4, <1>6

\* How often a number is in a list of numbers.
LEMMA OccurrencesCount ==
  ASSUME NEW S, NEW ps \in Seq(S), NEW n
  PROVE  Occurrences(ps, n) \in Nat
<1>1. Len(ps) \in Nat /\ DOMAIN ps = 1 .. Len(ps) BY LenProperties
<1>2. IsFiniteSet(DOMAIN ps) BY <1>1, FS_Interval
<1>3. IsFiniteSet({i \in DOMAIN ps : ps[i] = n}) BY <1>2, FS_Subset
<1> QED BY <1>3, FS_CardinalityType DEF Occurrences

LEMMA NoOccurrences ==
  ASSUME NEW n
  PROVE  Occurrences(<< >>, n) = 0
<1>1. {i \in DOMAIN << >> : << >>[i] = n} = {} OBVIOUS
<1> QED BY <1>1, FS_EmptySet DEF Occurrences

-----------------------------------------------------------------------------
(* The structures agree. *)

Typed ==
  /\ ids \subseteq Contact
  /\ index \in [Number -> [Contact -> Nat]]
  /\ key \in [Contact -> Nat]
  /\ phones \in [Contact -> Seq(Number \union {Blank})]

MapInv == Typed /\ Holds(list, ids) /\ NoDangling /\ IndexedByPhone

\* The entry of c leaves the index and is filed under ps; the other entries stay.
LEMMA ReindexedIndex ==
  ASSUME Typed, NEW c \in Contact, NEW ps \in Seq(Number \union {Blank}), index' = Reindexed(c, ps)
  PROVE  /\ index' \in [Number -> [Contact -> Nat]]
         /\ \A n \in Number, d \in Contact :
              index'[n][d] = IF d = c THEN Occurrences(ps, n) ELSE index[n][d]
<1>1. \A n : Occurrences(ps, n) \in Nat BY OccurrencesCount
<1>2. index' = [n \in Number |-> [index[n] EXCEPT ![c] = Occurrences(ps, n)]] BY DEF Reindexed
<1>3. \A n \in Number : index[n] \in [Contact -> Nat] BY DEF Typed
<1> QED BY <1>1, <1>2, <1>3

LEMMA ListInserted ==
  ASSUME Holds(list, ids), NEW c \in Contact, c \notin ids, list' = Filed(list, c)
  PROVE  Holds(list', ids \union {c})
<1>1. PICK u : u = UpperBound(list, key'[c]) OBVIOUS
<1>2. Len(list) \in Nat BY DEF Holds
<1>3. u \in 0 .. Len(list) BY <1>1, <1>2, UpperBoundPlaces
<1>4. PICK i : i = u + 1 OBVIOUS
<1>5. i \in 1 .. Len(list) + 1 BY <1>2, <1>3, <1>4
<1>6. PICK t : t = InsertAt(list, i, c) OBVIOUS
<1>7. list' = t BY <1>1, <1>4, <1>6 DEF Filed
<1>8. Holds(t, ids \union {c}) BY <1>5, <1>6, InsertedHolds
<1> QED BY <1>7, <1>8

LEMMA ListTaken ==
  ASSUME Holds(list, ids), NEW c \in ids, list' = RemoveFirst(list, c)
  PROVE  Holds(list', ids \ {c})
<1>1. PICK i : i = SelectInSeq(list, LAMBDA e : e = c) OBVIOUS
<1>2. i \in 1 .. Len(list) /\ list[i] = c BY <1>1, PlaceOf
<1>3. PICK t : t = RemoveAt(list, i) OBVIOUS
<1>4. list' = t
  <2>1. \E j \in 1 .. Len(list) : list[j] = c BY <1>2
  <2> QED BY <1>1, <1>3, <2>1 DEF RemoveFirst
<1>5. Holds(t, ids \ {list[i]}) BY <1>2, <1>3, RemovedHolds
<1> QED BY <1>2, <1>4, <1>5

\* The entry leaves its place, and goes to one of the places that are left.
LEMMA ListMoved ==
  ASSUME Holds(list, ids), NEW c \in ids, ids \subseteq Contact, list' = Repositioned(list, c)
  PROVE  \E old, new \in 1 .. Len(list) : \E r :
           /\ list[old] = c
           /\ r = RemoveAt(list, old) /\ Holds(r, ids \ {c}) /\ Len(r) = Len(list) - 1
           /\ list' = InsertAt(r, new, c)
           /\ UpperBound(list, key'[c]) < Len(list) => new = UpperBound(list, key'[c]) + 1
<1>1. PICK old : old = SelectInSeq(list, LAMBDA e : e = c) OBVIOUS
<1>2. old \in 1 .. Len(list) /\ list[old] = c BY <1>1, PlaceOf
<1>3. PICK u : u = UpperBound(list, key'[c]) OBVIOUS
<1>4. Len(list) \in Nat BY DEF Holds
<1>5. u \in 0 .. Len(list) BY <1>3, <1>4, UpperBoundPlaces
<1>6. PICK new : new = IF u + 1 <= Len(list) THEN u + 1 ELSE Len(list) OBVIOUS
<1>7. new \in 1 .. Len(list) /\ (u < Len(list) => new = u + 1) BY <1>2, <1>4, <1>5, <1>6
<1>8. PICK r : r = RemoveAt(list, old) OBVIOUS
<1>9. Holds(r, ids \ {list[old]}) /\ Len(r) = Len(list) - 1 BY <1>2, <1>8, RemovedHolds
<1>10. list' = InsertAt(r, new, c)
  <2>1. list' = IF u + 1 <= Len(list) THEN Moved(list, old, u + 1)
                                      ELSE Moved(list, old, Len(list))
    BY <1>1, <1>3 DEF Repositioned
  <2>2. list' = Moved(list, old, new) BY <1>6, <2>1
  <2> QED BY <1>2, <1>8, <2>2 DEF Moved
<1> QED BY <1>2, <1>3, <1>7, <1>8, <1>9, <1>10

LEMMA InitMapInv == Init => MapInv
<1> SUFFICES ASSUME Init PROVE MapInv OBVIOUS
<1>1. Typed
  <2>1. << >> \in Seq(Number \union {Blank}) OBVIOUS
  <2> QED BY <2>1 DEF Init, Typed
<1>2. Holds(list, ids) BY DEF Init, Holds
<1>3. NoDangling BY DEF Init, NoDangling
<1>4. IndexedByPhone BY DEF Init, IndexedByPhone
<1> QED BY <1>1, <1>2, <1>3, <1>4 DEF MapInv

LEMMA InsertInv ==
  ASSUME MapInv, NEW c \in Contact, NEW k \in Key, NEW ps \in Phones, Insert(c, k, ps)
  PROVE  MapInv'
<1>1. ps \in Seq(Number \union {Blank}) /\ k \in Nat BY KeyAssumption, PhonesAssumption
<1>2. /\ index' \in [Number -> [Contact -> Nat]]
      /\ \A n \in Number, d \in Contact :
           index'[n][d] = IF d = c THEN Occurrences(ps, n) ELSE index[n][d]
  BY <1>1, ReindexedIndex DEF MapInv, Insert
<1>3. ids' = ids \union {c} BY DEF Insert
<1>4. phones' = [phones EXCEPT ![c] = ps] /\ drifted' = drifted BY DEF Insert
<1>5. Typed' BY <1>1, <1>2, <1>3, <1>4 DEF MapInv, Insert, Typed
<1>6. Holds(list', ids') BY <1>3, ListInserted DEF MapInv, Insert
<1>7. NoDangling' BY <1>2, <1>3 DEF MapInv, NoDangling
<1>8. IndexedByPhone'
  <2> SUFFICES ASSUME NEW d \in ids' \ drifted', NEW n \in Number
               PROVE  index'[n][d] = Occurrences(phones'[d], n)
    BY DEF IndexedByPhone, Occurrences
  <2>1. d \in Contact BY <1>5 DEF Typed
  <2>2. CASE d = c BY <1>2, <1>4, <2>2 DEF MapInv, Typed
  <2>3. CASE d # c
    <3>1. index'[n][d] = index[n][d] /\ phones'[d] = phones[d]
      BY <1>2, <1>4, <2>1, <2>3 DEF MapInv, Typed
    <3> QED BY <1>3, <1>4, <2>3, <3>1 DEF MapInv, IndexedByPhone
  <2> QED BY <2>2, <2>3
<1> QED BY <1>5, <1>6, <1>7, <1>8 DEF MapInv

LEMMA TakeInv ==
  ASSUME MapInv, NEW c \in Contact, Take(c)
  PROVE  MapInv'
<1>1. << >> \in Seq(Number \union {Blank}) OBVIOUS
<1>2. /\ index' \in [Number -> [Contact -> Nat]]
      /\ \A n \in Number, d \in Contact :
           index'[n][d] = IF d = c THEN Occurrences(<< >>, n) ELSE index[n][d]
  BY <1>1, ReindexedIndex DEF MapInv, Take
<1>3. ids' = ids \ {c} BY DEF Take
<1>4. phones' = [phones EXCEPT ![c] = << >>] /\ drifted' = drifted \ {c} BY DEF Take, Gone
<1>5. Typed' BY <1>1, <1>2, <1>3, <1>4 DEF MapInv, Take, Gone, Typed
<1>6. Holds(list', ids') BY <1>3, ListTaken DEF MapInv, Take
<1>7. NoDangling' BY <1>2, <1>3, NoOccurrences DEF MapInv, NoDangling
<1>8. IndexedByPhone'
  <2> SUFFICES ASSUME NEW d \in ids' \ drifted', NEW n \in Number
               PROVE  index'[n][d] = Occurrences(phones'[d], n)
    BY DEF IndexedByPhone, Occurrences
  <2>1. d \in Contact /\ d # c BY <1>3, <1>5 DEF Typed
  <2>2. index'[n][d] = index[n][d] /\ phones'[d] = phones[d]
    BY <1>2, <1>4, <2>1 DEF MapInv, Typed
  <2> QED BY <1>3, <1>4, <2>1, <2>2 DEF MapInv, IndexedByPhone
<1> QED BY <1>5, <1>6, <1>7, <1>8 DEF MapInv

LEMMA UpdatePositionInv ==
  ASSUME MapInv, NEW c \in Contact, NEW k \in Key, NEW ps \in Phones, UpdatePosition(c, k, ps)
  PROVE  MapInv'
<1>1. ps \in Seq(Number \union {Blank}) /\ k \in Nat BY KeyAssumption, PhonesAssumption
<1>2. /\ index' \in [Number -> [Contact -> Nat]]
      /\ \A n \in Number, d \in Contact :
           index'[n][d] = IF d = c THEN Occurrences(ps, n) ELSE index[n][d]
  BY <1>1, ReindexedIndex DEF MapInv, UpdatePosition
<1>3. ids' = ids /\ c \in ids BY DEF UpdatePosition
<1>4. phones' = [phones EXCEPT ![c] = ps] /\ drifted' = drifted \ {c} BY DEF UpdatePosition
<1>5. Typed' BY <1>1, <1>2, <1>3, <1>4 DEF MapInv, UpdatePosition, Typed
<1>6. Holds(list', ids')
  <2>0. PICK old, new \in 1 .. Len(list) :
          \E r : /\ Holds(r, ids \ {c}) /\ Len(r) = Len(list) - 1
                 /\ list' = InsertAt(r, new, c)
    BY <1>3, ListMoved DEF MapInv, UpdatePosition, Typed
  <2>1. PICK r :
          /\ Holds(r, ids \ {c}) /\ Len(r) = Len(list) - 1
          /\ list' = InsertAt(r, new, c)
    BY <2>0
  <2>2. Len(list) \in Nat BY DEF MapInv, Holds
  <2>3. new \in 1 .. Len(r) + 1 BY <2>1, <2>2
  <2>4. PICK t : t = InsertAt(r, new, c) OBVIOUS
  <2>5. Holds(t, (ids \ {c}) \union {c}) BY <2>1, <2>3, <2>4, InsertedHolds
  <2>6. (ids \ {c}) \union {c} = ids BY <1>3
  <2> QED BY <1>3, <2>1, <2>4, <2>5, <2>6
<1>7. NoDangling' BY <1>2, <1>3 DEF MapInv, NoDangling
<1>8. IndexedByPhone'
  <2> SUFFICES ASSUME NEW d \in ids' \ drifted', NEW n \in Number
               PROVE  index'[n][d] = Occurrences(phones'[d], n)
    BY DEF IndexedByPhone, Occurrences
  <2>1. d \in Contact BY <1>5 DEF Typed
  <2>2. CASE d = c BY <1>2, <1>4, <2>2 DEF MapInv, Typed
  <2>3. CASE d # c
    <3>1. index'[n][d] = index[n][d] /\ phones'[d] = phones[d]
      BY <1>2, <1>4, <2>1, <2>3 DEF MapInv, Typed
    <3> QED BY <1>3, <1>4, <2>3, <3>1 DEF MapInv, IndexedByPhone
  <2> QED BY <2>2, <2>3
<1> QED BY <1>5, <1>6, <1>7, <1>8 DEF MapInv

LEMMA ChangedElsewhereInv ==
  ASSUME MapInv, NEW c \in Contact, NEW k \in Key, NEW ps \in Phones, ChangedElsewhere(c, k, ps)
  PROVE  MapInv'
<1>1. ps \in Seq(Number \union {Blank}) /\ k \in Nat BY KeyAssumption, PhonesAssumption
<1>2. /\ ids' = ids /\ index' = index /\ list' = list /\ drifted' = drifted \union {c}
      /\ phones' = [phones EXCEPT ![c] = ps] /\ key' = [key EXCEPT ![c] = k]
  BY DEF ChangedElsewhere
<1>3. Typed' BY <1>1, <1>2 DEF MapInv, Typed
<1>4. Holds(list', ids') BY <1>2 DEF MapInv
<1>5. NoDangling' BY <1>2 DEF MapInv, NoDangling
<1>6. IndexedByPhone'
  <2> SUFFICES ASSUME NEW d \in ids' \ drifted', NEW n \in Number
               PROVE  index'[n][d] = Occurrences(phones'[d], n)
    BY DEF IndexedByPhone, Occurrences
  <2>1. d \in Contact /\ d # c BY <1>2, <1>3 DEF Typed
  <2>2. phones'[d] = phones[d] BY <1>2, <2>1 DEF MapInv, Typed
  <2> QED BY <1>2, <2>2 DEF MapInv, IndexedByPhone
<1> QED BY <1>3, <1>4, <1>5, <1>6 DEF MapInv

LEMMA StutterInv ==
  ASSUME MapInv, UNCHANGED vars
  PROVE  MapInv'
<1>1. Typed' /\ Holds(list', ids') /\ NoDangling' BY DEF MapInv, vars, Typed, NoDangling
<1>2. IndexedByPhone' BY DEF MapInv, vars, IndexedByPhone, Occurrences
<1> QED BY <1>1, <1>2 DEF MapInv

LEMMA NextMapInv == MapInv /\ [OwnStep \/ ForeignStep]_vars => MapInv'
<1> SUFFICES ASSUME MapInv, [OwnStep \/ ForeignStep]_vars PROVE MapInv' OBVIOUS
<1>1. CASE OwnStep BY <1>1, TakeInv, InsertInv, UpdatePositionInv DEF OwnStep
<1>2. CASE ForeignStep BY <1>2, ChangedElsewhereInv DEF ForeignStep
<1>3. CASE UNCHANGED vars BY <1>3, StutterInv
<1> QED BY <1>1, <1>2, <1>3

\* The invariant of the contacts map, with the two facts about the list.
THEOREM MapInvariance == Spec => []MapInv
BY InitMapInv, NextMapInv, PTL DEF Spec

\* ContactsMap::insert, take and updatePosition: the hash and the list hold the same entries,
\* each once, the phone index points to no entry that is gone, and an entry only the service
\* changed is filed under the numbers it has; for any contacts, keys and lists of numbers.
THEOREM MapAgreesHolds == Spec => []MapAgrees
<1>1. MapInv => MapAgrees BY HoldsCardinality DEF MapInv, MapAgrees, OneOfEach
<1> QED BY <1>1, MapInvariance, PTL

-----------------------------------------------------------------------------
(* The order. *)

\* An entry between the entries that come before it and those that come behind it.
Between(s, c, i, f) ==
  \A j \in 1 .. Len(s) : IF j < i THEN f[s[j]] <= f[c] ELSE f[c] <= f[s[j]]

LEMMA InsertedSorted ==
  ASSUME NEW s, NEW c, NEW i, NEW t, NEW f,
         s \in Seq(Contact), c \in Contact, i \in 1 .. Len(s) + 1, t = InsertAt(s, i, c),
         SortedBy(s, f), Between(s, c, i, f)
  PROVE  SortedBy(t, f)
<1>1. /\ t \in Seq(Contact) /\ Len(t) = Len(s) + 1
      /\ \A j \in 1 .. Len(s) + 1 :
           t[j] = IF j < i THEN s[j] ELSE IF j = i THEN c ELSE s[j - 1]
  BY Inserted
<1>2. Len(s) \in Nat /\ DOMAIN s = 1 .. Len(s) /\ DOMAIN t = 1 .. Len(t) BY <1>1
<1>3. \A p, q \in 1 .. Len(s) : p < q => f[s[p]] <= f[s[q]] BY <1>2 DEF SortedBy
<1>4. ASSUME NEW j \in 1 .. Len(t), NEW l \in 1 .. Len(t), j < l PROVE f[t[j]] <= f[t[l]]
  <2>1. CASE l < i BY <1>1, <1>2, <1>3, <1>4, <2>1
  <2>2. CASE l = i BY <1>1, <1>2, <1>4, <2>2 DEF Between
  <2>3. CASE l > i
    <3>1. l - 1 \in 1 .. Len(s) /\ t[l] = s[l - 1] BY <1>1, <1>2, <2>3
    <3>2. CASE j < i
      <4>1. j \in 1 .. Len(s) /\ t[j] = s[j] /\ j < l - 1 BY <1>1, <1>2, <2>3, <3>2
      <4> QED BY <1>3, <3>1, <4>1
    <3>3. CASE j = i
      <4>1. t[j] = c /\ ~(l - 1 < i) BY <1>1, <1>2, <2>3, <3>3
      <4> QED BY <3>1, <4>1 DEF Between
    <3>4. CASE j > i
      <4>1. j - 1 \in 1 .. Len(s) /\ t[j] = s[j - 1] /\ j - 1 < l - 1
        BY <1>1, <1>2, <1>4, <3>4
      <4> QED BY <1>3, <3>1, <4>1
    <3> QED BY <1>2, <3>2, <3>3, <3>4
  <2> QED BY <1>2, <2>1, <2>2, <2>3
<1> QED BY <1>2, <1>4 DEF SortedBy

\* The keys of the entries of a list of contacts are numbers.
LEMMA KeysOf ==
  ASSUME NEW s, NEW I, Holds(s, I), I \subseteq Contact, key' \in [Contact -> Nat]
  PROVE  \A i \in 1 .. Len(s) : s[i] \in Contact /\ key'[s[i]] \in Nat
<1>1. \A i \in 1 .. Len(s) : s[i] \in I BY DEF Holds
<1> QED BY <1>1

LEMMA InsertSorts ==
  ASSUME MapInv, MapInv', SortedBy(list, key), NEW c \in Contact, NEW k \in Key, NEW ps \in Phones,
         Insert(c, k, ps)
  PROVE  SortedBy(list', key')
<1>1. c \notin ids /\ key' = [key EXCEPT ![c] = k] /\ list' = Filed(list, c) BY DEF Insert
<1>2. /\ list \in Seq(Contact) /\ Len(list) \in Nat /\ DOMAIN list = 1 .. Len(list)
      /\ \A i \in 1 .. Len(list) : list[i] \in ids
  BY DEF MapInv, Holds
<1>3. /\ key \in [Contact -> Nat] /\ key' \in [Contact -> Nat] /\ ids \subseteq Contact
  BY DEF MapInv, Typed
<1>4. \A i \in 1 .. Len(list) : key'[list[i]] = key[list[i]] /\ key'[list[i]] \in Nat
  BY <1>1, <1>2, <1>3
<1>5. \A i, j \in 1 .. Len(list) : i < j => key'[list[i]] <= key'[list[j]]
  BY <1>2, <1>4 DEF SortedBy
<1>6. PICK u, x : u = UpperBound(list, x) /\ x = key'[c] OBVIOUS
<1>7. x \in Nat BY <1>3, <1>6
<1>8. \A i, j \in 1 .. Len(list) : i < j /\ x <= key'[list[i]] => x <= key'[list[j]]
  BY <1>4, <1>5, <1>7
<1>9. /\ u \in 0 .. Len(list)
      /\ \A i \in 1 .. Len(list) : x <= key'[list[i]] <=> i > u
  BY <1>2, <1>6, <1>8, UpperBoundPlaces
<1>10. PICK i : i = u + 1 OBVIOUS
<1>11. i \in 1 .. Len(list) + 1 BY <1>2, <1>9, <1>10
<1>12. \A j \in 1 .. Len(list) : IF j < i THEN key'[list[j]] <= key'[c]
                                         ELSE key'[c] <= key'[list[j]]
  BY <1>2, <1>4, <1>6, <1>7, <1>9, <1>10
<1>13. PICK t, f : t = InsertAt(list, i, c) /\ f = key' OBVIOUS
<1>14. SortedBy(list, f) BY <1>2, <1>5, <1>13 DEF SortedBy
<1>15. Between(list, c, i, f) BY <1>12, <1>13 DEF Between
<1>17. SortedBy(t, f) BY <1>2, <1>11, <1>13, <1>14, <1>15, InsertedSorted
<1>16. list' = t BY <1>1, <1>6, <1>10, <1>13 DEF Filed
<1> QED BY <1>13, <1>16, <1>17

\* The search still sees the entry at its old place, with its new key; a key that became
\* smaller leaves those that go behind it the last ones.
LEMMA UpdatePositionSorts ==
  ASSUME MapInv, MapInv', SortedBy(list, key), NEW c \in Contact, NEW k \in Key, NEW ps \in Phones,
         UpdatePosition(c, k, ps), key'[c] < key[c]
  PROVE  SortedBy(list', key')
<1>1. c \in ids /\ key' = [key EXCEPT ![c] = k] /\ list' = Repositioned(list, c)
  BY DEF UpdatePosition
<1>2. /\ list \in Seq(Contact) /\ Len(list) \in Nat /\ DOMAIN list = 1 .. Len(list)
      /\ \A i \in 1 .. Len(list) : list[i] \in ids
      /\ \A i, j \in 1 .. Len(list) : list[i] = list[j] => i = j
  BY DEF MapInv, Holds
<1>3. /\ key \in [Contact -> Nat] /\ key' \in [Contact -> Nat] /\ ids \subseteq Contact
  BY DEF MapInv, Typed
<1>a. PICK old, new \in 1 .. Len(list) :
        \E r : /\ list[old] = c
               /\ r = RemoveAt(list, old) /\ Holds(r, ids \ {c}) /\ Len(r) = Len(list) - 1
               /\ list' = InsertAt(r, new, c)
               /\ UpperBound(list, key'[c]) < Len(list) => new = UpperBound(list, key'[c]) + 1
  BY <1>1, <1>3, ListMoved DEF MapInv
<1>4. PICK r :
        /\ list[old] = c
        /\ r = RemoveAt(list, old) /\ Holds(r, ids \ {c}) /\ Len(r) = Len(list) - 1
        /\ list' = InsertAt(r, new, c)
        /\ UpperBound(list, key'[c]) < Len(list) => new = UpperBound(list, key'[c]) + 1
  BY <1>a
<1>5. PICK u, x : u = UpperBound(list, x) /\ x = key'[c] OBVIOUS
<1>6. x \in Nat /\ key[c] \in Nat /\ x < key[c] BY <1>3, <1>5
<1>7. \A i \in 1 .. Len(list) : key[list[i]] \in Nat /\ key'[list[i]] \in Nat
  BY <1>2, <1>3
<1>8. \A i \in 1 .. Len(list) : i # old => key'[list[i]] = key[list[i]]
  BY <1>1, <1>2, <1>3, <1>4
<1>9. \A i, j \in 1 .. Len(list) : i < j => key[list[i]] <= key[list[j]]
  BY <1>2 DEF SortedBy
<1>10. ASSUME NEW i \in 1 .. Len(list), NEW j \in 1 .. Len(list), i < j, x <= key'[list[i]]
       PROVE  x <= key'[list[j]]
  <2>1. CASE j = old BY <1>4, <1>5, <1>6, <2>1
  <2>2. CASE j # old
    <3>1. key'[list[j]] = key[list[j]] /\ key[list[i]] <= key[list[j]]
      BY <1>8, <1>9, <1>10, <2>2
    <3>2. CASE i = old BY <1>4, <1>6, <1>7, <3>1, <3>2
    <3>3. CASE i # old BY <1>6, <1>7, <1>8, <1>10, <3>1, <3>3
    <3> QED BY <3>2, <3>3
  <2> QED BY <2>1, <2>2
<1>11. /\ u \in 0 .. Len(list)
       /\ \A i \in 1 .. Len(list) : x <= key'[list[i]] <=> i > u
  BY <1>2, <1>5, <1>10, UpperBoundPlaces
<1>12. new = u + 1 /\ new <= old
  <2>1. old > u BY <1>4, <1>5, <1>6, <1>11
  <2>2. u < Len(list) BY <1>2, <1>11, <2>1
  <2>3. new = u + 1 BY <1>4, <1>5, <2>2
  <2> QED BY <1>2, <1>11, <2>1, <2>3
<1>13. /\ r \in Seq(Contact) /\ DOMAIN r = 1 .. Len(r)
       /\ \A j \in 1 .. Len(r) : r[j] = IF j < old THEN list[j] ELSE list[j + 1]
  BY <1>2, <1>4, Removed
<1>14. PICK f : f = key' OBVIOUS
<1>15. ASSUME NEW i \in 1 .. Len(r), NEW j \in 1 .. Len(r), i < j PROVE f[r[i]] <= f[r[j]]
  <2>1. PICK a, b \in 1 .. Len(list) : /\ a < b /\ a # old /\ b # old
                                      /\ r[i] = list[a] /\ r[j] = list[b]
    <3>1. CASE j < old BY <1>2, <1>4, <1>13, <1>15, <3>1
    <3>2. CASE i < old /\ j >= old
      <4>1. j + 1 \in 1 .. Len(list) /\ i \in 1 .. Len(list) /\ i < j + 1 /\ j + 1 # old
        BY <1>2, <1>4, <3>2
      <4> QED BY <1>13, <3>2, <4>1
    <3>3. CASE i >= old
      <4>1. /\ i + 1 \in 1 .. Len(list) /\ j + 1 \in 1 .. Len(list)
            /\ i + 1 < j + 1 /\ i + 1 # old /\ j + 1 # old /\ j >= old
        BY <1>2, <1>4, <1>15, <3>3
      <4> QED BY <1>13, <3>3, <4>1
    <3> QED BY <1>2, <3>1, <3>2, <3>3
  <2> QED BY <1>8, <1>9, <1>14, <2>1
<1>16. SortedBy(r, f) BY <1>13, <1>15 DEF SortedBy
<1>17. ASSUME NEW j \in 1 .. Len(r)
       PROVE  IF j < new THEN f[r[j]] <= f[c] ELSE f[c] <= f[r[j]]
  <2>1. CASE j < new
    <3>1. j \in 1 .. Len(list) /\ r[j] = list[j] /\ ~(j > u)
      BY <1>2, <1>4, <1>11, <1>12, <1>13, <2>1
    <3> QED BY <1>5, <1>6, <1>7, <1>11, <1>14, <2>1, <3>1
  <2>2. CASE j >= new
    <3>1. PICK a \in 1 .. Len(list) : r[j] = list[a] /\ a > u
      <4>1. CASE j < old BY <1>2, <1>4, <1>11, <1>12, <1>13, <2>2, <4>1
      <4>2. CASE j >= old
        <5>1. j + 1 \in 1 .. Len(list) /\ j + 1 > u BY <1>2, <1>4, <1>11, <1>12, <2>2
        <5> QED BY <1>2, <1>13, <4>2, <5>1
      <4> QED BY <1>2, <4>1, <4>2
    <3>2. f[c] <= f[r[j]] BY <1>5, <1>11, <1>14, <3>1
    <3> QED BY <1>2, <1>12, <2>2, <3>2
  <2> QED BY <1>2, <2>1, <2>2
<1>18. new \in 1 .. Len(r) + 1 BY <1>2, <1>4
<1>19. PICK t : t = InsertAt(r, new, c) OBVIOUS
<1>20. Between(r, c, new, f) BY <1>17 DEF Between
<1>21. SortedBy(t, f) BY <1>13, <1>16, <1>18, <1>19, <1>20, InsertedSorted
<1> QED BY <1>4, <1>14, <1>19, <1>21

\* The step of KeepsOrder.
StaysSorted ==
  \A c \in Contact :
    /\ SortedBy(list, key)
    /\ list' # list
    /\ \/ c \notin ids /\ c \in ids'
       \/ c \in ids /\ ids' = ids /\ key'[c] < key[c]
    => SortedBy(list', key')

LEMMA StepSorts == MapInv /\ MapInv' /\ [OwnStep \/ ForeignStep]_vars => StaysSorted
<1> SUFFICES ASSUME MapInv, MapInv', [OwnStep \/ ForeignStep]_vars, NEW c \in Contact,
                    SortedBy(list, key), list' # list,
                    \/ c \notin ids /\ c \in ids'
                    \/ c \in ids /\ ids' = ids /\ key'[c] < key[c]
             PROVE  SortedBy(list', key')
  BY DEF StaysSorted
<1>1. CASE \E d \in Contact : Take(d) BY <1>1 DEF Take
<1>2. ASSUME NEW d \in Contact, NEW k \in Key, NEW ps \in Phones, Insert(d, k, ps)
      PROVE  SortedBy(list', key')
  BY <1>2, InsertSorts
<1>3. ASSUME NEW d \in Contact, NEW k \in Key, NEW ps \in Phones, UpdatePosition(d, k, ps)
      PROVE  SortedBy(list', key')
  <2>1. ids' = ids /\ key' = [key EXCEPT ![d] = k] BY <1>3 DEF UpdatePosition
  <2>2. key \in [Contact -> Nat] BY DEF MapInv, Typed
  <2>3. key'[c] < key[c] BY <2>1
  <2>4. c = d
    <3>1. ASSUME c # d PROVE FALSE
      <4>1. key'[c] = key[c] /\ key[c] \in Nat BY <2>1, <2>2, <3>1
      <4> QED BY <2>3, <4>1
    <3> QED BY <3>1
  <2> QED BY <1>3, <2>3, <2>4, UpdatePositionSorts
<1>4. CASE ForeignStep BY <1>4 DEF ForeignStep, ChangedElsewhere
<1>5. CASE UNCHANGED vars BY <1>5 DEF vars
<1> QED BY <1>1, <1>2, <1>3, <1>4, <1>5 DEF OwnStep

\* An insertion into a sorted list keeps it sorted, and so does updatePosition of a contact
\* whose key became smaller: the binary search of std::upper_bound ends at the one place, for
\* lists of any length.
THEOREM KeepsOrderHolds == Spec => KeepsOrder
<1>1. MapInv /\ MapInv' /\ [OwnStep \/ ForeignStep]_vars => [StaysSorted]_vars BY StepSorts
<1>2. KeepsOrder <=> [][StaysSorted]_vars BY DEF KeepsOrder, StaysSorted
<1>3. Spec => [][StaysSorted]_vars BY <1>1, MapInvariance, PTL DEF Spec
<1> QED BY <1>2, <1>3

-----------------------------------------------------------------------------
(***************************************************************************)
(* EdsSources, for any accounts and sources.                               *)
(*                                                                         *)
(* The table is what the removals go by, so the invariant says first what  *)
(* it lists, TableTrue; that every orphan is accounted for follows as a    *)
(* deletion is delivered.  To get there a registry that does not run must  *)
(* hold nothing of the run before, Quiet, and an account that is there     *)
(* must not be on the way out, Delivered.                                  *)
(***************************************************************************)

Quiet ==
  ~running => /\ deletions = {} /\ left = {} /\ relinked = {}
            /\ \A a \in Accounts, s \in Sources : table[a][s] = 0

Delivered == deletions \cap there = {}

EdsInv == EdsTypeOK /\ TableTrue /\ NoOrphans /\ Quiet /\ Delivered



-----------------------------------------------------------------------------
\* Registering touches neither the account of a source nor its mark.
LEMMA Configures ==
  ASSUME NEW r \in Source
  PROVE  /\ Configured(r) \in Source
         /\ Configured(r).account = r.account
         /\ Configured(r).autoremove = r.autoremove
<1>1. CASE ~Linked(r) BY <1>1 DEF Configured
<1>2. CASE Linked(r)
  <2> DEFINE b == r.account \in on
             c == [r EXCEPT !.enabled = b]
  <2>1. b \in BOOLEAN OBVIOUS
  <2>2. Configured(r) = c BY <1>2 DEF Configured
  <2> HIDE DEF b
  <2>3. c \in Source /\ c.account = r.account /\ c.autoremove = r.autoremove
    BY <2>1 DEF Source
  <2> QED BY <2>2, <2>3
<1> QED BY <1>1, <1>2

\* What RemoveCollection leaves of the registry, the table and the histories, when the
\* sources in gone are those EDS did remove.
Outcome(gone, trash, t) ==
  /\ \A s \in gone : registry[s].autoremove
  /\ \A s \in trash \ gone : registry[s].autoremove => s \in left'
  /\ DOMAIN registry' = Known \ gone
  /\ \A s \in Known \ gone :
       /\ registry'[s] \in Source
       /\ registry'[s].account = registry[s].account
       /\ registry'[s].autoremove = registry[s].autoremove
  /\ table' \in [Accounts -> [Sources -> Nat]]
  /\ \A a \in Accounts, s \in Sources :
       table'[a][s] = IF s \in gone /\ t[a][s] > 0 THEN t[a][s] - 1 ELSE t[a][s]
  /\ left \ gone \subseteq left' /\ left' \subseteq left \cup trash
  /\ relinked' = relinked \ gone
  /\ disabled' = disabled \ gone

LEMMA Removal ==
  ASSUME EdsTypeOK, NEW trash \in SUBSET Known, NEW kept,
         NEW t \in [Accounts -> [Sources -> Nat]],
         \A s \in Known : kept[s] \in Source /\ kept[s].account = registry[s].account
                          /\ kept[s].autoremove = registry[s].autoremove,
         RemoveCollection(trash, kept, t)
  PROVE  \E gone \in SUBSET trash : Outcome(gone, trash, t)
<1> DEFINE removable == {s \in trash : registry[s].autoremove}
<1>1. PICK failed \in SUBSET removable :
        LET gone == removable \ failed IN
        /\ registry' = [s \in Known \ gone |-> kept[s]]
        /\ table' = Unlisted(t, gone)
        /\ left' = (left \ gone) \cup failed
        /\ relinked' = relinked \ gone
        /\ disabled' = disabled \ gone
  BY DEF RemoveCollection
<1> DEFINE gone == removable \ failed
<1>2. gone \in SUBSET trash OBVIOUS
<1>3. table' \in [Accounts -> [Sources -> Nat]]
  <2>1. \A a \in Accounts, s \in Sources :
          (IF s \in gone /\ t[a][s] > 0 THEN t[a][s] - 1 ELSE t[a][s]) \in Nat
    OBVIOUS
  <2> QED BY <1>1, <2>1 DEF Unlisted
<1>4. \A a \in Accounts, s \in Sources :
        table'[a][s] = IF s \in gone /\ t[a][s] > 0 THEN t[a][s] - 1 ELSE t[a][s]
  BY <1>1 DEF Unlisted
<1>5. WITNESS gone \in SUBSET trash
<1> QED BY <1>1, <1>3, <1>4 DEF Outcome

-----------------------------------------------------------------------------
LEMMA InitEdsInv == EdsInit => EdsInv
<1> SUFFICES ASSUME EdsInit PROVE EdsInv OBVIOUS
<1> USE DEF EdsInit, NoTable
<1>1. EdsTypeOK
  <2>1. PICK S \in SUBSET Sources :
          registry \in [S -> {r \in Source : r.account = NoAccount => r.autoremove}]
    OBVIOUS
  <2> QED BY <2>1 DEF EdsTypeOK, Known
<1>2. TableTrue BY DEF TableTrue, Listed
<1> QED BY <1>1, <1>2 DEF EdsInv, NoOrphans, Quiet, Delivered

\* The registry starts: what it has not accepted is removed or is left behind.
LEMMA BusAcquiredStep ==
  ASSUME EdsInv, BusAcquired PROVE EdsInv'
<1> DEFINE trash == {s \in Known : ~Accepted(registry[s])}
<1>0. /\ EdsTypeOK /\ ~running /\ running' /\ deletions = {} /\ left = {} /\ relinked = {}
      /\ UNCHANGED <<there, on, deletions>>
  BY DEF EdsInv, Quiet, BusAcquired, accountVars
<1>1. Registered \in [Accounts -> [Sources -> Nat]] BY DEF Registered
<1>2. \A s \in Known : /\ AllConfigured[s] \in Source
                       /\ AllConfigured[s].account = registry[s].account
                       /\ AllConfigured[s].autoremove = registry[s].autoremove
  BY <1>0, Configures DEF EdsTypeOK, AllConfigured
<1>a. trash \in SUBSET Known /\ RemoveCollection(trash, AllConfigured, Registered)
  BY DEF BusAcquired
<1> HIDE DEF trash
<1>b. PICK gone \in SUBSET trash : Outcome(gone, trash, Registered)
  BY <1>0, <1>1, <1>2, <1>a, Removal
<1> USE DEF trash
<1>3. Outcome(gone, trash, Registered) BY <1>b
<1> USE DEF Outcome
<1>4. EdsTypeOK'
  BY <1>0, <1>3 DEF EdsTypeOK, Known
<1>5. \A a \in Accounts, s \in Sources :
        table'[a][s] = IF s \in Known \ gone /\ registry[s].account = a /\ a \in there
                       THEN 1 ELSE 0
  BY <1>0, <1>3 DEF Registered, Linked, Accepted, EdsTypeOK
<1>6. TableTrue'
  BY <1>0, <1>3, <1>5 DEF TableTrue, Listed, Known, EdsTypeOK
<1>7. NoOrphans'
  BY <1>0, <1>3 DEF NoOrphans, Known, Accepted
<1> QED BY <1>0, <1>4, <1>6, <1>7 DEF EdsInv, Quiet, Delivered

\* A deletion is delivered: by TableTrue the sources of the account are in its list.
LEMMA AccountDeletedStep ==
  ASSUME EdsInv, NEW a \in Accounts, AccountDeletedCb(a) PROVE EdsInv'
<1> DEFINE trash == Listed(a) \cap Known
           t == [table EXCEPT ![a] = [s \in Sources |-> 0]]
<1>0. /\ EdsTypeOK /\ TableTrue /\ NoOrphans /\ Delivered /\ running /\ a \in deletions
      /\ deletions' = deletions \ {a}
      /\ UNCHANGED <<running, there, on>>
  BY DEF EdsInv, AccountDeletedCb, accountVars
<1>1. t \in [Accounts -> [Sources -> Nat]] BY <1>0 DEF EdsTypeOK
<1>2. \A s \in Known : registry[s] \in Source BY <1>0 DEF EdsTypeOK
<1>a. trash \in SUBSET Known /\ RemoveCollection(trash, registry, t)
  BY DEF AccountDeletedCb
<1> HIDE DEF trash, t
<1>b. PICK gone \in SUBSET trash : Outcome(gone, trash, t)
  BY <1>0, <1>1, <1>2, <1>a, Removal
<1> USE DEF trash, t
<1>3. Outcome(gone, trash, t) BY <1>b
<1> USE DEF Outcome
<1>4. EdsTypeOK'
  BY <1>0, <1>3 DEF EdsTypeOK, Known
<1>5. \A b \in Accounts, s \in Sources : table'[b][s] = IF b = a THEN 0 ELSE table[b][s]
  <2> SUFFICES ASSUME NEW b \in Accounts, NEW s \in Sources
               PROVE  table'[b][s] = IF b = a THEN 0 ELSE table[b][s]
    OBVIOUS
  <2>1. t[b][s] = IF b = a THEN 0 ELSE table[b][s] BY <1>0 DEF EdsTypeOK
  <2>2. s \in gone /\ b # a => ~(table[b][s] > 0)
    BY <1>0, <1>3 DEF TableTrue, Listed
  <2> QED BY <1>3, <2>1, <2>2
<1>6. \A b \in Accounts : Listed(b)' = IF b = a THEN {} ELSE Listed(b)
  BY <1>5 DEF Listed
<1>7. \A b \in Accounts : b # a => Listed(b) \cap gone = {}
  BY <1>0, <1>3 DEF TableTrue, Listed
<1>8. TableTrue'
  <2>1. \A b, c \in Accounts, s \in Sources :
          table'[b][s] > 0 /\ table'[c][s] > 0 => b = c /\ table'[b][s] = 1
    BY <1>0, <1>5 DEF TableTrue
  <2>2. \A b \in Accounts : \A s \in Listed(b)' :
          s \in Known' /\ (registry'[s].account = b \/ s \in relinked')
    BY <1>0, <1>3, <1>6, <1>7 DEF TableTrue, Known
  <2>3. ASSUME NEW s \in Known' \ (left' \cup relinked'),
               registry'[s].account \in there' \cup deletions'
        PROVE  s \in Sources /\ table'[registry'[s].account][s] > 0
    <3>1. s \in Known \ (left \cup relinked) /\ s \notin gone
          /\ registry'[s].account = registry[s].account
      BY <1>0, <1>3, <2>3 DEF Known
    <3>2. registry[s].account \in there \cup deletions /\ registry[s].account # a
      BY <1>0, <2>3, <3>1 DEF Delivered
    <3>3. s \in Listed(registry[s].account) BY <1>0, <3>1, <3>2 DEF TableTrue
    <3> QED BY <1>0, <1>5, <3>1, <3>2, <3>3 DEF Listed, EdsTypeOK
  <2> QED BY <2>1, <2>2, <2>3 DEF TableTrue, Listed
<1>9. NoOrphans'
  BY <1>0, <1>3 DEF NoOrphans, TableTrue, Known, Accepted
<1> QED BY <1>0, <1>4, <1>8, <1>9 DEF EdsInv, Quiet, Delivered

\* A source is created: no list has its uid yet.
LEMMA AddSourceStep ==
  ASSUME EdsInv, NEW s \in Sources, NEW a \in Accounts \cup {NoAccount},
         NEW autoremove \in BOOLEAN, AddSource(s, a, autoremove)
  PROVE  EdsInv'
<1> DEFINE new == NewSource(a, autoremove)
<1>0. /\ EdsTypeOK /\ TableTrue /\ NoOrphans /\ Delivered /\ running /\ s \notin Known
      /\ UNCHANGED <<running, there, on, deletions, relinked, disabled>>
      /\ registry' = [x \in Known \cup {s} |-> IF x = s THEN Configured(new) ELSE registry[x]]
      /\ table' = IF Linked(new) THEN [table EXCEPT ![a][s] = @ + 1] ELSE table
      /\ left' = IF Accepted(new) THEN left ELSE left \cup {s}
  BY DEF EdsInv, AddSource, accountVars
<1>1. new \in Source /\ new.account = a
  <2>1. (autoremove \/ a = NoAccount) \in BOOLEAN OBVIOUS
  <2> QED BY <2>1 DEF NewSource, Source
<1>2. /\ DOMAIN registry' = Known \cup {s}
      /\ registry'[s] \in Source /\ registry'[s].account = a
      /\ \A x \in Known : registry'[x] = registry[x]
  BY <1>0, <1>1, Configures
<1> HIDE DEF new
<1>3. \A b \in Accounts, x \in Sources :
        table'[b][x] = IF x = s /\ b = a /\ a \in there THEN 1 ELSE table[b][x]
  <2>1. \A b \in Accounts : table[b][s] = 0
    BY <1>0 DEF TableTrue, Listed, EdsTypeOK
  <2> QED BY <1>0, <1>1, <2>1 DEF EdsTypeOK, Linked
<1>4. table' \in [Accounts -> [Sources -> Nat]]
  <2>1. CASE ~Linked(new) BY <1>0, <2>1 DEF EdsTypeOK
  <2>2. CASE Linked(new)
    <3>1. a \in Accounts BY <1>0, <1>1, <2>2 DEF Linked, EdsTypeOK
    <3>2. table[a][s] + 1 \in Nat BY <1>0, <3>1 DEF EdsTypeOK
    <3> QED BY <1>0, <2>2, <3>1, <3>2 DEF EdsTypeOK
  <2> QED BY <2>1, <2>2
<1>5. EdsTypeOK'
  BY <1>0, <1>2, <1>4 DEF EdsTypeOK, Known
<1>6. TableTrue'
  <2>1. \A b, c \in Accounts, x \in Sources :
          table'[b][x] > 0 /\ table'[c][x] > 0 => b = c /\ table'[b][x] = 1
    BY <1>0, <1>3 DEF TableTrue, Listed
  <2>2. \A b \in Accounts, x \in Sources : table'[b][x] > 0 =>
          x \in Known' /\ (registry'[x].account = b \/ x \in relinked')
    BY <1>0, <1>2, <1>3 DEF TableTrue, Listed, Known
  <2>3. ASSUME NEW x \in Known' \ (left' \cup relinked'),
               registry'[x].account \in there' \cup deletions'
        PROVE  x \in Sources /\ table'[registry'[x].account][x] > 0
    <3>1. CASE x = s
      BY <1>0, <1>1, <1>2, <1>3, <2>3, <3>1, EdsSourcesAssumption DEF Accepted, EdsTypeOK
    <3>2. CASE x # s
      <4>1. x \in Known \ (left \cup relinked) BY <1>0, <1>2, <2>3, <3>2 DEF Known
      <4> QED BY <1>0, <1>2, <1>3, <2>3, <3>2, <4>1 DEF TableTrue, Listed, EdsTypeOK
    <3> QED BY <3>1, <3>2
  <2> QED BY <2>1, <2>2, <2>3 DEF TableTrue, Listed
<1>7. NoOrphans'
  BY <1>0, <1>1, <1>2 DEF NoOrphans, Known, Accepted
<1> QED BY <1>0, <1>5, <1>6, <1>7 DEF EdsInv, Quiet, Delivered

\* A source is removed by somebody else: its uid leaves the table with it.
LEMMA SourceRemovedStep ==
  ASSUME EdsInv, NEW s \in Sources, SourceRemoved(s) PROVE EdsInv'
<1>0. /\ EdsTypeOK /\ TableTrue /\ NoOrphans /\ Delivered /\ running
      /\ UNCHANGED <<running, there, on, deletions>>
      /\ registry' = [x \in Known \ {s} |-> registry[x]]
      /\ table' = Unlisted(table, {s})
      /\ relinked' = relinked \ {s} /\ left' = left \ {s} /\ disabled' = disabled \ {s}
  BY DEF EdsInv, SourceRemoved, Forgotten, accountVars
<1>1. DOMAIN registry' = Known \ {s} /\ \A x \in Known \ {s} : registry'[x] = registry[x]
  BY <1>0
<1>2. \A b \in Accounts, x \in Sources : table'[b][x] = IF x = s THEN 0 ELSE table[b][x]
  BY <1>0 DEF Unlisted, TableTrue, EdsTypeOK
<1>3. table' \in [Accounts -> [Sources -> Nat]]
  <2>1. \A b \in Accounts, x \in Sources :
          (IF x \in {s} /\ table[b][x] > 0 THEN table[b][x] - 1 ELSE table[b][x]) \in Nat
    BY <1>0 DEF EdsTypeOK
  <2> QED BY <1>0, <2>1 DEF Unlisted
<1>4. EdsTypeOK'
  BY <1>0, <1>1, <1>3 DEF EdsTypeOK, Known
<1>5. TableTrue'
  <2>1. \A b, c \in Accounts, x \in Sources :
          table'[b][x] > 0 /\ table'[c][x] > 0 => b = c /\ table'[b][x] = 1
    <3>1. \A b, c \in Accounts, x \in Sources :
            table[b][x] > 0 /\ table[c][x] > 0 => b = c /\ table[b][x] = 1
      BY <1>0 DEF TableTrue
    <3> QED BY <1>2, <3>1
  <2>2. \A b \in Accounts, x \in Sources : table'[b][x] > 0 =>
          x \in Known' /\ (registry'[x].account = b \/ x \in relinked')
    <3> SUFFICES ASSUME NEW b \in Accounts, NEW x \in Sources, table'[b][x] > 0
                 PROVE  x \in Known' /\ (registry'[x].account = b \/ x \in relinked')
      OBVIOUS
    <3>1. x # s /\ table[b][x] > 0 BY <1>2
    <3>2. x \in Known /\ (registry[x].account = b \/ x \in relinked)
      BY <1>0, <3>1 DEF TableTrue, Listed
    <3> QED BY <1>0, <1>1, <3>1, <3>2 DEF Known
  <2>3. ASSUME NEW x \in Known' \ (left' \cup relinked'),
               registry'[x].account \in there' \cup deletions'
        PROVE  x \in Sources /\ table'[registry'[x].account][x] > 0
    <3>1. x \in Known \ (left \cup relinked) /\ x # s BY <1>0, <1>1 DEF Known
    <3>2. registry'[x].account = registry[x].account BY <1>1, <3>1
    <3>3. registry[x].account \in there \cup deletions BY <1>0, <2>3, <3>2
    <3>4. x \in Listed(registry[x].account) BY <1>0, <3>1, <3>3 DEF TableTrue
    <3>5. registry[x].account \in Accounts BY <1>0, <3>3 DEF EdsTypeOK
    <3> QED BY <1>2, <3>1, <3>2, <3>4, <3>5 DEF Listed
  <2> QED BY <2>1, <2>2, <2>3 DEF TableTrue, Listed
<1>6. NoOrphans'
  BY <1>0, <1>1 DEF NoOrphans, Known, Accepted
<1> QED BY <1>0, <1>4, <1>5, <1>6 DEF EdsInv, Quiet, Delivered

\* The service changes the account of a source, which is relinked from then on.
LEMMA UpdateSourcesStep ==
  ASSUME EdsInv, NEW s \in Sources, NEW a \in Accounts, UpdateSourcesEDS(s, a) PROVE EdsInv'
<1>0. /\ EdsTypeOK /\ TableTrue /\ NoOrphans /\ Delivered /\ running /\ s \in Known
      /\ UNCHANGED <<running, table, there, on, deletions, left, disabled>>
      /\ registry' = [registry EXCEPT ![s] = SetAccountId(@, a)]
      /\ relinked' = relinked \cup {s}
  BY DEF EdsInv, UpdateSourcesEDS, accountVars
<1>1. /\ DOMAIN registry' = Known /\ registry'[s] \in Source
      /\ \A x \in Known : x # s => registry'[x] = registry[x]
  BY <1>0 DEF SetAccountId, EdsTypeOK, Source, Known
<1>2. EdsTypeOK'
  BY <1>0, <1>1 DEF EdsTypeOK, Known
<1>3. TableTrue'
  BY <1>0, <1>1 DEF TableTrue, Listed, Known
<1>4. NoOrphans'
  BY <1>0, <1>1 DEF NoOrphans, Known, Accepted
<1> QED BY <1>0, <1>2, <1>3, <1>4 DEF EdsInv, Quiet, Delivered

\* A step that changes no more of a source than whether it is enabled.
LEMMA EnabledStep ==
  ASSUME EdsInv, there' = there, deletions' = deletions, EdsTypeOK',
         UNCHANGED <<running, table, relinked, left>>,
         DOMAIN registry' = Known,
         \A s \in Known : /\ registry'[s].account = registry[s].account
                          /\ registry'[s].autoremove = registry[s].autoremove
  PROVE  EdsInv'
<1>1. TableTrue'
  BY DEF EdsInv, TableTrue, Listed, Known
<1>2. NoOrphans'
  BY DEF EdsInv, NoOrphans, Known, Accepted
<1> QED BY <1>1, <1>2 DEF EdsInv, Quiet, Delivered

LEMMA RemoveSourceStep ==
  ASSUME EdsInv, NEW s \in Sources, RemoveSource(s) PROVE EdsInv'
<1>0. /\ EdsTypeOK /\ s \in Known
      /\ UNCHANGED <<running, table, there, on, deletions, relinked, left>>
      /\ registry' = [registry EXCEPT ![s].enabled = FALSE]
      /\ disabled' = disabled \cup {s}
  BY DEF EdsInv, RemoveSource, accountVars
<1>1. /\ DOMAIN registry' = Known
      /\ \A x \in Known : /\ registry'[x] \in Source
                          /\ registry'[x].account = registry[x].account
                          /\ registry'[x].autoremove = registry[x].autoremove
  BY <1>0 DEF EdsTypeOK, Source, Known
<1>2. EdsTypeOK'
  BY <1>0, <1>1 DEF EdsTypeOK, Known
<1> QED BY <1>0, <1>1, <1>2, EnabledStep

LEMMA AccountToggledStep ==
  ASSUME EdsInv, NEW a \in Accounts, AccountToggled(a) PROVE EdsInv'
<1>0. /\ EdsTypeOK /\ a \in there
      /\ UNCHANGED <<running, table, there, deletions, relinked, left, disabled>>
      /\ on' = IF a \in on THEN on \ {a} ELSE on \cup {a}
      /\ \/ registry' = registry
         \/ registry' = [s \in Known |-> IF s \in Listed(a)
                                         THEN [registry[s] EXCEPT !.enabled = a \in on']
                                         ELSE registry[s]]
  BY DEF EdsInv, AccountToggled, historyVars
<1>1. /\ DOMAIN registry' = Known
      /\ \A s \in Known : /\ registry'[s] \in Source
                          /\ registry'[s].account = registry[s].account
                          /\ registry'[s].autoremove = registry[s].autoremove
  <2> DEFINE b == a \in on'
  <2>1. b \in BOOLEAN OBVIOUS
  <2>2. \A s \in Known : registry'[s] = registry[s]
                         \/ registry'[s] = [registry[s] EXCEPT !.enabled = b]
    BY <1>0
  <2>3. DOMAIN registry' = Known BY <1>0 DEF Known
  <2> HIDE DEF b
  <2> QED BY <1>0, <2>1, <2>2, <2>3 DEF EdsTypeOK, Source
<1>2. EdsTypeOK'
  BY <1>0, <1>1 DEF EdsTypeOK, Known
<1> QED BY <1>0, <1>1, <1>2, EnabledStep

\* An account is deleted: while the registry runs, the deletion is on its way.
LEMMA AccountGoneStep ==
  ASSUME EdsInv, NEW a \in Accounts, AccountDeleted(a) PROVE EdsInv'
<1>0. /\ EdsTypeOK /\ TableTrue /\ NoOrphans /\ Quiet /\ Delivered /\ a \in there
      /\ UNCHANGED <<registry, running, table, relinked, left, disabled>>
      /\ there' = there \ {a} /\ on' = on \ {a}
      /\ deletions' = IF running THEN deletions \cup {a} ELSE deletions
  BY DEF EdsInv, AccountDeleted, historyVars
<1>1. EdsTypeOK'
  BY <1>0 DEF EdsTypeOK, Known
<1>2. TableTrue'
  BY <1>0 DEF TableTrue, Listed, Known
<1>3. NoOrphans'
  BY <1>0 DEF NoOrphans, Known, Accepted
<1> QED BY <1>0, <1>1, <1>2, <1>3 DEF EdsInv, Quiet, Delivered

LEMMA RegistryEndsStep ==
  ASSUME EdsInv, RegistryEnds PROVE EdsInv'
<1>0. /\ EdsTypeOK /\ running' = FALSE /\ table' = NoTable
      /\ UNCHANGED <<registry, there, on, disabled>>
      /\ deletions' = {} /\ relinked' = {} /\ left' = {}
  BY DEF EdsInv, RegistryEnds, accountVars
<1>1. EdsTypeOK'
  <2>1. NoTable \in [Accounts -> [Sources -> Nat]] BY DEF NoTable
  <2> QED BY <1>0, <2>1 DEF EdsTypeOK, Known
<1>2. TableTrue'
  BY <1>0 DEF TableTrue, Listed, NoTable
<1> QED BY <1>0, <1>1, <1>2 DEF EdsInv, NoOrphans, Quiet, Delivered, NoTable

-----------------------------------------------------------------------------
LEMMA StepEdsInv == EdsInv /\ [EdsNext]_edsVars => EdsInv'
<1> SUFFICES ASSUME EdsInv, [EdsNext]_edsVars PROVE EdsInv' OBVIOUS
<1>1. CASE BusAcquired BY <1>1, BusAcquiredStep
<1>2. CASE RegistryEnds BY <1>2, RegistryEndsStep
<1>3. CASE \E a \in Accounts : AccountDeletedCb(a) BY <1>3, AccountDeletedStep
<1>4. CASE \E a \in Accounts : AccountDeleted(a) BY <1>4, AccountGoneStep
<1>5. CASE \E a \in Accounts : AccountToggled(a) BY <1>5, AccountToggledStep
<1>6. CASE \E s \in Sources, a \in Accounts \cup {NoAccount}, autoremove \in BOOLEAN :
             AddSource(s, a, autoremove)
  BY <1>6, AddSourceStep
<1>7. CASE \E s \in Sources, a \in Accounts : UpdateSourcesEDS(s, a)
  BY <1>7, UpdateSourcesStep
<1>8. CASE \E s \in Sources : SourceRemoved(s) BY <1>8, SourceRemovedStep
<1>9. CASE \E s \in Sources : RemoveSource(s) BY <1>9, RemoveSourceStep
<1>10. CASE UNCHANGED edsVars
  BY <1>10 DEF edsVars, accountVars, historyVars, EdsInv, EdsTypeOK, TableTrue, NoOrphans, Quiet,
                Delivered, Known, Listed, Accepted
<1> QED BY <1>1, <1>2, <1>3, <1>4, <1>5, <1>6, <1>7, <1>8, <1>9, <1>10 DEF EdsNext

LEMMA EdsInvariance == EdsSpec => []EdsInv
BY InitEdsInv, StepEdsInv, PTL DEF EdsSpec

\* Every source that is to go with its account goes when the deletion is delivered, but
\* those created too late, relinked, or refused by EDS; and the table is right.
THEOREM OrphansGoTheorem == EdsSpec => []OrphansGo
<1>1. EdsInv => OrphansGo BY DEF EdsInv, OrphansGo
<1> QED BY <1>1, EdsInvariance, PTL

\* The module removes nothing else.
THEOREM OthersStayTheorem == EdsSpec => OthersStay
<1> DEFINE Allowed ==
      \A s \in Known \ DOMAIN registry' :
          \/ SourceRemoved(s)
          \/ registry[s].autoremove /\ (~Accepted(registry[s]) \/ s \in relinked)
<1>1. EdsInv /\ [EdsNext]_edsVars => [Allowed]_edsVars
  <2> SUFFICES ASSUME EdsInv, [EdsNext]_edsVars PROVE [Allowed]_edsVars OBVIOUS
  <2>0. EdsTypeOK BY DEF EdsInv
  <2>1. CASE BusAcquired
    BY <2>0, <2>1 DEF BusAcquired, RemoveCollection, Known
  <2>2. CASE \E a \in Accounts : AccountDeletedCb(a)
    <3>1. PICK a \in Accounts : AccountDeletedCb(a) BY <2>2
    <3>2. \A s \in Known \ DOMAIN registry' : s \in Listed(a) /\ registry[s].autoremove
      BY <3>1 DEF AccountDeletedCb, RemoveCollection, Known
    <3>3. \A s \in Listed(a) : registry[s].account = a \/ s \in relinked
      BY DEF EdsInv, TableTrue
    <3>4. a \notin there /\ a # NoAccount
      BY <3>1, EdsSourcesAssumption DEF AccountDeletedCb, EdsInv, Delivered
    <3> QED BY <3>2, <3>3, <3>4 DEF Accepted
  <2>3. CASE \E s \in Sources : SourceRemoved(s)
    BY <2>3 DEF SourceRemoved, Forgotten, Known
  <2>4. CASE Known \subseteq DOMAIN registry'
    BY <2>4
  <2>5. CASE \/ \E s \in Sources, a \in Accounts \cup {NoAccount}, m \in BOOLEAN :
                  AddSource(s, a, m)
             \/ \E s \in Sources, a \in Accounts : UpdateSourcesEDS(s, a)
             \/ \E s \in Sources : RemoveSource(s)
             \/ \E a \in Accounts : AccountDeleted(a) \/ AccountToggled(a)
             \/ RegistryEnds
    <3>1. Known \subseteq DOMAIN registry'
      BY <2>5 DEF AddSource, UpdateSourcesEDS, RemoveSource, AccountDeleted,
                  AccountToggled, RegistryEnds, Known
    <3> QED BY <3>1
  <2> QED BY <2>1, <2>2, <2>3, <2>5 DEF EdsNext
<1>2. OthersStay <=> [][Allowed]_edsVars BY DEF OthersStay
<1> QED BY <1>1, <1>2, EdsInvariance, PTL DEF EdsSpec

\* A source the service removed comes back with an account only.
THEOREM RemovedStaysOffTheorem == EdsSpec => RemovedStaysOff
<1> DEFINE Allowed ==
      \A s \in disabled \cap Known \cap DOMAIN registry' :
          ~registry[s].enabled /\ registry'[s].enabled =>
              \E a \in on' : a = registry[s].account \/ s \in Listed(a)
<1>1. EdsInv /\ [EdsNext]_edsVars => [Allowed]_edsVars
  <2> SUFFICES ASSUME EdsInv, [EdsNext]_edsVars,
                      NEW s \in disabled \cap Known \cap DOMAIN registry',
                      ~registry[s].enabled, registry'[s].enabled, ~(UNCHANGED edsVars)
               PROVE  \E a \in on' : a = registry[s].account \/ s \in Listed(a)
    OBVIOUS
  <2>0. registry[s] \in Source BY DEF EdsInv, EdsTypeOK
  <2>1. CASE BusAcquired
    <3>1. registry'[s] = Configured(registry[s]) /\ on' = on
      BY <2>1 DEF BusAcquired, RemoveCollection, AllConfigured, accountVars, Known
    <3>2. Linked(registry[s]) BY <3>1 DEF Configured
    <3>3. registry'[s].enabled = (registry[s].account \in on)
      BY <2>0, <3>1, <3>2 DEF Configured, Source
    <3> QED BY <3>1, <3>3
  <2>2. CASE \E a \in Accounts : AccountToggled(a)
    <3>1. PICK a \in Accounts : AccountToggled(a) BY <2>2
    <3>2. s \in Listed(a) /\ registry'[s] = [registry[s] EXCEPT !.enabled = a \in on']
      BY <3>1 DEF AccountToggled, Known
    <3>3. registry'[s].enabled = (a \in on') BY <2>0, <3>2 DEF Source
    <3> QED BY <3>2, <3>3
  <2>3. CASE \E a \in Accounts : AccountDeletedCb(a)
    BY <2>3 DEF AccountDeletedCb, RemoveCollection, Known
  <2>4. CASE \E x \in Sources, a \in Accounts \cup {NoAccount}, m \in BOOLEAN :
                 AddSource(x, a, m)
    BY <2>4 DEF AddSource, Known
  <2>5. CASE \E x \in Sources, a \in Accounts : UpdateSourcesEDS(x, a)
    BY <2>0, <2>5 DEF UpdateSourcesEDS, SetAccountId, Source, Known
  <2>6. CASE \E x \in Sources : SourceRemoved(x)
    BY <2>6 DEF SourceRemoved, Forgotten, Known
  <2>7. CASE \E x \in Sources : RemoveSource(x)
    BY <2>0, <2>7 DEF RemoveSource, Source, Known
  <2>8. CASE (\E a \in Accounts : AccountDeleted(a)) \/ RegistryEnds
    BY <2>8 DEF AccountDeleted, RegistryEnds
  <2> QED BY <2>1, <2>2, <2>3, <2>4, <2>5, <2>6, <2>7, <2>8 DEF EdsNext
<1>2. RemovedStaysOff <=> [][Allowed]_edsVars BY DEF RemovedStaysOff
<1> QED BY <1>1, <1>2, EdsInvariance, PTL DEF EdsSpec

-----------------------------------------------------------------------------
(***************************************************************************)
(* ServiceLifecycle, for any number of retries and deaths of EDS.          *)
(*                                                                         *)
(* A service that is ready has its map, its aggregator, one reference to   *)
(* it and one pair of handlers, however often EDS died and came back, as   *)
(* long as reloads did not overlap.                                        *)
(*                                                                         *)
(* The statement speaks of a ready service only.  What carries it is where *)
(* the one chain of a reload is (Phases): folks runs and no chain is under *)
(* way; its unpreparation was asked for; the aggregator was released and   *)
(* EDS is being unprepared or prepared; or the service has left the bus.   *)
(***************************************************************************)

\* Folks runs and no chain is under way.
Running ==
  /\ unpreparing = 0 /\ edsUnpreparing = 0 /\ edsPreparing = 0
  /\ map /\ pointer /\ connected
  /\ refs = 1 /\ handlers = 1

\* What a reload leaves until folks is prepared again.
TornDown == ~ready /\ ~map /\ ~connected /\ handlers = 0

\* The aggregator will be released.
Unpreparing ==
  /\ unpreparing = 1 /\ edsUnpreparing = 0 /\ edsPreparing = 0
  /\ TornDown
  /\ pointer /\ refs = 1
  /\ folks = "idle"

\* The aggregator was released; one of the two calls about EDS is under way.
WithoutFolks ==
  /\ unpreparing = 0
  /\ {edsUnpreparing, edsPreparing} = {0, 1}
  /\ TornDown
  /\ ~pointer /\ refs = 0
  /\ folks = "idle"

Stopped == ~adaptor /\ ~ready

Phases == Running \/ Unpreparing \/ WithoutFolks \/ Stopped

\* The type invariant in two parts: the flags and the numbers need different provers.
Flags ==
  /\ adaptor \in BOOLEAN /\ quitting \in BOOLEAN /\ ready \in BOOLEAN
  /\ edsLive \in BOOLEAN /\ map \in BOOLEAN /\ pointer \in BOOLEAN
  /\ connected \in BOOLEAN /\ clientReady \in BOOLEAN /\ overlapped \in BOOLEAN

Counters ==
  /\ retryCount \in Nat /\ reloads \in Nat /\ shutdowns \in Nat
  /\ folks \in {"idle", "preparing", "quiescent"}
  /\ refs \in Nat /\ handlers \in Nat
  /\ unpreparing \in Nat /\ edsUnpreparing \in Nat /\ edsPreparing \in Nat
  /\ deaths \in 0..MaxDeaths

\* An aggregator that is pointed to is referenced, also when reloads overlap.
LifecycleInv ==
  /\ Flags /\ Counters
  /\ pointer => refs > 0
  /\ ~overlapped => Phases

-----------------------------------------------------------------------------
\* The service starts with folks being prepared.
LEMMA InitLifecycleInv == LifecycleInit => LifecycleInv
<1>1. LifecycleInit => Flags BY DEF LifecycleInit, Flags
<1>2. LifecycleInit => Counters BY BoundsAssumption DEF LifecycleInit, Counters
<1>3. LifecycleInit => Running /\ refs > 0 BY DEF LifecycleInit, Running
<1> QED BY <1>1, <1>2, <1>3 DEF LifecycleInv, Phases

\* prepareFolks, with what is left of the references and handlers.
LEMMA PrepareFolksEffect ==
  ASSUME Flags, Counters, NEW rest \in Nat, NEW still \in Nat, PrepareFolks(rest, still)
  PROVE  /\ map' /\ pointer' /\ connected'
         /\ map' \in BOOLEAN /\ pointer' \in BOOLEAN /\ connected' \in BOOLEAN
         /\ ready' \in BOOLEAN /\ clientReady' \in BOOLEAN
         /\ refs' = rest + 1 /\ handlers' = still + 1
         /\ folks' \in {"idle", "preparing", "quiescent"}
         /\ retryCount' \in Nat /\ reloads' \in Nat /\ shutdowns' \in Nat
<1>1. /\ map' /\ pointer' /\ connected'
      /\ map' \in BOOLEAN /\ pointer' \in BOOLEAN /\ connected' \in BOOLEAN
  BY DEF PrepareFolks
<1>2. refs' = rest + 1 /\ handlers' = still + 1 BY DEF PrepareFolks
<1>3. ready' \in BOOLEAN BY DEF PrepareFolks, TurnReady, Flags
<1>4. clientReady' \in BOOLEAN BY DEF PrepareFolks, TurnReady, Flags
<1>5. folks' \in {"idle", "preparing", "quiescent"} BY DEF PrepareFolks, Counters
<1>6. CheckForEds => retryCount' \in Nat /\ reloads' \in Nat /\ shutdowns' \in Nat
  BY DEF CheckForEds, Counters, Flags
<1>7. CheckForEds \/ UNCHANGED <<retryCount, reloads, shutdowns>>
  BY DEF PrepareFolks, TurnReady, timerVars
<1>8. retryCount' \in Nat /\ reloads' \in Nat /\ shutdowns' \in Nat
  BY <1>6, <1>7 DEF Counters
<1> QED BY  <1>1, <1>2, <1>3, <1>4, <1>5, <1>8

\* unprepareFolks asks for the unpreparation of the aggregator that runs, and notes
\* whether a chain was under way.
LEMMA UnprepareFolksInv ==
  ASSUME LifecycleInv, adaptor, UnprepareFolks,
         edsLive' \in BOOLEAN, quitting' \in BOOLEAN, deaths' \in 0..MaxDeaths,
         retryCount' \in Nat, reloads' \in Nat, shutdowns' \in Nat
  PROVE  LifecycleInv'
<1>1. Flags' BY DEF LifecycleInv, UnprepareFolks, Flags
<1>2. Counters' BY DEF LifecycleInv, UnprepareFolks, Counters
<1>3. pointer' => refs' > 0
  BY DEF LifecycleInv, UnprepareFolks
<1>4. ASSUME ~overlapped' PROVE Unpreparing'
  <2>1. ~overlapped /\ ~Reloading BY <1>4 DEF UnprepareFolks
  <2>2. unpreparing = 0 /\ edsUnpreparing = 0 /\ edsPreparing = 0
    BY <2>1 DEF LifecycleInv, Counters, Reloading
  <2>3. Running
    BY <2>1, <2>2 DEF LifecycleInv, Phases, Unpreparing, WithoutFolks, Stopped
  <2>4. TornDown' /\ pointer' /\ folks' = "idle"
    <3>1. handlers' = 0 BY <2>3 DEF Running, UnprepareFolks
    <3> QED BY <2>3, <3>1 DEF Running, UnprepareFolks, TornDown
  <2>5. unpreparing' = 1 /\ edsUnpreparing' = 0 /\ edsPreparing' = 0 /\ refs' = 1
    BY <2>2, <2>3 DEF Running, UnprepareFolks
  <2> QED BY <2>4, <2>5 DEF Unpreparing
<1> QED BY <1>1, <1>2, <1>3, <1>4 DEF LifecycleInv, Phases

-----------------------------------------------------------------------------
\* Folks is quiescent, and tells the service if it is connected.
LEMMA QuiescentInv ==
  ASSUME LifecycleInv, Quiescent
  PROVE  LifecycleInv'
<1>1. ready' \in BOOLEAN /\ clientReady' \in BOOLEAN
  BY DEF LifecycleInv, Flags, Quiescent, TurnReady
<1>2. retryCount' \in Nat /\ reloads' \in Nat /\ shutdowns' \in Nat
  <2>1. CheckForEds => retryCount' \in Nat /\ reloads' \in Nat /\ shutdowns' \in Nat
    BY DEF LifecycleInv, CheckForEds, Counters, Flags
  <2>2. CheckForEds \/ UNCHANGED <<retryCount, reloads, shutdowns>>
    BY DEF Quiescent, TurnReady, timerVars
  <2> QED BY <2>1, <2>2 DEF LifecycleInv, Counters
<1>3. UNCHANGED <<adaptor, quitting, edsLive, map, pointer, connected, refs, handlers>>
      /\ UNCHANGED <<unpreparing, edsUnpreparing, edsPreparing, deaths, overlapped>>
      /\ folks' = "quiescent"
  BY DEF Quiescent, callVars
<1>4. ~overlapped => Running
  BY DEF LifecycleInv, Quiescent, Phases, Unpreparing, WithoutFolks, Stopped
<1>5. Flags' /\ Counters'
  <2>1. Flags' BY <1>1, <1>3 DEF LifecycleInv, Flags
  <2>2. Counters' BY <1>3, <1>2 DEF LifecycleInv, Counters
  <2> QED BY <2>1, <2>2
<1>6. ~overlapped' => Running'
  BY <1>3, <1>4 DEF Running
<1> QED BY <1>3, <1>5, <1>6 DEF LifecycleInv, Phases

\* The aggregator is released: the service leaves the bus, goes on to EDS or starts folks.
LEMMA FolksUnpreparedInv ==
  ASSUME LifecycleInv, FolksUnprepared
  PROVE  LifecycleInv'
<1>1. RefsAfterClear \in Nat /\ HandlersAfterClear \in Nat
  BY DEF LifecycleInv, Counters, RefsAfterClear, HandlersAfterClear
<1>2. unpreparing > 0 /\ unpreparing' = unpreparing - 1 /\ unpreparing' \in Nat /\ adaptor
      /\ UNCHANGED <<quitting, edsLive, edsPreparing, deaths, overlapped>>
  BY DEF LifecycleInv, Counters, FolksUnprepared
<1>3. ~overlapped => Unpreparing
  BY <1>2 DEF LifecycleInv, Phases, Running, WithoutFolks, Stopped
<1>4. ~overlapped => RefsAfterClear = 0 /\ HandlersAfterClear = 0
  BY <1>3 DEF Unpreparing, RefsAfterClear, HandlersAfterClear
<1>5. ~overlapped => unpreparing' = 0
  BY <1>2, <1>3 DEF Unpreparing
<1>6. CASE /\ ~adaptor' /\ adaptor' \in BOOLEAN /\ ~pointer' /\ pointer' \in BOOLEAN
           /\ refs' = RefsAfterClear /\ handlers' = HandlersAfterClear
           /\ UNCHANGED <<ready, clientReady, map, connected, timerVars, folks, edsUnpreparing>>
  <2>1. Flags' BY <1>2, <1>6 DEF LifecycleInv, Flags
  <2>2. Counters' BY <1>1, <1>2, <1>6 DEF LifecycleInv, Counters, timerVars
  <2>3. ~overlapped' => Stopped'
    BY <1>2, <1>3, <1>6 DEF Unpreparing, TornDown, Stopped
  <2> QED BY <1>6, <2>1, <2>2, <2>3 DEF LifecycleInv, Phases
<1>7. CASE /\ ~pointer' /\ pointer' \in BOOLEAN
           /\ refs' = RefsAfterClear /\ handlers' = HandlersAfterClear
           /\ edsUnpreparing' = edsUnpreparing + 1
           /\ UNCHANGED <<adaptor, ready, clientReady, map, connected, timerVars, folks>>
  <2>1. Flags' BY <1>2, <1>7 DEF LifecycleInv, Flags
  <2>2. Counters' BY <1>1, <1>2, <1>7 DEF LifecycleInv, Counters, timerVars
  <2>3. ASSUME ~overlapped' PROVE WithoutFolks'
    <3>1. Unpreparing BY <1>2, <1>3, <2>3
    <3>2. edsUnpreparing' = 1 /\ edsPreparing' = 0 /\ refs' = 0 /\ handlers' = 0
          /\ unpreparing' = 0 /\ folks' = "idle"
      BY <1>2, <1>4, <1>5, <1>7, <2>3, <3>1 DEF Unpreparing
    <3>3. TornDown' BY <1>7, <3>1, <3>2 DEF Unpreparing, TornDown
    <3> QED BY <1>7, <3>2, <3>3 DEF WithoutFolks
  <2> QED BY <1>7, <2>1, <2>2, <2>3 DEF LifecycleInv, Phases
<1>8. CASE PrepareFolks(RefsAfterClear, HandlersAfterClear)
           /\ UNCHANGED <<adaptor, edsUnpreparing>>
  <2> HIDE DEF RefsAfterClear, HandlersAfterClear
  <2>1. Flags' BY <1>1, <1>2, <1>8, PrepareFolksEffect DEF LifecycleInv, Flags
  <2>2. Counters' BY <1>1, <1>2, <1>8, PrepareFolksEffect DEF LifecycleInv, Counters
  <2>3. refs' = RefsAfterClear + 1 /\ handlers' = HandlersAfterClear + 1
        /\ map' /\ pointer' /\ connected'
    BY <1>1, <1>8, PrepareFolksEffect DEF LifecycleInv
  <2>4. refs' > 0 BY <1>1, <2>3
  <2>5. ASSUME ~overlapped' PROVE Running'
    <3>1. refs' = 1 /\ handlers' = 1
      BY <1>2, <1>4, <2>3, <2>5
    <3>2. unpreparing' = 0 /\ edsUnpreparing' = 0 /\ edsPreparing' = 0
      BY <1>2, <1>3, <1>5, <1>8, <2>5 DEF Unpreparing
    <3> QED BY <2>3, <3>1, <3>2 DEF Running
  <2> QED BY <2>1, <2>2, <2>4, <2>5 DEF LifecycleInv, Phases
<1> QED BY <1>6, <1>7, <1>8 DEF FolksUnprepared

\* The EDS backend is unprepared, and is prepared again.
LEMMA EdsUnpreparedInv ==
  ASSUME LifecycleInv, EdsUnprepared
  PROVE  LifecycleInv'
<1>1. UNCHANGED <<adaptor, quitting, ready, edsLive, map, pointer, connected, clientReady>>
      /\ UNCHANGED <<retryCount, reloads, shutdowns, folks, refs, handlers>>
      /\ UNCHANGED <<unpreparing, deaths, overlapped>>
      /\ edsUnpreparing > 0
      /\ edsUnpreparing' = edsUnpreparing - 1 /\ edsPreparing' = edsPreparing + 1
  BY DEF EdsUnprepared, serviceVars, timerVars, folksVars
<1>2. Flags' BY <1>1 DEF LifecycleInv, Flags
<1>3. Counters' BY <1>1 DEF LifecycleInv, Counters
<1>4. ASSUME ~overlapped' PROVE WithoutFolks'
  <2>1. adaptor BY DEF EdsUnprepared
  <2>2. WithoutFolks
    BY <1>1, <1>4, <2>1 DEF LifecycleInv, Phases, Running, Unpreparing, Stopped
  <2>3. edsUnpreparing = 1 /\ edsPreparing = 0
    BY <1>1, <2>2 DEF WithoutFolks
  <2>4. edsUnpreparing' = 0 /\ edsPreparing' = 1
    BY <1>1, <2>3
  <2> QED BY <1>1, <2>2, <2>4 DEF WithoutFolks, TornDown
<1> QED BY <1>1, <1>2, <1>3, <1>4 DEF LifecycleInv, Phases

\* Folks is prepared again, with nothing left of the aggregator before.
LEMMA EdsPreparedInv ==
  ASSUME LifecycleInv, EdsPrepared
  PROVE  LifecycleInv'
<1>1. /\ PrepareFolks(refs, handlers)
      /\ UNCHANGED <<adaptor, quitting, edsLive, unpreparing, edsUnpreparing, deaths, overlapped>>
      /\ edsPreparing > 0 /\ edsPreparing' = edsPreparing - 1
      /\ refs \in Nat /\ handlers \in Nat
  BY DEF EdsPrepared, LifecycleInv, Counters
<1>2. Flags' BY <1>1, PrepareFolksEffect DEF LifecycleInv, Flags
<1>3. Counters' BY <1>1, PrepareFolksEffect DEF LifecycleInv, Counters
<1>4. refs' = refs + 1 /\ handlers' = handlers + 1 /\ map' /\ pointer' /\ connected'
  BY <1>1, PrepareFolksEffect DEF LifecycleInv
<1>5. ASSUME ~overlapped' PROVE Running'
  <2>1. adaptor BY DEF EdsPrepared
  <2>2. WithoutFolks
    BY <1>1, <1>5, <2>1 DEF LifecycleInv, Phases, Running, Unpreparing, Stopped
  <2>3. edsUnpreparing = 0 /\ edsPreparing = 1
    BY <1>1, <2>2 DEF WithoutFolks
  <2>4. unpreparing' = 0 /\ edsUnpreparing' = 0 /\ edsPreparing' = 0 /\ refs' = 1 /\ handlers' = 1
    BY <1>1, <1>4, <2>2, <2>3 DEF WithoutFolks, TornDown
  <2> QED BY <1>4, <2>4 DEF Running
<1>6. refs' > 0 BY <1>1, <1>4
<1> QED BY <1>2, <1>3, <1>5, <1>6 DEF LifecycleInv, Phases

-----------------------------------------------------------------------------
\* Every step keeps the invariant.
LEMMA NextLifecycleInv ==
  ASSUME LifecycleInv, [LifecycleNext]_lifecycleVars
  PROVE  LifecycleInv'
<1>0. /\ edsLive \in BOOLEAN /\ quitting \in BOOLEAN /\ deaths \in 0..MaxDeaths
      /\ retryCount \in Nat /\ reloads \in Nat /\ shutdowns \in Nat
  BY DEF LifecycleInv, Flags, Counters
<1>1. CASE Callback
  BY <1>1, QuiescentInv, FolksUnpreparedInv, EdsUnpreparedInv, EdsPreparedInv DEF Callback
<1>2. CASE EdsDied
  <2>1. deaths' \in 0..MaxDeaths
    BY <1>0, <1>2, BoundsAssumption DEF EdsDied
  <2> QED BY <1>0, <1>2, <2>1, UnprepareFolksInv DEF EdsDied, timerVars
<1>3. CASE EdsCame
  <2>1. UNCHANGED <<adaptor, quitting, ready, map, pointer, connected, clientReady>>
        /\ UNCHANGED <<retryCount, reloads, shutdowns, folks, refs, handlers>>
        /\ UNCHANGED <<unpreparing, edsUnpreparing, edsPreparing, deaths, overlapped>>
        /\ edsLive' \in BOOLEAN
    BY <1>3 DEF EdsCame, timerVars, folksVars, callVars
  <2>2. Flags' BY <2>1 DEF LifecycleInv, Flags
  <2>3. Counters' BY <2>1 DEF LifecycleInv, Counters
  <2>4. Phases => Phases'
    BY <2>1 DEF Phases, Running, Unpreparing, WithoutFolks, Stopped, TornDown
  <2> QED BY <2>1, <2>2, <2>3, <2>4 DEF LifecycleInv
<1>4. CASE ReloadTimer
  <2>1. reloads' \in Nat BY <1>0, <1>4 DEF ReloadTimer
  <2> QED BY <1>0, <1>4, <2>1, UnprepareFolksInv DEF ReloadTimer
<1>5. CASE Shutdown
  BY <1>0, <1>5, UnprepareFolksInv DEF Shutdown, timerVars
<1>6. CASE ShutdownTimer
  <2>1. shutdowns' \in Nat BY <1>0, <1>6 DEF ShutdownTimer
  <2> QED BY <1>0, <1>6, <2>1, UnprepareFolksInv DEF ShutdownTimer
<1>7. CASE UNCHANGED lifecycleVars
  <2>1. UNCHANGED <<adaptor, quitting, ready, edsLive, map, pointer, connected, clientReady>>
        /\ UNCHANGED <<retryCount, reloads, shutdowns, folks, refs, handlers>>
        /\ UNCHANGED <<unpreparing, edsUnpreparing, edsPreparing, deaths, overlapped>>
    BY <1>7 DEF lifecycleVars, serviceVars, timerVars, folksVars, callVars
  <2>2. Flags' BY <2>1 DEF LifecycleInv, Flags
  <2>3. Counters' BY <2>1 DEF LifecycleInv, Counters
  <2>4. Phases => Phases'
    BY <2>1 DEF Phases, Running, Unpreparing, WithoutFolks, Stopped, TornDown
  <2> QED BY <2>1, <2>2, <2>3, <2>4 DEF LifecycleInv
<1> QED BY <1>1, <1>2, <1>3, <1>4, <1>5, <1>6, <1>7 DEF LifecycleNext

\* Type correctness for any number of retries and deaths of EDS.
THEOREM TypeCorrect == LifecycleSpec => []TypeOK
<1>1. LifecycleInit => LifecycleInv BY InitLifecycleInv
<1>2. LifecycleInv /\ [LifecycleNext]_lifecycleVars => LifecycleInv' BY NextLifecycleInv
<1>3. LifecycleInv => TypeOK BY DEF LifecycleInv, Flags, Counters, TypeOK
<1> QED BY <1>1, <1>2, <1>3, PTL DEF LifecycleSpec

\* A ready service has its map, its aggregator, one reference to it and one pair of
\* handlers, unless a reload began while another was under way: unprepareFolks and the
\* callbacks of addressbook.cpp for any number of retries and deaths of EDS.
THEOREM SoundTheorem == LifecycleSpec => []SoundUnlessOverlapped
<1>1. LifecycleInit => LifecycleInv BY InitLifecycleInv
<1>2. LifecycleInv /\ [LifecycleNext]_lifecycleVars => LifecycleInv' BY NextLifecycleInv
<1>3. LifecycleInv => SoundUnlessOverlapped
  BY DEF LifecycleInv, SoundUnlessOverlapped, Phases, Running, Unpreparing, WithoutFolks,
         Stopped, TornDown
<1> QED BY <1>1, <1>2, <1>3, PTL DEF LifecycleSpec

---------------------------------------------------------------------------
(* The pages of a result. *)

\* What the client has is what it asked for: the contacts up to the offset, or all of them.
PagesInv ==
  /\ result \in Seq(Contacts) /\ pageSize \in Int
  /\ offset \in 0 .. Len(result) /\ (offset = 0 \/ pageSize > 0)
  /\ resorted \in BOOLEAN /\ fetching \in BOOLEAN
  /\ fetching => /\ fetched \in Seq(Contacts) /\ Len(fetched) = offset
                 /\ resorted \/ fetched = SubSeq(result, 1, offset)
  /\ PagesAreWhole

\* A page ends where the next one begins, or at the end of the result.
LEMMA PageIsPart ==
  ASSUME NEW s \in Seq(Contacts), NEW size \in Int, size # 0,
         NEW o \in 0 .. Len(s), o = 0 \/ size > 0,
         NEW page, page = ContactsDetails(s, o, size)
  PROVE  /\ page \in Seq(Contacts)
         /\ SubSeq(s, 1, o) \o page = SubSeq(s, 1, o + Len(page))
         /\ IF page # <<>> /\ Len(page) = size
            THEN size > 0 /\ o + size <= Len(s)
            ELSE o + Len(page) = Len(s)
<1> DEFINE end == IF size < 0 \/ o + size >= Len(s) THEN Len(s) ELSE o + size
<1>1. Len(s) \in Nat /\ o \in Nat /\ o <= Len(s) OBVIOUS
<1>2. end \in o .. Len(s) BY <1>1
<1>3. page = SubSeq(s, o + 1, end)
  <2>1. CASE size < 0 \/ o + size >= Len(s)
    <3>1. o + (Len(s) - o) = Len(s) /\ ~(o < 0) BY <1>1
    <3> QED BY <2>1, <3>1 DEF ContactsDetails
  <2>2. CASE ~(size < 0 \/ o + size >= Len(s))
    <3>1. ~(o < 0) BY <1>1
    <3> QED BY <2>2, <3>1 DEF ContactsDetails
  <2> QED BY <2>1, <2>2
<1> HIDE DEF end
<1>4. page \in Seq(Contacts) /\ Len(page) = end - o
  <2>1. \A i \in o + 1 .. end : s[i] \in Contacts BY <1>1, <1>2
  <2>2. o + 1 \in Int /\ end \in Int BY <1>1, <1>2
  <2>3. /\ page \in Seq(Contacts)
        /\ Len(page) = IF o + 1 <= end THEN end - (o + 1) + 1 ELSE 0
    BY <1>3, <2>1, <2>2, SubSeqProperties
  <2>4. end - o = IF o + 1 <= end THEN end - (o + 1) + 1 ELSE 0 BY <1>1, <1>2
  <2> QED BY <2>3, <2>4
<1>5. SubSeq(s, 1, o) \o page = SubSeq(s, 1, o + Len(page))
  <2>1. 1 \in 1 .. Len(s) + 1 /\ o \in 1 - 1 .. Len(s) /\ end \in o .. Len(s) BY <1>1, <1>2
  <2>2. SubSeq(s, 1, o) \o SubSeq(s, o + 1, end) = SubSeq(s, 1, end)
    BY <2>1, ConcatAdjacentSubSeq
  <2>3. o + Len(page) = end BY <1>1, <1>2, <1>4
  <2> QED BY <1>3, <2>2, <2>3
<1>6. CASE page # <<>> /\ Len(page) = size
  <2>1. size > 0 BY <1>1, <1>2, <1>4, <1>6
  <2>2. o + size <= Len(s) BY <1>1, <1>2, <1>4, <1>6
  <2> QED BY <1>4, <1>5, <1>6, <2>1, <2>2
<1>7. CASE ~(page # <<>> /\ Len(page) = size)
  <2>1. end = Len(s)
    <3> SUFFICES ASSUME end # Len(s) PROVE FALSE OBVIOUS
    <3>1. end = o + size /\ size > 0 BY DEF end
    <3>2. Len(page) = size BY <1>1, <1>4, <3>1
    <3>3. page # <<>> BY <3>1, <3>2
    <3> QED BY <1>7, <3>2, <3>3
  <2>2. o + Len(page) = Len(s) BY <1>1, <1>4, <2>1
  <2> QED BY <1>4, <1>5, <1>7, <2>2
<1> QED BY <1>6, <1>7

LEMMA PagesInitInv == PagesInit => PagesInv
<1> SUFFICES ASSUME PagesInit PROVE PagesInv OBVIOUS
<1>1. result \in Seq(Contacts) /\ pageSize \in Int
  BY ResultsAssumption, PageSizesAssumption DEF PagesInit
<1>2. fetched \in Seq(Contacts) /\ Len(fetched) = 0 /\ SubSeq(result, 1, 0) = <<>>
  BY SubSeqEmpty DEF PagesInit
<1>3. 0 \in 0 .. Len(result) BY <1>1
<1> QED BY <1>1, <1>2, <1>3 DEF PagesInit, PagesInv, PagesAreWhole

\* A page: what was fetched before it and the page are the contacts up to its end.
LEMMA FetchPageInv == PagesInv /\ FetchPage => PagesInv'
<1> SUFFICES ASSUME PagesInv, FetchPage PROVE PagesInv' OBVIOUS
<1> DEFINE page == ContactsDetails(result, offset, pageSize)
<1>1. /\ result \in Seq(Contacts) /\ pageSize \in Int /\ resorted \in BOOLEAN
      /\ offset \in 0 .. Len(result) /\ (offset = 0 \/ pageSize > 0)
      /\ fetched \in Seq(Contacts) /\ Len(fetched) = offset
      /\ resorted \/ fetched = SubSeq(result, 1, offset)
  BY DEF PagesInv, FetchPage
<1>2. /\ result' = result /\ pageSize' = pageSize /\ resorted' = resorted
      /\ fetched' = fetched \o page
      /\ fetching' = (page # <<>> /\ Len(page) = pageSize)
      /\ offset' = IF fetching' THEN offset + pageSize ELSE offset
  BY DEF FetchPage
<1> HIDE DEF page
<1>3. CASE pageSize = 0
  <2>1. page = <<>> \/ Len(page) # 0
    <3> SUFFICES ASSUME Len(page) = 0 PROVE page = <<>> OBVIOUS
    <3>1. page \in Seq(Contacts)
      <4>1. \A i \in 1 .. Len(result) : result[i] \in Contacts BY <1>1
      <4>2. page = SubSeq(result, 1, IF 0 >= Len(result) THEN Len(result) ELSE 0)
        BY <1>1, <1>3 DEF page, ContactsDetails
      <4>3. Len(result) \in Nat BY <1>1
      <4> QED BY <4>1, <4>2, <4>3, SubSeqProperties
    <3> QED BY <3>1
  <2>2. fetching' = FALSE BY <1>2, <1>3, <2>1
  <2> QED BY <1>1, <1>2, <1>3, <2>2 DEF PagesInv, PagesAreWhole
<1>4. CASE pageSize # 0
  <2>1. /\ page \in Seq(Contacts)
        /\ SubSeq(result, 1, offset) \o page = SubSeq(result, 1, offset + Len(page))
        /\ IF page # <<>> /\ Len(page) = pageSize
           THEN pageSize > 0 /\ offset + pageSize <= Len(result)
           ELSE offset + Len(page) = Len(result)
    BY <1>1, <1>4, PageIsPart DEF page
  <2>2. fetched' \in Seq(Contacts) /\ Len(fetched') = offset + Len(page)
    BY <1>1, <1>2, <2>1, ConcatProperties
  <2>3. resorted \/ fetched' = SubSeq(result, 1, offset + Len(page)) BY <1>1, <1>2, <2>1
  <2>4. CASE page # <<>> /\ Len(page) = pageSize
    <3>1. fetching' = TRUE /\ offset' = offset + pageSize BY <1>2, <2>4
    <3>2. offset' \in 0 .. Len(result) BY <1>1, <2>1, <2>4, <3>1
    <3> QED BY <1>1, <1>2, <2>1, <2>2, <2>3, <2>4, <3>1, <3>2 DEF PagesInv, PagesAreWhole
  <2>5. CASE ~(page # <<>> /\ Len(page) = pageSize)
    <3>1. fetching' = FALSE /\ offset' = offset BY <1>2, <2>5
    <3>2. SubSeq(result, 1, Len(result)) = result BY <1>1, SubSeqFull
    <3> QED BY <1>1, <1>2, <2>1, <2>2, <2>3, <2>5, <3>1, <3>2 DEF PagesInv, PagesAreWhole
  <2> QED BY <2>4, <2>5
<1> QED BY <1>3, <1>4

\* Another order of as many contacts; before the first page it makes no difference.
LEMMA SortInv == PagesInv /\ Sort => PagesInv'
<1> SUFFICES ASSUME PagesInv, Sort PROVE PagesInv' OBVIOUS
<1>1. /\ result \in Seq(Contacts) /\ pageSize \in Int /\ resorted \in BOOLEAN
      /\ offset \in 0 .. Len(result) /\ (offset = 0 \/ pageSize > 0)
      /\ fetched \in Seq(Contacts) /\ Len(fetched) = offset /\ fetching = TRUE
      /\ resorted \/ fetched = SubSeq(result, 1, offset)
  BY DEF PagesInv, Sort
<1>2. /\ pageSize' = pageSize /\ offset' = offset /\ fetched' = fetched /\ fetching' = fetching
      /\ resorted' = (resorted \/ (offset > 0 /\ result' # result))
  BY DEF Sort
<1>3. PICK f \in [DOMAIN result -> DOMAIN result] :
        result' = [i \in DOMAIN result |-> result[f[i]]]
  BY DEF Sort
<1>4. result' \in Seq(Contacts) /\ Len(result') = Len(result)
  <2>1. Len(result) \in Nat /\ DOMAIN result = 1 .. Len(result) BY <1>1
  <2>2. \A i \in 1 .. Len(result) : result[f[i]] \in Contacts BY <1>1, <2>1
  <2>3. result' \in [1 .. Len(result) -> Contacts] BY <1>3, <2>1, <2>2
  <2> QED BY <2>1, <2>3
<1>5. resorted' \/ fetched' = SubSeq(result', 1, offset')
  <2>1. CASE offset = 0
    <3>1. SubSeq(result, 1, 0) = <<>> /\ SubSeq(result', 1, 0) = <<>> BY SubSeqEmpty
    <3>2. fetched = <<>> BY <1>1, <2>1
    <3> QED BY <1>2, <2>1, <3>1, <3>2
  <2>2. CASE offset > 0
    <3> QED BY <1>1, <1>2, <2>2
  <2>3. offset = 0 \/ offset > 0 BY <1>1
  <2> QED BY <2>1, <2>2, <2>3
<1>6. resorted' \in BOOLEAN BY <1>2, Zenon
<1> QED BY <1>1, <1>2, <1>4, <1>5, <1>6 DEF PagesInv, PagesAreWhole

\* View::contactsDetails and GaleraContactsService: a client that fetches page after page,
\* each of a size above 0, until one is not full, has as many contacts as the result, and the
\* result itself if nobody sorts it meanwhile, also when it ends with a full page or has none;
\* so does one that asks for a negative size.  For results of any length.
THEOREM PagesTheorem == PagesSpec => []PagesAreWhole
<1>1. PagesInv /\ [PagesNext]_pagesVars => PagesInv'
  <2> SUFFICES ASSUME PagesInv, [PagesNext]_pagesVars PROVE PagesInv' OBVIOUS
  <2>1. CASE FetchPage BY <2>1, FetchPageInv
  <2>2. CASE Sort BY <2>2, SortInv
  <2>3. CASE UNCHANGED pagesVars BY <2>3 DEF pagesVars, PagesInv, PagesAreWhole
  <2> QED BY <2>1, <2>2, <2>3 DEF PagesNext
<1>2. PagesInv => PagesAreWhole BY DEF PagesInv
<1> QED BY <1>1, <1>2, PagesInitInv, PTL DEF PagesSpec
=============================================================================
