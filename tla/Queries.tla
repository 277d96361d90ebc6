------------------------------- MODULE Queries -------------------------------
(***************************************************************************)
(* What a query finds: the filter thread of a view (FilterThread::run in   *)
(* lib/view.cpp) goes over the entries of the contacts map and tests them  *)
(* with the filter of Filters.  The map changes as in ContactsMap;         *)
(* contacts are marked as deleted and stay in it, and folks may take them  *)
(* for hidden.                                                             *)
(*                                                                         *)
(* A thread holds the lock of the map, but that lock guards the structures *)
(* and not what they point to: while a scan lasts nobody inserts, moves or *)
(* takes an entry, and everybody changes contacts, marks them and hides    *)
(* them.  So a scan is a process: it reads one thing of one entry in a     *)
(* step.  The order of its visits and what it read are the state; the      *)
(* filter, which only judges what was read, is applied when the scan is    *)
(* over, for every query with that order at once.  Who waits for a thread, *)
(* and what becomes of a cancelled one, is in Views; a change of a contact *)
(* is what contact() shows of it, and UpdateContacts has the ones that get *)
(* lost on their way there.                                                *)
(***************************************************************************)
EXTENDS ContactsMap, Filters

CONSTANTS Queried,     \* the filters of the queries
          MaxCounts,   \* the values of maxCount; 0 is no limit
          MaxMeddling, \* bound: what others do to contacts in the time of a scan
          Others       \* whether another thread may scan at the same time

VARIABLES deletedAt,   \* per contact: when it was marked as deleted
          hidden,      \* contacts whose individual is not visible
          dated,       \* contacts whose m_deletedAt is filled in
          looking,     \* contacts another thread is filling it in for
          scan,        \* the thread
          meddling,    \* what others did in the time of the scan
          unsteady     \* history: contacts the scan may have seen in two states

queryVars == <<deletedAt, hidden, dated, looking, scan, meddling, unsteady>>

Unread == [id |-> None, phones |-> <<>>, key |-> 0, deletedAt |-> NotDeleted, visible |-> TRUE]

\* A thread without work, and one that locked the map to visit the entries of order.
\* note is what it has read of the next entry, notes what it has of those before, part
\* the read that is next.
Idle == [phase |-> "idle", order |-> <<>>, empty |-> FALSE, notes |-> <<>>, note |-> Unread, part |-> 1]
Visiting(order, empty) ==
    [Idle EXCEPT !.phase = IF order = <<>> THEN "done" ELSE "running",
                 !.order = order, !.empty = empty]

Running == scan.phase = "running"

QueriesInit ==
    /\ Init
    /\ deletedAt = [c \in Contact |-> NotDeleted]
    /\ hidden = {} /\ dated = {} /\ looking = {}
    /\ scan = Idle /\ meddling = 0 /\ unsteady = {}

---------------------------------------------------------------------------
(***************************************************************************)
(* What happens to contacts.                                               *)
(***************************************************************************)

\* A step that asks for no lock; the scan may have been to c before or not.
Meddle(c) ==
    /\ scan.phase # "done"
    /\ Running => meddling < MaxMeddling
    /\ meddling' = IF Running THEN meddling + 1 ELSE meddling
    /\ unsteady' = IF Running THEN unsteady \cup {c} ELSE unsteady
    /\ UNCHANGED scan

\* markAsDeleted, which leaves the entry in the map.
MarkAsDeleted(c) ==
    /\ c \in ids /\ deletedAt[c] = NotDeleted
    /\ deletedAt' = [deletedAt EXCEPT ![c] = 1]
    /\ dated' = dated \cup {c}
    /\ Meddle(c)
    /\ UNCHANGED <<vars, hidden, looking>>

VisibilityChanged(c) ==
    /\ c \in ids
    /\ hidden' = IF c \in hidden THEN hidden \ {c} ELSE hidden \cup {c}
    /\ Meddle(c)
    /\ UNCHANGED <<vars, deletedAt, dated, looking>>

\* markAsDirty, which forgets the date with the contact.
Dirtied(c) ==
    /\ \E k \in Key, ps \in Phones : ChangedElsewhere(c, k, ps)
    /\ dated' = dated \ {c}
    /\ Meddle(c)
    /\ UNCHANGED <<deletedAt, hidden, looking>>

\* insert, take and updatePosition wait for the threads that hold the lock.
MapChanges ==
    /\ scan.phase = "idle" /\ looking = {}
    /\ OwnStep
    /\ deletedAt' = [c \in Contact |-> IF c \in ids' THEN deletedAt[c] ELSE NotDeleted]
    /\ hidden' = hidden \cap ids'
    /\ dated' = dated \cap ids'
    /\ UNCHANGED <<looking, scan, meddling, unsteady>>

---------------------------------------------------------------------------
(***************************************************************************)
(* The scan.                                                               *)
(***************************************************************************)

\* ContactsMap::values(ids), which finds an id that is named twice twice.
ValuesOf(s) == SelectSeq(s, LAMBDA c : c \in ids)

\* valueByPhone: an entry filed twice under a number is found twice.  The order is that
\* of the insertions into the index; here it is that of the list.
ValueByPhone(n) ==
    FlattenSeq([i \in DOMAIN list |->
        [j \in 1 .. (IF n \in Number THEN index[n][list[i]] ELSE 0) |-> list[i]]])

\* What FilterThread::run asks a filter before it begins, ...
Lookup(f) == [valid |-> IsValid(f), empty |-> IsEmpty(f),
              ids |-> IdsToFilter(f), number |-> PhoneNumberToFilter(f)]
LookupOf == [f \in Queried |-> Lookup(f)]
Lookups == Range(LookupOf)
AskedWith == [l \in Lookups |-> {f \in Queried : LookupOf[f] = l}]

PreFilter(l) ==
    IF l.ids # <<>> THEN ValuesOf(l.ids)
    ELSE IF l.number # None THEN ValueByPhone(l.number)
    ELSE list

\* ... and the entries it then goes over; it goes over none for an invalid filter.
Visits(l) ==
    IF ~l.valid THEN <<>> ELSE IF l.empty THEN list ELSE PreFilter(l)

\* The thread locks the map.
Begin ==
    /\ scan.phase = "idle"
    /\ \E l \in Lookups : scan' = Visiting(Visits(l), l.empty)
    /\ meddling' = 0 /\ unsteady' = {}
    /\ UNCHANGED <<vars, deletedAt, hidden, dated, looking>>

\* The reads of an entry; the loop without a filter looks at the contact last.
Reads == IF scan.empty THEN <<"visible", "date", "contact">> ELSE <<"contact", "date", "visible">>
Reading(what) == Running /\ Reads[scan.part] = what
Entry == scan.order[Len(scan.notes) + 1]

\* The note is complete with the third read; the lock is released after the last entry.
Note(note) ==
    IF scan.part < 3 THEN scan' = [scan EXCEPT !.note = note, !.part = @ + 1]
    ELSE LET notes == Append(scan.notes, [note EXCEPT !.id = Entry])
         IN  scan' = [scan EXCEPT !.notes = notes, !.note = Unread, !.part = 1,
                        !.phase = IF Len(notes) = Len(scan.order) THEN "done" ELSE "running"]

\* contact(): a copy, with the name it is sorted by and the numbers.
CopyContact ==
    /\ Reading("contact")
    /\ Note([scan.note EXCEPT !.phones = phones[Entry], !.key = key[Entry]])
    /\ UNCHANGED <<vars, deletedAt, hidden, dated, looking, meddling, unsteady>>

\* Mutant: the date of the entry before, from a variable that is not set again.
ReadDateStale ==
    /\ Reading("date")
    /\ Note([scan.note EXCEPT !.deletedAt =
               IF scan.notes # <<>> THEN Last(scan.notes).deletedAt
               ELSE IF Entry \in looking THEN NotDeleted ELSE deletedAt[Entry]])
    /\ unsteady' = IF Entry \in looking THEN unsteady \cup {Entry} ELSE unsteady
    /\ dated' = dated \cup {Entry}
    /\ UNCHANGED <<vars, deletedAt, hidden, looking, meddling>>

\* deletedAt(): a thread that has to look for the mark says first that there is none,
\* and another one takes this for the answer.
ReadDate ==
    /\ Reading("date")
    /\ Note([scan.note EXCEPT !.deletedAt = IF Entry \in looking THEN NotDeleted
                                            ELSE deletedAt[Entry]])
    /\ unsteady' = IF Entry \in looking THEN unsteady \cup {Entry} ELSE unsteady
    /\ dated' = dated \cup {Entry}
    /\ UNCHANGED <<vars, deletedAt, hidden, looking, meddling>>

ReadVisible ==
    /\ Reading("visible")
    /\ Note([scan.note EXCEPT !.visible = Entry \notin hidden])
    /\ UNCHANGED <<vars, deletedAt, hidden, dated, looking, meddling, unsteady>>

\* Another thread, which has the lock for reading too, in the middle of deletedAt().
OtherLooks(c) ==
    /\ Others /\ scan.phase # "done"
    /\ c \in ids \ dated /\ looking = {}
    /\ dated' = dated \cup {c} /\ looking' = {c}
    /\ UNCHANGED <<vars, deletedAt, hidden, scan, meddling, unsteady>>

OtherFinds ==
    /\ looking # {} /\ scan.phase # "done"
    /\ looking' = {}
    /\ UNCHANGED <<vars, deletedAt, hidden, dated, scan, meddling, unsteady>>

\* The result is a copy that later changes do not reach.
End ==
    /\ scan.phase = "done"
    /\ scan' = Idle /\ meddling' = 0 /\ unsteady' = {}
    /\ UNCHANGED <<vars, deletedAt, hidden, dated, looking>>

QueriesNext ==
    \/ MapChanges
    \/ \E c \in Contact : MarkAsDeleted(c) \/ VisibilityChanged(c) \/ Dirtied(c) \/ OtherLooks(c)
    \/ Begin \/ CopyContact \/ ReadDate \/ ReadVisible \/ End
    \/ OtherFinds

QueriesSpec == QueriesInit /\ [][QueriesNext]_<<vars, queryVars>>

---------------------------------------------------------------------------
(***************************************************************************)
(* What the scan makes of what it read.                                    *)
(***************************************************************************)

\* The lookups whose scan this is; the scan is that of every query that makes one of them.
Made == {l \in Lookups : Visits(l) = scan.order /\ l.empty = scan.empty}

\* The notes FilterThread::run lets through, ...
Found(f, invisible) ==
    SelectSeq(scan.notes, LAMBDA n : /\ invisible \/ n.visible
                                     /\ IF scan.empty THEN n.deletedAt = NotDeleted
                                        ELSE FilterTest(f, n))

\* addSorted for a sort clause that is not the order of the map: here, from the largest
\* key to the smallest, a contact before those it compares equal to.
AddSorted(s, n) ==
    LET i == SelectInSeq(s, LAMBDA e : e.key <= n.key)
    IN  IF i = 0 THEN Append(s, n) ELSE InsertAt(s, i, n)

\* ... up to the count limit, where the scan stops; only "other" needs to sort.
Collected(s, limit, sort) ==
    LET found == IF limit > 0 /\ limit < Len(s) THEN SubSeq(s, 1, limit) ELSE s
    IN  IF sort = "other" THEN FoldLeft(AddSorted, <<>>, found) ELSE found

\* Where a scan without a filter stops: maxCount >= size holds after the first contact.
First(maxCount) == IF maxCount > 0 THEN 1 ELSE 0

Limit(maxCount) == IF scan.empty THEN First(maxCount) ELSE maxCount
Result(found, maxCount, sort) == Collected(found, Limit(maxCount), sort)

---------------------------------------------------------------------------
(***************************************************************************)
(* What a query means: the contacts its filter denotes.                    *)
(***************************************************************************)

RECURSIVE Denoted(_)
Denoted(f) ==
    CASE f.kind = "and" -> {c \in ids : \A i \in DOMAIN f.terms : c \in Denoted(f.terms[i])}
      [] f.kind = "or" -> UNION {Denoted(f.terms[i]) : i \in DOMAIN f.terms}
      [] f.kind = "default" -> ids
      [] f.kind = "invalid" -> {}
      [] f.kind = "ids" -> ids \intersect ToSet(f.ids)
      [] f.kind = "guid" -> ids \intersect {f.id}
      [] f.kind = "phone" -> {c \in ids : \E i \in DOMAIN phones[c] : phones[c][i] \in f.accepts}
      [] f.kind = "removed" -> {c \in ids : deletedAt[c] # NotDeleted /\ deletedAt[c] >= f.since}
      [] f.kind = "other" -> ids \intersect f.accepts

\* Deleted contacts are found by id and by a filter that asks for them.
Meant(f, invisible) ==
    {c \in Denoted(f) : (invisible \/ c \notin hidden) /\ (deletedAt[c] = NotDeleted \/ IncludeRemoved(f))}

RECURSIVE Leaves(_)
Leaves(f) == IF Node(f) THEN UNION {Leaves(f.terms[i]) : i \in DOMAIN f.terms} ELSE {f}

\* The first term hides the others: it is empty or invalid and they are not, or there is
\* no term at all.
Shortened(f) ==
    /\ Node(f)
    /\ f.terms = <<>> \/ IsEmpty(f) \/ ~IsValid(f)

\* Some way to satisfy f names an id; every one must, or contacts are not looked at.
RECURSIVE NamesIds(_)
NamesIds(f) ==
    CASE f.kind = "and" -> \E i \in DOMAIN f.terms : NamesIds(f.terms[i])
      [] f.kind = "or" -> \A i \in DOMAIN f.terms : NamesIds(f.terms[i])
      [] OTHER -> IdsToFilter(f) # <<>>

\* A filter may look up less than it accepts, or look into the index at all; and it may
\* find what was not asked for: the first term is empty, or removed contacts are asked
\* for without a date.
Exceptions(f) ==
    [less |-> \/ Shortened(f)
              \/ IdsToFilter(f) # <<>> /\ ~NamesIds(f)
              \/ /\ IdsToFilter(f) = <<>>
                 /\ \E g \in Leaves(f) : /\ g.kind = "phone" /\ PhoneNumberToFilter(f) = g.number
                                      /\ ~(g.accepts \subseteq {g.number}),
     index |-> IdsToFilter(f) = <<>> /\ PhoneNumberToFilter(f) # None,
     more |-> Shortened(f) \/ \E g \in Leaves(f) : g.kind = "removed" /\ g.since = NotDeleted]
ExceptionsOf == [f \in Queried |-> Exceptions(f)]

\* The contacts a query may miss: when it looks up less than it accepts, any; when it
\* looks into an index that is behind, the ones it is behind of.
Missable(f) ==
    IF ExceptionsOf[f].less THEN ids ELSE IF ExceptionsOf[f].index THEN drifted ELSE {}

FindsMore(f) == ExceptionsOf[f].more

\* Contacts are found twice.
Repeats(l) == LET s == PreFilter(l) IN Len(s) # Cardinality(ToSet(s))

\* A result of a scan that let n contacts through.
Upto(maxCount, n) ==
    IF maxCount = 0 THEN n ELSE IF scan.empty THEN Min({1, n}) ELSE Min({maxCount, n})

\* However contacts come, go, change, are marked or hidden, before the scan and in the
\* middle of it: a query finds the contacts its filter means and no others, each once and
\* in the order it asked for; with a limit it finds as many as there are up to the limit.
\* Of a contact that changed while the scan lasted, or whose date another
\* thread was looking for, this says that it is not found twice.  The other exceptions
\* are the ones named: a first term that is empty or invalid, ids in only some terms of a
\* union, parts of numbers, changes the index missed, removed contacts without a date,
\* ids or numbers given twice, and a limit without a filter.
QueriesTrue ==
    scan.phase = "done" =>
    \A l \in Made, invisible \in BOOLEAN : \A f \in AskedWith[l] :
        LET found == Found(f, invisible)
            names == {found[i].id : i \in DOMAIN found}
            meant == Meant(f, invisible)
            least == Cardinality(meant \ unsteady)
            most == Cardinality(meant \cup unsteady)
            exact == Missable(f) = {} /\ ~FindsMore(f) /\ ~Repeats(l)
        IN  /\ FindsMore(f) \/ names \subseteq meant \cup unsteady
            /\ meant \ unsteady \subseteq names \cup Missable(f)
            /\ Repeats(l) \/ Len(found) = Cardinality(names)
            /\ \A maxCount \in MaxCounts, sort \in {"map", "other"} :
                  LET result == Result(found, maxCount, sort)
                  IN  /\ ToSet(result) \subseteq ToSet(found)
                      /\ exact => Len(result) \in Upto(maxCount, least) .. Upto(maxCount, most)
                      /\ sort = "other" => \A i, j \in DOMAIN result :
                            i < j => result[i].key >= result[j].key
=============================================================================
