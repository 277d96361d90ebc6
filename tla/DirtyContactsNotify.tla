------------------------ MODULE DirtyContactsNotify ------------------------
(***************************************************************************)
(* The change coalescer of the address-book service.  Every change to a    *)
(* contact is first put in one of three sets and a single-shot timer is    *)
(* (re)started; when it fires, or when somebody flushes the object, the    *)
(* sets go out as the D-Bus signals contactsUpdated, contactsRemoved and   *)
(* contactsAdded.                                                          *)
(*                                                                         *)
(* The object is a value here (a record of its members): its methods are   *)
(* operators from a value to the value they leave behind, so that a caller *)
(* that makes several calls in one handler composes them.                  *)
(***************************************************************************)
CONSTANT Contact       \* the contact ids

(***************************************************************************)
(* The members of the object.  timer says whether m_timer is running.      *)
(***************************************************************************)
Pending == [changed : SUBSET Contact, added : SUBSET Contact,
            removed : SUBSET Contact, timer : BOOLEAN]

\* clear(), and what flush() and a timeout leave behind.
Nothing == [changed |-> {}, added |-> {}, removed |-> {}, timer |-> FALSE]

\* Mutant: additions do not start the timer.
AddingQuietly(p, ids) ==
  [changed |-> p.changed \cup (ids \cap p.removed),
   added   |-> p.added \cup (ids \ p.removed),
   removed |-> p.removed \ ids, timer |-> p.timer]

\* insertAddedContacts(ids): a contact whose removal is still pending becomes
\* a changed contact, the others become added ones.
Adding(p, ids) ==
  [changed |-> p.changed \cup (ids \cap p.removed),
   added   |-> p.added \cup (ids \ p.removed),
   removed |-> p.removed \ ids,
   timer   |-> TRUE]

\* insertRemovedContacts(ids): a contact whose addition is still pending is
\* forgotten, the others become removed ones.  The changed set is left alone.
Removing(p, ids) ==
  [changed |-> p.changed,
   added   |-> p.added \ ids,
   removed |-> p.removed \cup (ids \ p.added),
   timer   |-> TRUE]

\* insertChangedContacts(ids)
Changing(p, ids) ==
  [changed |-> p.changed \cup ids,
   added   |-> p.added,
   removed |-> p.removed,
   timer   |-> TRUE]

\* Mutant: the subtraction of the added contacts takes the wrong set.
UpdatesKept(p) == p.changed \ (p.removed \cup p.changed)

\* emitSignals(): the ids contactsUpdated carries.  contactsRemoved carries
\* p.removed and contactsAdded carries p.added.
UpdatesDue(p) == p.changed \ (p.added \cup p.removed)

\* What a client that follows the signals knows after emitSignals(): the
\* removals go out before the additions.
AfterSignals(p, known) == (known \ p.removed) \cup p.added

Idle(p) == p.changed = {} /\ p.added = {} /\ p.removed = {}
=============================================================================
