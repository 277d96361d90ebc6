------------------------- MODULE AddressBookChanges -------------------------
(***************************************************************************)
(* How a change in the address book reaches a client.  Folks tells the     *)
(* service which individuals went and came (individualsChangedCb) or that  *)
(* one of them changed (individualChanged); the service keeps the visible  *)
(* and the hidden ones in m_contacts and hands the ids to the coalescer of *)
(* DirtyContactsNotify, whose signals a client follows.  Readiness, the    *)
(* reload of folks, the safe mode and the sources hidden by it decide what *)
(* is announced and what is not.                                           *)
(*                                                                         *)
(* Folks and EDS are external: they choose the individuals and when they   *)
(* are quiescent.  The client is the engine in src/contacts reduced to     *)
(* what it is told: it follows the three signals and reads everything      *)
(* again on serviceChanged, which it emits on readyChanged and on          *)
(* safeModeChanged.  It may also read the contacts at a moment of its own  *)
(* choice, and so overtake the signals that are still pending.             *)
(***************************************************************************)
EXTENDS DirtyContactsNotify, FiniteSets

CONSTANTS Source,      \* the EDS address-book sources
          SourceOf     \* the source each contact lives in

ASSUME SourceOfAssumption == SourceOf \in [Contact -> Source]

VARIABLES
  contacts,    \* m_contacts: each entry and its visibility, or "absent"
  deleted,     \* the entries marked as deleted, with a valid deletedAt()
  mapAlive,    \* m_contacts is not null and the folks handlers are connected
  ready,       \* m_ready
  edsLive,     \* m_edsIsLive
  safeMode,    \* the safe-mode key of the settings: "unset", "on" or "off"
  invisible,   \* the invisible-sources list of the settings
  sources,     \* the sources EDS has or had: a removed one loses its contacts
               \* through folks, and no other source gets its id
  owed,        \* history: sources that were created in the safe mode that is on
  pending,     \* m_notifyContactUpdate
  clientReady, \* the client's m_serviceIsReady
  known,       \* the contacts the client has learned of
  stale,       \* history: contacts changed since the client last heard of them
  early        \* history: contacts that were marked as deleted, or read while
               \* an announcement of them was pending, and not announced since

bookVars   == <<contacts, deleted, mapAlive, ready, edsLive>>
safeVars   == <<safeMode, invisible, owed, sources>>
clientVars == <<clientReady, known, stale, early>>
vars       == <<bookVars, safeVars, pending, clientVars>>

-----------------------------------------------------------------------------
(***************************************************************************)
(* The state                                                               *)
(***************************************************************************)

\* The contacts a query without showInvisible may return.
Visible == {c \in Contact : contacts[c] = "shown"} \ deleted

Present == {c \in Contact : contacts[c] # "absent"}

\* AddressBook::isReady, the gate in front of every insert of the coalescer.
IsReady == ready /\ edsLive

\* Whether individualsChangedCb makes a contact of source s visible.
Shows(s) == ~(safeMode = "on" /\ s \in invisible)

Init ==
  /\ contacts = [c \in Contact |-> "absent"]
  /\ deleted = {}
  /\ mapAlive = TRUE
  /\ ready = FALSE
  /\ edsLive \in BOOLEAN
  /\ sources \in SUBSET Source
  /\ safeMode \in {"unset", "on", "off"}
  /\ invisible \in IF safeMode = "on" THEN SUBSET sources ELSE {{}}
  /\ owed = {}
  /\ pending = Nothing
  /\ clientReady = FALSE
  /\ known = {}
  /\ stale = {}
  /\ early = {}

\* The client reads the visible contacts again, nothing being pending.
Refetch == known' = Visible' /\ stale' = {} /\ early' = deleted'

-----------------------------------------------------------------------------
(***************************************************************************)
(* Changes announced by folks                                              *)
(***************************************************************************)

\* Mutant: additions are handed over before removals.
InsertAllReordered(gone, fresh, touched) ==
  LET a == IF fresh = {} THEN pending ELSE Adding(pending, fresh)
      r == IF gone = {} THEN a ELSE Removing(a, gone)
      c == IF touched = {} THEN r ELSE Changing(r, touched)
  IN  IF IsReady THEN c ELSE pending

\* The three inserts individualsChangedCb makes, each a no-op while the
\* service is not ready.
InsertAll(gone, fresh, touched) ==
  LET r == IF gone = {} THEN pending ELSE Removing(pending, gone)
      a == IF fresh = {} THEN r ELSE Adding(r, fresh)
      c == IF touched = {} THEN a ELSE Changing(a, touched)
  IN  IF IsReady THEN c ELSE pending

\* Mutant: the removal of a hidden contact is announced as well.
GoneIds(keys) == {c \in keys : contacts[c] # "absent"}

\* The ids individualsChangedCb collects: removed keys that were visible
\* entries, values that become visible and are new to the map, values that
\* are visible and were there.
RemovedIds(keys) == {c \in keys : contacts[c] = "shown"}
AddedIds(keys, values) ==
  {c \in values : Shows(SourceOf[c]) /\ (c \in keys \/ contacts[c] = "absent")}
UpdatedIds(keys, values) ==
  {c \in values : Shows(SourceOf[c]) /\ c \notin keys /\ contacts[c] # "absent"}

\* individualsChangedCb: keys are the individuals that went, values the ones
\* that came; an individual that is replaced is in both.  The values in marked
\* carry the mark of a deleted contact, which the callback does not look at.
IndividualsChanged(keys, values, marked) ==
  /\ mapAlive
  /\ keys \cup values # {}
  /\ contacts' = [c \in Contact |->
                    IF c \in values
                    THEN IF Shows(SourceOf[c]) THEN "shown" ELSE "hidden"
                    ELSE IF c \in keys THEN "absent" ELSE contacts[c]]
  /\ deleted' = (deleted \ (keys \cup values)) \cup marked
  /\ pending' = InsertAll(RemovedIds(keys), AddedIds(keys, values), UpdatedIds(keys, values))
  /\ stale' = stale \cup values
  /\ early' = early \cup marked
  /\ UNCHANGED <<mapAlive, ready, edsLive, safeVars, clientReady, known>>

\* Folks only takes away individuals it has announced, and a contact can only
\* come from a source that exists.  Nothing in the service takes the mark of a
\* deleted contact back, so an entry that stays keeps it.
FolksChanges ==
  \E keys \in SUBSET Present, values \in SUBSET {c \in Contact : SourceOf[c] \in sources} :
    \E marked \in SUBSET values :
      /\ (deleted \cap values) \ keys \subseteq marked
      /\ IndividualsChanged(keys, values, marked)

\* individualChanged: a detail of an entry changed and folks said so.
IndividualChanged(c) ==
  /\ contacts[c] # "absent"
  /\ pending' = IF contacts[c] = "shown" /\ IsReady THEN Changing(pending, {c}) ELSE pending
  /\ stale' = stale \cup {c}
  /\ UNCHANGED <<bookVars, safeVars, clientReady, known, early>>

-----------------------------------------------------------------------------
(***************************************************************************)
(* Changes made by clients                                                 *)
(***************************************************************************)

\* removeContactDone, up to the next contact that is removed through folks:
\* markAsDeleted answers yes for ids, having written the mark into those of
\* marking and found it in the others.  Every mark written makes the entry
\* announce a change; the removals are announced as the recursion unwinds.
SoftRemoved(ids, marking) ==
  /\ mapAlive
  /\ ids # {}
  /\ ids \ deleted \subseteq marking
  /\ deleted' = deleted \cup ids
  /\ LET shown == {c \in marking : contacts[c] = "shown"}
         told  == IF shown = {} THEN pending ELSE Changing(pending, shown)
     IN  pending' = IF IsReady THEN Removing(told, ids) ELSE pending
  /\ early' = early \cup ids
  /\ UNCHANGED <<contacts, mapAlive, ready, edsLive, safeVars, clientReady, known, stale>>

\* updateContactsDone with no contact left to update: ids are the contacts the
\* command has updated, those of them that have gone since included.
UpdateContactsDone(ids) ==
  /\ pending' = IF IsReady THEN Changing(pending, ids) ELSE pending
  /\ stale' = stale \cup ids
  /\ UNCHANGED <<bookVars, safeVars, clientReady, known, early>>

-----------------------------------------------------------------------------
(***************************************************************************)
(* The signals                                                             *)
(***************************************************************************)

\* What the client has not heard of after emitSignals().
StaleAfterSignals ==
  stale \ (UpdatesDue(pending) \cup pending.added \cup pending.removed)
EarlyAfterSignals == (early \ (pending.added \cup pending.removed)) \cup deleted

\* Mutant: the pending sets survive their announcement.
TimeoutKeeps ==
  /\ pending.timer
  /\ pending' = [changed |-> pending.changed, added |-> pending.added,
                 removed |-> {}, timer |-> FALSE]
  /\ known' = AfterSignals(pending, known)
  /\ stale' = StaleAfterSignals
  /\ early' = EarlyAfterSignals
  /\ UNCHANGED <<bookVars, safeVars, clientReady>>

\* The timer fires: emitSignals().
Timeout ==
  /\ pending.timer
  /\ pending' = Nothing
  /\ known' = AfterSignals(pending, known)
  /\ stale' = StaleAfterSignals
  /\ early' = EarlyAfterSignals
  /\ UNCHANGED <<bookVars, safeVars, clientReady>>

-----------------------------------------------------------------------------
(***************************************************************************)
(* Readiness, reload and the life of EDS                                   *)
(***************************************************************************)

\* checkCompatibility, run on every readyChanged, may switch the safe mode
\* on; it does nothing once somebody has switched it off.
SafeModeAfterCheck(incompatible) ==
  IF incompatible /\ safeMode # "off" THEN "on" ELSE safeMode

\* isQuiescentChanged, or prepareFolks finding folks quiescent: the service
\* turns ready and the client, told so, asks isReady and reads the contacts.
BecomeReady ==
  /\ mapAlive
  /\ ~ready
  /\ ready' = TRUE
  /\ \E incompatible \in BOOLEAN : safeMode' = SafeModeAfterCheck(incompatible)
  /\ pending' = IF safeMode' # safeMode THEN Nothing ELSE pending
  /\ clientReady' = edsLive
  /\ UNCHANGED <<contacts, deleted, mapAlive, edsLive, invisible, owed, sources>>
  /\ Refetch

\* unprepareFolks, with the liveness of EDS it is called under: pending
\* changes go out, the service stops being ready and the map is deleted.
UnprepareFolks(live) ==
  /\ edsLive' = live
  /\ known' = AfterSignals(pending, known)
  /\ stale' = StaleAfterSignals
  /\ early' = EarlyAfterSignals
  /\ pending' = Nothing
  /\ ready' = FALSE
  /\ clientReady' = (clientReady /\ ~ready)
  /\ IF ready
     THEN \E incompatible \in BOOLEAN : safeMode' = SafeModeAfterCheck(incompatible)
     ELSE UNCHANGED safeMode
  /\ contacts' = [c \in Contact |-> "absent"]
  /\ deleted' = {}
  /\ mapAlive' = FALSE
  /\ UNCHANGED <<invisible, owed, sources>>

\* prepareFolks, at the end of the reload that unprepareFolks starts.
PrepareFolks ==
  /\ ~mapAlive
  /\ mapAlive' = TRUE
  /\ UNCHANGED <<contacts, deleted, ready, edsLive, safeVars, pending, clientVars>>

\* onEdsServiceOwnerChanged, the name lost its owner.
EdsDied == UnprepareFolks(FALSE)

\* onEdsServiceOwnerChanged, the name has an owner: nothing is announced.
EdsCame ==
  /\ edsLive' = TRUE
  /\ UNCHANGED <<contacts, deleted, mapAlive, ready, safeVars, pending, clientVars>>

\* shutdown, or the reload checkForEds asks for.
Reload == UnprepareFolks(edsLive)

-----------------------------------------------------------------------------
(***************************************************************************)
(* Sources and the safe mode                                               *)
(***************************************************************************)

\* Mutant: the new source is not put into the hidden list.
CreateSourceShown(s) ==
  /\ s \notin sources
  /\ sources' = sources \cup {s}
  /\ owed' = IF safeMode = "on" THEN owed \cup {s} ELSE owed
  /\ UNCHANGED <<bookVars, safeMode, invisible, pending, clientVars>>

\* createSourceDone: a source created in safe mode is hidden before any
\* contact can be in it.
CreateSourceDone(s) ==
  /\ s \notin sources
  /\ sources' = sources \cup {s}
  /\ invisible' = IF safeMode = "on" THEN invisible \cup {s} ELSE invisible
  /\ owed' = IF safeMode = "on" THEN owed \cup {s} ELSE owed
  /\ UNCHANGED <<bookVars, safeMode, pending, clientVars>>

\* setSafeMode(false): every entry is made visible and the notifications are
\* dropped, the client being told to read everything again.
LeaveSafeMode ==
  /\ mapAlive
  /\ safeMode = "on"
  /\ safeMode' = "off"
  /\ invisible' = {} /\ owed' = {}
  /\ contacts' = [c \in Contact |-> IF contacts[c] = "hidden" THEN "shown" ELSE contacts[c]]
  /\ pending' = Nothing
  /\ UNCHANGED <<deleted, mapAlive, ready, edsLive, sources, clientReady>>
  /\ Refetch

\* setSafeMode(true)
EnterSafeMode ==
  /\ safeMode # "on"
  /\ safeMode' = "on"
  /\ pending' = Nothing
  /\ UNCHANGED <<bookVars, invisible, owed, sources, clientReady>>
  /\ Refetch

\* A client reads the contacts when it likes: an application starts, or a
\* query is repeated.
ClientReads ==
  /\ clientReady
  /\ known' = Visible
  /\ stale' = {}
  /\ early' = pending.added \cup pending.removed \cup deleted
  /\ UNCHANGED <<bookVars, safeVars, pending, clientReady>>

-----------------------------------------------------------------------------

ServiceStep ==
  \/ Timeout
  \/ BecomeReady
  \/ PrepareFolks
  \/ EdsDied
  \/ EdsCame
  \/ Reload
  \/ \E s \in Source : CreateSourceDone(s)
  \/ LeaveSafeMode
  \/ EnterSafeMode

ContactStep ==
  \/ FolksChanges
  \/ \E c \in Contact : IndividualChanged(c)
  \/ \E ids \in SUBSET Present : \E marking \in SUBSET ids : SoftRemoved(ids, marking)
  \/ \E ids \in SUBSET Contact : UpdateContactsDone(ids)

Next == ServiceStep \/ ContactStep \/ ClientReads

Spec == Init /\ [][Next]_vars

\* The timer of the coalescer is the only thing that has to fire.
FairSpec == Spec /\ WF_vars(Timeout)

-----------------------------------------------------------------------------
(***************************************************************************)
(* Properties                                                              *)
(***************************************************************************)

\* Every variable keeps to its type (the members of AddressBook and of the
\* coalescer it owns).
TypeOK ==
  /\ contacts \in [Contact -> {"absent", "hidden", "shown"}]
  /\ deleted \in SUBSET Contact
  /\ mapAlive \in BOOLEAN
  /\ ready \in BOOLEAN
  /\ edsLive \in BOOLEAN
  /\ safeMode \in {"unset", "on", "off"}
  /\ invisible \in SUBSET Source
  /\ owed \in SUBSET Source
  /\ sources \in SUBSET Source
  /\ pending \in Pending
  /\ clientReady \in BOOLEAN
  /\ known \in SUBSET Contact
  /\ stale \in SUBSET Contact
  /\ early \in SUBSET Contact

\* The signals still pending are exactly the difference between what a client
\* knows and what the service shows: nothing is lost by coalescing additions
\* and removals (insertAddedContacts, insertRemovedContacts), by the readiness
\* gate in front of them or by the clear() of setSafeMode.  What is said of the
\* contacts in early is weaker: an announcement the client overtook may be taken
\* back, and an entry marked as deleted may be announced as a new one.
MirrorInv ==
  clientReady =>
    /\ AfterSignals(pending, known) \ early = Visible \ early
    /\ pending.added \subseteq Visible \cup deleted
    /\ pending.removed \cap Visible = {}

\* No signal repeats itself: contactsAdded never names a contact the client
\* has, contactsRemoved never one it does not have, but for what the client
\* read in advance.
NewsInv ==
  clientReady => pending.added \cap known \subseteq early /\ pending.removed \subseteq known \cup early

\* No update is lost: a visible contact that changed since the client last
\* heard of it is named by the contactsUpdated or the contactsAdded to come,
\* even when it was replaced, or removed and added again, in the meantime.
NoLostUpdate ==
  clientReady => stale \cap Visible \subseteq UpdatesDue(pending) \cup pending.added

\* What waits in the coalescer has a running timer behind it, so no
\* notification depends on a later change to be sent.
NothingStuck == Idle(pending) \/ pending.timer

\* A client that believes the service is ready is right, and a service that
\* is not ready has nothing to announce: unprepareFolks flushes before it
\* stops being ready, and readyChanged reaches the client in time.
ReadyInv == (clientReady => IsReady) /\ (ready \/ Idle(pending))

\* An entry is hidden exactly while its source is hidden by the safe mode,
\* and the contacts of a source that was created in the safe mode stay hidden
\* as long as it is on, whatever else is created and however often the mode is
\* switched.
SafeModeHides ==
  \A c \in Present :
    /\ contacts[c] = "shown" <=> Shows(SourceOf[c])
    /\ SourceOf[c] \in owed => contacts[c] = "hidden"

\* What SafeModeHides rests on: contacts live in sources that exist, only
\* those are hidden, those created in safe mode are, and the hidden list is empty
\* outside the safe mode.
SafeModeInv ==
  /\ \A c \in Present : SourceOf[c] \in sources
  /\ \A s \in invisible : s \in sources /\ safeMode = "on"
  /\ owed \subseteq invisible

\* The service implements the feed a client relies on: whenever the known
\* set of an online client moves, it moves to the visible set.  The
\* contacts in early are exempt until they are announced or read again.
Feed == INSTANCE ContactFeed WITH visible <- Visible, exempt <- early, online <- clientReady
ImplementsFeed == Feed!Spec

\* Once contacts stop changing for good the client ends up knowing exactly
\* the visible ones: the single-shot timer delivers the last batch.
CatchesUp == <>[][~ContactStep]_vars => <>[](clientReady => known \ early = Visible \ early)

=============================================================================
