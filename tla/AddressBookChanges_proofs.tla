---------------------- MODULE AddressBookChanges_proofs ----------------------
(***************************************************************************)
(* Proofs about AddressBookChanges, for every set of contacts and sources. *)
(*                                                                         *)
(* The argument is per contact.  Tracks(c) says how the knowledge of an    *)
(* online client, the three pending sets and the map agree about one       *)
(* contact c; it is inductive together with the facts about readiness and  *)
(* the safe mode, because every handler treats each contact by itself.     *)
(***************************************************************************)
EXTENDS AddressBookChanges, TLAPS

\* The client and the map agree about c up to what the pending sets say; of a
\* contact in early only what is pending is still true.
Tracks(c) ==
  /\ c \in pending.added => contacts[c] = "shown"
  /\ c \in pending.removed => contacts[c] # "shown" \/ c \in deleted
  /\ c \notin early =>
       /\ c \notin deleted
       /\ contacts[c] = "shown" <=> \/ c \in known /\ c \notin pending.removed
                                    \/ c \in pending.added
       /\ c \in pending.added => c \notin known
       /\ c \in pending.removed => c \in known
  /\ c \in stale /\ contacts[c] = "shown" /\ c \notin deleted =>
       \/ c \in pending.changed /\ c \notin pending.removed
       \/ c \in pending.added

TracksInv == clientReady => \A c \in Contact : Tracks(c)

IInv ==
  /\ TypeOK
  /\ TracksInv
  /\ ReadyInv
  /\ NothingStuck
  /\ SafeModeHides
  /\ SafeModeInv

-----------------------------------------------------------------------------
(* The coalescer. *)

\* Every insert leaves an object of the right type with its timer running.
LEMMA InsertTypes ==
  ASSUME NEW p \in Pending, NEW ids \in SUBSET Contact
  PROVE  /\ Adding(p, ids) \in Pending /\ Adding(p, ids).timer
         /\ Removing(p, ids) \in Pending /\ Removing(p, ids).timer
         /\ Changing(p, ids) \in Pending /\ Changing(p, ids).timer
  BY DEF Pending, Adding, Removing, Changing

\* What individualsChangedCb leaves in the three sets when the service is
\* ready: removals first, then additions, then updates.
Inserted(q, gone, fresh, touched) ==
  LET r == pending.removed \cup (gone \ pending.added)
  IN  /\ q \in Pending
      /\ q.added = (pending.added \ gone) \cup (fresh \ r)
      /\ q.removed = r \ fresh
      /\ q.changed = pending.changed \cup (fresh \cap r) \cup touched
      /\ gone \cup fresh \cup touched # {} => q.timer
      /\ gone \cup fresh \cup touched = {} => q = pending

\* The three inserts of individualsChangedCb, composed.
LEMMA InsertAllEffect ==
  ASSUME pending \in Pending, IsReady,
         NEW gone \in SUBSET Contact, NEW fresh \in SUBSET Contact,
         NEW touched \in SUBSET Contact
  PROVE  Inserted(InsertAll(gone, fresh, touched), gone, fresh, touched)
<1> DEFINE r == IF gone = {} THEN pending ELSE Removing(pending, gone)
           a == IF fresh = {} THEN r ELSE Adding(r, fresh)
           c == IF touched = {} THEN a ELSE Changing(a, touched)
<1>1. /\ r \in Pending
      /\ r.added = pending.added \ gone
      /\ r.removed = pending.removed \cup (gone \ pending.added)
      /\ r.changed = pending.changed
      /\ gone # {} => r.timer
      /\ gone = {} => r = pending
  <2>1. CASE gone = {}
    BY <2>1 DEF Pending
  <2>2. CASE gone # {}
    BY <2>2, InsertTypes DEF Pending, Removing
  <2>3. QED
    BY <2>1, <2>2
<1>2. /\ a \in Pending
      /\ a.added = r.added \cup (fresh \ r.removed)
      /\ a.removed = r.removed \ fresh
      /\ a.changed = r.changed \cup (fresh \cap r.removed)
      /\ fresh # {} => a.timer
      /\ fresh = {} => a = r
  <2> HIDE DEF r
  <2>1. CASE fresh = {}
    BY <1>1, <2>1 DEF Pending
  <2>2. CASE fresh # {}
    BY <1>1, <2>2, InsertTypes DEF Pending, Adding
  <2>3. QED
    BY <2>1, <2>2
<1>3. /\ c \in Pending
      /\ c.added = a.added
      /\ c.removed = a.removed
      /\ c.changed = a.changed \cup touched
      /\ touched # {} => c.timer
      /\ touched = {} => c = a
  <2> HIDE DEF a
  <2>1. CASE touched = {}
    BY <1>2, <2>1 DEF Pending
  <2>2. CASE touched # {}
    BY <1>2, <2>2, InsertTypes DEF Pending, Changing
  <2>3. QED
    BY <2>1, <2>2
<1>4. InsertAll(gone, fresh, touched) = c
  BY DEF InsertAll
<1> HIDE DEF r, a, c
<1>5. gone \cup fresh \cup touched # {} => c.timer
  <2>1. touched = {} /\ fresh = {} => c = r
    BY <1>2, <1>3
  <2>2. touched = {} /\ fresh # {} => c = a /\ a.timer
    BY <1>2, <1>3
  <2>3. QED
    BY <1>1, <1>3, <2>1, <2>2
<1>6. QED
  BY <1>1, <1>2, <1>3, <1>4, <1>5 DEF Inserted

\* Whether or not the service is ready, individualsChangedCb keeps the type.
LEMMA InsertAllType ==
  ASSUME pending \in Pending, edsLive \in BOOLEAN, ready \in BOOLEAN,
         NEW gone \in SUBSET Contact, NEW fresh \in SUBSET Contact,
         NEW touched \in SUBSET Contact
  PROVE  InsertAll(gone, fresh, touched) \in Pending
<1>1. CASE IsReady
  BY <1>1, InsertAllEffect DEF Inserted
<1>2. CASE ~IsReady
  BY <1>2 DEF InsertAll
<1>3. QED
  BY <1>1, <1>2

-----------------------------------------------------------------------------
(* The invariant is inductive: one lemma per handler that is not obvious. *)

LEMMA InitInv == Init => IInv
<1> SUFFICES ASSUME Init PROVE IInv
  OBVIOUS
<1>1. pending \in Pending /\ Idle(pending) /\ ~clientReady /\ ~ready
  BY DEF Init, Nothing, Pending, Idle
<1>2. TypeOK
  <2>1. invisible \in SUBSET Source
    BY DEF Init
  <2>2. QED
    BY <1>1, <2>1 DEF Init, TypeOK
<1>3. SafeModeHides /\ SafeModeInv
  <2>1. Present = {}
    BY DEF Init, Present
  <2>2. \A s \in invisible : s \in sources /\ safeMode = "on"
    BY DEF Init
  <2>3. owed \subseteq invisible
    BY DEF Init
  <2>4. QED
    BY <2>1, <2>2, <2>3 DEF SafeModeHides, SafeModeInv
<1>4. QED
  BY <1>1, <1>2, <1>3 DEF IInv, TracksInv, ReadyInv, NothingStuck

\* individualsChangedCb keeps the agreement for every contact.
LEMMA IndividualsChangedInv ==
  ASSUME IInv, NEW keys \in SUBSET Present,
         NEW values \in SUBSET {c \in Contact : SourceOf[c] \in sources},
         NEW marked \in SUBSET values, (deleted \cap values) \ keys \subseteq marked,
         IndividualsChanged(keys, values, marked)
  PROVE  IInv'
<1> DEFINE gone == RemovedIds(keys)
           fresh == AddedIds(keys, values)
           touched == UpdatedIds(keys, values)
<1>0. /\ gone \in SUBSET Contact /\ fresh \in SUBSET Contact /\ touched \in SUBSET Contact
      /\ keys \in SUBSET Contact /\ values \in SUBSET Contact
  BY DEF RemovedIds, AddedIds, UpdatedIds, Present
<1>1. TypeOK'
  <2>1. pending' \in Pending
    BY <1>0, InsertAllType DEF IndividualsChanged, IInv, TypeOK
  <2>2. contacts' \in [Contact -> {"absent", "hidden", "shown"}]
    BY DEF IndividualsChanged, IInv, TypeOK
  <2>3. QED
    BY <1>0, <2>1, <2>2 DEF IndividualsChanged, IInv, TypeOK, bookVars, safeVars
<1>2. TracksInv'
  <2> SUFFICES ASSUME clientReady', NEW c \in Contact
               PROVE  Tracks(c)'
    BY DEF TracksInv
  <2>1. clientReady /\ IsReady /\ Tracks(c)
    BY DEF IndividualsChanged, IInv, TracksInv, ReadyInv
  <2> DEFINE r == pending.removed \cup (gone \ pending.added)
  <2>2. /\ pending'.added = (pending.added \ gone) \cup (fresh \ r)
        /\ pending'.removed = r \ fresh
        /\ pending'.changed = pending.changed \cup (fresh \cap r) \cup touched
    <3>1. pending' = InsertAll(gone, fresh, touched) /\ pending \in Pending
      BY DEF IndividualsChanged, IInv, TypeOK
    <3> HIDE DEF gone, fresh, touched
    <3>2. Inserted(pending', gone, fresh, touched)
      BY <1>0, <2>1, <3>1, InsertAllEffect
    <3>3. QED
      BY <3>2 DEF Inserted
  <2>3. /\ c \in gone <=> c \in keys /\ contacts[c] = "shown"
        /\ c \in fresh <=> /\ c \in values /\ Shows(SourceOf[c])
                           /\ c \in keys \/ contacts[c] = "absent"
        /\ c \in touched <=> /\ c \in values /\ Shows(SourceOf[c])
                             /\ c \notin keys /\ contacts[c] # "absent"
    BY <1>0 DEF RemovedIds, AddedIds, UpdatedIds
  <2>4. /\ contacts'[c] = IF c \in values
                          THEN IF Shows(SourceOf[c]) THEN "shown" ELSE "hidden"
                          ELSE IF c \in keys THEN "absent" ELSE contacts[c]
        /\ known' = known
        /\ stale' = stale \cup values
        /\ early' = early \cup marked
        /\ deleted' = (deleted \ (keys \cup values)) \cup marked
    BY DEF IndividualsChanged
  <2>5. contacts[c] # "absent" => (contacts[c] = "shown" <=> Shows(SourceOf[c]))
    BY DEF IInv, SafeModeHides, Present
  <2> HIDE DEF gone, fresh, touched
  <2>6. QED
    BY <2>1, <2>2, <2>3, <2>4, <2>5 DEF Tracks
<1>3. ReadyInv' /\ NothingStuck'
  <2>1. CASE IsReady
    <3>1. \/ pending'.timer
          \/ pending' = pending
      BY <1>0, <2>1, InsertAllEffect DEF IndividualsChanged, IInv, TypeOK, Inserted
    <3>2. QED
      BY <2>1, <3>1 DEF IndividualsChanged, IInv, ReadyInv, NothingStuck, IsReady, Idle
  <2>2. CASE ~IsReady
    BY <2>2 DEF IndividualsChanged, InsertAll, IInv, ReadyInv, NothingStuck, IsReady, Idle
  <2>3. QED
    BY <2>1, <2>2
<1>4. SafeModeHides' /\ SafeModeInv'
  BY <1>0, SourceOfAssumption
  DEF IndividualsChanged, IInv, TypeOK, SafeModeHides, SafeModeInv, Present, Shows, safeVars
<1>5. QED
  BY <1>1, <1>2, <1>3, <1>4 DEF IInv

\* individualChanged touches one contact.
LEMMA IndividualChangedInv ==
  ASSUME IInv, NEW c \in Contact, IndividualChanged(c)
  PROVE  IInv'
<1>1. CASE contacts[c] = "shown" /\ IsReady
  <2>1. pending' = Changing(pending, {c}) /\ pending' \in Pending /\ pending'.timer
    BY <1>1, InsertTypes DEF IndividualChanged, IInv, TypeOK
  <2>2. TypeOK'
    BY <2>1 DEF IndividualChanged, IInv, TypeOK, bookVars, safeVars
  <2>3. TracksInv'
    BY <2>1 DEF IndividualChanged, IInv, TracksInv, Tracks, bookVars, safeVars, Changing
  <2>4. ReadyInv' /\ NothingStuck'
    BY <1>1, <2>1 DEF IndividualChanged, IInv, ReadyInv, NothingStuck, IsReady, bookVars, safeVars
  <2>5. SafeModeHides' /\ SafeModeInv'
    BY DEF IndividualChanged, IInv, SafeModeHides, SafeModeInv, Present, Shows, bookVars, safeVars
  <2>6. QED
    BY <2>2, <2>3, <2>4, <2>5 DEF IInv
<1>2. CASE ~(contacts[c] = "shown" /\ IsReady)
  <2>1. pending' = pending
    BY <1>2 DEF IndividualChanged
  <2>2. TypeOK'
    BY <2>1 DEF IndividualChanged, IInv, TypeOK, bookVars, safeVars
  <2>3. TracksInv'
    BY <1>2, <2>1 DEF IndividualChanged, IInv, TracksInv, Tracks, ReadyInv, bookVars, safeVars
  <2>4. ReadyInv' /\ NothingStuck'
    BY <2>1 DEF IndividualChanged, IInv, ReadyInv, NothingStuck, IsReady, Idle, bookVars, safeVars
  <2>5. SafeModeHides' /\ SafeModeInv'
    BY DEF IndividualChanged, IInv, SafeModeHides, SafeModeInv, Present, Shows, bookVars, safeVars
  <2>6. QED
    BY <2>2, <2>3, <2>4, <2>5 DEF IInv
<1>3. QED
  BY <1>1, <1>2

\* removeContactDone exempts the contacts it marks and names them all among
\* the removed ones.
LEMMA SoftRemovedInv ==
  ASSUME IInv, NEW ids \in SUBSET Present, NEW marking \in SUBSET ids,
         SoftRemoved(ids, marking)
  PROVE  IInv'
<1> DEFINE shown == {c \in marking : contacts[c] = "shown"}
           told == IF shown = {} THEN pending ELSE Changing(pending, shown)
<1>0. ids \in SUBSET Contact /\ shown \in SUBSET Contact
  BY DEF Present
<1>1. /\ told \in Pending
      /\ told.added = pending.added /\ told.removed = pending.removed
      /\ pending.changed \subseteq told.changed
  <2>1. CASE shown = {}
    BY <2>1 DEF IInv, TypeOK
  <2>2. CASE shown # {}
    <3>1. told = Changing(pending, shown)
      BY <2>2
    <3> HIDE DEF shown, told
    <3>2. QED
      BY <1>0, <3>1, InsertTypes DEF IInv, TypeOK, Changing
  <2>3. QED
    BY <2>1, <2>2
<1>2. /\ pending' = IF IsReady THEN Removing(told, ids) ELSE pending
      /\ deleted' = deleted \cup ids
      /\ early' = early \cup ids
      /\ UNCHANGED <<contacts, mapAlive, ready, edsLive, safeMode, invisible, owed, sources,
                     clientReady, known, stale>>
  BY DEF SoftRemoved, safeVars
<1> HIDE DEF shown, told
<1>3. pending' \in Pending
  BY <1>0, <1>1, <1>2, InsertTypes DEF IInv, TypeOK
<1>4. TypeOK'
  BY <1>0, <1>2, <1>3 DEF IInv, TypeOK
<1>5. TracksInv'
  <2> SUFFICES ASSUME clientReady', NEW c \in Contact
               PROVE  Tracks(c)'
    BY DEF TracksInv
  <2>1. Tracks(c) /\ IsReady
    BY <1>2 DEF IInv, TracksInv, ReadyInv
  <2>2. pending' = Removing(told, ids)
    BY <1>2, <2>1
  <2>3. /\ pending'.added = pending.added \ ids
        /\ pending'.removed = pending.removed \cup (ids \ pending.added)
        /\ pending.changed \subseteq pending'.changed
    BY <1>1, <2>2 DEF Removing
  <2>4. QED
    BY <1>2, <2>1, <2>3 DEF Tracks
<1>6. ReadyInv' /\ NothingStuck'
  <2>1. CASE IsReady
    <3>1. pending'.timer
      BY <1>0, <1>1, <1>2, <2>1, InsertTypes
    <3>2. QED
      BY <1>2, <2>1, <3>1 DEF IInv, ReadyInv, NothingStuck, IsReady
  <2>2. CASE ~IsReady
    BY <1>2, <2>2 DEF IInv, ReadyInv, NothingStuck, IsReady, Idle
  <2>3. QED
    BY <2>1, <2>2
<1>7. SafeModeHides' /\ SafeModeInv'
  BY <1>2 DEF IInv, SafeModeHides, SafeModeInv, Present, Shows
<1>8. QED
  BY <1>4, <1>5, <1>6, <1>7 DEF IInv

\* The end of an update command only adds to the changed contacts.
LEMMA UpdateContactsDoneInv ==
  ASSUME IInv, NEW ids \in SUBSET Contact, UpdateContactsDone(ids)
  PROVE  IInv'
<1>1. /\ pending' = IF IsReady THEN Changing(pending, ids) ELSE pending
      /\ stale' = stale \cup ids
      /\ UNCHANGED <<contacts, deleted, mapAlive, ready, edsLive, safeMode, invisible, owed, sources,
                     clientReady, known, early>>
  BY DEF UpdateContactsDone, bookVars, safeVars
<1>2. pending' \in Pending
  BY <1>1, InsertTypes DEF IInv, TypeOK
<1>3. TypeOK'
  BY <1>1, <1>2 DEF IInv, TypeOK
<1>4. TracksInv'
  <2> SUFFICES ASSUME clientReady', NEW c \in Contact
               PROVE  Tracks(c)'
    BY DEF TracksInv
  <2>1. Tracks(c) /\ IsReady
    BY <1>1 DEF IInv, TracksInv, ReadyInv
  <2>2. QED
    BY <1>1, <2>1 DEF Tracks, Changing
<1>5. ReadyInv' /\ NothingStuck'
  <2>1. CASE IsReady
    BY <1>1, <2>1, InsertTypes DEF IInv, TypeOK, ReadyInv, NothingStuck, IsReady
  <2>2. CASE ~IsReady
    BY <1>1, <2>2 DEF IInv, ReadyInv, NothingStuck, IsReady, Idle
  <2>3. QED
    BY <2>1, <2>2
<1>6. SafeModeHides' /\ SafeModeInv'
  BY <1>1 DEF IInv, SafeModeHides, SafeModeInv, Present, Shows
<1>7. QED
  BY <1>3, <1>4, <1>5, <1>6 DEF IInv

\* An emission settles every contact the sets named.
LEMMA TimeoutInv ==
  ASSUME IInv, Timeout
  PROVE  IInv'
<1>1. /\ pending' = Nothing /\ pending' \in Pending /\ Idle(pending')
      /\ pending'.changed = {} /\ pending'.added = {} /\ pending'.removed = {}
  BY DEF Timeout, Nothing, Pending, Idle
<1>2. TypeOK'
  BY <1>1 DEF Timeout, IInv, TypeOK, AfterSignals, StaleAfterSignals, EarlyAfterSignals,
              Pending, bookVars, safeVars
<1>3. TracksInv'
  BY <1>1 DEF Timeout, IInv, TypeOK, TracksInv, Tracks, AfterSignals, StaleAfterSignals,
              EarlyAfterSignals, UpdatesDue, bookVars, safeVars
<1>4. ReadyInv' /\ NothingStuck'
  BY <1>1 DEF Timeout, IInv, ReadyInv, NothingStuck, IsReady, bookVars, safeVars
<1>5. SafeModeHides' /\ SafeModeInv'
  BY DEF Timeout, IInv, SafeModeHides, SafeModeInv, Present, Shows, bookVars, safeVars
<1>6. QED
  BY <1>2, <1>3, <1>4, <1>5 DEF IInv

\* An idle coalescer is well typed and waits for nothing.
LEMMA NothingIdle == Idle(Nothing) /\ Nothing \in Pending
  BY DEF Idle, Nothing, Pending

\* A client that has just read everything agrees with an idle coalescer.
LEMMA RefetchTracks ==
  ASSUME Idle(pending)', Refetch
  PROVE  TracksInv'
  BY DEF TracksInv, Tracks, Refetch, Visible, Idle

\* Turning ready: the client reads the map, the coalescer is empty.
LEMMA BecomeReadyInv ==
  ASSUME IInv, BecomeReady
  PROVE  IInv'
<1>1. Idle(pending)' /\ pending' \in Pending /\ NothingStuck'
  <2>1. Idle(pending) /\ pending \in Pending
    BY DEF BecomeReady, IInv, TypeOK, ReadyInv
  <2>2. pending' = Nothing \/ pending' = pending
    BY DEF BecomeReady
  <2>3. Idle(pending)' <=> Idle(pending')
    BY DEF Idle
  <2>4. QED
    BY <2>1, <2>2, <2>3, NothingIdle DEF NothingStuck
<1>2. safeMode' = safeMode \/ (safeMode' = "on" /\ safeMode # "off")
  BY DEF BecomeReady, SafeModeAfterCheck
<1>3. TypeOK'
  BY <1>1, <1>2 DEF BecomeReady, IInv, TypeOK, Refetch, Visible
<1>4. TracksInv'
  BY <1>1, RefetchTracks DEF BecomeReady
<1>5. ReadyInv'
  BY <1>1 DEF BecomeReady, ReadyInv, IsReady
<1>6. SafeModeHides' /\ SafeModeInv'
  <2>1. CASE safeMode' = safeMode
    BY <2>1 DEF BecomeReady, IInv, SafeModeHides, SafeModeInv, Present, Shows
  <2>2. CASE safeMode' # safeMode
    <3>1. invisible' = {} /\ safeMode # "on"
      BY <1>2, <2>2 DEF BecomeReady, IInv, SafeModeInv
    <3>2. QED
      BY <3>1 DEF BecomeReady, IInv, SafeModeHides, SafeModeInv, Present, Shows
  <2>3. QED
    BY <2>1, <2>2
<1>7. QED
  BY <1>1, <1>3, <1>4, <1>5, <1>6 DEF IInv

\* The reload empties the map and sends the client offline.
LEMMA UnprepareFolksInv ==
  ASSUME IInv, NEW live \in BOOLEAN, UnprepareFolks(live)
  PROVE  IInv'
<1>1. pending' \in Pending /\ Idle(pending)' /\ ~ready'
  BY DEF UnprepareFolks, Nothing, Pending, Idle
<1>2. ~clientReady'
  BY DEF UnprepareFolks, IInv, ReadyInv, IsReady
<1>3. safeMode' = safeMode \/ safeMode' = "on"
  BY DEF UnprepareFolks, SafeModeAfterCheck
<1>4. Present' = {}
  BY DEF UnprepareFolks, Present
<1>5. TypeOK'
  <2>1. known' \in SUBSET Contact /\ stale' \in SUBSET Contact /\ early' \in SUBSET Contact
    BY DEF UnprepareFolks, IInv, TypeOK, Pending, AfterSignals, StaleAfterSignals, EarlyAfterSignals
  <2>2. /\ contacts' \in [Contact -> {"absent", "hidden", "shown"}]
        /\ mapAlive' \in BOOLEAN /\ deleted' \in SUBSET Contact
    BY DEF UnprepareFolks
  <2>3. /\ ready' \in BOOLEAN /\ edsLive' \in BOOLEAN /\ clientReady' \in BOOLEAN
    BY <1>1, <1>2 DEF UnprepareFolks
  <2>4. /\ invisible' \in SUBSET Source /\ owed' \in SUBSET Source
        /\ sources' \in SUBSET Source
    BY DEF UnprepareFolks, IInv, TypeOK
  <2>5. safeMode' \in {"unset", "on", "off"}
    BY <1>3 DEF IInv, TypeOK
  <2>6. QED
    BY <1>1, <2>1, <2>2, <2>3, <2>4, <2>5 DEF TypeOK
<1>6. SafeModeHides' /\ SafeModeInv'
  BY <1>3, <1>4 DEF UnprepareFolks, IInv, SafeModeHides, SafeModeInv
<1>7. QED
  BY <1>1, <1>2, <1>5, <1>6 DEF IInv, TracksInv, ReadyInv, NothingStuck

\* The steps of prepareFolks and of EDS coming back announce nothing.
LEMMA PrepareInv ==
  ASSUME IInv, PrepareFolks \/ EdsCame
  PROVE  IInv'
<1>1. TypeOK'
  BY DEF PrepareFolks, EdsCame, IInv, TypeOK, safeVars, clientVars
<1>2. TracksInv' /\ NothingStuck'
  BY DEF PrepareFolks, EdsCame, IInv, TracksInv, Tracks, NothingStuck, safeVars, clientVars
<1>3. ReadyInv'
  BY DEF PrepareFolks, EdsCame, IInv, ReadyInv, IsReady, safeVars, clientVars
<1>4. SafeModeHides' /\ SafeModeInv'
  BY DEF PrepareFolks, EdsCame, IInv, SafeModeHides, SafeModeInv, Present, Shows, safeVars, clientVars
<1>5. QED
  BY <1>1, <1>2, <1>3, <1>4 DEF IInv

\* A new source holds no contact yet, so hiding it hides nobody.
LEMMA CreateSourceInv ==
  ASSUME IInv, NEW s \in Source, CreateSourceDone(s)
  PROVE  IInv'
<1>1. TypeOK'
  BY DEF CreateSourceDone, IInv, TypeOK, bookVars, clientVars
<1>2. TracksInv' /\ NothingStuck' /\ ReadyInv'
  BY DEF CreateSourceDone, IInv, TracksInv, Tracks, NothingStuck, ReadyInv, IsReady, bookVars, clientVars
<1>3. \A c \in Present : SourceOf[c] # s
  BY DEF CreateSourceDone, IInv, SafeModeInv
<1>4. SafeModeHides'
  BY <1>3 DEF CreateSourceDone, IInv, SafeModeHides, Present, Shows, bookVars
<1>5. SafeModeInv'
  BY DEF CreateSourceDone, IInv, SafeModeInv, Present, bookVars
<1>6. QED
  BY <1>1, <1>2, <1>4, <1>5 DEF IInv

\* Switching the safe mode drops the pending sets, but the client reads anew.
LEMMA SafeModeStepInv ==
  ASSUME IInv, LeaveSafeMode \/ EnterSafeMode
  PROVE  IInv'
<1>1. Idle(pending)' /\ pending' \in Pending /\ NothingStuck' /\ Refetch
  <2>1. pending' = Nothing /\ Refetch
    BY DEF LeaveSafeMode, EnterSafeMode
  <2>2. Idle(pending)' <=> Idle(pending')
    BY DEF Idle
  <2>3. QED
    BY <2>1, <2>2, NothingIdle DEF NothingStuck
<1>2. contacts' \in [Contact -> {"absent", "hidden", "shown"}]
  BY DEF LeaveSafeMode, EnterSafeMode, IInv, TypeOK, bookVars
<1>3. TypeOK'
  BY <1>1, <1>2 DEF LeaveSafeMode, EnterSafeMode, IInv, TypeOK, Refetch, Visible, bookVars
<1>4. TracksInv'
  BY <1>1, RefetchTracks
<1>5. ReadyInv'
  BY <1>1 DEF LeaveSafeMode, EnterSafeMode, IInv, ReadyInv, IsReady, bookVars
<1>6. SafeModeHides' /\ SafeModeInv'
  BY DEF LeaveSafeMode, EnterSafeMode, IInv, TypeOK, SafeModeHides, SafeModeInv, Present, Shows, bookVars
<1>7. QED
  BY <1>1, <1>3, <1>4, <1>5, <1>6 DEF IInv

\* A client that reads agrees with the map about everything that is not
\* pending.
LEMMA ClientReadsInv ==
  ASSUME IInv, ClientReads
  PROVE  IInv'
<1>1. UNCHANGED <<contacts, deleted, mapAlive, ready, edsLive, safeMode, invisible, owed, sources,
                pending, clientReady>>
  BY DEF ClientReads, bookVars, safeVars
<1>2. TypeOK'
  BY <1>1 DEF ClientReads, IInv, TypeOK, Visible, Pending
<1>3. TracksInv'
  BY <1>1 DEF ClientReads, IInv, TracksInv, Tracks, Visible
<1>4. ReadyInv' /\ NothingStuck'
  BY <1>1 DEF IInv, ReadyInv, NothingStuck, IsReady, Idle
<1>5. SafeModeHides' /\ SafeModeInv'
  BY <1>1 DEF IInv, SafeModeHides, SafeModeInv, Present, Shows
<1>6. QED
  BY <1>2, <1>3, <1>4, <1>5 DEF IInv

LEMMA NextInv == IInv /\ [Next]_vars => IInv'
<1> SUFFICES ASSUME IInv, [Next]_vars PROVE IInv'
  OBVIOUS
<1>1. CASE FolksChanges
  BY <1>1, IndividualsChangedInv DEF FolksChanges
<1>2. CASE \E c \in Contact : IndividualChanged(c)
  BY <1>2, IndividualChangedInv
<1>3. CASE Timeout
  BY <1>3, TimeoutInv
<1>4. CASE BecomeReady
  BY <1>4, BecomeReadyInv
<1>5. CASE EdsDied \/ Reload
  BY <1>5, UnprepareFolksInv DEF EdsDied, Reload, IInv, TypeOK
<1>6. CASE PrepareFolks \/ EdsCame
  BY <1>6, PrepareInv
<1>7. CASE \E s \in Source : CreateSourceDone(s)
  BY <1>7, CreateSourceInv
<1>8. CASE LeaveSafeMode \/ EnterSafeMode
  BY <1>8, SafeModeStepInv
<1>9. CASE ClientReads
  BY <1>9, ClientReadsInv
<1>10. CASE UNCHANGED vars
  <2>1. /\ UNCHANGED <<contacts, deleted, mapAlive, ready, edsLive, safeMode, invisible, owed, sources>>
        /\ UNCHANGED <<pending, clientReady, known, stale, early>>
    BY <1>10 DEF vars, bookVars, safeVars, clientVars
  <2>2. QED
    BY <2>1 DEF IInv, TypeOK, TracksInv, Tracks, ReadyInv, NothingStuck, SafeModeHides,
                SafeModeInv, Present, Shows, IsReady, Idle
<1>11. CASE \E ids \in SUBSET Present : \E marking \in SUBSET ids : SoftRemoved(ids, marking)
  BY <1>11, SoftRemovedInv
<1>12. CASE \E ids \in SUBSET Contact : UpdateContactsDone(ids)
  BY <1>12, UpdateContactsDoneInv
<1>13. QED
  BY <1>1, <1>2, <1>3, <1>4, <1>5, <1>6, <1>7, <1>8, <1>9, <1>10, <1>11, <1>12
  DEF Next, ServiceStep, ContactStep

-----------------------------------------------------------------------------
(* Theorems of the specification. *)

\* The inductive invariant holds throughout.
THEOREM Inductive == Spec => []IInv
  BY InitInv, NextInv, PTL DEF Spec

\* Type correctness: the members of AddressBook and of its coalescer keep to
\* their types.
THEOREM TypeCorrect == Spec => []TypeOK
<1>1. IInv => TypeOK
  BY DEF IInv
<1>2. QED
  BY <1>1, Inductive, PTL

\* A visible contact is one Tracks accounts for.
LEMMA TracksIsMirror == IInv => MirrorInv
<1> SUFFICES ASSUME IInv, clientReady
             PROVE  /\ AfterSignals(pending, known) \ early = Visible \ early
                    /\ pending.added \subseteq Visible \cup deleted
                    /\ pending.removed \cap Visible = {}
  BY DEF MirrorInv
<1>1. known \subseteq Contact /\ pending.added \subseteq Contact
  BY DEF IInv, TypeOK, Pending
<1>2. \A c \in Contact \ early : c \in AfterSignals(pending, known) <=> c \in Visible
  BY DEF IInv, TracksInv, Tracks, AfterSignals, Visible
<1>3. AfterSignals(pending, known) \subseteq Contact /\ Visible \subseteq Contact
  BY <1>1 DEF AfterSignals, Visible
<1>4. pending.added \subseteq Visible \cup deleted /\ pending.removed \cap Visible = {}
  BY <1>1 DEF IInv, TracksInv, Tracks, Visible
<1>5. QED
  BY <1>2, <1>3, <1>4

\* The signals pending in the coalescer are exactly the difference between
\* what an online client knows and what the service shows.
THEOREM Mirror == Spec => []MirrorInv
  BY TracksIsMirror, Inductive, PTL

\* contactsAdded and contactsRemoved never repeat what the client knows.
THEOREM News == Spec => []NewsInv
<1>1. IInv => NewsInv
  BY DEF IInv, TypeOK, Pending, TracksInv, Tracks, NewsInv
<1>2. QED
  BY <1>1, Inductive, PTL

\* No change of a visible contact is lost by the coalescer.
THEOREM Updates == Spec => []NoLostUpdate
<1>1. IInv => NoLostUpdate
  BY DEF IInv, TypeOK, TracksInv, Tracks, NoLostUpdate, UpdatesDue, Visible
<1>2. QED
  BY <1>1, Inductive, PTL

\* A notification never waits without a running timer, a client that thinks
\* the service ready is right, and hidden means hidden by the safe mode.
THEOREM Gates == Spec => [](NothingStuck /\ ReadyInv /\ SafeModeHides /\ SafeModeInv)
<1>1. IInv => NothingStuck /\ ReadyInv /\ SafeModeHides /\ SafeModeInv
  BY DEF IInv
<1>2. QED
  BY <1>1, Inductive, PTL

-----------------------------------------------------------------------------
(* The service implements the feed. *)

\* What a step may do to the client: nothing but exempt contacts, bring it up
\* to date, connect it, or leave it offline.
LEMMA ClientSteps ==
  ASSUME IInv, IInv', Next
  PROVE  \/ UNCHANGED <<known, clientReady>> /\ early \subseteq early'
         \/ clientReady /\ clientReady' /\ known' \ early' = Visible' \ early'
         \/ ~clientReady /\ clientReady' /\ known' \ early' = Visible' \ early'
         \/ ~clientReady'
<1>1. CASE FolksChanges
  BY <1>1 DEF FolksChanges, IndividualsChanged
<1>2. CASE \E c \in Contact : IndividualChanged(c)
  BY <1>2 DEF IndividualChanged
<1>3. CASE Timeout
  <2>1. /\ UNCHANGED <<contacts, deleted, clientReady>>
        /\ known' = AfterSignals(pending, known)
        /\ early' = (early \ (pending.added \cup pending.removed)) \cup deleted
    BY <1>3 DEF Timeout, EarlyAfterSignals, bookVars
  <2>2. clientReady => known' \ early' = Visible \ early'
    BY <2>1, TracksIsMirror DEF MirrorInv, AfterSignals
  <2>3. Visible' = Visible
    BY <2>1 DEF Visible
  <2>4. clientReady \in BOOLEAN
    BY DEF IInv, TypeOK
  <2>5. QED
    BY <2>1, <2>2, <2>3, <2>4
<1>4. CASE BecomeReady
  <2>1. ~clientReady /\ known' = Visible'
    BY <1>4 DEF BecomeReady, Refetch, IInv, ReadyInv, IsReady
  <2>2. QED
    BY <2>1
<1>5. CASE EdsDied \/ Reload
  <2>1. ~clientReady'
    BY <1>5 DEF EdsDied, Reload, UnprepareFolks, IInv, ReadyInv, IsReady
  <2>2. QED
    BY <2>1
<1>6. CASE PrepareFolks \/ EdsCame
  BY <1>6 DEF PrepareFolks, EdsCame, clientVars
<1>7. CASE \E s \in Source : CreateSourceDone(s)
  BY <1>7 DEF CreateSourceDone, clientVars
<1>8. CASE LeaveSafeMode \/ EnterSafeMode
  <2>1. UNCHANGED clientReady /\ known' = Visible'
    BY <1>8 DEF LeaveSafeMode, EnterSafeMode, Refetch
  <2>2. clientReady \in BOOLEAN
    BY DEF IInv, TypeOK
  <2>3. QED
    BY <2>1, <2>2
<1>9. CASE ClientReads
  <2>1. UNCHANGED <<contacts, deleted, clientReady>> /\ known' = Visible
    BY <1>9 DEF ClientReads, bookVars
  <2>2. Visible' = Visible
    BY <2>1 DEF Visible
  <2>3. clientReady
    BY <1>9 DEF ClientReads
  <2>4. QED
    BY <2>1, <2>2, <2>3
<1>10. CASE \E ids \in SUBSET Present : \E marking \in SUBSET ids : SoftRemoved(ids, marking)
  BY <1>10 DEF SoftRemoved
<1>11. CASE \E ids \in SUBSET Contact : UpdateContactsDone(ids)
  BY <1>11 DEF UpdateContactsDone
<1>12. QED
  BY <1>1, <1>2, <1>3, <1>4, <1>5, <1>6, <1>7, <1>8, <1>9, <1>10, <1>11
  DEF Next, ServiceStep, ContactStep

\* Refinement: an online client's knowledge only ever moves to exactly the
\* contacts the service shows at that moment, but for those in early.
THEOREM Implements == Spec => ImplementsFeed
<1>1. Init => Feed!Init
  <2>1. Init => Visible = {}
    BY DEF Init, Visible
  <2>2. QED
    BY <2>1 DEF Init, Feed!Init
<1>2. IInv /\ IInv' /\ [Next]_vars => [Feed!Next]_(Feed!feedVars)
  <2> SUFFICES ASSUME IInv, IInv', [Next]_vars
               PROVE  [Feed!Next]_(Feed!feedVars)
    OBVIOUS
  <2>1. Feed!TypeOK' /\ clientReady \in BOOLEAN /\ clientReady' \in BOOLEAN
    BY DEF Visible, IInv, TypeOK, Feed!TypeOK
  <2>2. CASE UNCHANGED vars
    <3>1. UNCHANGED <<contacts, deleted, known, early, clientReady>>
      BY <2>2 DEF vars, bookVars, clientVars
    <3>2. Visible' = Visible
      BY <3>1 DEF Visible
    <3>3. QED
      BY <3>1, <3>2 DEF Feed!feedVars
  <2>3. CASE Next
    <3>1. \/ UNCHANGED <<known, clientReady>> /\ early \subseteq early'
          \/ clientReady /\ clientReady' /\ known' \ early' = Visible' \ early'
          \/ ~clientReady /\ clientReady' /\ known' \ early' = Visible' \ early'
          \/ ~clientReady'
      BY <2>3, ClientSteps
    <3>2. CASE UNCHANGED <<known, clientReady>> /\ early \subseteq early'
      BY <2>1, <3>2 DEF Feed!Next, Feed!Change
    <3>3. CASE clientReady /\ clientReady' /\ known' \ early' = Visible' \ early'
      BY <2>1, <3>3 DEF Feed!Next, Feed!Publish, Feed!UpToDate
    <3>4. CASE ~clientReady /\ clientReady' /\ known' \ early' = Visible' \ early'
      BY <2>1, <3>4 DEF Feed!Next, Feed!Connect, Feed!UpToDate
    <3>5. CASE ~clientReady'
      BY <2>1, <3>5 DEF Feed!Next, Feed!Disconnect
    <3>6. QED
      BY <3>1, <3>2, <3>3, <3>4, <3>5
  <2>4. QED
    BY <2>2, <2>3
<1>3. QED
  BY <1>1, <1>2, Inductive, PTL DEF Spec, ImplementsFeed, Feed!Spec
=============================================================================
