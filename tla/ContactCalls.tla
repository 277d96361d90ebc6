---------------------------- MODULE ContactCalls ----------------------------
(***************************************************************************)
(* The calls that create, remove and purge contacts (lib/addressbook.cpp), *)
(* together with the calls about sources they race with.                   *)
(*                                                                         *)
(* A contact lives in a source of EDS; folks announces it when it has the  *)
(* store of that source, and only then it has an entry in the map.         *)
(* Removal marks a contact as deleted (markAsDeleted) and only asks folks  *)
(* to remove it when that fails; purge removes the marked contacts of a    *)
(* source for good.  How the marks are announced is in AddressBookChanges. *)
(***************************************************************************)
EXTENDS SourceCalls

CONSTANT Contacts

\* Contacts are all the ids a removal can name, of contacts there are or not.
ASSUME IdsAssumption ==
    \A r \in Requests : r.kind = "removeContacts" => r.ids \in Seq(Contacts)

VARIABLES
    home,         \* per contact: the source EDS keeps it in, or None
    marked,       \* contacts EDS keeps with a mark of deletion
    entries,      \* ids of m_contacts
    told,         \* contacts whose removal was handed to the coalescer
    kept          \* history, per call: contacts it found no entry of, or could not remove

contactVars == <<home, marked, entries, told, kept>>
vars == <<replyVars, serviceVars, sourceVars, contactVars>>

Init ==
    /\ RepliesInit /\ SourcesInit
    /\ home \in [Contacts -> {None} \union stores]
    /\ marked = {}
    /\ entries = {p \in Contacts : home[p] # None}
    /\ told = {}
    /\ kept = [c \in Calls |-> {}]

---------------------------------------------------------------------------
\* createContact

\* getFolksStore: the store of the source asked for or, if none was, of the default;
\* the primary store when folks has no such store.
GetFolksStore(s) ==
    LET wanted == IF s = None THEN default ELSE s
    IN  IF wanted \in stores THEN wanted ELSE PrimaryStore

\* Without a map the lookup of the contact follows a null pointer; without any store
\* the assertion in getFolksStore fails.
CreateContact(c) ==
    /\ Runs(c, "createContact")
    /\ LET r == call[c].request IN
          \/ ~MapAlive /\ Dies("map")
          \/ MapAlive /\ r.contact \in entries /\ Answer(c, "") /\ UNCHANGED serviceVars
          \/ /\ MapAlive /\ r.contact \notin entries
             /\ IF GetFolksStore(r.source) = None
                THEN Dies("store")
                ELSE /\ Works(c, [wait |-> "add", store |-> GetFolksStore(r.source)])
                     /\ UNCHANGED serviceVars
    /\ UNCHANGED <<sourceVars, contactVars>>

\* EDS stores the contact, or refuses: folks may announce it before it calls back.
PersonaAdded(c) ==
    /\ Working(c, "createContact") /\ call[c].data.wait = "add"
    /\ LET p == call[c].request.contact
           s == call[c].data.store IN
          \/ /\ home[p] = None /\ registry[s] = "enabled"
             /\ home' = [home EXCEPT ![p] = s]
             /\ marked' = marked \ {p}
             /\ call' = [call EXCEPT ![c].data.wait = "added"]
          \/ /\ call' = [call EXCEPT ![c].data.wait = "failed"]
             /\ UNCHANGED <<home, marked>>
    /\ UNCHANGED <<queue, serviceVars, sourceVars, entries, told, kept>>

\* createContactDone answers with the entry of the new contact, if there is one by now.
CreateContactDone(c) ==
    /\ Working(c, "createContact")
    /\ \/ call[c].data.wait = "failed" /\ Answer(c, "error") /\ UNCHANGED serviceVars
       \/ call[c].data.wait = "added" /\ ~MapAlive /\ Dies("map")
       \/ /\ call[c].data.wait = "added" /\ MapAlive
          /\ LET p == call[c].request.contact
             IN  Answer(c, IF p \in entries THEN p ELSE "lost")
          /\ UNCHANGED serviceVars
    /\ UNCHANGED <<queue, sourceVars, contactVars>>

---------------------------------------------------------------------------
\* removeContacts and purgeContacts: removeContactDone calls itself for the contacts it
\* has nothing to wait for (marked ones and ones without an entry), so one turn handles
\* the ids up to the first that folks has to remove.

\* Mutant: a contact that cannot be marked is skipped.
FirstHardSkipping(left, soft, bad) == SelectInSeq(left, LAMBDA p : p \in entries /\ ~soft)

\* The place of the first contact of left that needs folks; bad are the contacts whose
\* mark EDS refuses to store.
FirstHard(left, soft, bad) ==
    SelectInSeq(left, LAMBDA p : p \in entries /\ ~(soft /\ p \notin bad))

Softly(left, soft) == {p \in ToSet(left) : soft /\ p \in entries}

\* Which of the marked contacts insertRemovedContacts gets, after the turn that ends with
\* the contact at place i, or with the reply: all of them, from the last to the first.
Announced(i, marks) == marks

\* The turn of removeContactDone for the rest of the ids: count contacts have been
\* removed so far, failed is the one that just was not.  After the calls of itself
\* return, each marked contact is announced as removed through removeData, which is
\* deleted if the innermost call sent the reply: the process dies or gets away with it.
RemoveTurn(c, left, count, soft, failed) ==
    IF left # <<>> /\ ~MapAlive
    THEN Dies("map") /\ UNCHANGED <<marked, told, kept>>
    ELSE \E bad \in SUBSET Softly(left, soft) :
            LET i == FirstHard(left, soft, bad)
                done == IF i = 0 THEN left ELSE SubSeq(left, 1, i - 1)
                marks == Softly(done, soft) \ bad
            IN  /\ marked' = marked \union marks
                /\ kept' = [kept EXCEPT ![c] = @ \union failed \union (ToSet(done) \ entries)]
                /\ IF i = 0
                   THEN Answer(c, count)
                   ELSE Works(c, [wait |-> "remove", current |-> left[i], count |-> count,
                                  left |-> SubSeq(left, i + 1, Len(left)), soft |-> soft])
                /\ \/ told' = told \union Announced(i, marks) /\ UNCHANGED serviceVars
                   \/ /\ i = 0 /\ marks # {}
                      /\ crashed' = "freed"
                      /\ UNCHANGED <<told, folks, reloads>>

RemoveContacts(c) ==
    /\ Runs(c, "removeContacts")
    /\ RemoveTurn(c, call[c].request.ids, 0, TRUE, {})
    /\ UNCHANGED <<sourceVars, home, entries>>

\* purgeContacts runs when the call is taken off the bus, before the slots that are
\* queued; the call is answered when it returns, and once more when it is done.  The
\* marks here are all newer than the date asked for.
PurgeContacts(c) ==
    /\ Alive /\ IsNext(c)
    /\ \E r \in Requests :
          /\ r.kind = "purge"
          /\ IF ~MapAlive
             THEN Dies("map")
             ELSE \E ids \in SetToSeqs({p \in entries \cap marked : home[p] = r.source}) :
                     /\ call' = [call EXCEPT ![c] =
                           IF ids = <<>>
                           THEN [stage |-> "done", request |-> r, data |-> Nothing,
                                 answers |-> <<0, "returned">>]
                           ELSE [stage |-> "working", request |-> r, answers |-> <<"returned">>,
                                 data |-> [wait |-> "remove", current |-> Head(ids), count |-> 0,
                                           left |-> Tail(ids), soft |-> FALSE]]]
                     /\ UNCHANGED serviceVars
    /\ UNCHANGED <<queue, sourceVars, contactVars>>

\* The callback of folks: the contact is removed, or is not.
RemoveContactDone(c) ==
    /\ \E kind \in {"removeContacts", "purge"} : Working(c, kind)
    /\ LET d == call[c].data IN
          \/ /\ home' = [home EXCEPT ![d.current] = None]
             /\ RemoveTurn(c, d.left, d.count + 1, d.soft, {})
          \/ /\ RemoveTurn(c, d.left, d.count, d.soft, {d.current})
             /\ UNCHANGED home
    /\ UNCHANGED <<queue, sourceVars, entries>>

---------------------------------------------------------------------------
\* Folks announces the contacts of its stores, and what leaves them.

FolksAdds(p) ==
    /\ Alive /\ MapAlive /\ home[p] \in stores /\ p \notin entries
    /\ entries' = entries \union {p}
    /\ UNCHANGED <<replyVars, serviceVars, sourceVars, home, marked, told, kept>>

FolksRemoves(p) ==
    /\ Alive /\ MapAlive /\ p \in entries /\ home[p] \notin stores
    /\ entries' = entries \ {p}
    /\ told' = told \union {p}
    /\ UNCHANGED <<replyVars, serviceVars, sourceVars, home, marked, kept>>

Reload ==
    \/ /\ Unprepare
       /\ entries' = {}
       /\ UNCHANGED <<sourceVars, home, marked, told, kept>>
    \/ /\ Unprepared \/ Prepare
       /\ UNCHANGED <<sourceVars, contactVars>>

Next ==
    \/ \E c \in Calls :
          \/ Arrive(c) /\ UNCHANGED <<sourceVars, contactVars>>
          \/ SourceCallsNext(c) /\ UNCHANGED contactVars
          \/ CreateContact(c) \/ PersonaAdded(c) \/ CreateContactDone(c)
          \/ RemoveContacts(c) \/ PurgeContacts(c) \/ RemoveContactDone(c)
    \/ \E s \in Sources : (StoreAppears(s) \/ StoreVanishes(s)) /\ UNCHANGED contactVars
    \/ \E p \in Contacts : FolksAdds(p) \/ FolksRemoves(p)
    \/ Reload

\* The main loop runs queued slots, folks and EDS answer, a reload ends.
Fairness ==
    /\ \A c \in Calls :
          /\ WF_vars(SourceCallsNext(c) /\ UNCHANGED contactVars)
          /\ WF_vars(\/ CreateContact(c) \/ PersonaAdded(c) \/ CreateContactDone(c)
                     \/ RemoveContacts(c) \/ RemoveContactDone(c))
    /\ WF_vars((Unprepared \/ Prepare) /\ UNCHANGED <<sourceVars, contactVars>>)

Spec == Init /\ [][Next]_vars /\ Fairness

---------------------------------------------------------------------------
\* Every call is answered once, when its data goes, whatever failed and however the
\* calls overlap; only a purge is answered twice, the first time before its removals.
OneAnswer ==
    \A c \in Calls :
        Len(call[c].answers) = (IF call[c].stage = "done" THEN 1 ELSE 0)
                             + (IF Kind(c) = "purge" THEN 1 ELSE 0)

\* What a removal was asked to remove is marked or gone when it is answered, also if
\* its contacts, sources or the map went away while folks was busy with one of them:
\* but for contacts it had no entry of or could not remove, and ones created again.
RemovedUnlessKept ==
    \A c \in Calls :
        Kind(c) = "removeContacts" /\ call[c].stage = "done" =>
            \A p \in ToSet(call[c].request.ids) :
                \/ p \in marked \/ home[p] = None \/ p \in kept[c]
                \/ \E d \in Calls : Kind(d) = "createContact" /\ call[d].request.contact = p

\* A contact that was marked as deleted, and so is left out by every query, is announced
\* as removed, unless the process died on the way out of removeContactDone.
MarkedAreTold == crashed # "freed" => marked \subseteq told

\* A removal is done when it is answered, and seen by everybody.
RemovalsReal == RemovedUnlessKept /\ MarkedAreTold

\* The answers about sources are true when folks had a primary store: a source that is
\* said to be created is in the registry, and an update answers with sources it was asked
\* for, in their order, leaving out the others without a sign of which they are.
SourceAnswersTrue ==
    \A c \in Calls \ blind :
        call[c].stage = "done" =>
            LET a == call[c].answers[1] IN
            /\ Kind(c) = "createSource" => a.id = None \/ InRegistry(a.id)
            /\ Kind(c) = "updateSources" =>
                  \E f \in [1..Len(a) -> 1..Len(call[c].request.list)] :
                      /\ \A i \in 1..Len(a) : a[i].id = call[c].request.list[f[i]]
                      /\ \A i, j \in 1..Len(a) : i < j => f[i] < f[j]

\* Every call is answered in the end, or the process has died.
CallsEnd ==
    \A c \in Calls :
        call[c].stage \in {"queued", "working"} ~> call[c].stage = "done" \/ ~Alive
=============================================================================
