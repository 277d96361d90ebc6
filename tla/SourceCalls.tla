----------------------------- MODULE SourceCalls -----------------------------
(***************************************************************************)
(* The calls about sources (lib/addressbook.cpp).  The sources are in the  *)
(* registry of EDS; what folks has of them, its persona stores, follows    *)
(* later.  Creation and update go to the registry, removal and the lists   *)
(* look into the stores of folks.                                          *)
(*                                                                         *)
(* main.cpp makes the store of system-address-book the primary store of    *)
(* folks: there is one while folks runs and has that store.  What the safe *)
(* mode adds to createSourceDone is in AddressBookChanges.                 *)
(***************************************************************************)
EXTENDS DelayedReplies

CONSTANTS
    Sources,      \* ids of sources
    Fresh,        \* ids for sources that are created: QUuid gives each only once
    System        \* "system-address-book"

\* Sources are all the ids a call can name, of sources there are or not.
ASSUME SourcesAssumption ==
    \A r \in Requests :
       /\ r.kind = "createSource" => r.source \in Sources
       /\ r.kind = "updateSources" => r.list \in Seq(Sources)

VARIABLES
    registry,     \* per source: "absent", "enabled", "disabled" in the registry of EDS, as
                  \* the service has it: "disabled" may not have been written
    stores,       \* the persona stores of the EDS backend of folks
    default,      \* the default address book of the registry
    blind         \* history: calls that ran when folks had no primary store

sourceVars == <<registry, stores, default, blind>>

None == "none"
NoSource == [id |-> None]

SourcesInit ==
    /\ stores \in {S \in SUBSET (Sources \ Fresh) : System \in S}
    /\ registry = [s \in Sources |-> IF s \in stores THEN "enabled" ELSE "absent"]
    /\ default = System
    /\ blind = {}

PrimaryStore == IF folks # "unprepared" /\ System \in stores THEN System ELSE None
InRegistry(s) == registry[s] # "absent"

\* The source as parseEDSSource describes it.
ParseEDSSource(s) == [id |-> s, isPrimary |-> s = default]

---------------------------------------------------------------------------
\* createSource: without a primary store the type of the store is taken to be "dummy",
\* the backend of the tests, and the caller gets a source that nobody creates.
CreateSource(c) ==
    /\ Runs(c, "createSource")
    /\ LET r == call[c].request IN
          IF PrimaryStore = None
          THEN /\ Answer(c, [id |-> r.source, isPrimary |-> FALSE])
               /\ blind' = blind \union {c}
          ELSE /\ \/ Works(c, [wait |-> "commit"])
                  \/ Answer(c, NoSource)           \* create_esource_from_data failed
               /\ UNCHANGED blind
    /\ UNCHANGED <<registry, stores, default, serviceVars>>

\* Mutant: the error of the commit is not looked at.
CreateSourceDoneUnchecked(c) ==
    /\ Working(c, "createSource")
    /\ LET r == call[c].request IN
          /\ Answer(c, [id |-> r.source, isPrimary |-> r.primary])
          /\ \/ /\ registry' = [registry EXCEPT ![r.source] = "enabled"]
                /\ default' = IF r.primary THEN r.source ELSE default
             \/ UNCHANGED <<registry, default>>
    /\ UNCHANGED <<queue, stores, blind, serviceVars>>

\* createSourceDone: EDS has stored the source or refused it.
CreateSourceDone(c) ==
    /\ Working(c, "createSource")
    /\ LET r == call[c].request IN
          \/ /\ registry' = [registry EXCEPT ![r.source] = "enabled"]
             /\ default' = IF r.primary THEN r.source ELSE default
             /\ Answer(c, [id |-> r.source, isPrimary |-> r.primary])
          \/ Answer(c, NoSource) /\ UNCHANGED <<registry, default>>
    /\ UNCHANGED <<queue, stores, blind, serviceVars>>

---------------------------------------------------------------------------
Found(left) == SelectInSeq(left, LAMBDA s : InRegistry(s))

\* Mutant: an update that stops at the first source the registry does not have.
UpdateFromStopping(c, left, result, primary) ==
    IF left = <<>>
    THEN Answer(c, result) /\ UNCHANGED default
    ELSE IF ~InRegistry(Head(left))
    THEN UNCHANGED <<call, default>>
    ELSE /\ Works(c, [wait |-> "commit", current |-> Head(left), result |-> result,
                      left |-> Tail(left)])
         /\ default' = IF Head(left) = primary THEN Head(left) ELSE default

\* updateSourcesEDS for the rest of the list: sources the registry does not have are
\* skipped; the first it has is made the default if the caller says so, and committed.
UpdateFrom(c, left, result, primary) ==
    LET i == Found(left) IN
    IF i = 0
    THEN Answer(c, result) /\ UNCHANGED default
    ELSE /\ Works(c, [wait |-> "commit", current |-> left[i], result |-> result,
                      left |-> SubSeq(left, i + 1, Len(left))])
         /\ default' = IF left[i] = primary THEN left[i] ELSE default

UpdateSources(c) ==
    /\ Runs(c, "updateSources")
    /\ LET r == call[c].request IN
          \/ /\ PrimaryStore = None
             /\ Answer(c, <<>>)
             /\ blind' = blind \union {c}
             /\ UNCHANGED default
          \/ /\ PrimaryStore # None
             /\ \/ UpdateFrom(c, r.list, <<>>, r.primary)
                \/ Answer(c, <<>>) /\ UNCHANGED default     \* no registry
             /\ UNCHANGED blind
    /\ UNCHANGED <<registry, stores, serviceVars>>

\* updateSourceEDSDone: an error leaves the source out of the result.
UpdateSourceEDSDone(c) ==
    /\ Working(c, "updateSources")
    /\ LET d == call[c].data IN
          \/ UpdateFrom(c, d.left, Append(d.result, ParseEDSSource(d.current)),
                        call[c].request.primary)
          \/ UpdateFrom(c, d.left, d.result, call[c].request.primary)
    /\ UNCHANGED <<queue, registry, stores, blind, serviceVars>>

---------------------------------------------------------------------------
Disabled(s) == [registry EXCEPT ![s] = IF @ = "absent" THEN @ ELSE "disabled"]

\* Mutant: the failure is reported as well for a source that was found.
RemoveSourceTwice(c) ==
    /\ Runs(c, "removeSource")
    /\ IF call[c].request.source \in stores
       THEN /\ call' = [call EXCEPT ![c] = [@ EXCEPT !.stage = "working", !.answers = <<FALSE>>]]
            /\ registry' = Disabled(call[c].request.source)
       ELSE Answer(c, FALSE) /\ UNCHANGED registry
    /\ UNCHANGED <<stores, default, blind, serviceVars>>

\* removeSource disables the source of a store that folks has, in the service's own
\* registry, and asks EDS to write this down.
RemoveSource(c) ==
    /\ Runs(c, "removeSource")
    /\ IF call[c].request.source \in stores
       THEN /\ Works(c, [wait |-> "write"])
            /\ registry' = Disabled(call[c].request.source)
       ELSE Answer(c, FALSE) /\ UNCHANGED registry
    /\ UNCHANGED <<stores, default, blind, serviceVars>>

\* removeSourceDone: when EDS could not write it the source stays disabled here.
RemoveSourceDone(c) ==
    /\ Working(c, "removeSource")
    /\ Answer(c, TRUE) \/ Answer(c, FALSE)
    /\ UNCHANGED <<queue, sourceVars, serviceVars>>

\* getSource: all stores, or "the default": the first of them, in the order of a hash
\* table of folks.  (An unprepared backend store would be prepared first.)
AvailableSourcesDoneImpl == {ParseEDSSource(s) : s \in stores}

GetSource(c) ==
    /\ \/ /\ Runs(c, "availableSources")
          /\ Answer(c, AvailableSourcesDoneImpl)
       \/ /\ Runs(c, "source")
          /\ IF stores = {}
             THEN Answer(c, NoSource)
             ELSE \E first \in AvailableSourcesDoneImpl : Answer(c, first)
    /\ UNCHANGED <<sourceVars, serviceVars>>

SourceCallsNext(c) ==
    \/ CreateSource(c) \/ UpdateSources(c) \/ RemoveSource(c) \/ GetSource(c)
    \/ CreateSourceDone(c) \/ UpdateSourceEDSDone(c) \/ RemoveSourceDone(c)

---------------------------------------------------------------------------
\* Folks follows the registry, except while its EDS backend is unprepared.

StoreAppears(s) ==
    /\ Alive /\ MapAlive /\ registry[s] = "enabled" /\ s \notin stores
    /\ stores' = stores \union {s}
    /\ UNCHANGED <<registry, default, blind, replyVars, serviceVars>>

StoreVanishes(s) ==
    /\ Alive /\ s \in stores
    /\ registry[s] # "enabled" \/ folks # "running"
    /\ stores' = stores \ {s}
    /\ UNCHANGED <<registry, default, blind, replyVars, serviceVars>>
=============================================================================
