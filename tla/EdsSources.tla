----------------------------- MODULE EdsSources -----------------------------
(***************************************************************************)
(* The module the service adds to the source registry of EDS               *)
(* (eds-extension/module-ubuntu-sources.c) and its extension of a source   *)
(* (eds-extension/e-source-ubuntu.c): address books that belong to an      *)
(* online account go with the account.                                     *)
(*                                                                         *)
(* The registry is a process of its own.  It keeps the sources in files;   *)
(* the table from accounts to sources lives in its memory only, is filled  *)
(* when the registry gets its bus name, and follows the sources that come  *)
(* and go, but not a source whose account changes, as updateSources of the *)
(* service does (lib/addressbook.cpp:624).                                 *)
(***************************************************************************)
EXTENDS Naturals

CONSTANTS
    Accounts,     \* ids of online accounts
    Sources,      \* uids of sources
    NoAccount     \* account id 0, of a source without account

ASSUME EdsSourcesAssumption == NoAccount \notin Accounts

VARIABLES
    registry,     \* the sources there are: uid -> [account, autoremove, enabled]
    running,      \* the registry runs and has its bus name
    table,        \* uoa_to_eds: account -> how often its list has each uid
    there,        \* the accounts there are
    on,           \* the accounts that are enabled
    deletions,    \* deleted accounts whose "account-deleted" is still to be delivered
    relinked,     \* history: sources whose account changed since the registry started
    left,         \* history: sources that came too late, or could not be removed
    disabled      \* history: sources the service removed, which disables them

accountVars == <<there, on>>
historyVars == <<relinked, left, disabled>>
edsVars == <<registry, running, table, accountVars, deletions, historyVars>>

Source == [account: Accounts \union {NoAccount}, autoremove: BOOLEAN, enabled: BOOLEAN]
Known == DOMAIN registry
NoTable == [a \in Accounts |-> [s \in Sources |-> 0]]
Listed(a) == {s \in Sources : table[a][s] > 0}

EdsTypeOK ==
    /\ Known \subseteq Sources /\ \A s \in Known : registry[s] \in Source
    /\ running \in BOOLEAN
    /\ table \in [Accounts -> [Sources -> Nat]]
    /\ there \subseteq Accounts /\ on \subseteq Accounts /\ deletions \subseteq Accounts
    /\ relinked \subseteq Sources /\ left \subseteq Sources /\ disabled \subseteq Sources

\* Any sources may be in the files; an account may have gone while no registry ran.
EdsInit ==
    /\ registry \in UNION {[S -> {r \in Source : r.account = NoAccount => r.autoremove}] :
                              S \in SUBSET Sources}
    /\ running = FALSE
    /\ table = NoTable
    /\ there \in SUBSET Accounts
    /\ on \in SUBSET there
    /\ deletions = {}
    /\ relinked = {} /\ left = {} /\ disabled = {}

---------------------------------------------------------------------------
\* The setters of the extension; a new extension has auto-remove set.
SetAccountId(source, a) == [source EXCEPT !.account = a]
NewSource(a, autoremove) ==
    [account |-> a, autoremove |-> autoremove \/ a = NoAccount, enabled |-> TRUE]

\* ubuntu_sources_register_source accepts a source without account, and one whose
\* account is there.  (g_slist_find compares pointers: no uid is "already registered".)
Accepted(source) == source.account \in there \union {NoAccount}
Linked(source) == source.account \in there

\* Mutant: whatever is registered is enabled.
ConfiguredAlways(source) == [source EXCEPT !.enabled = TRUE]

\* ubuntu_sources_config_source: the source is enabled as its account is.
Configured(source) ==
    IF Linked(source) THEN [source EXCEPT !.enabled = source.account \in on] ELSE source

\* source_removed_cb takes the uid out of the list that has it: there is one at most.
Unlisted(t, S) ==
    [a \in Accounts |-> [s \in Sources |->
        IF s \in S /\ t[a][s] > 0 THEN t[a][s] - 1 ELSE t[a][s]]]

\* ubuntu_sources_remove_collection for each source in the trash: what has auto-remove
\* goes, if EDS can remove it, and source_removed_cb hears of it.
RemoveCollection(trash, kept, t) ==
    \E failed \in SUBSET {s \in trash : registry[s].autoremove} :
        LET gone == {s \in trash : registry[s].autoremove} \ failed IN
        /\ registry' = [s \in Known \ gone |-> kept[s]]
        /\ table' = Unlisted(t, gone)
        /\ left' = (left \ gone) \union failed
        /\ relinked' = relinked \ gone
        /\ disabled' = disabled \ gone

---------------------------------------------------------------------------
Registered ==
    [a \in Accounts |-> [s \in Sources |->
        IF s \in Known /\ Linked(registry[s]) /\ registry[s].account = a THEN 1 ELSE 0]]
AllConfigured == [s \in Known |-> Configured(registry[s])]

\* Mutant: the registry starts without a look at the accounts that went meanwhile.
BusAcquiredTrusting ==
    /\ ~running /\ running' = TRUE
    /\ RemoveCollection({}, AllConfigured, Registered)
    /\ UNCHANGED <<accountVars, deletions>>

\* bus_acquired_cb: every source is registered; those it does not accept are removed,
\* before the handlers are connected.
BusAcquired ==
    /\ ~running /\ running' = TRUE
    /\ RemoveCollection({s \in Known : ~Accepted(registry[s])}, AllConfigured, Registered)
    /\ UNCHANGED <<accountVars, deletions>>

\* account_deleted_cb: the account is taken out of the table, then its sources that are
\* still there are removed, whatever account they name by now.
AccountDeletedCb(a) ==
    /\ running /\ a \in deletions
    /\ deletions' = deletions \ {a}
    /\ RemoveCollection(Listed(a) \intersect Known, registry,
                        [table EXCEPT ![a] = [s \in Sources |-> 0]])
    /\ UNCHANGED <<running, accountVars>>

\* A program, the service among them, creates a source; source_added_cb registers it.
AddSource(s, a, autoremove) ==
    /\ running /\ s \notin Known
    /\ LET source == NewSource(a, autoremove) IN
          /\ registry' = [x \in Known \union {s} |->
                             IF x = s THEN Configured(source) ELSE registry[x]]
          /\ table' = IF Linked(source) THEN [table EXCEPT ![a][s] = @ + 1] ELSE table
          /\ left' = IF Accepted(source) THEN left ELSE left \union {s}
    /\ UNCHANGED <<running, accountVars, deletions, relinked, disabled>>

Forgotten(s) ==
    /\ registry' = [x \in Known \ {s} |-> registry[x]]
    /\ relinked' = relinked \ {s} /\ left' = left \ {s} /\ disabled' = disabled \ {s}

\* Mutant: the handler of removed sources is not connected.
SourceRemovedUnheard(s) ==
    /\ running /\ s \in Known
    /\ Forgotten(s)
    /\ UNCHANGED <<running, table, accountVars, deletions>>

\* A program removes a source: source_removed_cb.
SourceRemoved(s) ==
    /\ running /\ s \in Known
    /\ Forgotten(s)
    /\ table' = Unlisted(table, {s})
    /\ UNCHANGED <<running, accountVars, deletions>>

---------------------------------------------------------------------------
\* The service (lib/addressbook.cpp).

\* updateSourcesEDS changes the account of a source; the module has no handler for that.
UpdateSourcesEDS(s, a) ==
    /\ running /\ s \in Known /\ a # registry[s].account
    /\ registry' = [registry EXCEPT ![s] = SetAccountId(@, a)]
    /\ relinked' = relinked \union {s}
    /\ UNCHANGED <<running, table, accountVars, deletions, left, disabled>>

\* removeSource disables the source and leaves it in the registry.
RemoveSource(s) ==
    /\ running /\ s \in Known /\ registry[s].enabled
    /\ registry' = [registry EXCEPT ![s].enabled = FALSE]
    /\ disabled' = disabled \union {s}
    /\ UNCHANGED <<running, table, accountVars, deletions, relinked, left>>

---------------------------------------------------------------------------
\* The accounts, and the process of the registry.

AccountDeleted(a) ==
    /\ a \in there
    /\ there' = there \ {a} /\ on' = on \ {a}
    /\ deletions' = IF running THEN deletions \union {a} ELSE deletions
    /\ UNCHANGED <<registry, running, table, historyVars>>

\* The sources follow if somebody still holds the account object they were bound to; the
\* module itself has dropped it.
AccountToggled(a) ==
    /\ a \in there
    /\ on' = IF a \in on THEN on \ {a} ELSE on \union {a}
    /\ \/ UNCHANGED registry
       \/ registry' = [s \in Known |-> IF s \in Listed(a)
                                       THEN [registry[s] EXCEPT !.enabled = a \in on']
                                       ELSE registry[s]]
    /\ UNCHANGED <<running, table, there, deletions, historyVars>>

\* The registry quits or crashes: the table and the signals on their way are lost.
RegistryEnds ==
    /\ running /\ running' = FALSE
    /\ table' = NoTable
    /\ deletions' = {} /\ relinked' = {} /\ left' = {}
    /\ UNCHANGED <<registry, accountVars, disabled>>

EdsNext ==
    \/ BusAcquired \/ RegistryEnds
    \/ \E a \in Accounts : AccountDeletedCb(a) \/ AccountDeleted(a) \/ AccountToggled(a)
    \/ \E s \in Sources, a \in Accounts \union {NoAccount}, autoremove \in BOOLEAN :
          AddSource(s, a, autoremove)
    \/ \E s \in Sources, a \in Accounts : UpdateSourcesEDS(s, a)
    \/ \E s \in Sources : SourceRemoved(s) \/ RemoveSource(s)

EdsSpec == EdsInit /\ [][EdsNext]_edsVars

---------------------------------------------------------------------------
(***************************************************************************)
(* Properties                                                              *)
(***************************************************************************)

\* The table lists a source once at most, and only while it is there; it lists it for its
\* account, or for the one it had before updateSources changed it.  No source with an
\* account the registry knows is missing, but those left behind.
TableTrue ==
    /\ \A a, b \in Accounts, s \in Sources :
          table[a][s] > 0 /\ table[b][s] > 0 => a = b /\ table[a][s] = 1
    /\ \A a \in Accounts : \A s \in Listed(a) :
          s \in Known /\ (registry[s].account = a \/ s \in relinked)
    /\ running => \A s \in Known \ (left \union relinked) :
          registry[s].account \in there \union deletions => s \in Listed(registry[s].account)

NoOrphans ==
    running => \A s \in Known :
        registry[s].autoremove /\ ~Accepted(registry[s]) =>
            registry[s].account \in deletions \/ s \in left \union relinked

\* While the registry runs, a source that is to go with its account outlives it only until
\* the deletion is delivered.  Left behind, until the registry starts again, are a source
\* created after its account had gone, one EDS refused to remove, and one whose account
\* was changed by updateSources.  The table is what this rests on.
OrphansGo == EdsTypeOK /\ TableTrue /\ NoOrphans

\* The module removes a source with its contacts only if it is marked for that and its
\* account is gone; the exception is a source that updateSources gave to another account,
\* which goes with the account it had when the registry learned of it.
OthersStay ==
    [][\A s \in Known \ DOMAIN registry' :
          \/ SourceRemoved(s)
          \/ registry[s].autoremove /\ (~Accepted(registry[s]) \/ s \in relinked)]_edsVars

\* A source the service removed is a disabled one, and comes back only with an account: the
\* module enables it again with its account when the registry starts, or when the account
\* is enabled.  A removed source without account, never registered for one, stays away.
RemovedStaysOff ==
    [][\A s \in disabled \intersect Known \intersect DOMAIN registry' :
          ~registry[s].enabled /\ registry'[s].enabled =>
              \E a \in on' : a = registry[s].account \/ s \in Listed(a)]_edsVars
=============================================================================
