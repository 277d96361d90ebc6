# Formal models of address-book-service

address-book-service keeps the contacts of a phone: it aggregates individuals with *folks* (whose store is
evolution-data-server, EDS), serves them over D-Bus to the QtContacts plugin that applications load, and
tells the applications what changes. This directory holds TLA+ modules that model it, TLC configurations
that check them on small instances and TLAPS proofs.

Almost all of the service runs on one main loop, in C++ over GLib and Qt. What makes it hard is that nothing
waits in place: operations are chains of asynchronous callbacks, other operations run between the links, and
where the code does want to wait it runs a *nested* event loop, in which anything may be called again.
Filters run in threads of a pool. The individuals the service points to are changed by folks at any time.

## 1. Inventory

| Component | State | Operations | Talks to |
|---|---|---|---|
| **Change coalescer** `lib/dirtycontact-notify.cpp` | three sets of ids, a single-shot timer | `insertAddedContacts`, `insertRemovedContacts`, `insertChangedContacts`, `flush`, `clear`, `emitSignals` | called by `AddressBook`; emits `contactsAdded/Removed/Updated` |
| **AddressBook** `lib/addressbook.cpp` | the contacts map, the aggregator pointer and handler ids, `m_ready`, `m_edsIsLive`, `m_views`, the update command, the safe-mode settings | folks callbacks, reload and shutdown, query, create, update, remove and purge contacts, sources, safe mode | everything below |
| **Contacts map** `lib/contacts-map.cpp` | hash by id, sorted list, multimap by phone number, a read/write lock | `insert`, `take`, `updatePosition`, `value`, `valueByPhone`, `clear` | `AddressBook`, filter threads |
| **Life cycle** (`AddressBook::start … shutdown`) | retry counter, timers, references to the aggregator | the chain `unprepareFolks → folksUnprepared → unprepareEds → edsUnprepared → edsPrepared → prepareFolks`, `checkForEds`, `shutdown` | folks, the EDS backend, the owner of the EDS name |
| **Contact update** `lib/update-contact-request.cpp`, `lib/qindividual.cpp` | the command (pending ids, results, reply message), `m_updateLock`; per individual `m_contact`, `m_contactLock` | `updateContacts`, `processUpdates`, `updateContactsDone`, the update request, its detail changes and its destructor, `folksIndividualChanged`, `contact` | folks, coalescer, map, filter threads, reloads |
| **Views** `lib/view.cpp` | the filter thread, `m_waiting`, the adaptor | `contactsDetails`, `count`, `close`, `sort`, `FilterThread::run` | map, thread pool, clients |
| **D-Bus adaptor** `lib/addressbook-adaptor.cpp` | none; queues the slots of calls with a delayed reply, runs `purgeContacts` at once | marshalling | clients |
| **Individual conversion** `lib/qindividual.cpp`, `detail-context-parser.cpp` | none | folks details to QContact details and back | – |
| **Filter** `common/filter.cpp` | none | `test`, and what a query may look up first: `isValid`, `isEmpty`, `idsToFilter`, `phoneNumberToFilter`, `includeRemoved` | views |
| **Sort clause, fetch hint** `common/` | none | parse, print | views, client |
| **Sources** `common/source.cpp`, `lib/addressbook.cpp` | none in the service: the registry of EDS has them, folks follows it | create, update, remove, list | EDS, folks, safe mode |
| **vCard parser** `common/vcard-parser.cpp` | one running reader or writer | asynchronous parse and print | client, views |
| **QtContacts plugin** `contacts/` | running requests, service readiness, the interface proxies | the life of save, fetch, remove and collection requests; the steps of a save and the books of its results | the service over D-Bus |
| **EDS extension** `eds-extension/` | inside the source registry of EDS: a table from online accounts to sources, in memory; in each source an account and auto-remove | registers sources, enables them with their account, removes them when the account is deleted | EDS, libaccounts, and the service, which writes the account of a source |
| **Updater** `updater/` | a process of its own: `m_lock`, the queue of modules, notifications; in its module the import lock, the accounts read, the queues of accounts to ask about and to sync, failed profiles | moves the contacts of accounts from SyncEvolution to Buteo in steps, with questions, retry and rollback | user, network, sync monitor, Buteo, the service |

Behaviours that are hard here: *callback chains that overlap* (life cycle), *nested event loops* (update,
views, client), *state used after the loop ran* (`m_filterThread`, `m_contacts`, the command), *coalesced
notifications* and the gate of readiness in front of them, *data that changes under a data structure* (the
map), *steps of which one fails* (update, removal), *timers that race callbacks* (retry, updater).
`PROJECT.json` lists them one by one under `hazards`, each at its line.

What makes the parts correct:

* notifications: a client that follows the signals ends up with what the service shows; nothing is announced
  twice, lost, or left without a timer; hidden sources stay hidden;
* map: three structures, one content; order and phone index follow changes;
* life cycle: a ready service has exactly one map, one aggregator reference, one handler pair; every reload
  comes to an end; a retry is bounded; a shutdown completes;
* update: locks are paired, every call is answered once and with its own results, or the ways in which it is
  not are known, a change is visible and announced afterwards;
* views: nobody waits for a wake-up that was already spent, nobody reads a deleted map, the main thread gets
  out of its nested loops;
* client: a request that was started ends and whoever waits for it is told, whatever is cancelled or
  destroyed meanwhile and however often the service goes away; no callback finds its data deleted;
* calls with a delayed reply: each is answered once, when its data goes, also if the map, the stores or the
  contacts it is about go away between the callbacks; what it answers is true;
* save: every item is sent once and finds its result at its own place, whatever was refused;
* queries: the shortcuts taken for ids, numbers and empty filters find what the filter means, also while
  contacts change under the scan; the pages put together are the result;
* EDS extension: address books go with their account, no others go;
* updater: an update that was started ends and somebody is told, a failed one can be retried, and an old
  source is removed only after its contacts arrived in the new one.

## 2. Modules

| Module | Models | State and actions |
|---|---|---|
| `DirtyContactsNotify` | the coalescer as a value | `Pending` is the object; `Adding`, `Removing`, `Changing` are the inserts, `UpdatesDue` and `AfterSignals` what `emitSignals` tells a client |
| `AddressBookChanges` | every handler that feeds the coalescer, composed with it and with a client | `contacts` is `m_contacts` with visibility, `mapAlive` whether it exists; one action per handler: `IndividualsChanged`, `IndividualChanged`, `Timeout`, `BecomeReady`, `EdsDied`, `Reload`, `PrepareFolks`, `CreateSourceDone`, `LeaveSafeMode`, … `deleted` are the entries with a valid `deletedAt()`; `known` and `clientReady` are the client; `stale` and `early` are history |
| `ContactFeed` | the promise made to a client (abstract) | `Change`, `Publish`, `Connect`, `Disconnect`; contacts may be `exempt` from the promise until they are announced |
| `AddressBookChanges_proofs`, `UpdateContacts_proofs`, `Views_proofs`, `ClientRequests_proofs`, `ContactCalls_proofs`, `SaveRequests_proofs`, `Updater_proofs` | the theorems about these modules, with their proofs (section 4) | – |
| `Components_proofs` | the theorems about `ContactsMap`, `Pages`, `EdsSources` and `ServiceLifecycle`, with their proofs | it holds all four; no theorem relates them |
| `ContactsMap` | the map over individuals that change | `ids`, `list`, `index` are its three structures, `key` and `phones` what the individuals are at the moment. `UpperBound` is the binary search of `std::upper_bound`, run over lists that are not sorted as well |
| `ServiceLifecycle` | start, reload, retry, shutdown | each asynchronous call is a counter of calls to be answered; each callback an action |
| `UpdateContacts` | the update command and the update request, with a filter thread and a reload beside them | `command` is the command in `m_updateCommand…`; `waiting` the nested loops, those of `processUpdates` and those of the destructor of a failed request (`Destructor`); `request` the running `UpdateContactRequest`, `garbage` the failed ones and the level of loops at which Qt deletes them; `cache`/`backend` what an individual shows and what folks has; `reader` a thread in `QIndividual::contact`; `halted` how the main thread came to its end; `replies` every reply with the call whose end sent it. `failed`, `missed`, `unannounced` are history |
| `Views` | views, filter threads, and the reload that closes them | `stack` is the stack of nested event loops on the main thread, `loop` is `m_waiting`, `thread` the stage of each filter, `crashed` which memory was used too late; `overlapped`, `inside`, `during` are history |
| `ClientRequests` | the requests of an application in the plugin, the loops that wait for them, the connection to the service | `state` is the request, `phase` and `todo` its data object and the calls still to be made, `running` is `m_runningRequests`, `stack` the nested loops (`waitRequest`, `deinitialize`), `told` the loops told to quit; `stranded` is history |
| `Updater` | the update of the accounts | `p` is the process, its fields the members of `ABUpdate` and `ButeoImport`; methods are operators on `p`, each signal, timer, answer of the user and step of `prepareToUpdate` and `commit` an action; `screen` says whether notifications can be shown, `p.unseen` counts those that could not; `evo`, `old`, `new`, `profile`, `sync`, `key` are what survives it |
| `DelayedReplies` | the calls of the adaptor that are answered later, and a reload as they see it | `call` is what becomes of each call: its stage, the data object that outlives the slot, the replies sent; `queue` the queued slots; `Arrive`, `Runs`, `Answer`, `Works` are the parts every slot is made of |
| `SourceCalls` (on `DelayedReplies`) | the calls about sources | `registry` and `default` are in EDS, as the service sees them (a source it disables is `Disabled` at once, whether or not the write succeeds), `stores` the persona stores of folks; one action per slot and per callback. `blind` is history |
| `ContactCalls` (on `SourceCalls`) | creation, removal and purge of contacts, with everything above around them | `home` and `marked` are the contacts in EDS, `entries` the keys of `m_contacts`; `RemoveTurn` is `removeContactDone` with its calls of itself; `told` and `kept` are history |
| `SaveRequests` | one save of the plugin | `data` is `QContactSaveRequestData`, `step` the call under way, `saved` what the service has; each step of `saveContact` is an operator, each answer an action. It implements a request of `ClientRequests` |
| `Filters` | the tree of a filter | operators with the names of the methods |
| `Pages` | the pages of a result: `View::contactsDetails` cuts them, `GaleraContactsService::onVCardsParsed` asks for the next | `result` is the list of the view, `offset`, `pageSize`, `fetched` and `fetching` the request of the client; `FetchPage` is a call with its answer, `Sort` is `View::sort` between two of them |
| `Queries` (on `ContactsMap` and `Filters`) | the scan of `FilterThread::run` and what it finds | `scan` is the thread, one read of one entry a step (`CopyContact`, `ReadDate`, `ReadVisible`); `deletedAt`, `hidden` and `dated` are the marks of the individuals, `looking` another thread in `deletedAt()`. `Found` and `Result` are what the scan makes of its notes, `Denoted` and `Meant` the reference definition; `unsteady` is history |
| `EdsSources` | the source registry with the module of the service | `registry` is on disk, `table` is `uoa_to_eds`, `there` and `on` the accounts; one action per callback; `RegistryEnds` and `BusAcquired` are its restart |
| `MC…` | instances for TLC | – |

A handler of the main loop is one action, because nothing runs inside it, except where the code itself runs
the loop: there the action ends and the rest is an action of its own (`Enter`/`Resume`/`GiveUp` in
`UpdateContacts`, `Ask`/`Close`/`Return` in `Views`, `ReadAccount`/`Prepared` and `RemoveSources`/`Commit`
in `Updater`; there `ContinueUpdate` is the end of the handler that set `continues`, and nothing else can
happen before it). A filter thread takes a step for everything it reads that others write (`Begin` to `End`
in `Queries`, `ThreadChecks`, `ThreadLocks` and `ThreadLoads` in `UpdateContacts`). The operators named
*Mutant* are wrong versions of the definition after them; nothing in the specifications uses them. They show
that a property can fail: put in the place of the right definition, TLC finds the property violated.

What is taken from outside the code:

* folks takes away only individuals it announced, and announces individuals of sources that exist; it may
  otherwise replace, remove and add any set of them in one callback, and turn quiescent or not at any time;
* a source has no contacts before `createSourceDone` ran for it, and its id is not used again;
* each asynchronous call is answered at most once, with success or failure;
* in `UpdateContacts` folks answers a change it was asked for; it may refuse it, and may take the individual
  away, replace it or announce it again meanwhile;
* the settings are changed by the service only, and `ADDRESS_BOOK_SAFE_MODE` is not set;
* nobody takes the mark of a soft-removed contact out of its vCard while its entry stays;
* the client (`contacts/contacts-service.cpp`) reads everything on `serviceChanged`, follows the signals,
  and may read at any other time (`ClientReads`);
* in `ClientRequests` the application does not destroy a request from a slot connected to it, and does not
  wait for a request inside a wait for the same; the bus reports the service lost and found at any time,
  every call is answered, if by an error, and a query has finitely many pages;
* in `ContactCalls` EDS stores or refuses, folks announces the contacts of the stores it has in any order
  and at any time, a store appears when its source is enabled; what QUuid gives is new; marks of deletion
  are newer than the date a purge asks for;
* in `SaveRequests` the service stores any part of what a call names, and answers late or never;
* in `EdsSources` EDS keeps its files through a crash and may refuse to remove a source; the signal of a
  deleted account is delivered only to a registry that runs;
* in `Updater` the address book answers the queries of `prepareToUpdate` and Buteo `runningSyncs()`; every
  other call may fail, syncs end in any order, well, with an error or aborted, profiles are deleted at any
  time, and a notification that could be shown expires or is closed or answered, also after it was answered.
  One that could not be shown never emits a signal, and the question about a disabled account may stay open
  for ever. Google accounts do not come and go.

What is abstracted: contacts are ids; sort keys numbers; phone numbers what `minimalNumber` makes of them,
and in a filter the numbers it accepts; a detail one asynchronous change. The extended details, which an
update writes synchronously, are left out of `UpdateContacts`. `setSafeMode(false)` during a reload
dereferences a null `m_contacts`; the action requires the map (hazard at `addressbook.cpp:1264`);
`ContactCalls` has the calls that do the same die of it. In `Views` a use of freed memory, or of a list that
is being written, stops the model and says which (`crashed`); `ReadsLiveMap` says when that can be.
`View::close` reads the length of a list its thread may be appending to (`view.cpp:254`); nothing depends on
the number, and the race is left out. Data races on `m_contact`, which `clear` and `markAsDirty` delete
while a thread may be copying it (`qindividual.cpp:1117`), have no outcome to check: `UpdateContacts` has
the values a load may leave. One thread at a time is in `contact()` there; the lock of the individual lets
only one load. The level of loops at which Qt deletes a failed request follows `QCoreApplication` of Qt 5.
`createContactDone` during a reload, when it meets a null map, is in `ContactCalls`.

In `Queries` the lock of the map keeps entries from coming, going and moving during a scan, and nothing
else: contacts change, are marked and are hidden between two reads. The filter only judges what was read, so
it is applied when the scan is over, for every query that visits the same entries in the same order. The
order `valueByPhone` finds entries in is left out, and so are the fields of a page. In `EdsSources` sources
are flat; `e_source_remove_sync` would take sources below the one it removes with it, and address books have
none. In `Updater` an index out of range stops the process (`crashed`); favorites, the lock file, the kind
of an error and the silent mode are left out, and so is what the functions without a return statement
return, which nobody looks at. A rollback only forgets what failed: `removeProfile` refuses every account it
finds. A profile it may ask Buteo to remove goes as any other (`ProfileDeleted`).

## 3. Runs

| Run | What it checks | Instance |
|---|---|---|
| `changes` | `MirrorInv`: the signals pending are exactly what a client still has to learn. `NewsInv`: no signal repeats what it knows. `NoLostUpdate`: replacing or removing and adding a contact does not swallow its update. `SafeModeHides`: hidden means hidden by the safe mode, and the contacts of a source that was created in the safe mode are. `ImplementsFeed`: refinement of `ContactFeed`. `CatchesUp`: the client catches up | 2 contacts, 2 sources |
| `map` | `MapAgrees`: the structures have the same entries, whatever the searches in an unsorted list find, and entries nobody changed behind the map are filed under their numbers. `KeepsOrder`: insertion and shrinking keys keep order | 3 contacts, 3 keys, 3 lists of numbers |
| `lifecycle` | `SoundUnlessOverlapped`: one map, one reference, one pair of handlers; and under fairness `ReloadRecovers`, `ClientLearns`, `ShutdownOfRunning` | 3 retries, 3 deaths of EDS |
| `lifecycle_shutdown` | violated: *a service told to quit quits* | 2 retries, 2 deaths |
| `update` | `CommandInv`: which locks are held and for whom, and the four ways the main thread comes to its end: an update that finds no map, an individual replaced or created again in the middle of its update, a scan that waits for it while the map is to be changed. `CallsAnswered`: each call is in one place; one that does not give up sends one reply, to its own message and in the order of the list; one that gives up sends an empty one to the call that has the lock. `UpToDate`: changes become visible and are announced, but for those skipped by an update that then failed (`failed`) or during the load of a thread (`missed`). `CallsEnd`: a call is over some day unless nobody is left to go on with the one that has the lock (`Stuck`), it waits beneath the destructor of a failed request (`Buried`), or the main thread has come to its end | 3 calls, of which the third comes only while one waits inside another; 2 contacts of 2 details, 4 lists, 1 foreign change, 1 thread, reloads |
| `views` | `WaitersAreWoken`: `m_waiting` never dangles, and a loop that waits will be told. `ReadsLiveMap`: a filter reads no deleted map and a call no deleted result, unless a close or a query was nested in the one way each is named for. `Unwinds`: the stack of loops empties | 2 views, 2 threads, 3 loops deep, 2 reloads |
| `client` | `DataKept`: a data object outlives the list and the loop that point to it. `AnswersFindRequests`: an answer finds its request active, so no `isLive()` test in a callback is ever needed. `WaitersAreTold`: nobody waits for a request for which nothing is under way. `InterfaceKept`: `m_iface` is there for every step. `Ends`: requests and loops end, but for a request in `stranded`, and for loops while such a request, or a list of collections that arrived, is on the list or waited for | 2 requests, each of 4 types, 2 losses, 3 loops deep |
| `updater` | `UpdateGoesOn`: what an update waits for is under way, and heard, unless it is a notification that could not be shown, or the step was given up (`hung`), and a retry is never refused because of the attempt before it. `NotAbandoned`: the process quits in the middle in one way only. `KeptUnlessSkipped`: no old source goes before its contacts were synced, with named exceptions. `UpdateEnds`: as long as no question about a disabled account stays open, an update ends, is given up in one of three named ways, waits for a notification that could not be shown, or crashes | 0 or 1 account in every state, 1 restart, the screen comes or goes once; 2 accounts, one of them disabled, the screen as it is; 1 retry |
| `calls` | `OneAnswer`: a call is answered once, a purge twice. `RemovalsReal`: what a removal was asked for is marked or gone when it is answered, and every mark is announced. `SourceAnswersTrue`: a source said to be created exists, the result of an update is a part of what was asked, in order. `CallsEnd`: every call ends or the process has died of it | 2 calls of 12 kinds, 2 contacts, 3 sources, 1 reload |
| `plugin` | `EachInPlace`: every item is sent once, groups before the contacts in them, and its result is at its place, but for two named cases. `ResultTells`: what was stored and what was not can be told from the result, so that nothing is saved twice. `SaveImplementsRequest`: refinement of `ClientRequests` (`ImplementsRequest`), and the save ends (`SaveEnds`). `PagesAreWhole`: the pages a client puts together are the result, unless somebody sorts it between two of them; with a page size of 0 it gets none | every mix of up to 4 items beside a fetch that has nothing to do; every fetch of up to 4 contacts, one of them found twice, with page sizes -1 to 4, beside a save of nothing |
| `queries` | `QueriesTrue`: the contacts found are the ones the filter denotes, once, ordered, up to the limit, with the shortcuts that go wrong named one by one. Of what changes during a scan it says only that it is found at most once, of all the rest the same as before | 2 contacts, 2 keys, limits 0 to 2; 94 filters at most two connectives deep in scans that nobody disturbs, over every state of the map; contacts of one key, one change during a scan and a second thread for each way to visit entries |
| `eds` | `OrphansGo`: a source that is to go with its account does, with three named exceptions. `OthersStay`: no other source is removed. `RemovedStaysOff`: a source the service removed comes back only with an account | 2 accounts, 2 sources, any state of the files and accounts |

The type invariants are conjuncts of `MapAgrees`, `CommandInv`, `WaitersAreWoken`, `UpdateGoesOn` and
`OrphansGo`; those of `AddressBookChanges`, `ClientRequests`, `ServiceLifecycle`, `UpdateContacts`, `Views`
and `EdsSources` are proved (section 4).

**Disagreements found.** One has a run of its own, in which TLC finds what a test says violated:
`lifecycle_shutdown`, a shutdown during a reload. After the aggregator was released it starts no chain and
the service stays (`addressbook.cpp:290`); the test of the life cycle waits for it to quit. The others are
exceptions a property names, or end in `crashed` or `halted`:

* map: `updatePosition` (`contacts-map.cpp:119`) searches the list that still contains the entry and moves
  it one place too far, so `m_contacts`, "sorted contacts", is not sorted;
* notifications: add, change and remove within 500 ms announces an update of a contact that is gone; the
  removal announced for a contact marked as deleted is taken back when folks replaces it;
* update: a call that gives up sends its empty reply to the message of the call that has the lock, which is
  then answered twice, and is never answered itself (`addressbook.cpp:1307`), while line 1304 asserts that
  no command has contacts left when another call comes: calls are queued from the bus, and one of several
  contacts gives control back after each; a change that comes during an update is skipped, as "the update
  will be done after" (`qindividual.cpp:397`), and after an update that failed half way nobody makes up for
  it (line 1065: `failed`); a change that folks reports while a filter thread loads the contact is dropped,
  also if the thread has read the old value (`qindividual.cpp:398`); an update during a reload looks its
  contact up in a null map (`addressbook.cpp:1374`); an individual that gets another one of folks, or a new
  persona, in the middle of its update makes the main thread wait for a lock of its own
  (`addressbook.cpp:1413`, 1552), and so does a change of the map while a filter thread waits for the
  update; an update with nothing to change, or whose entry goes, keeps the lock for ever
  (`qindividual.cpp:1074`); the destructor of a request that failed runs a loop nobody quits
  (`update-contact-request.cpp:64`), and the calls that wait beneath it never go on;
* views: one queried too early has a filter that never starts, and closing it waits for ever (`Hopeless`); a
  reload that runs while a client closes a view deletes the map its filter has yet to read, because the view
  has left `m_views`; a reload nested in another deletes the map of views queried meanwhile; a sort changes
  the list a filter is appending to;
* client: a list of collections that arrived stays on the list `deinitialize` waits for
  (`contacts-service.cpp:230`); the requests in `stranded` stay active for ever; `GroupNotCreated` and
  `DeinitializedTwice` follow null pointers;
* save: after an update the contacts are filed under the first places, groups and refused ones included
  (`Misfiled`); the error of `updateSources` is dropped, and a cancelled save says `NoError`; the empty
  source that stands for a failed creation becomes a group;
* calls: `removeContactDone` uses its data after the call of itself that deleted it, and counts only the
  contacts folks removed, not those it marked; a purge overtakes queued calls and is answered twice; while
  folks has no primary store `createSource` answers with a source nobody creates (`blind`); a contact for a
  source folks does not have yet goes to the system address book; `updateSources` leaves failed sources out
  of its answer without a sign; `source()` answers with the first store of a hash table;
* queries: the first term of a filter speaks for all in `isValid` and `isEmpty`; ids in one term of a union
  hide the others; a limit without a filter is a limit of one; the list `sources` of a query is not used;
  removed contacts without a date are all contacts; limits are applied before sorting; `MatchExactly` is 0,
  so the test of flags for the id of "me" holds for every match; `deletedAt()` stores an invalid date before
  it looks for the mark (`qindividual.cpp:1208`), so a second filter thread that asks meanwhile takes a
  removed contact for one that is not, also in the query by phone number for which
  `contact-timestamp-test.cpp` expects nothing (such a contact is `unsteady`);
* pages: with a page size of 0, which only the environment of a client can set, a client gets nothing and is
  told that it is all; a sort between two pages makes it get contacts twice and miss others;
* EDS: `updateSources` changes the account of a source the table still has for the old one, and it goes with
  that; `g_slist_find` compares pointers, so "already registered" is never true; a removed source of an
  enabled account is enabled again when the registry starts;
* updater: an account whose sync Buteo refuses counts as synced (`ab-update-buteo-import.cpp:567`) and its
  old source is removed, at "all accounts synced"; a question that is closed after "Yes" ends the process
  during the retry, one that is closed unanswered stops the update without a word, and so does the deletion
  of the last profile that is synced; signals of syncs a failed attempt left behind commit, or fail, the
  attempt after it; a notification that could not be shown is waited for as if it were there
  (`ab-notify-message.cpp:54`, 91, 124), and the question about a disabled account, which has no timeout
  (line 114), as long as it takes; the test for an account that is not found is inverted
  (`ab-update-buteo-import.cpp:649`), so a rollback, which is to "remove all profiles and new sources" (line
  771), refuses each profile of an account it knows, and the profile and the new source of a sync that
  failed stay.

**Bounds.** Handlers of `AddressBookChanges` treat every contact by itself, so two contacts, which can
change in one callback and of which one may be hidden while the other is not, cover the interactions; the
proofs cover the rest. Three entries are the fewest for which a binary search can go wrong in the middle.
`MaxRetry` and `MaxDeaths` of 3 let the retry counter reach its limit with a death of EDS left. In
`UpdateContacts` two calls already make one wait inside the other and give up (`MaxTries` = 1 stands for the
time limit of `processUpdates`); the lists differ in length, order, and in which details change, one of them
changes nothing. The third call comes only where it waits inside one that waits itself, which is what it is
for. `Views` nests three loops, so that a call, a close and a reload wait in each other in every order; a
view is queried once because its filter is made once. Two requests of `ClientRequests` are enough for one to
be waited for inside the other, and their eight types for every call there is; two losses nest one
`deinitialize` in another. Two accounts of `Updater` let the first succeed and the second fail, one retry
lets signals of a failed attempt come during the next; one change of the screen lets a notification be lost
at any point between others that are shown, or the other way round. Two calls of `ContactCalls` let each
kind meet each other and itself in every order, one reload comes between any two of their callbacks, and
three sources are the system's, one that may go and one that may come. Four items of a save are the fewest
for a group, a refused contact, a contact after it and a new one. The filters of `Queries` are all pairs of
the six leaves the code treats differently and three deeper ones. What a scan finds while others meddle does
not depend on how deep the filter is but on the order of its visits and what it reads of an entry. One
change during a scan is enough for two contacts: a second would be of the same contact, of which nothing
more is said, or leave none that stayed as it was. A save and a fetch share nothing, so `plugin` varies one
at a time. Two accounts and two sources let a source change from one to the other beside one that stays.
Three views were checked too (four million states) and are too slow to repeat. The bounds appear in guards
(`MaxDeaths`, `MaxForeign`, `MaxTries`, `MaxDepth`, `MaxReloads`, `MaxLosses`, `MaxRetries`, `MaxLaunches`,
`MaxChanges`, `MaxCalls`, `MaxMeddling`, `Others`) or as the sets of inputs (`Phones`, `Lists`, `Requests`,
`Inputs`, `Queried`, `Results`, `PageSizes`).

**Fairness.** Only what the code's scheduling provides. `AddressBookChanges`: the timer of the coalescer
fires; since each insert restarts it, `CatchesUp` uses that only once contacts have stopped changing.
`ServiceLifecycle`: an asynchronous call of folks or EDS is answered, a `singleShot` fires, an aggregator
being prepared turns quiescent; EDS need not come back, which `ReloadRecovers` assumes by itself.
`UpdateContacts`: a queued call is run, the innermost loop of `processUpdates` turns, a thread in
`contact()` goes on, folks answers a change; a loop nobody quits does not end. `Views`: threads run, posted
events are delivered, a loop told to quit returns. `ClientRequests`: a call is answered, the reader ends, a
page that is not full comes at last, a loop told to quit returns; the service need not come back.
`ContactCalls`: queued slots run, folks and EDS call back, a reload goes on; stores need not come.
`SaveRequests`: a call is answered, if by an error. `Pages`, `Queries` and `EdsSources` need none.
`Updater`: notifications that are on the screen expire, syncs that were asked for end, timers fire; the
question about a disabled account does not expire, and `UpdateEnds` assumes by itself that none stays open.
Clients, users and other programs are never required to do anything. `CHECK_DEADLOCK FALSE` stands where the
system may stop: a service that has quit, calls that were all made, a save that is over, a crash.

## 4. Proofs

`AddressBookChanges_proofs` proves about `AddressBookChanges`, for every set of contacts and sources, that
the type invariant, `MirrorInv`, `NewsInv`, `NoLostUpdate`, `NothingStuck`, `ReadyInv`, `SafeModeHides` and
`SafeModeInv` hold always and that the specification implements `ContactFeed`. The only assumption is
`SourceOfAssumption`: every contact lives in one source.

`MirrorInv` is not inductive: it does not say *why* a contact is known or pending. The inductive invariant
`IInv` replaces it by `Tracks(c)`, one statement for each contact: a pending addition is shown, a pending
removal is not or is marked as deleted; a contact not in `early` is unmarked, it is shown exactly when the
client knows it and no removal is pending, or when its addition is pending, pending additions are unknown
and pending removals known; and a visible contact that changed is in the changed set (not removed) or about
to be added. `early` holds what the code promises less about: contacts read before a pending announcement of
theirs, which a later change may take back, and entries marked as deleted, which the service keeps
announcing. The last part is needed for the case in which a contact is removed and added again:
`insertAddedContacts` turns it into a changed one. `Tracks` needs the readiness facts (an offline service
has nothing pending), and the visibility in `individualsChangedCb` needs `SafeModeHides`, because a
*changed* individual is announced according to the source it is in now. `SafeModeHides` itself needs that
the sources created in the safe mode (`owed`) are in the hidden list (`SafeModeInv`). `InsertAllEffect`
describes the three inserts of `individualsChangedCb` composed; then there is one lemma for each handler,
and `NextInv` puts them together. Refinement follows from `ClientSteps`: a step leaves the client alone (and
may exempt contacts), brings it to what is visible, or leaves it offline.

`ClientRequests_proofs` proves about `ClientRequests`, for every set of requests, all plans and any depth of
event loops, `TypeOK`, `DataKept`, `AnswersFindRequests`, `WaitersAreTold` and `InterfaceKept`. It assumes
`PlansAssumption` (a fetch by id goes on with a page), `BoundsAssumption` and `LostAssumption` (the frame of
`deinitialize` is none of the requests). The invariants do not imply each other's steps: that `Wait` may be
entered needs an active request in the list to have something under way, and that the end of a loop makes it
safe to delete the data needs that no second loop waits for the same request. The inductive invariant is
`Consistent(r)` for each request and `WaitedOnce` for the stack; `Entered` and `Left` say what a step does
to the stack, `EndedInv`, `DropInv` and `ContinueInv` what the three outcomes of an answer do, and
`Untouched` that they do nothing to the other requests.

`Components_proofs` proves about `EdsSources`, for any accounts and sources, `OrphansGo`, `OthersStay` and
`RemovedStaysOff`, from the assumption that no account has the id 0. `OrphansGo` is inductive only with two
facts more: the table and the signals on their way are empty while the registry does not run (`Quiet`), and
a deletion on its way is of an account that has gone (`Delivered`). `TableTrue`, which `OrphansGo` contains,
carries the rest: a source that is not in the list of its account when the deletion is delivered would stay.
One lemma for each action preserves `EdsInv`; `Removal` says what `RemoveCollection`, the heart of two of
them, leaves. The two action properties follow from the same invariant.

`ContactCalls_proofs` proves about `ContactCalls`, for any number of calls, any requests, contacts and
sources, `OneAnswer`, `RemovalsReal` and `SourceAnswersTrue`. It assumes that `Contacts` and `Sources` have
all the ids a request may name (`IdsAssumption`, `SourcesAssumption`). `OneAnswer` counts the answers of a
call, but does not say that a queued call is queued once and is none that has ended: a slot run twice would
answer twice. `CallsInv` adds that (`QueueInv`) and that only a purge is at work without having been queued.
Every slot and every callback then is a `Turn` of one call, which was the head of the queue or at work and
is left alone, put to work or answered; `SlotTurn` and `CallbackTurn` are cited for each of them, whatever
it does to sources, contacts and the map. `RemovalsReal` and `SourceAnswersTrue` speak of calls that have
ended, so their invariants say what the data of a call at work promises. In `RemovalAt` each id of a removal
is settled, is the contact folks is asked to remove, or is among the ids left; `FirstHardFacts` says that
`removeContactDone` stops at the *first* contact it cannot settle by itself, and `SplitAt` that the ids
before it, it, and those after it are all. In `Updates` the result so far is a part of the list before the
source that is being committed (`Embeds`), and what is left is the rest behind it (`Rest`).

`Components_proofs` proves about `ServiceLifecycle`, for any number of retries and deaths of EDS, its type
invariant and `SoundUnlessOverlapped`, from the assumption that the two bounds are numbers. The property
speaks of a ready service; what carries it to the next time the service is ready is where the one chain of a
reload is (`Phases`): none and folks runs, unpreparation asked for, the aggregator released and EDS on its
way, or the service has left the bus. Each phase fixes every counter. Once two reloads overlap only the
types are left, and that a pointer to the aggregator is a reference to it.

`UpdateContacts_proofs` proves about `UpdateContacts`, for any callers, contacts, details and lists,
`CommandInv`, `CallsAnswered` and `UpToDate`. It assumes that `None` is none of the values it stands beside,
that lists are sequences of updates, and that the bounds are numbers. `CallsAnswered` says where each call
*is*: in the queue, in a waiting loop, with the lock, or over, exactly one of the four, and what its reply
was; the invariant adds that no call is queued or waits twice (`CallsInv`). That the answer comes in the
order of the list needs `InPlace`, which ties the results to the list while the command is at work, and that
needs `LockInv`, because the command of an earlier call keeps its locks while others wait. `CommandInv` says
that the contact of an individual under update is the one the update started from, and that no thread is
loading it: of the steps that clear the contact of one individual, those that would do it then end in
`halted`. `UpToDate` needs to know of a thread what it has read: what folks has, unless that changed since
(`ReaderInv`), or else a load could bring back an old value. `News` says that what is not announced yet
belongs to the command under way, to an update that failed or to a load. The recursion of the request over
its details is `MinIsIn`: the next detail that differs is the least.

`Views_proofs` proves about `Views`, for any views, any number of threads and reloads and any depth of
nested loops, `WaitersAreWoken` and `ReadsLiveMap`, assuming that the bounds are numbers and `None` is no
view. The two properties are about loops and maps; what is between them are the calls on the stack.
`FrameOK` says of every call, waiting or running, what it may count on while others begin and end inside it:
a loop that was told to quit waits for a filter that is done, a call that closes a view has taken it off the
bus, an `unprepareFolks` has still to close all views but those queried inside it. `ViewsInv` says that
every filter that may still read the map belongs to a view that will be closed before the map goes.
`Pushed`, `Popped` and `Replaced` are the three things a step does to the stack; one lemma follows for each
action.

`SaveRequests_proofs` proves about `SaveRequests`, for any items in any order and whatever the service
refuses, `EachInPlace`, `ResultTells` and that a save implements a request of `ClientRequests`
(`ImplementsRequest`), assuming that `Inputs` are sequences of items. A save goes through its items in the
order `Before` gives; `Books` says of the items that were handled what the data object holds: which are at
their places, which answers are of stored items, which contacts are in the error map. `Final` is what is
left of it when the request has ended, by any of its ends. The hard case is the answer of `updateContacts`,
filed under the first places of all items with an id: `RankInjective` and `ContactsFiled` show that no item
gets the answer of another unless a group or a refused contact comes before it, the two cases `Misfiled`
names, and that an answer that leaves an item out also leaves a place without one, so that the application
can tell. The refinement adds `TodoInv`, the calls that are left by the step under way: `ToGo` for it,
`CallsForGroups`, `CallsForContacts` and `CallsForUpdates` for the call that comes first and those after it.
Each answer is one `Reply` of `ClientRequests`, the service's own steps are stutters.

`Components_proofs` proves about `ContactsMap`, for any contacts, keys and numbers and for lists of any
length, `MapAgrees` and `KeepsOrder`, assuming that keys are natural numbers and `Blank` is no number. The
binary search is a recursive function. That there is such a function, and what it returns, cannot be proved
by the library's induction theorems; it is proved by the least number of entries for which it would be wrong
(`LeastOf`): the searches of up to `n` entries agree (`SearchesAgree`) and exist (`SearchesExist`), so one
exists for all (`SearchExists`), and `SearchPlaces` follows its two halves. `UpperBoundPlaces` is the
result: the search always returns a place in the list, and if the entries that go behind the new one are the
last ones, it is the place in front of them. The first part is all `MapAgrees` needs; the invariant adds to
it that every entry is in the list *once* (`Holds`), without which a removal would leave one behind. The
second carries `KeepsOrder`. There the delicate case is `updatePosition`, which searches the list while the
entry is still at its old place with its new key: if the key became smaller the last ones are still the last
ones, and the new place is not behind the old one, so that `QList::move`, which counts places without the
entry, puts it where the search meant (`UpdatePositionSorts`).

`PagesTheorem`, in the same module, is `PagesAreWhole` for results of any length and page sizes of any
value. The invariant (`PagesInv`) says of a client that still asks: it has as many contacts as its offset
says and, unless somebody sorted meanwhile, these are the first of the result; and the offset is 0 or the
pages are not empty. `PageIsPart` says what a page is: the part of the result from the offset on, up to the
page size or to the end, so that a page that is not full is the last. A sort keeps the number of contacts
(`SortInv`).

`Updater_proofs` proves about `Updater`, for any number of accounts, retries and launches, `UpdateGoesOn`,
`NotAbandoned` and `KeptUnlessSkipped`, assuming that these bounds are numbers. The three speak of one
moment each. What carries them is a description of the process for every moment (`Good`), kept by each
method on its way as well as by each action: `Stage` says which *one* thing `ABUpdate` waits for, the
notification that starts, the failure, the end to be acknowledged, or its module (whether or not the
notification could be shown), and that only a question closed twice makes it quit early; `Awake` says that a
`ButeoImport` that is connected waits for something, and that whoever is to emit it (the sync monitor, a
sync of a queued account) is there and is heard, but for a question that could not be shown; `Phase` says
which one thing that is as long as no attempt failed with syncs under way, and that every account whose
contacts a commit would lose (`AtRisk`) is still to be asked about, synced or reported. An attempt that
failed with syncs under way (`leftover`) loses the phases but not `Stage` and `Awake`: the next attempt may
be finished by signals of the one before, it is never without any. `ContinueUpdate` and the creation of
profiles, which run inside other handlers, are shown to lead from `Busy`, the state in the middle of a
handler, to a good one.

Together with these every invariant and every action property a passing run checks is a theorem, but
`QueriesTrue` of `Queries`: what the recursive operators of `Filters` and `Queries` find is only
model-checked, because a module that reaches a `RECURSIVE` operator cannot be proved about. Only
model-checked as well: all liveness (fairness and `ENABLED` are out of the prover's reach); of
`SaveImplementsRequest` the fairness.

## 5. Not modelled, and the plan

Not modelled, for good: the conversion between folks and QContact details and vCards (field by field, no
state), the parsers of sort clauses and fetch hints and the serialization of filters (strings in, values
out), the digits of phone numbers, `linkContacts` and `unlinkContacts` (empty), the demo data of
`src/main.cpp`, plain properties of the EDS source extension, the silent mode of the updater, data races
without a defined outcome, the vendored dummy backend, the tests.

Done: notifications, map, life cycle, update, views, the client's requests, the updater, the calls about
contacts and sources, saves, pages and the EDS extension, all with proofs; queries, model-checked. Next, in
this order:

1. The scan of `Queries` beside the thread of `UpdateContacts`: the two have `contact()` in common, and each
   abstracts what the other has.
2. Compositions: a view with a reload whose chain is that of `ServiceLifecycle`; `EdsSources` under
   `SourceCalls`, which now sees the registry as a set.
3. Filters as recursive functions over a set of trees instead of `RECURSIVE` operators, and with them
   `QueriesTrue`.
