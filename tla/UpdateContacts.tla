--------------------------- MODULE UpdateContacts ---------------------------
(***************************************************************************)
(* The update command of the service.  A client sends a list of contacts;  *)
(* AddressBook::updateContacts takes m_updateLock, updateContactsDone goes *)
(* through the list, and for each contact an UpdateContactRequest, holding *)
(* the lock of the individual, asks folks to change one detail after the   *)
(* other, each an asynchronous call.  The last slot call answers the       *)
(* client and releases m_updateLock.  A second call that finds the lock    *)
(* taken waits in processUpdates, which runs the event loop meanwhile: any *)
(* handler, a third call included, may run inside the second.              *)
(*                                                                         *)
(* A filter thread may load a contact meanwhile, under the lock of the     *)
(* individual and with the read lock of the map, and a reload may take the *)
(* whole map away and bring another.                                       *)
(*                                                                         *)
(* Folks is external: it answers changes, reports changes made by others,  *)
(* and takes individuals away and brings them back at any time.            *)
(*                                                                         *)
(* A detail here is one asynchronous change of one persona, numbered in    *)
(* the order the request visits them.  The extended details, written       *)
(* synchronously and without an error path, are left out.                  *)
(***************************************************************************)
EXTENDS Naturals, FiniteSets, SequencesExt

CONSTANTS Contact,     \* the contact ids
          Details,     \* how many details a contact has
          Value,       \* the values of a detail
          Caller,      \* the calls of updateContacts, each made once
          Lists,       \* the lists of contacts clients send
          MaxTries,    \* the timeout of processUpdates
          MaxForeign,  \* bound: changes made by other programs
          None         \* no contact, no request

Data == [1..Details -> Value]
Update == [id : Contact, new : Data]

\* A request in the middle of an update: it has asked folks to change detail.
Request == [update : Update, original : Data, attached : BOOLEAN, detail : 1..Details]

ASSUME DetailsAssumption == Details \in Nat
ASSUME BoundsAssumption == MaxTries \in Nat /\ MaxForeign \in Nat
ASSUME ListsAssumption == Lists \subseteq Seq(Update)
ASSUME NoneAssumption ==
  None \notin Data \cup Contact \cup Caller \cup Request \cup [contact : Contact, data : Data \cup {None}]

VARIABLES
  map,          \* m_contacts is not null
  entries,      \* the contacts with an entry in m_contacts
  backend,      \* what folks has for each contact
  cache,        \* m_contact of each individual, None when it is dirty
  contactLock,  \* the individuals whose m_contactLock a request has
  request,      \* the UpdateContactRequest with a change under way, or None
  garbage,      \* the levels at which failed requests were given to deleteLater
  reader,       \* the filter thread in QIndividual::contact, or None
  halted,       \* how the main thread came to its end, "no" as long as it runs
  locked,       \* m_updateLock is taken
  command,      \* the command that took it last
  called,       \* the calls that were made
  queue,        \* the calls the adaptor has queued for the main loop
  waiting,      \* the nested event loops, the innermost one last
  replies,      \* the replies to the message of each call
  dropped,      \* the calls that gave up
  foreign,      \* how many changes others made
  failed,       \* history: entries whose last update failed
  missed,       \* history: entries that changed while the thread loaded them
  unannounced   \* history: entries changed in folks that neither the command
                \* nor individualChanged has handed to the coalescer

entryVars   == <<map, entries, backend, cache, contactLock, request, reader>>
commandVars == <<locked, command>>
callVars    == <<called, queue, waiting, replies, dropped>>
history     == <<foreign, failed, missed, unannounced>>
vars == <<entryVars, commandVars, callVars, history, garbage, halted>>

\* What a reply says of one contact; Failure is an error text.
Failure == [id |-> None, data |-> None]
Result  == [id : Contact, data : Data] \cup {Failure}

\* A reply, and the call whose end sent it.
Reply == [from : Caller, result : Seq(Result)]

\* The event loop of ~UpdateContactRequest: m_currentPersona is still set after a
\* failure, so the destructor waits for an operation that has ended.
Destructor == [call |-> [caller |-> None, list |-> << >>], tries |-> 0]
Frame == [call : [caller : Caller, list : Lists], tries : 0..MaxTries] \cup {Destructor}

\* The filter thread has the lock of the individual and loads it; before that it waits
\* for the lock.
Holds(c)    == reader # None /\ reader.contact = c /\ reader.data # None
WaitsFor(c) == reader # None /\ reader.contact = c /\ reader.data = None

Running == halted = "no"

\* A command that has taken the lock: next is the first contact of the list
\* that is still in m_updateCommandPendingContacts.
Command(k, list) ==
  [caller |-> k, list |-> list, next |-> 1, updated |-> {},
   result |-> [i \in DOMAIN list |-> [id |-> list[i].id, data |-> list[i].new]]]

Init ==
  /\ map = TRUE
  /\ entries \in SUBSET Contact
  /\ backend \in [Contact -> {[d \in 1..Details |-> v] : v \in Value}]
  /\ cache = [c \in Contact |-> IF c \in entries THEN backend[c] ELSE None]
  /\ contactLock = {}
  /\ request = None /\ garbage = << >> /\ reader = None /\ halted = "no"
  /\ locked = FALSE
  /\ command = Command(None, << >>)
  /\ called = {} /\ queue = << >> /\ waiting = << >> /\ dropped = {}
  /\ replies = [k \in Caller |-> << >>]
  /\ foreign = 0 /\ failed = {} /\ missed = {} /\ unannounced = {}

-----------------------------------------------------------------------------
(***************************************************************************)
(* updateContactsDone, from the point where it looks for the next contact. *)
(* book and locks are what the handler that calls it leaves in cache and   *)
(* contactLock, silent what it leaves in unannounced.                      *)
(***************************************************************************)

\* The contacts an update can be asked for.  QIndividual::update also fails when
\* it does not get the lock of the individual in time: the lock of a request, that
\* is; a thread has done its load by then.
Open(cmd, locks) ==
  {i \in cmd.next..Len(cmd.list) : cmd.list[i].id \in entries \ locks}

\* The contacts of the list in front of i that were not found fail at once.
Skipped(cmd, i) ==
  [n \in DOMAIN cmd.result |-> IF n \in cmd.next..(i - 1) THEN Failure ELSE cmd.result[n]]

\* The details a request for u changes after detail d.
Differing(u, original, d) == {e \in d + 1..Details : original[e] # u.new[e]}

\* The list is done: the client is answered, the coalescer is told and the
\* command releases its lock.
Finish(cmd, book, locks, silent) ==
  /\ replies' = [replies EXCEPT ![cmd.caller] =
       Append(@, [from |-> cmd.caller, result |-> Skipped(cmd, Len(cmd.list) + 1)])]
  /\ unannounced' = silent \ cmd.updated
  /\ locked' = FALSE
  /\ command' = Command(None, << >>)
  /\ cache' = book
  /\ contactLock' = locks
  /\ request' = None

\* QIndividual::update for contact i of the list, after the load of a thread if
\* there is one.  When nothing differs it returns false without a slot call, and
\* the command stays where it is.
StartUpdate(cmd, i, book, locks, silent) ==
  LET u == cmd.list[i]
      original == IF book[u.id] = None THEN backend'[u.id] ELSE book[u.id]
  IN  /\ ~Holds(u.id)
      /\ locked' = TRUE
      /\ command' = [cmd EXCEPT !.next = i + 1, !.result = Skipped(cmd, i)]
      /\ cache' = [book EXCEPT ![u.id] = original]
      /\ unannounced' = silent
      /\ IF original = u.new
         THEN request' = None /\ contactLock' = locks
         ELSE /\ contactLock' = locks \cup {u.id}
              /\ request' = [update |-> u, original |-> original, attached |-> TRUE,
                             detail |-> Min(Differing(u, original, 0))]
      /\ UNCHANGED replies

Continue(cmd, book, locks, silent) ==
  LET open == Open(cmd, locks)
  IN  IF open = {} THEN Finish(cmd, book, locks, silent)
      ELSE StartUpdate(cmd, Min(open), book, locks, silent)

\* The result goes to m_updateCommandResult[currentContactIndex].
WithResult(cmd, r) == [cmd EXCEPT !.result[cmd.next - 1] = r]

-----------------------------------------------------------------------------
(***************************************************************************)
(* Calls                                                                   *)
(***************************************************************************)

\* The adaptor: the reply is delayed, the call queued, whether the service is
\* ready or not.
Call(k, list) ==
  /\ Running
  /\ k \notin called
  /\ called' = called \cup {k}
  /\ queue' = Append(queue, [caller |-> k, list |-> list])
  /\ UNCHANGED <<entryVars, commandVars, waiting, replies, dropped, history, garbage, halted>>

\* updateContacts with the lock free.  Nobody asks whether there is a map: during a
\* reload updateContactsDone looks the first contact up in a null pointer.
Enter(call) ==
  LET cmd == Command(call.caller, call.list)
  IN  /\ UNCHANGED <<map, entries, backend, reader, called, dropped, foreign, failed, missed,
                     garbage>>
      /\ IF map \/ call.list = << >>
         THEN Continue(cmd, cache, contactLock, unannounced) /\ UNCHANGED halted
         ELSE /\ halted' = "reload"
              /\ locked' = TRUE
              /\ command' = cmd
              /\ UNCHANGED <<cache, contactLock, request, replies, unannounced>>

\* Mutant: a call does not wait for the one before it.
BeginAnyway ==
  /\ Running
  /\ queue # << >>
  /\ queue' = Tail(queue)
  /\ Enter(Head(queue))
  /\ UNCHANGED waiting

\* updateContacts, run by the main loop or inside the innermost nested one.
Begin ==
  /\ Running
  /\ queue # << >>
  /\ queue' = Tail(queue)
  /\ IF ~locked
     THEN Enter(Head(queue)) /\ UNCHANGED waiting
     ELSE /\ waiting' = Append(waiting, [call |-> Head(queue), tries |-> MaxTries])
          /\ UNCHANGED <<entryVars, commandVars, called, replies, dropped, history, garbage,
                         halted>>

\* The innermost event loop is that of a call in processUpdates.
Innermost == Running /\ waiting # << >> /\ Last(waiting) # Destructor

\* processUpdates of the innermost call gets the lock ...
Resume ==
  /\ Innermost
  /\ ~locked
  /\ waiting' = Front(waiting)
  /\ Enter(Last(waiting).call)
  /\ UNCHANGED queue

\* Mutant: the turns are not counted.
TryAgainForever ==
  /\ Innermost
  /\ locked
  /\ Last(waiting).tries > 0
  /\ UNCHANGED vars

\* ... or does not, and runs the event loop ...
TryAgain ==
  /\ Innermost
  /\ locked
  /\ Last(waiting).tries > 0
  /\ waiting' = [waiting EXCEPT ![Len(waiting)].tries = @ - 1]
  /\ UNCHANGED <<entryVars, commandVars, called, queue, replies, dropped, history, garbage, halted>>

\* ... or gives up: an empty reply goes to m_updateCommandReplyMessage, the
\* message of the command that has the lock.
GiveUp ==
  /\ Innermost
  /\ locked
  /\ Last(waiting).tries = 0
  /\ waiting' = Front(waiting)
  /\ dropped' = dropped \cup {Last(waiting).call.caller}
  /\ replies' = [replies EXCEPT ![command.caller] =
       Append(@, [from |-> Last(waiting).call.caller, result |-> << >>])]
  /\ UNCHANGED <<entryVars, commandVars, called, queue, history, garbage, halted>>

-----------------------------------------------------------------------------
(***************************************************************************)
(* The request                                                             *)
(***************************************************************************)

\* The details left after the one under way.
Left == Differing(request.update, request.original, request.detail)

\* Folks has changed the detail.
Written ==
  [backend EXCEPT ![request.update.id][request.detail] = request.update.new[request.detail]]

\* Mutant: the lock is not asked for.
FolksTellsAlways(c) ==
  /\ cache' = [cache EXCEPT ![c] = None]
  /\ unannounced' = unannounced \ {c}
  /\ failed' = failed \ {c}
  /\ missed' = missed \ {c}

\* folksIndividualChanged.  It marks the individual dirty and notifies, unless the
\* lock of the individual is taken: by an update, or by a thread that may have read
\* the old value already.
FolksTells(c) ==
  \/ /\ c \in contactLock
     /\ unannounced' = unannounced \cup {c}
     /\ UNCHANGED <<cache, failed, missed>>
  \/ /\ Holds(c)
     /\ unannounced' = unannounced \cup {c}
     /\ missed' = missed \cup {c}
     /\ UNCHANGED <<cache, failed>>
  \/ /\ c \notin contactLock /\ ~Holds(c)
     /\ cache' = [cache EXCEPT ![c] = None]
     /\ unannounced' = unannounced \ {c}
     /\ failed' = failed \ {c}
     /\ missed' = missed \ {c}

\* A detail is changed and there are others.
DetailChanged ==
  /\ Running
  /\ request # None
  /\ Left # {}
  /\ backend' = Written
  /\ request' = [request EXCEPT !.detail = Min(Left)]
  /\ FolksTells(request.update.id)
  /\ UNCHANGED <<map, entries, contactLock, reader, commandVars, callVars, foreign, garbage, halted>>

\* The last detail of the contact that the command waits for is changed.  The command
\* moves the contact in the map: it waits for a thread that scans the map, and a thread
\* that waits for the lock of the contact has it first.
LastDetailChanged ==
  /\ Running
  /\ request # None
  /\ Left = {}
  /\ request.attached
  /\ reader = None \/ WaitsFor(request.update.id)
  /\ reader' = None
  /\ backend' = Written
  /\ failed' = failed \ {request.update.id}
  /\ missed' = missed \ {request.update.id}
  /\ UNCHANGED <<map, entries, called, queue, waiting, dropped, foreign, garbage, halted>>

\* Mutant: the individual keeps the contact it had before the update.
UpdateDoneStale ==
  LET c == request.update.id
  IN  /\ LastDetailChanged
      /\ Continue([WithResult(command, [id |-> c, data |-> backend'[c]])
                     EXCEPT !.updated = @ \cup {c}],
                  cache, contactLock \ {c}, unannounced \cup {c})

\* The individual is flushed and unlocked, and updateContactsDone reads it again for
\* the result.
UpdateDone ==
  LET c == request.update.id
  IN  /\ LastDetailChanged
      /\ Continue([WithResult(command, [id |-> c, data |-> backend'[c]])
                     EXCEPT !.updated = @ \cup {c}],
                  [cache EXCEPT ![c] = backend'[c]], contactLock \ {c},
                  unannounced \cup {c})

\* Qt deletes an object that deleteLater was called for once control is back at a
\* lower level than the call: an event loop counts one, and so does an event handler.
\* A nested processUpdates is a handler, a Destructor a handler with a loop of its own.
Level == 1 + Len(waiting) + Cardinality({i \in DOMAIN waiting : waiting[i] = Destructor})
PostLevel == IF waiting = << >> THEN 2 ELSE Level

\* Folks refuses a change: the slot is called with an error, and the request, which
\* keeps m_currentPersona, is to be deleted.
ChangeRefused ==
  /\ Running
  /\ request # None
  /\ request.attached
  /\ failed' = failed \cup {request.update.id}
  /\ garbage' = Append(garbage, PostLevel)
  /\ UNCHANGED <<map, entries, backend, reader, called, queue, waiting, dropped, foreign, missed,
                 halted>>

\* The rest of the details is given up and the individual unlocked, with the contact
\* it had before the update.
UpdateFailed ==
  LET c == request.update.id
  IN  /\ ChangeRefused
      /\ Continue(WithResult(command, Failure), cache, contactLock \ {c}, unannounced)

\* A request that lost its individual ends, with its last change or with an error, and
\* calls no slot.
DetachedDone ==
  /\ Running
  /\ request # None
  /\ ~request.attached
  /\ request' = None
  /\ \/ Left = {} /\ backend' = Written /\ FolksTells(request.update.id) /\ UNCHANGED garbage
     \/ /\ garbage' = Append(garbage, PostLevel)
        /\ UNCHANGED <<backend, cache, failed, missed, unannounced>>
  /\ UNCHANGED <<map, entries, contactLock, reader, commandVars, callVars, foreign, halted>>

FolksAnswers == DetailChanged \/ UpdateDone \/ UpdateFailed \/ DetachedDone

\* A failed request is deleted: its destructor runs an event loop that nobody quits.
RequestDeleted ==
  /\ Running
  /\ \E i \in DOMAIN garbage :
       /\ Level < garbage[i]
       /\ garbage' = RemoveAt(garbage, i)
  /\ waiting' = Append(waiting, Destructor)
  /\ UNCHANGED <<entryVars, commandVars, called, queue, replies, dropped, history, halted>>

-----------------------------------------------------------------------------
(***************************************************************************)
(* The filter thread: QIndividual::contact under the read lock of the map. *)
(* The steps of a scan between two calls of it are left out.               *)
(***************************************************************************)

\* m_contact is null ...
ThreadChecks(c) ==
  /\ Running
  /\ reader = None
  /\ c \in entries
  /\ cache[c] = None
  /\ reader' = [contact |-> c, data |-> None]
  /\ UNCHANGED <<map, entries, backend, cache, contactLock, request, commandVars, callVars,
                 history, garbage, halted>>

\* ... the lock is free ...
ThreadLocks ==
  /\ Running
  /\ reader # None
  /\ reader.data = None
  /\ reader.contact \notin contactLock
  /\ reader' = [reader EXCEPT !.data = backend[reader.contact]]
  /\ UNCHANGED <<map, entries, backend, cache, contactLock, request, commandVars, callVars,
                 history, garbage, halted>>

\* ... and what was read, each detail before or after a change, is the contact.
ThreadLoads ==
  /\ Running
  /\ reader # None
  /\ reader.data # None
  /\ \E new \in Data :
       /\ \A d \in 1..Details : new[d] \in {reader.data[d], backend[reader.contact][d]}
       /\ cache' = [cache EXCEPT ![reader.contact] = new]
  /\ reader' = None
  /\ UNCHANGED <<map, entries, backend, contactLock, request, commandVars, callVars, history,
                 garbage, halted>>

\* A handler changes the map and waits for the thread to end its scan, and the thread
\* waits for an update that needs the event loop.
ScanWaits ==
  /\ Running
  /\ reader # None
  /\ reader.contact \in contactLock
  /\ halted' = "scan"
  /\ UNCHANGED <<entryVars, commandVars, callVars, history, garbage>>

-----------------------------------------------------------------------------
(***************************************************************************)
(* Changes in folks that the service did not ask for, and reloads.  What   *)
(* changes the map has its write lock: no thread is in a scan.             *)
(***************************************************************************)

\* The individuals of cs are destroyed: that detaches the request of one of them.
Destroyed(cs) ==
  /\ Running
  /\ reader = None
  /\ entries' = entries \ cs
  /\ cache' = [c \in Contact |-> IF c \in cs THEN None ELSE cache[c]]
  /\ contactLock' = contactLock \ cs
  /\ request' = IF contactLock \cap cs # {} THEN [request EXCEPT !.attached = FALSE] ELSE request
  /\ failed' = failed \ cs
  /\ missed' = missed \ cs
  /\ unannounced' = unannounced \ cs
  /\ UNCHANGED <<backend, reader, commandVars, callVars, foreign, garbage, halted>>

\* individualsChangedCb takes an entry away.
EntryRemoved(c) == c \in entries /\ Destroyed({c}) /\ UNCHANGED map

\* unprepareFolks closes the views and deletes the map ...
Unprepare == map /\ Destroyed(Contact) /\ map' = FALSE

\* ... and prepareFolks makes another.
Prepare ==
  /\ Running
  /\ ~map
  /\ map' = TRUE
  /\ UNCHANGED <<entries, backend, cache, contactLock, request, reader, commandVars, callVars,
                 history, garbage, halted>>

\* individualsChangedCb adds an entry; filing it in the map loads it.
EntryAdded(c) ==
  /\ Running
  /\ map
  /\ reader = None
  /\ c \notin entries
  /\ entries' = entries \cup {c}
  /\ cache' = [cache EXCEPT ![c] = backend[c]]
  /\ UNCHANGED <<map, backend, contactLock, request, reader, commandVars, callVars, history,
                 garbage, halted>>

\* individualsChangedCb adds an individual that has an entry.  When it is the one of the
\* entry, the contact is loaded if it has to be, and announced.
EntryRepeated(c) ==
  /\ Running
  /\ reader = None
  /\ c \in entries
  /\ cache' = IF cache[c] = None THEN [cache EXCEPT ![c] = backend[c]] ELSE cache
  /\ unannounced' = unannounced \ {c}
  /\ UNCHANGED <<map, entries, backend, contactLock, request, reader, commandVars, callVars,
                 foreign, failed, missed, garbage, halted>>

\* The contact of c is cleared and read again at once.  While an update has the lock of
\* the individual the main thread then waits for itself.
ReadAgain(c, how) ==
  IF c \in contactLock
  THEN cache' = [cache EXCEPT ![c] = None] /\ halted' = how
  ELSE cache' = [cache EXCEPT ![c] = backend[c]] /\ UNCHANGED halted

\* When it is another one, setIndividual clears the contact and updatePosition reads it.
EntryReplaced(c) ==
  /\ Running
  /\ reader = None
  /\ c \in entries
  /\ ReadAgain(c, "replaced")
  /\ failed' = failed \ {c}
  /\ missed' = missed \ {c}
  /\ unannounced' = unannounced \ {c}
  /\ UNCHANGED <<map, entries, backend, contactLock, request, reader, commandVars, callVars,
                 foreign, garbage>>

\* createContactDone finds an entry for the new persona: flush clears its contact, and
\* the reply reads it.
Created(c) ==
  /\ Running
  /\ c \in entries
  /\ ~Holds(c)
  /\ ReadAgain(c, "created")
  /\ UNCHANGED <<map, entries, backend, contactLock, request, reader, commandVars, callVars,
                 history, garbage>>

\* Somebody else changes a detail.
ForeignChange(c, d, v) ==
  /\ Running
  /\ foreign < MaxForeign
  /\ c \in entries
  /\ backend[c][d] # v
  /\ backend' = [backend EXCEPT ![c][d] = v]
  /\ foreign' = foreign + 1
  /\ FolksTells(c)
  /\ UNCHANGED <<map, entries, contactLock, request, reader, commandVars, callVars, garbage, halted>>

\* A handler of the main loop asks the individual for its contact, to compare it with
\* one that is filed in the map for instance.
Read(c) ==
  /\ Running
  /\ c \in entries
  /\ cache[c] = None
  /\ ~Holds(c)
  /\ cache' = [cache EXCEPT ![c] = backend[c]]
  /\ UNCHANGED <<map, entries, backend, contactLock, request, reader, commandVars, callVars,
                 history, garbage, halted>>

EntryChanges(c) ==
  \/ EntryRemoved(c) \/ EntryAdded(c) \/ EntryRepeated(c) \/ EntryReplaced(c) \/ Created(c)
  \/ \E d \in 1..Details, v \in Value : ForeignChange(c, d, v)

-----------------------------------------------------------------------------

Next ==
  \/ \E k \in Caller, list \in Lists : Call(k, list)
  \/ Begin
  \/ Resume \/ TryAgain \/ GiveUp
  \/ FolksAnswers \/ RequestDeleted
  \/ \E c \in Contact : EntryChanges(c) \/ Read(c) \/ ThreadChecks(c)
  \/ ThreadLocks \/ ThreadLoads \/ ScanWaits
  \/ Unprepare \/ Prepare

Spec == Init /\ [][Next]_vars

\* The event loops and the thread run, and folks answers what it is asked.
Fairness == /\ WF_vars(Begin) /\ WF_vars(FolksAnswers)
            /\ WF_vars(Resume \/ TryAgain \/ GiveUp)
            /\ WF_vars(ThreadLocks \/ ThreadLoads)

FairSpec == Spec /\ Fairness

-----------------------------------------------------------------------------
(***************************************************************************)
(* Properties                                                              *)
(***************************************************************************)

\* The variables keep to their types.
TypeOK ==
  /\ map \in BOOLEAN
  /\ entries \in SUBSET Contact /\ contactLock \in SUBSET entries
  /\ backend \in [Contact -> Data]
  /\ cache \in [Contact -> Data \cup {None}]
  /\ request \in Request \cup {None}
  /\ garbage \in Seq(Nat)
  /\ reader \in [contact : entries, data : Data \cup {None}] \cup {None}
  /\ halted \in {"no", "reload", "replaced", "created", "scan"}
  /\ locked \in BOOLEAN
  /\ command \in [caller : Caller \cup {None}, list : Lists \cup {<< >>}, next : Nat,
                 updated : SUBSET Contact, result : Seq(Result)]
  /\ command.next \in 1..Len(command.list) + 1
  /\ called \in SUBSET Caller /\ dropped \in SUBSET Caller
  /\ queue \in Seq([caller : Caller, list : Lists])
  /\ waiting \in Seq(Frame)
  /\ replies \in [Caller -> Seq(Reply)]
  /\ failed \in SUBSET Contact /\ missed \in SUBSET Contact /\ unannounced \in SUBSET Contact

\* The lock is taken and nobody is left who would release it: the contact was
\* found equal, or its entry went away during the update.
Stuck == locked /\ (request = None \/ ~request.attached)

\* The thread has seen that a contact is to be loaded and waits for its update.
ThreadWaits == reader # None /\ reader.contact \in contactLock

\* The main thread comes to its end in four ways only: an update finds no map, or, in
\* the middle of an update, the individual gets another one of folks, or a new persona,
\* or the map is to be changed while a thread waits for the contact.
HaltedInv ==
  /\ halted = "reload" => locked /\ ~map
  /\ halted \in {"replaced", "created"} => contactLock # {}
  /\ halted = "scan" => ThreadWaits

\* A command that is not stuck waits for the contact that comes before next,
\* whose entry is in the map (the Q_ASSERT of updateContactsDone) and the only
\* one that is locked.  Its contact is loaded all the time, so that no handler of the
\* main loop waits for a lock the main loop has, but for the two that end it; and no
\* thread is loading it.
CommandInv ==
  /\ TypeOK
  /\ HaltedInv
  /\ ~map => entries = {}
  /\ contactLock = IF request # None /\ request.attached
                   THEN {request.update.id} ELSE {}
  /\ \A c \in contactLock :
       /\ locked
       /\ c \in entries
       /\ halted \notin {"replaced", "created"} => cache[c] = request.original
       /\ ~Holds(c)
       /\ command.list[command.next - 1] = request.update

\* A call has come to its end: a reply was sent.
Over(k) == \E h \in Caller : \E i \in DOMAIN replies[h] : replies[h][i].from = k

\* Each call is queued, waits, has the lock or is over, and never two of these at once.
Accounted ==
  \A k \in called :
    Quantify({1, 2, 3, 4}, LAMBDA place :
      CASE place = 1 -> \E i \in DOMAIN queue : queue[i].caller = k
        [] place = 2 -> \E i \in DOMAIN waiting : waiting[i].call.caller = k
        [] place = 3 -> locked /\ command.caller = k
        [] place = 4 -> Over(k)) = 1

\* A call sends one reply, and to its own message, unless it gave up: then the one
\* reply, an empty one, goes to another call, and its own client is never answered.
OneReply ==
  \A g, h \in Caller : \A m \in DOMAIN replies[g], n \in DOMAIN replies[h] :
    /\ replies[g][m].from = replies[h][n].from => g = h /\ m = n
    /\ replies[g][m].from = g <=> replies[g][m].from \notin dropped

\* The results of a list come back in its order: each place holds an error or
\* the contact the client sent there, and the places not reached yet hold what
\* the client sent.
ResultsInPlace ==
  \A n \in DOMAIN command.list :
    /\ command.result[n].id \in {command.list[n].id, None}
    /\ n >= command.next => command.result[n].data = command.list[n].new

\* A call that does not give up is answered once with its own results; one that gives
\* up never is, and the call that has the lock then is answered twice.
CallsAnswered == Accounted /\ OneReply /\ ResultsInPlace

\* An individual that is not being updated shows what folks has, unless its
\* last update failed or it changed while a thread loaded it.
FreshUnlessSkipped ==
  \A c \in entries \ (contactLock \cup failed \cup missed) : cache[c] \in {None, backend[c]}

\* What an update wrote is announced when its command is done, with the same exceptions.
AnnouncedUnlessSkipped == ~locked => unannounced \subseteq failed \cup missed

\* Whoever reads a contact after an update, and whoever waits for the news of it, gets
\* what folks has now.  There are two exceptions, of changes that folksIndividualChanged
\* skipped and nobody made up for: those during an update that failed half way, and those
\* during the load of a thread.
UpToDate == FreshUnlessSkipped /\ AnnouncedUnlessSkipped

\* A call whose event loop is beneath that of a destructor never goes on.
Buried(k) ==
  \E i, j \in DOMAIN waiting : i < j /\ waiting[i].call.caller = k /\ waiting[j] = Destructor

\* Every call of updateContacts is over some day, unless it has the lock and nobody is
\* left who would go on with it, or waits beneath the destructor of a failed update, or
\* the main thread has come to its end.
CallsEnd ==
  \A k \in Caller :
    k \in called ~> (Over(k) \/ (Stuck /\ command.caller = k) \/ Buried(k) \/ ~Running)
=============================================================================
