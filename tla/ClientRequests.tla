--------------------------- MODULE ClientRequests ---------------------------
(***************************************************************************)
(* The life of the requests of an application in the QtContacts plugin.    *)
(* The engine keeps a data object for every request it works on, makes one *)
(* asynchronous D-Bus call after the other for it, parses what a query     *)
(* returns, tells the request how it went and destroys the data object.    *)
(* An application that waits for a request, and the engine that has lost   *)
(* the service, run event loops inside the main loop; these form a stack,  *)
(* and only the innermost one can return.                                  *)
(*                                                                         *)
(* The application, the service and the bus are external.  What requests   *)
(* carry is left out: a plan lists the calls a request makes if all goes   *)
(* well.  The events of the application come between those of the bus; it  *)
(* does not destroy a request from a slot connected to that request.       *)
(***************************************************************************)
EXTENDS Naturals, SequencesExt

CONSTANTS Request,      \* the requests, each started once
          Plans,        \* the plans each request may have; << >> is a save or
                        \* a removal of nothing
          MaxLosses,    \* bound: how often the bus reports the service lost
          MaxDepth      \* bound: event loops inside each other

Calls == {"collections", "groups", "query", "queryNow", "page",
          "createGroup", "createContact", "updateGroups", "updateContacts",
          "removeContacts", "removeSource"}

\* The plan of a request of a type addRequest does not handle.
Unsupported == <<"unsupported">>

\* A fetch by id goes on with a page.
ASSUME PlansAssumption ==
  \A r \in Request : \A p \in Plans[r] :
    \/ p = Unsupported
    \/ p \in Seq(Calls) /\ (p # << >> /\ Head(p) = "queryNow" => Len(p) > 1)
ASSUME BoundsAssumption == MaxLosses \in Nat /\ MaxDepth \in Nat

VARIABLES
  state,     \* what the application sees of each request
  phase,     \* what the data object of each request is doing
  todo,      \* the calls of each request from the one under way on
  running,   \* m_runningRequests
  stack,     \* the event loops, innermost last: a request waited for, or Lost
  told,      \* the requests whose event loop was told to quit
  iface,     \* m_iface is not null
  ready,     \* m_serviceIsReady
  bus,       \* the service is on the bus, by the last notification
  losses,    \* the notifications that it was lost
  stranded,  \* history: requests the engine forgot without a word, or lost
             \* in the parser
  crashed    \* the process is gone

requestVars == <<state, phase, todo, running, told, stranded>>
serviceVars == <<iface, ready, bus, losses>>
vars == <<requestVars, stack, serviceVars, crashed>>

\* The frame of deinitialize(), told apart from every request.
Lost == "lost"

ASSUME LostAssumption == Lost \notin Request

\* "idle": nothing is under way but the object is kept, because somebody waits
\* for it or because nobody destroys it.
Phases == {"none", "called", "parsing", "stuck", "idle", "deleted"}

Waited(r) == \E i \in DOMAIN stack : stack[i] = r

\* GaleraContactsService::isOnline
IsOnline == iface /\ ready

Init ==
  /\ state = [r \in Request |-> "idle"]
  /\ phase = [r \in Request |-> "none"]
  /\ todo \in [Request -> UNION {Plans[r] : r \in Request}]
  /\ \A r \in Request : todo[r] \in Plans[r]
  /\ running = {} /\ stack = << >> /\ told = {} /\ stranded = {}
  /\ bus \in BOOLEAN
  /\ iface \in BOOLEAN
  /\ ready \in IF iface THEN BOOLEAN ELSE {FALSE}
  /\ losses = 0
  /\ crashed = FALSE

-----------------------------------------------------------------------------
(***************************************************************************)
(* How the engine is through with a request                                *)
(***************************************************************************)

\* Mutant: the lock a waiting caller holds is not looked at.
DestroyedWaiting(r) == "deleted"

\* deleteLater: the data object is deleted unless somebody waits for it.
Destroyed(r) == IF Waited(r) THEN "idle" ELSE "deleted"

\* destroyRequest, the request being in the list.
DestroyRequest(r) ==
  /\ running' = running \ {r}
  /\ phase' = [phase EXCEPT ![r] = Destroyed(r)]

\* update: the application learns the state and the event loop is told.
Told(r, s) ==
  /\ state' = [state EXCEPT ![r] = s]
  /\ told' = IF Waited(r) THEN told \cup {r} ELSE told

Finish(r) == /\ Told(r, "finished")
             /\ DestroyRequest(r)
             /\ UNCHANGED <<todo, stranded>>

\* The data object is destroyed and the request not told: it stays active.
Drop(r) == /\ DestroyRequest(r)
           /\ stranded' = stranded \cup {r}
           /\ UNCHANGED <<state, told, todo>>

\* Calls whose pcall.isError() is looked at: one that cannot be sent ends the
\* request.  The others get the error as their reply.
Checked == Calls \ {"createGroup", "createContact"}

\* The next call of calls goes out, or the request is finished.
Continue(r, calls) ==
  IF calls = << >> THEN Finish(r)
  ELSE \/ /\ phase' = [phase EXCEPT ![r] = "called"]
          /\ todo' = [todo EXCEPT ![r] = calls]
          /\ UNCHANGED <<state, running, told, stranded>>
       \/ Head(calls) \in Checked /\ Finish(r)

\* Mutant: the request is not even taken off the list.
FetchPageReturns(r) ==
  IF IsOnline THEN Continue(r, <<"page">>)
  ELSE /\ phase' = [phase EXCEPT ![r] = "idle"]
       /\ UNCHANGED <<state, todo, running, told, stranded>>

\* fetchContactsPage, which gives up silently when the service is gone.
FetchPage(r) == IF IsOnline THEN Continue(r, <<"page">>) ELSE Drop(r)

-----------------------------------------------------------------------------
(***************************************************************************)
(* The application                                                         *)
(***************************************************************************)

\* addRequest, the request being turned away at once.
Reject(r) == /\ state' = [state EXCEPT ![r] = "finished"]
             /\ UNCHANGED <<phase, todo, running, told, stranded>>

\* startRequest and addRequest.  The query of a fetch by id is a call that
\* blocks; if it succeeds the request goes on with the first page.
Start(r) ==
  /\ state[r] = "idle"
  /\ \/ ~IsOnline /\ Reject(r)
     \/ /\ IsOnline
        /\ todo[r] = Unsupported
        /\ state' = [state EXCEPT ![r] = "active"]
        /\ stranded' = stranded \cup {r}
        /\ UNCHANGED <<phase, todo, running, told>>
     \/ /\ IsOnline
        /\ todo[r] # Unsupported
        /\ todo[r] # << >> => Head(todo[r]) \in Checked
        /\ Reject(r)
     \/ /\ IsOnline
        /\ todo[r] # Unsupported
        /\ todo[r] # << >>
        /\ state' = [state EXCEPT ![r] = "active"]
        /\ running' = running \cup {r}
        /\ phase' = [phase EXCEPT ![r] = "called"]
        /\ todo' = [todo EXCEPT ![r] = IF Head(@) = "queryNow" THEN Tail(@) ELSE @]
        /\ UNCHANGED <<told, stranded>>
  /\ UNCHANGED <<stack, serviceVars, crashed>>

\* Mutant: the watcher of the call under way is kept.
CancelKeepsWatcher(r) ==
  /\ state[r] = "active"
  /\ r \in running
  /\ Told(r, "canceled")
  /\ running' = running \ {r}
  /\ UNCHANGED <<phase, todo, stranded, stack, serviceVars, crashed>>

\* cancelRequest: the call or the parser under way is given up as well.
Cancel(r) ==
  /\ state[r] = "active"
  /\ r \in running
  /\ Told(r, "canceled")
  /\ DestroyRequest(r)
  /\ UNCHANGED <<todo, stranded, stack, serviceVars, crashed>>

\* waitRequest up to its event loop.  A request that is not in the list is not
\* waited for, and no application waits for one inside a wait for the same.
Wait(r) ==
  /\ state[r] = "active"
  /\ r \in running
  /\ ~Waited(r)
  /\ Len(stack) < MaxDepth
  /\ stack' = Append(stack, r)
  /\ UNCHANGED <<requestVars, serviceVars, crashed>>

\* The rest of waitRequest, once the innermost loop was told to quit.
Return(r) ==
  /\ stack # << >> /\ Last(stack) = r
  /\ r \in told
  /\ stack' = Front(stack)
  /\ told' = told \ {r}
  /\ running' = running \ {r}
  /\ phase' = [phase EXCEPT ![r] = "deleted"]
  /\ UNCHANGED <<state, todo, stranded, serviceVars, crashed>>

\* Mutant: a loop that waits for the request is not told.
ReleaseSilently(r) ==
  /\ state[r] \in {"active", "finished", "canceled"}
  /\ state' = [state EXCEPT ![r] = "gone"]
  /\ IF r \in running THEN DestroyRequest(r) ELSE UNCHANGED <<running, phase>>
  /\ UNCHANGED <<told, todo, stranded, stack, serviceVars, crashed>>

\* releaseRequest: the application destroys the request.
Release(r) ==
  /\ state[r] \in {"active", "finished", "canceled"}
  /\ IF r \in running
     THEN Told(r, "gone") /\ DestroyRequest(r)
     ELSE state' = [state EXCEPT ![r] = "gone"] /\ UNCHANGED <<told, running, phase>>
  /\ UNCHANGED <<todo, stranded, stack, serviceVars, crashed>>

-----------------------------------------------------------------------------
(***************************************************************************)
(* Answers                                                                 *)
(***************************************************************************)

\* fetchCollectionsContinue: the data object of a request that succeeds stays
\* in the list, that of one that fails goes without a word.
CollectionsReply(r, ok) ==
  IF ok THEN /\ Told(r, "finished")
             /\ phase' = [phase EXCEPT ![r] = "idle"]
             /\ UNCHANGED <<running, todo, stranded>>
        ELSE Drop(r)

\* fetchContactsContinue
QueryReply(r, ok) == IF ok THEN FetchPage(r) ELSE Drop(r)

\* fetchContactsDone: vCards are parsed, an empty page and an error end it.
PageReply(r, ok) ==
  \/ /\ ok
     /\ phase' = [phase EXCEPT ![r] = "parsing"]
     /\ UNCHANGED <<state, todo, running, told, stranded>>
  \/ Finish(r)

\* createGroupDone of a group that was created, createContactsDone and
\* updateGroupsDone: what failed is noted and the save goes on.
StepReply(r, ok) == Continue(r, Tail(todo[r]))

\* removeContactContinue: without the contacts the sources are not removed.
RemoveReply(r, ok) == IF ok THEN Continue(r, Tail(todo[r])) ELSE Finish(r)

\* The answer to the call under way.  notifyUpdateError looks at the current
\* contact, of which there is none while groups are created: a group that
\* cannot be created is a null pointer followed.
Reply(r, ok) ==
  /\ phase[r] = "called"
  /\ LET call == Head(todo[r])
     IN  \/ call = "collections" /\ CollectionsReply(r, ok)
         \/ call = "query" /\ QueryReply(r, ok)
         \/ call = "page" /\ PageReply(r, ok)
         \/ call \in {"createContact", "updateGroups"} /\ StepReply(r, ok)
         \/ call = "createGroup" /\ ok /\ StepReply(r, ok)
         \/ call = "removeContacts" /\ RemoveReply(r, ok)
         \/ call \in {"groups", "updateContacts", "removeSource"} /\ Finish(r)
  /\ UNCHANGED <<stack, serviceVars, crashed>>

GroupNotCreated(r) ==
  /\ phase[r] = "called"
  /\ Head(todo[r]) = "createGroup"
  /\ crashed' = TRUE
  /\ UNCHANGED <<requestVars, stack, serviceVars>>

\* onVCardsParsed of a full page: the next one is fetched.
ParsedFull(r) ==
  /\ phase[r] = "parsing"
  /\ FetchPage(r)
  /\ UNCHANGED <<stack, serviceVars, crashed>>

\* onVCardsParsed of a page that is not full.
ParsedLast(r) ==
  /\ phase[r] = "parsing"
  /\ Finish(r)
  /\ UNCHANGED <<stack, serviceVars, crashed>>

\* onReaderStateChanged gives up when the importer rejects a vCard, and emits
\* nothing.
ParseFails(r) ==
  /\ phase[r] = "parsing"
  /\ phase' = [phase EXCEPT ![r] = "stuck"]
  /\ stranded' = stranded \cup {r}
  /\ UNCHANGED <<state, todo, running, told, stack, serviceVars, crashed>>

-----------------------------------------------------------------------------
(***************************************************************************)
(* The service comes and goes                                              *)
(***************************************************************************)

\* serviceOwnerChanged, no owner: deinitialize waits for all requests.
ServiceLost ==
  /\ bus
  /\ losses < MaxLosses
  /\ Len(stack) < MaxDepth
  /\ bus' = FALSE
  /\ losses' = losses + 1
  /\ stack' = IF iface THEN Append(stack, Lost) ELSE stack
  /\ UNCHANGED <<requestVars, iface, ready, crashed>>

\* Mutant: the requests are not waited for.
DeinitializedEarly ==
  /\ stack # << >> /\ Last(stack) = Lost
  /\ iface
  /\ stack' = Front(stack)
  /\ iface' \in BOOLEAN
  /\ ready' \in IF iface' THEN BOOLEAN ELSE {FALSE}
  /\ UNCHANGED <<requestVars, bus, losses, crashed>>

\* The rest of deinitialize, when no request is left: ping either makes the
\* bus start the service again or fails, and then the interface is dropped.
Deinitialized ==
  /\ stack # << >> /\ Last(stack) = Lost
  /\ running = {}
  /\ iface
  /\ stack' = Front(stack)
  /\ iface' \in BOOLEAN
  /\ ready' \in IF iface' THEN BOOLEAN ELSE {FALSE}
  /\ UNCHANGED <<requestVars, bus, losses, crashed>>

\* The same when a deinitialize inside this one has dropped the interface: the
\* null pointer is followed.
DeinitializedTwice ==
  /\ stack # << >> /\ Last(stack) = Lost
  /\ running = {}
  /\ ~iface
  /\ crashed' = TRUE
  /\ UNCHANGED <<requestVars, stack, serviceVars>>

\* serviceOwnerChanged, an owner: initialize, which may fail to connect.
ServiceAppeared ==
  /\ ~bus
  /\ bus' = TRUE
  /\ iface' \in IF iface THEN {TRUE} ELSE BOOLEAN
  /\ ready' \in IF iface' /\ ~iface THEN BOOLEAN ELSE {ready}
  /\ UNCHANGED <<requestVars, stack, losses, crashed>>

\* onServiceReady
ReadyChanged ==
  /\ iface
  /\ ready' = ~ready
  /\ UNCHANGED <<requestVars, stack, iface, bus, losses, crashed>>

-----------------------------------------------------------------------------

Application == \E r \in Request : Start(r) \/ Cancel(r) \/ Wait(r) \/ Release(r)

Answer == \E r \in Request : \/ \E ok \in BOOLEAN : Reply(r, ok)
                             \/ GroupNotCreated(r)
                             \/ ParsedFull(r)
                             \/ ParsedLast(r)
                             \/ ParseFails(r)

Service == ServiceLost \/ ServiceAppeared \/ ReadyChanged

Loops == Deinitialized \/ DeinitializedTwice \/ \E r \in Request : Return(r)

Next == ~crashed /\ (Application \/ Answer \/ Service \/ Loops)

Spec == Init /\ [][Next]_vars

\* Every call is answered, if only by an error; the reader ends; the contacts
\* of a query do not go on for ever; an event loop told to quit returns.
Fairness ==
  /\ \A r \in Request :
       /\ WF_vars(~crashed /\ (GroupNotCreated(r) \/ \E ok \in BOOLEAN : Reply(r, ok)))
       /\ WF_vars(~crashed /\ (ParsedFull(r) \/ ParsedLast(r) \/ ParseFails(r)))
       /\ SF_vars(~crashed /\ ParsedLast(r))
       /\ WF_vars(~crashed /\ Return(r))
  /\ WF_vars(~crashed /\ (Deinitialized \/ DeinitializedTwice))

FairSpec == Spec /\ Fairness

-----------------------------------------------------------------------------
(***************************************************************************)
(* Properties                                                              *)
(***************************************************************************)

\* Every variable keeps to its type (QContactRequestData and the members of
\* GaleraContactsService).
TypeOK ==
  /\ state \in [Request -> {"idle", "active", "finished", "canceled", "gone"}]
  /\ phase \in [Request -> Phases]
  /\ todo \in [Request -> Seq(Calls) \cup {Unsupported}]
  /\ running \in SUBSET Request
  /\ stack \in Seq(Request \cup {Lost}) /\ Len(stack) <= MaxDepth
  /\ told \in SUBSET Request
  /\ iface \in BOOLEAN /\ ready \in BOOLEAN /\ bus \in BOOLEAN /\ (ready => iface)
  /\ losses \in 0 .. MaxLosses
  /\ stranded \in SUBSET Request
  /\ crashed \in BOOLEAN

\* A data object outlives whatever may still use it: the list it is found in
\* and the waitRequest that holds a pointer to it across an event loop.
DataKept ==
  \A r \in Request : r \in running \/ Waited(r) => phase[r] \notin {"none", "deleted"}

\* Whatever was cancelled, waited for or destroyed meanwhile: an answer that
\* arrives finds its request active and in the list, so none of the tests of
\* isLive() in the callbacks is ever needed.
AnswersFindRequests ==
  \A r \in Request :
    phase[r] \in {"called", "parsing"} => state[r] = "active" /\ r \in running

\* Nobody waits for a request for which nothing is under way, unless he was
\* told already or the engine had lost the request.
WaitersAreTold ==
  \A r \in Request :
    Waited(r) => r \in told \/ r \in stranded \/ phase[r] \in {"called", "parsing"}

\* The steps of a request use m_iface without looking: deinitialize keeps it
\* until no request is under way, and nothing starts without it.
InterfaceKept ==
  (\E r \in Request : phase[r] \in {"called", "parsing"}) => iface

\* A request that was started comes to an end, unless it is one of those the
\* engine forgets: of an unsupported type, a query or a list of collections
\* that fails, a page that comes after the service went offline, a vCard that
\* cannot be imported.
Finishes ==
  \A r \in Request : state[r] = "active" ~> state[r] # "active" \/ r \in stranded \/ crashed

\* The event loops come to an end, unless a request the engine forgot is waited
\* for or still in the list that deinitialize waits for, or a list of collections
\* is, whose data nobody takes off the list.
Unwinds ==
  []<>(\/ stack = << >> \/ crashed
       \/ \E r \in stranded : Waited(r) \/ r \in running
       \/ \E r \in running : phase[r] = "idle")

\* Requests and event loops end, with the exceptions above; deinitialize, which means to
\* "wait until all request finish", waits on after all have if a list of collections is
\* still in the list of running requests.
Ends == Finishes /\ Unwinds
=============================================================================
