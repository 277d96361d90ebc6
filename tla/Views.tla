------------------------------- MODULE Views -------------------------------
(***************************************************************************)
(* The views of the service and the threads that fill them.  A query makes *)
(* a View, whose FilterThread reads the map of the contacts in a thread of *)
(* the global pool, under the read lock of the map.  A client asks a view  *)
(* for its contents or closes it, unprepareFolks closes all of them before *)
(* it deletes the map.  Each of these waits for the filter in an event     *)
(* loop of its own (View::waitFilter), inside which the main thread may    *)
(* start any other of them: the loops form a stack, and only the innermost *)
(* one can return.                                                         *)
(*                                                                         *)
(* What a filter finds is not modelled here, only who may touch what when. *)
(***************************************************************************)
EXTENDS Naturals, SequencesExt

CONSTANTS View,        \* the views, each queried once
          Threads,     \* the size of the thread pool
          MaxDepth,    \* bound: event loops inside each other
          MaxReloads,  \* bound: runs of unprepareFolks
          None         \* no view

ASSUME BoundsAssumption == Threads \in Nat /\ MaxDepth \in Nat /\ MaxReloads \in Nat
ASSUME NoneAssumption == None \notin View

VARIABLES
  ready,      \* m_ready
  folks,      \* "none" until prepareFolks makes a map, "preparing" or "quiescent"
  adaptor,    \* the views with a D-Bus adaptor (isOpen)
  views,      \* m_views
  thread,     \* what the m_filterThread of each view is at
  map,        \* the map a filter was given: "none", "live" or "deleted"
  cancelled,  \* the filters with m_canceled set
  posted,     \* the views with an onFilterDone under way
  loop,       \* m_waiting: the place of the loop in the stack, or 0
  stack,      \* the calls of the main thread that wait, or run, innermost last
  answered,   \* the views that answered a client
  reloads,    \* how often unprepareFolks was called
  crashed,    \* "no", or which memory was used that had been freed or was being written
  overlapped, \* history: a view was waited for by two loops at once
  inside,     \* history: views that were closed inside a wait for them
  during      \* history: views that were queried inside an unprepareFolks

mainVars    == <<ready, folks, adaptor, views, stack, loop, reloads>>
threadVars  == <<thread, map, cancelled, posted>>
historyVars == <<overlapped, inside, during>>
vars == <<mainVars, threadVars, answered, crashed, historyVars>>

\* "none" before the query, "idle" if the query found no map to read.
Stages == {"none", "idle", "queued", "starting", "scanning", "leaving", "posting", "done", "deleted"}

\* A call of the main thread: it waits for view in a loop, which may have been
\* told to quit, or is running; an unprepareFolks has views left to close.
Frames == [kind : {"call", "close", "unprepare"}, view : View \cup {None},
           waits : BOOLEAN, quit : BOOLEAN, rest : SUBSET View]

Waiting(kind, v, rest) ==
  [kind |-> kind, view |-> v, waits |-> TRUE, quit |-> FALSE, rest |-> rest]

Unpreparing(rest) ==
  [kind |-> "unprepare", view |-> None, waits |-> FALSE, quit |-> FALSE, rest |-> rest]

Init ==
  /\ folks \in {"preparing", "quiescent"}
  /\ ready = (folks = "quiescent")
  /\ adaptor = {} /\ views = {}
  /\ thread = [v \in View |-> "none"] /\ map = [v \in View |-> "none"]
  /\ cancelled = {} /\ posted = {} /\ answered = {}
  /\ loop = [v \in View |-> 0] /\ stack = << >>
  /\ reloads = 0
  /\ crashed = "no" /\ overlapped = FALSE /\ inside = {} /\ during = {}

-----------------------------------------------------------------------------
(***************************************************************************)
(* The main thread                                                         *)
(***************************************************************************)

Alive == crashed = "no"

\* The main thread is in an event loop and takes the next event.
InLoop == Alive /\ (stack # << >> => Last(stack).waits)

\* FilterThread::done
Done(v) == thread[v] \in {"posting", "done"}

Unused(v) == thread[v] = "none"

\* AddressBook::query: the filter only starts if the service is ready and has
\* a map.
Query(v) ==
  /\ InLoop
  /\ Unused(v)
  /\ adaptor' = adaptor \cup {v}
  /\ views' = views \cup {v}
  /\ thread' = [thread EXCEPT ![v] = IF ready /\ folks # "none" THEN "queued" ELSE "idle"]
  /\ map' = [map EXCEPT ![v] = IF ready /\ folks # "none" THEN "live" ELSE "none"]
  /\ during' = IF \E i \in DOMAIN stack : stack[i].kind = "unprepare"
               THEN during \cup {v} ELSE during
  /\ UNCHANGED <<ready, folks, stack, loop, reloads, cancelled, posted>>
  /\ UNCHANGED <<answered, crashed, overlapped, inside>>

\* waitFilter enters a loop; the place of an older one is forgotten.
Wait(v, frames) ==
  /\ stack' = frames
  /\ loop' = [loop EXCEPT ![v] = Len(frames)]
  /\ overlapped' = (overlapped \/ loop[v] > 0)

\* contactsDetails and count: wait for the filter, then answer.
Ask(v) ==
  /\ InLoop
  /\ v \in adaptor
  /\ Len(stack) < MaxDepth
  /\ IF Done(v)
     THEN /\ answered' = answered \cup {v}
          /\ UNCHANGED <<stack, loop, overlapped>>
     ELSE /\ Wait(v, Append(stack, Waiting("call", v, {})))
          /\ UNCHANGED answered
  /\ UNCHANGED <<ready, folks, adaptor, views, reloads, threadVars, crashed, inside, during>>

\* A filter is deleted: its thread may still have to post onFilterDone.
Freed(v) == IF thread[v] = "posting" THEN "thread" ELSE "no"

\* View::close up to its wait: the view leaves the bus and m_views; a filter
\* that is done is deleted, any other cancelled and waited for.  frames is the
\* stack with the wait, without what the stack is otherwise.  The signal that
\* says how many contacts went copies the result while a filter may be appending
\* to it, m_running never being set: a race that is left out here.
Close(v, frames, without) ==
  /\ adaptor' = adaptor \ {v}
  /\ views' = IF v \in adaptor THEN views \ {v} ELSE views
  /\ IF Done(v) \/ thread[v] = "deleted"
     THEN /\ thread' = [thread EXCEPT ![v] = "deleted"]
          /\ crashed' = Freed(v)
          /\ stack' = without
          /\ UNCHANGED <<cancelled, loop, overlapped>>
     ELSE /\ cancelled' = cancelled \cup {v}
          /\ Wait(v, frames)
          /\ UNCHANGED <<thread, crashed>>
  /\ inside' = IF \E i \in DOMAIN stack : stack[i].waits /\ stack[i].view = v
               THEN inside \cup {v} ELSE inside
  /\ UNCHANGED <<folks, map, posted, answered, during>>

\* ViewAdaptor::close
ClientCloses(v) ==
  /\ InLoop
  /\ v \in adaptor
  /\ Len(stack) < MaxDepth
  /\ Close(v, Append(stack, Waiting("close", v, {})), stack)
  /\ UNCHANGED <<ready, reloads>>

\* View::sort sorts the contacts found so far, which a filter may be appending to.
Sort(v) ==
  /\ InLoop
  /\ v \in adaptor
  /\ crashed' \in (IF thread[v] = "scanning" THEN {"no", "sort"} ELSE {"no"})
  /\ UNCHANGED <<mainVars, threadVars, answered, historyVars>>

\* onFilterDone runs, which tells the loop at one of the places to quit and forgets it.
FilterDoneOf(v, places) ==
  /\ InLoop
  /\ v \in posted
  /\ posted' = posted \ {v}
  /\ stack' = [i \in DOMAIN stack |->
                 IF i \in places THEN [stack[i] EXCEPT !.quit = TRUE] ELSE stack[i]]
  /\ loop' = [loop EXCEPT ![v] = IF @ \in places THEN 0 ELSE @]
  /\ UNCHANGED <<ready, folks, adaptor, views, reloads, thread, map, cancelled>>
  /\ UNCHANGED <<answered, crashed, historyVars>>

\* Mutant: only the views that are closed are told.
FilterDoneOfClosed(v) ==
  FilterDoneOf(v, IF v \in adaptor THEN {} ELSE {loop[v]})

\* onFilterDone
FilterDone(v) == FilterDoneOf(v, {loop[v]})

\* The innermost loop returns.  A call then reads the result of the filter,
\* which is gone if the view was closed in the meantime; a close deletes it.
Return ==
  /\ InLoop
  /\ stack # << >>
  /\ LET top == Last(stack)
     IN  /\ top.quit
         /\ \/ /\ top.kind = "call"
               /\ stack' = Front(stack)
               /\ crashed' = IF thread[top.view] = "deleted" THEN "result" ELSE "no"
               /\ answered' = answered \cup {top.view}
               /\ UNCHANGED thread
            \/ /\ top.kind = "close"
               /\ stack' = Front(stack)
               /\ crashed' = Freed(top.view)
               /\ thread' = [thread EXCEPT ![top.view] = "deleted"]
               /\ UNCHANGED answered
            \/ /\ top.kind = "unprepare"
               /\ stack' = Append(Front(stack), Unpreparing(top.rest))
               /\ crashed' = Freed(top.view)
               /\ thread' = [thread EXCEPT ![top.view] = "deleted"]
               /\ UNCHANGED answered
  /\ UNCHANGED <<ready, folks, adaptor, views, loop, reloads>>
  /\ UNCHANGED <<map, cancelled, posted, historyVars>>

\* unprepareFolks begins: the service is not ready any more.
Unprepare ==
  /\ InLoop
  /\ Len(stack) < MaxDepth
  /\ reloads < MaxReloads
  /\ reloads' = reloads + 1
  /\ ready' = FALSE
  /\ stack' = Append(stack, Unpreparing(views))
  /\ UNCHANGED <<folks, adaptor, views, loop, threadVars>>
  /\ UNCHANGED <<answered, crashed, historyVars>>

\* The main thread is inside unprepareFolks, not in a loop.
InUnprepare == Alive /\ stack # << >> /\ ~Last(stack).waits

\* unprepareFolks closes the next view of the copy it made of m_views.
CloseNext ==
  /\ InUnprepare
  /\ \E v \in Last(stack).rest :
       LET rest == Last(stack).rest \ {v}
       IN  Close(v, Append(Front(stack), Waiting("unprepare", v, rest)),
                    Append(Front(stack), Unpreparing(rest)))
  /\ UNCHANGED <<ready, reloads>>

\* The views are closed: m_views is cleared, the map deleted, and folks is
\* unprepared.
EndUnprepare ==
  /\ InUnprepare
  /\ Last(stack).rest = {}
  /\ views' = {}
  /\ map' = [v \in View |-> IF map[v] = "live" THEN "deleted" ELSE map[v]]
  /\ folks' = "none"
  /\ stack' = Front(stack)
  /\ UNCHANGED <<ready, adaptor, loop, reloads, thread, cancelled, posted>>
  /\ UNCHANGED <<answered, crashed, historyVars>>

\* clear() takes the write lock of the map: it waits for the filters in it.
DeleteMap == EndUnprepare /\ \A v \in View : thread[v] # "scanning"

\* edsUnprepared goes on to prepareFolks, which makes the next map.
PrepareFolks ==
  /\ InLoop
  /\ folks = "none"
  /\ folks' = "preparing"
  /\ UNCHANGED <<ready, adaptor, views, stack, loop, reloads, threadVars>>
  /\ UNCHANGED <<answered, crashed, historyVars>>

\* isQuiescentChanged, setIsReady
BecomeReady ==
  /\ InLoop
  /\ folks = "preparing"
  /\ folks' = "quiescent"
  /\ ready' = TRUE
  /\ UNCHANGED <<adaptor, views, stack, loop, reloads, threadVars>>
  /\ UNCHANGED <<answered, crashed, historyVars>>

-----------------------------------------------------------------------------
(***************************************************************************)
(* The filter threads                                                      *)
(***************************************************************************)

ThreadMoves(v, from, to) ==
  /\ Alive
  /\ thread[v] = from
  /\ thread' = [thread EXCEPT ![v] = to]
  /\ UNCHANGED <<mainVars, map, cancelled, answered, historyVars>>

Active == {v \in View : thread[v] \in {"starting", "scanning", "leaving", "posting"}}

\* Mutant: a filter that was cancelled returns without a word.
StartQuits(v) ==
  /\ Cardinality(Active) < Threads
  /\ ThreadMoves(v, "queued", IF v \in cancelled THEN "done" ELSE "starting")
  /\ UNCHANGED <<posted, crashed>>

\* run() begins and looks whether it was cancelled.
Start(v) ==
  /\ Cardinality(Active) < Threads
  /\ ThreadMoves(v, "queued", IF v \in cancelled THEN "leaving" ELSE "starting")
  /\ UNCHANGED <<posted, crashed>>

\* lockForRead of the map it was given, deleted or not.
Lock(v) ==
  /\ ThreadMoves(v, "starting", "scanning")
  /\ crashed' = IF map[v] = "deleted" THEN "map" ELSE "no"
  /\ UNCHANGED posted

\* The contacts are read, all or until the cancellation, and the map unlocked.
Unlock(v) == ThreadMoves(v, "scanning", "leaving") /\ UNCHANGED <<posted, crashed>>

\* notifyFinished sets m_done ...
SetDone(v) == ThreadMoves(v, "leaving", "posting") /\ UNCHANGED <<posted, crashed>>

\* ... and then posts onFilterDone to m_parent.
Post(v) ==
  /\ ThreadMoves(v, "posting", "done")
  /\ posted' = posted \cup {v}
  /\ UNCHANGED crashed

ThreadStep(v) == Start(v) \/ Lock(v) \/ Unlock(v) \/ SetDone(v) \/ Post(v)

-----------------------------------------------------------------------------

\* What the main thread does on its own, once something has begun.
MainGoesOn == Return \/ CloseNext \/ DeleteMap

Next ==
  \/ \E v \in View : Query(v) \/ Ask(v) \/ Sort(v) \/ ClientCloses(v)
  \/ \E v \in View : FilterDone(v) \/ ThreadStep(v)
  \/ MainGoesOn
  \/ Unprepare
  \/ PrepareFolks
  \/ BecomeReady

Spec == Init /\ [][Next]_vars

\* Threads run, posted events are delivered, calls go on.
FairSpec ==
  /\ Spec
  /\ WF_vars(MainGoesOn)
  /\ \A v \in View : WF_vars(FilterDone(v)) /\ WF_vars(ThreadStep(v))

-----------------------------------------------------------------------------
(***************************************************************************)
(* Properties                                                              *)
(***************************************************************************)

\* The variables keep to their types.
TypeOK ==
  /\ ready \in BOOLEAN /\ folks \in {"none", "preparing", "quiescent"}
  /\ crashed \in {"no", "thread", "result", "map", "sort"}
  /\ overlapped \in BOOLEAN /\ inside \in SUBSET View /\ during \in SUBSET View
  /\ adaptor \in SUBSET View /\ views \in SUBSET View
  /\ cancelled \in SUBSET View /\ posted \in SUBSET View /\ answered \in SUBSET View
  /\ thread \in [View -> Stages]
  /\ map \in [View -> {"none", "live", "deleted"}]
  /\ loop \in [View -> 0..MaxDepth]
  /\ stack \in Seq(Frames) /\ Len(stack) <= MaxDepth
  /\ reloads \in 0..MaxReloads

\* m_waiting never dangles: it names a loop of the stack that waits for this
\* view and has not been told to quit.
LoopsAreThere ==
  \A v \in View :
    loop[v] > 0 => /\ loop[v] \in DOMAIN stack
                   /\ stack[loop[v]].view = v
                   /\ stack[loop[v]].waits
                   /\ ~stack[loop[v]].quit

\* No wake-up is lost between done() and loop.exec(): a loop that has not
\* been told to quit can count on a filter that has yet to post, or on an
\* event already posted, unless its filter was never started or another loop
\* took its place.
NoLostWakeup ==
  ~overlapped /\ Alive =>
    \A i \in DOMAIN stack :
      stack[i].waits /\ ~stack[i].quit /\ thread[stack[i].view] # "idle" =>
        /\ loop[stack[i].view] = i
        /\ thread[stack[i].view] \in {"done", "deleted"} => stack[i].view \in posted

\* A caller that waits for a filter will be woken, by a pointer to a loop that is there.
WaitersAreWoken == TypeOK /\ LoopsAreThere /\ NoLostWakeup

\* The view is being closed, and whoever closes it waits for its filter.
BeingClosed(v) ==
  \E i \in DOMAIN stack : stack[i].waits /\ stack[i].view = v /\ stack[i].kind # "call"

\* A filter only reads a map that is there: unprepareFolks waits for the filters of m_views,
\* and deleting the map for those that have its lock.  Out of its sight is only a filter
\* that has not begun to read and whose view is being closed outside of it, or was queried
\* inside of it, of the next map.  The result of a filter is gone when it is read only if
\* its view was closed inside the wait for it.
ReadsLiveMap ==
  /\ Alive => \A v \in View :
       thread[v] \in {"queued", "starting", "scanning"} /\ map[v] = "deleted" =>
         thread[v] # "scanning" /\ (BeingClosed(v) \/ v \in during)
  /\ crashed = "map" => \E v \in View :
       thread[v] = "scanning" /\ (BeingClosed(v) \/ v \in during)
  /\ crashed = "result" => inside # {}

\* The main thread comes back to its own loop, however deep it went, as long
\* as it waits for no filter that was never started, and for none twice.
Hopeless == \E i \in DOMAIN stack : stack[i].waits /\ thread[stack[i].view] = "idle"
Unwinds == [](~overlapped /\ Alive /\ ~Hopeless) => []<>(stack = << >>)
=============================================================================
