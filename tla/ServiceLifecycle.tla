-------------------------- MODULE ServiceLifecycle --------------------------
(***************************************************************************)
(* The life of the address-book service: folks is prepared and turns       *)
(* quiescent, EDS dies and comes back, and each time the service tears     *)
(* folks down and brings it up again through a chain of asynchronous       *)
(* calls, each of which continues in the callback of the one before:       *)
(*                                                                         *)
(*   unprepareFolks -> folksUnprepared -> unprepareEds                     *)
(*      -> edsUnprepared -> edsPrepared -> prepareFolks                    *)
(*                                                                         *)
(* A shutdown uses the first two links of the same chain.  checkForEds     *)
(* reloads folks when EDS is not there although folks is ready, at most    *)
(* MaxRetry times in a row.  All handlers run on the main loop, so each is *)
(* one step, but nothing keeps two chains from running at once.            *)
(*                                                                         *)
(* External: the aggregator (a shared object, prepared or not, with        *)
(* reference counts and signal handlers), the EDS backend and the owner of *)
(* the EDS name on the bus.                                                *)
(***************************************************************************)
EXTENDS Naturals

CONSTANTS MaxRetry,    \* maxRetry of checkForEds
          MaxDeaths    \* bound: how often EDS loses its name

ASSUME BoundsAssumption == MaxRetry \in Nat /\ MaxDeaths \in Nat

VARIABLES
  adaptor,      \* m_adaptor is not null; stopped() is emitted when it goes
  quitting,     \* m_isAboutToQuit
  ready,        \* m_ready
  edsLive,      \* m_edsIsLive
  map,          \* m_contacts is not null
  pointer,      \* m_individualAggregator is not null
  connected,    \* the two handler ids are not zero
  clientReady,  \* what a client read of isReady at the last readyChanged
  retryCount,   \* retryCount of checkForEds
  reloads,      \* singleShot timers that will call unprepareFolks
  shutdowns,    \* singleShot timers that will call shutdown
  folks,        \* the aggregator: "idle", "preparing" or "quiescent"
  refs,         \* references the service holds on the aggregator
  handlers,     \* handler pairs of the service connected to the aggregator
  unpreparing,  \* folks_individual_aggregator_unprepare calls to be answered
  edsUnpreparing, edsPreparing,   \* the same for the EDS backend
  deaths,       \* how often EDS died
  overlapped    \* history: a reload began while another was under way

serviceVars == <<adaptor, quitting, ready, edsLive, map, pointer, connected, clientReady>>
timerVars   == <<retryCount, reloads, shutdowns>>
folksVars   == <<folks, refs, handlers>>
callVars    == <<unpreparing, edsUnpreparing, edsPreparing>>
lifecycleVars == <<serviceVars, timerVars, folksVars, callVars, deaths, overlapped>>

-----------------------------------------------------------------------------
(***************************************************************************)
(* What the handlers have in common                                        *)
(***************************************************************************)

\* Mutant: nothing is reloaded while EDS is not there.
CheckForEdsIdle == retryCount' = 0 /\ UNCHANGED <<reloads, shutdowns>>

\* checkForEds, run by readyChanged when the service turns ready.
CheckForEds ==
  IF retryCount >= MaxRetry
  THEN /\ shutdowns' = shutdowns + 1
       /\ UNCHANGED <<retryCount, reloads>>
  ELSE /\ retryCount' = IF edsLive THEN 0 ELSE retryCount + 1
       /\ reloads' = IF edsLive THEN reloads ELSE reloads + 1
       /\ UNCHANGED shutdowns

\* setIsReady(TRUE): a change is signalled, and the client asks isReady.
TurnReady ==
  /\ ready' = TRUE
  /\ IF ready
     THEN UNCHANGED <<timerVars, clientReady>>
     ELSE CheckForEds /\ clientReady' = edsLive

\* prepareFolks, with the references and handlers that are left from before:
\* a new map, one more reference and one more pair of handlers.
PrepareFolks(left, stillConnected) ==
  /\ map' = TRUE
  /\ pointer' = TRUE
  /\ connected' = TRUE
  /\ refs' = left + 1
  /\ handlers' = stillConnected + 1
  /\ IF folks = "quiescent" /\ left > 0
     THEN TurnReady /\ UNCHANGED folks
     ELSE /\ folks' = IF left > 0 /\ folks = "preparing" THEN folks ELSE "preparing"
          /\ UNCHANGED <<ready, clientReady, timerVars>>

\* A chain of the reload is under way.
Reloading == unpreparing + edsUnpreparing + edsPreparing > 0

\* Mutant: the service stays ready while it reloads.
UnprepareStaysReady ==
  /\ map' = FALSE
  /\ UNCHANGED <<ready, clientReady>>
  /\ IF pointer
     THEN /\ handlers' = IF connected /\ handlers > 0 THEN handlers - 1 ELSE handlers
          /\ connected' = FALSE
          /\ folks' = "idle"
          /\ unpreparing' = unpreparing + 1
     ELSE UNCHANGED <<handlers, connected, folks, unpreparing>>
  /\ overlapped' = (overlapped \/ Reloading)
  /\ UNCHANGED <<adaptor, pointer, refs, edsUnpreparing, edsPreparing>>

\* unprepareFolks: not ready, no map, the handlers of the last prepareFolks
\* disconnected, and the unpreparation asked for if there is an aggregator.
UnprepareFolks ==
  /\ ready' = FALSE
  /\ clientReady' = (clientReady /\ ~ready)
  /\ map' = FALSE
  /\ IF pointer
     THEN /\ handlers' = IF connected /\ handlers > 0 THEN handlers - 1 ELSE handlers
          /\ connected' = FALSE
          /\ folks' = "idle"
          /\ unpreparing' = unpreparing + 1
     ELSE UNCHANGED <<handlers, connected, folks, unpreparing>>
  /\ overlapped' = (overlapped \/ Reloading)
  /\ UNCHANGED <<adaptor, pointer, refs, edsUnpreparing, edsPreparing>>

-----------------------------------------------------------------------------
(***************************************************************************)
(* The handlers                                                            *)
(***************************************************************************)

\* The constructor and start(): folks is prepared for the first time.
LifecycleInit ==
  /\ adaptor = TRUE
  /\ quitting = FALSE
  /\ ready = FALSE
  /\ edsLive \in BOOLEAN
  /\ map = TRUE /\ pointer = TRUE /\ connected = TRUE
  /\ clientReady = FALSE
  /\ retryCount = 0 /\ reloads = 0 /\ shutdowns = 0
  /\ folks = "preparing" /\ refs = 1 /\ handlers = 1
  /\ unpreparing = 0 /\ edsUnpreparing = 0 /\ edsPreparing = 0
  /\ deaths = 0
  /\ overlapped = FALSE

\* notify::is-quiescent: isQuiescentChanged, if somebody is connected.
Quiescent ==
  /\ adaptor
  /\ folks = "preparing"
  /\ folks' = "quiescent"
  /\ IF handlers > 0 THEN TurnReady ELSE UNCHANGED <<ready, clientReady, timerVars>>
  /\ UNCHANGED <<adaptor, quitting, edsLive, map, pointer, connected, refs, handlers>>
  /\ UNCHANGED <<callVars, deaths, overlapped>>

\* onEdsServiceOwnerChanged, the owner is gone.
EdsDied ==
  /\ adaptor
  /\ deaths < MaxDeaths
  /\ edsLive
  /\ deaths' = deaths + 1
  /\ edsLive' = FALSE
  /\ UnprepareFolks
  /\ UNCHANGED <<quitting, timerVars>>

\* onEdsServiceOwnerChanged, there is an owner.
EdsCame ==
  /\ adaptor
  /\ ~edsLive
  /\ edsLive' = TRUE
  /\ UNCHANGED <<adaptor, quitting, ready, map, pointer, connected, clientReady>>
  /\ UNCHANGED <<timerVars, folksVars, callVars, deaths, overlapped>>

\* The timer of checkForEds: unprepareFolks.
ReloadTimer ==
  /\ adaptor
  /\ reloads > 0
  /\ reloads' = reloads - 1
  /\ UnprepareFolks
  /\ UNCHANGED <<quitting, edsLive, retryCount, shutdowns, deaths>>

\* shutdown, called by handleSigQuit.
Shutdown ==
  /\ adaptor
  /\ ~quitting
  /\ quitting' = TRUE
  /\ UnprepareFolks
  /\ UNCHANGED <<edsLive, timerVars, deaths>>

\* shutdown, called by the timer of checkForEds.
ShutdownTimer ==
  /\ adaptor
  /\ shutdowns > 0
  /\ shutdowns' = shutdowns - 1
  /\ quitting' = TRUE
  /\ UnprepareFolks
  /\ UNCHANGED <<edsLive, retryCount, reloads, deaths>>

\* The references and the handlers left after g_clear_object.
RefsAfterClear == IF pointer THEN refs - 1 ELSE refs
HandlersAfterClear == IF RefsAfterClear = 0 THEN 0 ELSE handlers

\* Mutant: a shutdown goes on to bring folks up again.
UnpreparedNeverQuits ==
  /\ adaptor
  /\ unpreparing > 0
  /\ unpreparing' = unpreparing - 1
  /\ edsUnpreparing' = edsUnpreparing + 1
  /\ pointer' = FALSE
  /\ refs' = RefsAfterClear
  /\ handlers' = HandlersAfterClear
  /\ UNCHANGED <<adaptor, quitting, ready, clientReady, edsLive, map, connected, timerVars, folks,
                 edsPreparing, deaths, overlapped>>

\* folksUnprepared: the aggregator is released; a service that is quitting
\* leaves the bus (continueShutdown), any other unprepares the EDS backend,
\* or starts folks at once when the backend is not prepared.
FolksUnprepared ==
  /\ adaptor
  /\ unpreparing > 0
  /\ unpreparing' = unpreparing - 1
  /\ \/ /\ quitting
        /\ adaptor' = FALSE
        /\ pointer' = FALSE
        /\ refs' = RefsAfterClear
        /\ handlers' = HandlersAfterClear
        /\ UNCHANGED <<ready, clientReady, map, connected, timerVars, folks, edsUnpreparing>>
     \/ /\ ~quitting
        /\ pointer' = FALSE
        /\ refs' = RefsAfterClear
        /\ handlers' = HandlersAfterClear
        /\ edsUnpreparing' = edsUnpreparing + 1
        /\ UNCHANGED <<adaptor, ready, clientReady, map, connected, timerVars, folks>>
     \/ /\ ~quitting
        /\ PrepareFolks(RefsAfterClear, HandlersAfterClear)
        /\ UNCHANGED <<adaptor, edsUnpreparing>>
  /\ UNCHANGED <<quitting, edsLive, edsPreparing, deaths, overlapped>>

\* edsUnprepared
EdsUnprepared ==
  /\ adaptor
  /\ edsUnpreparing > 0
  /\ edsUnpreparing' = edsUnpreparing - 1
  /\ edsPreparing' = edsPreparing + 1
  /\ UNCHANGED <<serviceVars, timerVars, folksVars, unpreparing, deaths, overlapped>>

\* Mutant: folks is not started again.
EdsPreparedStops ==
  /\ adaptor
  /\ edsPreparing > 0
  /\ edsPreparing' = edsPreparing - 1
  /\ UNCHANGED <<serviceVars, timerVars, folksVars, unpreparing, edsUnpreparing>>
  /\ UNCHANGED <<deaths, overlapped>>

\* edsPrepared: start folks again.
EdsPrepared ==
  /\ adaptor
  /\ edsPreparing > 0
  /\ edsPreparing' = edsPreparing - 1
  /\ PrepareFolks(refs, handlers)
  /\ UNCHANGED <<adaptor, quitting, edsLive, unpreparing, edsUnpreparing, deaths, overlapped>>

Callback == FolksUnprepared \/ EdsUnprepared \/ EdsPrepared \/ Quiescent

LifecycleNext ==
  \/ Callback
  \/ EdsDied \/ EdsCame
  \/ ReloadTimer
  \/ Shutdown \/ ShutdownTimer

LifecycleSpec == LifecycleInit /\ [][LifecycleNext]_lifecycleVars

\* Asynchronous calls are answered and timers fire; EDS and the user owe us
\* nothing.
FairSpec ==
  /\ LifecycleSpec
  /\ WF_lifecycleVars(FolksUnprepared)
  /\ WF_lifecycleVars(EdsUnprepared) /\ WF_lifecycleVars(EdsPrepared)
  /\ WF_lifecycleVars(Quiescent)
  /\ WF_lifecycleVars(ReloadTimer) /\ WF_lifecycleVars(ShutdownTimer)

-----------------------------------------------------------------------------
(***************************************************************************)
(* Properties                                                              *)
(***************************************************************************)

\* The variables keep to their types.
TypeOK ==
  /\ adaptor \in BOOLEAN /\ quitting \in BOOLEAN /\ ready \in BOOLEAN
  /\ edsLive \in BOOLEAN /\ map \in BOOLEAN /\ pointer \in BOOLEAN
  /\ connected \in BOOLEAN /\ clientReady \in BOOLEAN /\ overlapped \in BOOLEAN
  /\ retryCount \in Nat /\ reloads \in Nat /\ shutdowns \in Nat
  /\ folks \in {"idle", "preparing", "quiescent"}
  /\ refs \in Nat /\ handlers \in Nat
  /\ unpreparing \in Nat /\ edsUnpreparing \in Nat /\ edsPreparing \in Nat
  /\ deaths \in 0..MaxDeaths

\* As long as reloads do not overlap, a ready service has its map and its
\* aggregator, exactly one reference to it and exactly one pair of handlers:
\* each change of folks is handled once and the next reload can find it.
SoundUnlessOverlapped ==
  ready /\ ~overlapped =>
    /\ map /\ pointer /\ connected
    /\ refs = 1 /\ handlers = 1

\* A reload that is not overlapped by another one succeeds: once EDS lives
\* for good the service ends up ready, unless it is told to quit.
ReloadRecovers ==
  <>[]edsLive /\ []~overlapped => <>[]((ready /\ edsLive) \/ quitting)

\* No readyChanged comes when EDS appears under a service that is already
\* ready; a client learns of it all the same, from the reload checkForEds
\* has asked for.
ClientLearns == <>[](ready /\ edsLive) => <>[](clientReady \/ quitting)

\* A shutdown that finds an aggregator to unprepare stops the service.
ShutdownOfRunning == (quitting /\ unpreparing > 0) ~> ~adaptor

-----------------------------------------------------------------------------
(***************************************************************************)
(* What a test claims and the code does not do                             *)
(***************************************************************************)

\* testServiceShutdown: a service told to quit stops answering.
ShutdownCompletes == quitting ~> ~adaptor
=============================================================================
