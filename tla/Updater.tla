------------------------------ MODULE Updater ------------------------------
(***************************************************************************)
(* The updater, a process of its own, moves the contacts of Google         *)
(* accounts from SyncEvolution to Buteo.  ABUpdate takes the user through  *)
(* the update with notifications; its one module, ButeoImport,             *)
(*                                                                         *)
(*   1. reads the accounts and their sources (prepareToUpdate),            *)
(*   2. asks what to do with accounts whose sync is disabled,              *)
(*   3. has the sync monitor sync the old sources once more,               *)
(*   4. makes Buteo profiles and syncs them into new sources,              *)
(*   5. removes the old sources and notes that it is done (commit).        *)
(*                                                                         *)
(* Steps 2 to 4 end in signals of the user, the monitor and Buteo, which   *)
(* come in any order, also for a step that was given up.  Steps 1 and 5    *)
(* read and write contacts with QContactManager, which runs an event loop  *)
(* while it waits.                                                         *)
(*                                                                         *)
(* The members of the two objects are the fields of p.  A method is an     *)
(* operator from a value of p to the value it leaves behind, with the      *)
(* answers to the calls it makes as arguments.  The user, the network, the *)
(* monitor, Buteo and the accounts are external; it is assumed that the    *)
(* address book answers the queries of step 1 and Buteo runningSyncs().    *)
(* Favorites, the lock file, the wording and the kind of an error are left *)
(* out.                                                                    *)
(***************************************************************************)
EXTENDS Naturals, Sequences, FiniteSetsExt

CONSTANTS MaxAccounts,    \* bound: Google accounts
          MaxRetries,     \* bound: how often the user retries
          MaxLaunches,    \* bound: how often the process is started again
          MaxChanges      \* bound: how often the screen comes or goes

ASSUME BoundsAssumption == /\ MaxAccounts \in Nat
                           /\ MaxRetries \in Nat
                           /\ MaxLaunches \in Nat
                           /\ MaxChanges \in Nat

VARIABLES
  google,    \* the Google accounts, by their place in m_accounts
  key,       \* SETTINGS_BUTEO_KEY
  evo,       \* the accounts with the SyncEvolution service enabled
  old,       \* the old source of each account
  new,       \* the accounts with a new source
  profile,   \* the accounts with a Buteo profile
  sync,      \* what Buteo does with the profile of each account
  synced,    \* history: the accounts Buteo has synced
  screen,    \* notifications can be shown
  p,         \* the process
  retries,   \* how often the user may still retry
  launches,  \* how often the process may still be started
  changes    \* how often the screen may still come or go

settings == <<key, evo, old>>
buteo == <<new, profile, sync, synced>>
bounds == <<retries, launches, changes>>
vars == <<google, settings, buteo, screen, p, bounds>>

Sources == {"none", "empty", "full"}

\* The notifications on the screen: that the update starts, is complete, can be
\* done later; a failure with the question whether to retry, before and after
\* it is answered; the question about a disabled account.
Messages == {"start", "complete", "later", "failure", "answered", "question"}

AccountInfo == [syncEnabled : BOOLEAN, oldSource : Sources,
                newSource : BOOLEAN, syncProfile : BOOLEAN,
                removeAfterUpdate : BOOLEAN]

(***************************************************************************)
(* The process as main() leaves it.  internet is "asked" if it was started *)
(* with --sync.  The fields:                                               *)
(*   at         the event loop it is in                                    *)
(*   quits      the application was told to quit                           *)
(*   lock       m_lock          queued      m_modulesToUpdate is not empty *)
(*   connected  ABUpdate listens to the signals of its module              *)
(*   internet   the wait for a connection                                  *)
(*   shown      how many of each notification there are                    *)
(*   unseen     how many of them could not be shown                        *)
(*   importLock, accounts, disabled, evoQueue, buteoQueue, failed          *)
(*              the members of ButeoImport; a queue is the set of the      *)
(*              accounts in it, filled and emptied in the order of         *)
(*              m_accounts                                                 *)
(*   interface  m_buteoInterface is not null                               *)
(*   monitor    m_syncMonitorInterface                                     *)
(*   continues  the handler under way is about to call continueUpdate      *)
(*   updates, errors   timers and queued calls that emit updated() and     *)
(*              call onError                                               *)
(* History: hung - a step was given up without telling anybody; leftover - *)
(* an update failed with syncs under way; twice - a question was closed    *)
(* after it was answered; skipped - accounts left out.                      *)
(***************************************************************************)
Started(internet) ==
  [at |-> "loop", quits |-> FALSE, lock |-> FALSE, queued |-> FALSE,
   connected |-> FALSE, internet |-> internet,
   shown |-> [m \in Messages |-> 0], unseen |-> [m \in Messages |-> 0],
   importLock |-> FALSE, accounts |-> << >>, disabled |-> {},
   evoQueue |-> {}, buteoQueue |-> {}, failed |-> {},
   interface |-> FALSE, monitor |-> "null", continues |-> FALSE,
   updates |-> 0, errors |-> 0,
   hung |-> FALSE, leftover |-> FALSE, twice |-> FALSE, skipped |-> {}]

NotRunning == [Started("no") EXCEPT !.at = "off"]

Init ==
  /\ google \in {1 .. n : n \in 0 .. MaxAccounts}
  /\ key = FALSE
  /\ evo \in SUBSET google
  /\ old \in [google -> Sources]
  /\ new = {} /\ synced = {}
  /\ profile \in SUBSET google
  /\ sync = [a \in google |-> "none"]
  /\ screen \in BOOLEAN
  /\ p \in {Started("no"), Started("asked")}
  /\ retries = MaxRetries /\ launches \in 0 .. MaxLaunches /\ changes \in 0 .. MaxChanges

-----------------------------------------------------------------------------
(***************************************************************************)
(* ABUpdate                                                                *)
(***************************************************************************)
\* An error of notify_notification_show is logged or thrown away; no signal ever
\* comes of a notification that is not on the screen.
Show(q, m) == [q EXCEPT !.shown[m] = @ + 1,
                        !.unseen[m] = @ + IF screen THEN 0 ELSE 1]
OnScreen(q, m) == q.shown[m] > q.unseen[m]
Closed(q, m) == [q EXCEPT !.shown[m] = @ - 1]
Answered(q) == [Closed(q, "failure") EXCEPT !.shown["answered"] = @ + 1]

NotifyDone(q) == [q EXCEPT !.lock = FALSE, !.quits = TRUE]

Known(q, a) == a <= Len(q.accounts)

\* "remove all profiles and new sources" - but removeProfile refuses the profile of every
\* account it finds, so the profile and the new source of a failed sync stay.  Of an
\* account it does not find, no source is known; Buteo is asked to remove the profile, as
\* anybody may ask at any time (ProfileDeleted).
Rollback(q) == [q EXCEPT !.failed = {}]

\* onModuleUpdateError.
ModuleError(q) ==
  Show([Rollback(q) EXCEPT !.connected = FALSE,
          !.leftover = @ \/ q.evoQueue # {} \/ q.buteoQueue # {}],
       "failure")

\* reached: Buteo is on the bus, should the connection still have to be made.
PrepareButeo(q, reached) == [q EXCEPT !.interface = @ \/ reached]

CanUpdate(q) == q.interface /\ \A a \in google : sync[a] # "active"

\* startUpdate(module), up to the first event loop of prepareToUpdate.
StartModule(q, reached) ==
  LET r == PrepareButeo(q, reached)
  IN IF CanUpdate(r)
     THEN [r EXCEPT !.accounts = << >>, !.skipped = {},
                    !.at = IF @ = "loop" THEN "prepare" ELSE "nested"]
     ELSE ModuleError(r)

UpdateNextModule(q, reached) ==
  IF q.queued THEN StartModule([q EXCEPT !.queued = FALSE], reached)
              ELSE NotifyDone(q)

\* Mutant: an update that is running already is not noticed.
StartUpdateMutant(q, needed, online, reached) ==
  LET begun == [q EXCEPT !.lock = TRUE, !.queued = TRUE]
  IN IF ~needed THEN NotifyDone(q)
     ELSE IF online THEN Show(begun, "start")
     ELSE UpdateNextModule(begun, reached)

\* startUpdate(); one that is running already is told so and left alone.
StartUpdate(q, needed, online, reached) ==
  LET begun == [q EXCEPT !.lock = TRUE, !.queued = TRUE,
                         !.internet = IF @ = "waits" THEN "no" ELSE @]
  IN IF q.lock THEN q
     ELSE IF ~needed THEN NotifyDone(q)
     ELSE IF online THEN Show(begun, "start")
     ELSE UpdateNextModule(begun, reached)

\* A module's signals; nobody hears them when ABUpdate is not connected.
EmitUpdated(q) ==
  IF q.connected
  THEN [q EXCEPT !.connected = FALSE,
                 !.at = IF @ = "loop" THEN "commit" ELSE "nested"]
  ELSE q

\* Mutant: nobody is told.
OnErrorSilentMutant(q, unlock) == [q EXCEPT !.importLock = @ /\ ~unlock]

OnError(q, unlock) ==
  LET r == [q EXCEPT !.importLock = @ /\ ~unlock]
  IN IF r.connected THEN ModuleError(r) ELSE r

-----------------------------------------------------------------------------
(***************************************************************************)
(* ButeoImport.  accepted: the monitor takes the call; present: Buteo is   *)
(* still on the bus.                                                       *)
(***************************************************************************)
SyncOldContactsContinue(q, accepted) ==
  IF q.evoQueue = {} THEN [q EXCEPT !.continues = TRUE]
  ELSE IF accepted THEN q ELSE OnError(q, TRUE)

\* The first time, it looks at the wrong interface, and may return without a
\* word.
SyncOldContacts(q, accepted, present) ==
  LET toSync == {a \in DOMAIN q.accounts : /\ q.accounts[a].syncEnabled
                                            /\ ~q.accounts[a].newSource
                                            /\ q.accounts[a].oldSource # "none"}
  IN IF q.monitor = "null" /\ ~present
     THEN [q EXCEPT !.monitor = "deaf", !.interface = FALSE, !.hung = TRUE]
     ELSE SyncOldContactsContinue(
            [q EXCEPT !.monitor = IF @ = "null" THEN "heard" ELSE @,
                      !.evoQueue = toSync],
            accepted)

AskAboutDisabledAccounts(q, accepted, present) ==
  IF q.disabled = {} THEN SyncOldContacts(q, accepted, present)
                       ELSE Show(q, "question")

CheckOldAccounts(q, accepted, present) ==
  LET toAsk == {a \in DOMAIN q.accounts : /\ ~q.accounts[a].syncEnabled
                                           /\ q.accounts[a].oldSource = "full"}
  IN AskAboutDisabledAccounts([q EXCEPT !.disabled = toAsk], accepted, present)

Update(q, accepted, present) ==
  IF q.importLock THEN OnError(q, FALSE)
  ELSE IF q.accounts = << >> THEN EmitUpdated(q)
  ELSE CheckOldAccounts([q EXCEPT !.importLock = TRUE], accepted, present)

\* An index into m_accounts that is out of range.
Crashed(q) == [q EXCEPT !.at = "crashed"]

\* The sync of account a is over: "done", "error" or "aborted".
Outcomes == {"done", "error", "aborted"}
Noted(q, a, outcome) ==
  [q EXCEPT !.buteoQueue = @ \ {a},
            !.failed = IF \/ outcome = "done"
                          \/ outcome = "error" /\ ~q.accounts[a].syncEnabled
                       THEN @ ELSE @ \union {a}]

\* Mutant: the other accounts are not waited for.
SyncEndedEarlyMutant(q, a, outcome) ==
  LET r == Noted(q, a, outcome)
  IN IF ~Known(q, a) THEN Crashed(q)
     ELSE IF r.failed = {} THEN EmitUpdated(r)
     ELSE [r EXCEPT !.errors = @ + 1]

\* Mutant: a sync that failed is not reported.
SyncEndedSilentMutant(q, a, outcome) ==
  LET r == Noted(q, a, outcome)
  IN IF ~Known(q, a) THEN Crashed(q)
     ELSE IF r.buteoQueue = {} /\ r.failed = {} THEN EmitUpdated(r)
     ELSE r

\* The end of onSyncStatusChanged.
SyncEnded(q, a, outcome) ==
  LET r == Noted(q, a, outcome)
  IN IF ~Known(q, a) THEN Crashed(q)
     ELSE IF r.buteoQueue # {} THEN r
     ELSE IF r.failed = {} THEN EmitUpdated(r)
     ELSE [r EXCEPT !.errors = @ + 1]

\* onProfileChanged of a deletion; a is 0 for a profile of other accounts.
Forgotten(q, a) ==
  LET r == [q EXCEPT !.accounts[a].syncProfile = FALSE,
                     !.buteoQueue = @ \ {a}, !.skipped = @ \union {a}]
  IN IF a \in q.buteoQueue
     THEN IF ~Known(q, a) THEN Crashed(q)
          ELSE IF r.buteoQueue # {} THEN r
          ELSE [r EXCEPT !.importLock = FALSE, !.hung = TRUE]
     ELSE [q EXCEPT !.importLock = @ /\ q.buteoQueue # {}]
-----------------------------------------------------------------------------
(***************************************************************************)
(* The process.  Every action below but the steps of prepareToUpdate and   *)
(* commit is an event taken from whatever event loop runs.                 *)
(***************************************************************************)
Loops == {"loop", "prepare", "commit", "remove"}
Listens == p.at \in Loops /\ ~p.quits /\ ~p.continues

Launch ==
  /\ p.at = "off" /\ launches > 0
  /\ launches' = launches - 1
  /\ \E internet \in {"no", "asked"} : p' = Started(internet)
  /\ UNCHANGED <<google, screen, settings, buteo, retries, changes>>

\* What ABUpdate::needsUpdate may say: there may be accounts of other providers,
\* of which only prepareToUpdate takes no notice.
NeedsUpdate == {~key /\ google # {}, ~key}

\* A module that needs no update has the key set.
Begin(q, online, reached) ==
  \E needed \in NeedsUpdate :
    /\ p' = StartUpdate(q, needed, online, reached)
    /\ key' = (key \/ (~q.lock /\ ~needed))

\* An application calls startUpdate.
StartCalled ==
  /\ Listens
  /\ \E online, reached \in BOOLEAN : Begin(p, online, reached)
  /\ UNCHANGED <<google, screen, evo, old, buteo, bounds>>

\* startUpdateWhenConnected, after --sync.
StartWhenConnected ==
  /\ Listens /\ p.internet = "asked"
  /\ LET q == [p EXCEPT !.internet = "no"]
     IN \/ Begin(q, TRUE, FALSE)
        \/ /\ ~q.lock /\ ~key
           /\ p' = [p EXCEPT !.internet = "waits"]
           /\ UNCHANGED key
  /\ UNCHANGED <<google, screen, evo, old, buteo, bounds>>

\* onOnlineStateChanged, when there is a connection.
OnlineStateChanged ==
  /\ Listens /\ p.internet = "waits"
  /\ p' = [p EXCEPT !.internet = "timer"]
  /\ UNCHANGED <<google, screen, settings, buteo, bounds>>

ContinueUpdateWithInternet ==
  /\ Listens /\ p.internet = "timer"
  /\ \/ Begin([p EXCEPT !.internet = "no"], TRUE, FALSE)
     \/ p' = [p EXCEPT !.internet = "waits"] /\ UNCHANGED key
  /\ UNCHANGED <<google, screen, evo, old, buteo, bounds>>

\* The server of the notifications goes and comes.
ScreenChanges ==
  /\ changes > 0
  /\ changes' = changes - 1 /\ screen' = ~screen
  /\ UNCHANGED <<google, settings, buteo, p, retries, launches>>

MessageClosed(m) ==
  /\ Listens /\ OnScreen(p, m)
  /\ \E reached \in BOOLEAN : p' = UpdateNextModule(Closed(p, m), reached)
  /\ UNCHANGED <<google, screen, settings, buteo, bounds>>

\* "Yes" and "No"; the notification stays connected until it closes.
Retry ==
  /\ Listens /\ OnScreen(p, "failure") /\ retries > 0
  /\ \E reached \in BOOLEAN :
       p' = UpdateNextModule([Answered(p) EXCEPT !.queued = TRUE], reached)
  /\ retries' = retries - 1
  /\ UNCHANGED <<google, screen, settings, buteo, launches, changes>>

NoRetry ==
  /\ Listens /\ OnScreen(p, "failure")
  /\ p' = Show(Answered(p), "later")
  /\ UNCHANGED <<google, screen, settings, buteo, bounds>>

FailureClosed(m) ==
  /\ Listens /\ OnScreen(p, m)
  /\ p' = Show([Closed(p, m) EXCEPT !.twice = @ \/ m = "answered"], "later")
  /\ UNCHANGED <<google, screen, settings, buteo, bounds>>

\* One account of prepareToUpdate.  After quit() the event loops return at
\* once, and no source is found.
ReadAccount ==
  /\ p.at = "prepare" /\ ~p.continues
  /\ LET a == Len(p.accounts) + 1
     IN /\ a \in google
        /\ p' = [p EXCEPT !.accounts = Append(@,
                   [syncEnabled |-> a \in evo,
                    oldSource |-> IF p.quits THEN "none" ELSE old[a],
                    newSource |-> ~p.quits /\ a \in new,
                    syncProfile |-> a \in profile,
                    removeAfterUpdate |-> TRUE])]
  /\ UNCHANGED <<google, screen, settings, buteo, bounds>>

\* prepareToUpdate returns, ABUpdate connects and calls update().
Prepared ==
  /\ p.at = "prepare" /\ ~p.continues /\ DOMAIN p.accounts = google
  /\ \E accepted, present \in BOOLEAN :
       p' = Update([p EXCEPT !.at = "loop", !.connected = TRUE], accepted, present)
  /\ UNCHANGED <<google, screen, settings, buteo, bounds>>

\* onEnableAccountsReplied.  Enabling fails without the service, or if somebody
\* has enabled it already.
QuestionReplied ==
  /\ Listens /\ OnScreen(p, "question")
  /\ LET a == Min(p.disabled)
         q == [Closed(p, "question") EXCEPT !.disabled = @ \ {a}]
     IN IF p.disabled = {} \/ ~Known(p, a)
        THEN p' = Crashed(p) /\ UNCHANGED evo
        ELSE \E accepted, present, enabled \in BOOLEAN :
               \/ /\ p' = AskAboutDisabledAccounts(
                            IF enabled THEN [q EXCEPT !.accounts[a].syncEnabled = TRUE]
                                       ELSE [q EXCEPT !.skipped = @ \union {a}],
                            accepted, present)
                  /\ evo' = IF enabled THEN evo \union {a} ELSE evo
               \/ /\ p' = AskAboutDisabledAccounts(
                            [q EXCEPT !.accounts[a].removeAfterUpdate = FALSE],
                            accepted, present)
                  /\ UNCHANGED evo
  /\ UNCHANGED <<google, screen, key, old, buteo, bounds>>

\* Nothing is connected to the question being closed.
QuestionClosed ==
  /\ Listens /\ OnScreen(p, "question")
  /\ p' = [Closed(p, "question") EXCEPT !.hung = TRUE]
  /\ UNCHANGED <<google, screen, settings, buteo, bounds>>

\* A signal of the monitor about the account at the head of the queue.
OldContactsSynced(success) ==
  /\ Listens /\ p.monitor = "heard" /\ p.evoQueue # {}
  /\ LET q == [p EXCEPT !.evoQueue = @ \ {Min(@)}]
     IN \E accepted \in BOOLEAN :
          p' = IF ~Known(p, Min(p.evoQueue)) THEN Crashed(p)
               ELSE IF success THEN SyncOldContactsContinue(q, accepted)
               ELSE OnError(q, TRUE)
  /\ UNCHANGED <<google, screen, settings, buteo, bounds>>

\* The loop of continueUpdate.  good: the accounts for which Buteo makes a
\* profile, or starts the sync of one; a profile that cannot be made ends it.
ContinueUpdate ==
  /\ p.continues
  /\ \E good \in SUBSET DOMAIN p.accounts :
       LET missing == {a \in DOMAIN p.accounts : ~p.accounts[a].syncProfile}
           reached == {a \in DOMAIN p.accounts : (missing \ good) \cap (1 .. a) = {}}
           made    == reached \cap missing
           started == {a \in reached \cap good :
                         p.accounts[a].syncEnabled /\ (a \in missing \union profile)}
           refused == {a \in reached \ started : p.accounts[a].syncEnabled}
           profiled == [a \in DOMAIN p.accounts |->
                          [p.accounts[a] EXCEPT !.syncProfile = @ \/ a \in made]]
           q == [p EXCEPT !.continues = FALSE, !.failed = {}, !.buteoQueue = started,
                          !.accounts = profiled, !.skipped = @ \union refused]
       IN /\ p' = IF missing \subseteq good
                  THEN [q EXCEPT !.updates = @ + IF started = {} THEN 1 ELSE 0]
                  ELSE OnError(q, TRUE)
          /\ profile' = profile \union made
          /\ sync' = [a \in google |->
                        IF a \in started /\ sync[a] = "none" THEN "queued" ELSE sync[a]]
  /\ UNCHANGED <<google, screen, settings, new, synced, bounds>>

\* Buteo starts a sync that was asked for.
SyncStarted(a) ==
  /\ sync[a] = "queued" /\ ~p.continues
  /\ sync' = [sync EXCEPT ![a] = "active"]
  /\ UNCHANGED <<google, screen, settings, new, profile, synced, p, bounds>>

\* onSyncStatusChanged.  An account with a sync that was not done may have its new
\* source.
SyncStatusChanged(a, outcome) ==
  /\ sync[a] # "none" /\ ~p.continues
  /\ sync' = [sync EXCEPT ![a] = "none"]
  /\ IF outcome = "done"
     THEN new' = new \union {a} /\ synced' = synced \union {a}
     ELSE new' \in {new, new \union {a}} /\ UNCHANGED synced
  /\ p' = IF Listens /\ p.interface /\ a \in p.buteoQueue
          THEN SyncEnded(p, a, outcome) ELSE p
  /\ UNCHANGED <<google, screen, settings, profile, bounds>>

\* onProfileChanged: a profile is deleted.
ProfileDeleted(a) ==
  /\ a \in profile \union {0} /\ ~p.continues
  /\ profile' = profile \ {a}
  /\ sync' = [b \in google |-> IF b = a THEN "none" ELSE sync[b]]
  /\ p' = IF Listens /\ p.interface THEN Forgotten(p, a) ELSE p
  /\ UNCHANGED <<google, screen, settings, new, synced, bounds>>

QueuedError ==
  /\ Listens /\ p.errors > 0
  /\ p' = OnError([p EXCEPT !.errors = @ - 1], TRUE)
  /\ UNCHANGED <<google, screen, settings, buteo, bounds>>

UpdatedTimer ==
  /\ Listens /\ p.updates > 0
  /\ p' = EmitUpdated([p EXCEPT !.updates = @ - 1])
  /\ UNCHANGED <<google, screen, settings, buteo, bounds>>

\* commit(), after matchFavorites: the old sources and services go.
RemoveSources ==
  /\ p.at = "commit" /\ ~p.continues
  /\ LET sources == {a \in DOMAIN p.accounts : p.accounts[a].removeAfterUpdate
                                               /\ p.accounts[a].oldSource # "none"}
     IN \E removed \in SUBSET sources :
          old' = [a \in google |-> IF a \in removed THEN "none" ELSE old[a]]
  /\ evo' = evo \ {a \in DOMAIN p.accounts : p.accounts[a].syncEnabled}
  /\ p' = [p EXCEPT !.at = "remove",
             !.accounts = [a \in DOMAIN @ |-> [@[a] EXCEPT !.syncEnabled = FALSE]]]
  /\ UNCHANGED <<google, screen, key, buteo, bounds>>

\* commit() returns.
Commit ==
  /\ p.at = "remove" /\ ~p.continues
  /\ key' = TRUE
  /\ p' = Show([p EXCEPT !.at = "loop", !.accounts = << >>, !.importLock = FALSE,
                         !.updates = @ + 1],
               "complete")
  /\ UNCHANGED <<google, screen, evo, old, buteo, bounds>>

Quit ==
  /\ p.quits /\ p.at = "loop" /\ ~p.continues
  /\ p' = NotRunning
  /\ UNCHANGED <<google, screen, settings, buteo, bounds>>

Answers ==
  \/ \E m \in {"start", "complete", "later"} : MessageClosed(m)
  \/ Retry \/ NoRetry
  \/ \E m \in {"failure", "answered"} : FailureClosed(m)
  \/ QuestionReplied \/ QuestionClosed

Syncs ==
  \/ \E success \in BOOLEAN : OldContactsSynced(success)
  \/ \E a \in google : SyncStarted(a)
  \/ \E a \in google, outcome \in Outcomes : SyncStatusChanged(a, outcome)
  \/ \E a \in google \union {0} : ProfileDeleted(a)

Next ==
  \/ Launch \/ StartCalled \/ StartWhenConnected
  \/ OnlineStateChanged \/ ContinueUpdateWithInternet
  \/ ScreenChanges
  \/ Answers
  \/ ReadAccount \/ Prepared \/ ContinueUpdate \/ Syncs
  \/ QueuedError \/ UpdatedTimer
  \/ RemoveSources \/ Commit \/ Quit

Spec == Init /\ [][Next]_vars

\* A notification that is shown expires or is answered; the question about a
\* disabled account, which never expires, need not be.  The syncs that were asked
\* for end, timers fire, and a handler goes on.  Nobody has to call startUpdate.
Fairness ==
  /\ WF_vars(ReadAccount) /\ WF_vars(Prepared) /\ WF_vars(ContinueUpdate)
  /\ WF_vars(RemoveSources) /\ WF_vars(Commit) /\ WF_vars(Quit)
  /\ WF_vars(QueuedError) /\ WF_vars(UpdatedTimer)
  /\ \A m \in {"start", "complete", "later"} : WF_vars(MessageClosed(m))
  /\ WF_vars(Retry \/ NoRetry \/ FailureClosed("failure"))
  /\ WF_vars(\E success \in BOOLEAN : OldContactsSynced(success))
  /\ \A a \in 1 .. MaxAccounts :
       WF_vars(a \in google /\ \E outcome \in Outcomes : SyncStatusChanged(a, outcome))

FairSpec == Spec /\ Fairness
-----------------------------------------------------------------------------
(***************************************************************************)
(* Properties                                                              *)
(***************************************************************************)
\* Types; event loops nest one deep, and an account whose sync failed is one that
\* was read, for which a rollback removes nothing.
TypeOK ==
  /\ key \in BOOLEAN /\ evo \subseteq google /\ old \in [google -> Sources]
  /\ new \subseteq google /\ profile \subseteq google /\ synced \subseteq google
  /\ sync \in [google -> {"none", "queued", "active"}]
  /\ p.at \in Loops \union {"off", "crashed"}
  /\ p.internet \in {"no", "asked", "waits", "timer"}
  /\ p.shown \in [Messages -> Nat] /\ p.unseen \in [Messages -> Nat]
  /\ p.accounts \in Seq(AccountInfo)
  /\ p.buteoQueue \subseteq google /\ p.failed \subseteq google
  /\ p.evoQueue \subseteq google /\ p.disabled \subseteq google
  /\ p.connected => p.failed \subseteq DOMAIN p.accounts

\* Somebody is to answer or close m - or would, had it been shown.
Awaits(m) == OnScreen(p, m) \/ p.unseen[m] > 0

\* An update that was started waits for something that will come, in every
\* order of signals: a notification, a question, a sync under way for an account
\* of a queue, or a timer, and ABUpdate listens.  There are two exceptions: a
\* notification it waits for that could not be shown (unseen), and the steps that
\* are given up without a word (hung).
SomebodyWaits ==
  p.lock /\ ~p.hung /\ p.at = "loop" /\ ~p.continues =>
    \/ \E m \in {"start", "complete", "later", "failure"} : Awaits(m)
    \/ /\ p.connected
       /\ \/ Awaits("question")
          \/ p.evoQueue # {} /\ p.monitor = "heard"
          \/ \E a \in p.buteoQueue : sync[a] # "none" /\ p.interface
          \/ p.updates > 0 \/ p.errors > 0

\* update() never finds m_importLock taken: however an attempt failed, the next
\* one can begin.
LockFree == p.at = "prepare" => ~p.importLock

\* An update goes on: something is to come, unless it could not be shown or was
\* given up, and nothing of an earlier attempt is in its way.
UpdateGoesOn == TypeOK /\ SomebodyWaits /\ LockFree

\* The process quits in the middle of an update only if the question whether to
\* retry was closed after its answer: disconnect(sender) disconnects nothing.
NotAbandoned ==
  p.quits => p.twice \/ (p.at = "loop" /\ ~p.connected)

\* An old source with contacts is removed only after Buteo synced the account
\* ("all accounts synced", says commit()), unless that was skipped (a sync refused, a
\* profile deleted, a service that could not be enabled) or syncs of an earlier
\* attempt were under way.
KeptUnlessSkipped ==
  [][\A a \in google : old[a] = "full" /\ old'[a] = "none" =>
       a \in synced \/ a \in p.skipped \/ p.leftover]_vars

\* An update that was started comes to an end, as long as no question about a
\* disabled account stays open - or is given up without a word, waits for a
\* notification that could not be shown, or crashes.
UpdateEnds ==
  []<>~OnScreen(p, "question") =>
    (p.lock ~> \/ ~p.lock \/ p.hung \/ p.at = "crashed"
               \/ \E m \in Messages : p.unseen[m] > 0)

=============================================================================
