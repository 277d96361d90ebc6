----------------------------- MODULE MCUpdater -----------------------------
(* Small instances of Updater for TLC. *)
EXTENDS Updater

\* No account or one, in every state, and a process that may be started again;
\* or two whose contacts are in SyncEvolution, the second with its sync disabled
\* and without a profile, and notifications that are all shown or all not.
MCInit ==
  /\ Init
  /\ IF google = {1, 2}
     THEN /\ old = <<"full", "full">> /\ evo = {1} /\ profile = {1}
          /\ p = Started("no") /\ launches = 0 /\ changes = 0
     ELSE launches = MaxLaunches /\ changes = MaxChanges

MCSpec == MCInit /\ [][Next]_vars /\ Fairness
=============================================================================
