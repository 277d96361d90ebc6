--------------------------- MODULE Updater_proofs ---------------------------
(***************************************************************************)
(* An update goes on, is not abandoned and removes no source before its    *)
(* contacts are elsewhere, for any number of accounts, retries and starts. *)
(*                                                                         *)
(* The three properties speak of one moment each; what carries them is     *)
(* where an update is.  For ABUpdate that is what it waits for - the       *)
(* notification that starts, the failure, the end, or its module, of which *)
(* there is one at a time (Stage); for ButeoImport what it waits for       *)
(* (Awake) and, as long as no attempt failed with syncs under way, that    *)
(* this is one thing and which accounts are still to be synced (Phase).    *)
(***************************************************************************)
EXTENDS Updater, WellFoundedInduction, TLAPS

Names ==
  {"at", "quits", "lock", "queued", "connected", "internet", "shown", "unseen", "importLock",
   "accounts",
   "disabled", "evoQueue", "buteoQueue", "failed", "interface", "monitor", "continues",
   "updates", "errors", "hung", "leftover", "twice", "skipped"}

Shaped(q) == q = [n \in Names |-> q[n]]

\* The members have their types; g are the accounts.
Typed(g, q) ==
  /\ q.at \in Loops \union {"off", "crashed"}
  /\ q.internet \in {"no", "asked", "waits", "timer"}
  /\ q.shown \in [Messages -> Nat] /\ q.unseen \in [Messages -> Nat]
  /\ q.accounts \in Seq(AccountInfo) /\ DOMAIN q.accounts \subseteq g
  /\ q.disabled \subseteq g /\ q.evoQueue \subseteq g
  /\ q.buteoQueue \subseteq g /\ q.failed \subseteq g
  /\ q.connected => q.failed \subseteq DOMAIN q.accounts
  /\ q.updates \in Nat /\ q.errors \in Nat
  /\ q.monitor \in {"null", "heard", "deaf"}

\* What ABUpdate waits for: the notification that starts, the question whether to
\* retry, the end to be acknowledged, the module, or that the update is put off.
Stage(q) ==
  \/ /\ q.at = "loop" /\ q.queued /\ ~q.connected /\ ~q.interface /\ ~q.hung
     /\ q.shown = [m \in Messages |-> IF m = "start" THEN 1 ELSE 0]
  \/ /\ ~q.queued /\ q.shown["start"] = 0
     /\ \/ /\ q.at = "loop" /\ ~q.connected
           /\ q.shown["failure"] = 1 /\ q.shown["complete"] = 0
           /\ q.shown["later"] > 0 => q.twice
        \/ /\ q.at = "loop" /\ ~q.connected
           /\ q.shown["failure"] = 0 /\ q.shown["complete"] = 1
        \/ /\ q.at = "loop" <=> q.connected
           /\ q.shown["failure"] = 0 /\ q.shown["complete"] = 0
           /\ q.shown["later"] > 0 => q.twice
        \/ /\ q.at = "loop" /\ ~q.connected
           /\ q.shown["failure"] = 0 /\ q.shown["complete"] = 0 /\ q.shown["later"] > 0

\* Nobody asked for an update yet.
Fresh(q) ==
  /\ q.at = "loop" /\ ~q.lock /\ ~q.queued /\ ~q.connected /\ ~q.importLock
  /\ ~q.interface /\ ~q.hung
  /\ q.shown = [m \in Messages |-> 0]

Steered(q) ==
  /\ q.at \in {"off", "crashed"} => ~q.continues /\ ~q.quits
  /\ q.connected => q.at \in {"loop", "crashed"}
  /\ q.importLock => q.connected \/ q.at \in {"commit", "remove", "crashed"}
  /\ q.quits => ~q.lock
  /\ q.quits => q.twice \/ (q.at = "loop" /\ ~q.connected)
  /\ q.at \in Loops /\ ~q.quits => Fresh(q) \/ (q.lock /\ Stage(q))

\* Nothing of ButeoImport is under way, but for signals it is yet to emit.
Calm(q) ==
  q.shown["question"] = 0 /\ q.evoQueue = {} /\ ~q.continues /\ q.buteoQueue = {}

\* What makes a signal come that ButeoImport waits for; s is what Buteo does.
Heard(s, q) ==
  /\ ~q.hung => q.monitor # "deaf"
  /\ q.evoQueue # {} => q.monitor # "null"
  /\ ~q.hung /\ ~q.interface =>
       /\ Calm(q) /\ q.updates = 0 /\ q.errors = 0
       /\ ~q.connected /\ q.at \notin {"prepare", "commit", "remove"}
  /\ ~q.hung /\ ~q.quits /\ q.at \in Loops => \A a \in q.buteoQueue : s[a] # "none"

Awake(s, q) ==
  /\ Heard(s, q)
  /\ q.connected /\ q.at = "loop" /\ ~q.hung /\ ~q.quits =>
       ~Calm(q) \/ q.updates > 0 \/ q.errors > 0

\* What was read of the sources is true; o are the old sources.
Recorded(o, q) ==
  q.at \in {"loop", "prepare", "commit"} =>
    \A a \in DOMAIN q.accounts : q.accounts[a].oldSource \in {"none", o[a]}

\* The accounts whose contacts would be lost, were all to be committed now; y are those
\* that were synced.
AtRisk(o, y, q) ==
  {a \in DOMAIN q.accounts : /\ q.accounts[a].removeAfterUpdate
                             /\ q.accounts[a].oldSource # "none"
                             /\ o[a] = "full"} \ (y \union q.skipped)

Enabled(q) == {a \in DOMAIN q.accounts : q.accounts[a].syncEnabled}

Quiet(q) == q.updates = 0 /\ q.errors = 0

\* What a connected ButeoImport waits for, and who will see to the accounts at risk.
Asks(o, y, q) ==
  /\ q.shown["question"] = 1 /\ q.evoQueue = {} /\ ~q.continues /\ q.buteoQueue = {}
  /\ Quiet(q)
  /\ AtRisk(o, y, q) \subseteq Enabled(q) \union q.disabled

SyncsOld(o, y, q) ==
  /\ q.shown["question"] = 0 /\ q.buteoQueue = {}
  /\ Quiet(q)
  /\ q.evoQueue # {} <=> ~q.continues
  /\ AtRisk(o, y, q) \subseteq Enabled(q)

SyncsNew(o, y, q) ==
  /\ q.shown["question"] = 0 /\ q.evoQueue = {} /\ ~q.continues /\ q.buteoQueue # {}
  /\ Quiet(q)
  /\ q.buteoQueue \subseteq Enabled(q)
  /\ AtRisk(o, y, q) \subseteq q.buteoQueue \union q.failed

Emits(o, y, q) ==
  /\ Calm(q)
  /\ \/ q.updates = 1 /\ q.errors = 0 /\ AtRisk(o, y, q) = {}
     \/ q.updates = 0 /\ q.errors = 1
     \/ Quiet(q) /\ q.hung

Phase(o, y, q) == Asks(o, y, q) \/ SyncsOld(o, y, q) \/ SyncsNew(o, y, q) \/ Emits(o, y, q)

\* Nothing is left over of an attempt that was given up.
Tidy(q) ==
  ~q.connected =>
    /\ Calm(q) /\ q.errors = 0
    /\ q.updates > 0 => q.at = "loop" /\ (q.shown["complete"] > 0 \/ q.quits)

Traced(o, y, q) ==
  /\ Recorded(o, q)
  /\ ~q.leftover /\ q.at \in Loops =>
       /\ Tidy(q)
       /\ q.connected => Phase(o, y, q)
       /\ q.at = "commit" => AtRisk(o, y, q) = {}

Good(g, s, o, y, q) ==
  Shaped(q) /\ Typed(g, q) /\ Steered(q) /\ Awake(s, q) /\ Traced(o, y, q)

-----------------------------------------------------------------------------
(***************************************************************************)
(* ABUpdate                                                                *)
(***************************************************************************)
\* A notification more or less.
LEMMA NotificationTyped ==
  ASSUME NEW g, NEW q, NEW m \in Messages, Shaped(q), Typed(g, q)
  PROVE  /\ Shaped(Show(q, m)) /\ Typed(g, Show(q, m))
         /\ q.shown[m] > 0 => Shaped(Closed(q, m)) /\ Typed(g, Closed(q, m))
         /\ q.shown["failure"] > 0 => Shaped(Answered(q)) /\ Typed(g, Answered(q))
<1>1. Shaped(Show(q, m)) /\ Shaped(Closed(q, m)) BY DEF Shaped, Show, Closed
<1>2. Typed(g, Show(q, m)) BY DEF Shaped, Names, Typed, Show
<1>3. ASSUME q.shown[m] > 0 PROVE Typed(g, Closed(q, m))
  <2>1. [q.shown EXCEPT ![m] = @ - 1] \in [Messages -> Nat] BY <1>3 DEF Typed
  <2> QED BY <2>1 DEF Shaped, Names, Typed, Closed
<1>4. ASSUME q.shown["failure"] > 0 PROVE Shaped(Answered(q)) /\ Typed(g, Answered(q))
  <2> DEFINE c == Closed(q, "failure")
  <2>1. [q.shown EXCEPT !["failure"] = @ - 1] \in [Messages -> Nat] BY <1>4 DEF Typed, Messages
  <2>2. Shaped(c) /\ Typed(g, c)
    BY <2>1 DEF Shaped, Names, Typed, Closed
  <2>3. Answered(q) = [c EXCEPT !.shown["answered"] = @ + 1] BY DEF Answered
  <2> HIDE DEF c
  <2>4. Shaped(Answered(q)) BY <2>2, <2>3 DEF Shaped
  <2>5. [c.shown EXCEPT !["answered"] = @ + 1] \in [Messages -> Nat]
    <3>1. c.shown \in [Messages -> Nat] BY <2>2 DEF Typed
    <3>2. "answered" \in Messages BY DEF Messages
    <3> QED BY <3>1, <3>2
  <2>6. Typed(g, Answered(q)) BY <2>2, <2>3, <2>5 DEF Shaped, Names, Typed
  <2> QED BY <2>4, <2>6
<1> QED BY <1>1, <1>2, <1>3, <1>4

\* The module may be started.
Startable(g, s, o, y, q) ==
  /\ Shaped(q) /\ Typed(g, q) /\ Awake(s, q) /\ Traced(o, y, q)
  /\ q.at = "loop" /\ q.lock /\ ~q.quits /\ ~q.queued /\ ~q.connected /\ ~q.importLock
  /\ q.shown["start"] = 0 /\ q.shown["failure"] = 0 /\ q.shown["complete"] = 0
  /\ q.shown["later"] > 0 => q.twice

\* The module is started or cannot be: nothing of an earlier attempt is in the way.
LEMMA StartModuleGood ==
  ASSUME NEW g, NEW s, NEW o, NEW y, NEW q, NEW reached, Startable(g, s, o, y, q)
  PROVE  Good(g, s, o, y, StartModule(q, reached))
<1> DEFINE r == PrepareButeo(q, reached)
           e == ModuleError(r)
           t == [r EXCEPT !.accounts = << >>, !.skipped = {},
                          !.at = IF @ = "loop" THEN "prepare" ELSE "nested"]
<1>1. Shaped(r) /\ Typed(g, r)
  BY DEF Startable, Shaped, Names, Typed, PrepareButeo
<1>2. Good(g, s, o, y, e)
  <2>1. Shaped(e) BY <1>1 DEF Shaped, ModuleError, Rollback, Show
  <2>2. Typed(g, e) BY <1>1 DEF Shaped, Typed, Names, Show, ModuleError, Rollback, Messages
  <2>3. Steered(e)
    BY <1>1 DEF Startable, Shaped, Typed, Names, Show, ModuleError, Rollback, Messages, Steered, Stage,
                PrepareButeo
  <2>4. Awake(s, e)
    BY <1>1 DEF Startable, Shaped, Typed, Names, Show, ModuleError, Rollback, Messages, Awake, Heard, Calm,
                PrepareButeo
  <2>5. /\ e.at = q.at /\ e.accounts = q.accounts /\ ~e.connected /\ e.updates = q.updates
        /\ e.errors = q.errors /\ e.leftover = (q.leftover \/ q.evoQueue # {} \/ q.buteoQueue # {})
        /\ e.evoQueue = q.evoQueue /\ e.buteoQueue = q.buteoQueue /\ e.continues = q.continues
        /\ e.shown["question"] = q.shown["question"] /\ e.shown["complete"] = q.shown["complete"]
        /\ e.quits = q.quits
    BY DEF Startable, Shaped, Typed, Names, Show, ModuleError, Rollback, Messages, PrepareButeo
  <2>6. Traced(o, y, e)
    BY <2>5 DEF Startable, Traced, Recorded, Tidy, Calm
  <2> QED BY <2>1, <2>2, <2>3, <2>4, <2>6 DEF Good
<1>3. ASSUME CanUpdate(r) PROVE Good(g, s, o, y, t)
  <2>1. Shaped(t) BY <1>1 DEF Shaped
  <2>2. Typed(g, t) BY <1>1 DEF Startable, Shaped, Typed, Names, PrepareButeo, Loops
  <2>3. Steered(t) BY <1>1 DEF Startable, Shaped, Typed, Names, Steered, Stage, PrepareButeo
  <2>4. Awake(s, t)
    BY <1>1, <1>3 DEF Startable, Shaped, Typed, Names, Awake, Heard, Calm, PrepareButeo, CanUpdate
  <2>5. /\ t.at = "prepare" /\ t.accounts = << >> /\ ~t.connected /\ t.updates = q.updates
        /\ t.errors = q.errors /\ t.leftover = q.leftover
        /\ t.evoQueue = q.evoQueue /\ t.buteoQueue = q.buteoQueue /\ t.continues = q.continues
        /\ t.shown = q.shown /\ t.quits = q.quits
    BY DEF Startable, Shaped, Names, PrepareButeo
  <2>6. Traced(o, y, t)
    BY <2>5 DEF Startable, Traced, Recorded, Tidy, Calm, Typed, Loops
  <2> QED BY <2>1, <2>2, <2>3, <2>4, <2>6 DEF Good
<1> QED BY <1>2, <1>3 DEF StartModule

\* What listens: a handler may run.
Listening(q) == q.at \in Loops /\ ~q.quits /\ ~q.continues

\* While a notification is shown the update is locked.
LEMMA ShownStage ==
  ASSUME NEW q, NEW m \in Messages, Steered(q), Listening(q), q.shown[m] > 0
  PROVE  q.lock /\ Stage(q)
BY DEF Steered, Listening, Fresh

\* A notification is closed, and the module that is waiting is started; if none is, the
\* process quits.
LEMMA MessageClosedGood ==
  ASSUME NEW g, NEW s, NEW o, NEW y, NEW q, NEW m \in {"start", "complete", "later"}, NEW reached,
         Good(g, s, o, y, q), Listening(q), q.shown[m] > 0
  PROVE  Good(g, s, o, y, UpdateNextModule(Closed(q, m), reached))
<1> DEFINE c == Closed(q, m)
           r == [c EXCEPT !.queued = FALSE]
           d == NotifyDone(c)
<1>0. m \in Messages BY DEF Messages
<1>1. q.lock /\ Stage(q) BY <1>0, ShownStage DEF Good
<1>2. CASE c.queued
  <2>1. Shaped(r) /\ Typed(g, r)
    <3>1. Shaped(c) /\ Typed(g, c) BY <1>0, NotificationTyped DEF Good
    <3> HIDE DEF c
    <3>2. Shaped(r) BY <3>1 DEF Shaped
    <3>3. Typed(g, r) BY <3>1 DEF Shaped, Names, Typed
    <3> QED BY <3>2, <3>3
  <2>2. q.queued BY <1>2 DEF Good, Shaped, Names, Closed
  <2>3. q.shown = [n \in Messages |-> IF n = "start" THEN 1 ELSE 0] /\ q.at = "loop" /\ ~q.connected
    BY <1>1, <2>2 DEF Stage
  <2>4. m = "start" BY <1>0, <2>3
  <2>5. /\ r.at = "loop" /\ r.lock /\ ~r.quits /\ ~r.queued /\ ~r.connected /\ ~r.importLock
        /\ r.shown["start"] = 0 /\ r.shown["failure"] = 0 /\ r.shown["complete"] = 0
        /\ r.shown["later"] = 0
    BY <1>0, <1>1, <2>3, <2>4 DEF Good, Shaped, Names, Closed, Steered, Listening, Messages
  <2>6. Awake(s, r)
    BY <1>0, <2>4 DEF Good, Shaped, Names, Closed, Awake, Heard, Calm, Typed, Messages
  <2>7. Traced(o, y, r)
    <3>1. /\ r.at = q.at /\ r.accounts = q.accounts /\ ~r.connected /\ ~q.connected
          /\ r.updates = q.updates
          /\ r.errors = q.errors /\ r.leftover = q.leftover
          /\ r.evoQueue = q.evoQueue /\ r.buteoQueue = q.buteoQueue /\ r.continues = q.continues
          /\ r.shown["question"] = q.shown["question"] /\ r.shown["complete"] = q.shown["complete"]
          /\ r.quits = q.quits
      BY <1>0, <2>3, <2>4 DEF Good, Shaped, Names, Closed, Typed, Messages
    <3> QED BY <2>3, <3>1 DEF Good, Traced, Recorded, Tidy, Calm
  <2>8. Startable(g, s, o, y, r) BY <2>1, <2>5, <2>6, <2>7 DEF Startable
  <2> HIDE DEF r
  <2>9. Good(g, s, o, y, StartModule(r, reached)) BY <2>8, StartModuleGood
  <2> USE DEF r
  <2> QED BY <1>2, <2>9 DEF UpdateNextModule
<1>3. CASE ~c.queued
  <2>1. Shaped(d) /\ Typed(g, d)
    <3>1. Shaped(c) /\ Typed(g, c) BY <1>0, NotificationTyped DEF Good
    <3> HIDE DEF c
    <3>2. Shaped(d) BY <3>1 DEF Shaped, NotifyDone
    <3>3. Typed(g, d) BY <3>1 DEF Shaped, Names, Typed, NotifyDone
    <3> QED BY <3>2, <3>3
  <2>2. ~q.queued BY <1>3 DEF Good, Shaped, Names, Closed
  <2>3. Steered(d)
    BY <1>0, <1>1, <2>2 DEF Good, Shaped, Names, Typed, Closed, NotifyDone, Steered, Stage,
       Listening, Loops
  <2>4. Awake(s, d)
    BY <1>0, <1>1, <2>2 DEF Good, Shaped, Names, Typed, Closed, NotifyDone, Awake, Heard, Calm, Messages
  <2>5. Traced(o, y, d)
    <3>1. /\ d.at = q.at /\ d.accounts = q.accounts /\ d.connected = q.connected
          /\ d.updates = q.updates /\ d.errors = q.errors /\ d.leftover = q.leftover
          /\ d.evoQueue = q.evoQueue /\ d.buteoQueue = q.buteoQueue /\ d.continues = q.continues
          /\ d.shown["question"] = q.shown["question"] /\ d.quits
          /\ d.disabled = q.disabled /\ d.failed = q.failed /\ d.hung = q.hung
          /\ d.skipped = q.skipped
      BY <1>0 DEF Good, Shaped, Names, Typed, Closed, NotifyDone, Messages
    <3>2. q.connected \/ q.at # "loop" => q.shown["complete"] = 0
      BY <1>1, <2>2 DEF Stage
    <3> QED BY <3>1, <3>2 DEF Good, Traced, Recorded, Tidy, Calm, Phase, Asks, SyncsOld, SyncsNew,
               Emits, Quiet, AtRisk, Enabled
  <2> QED BY <1>3, <2>1, <2>3, <2>4, <2>5 DEF UpdateNextModule, Good
<1> QED BY <1>2, <1>3

\* "Yes": the question whether to retry is the one thing ABUpdate waits for.
LEMMA RetryGood ==
  ASSUME NEW g, NEW s, NEW o, NEW y, NEW q, NEW reached,
         Good(g, s, o, y, q), Listening(q), q.shown["failure"] > 0
  PROVE  Good(g, s, o, y,
              UpdateNextModule([Answered(q) EXCEPT !.queued = TRUE], reached))
<1> DEFINE b == Answered(q)
           t == [b EXCEPT !.queued = TRUE]
           r == [t EXCEPT !.queued = FALSE]
<1>0. "failure" \in Messages /\ "answered" \in Messages BY DEF Messages
<1>1. q.lock /\ Stage(q) BY <1>0, ShownStage DEF Good
<1>2. Shaped(b) /\ Typed(g, b) BY <1>0, NotificationTyped DEF Good
<1>3. q.at = "loop" /\ ~q.connected /\ q.shown["failure"] = 1 /\ q.shown["complete"] = 0
      /\ q.shown["start"] = 0 /\ (q.shown["later"] > 0 => q.twice)
  BY <1>1 DEF Stage, Messages
<1>4. /\ r.at = q.at /\ r.accounts = q.accounts /\ r.connected = q.connected
      /\ r.updates = q.updates /\ r.errors = q.errors /\ r.leftover = q.leftover
      /\ r.evoQueue = q.evoQueue /\ r.buteoQueue = q.buteoQueue /\ r.continues = q.continues
      /\ r.quits = q.quits /\ r.lock = q.lock /\ r.importLock = q.importLock
      /\ r.hung = q.hung /\ r.monitor = q.monitor /\ r.interface = q.interface /\ r.twice = q.twice
      /\ ~r.queued
  BY DEF Good, Shaped, Names, Answered, Closed
<1>5. /\ r.shown["question"] = q.shown["question"] /\ r.shown["complete"] = q.shown["complete"]
      /\ r.shown["start"] = q.shown["start"] /\ r.shown["later"] = q.shown["later"]
      /\ r.shown["failure"] = 0
  BY <1>3 DEF Good, Shaped, Names, Typed, Answered, Closed, Messages
<1>6. Shaped(t) /\ Shaped(r) /\ Typed(g, r) /\ t.queued
  <2> HIDE DEF b
  <2>1. Shaped(t) /\ Shaped(r) BY <1>2 DEF Shaped
  <2>2. Typed(g, r) /\ t.queued BY <1>2 DEF Shaped, Names, Typed
  <2> QED BY <2>1, <2>2
<1> HIDE DEF r
<1>7. ~q.quits /\ ~q.importLock BY <1>3 DEF Good, Steered, Listening
<1>8. Awake(s, r) BY <1>4, <1>5 DEF Good, Awake, Heard, Calm
<1>9. Traced(o, y, r) BY <1>3, <1>4, <1>5 DEF Good, Traced, Recorded, Tidy, Calm
<1>10. Startable(g, s, o, y, r)
  BY <1>1, <1>3, <1>4, <1>5, <1>6, <1>7, <1>8, <1>9 DEF Startable
<1>11. Good(g, s, o, y, StartModule(r, reached)) BY <1>10, StartModuleGood
<1> QED BY <1>6, <1>11 DEF UpdateNextModule, r

\* Fields that only StartModule, NotifyDone and the notifications of ABUpdate change.
SameImport(q, r) ==
  /\ r.accounts = q.accounts /\ r.connected = q.connected /\ r.disabled = q.disabled
  /\ r.updates = q.updates /\ r.errors = q.errors /\ r.leftover = q.leftover
  /\ r.evoQueue = q.evoQueue /\ r.buteoQueue = q.buteoQueue /\ r.continues = q.continues
  /\ r.failed = q.failed /\ r.hung = q.hung /\ r.skipped = q.skipped
  /\ r.monitor = q.monitor /\ r.interface = q.interface
  /\ r.at = q.at /\ r.quits = q.quits
  /\ r.shown["question"] = q.shown["question"]

LEMMA SameImportGood ==
  ASSUME NEW s, NEW o, NEW y, NEW q, NEW r, SameImport(q, r),
         r.shown["complete"] = q.shown["complete"]
  PROVE  /\ Awake(s, q) => Awake(s, r)
         /\ Traced(o, y, q) => Traced(o, y, r)
<1>1. Awake(s, q) => Awake(s, r) BY DEF SameImport, Awake, Heard, Calm
<1>2. Traced(o, y, q) => Traced(o, y, r)
  BY DEF SameImport, Traced, Recorded, Tidy, Calm, Phase, Asks, SyncsOld, SyncsNew,
               Emits, Quiet, AtRisk, Enabled
<1> QED BY <1>1, <1>2

\* "No", and the question closed: the update is put off, once more if the question was
\* answered before.
LEMMA PutOffGood ==
  ASSUME NEW g, NEW s, NEW o, NEW y, NEW q,
         Good(g, s, o, y, q), Listening(q)
  PROVE  /\ q.shown["failure"] > 0 =>
              Good(g, s, o, y, Show(Answered(q), "later"))
         /\ \A m \in {"failure", "answered"} : q.shown[m] > 0 =>
              Good(g, s, o, y,
                   Show([Closed(q, m) EXCEPT !.twice = @ \/ m = "answered"], "later"))
<1>0. "failure" \in Messages /\ "answered" \in Messages /\ "later" \in Messages BY DEF Messages
<1>1. ASSUME q.shown["failure"] > 0
      PROVE Good(g, s, o, y, Show(Answered(q), "later"))
  <2> DEFINE b == Answered(q)
             r == Show(b, "later")
  <2>1. q.lock /\ Stage(q) BY <1>0, <1>1, ShownStage DEF Good
  <2>2. Shaped(r) /\ Typed(g, r)
    <3>1. Shaped(b) /\ Typed(g, b) BY <1>0, <1>1, NotificationTyped DEF Good
    <3> HIDE DEF b
    <3>2. Shaped(Show(b, "later")) /\ Typed(g, Show(b, "later"))
      BY <1>0, <3>1, NotificationTyped
    <3> QED BY <3>2
  <2>3. Steered(r)
    <3>1. /\ r.at = q.at /\ r.connected = q.connected /\ r.importLock = q.importLock
          /\ r.queued = q.queued /\ r.quits = q.quits /\ r.lock = q.lock /\ r.twice = q.twice
          /\ r.continues = q.continues
      BY DEF Good, Shaped, Names, Answered, Closed, Show
    <3>2. /\ r.shown["start"] = q.shown["start"] /\ r.shown["failure"] = q.shown["failure"] - 1
          /\ r.shown["complete"] = q.shown["complete"] /\ r.shown["later"] = q.shown["later"] + 1
      BY DEF Good, Shaped, Names, Typed, Answered, Closed, Show, Messages
    <3>3. ~q.queued /\ ~q.connected /\ q.at = "loop" BY <1>1, <2>1 DEF Stage, Messages
    <3>4. q.shown["later"] \in Nat BY DEF Good, Typed, Messages
    <3> HIDE DEF r
    <3>5. Stage(r) BY <1>1, <2>1, <3>1, <3>2, <3>3, <3>4 DEF Stage
    <3> QED BY <2>1, <3>1, <3>3, <3>5 DEF Good, Steered, Listening, Loops
  <2>4. SameImport(q, r) /\ r.shown["complete"] = q.shown["complete"]
    BY DEF Good, Shaped, Names, Typed, Answered, Closed, Show, SameImport, Messages
  <2>5. Awake(s, r) /\ Traced(o, y, r) BY <2>4, SameImportGood DEF Good
  <2> QED BY <2>2, <2>3, <2>5 DEF Good
<1>2. ASSUME NEW m \in {"failure", "answered"}, q.shown[m] > 0
      PROVE Good(g, s, o, y, Show([Closed(q, m) EXCEPT !.twice = @ \/ m = "answered"], "later"))
  <2> DEFINE c == Closed(q, m)
             b == [c EXCEPT !.twice = @ \/ m = "answered"]
             r == Show(b, "later")
  <2>1. q.lock /\ Stage(q) BY <1>0, <1>2, ShownStage DEF Good
  <2>2. Shaped(r) /\ Typed(g, r)
    <3>1. Shaped(c) /\ Typed(g, c) BY <1>0, <1>2, NotificationTyped DEF Good
    <3> HIDE DEF c
    <3>2. Shaped(b) BY <3>1 DEF Shaped
    <3>3. Typed(g, b) BY <3>1 DEF Shaped, Names, Typed
    <3> HIDE DEF b
    <3> QED BY <1>0, <3>2, <3>3, NotificationTyped
  <2>3. Steered(r)
    <3>1. CASE m = "failure"
      BY <1>2, <2>1, <3>1 DEF Good, Shaped, Names, Typed, Closed, Show, Steered, Stage,
         Listening, Loops, Messages
    <3>2. CASE m = "answered"
      <4>1. r.twice BY <3>2 DEF Good, Shaped, Names, Closed, Show
      <4>2. /\ r.at = q.at /\ r.connected = q.connected /\ r.importLock = q.importLock
            /\ r.queued = q.queued /\ r.quits = q.quits /\ r.lock = q.lock
        BY <3>2 DEF Good, Shaped, Names, Closed, Show
      <4>3. /\ r.shown["start"] = q.shown["start"] /\ r.shown["failure"] = q.shown["failure"]
            /\ r.shown["complete"] = q.shown["complete"] /\ r.shown["later"] = q.shown["later"] + 1
        BY <3>2 DEF Good, Shaped, Names, Typed, Closed, Show, Messages
      <4>4. ~q.queued BY <1>2, <2>1, <3>2 DEF Stage, Messages
      <4>5. q.shown["later"] \in Nat BY DEF Good, Typed, Messages
      <4>6. Stage(r) BY <2>1, <4>1, <4>2, <4>3, <4>4, <4>5 DEF Stage
      <4> HIDE DEF r
      <4> QED BY <2>1, <4>1, <4>2, <4>6 DEF Good, Steered, Listening, Loops
    <3> QED BY <3>1, <3>2
  <2>4. SameImport(q, r) /\ r.shown["complete"] = q.shown["complete"]
    BY DEF Good, Shaped, Names, Typed, Closed, Show, SameImport, Messages
  <2>5. Awake(s, r) /\ Traced(o, y, r) BY <2>4, SameImportGood DEF Good
  <2> QED BY <2>2, <2>3, <2>5 DEF Good
<1> QED BY <1>1, <1>2

\* The wait for a connection is a matter of its own.
LEMMA InternetGood ==
  ASSUME NEW g, NEW s, NEW o, NEW y, NEW q, NEW i \in {"no", "asked", "waits", "timer"},
         Good(g, s, o, y, q), Listening(q)
  PROVE  /\ Good(g, s, o, y, [q EXCEPT !.internet = i])
         /\ Listening([q EXCEPT !.internet = i])
<1> DEFINE r == [q EXCEPT !.internet = i]
<1>1. Shaped(r) BY DEF Good, Shaped
<1>2. Typed(g, r) BY DEF Good, Shaped, Names, Typed
<1>3. SameImport(q, r) /\ r.shown = q.shown /\ r.internet = i
      /\ r.queued = q.queued /\ r.lock = q.lock /\ r.importLock = q.importLock /\ r.twice = q.twice
  BY DEF Good, Shaped, Names, SameImport
<1>4. Awake(s, r) /\ Traced(o, y, r) BY <1>3, SameImportGood DEF Good
<1>5. Steered(r)
  <2>1. Fresh(q) => Fresh(r) BY <1>3 DEF Fresh, SameImport
  <2>2. Stage(q) => Stage(r) BY <1>3 DEF Stage, SameImport
  <2> HIDE DEF r
  <2> QED BY <1>3, <2>1, <2>2 DEF Good, Steered, Listening, SameImport, Loops
<1>6. Listening(r)
  <2> HIDE DEF r
  <2> QED BY <1>3 DEF Listening, SameImport
<1> QED BY <1>1, <1>2, <1>4, <1>5, <1>6 DEF Good

\* An update that is under way is left alone; otherwise nothing has happened yet.
LEMMA StartUpdateGood ==
  ASSUME NEW g, NEW s, NEW o, NEW y, NEW q, NEW needed, NEW online, NEW reached,
         Good(g, s, o, y, q), Listening(q)
  PROVE  Good(g, s, o, y, StartUpdate(q, needed, online, reached))
<1>1. CASE q.lock BY <1>1 DEF StartUpdate
<1>2. CASE ~q.lock
  <2> DEFINE d == NotifyDone(q)
             b == [q EXCEPT !.lock = TRUE, !.queued = TRUE,
                            !.internet = IF @ = "waits" THEN "no" ELSE @]
             w == Show(b, "start")
             r == [b EXCEPT !.queued = FALSE]
  <2>1. Fresh(q)
    BY <1>2 DEF Good, Steered, Listening
  <2>2. Shaped(q) /\ Typed(g, q) /\ Awake(s, q) /\ Traced(o, y, q) BY DEF Good
  <2>3. /\ q.at = "loop" /\ ~q.queued /\ ~q.connected /\ ~q.importLock /\ ~q.quits
        /\ q.shown = [m \in Messages |-> 0] /\ ~q.continues /\ ~q.interface /\ ~q.hung
    BY <2>1 DEF Fresh, Listening
  <2>4. Good(g, s, o, y, d)
    <3>1. Shaped(d) BY <2>2 DEF Shaped, NotifyDone
    <3>2. Typed(g, d) BY <2>2 DEF Shaped, Names, Typed, NotifyDone
    <3>3. Steered(d) BY <2>2, <2>3 DEF Shaped, Names, Steered, NotifyDone
    <3>4. Awake(s, d)
      BY <2>2, <2>3 DEF Shaped, Names, Typed, NotifyDone, Awake, Heard, Calm, Messages
    <3>5. /\ d.at = q.at /\ d.accounts = q.accounts /\ ~d.connected
          /\ d.updates = q.updates /\ d.errors = q.errors /\ d.leftover = q.leftover
          /\ d.evoQueue = q.evoQueue /\ d.buteoQueue = q.buteoQueue /\ d.continues = q.continues
          /\ d.shown = q.shown /\ d.quits
      BY <2>2, <2>3 DEF Shaped, Names, NotifyDone
    <3>6. Traced(o, y, d) BY <2>2, <2>3, <3>5 DEF Traced, Recorded, Tidy, Calm
    <3> QED BY <3>1, <3>2, <3>3, <3>4, <3>6 DEF Good
  <2>5. Shaped(b) /\ Typed(g, b)
    <3>1. Shaped(b) BY <2>2 DEF Shaped
    <3>2. Typed(g, b) BY <2>2 DEF Shaped, Names, Typed
    <3> QED BY <3>1, <3>2
  <2>6. /\ SameImport(q, b) /\ b.shown = q.shown /\ b.importLock = q.importLock
        /\ b.queued /\ b.lock
    BY <2>2 DEF Shaped, Names, SameImport
  <2>7. Good(g, s, o, y, w)
    <3> HIDE DEF b
    <3>1. Shaped(w) /\ Typed(g, w) BY <2>5, NotificationTyped DEF Messages
    <3>2. /\ SameImport(q, w) /\ w.importLock = q.importLock
          /\ w.queued /\ w.lock /\ w.shown["complete"] = q.shown["complete"]
          /\ w.shown = [m \in Messages |-> IF m = "start" THEN 1 ELSE 0]
      BY <2>3, <2>5, <2>6 DEF Shaped, Names, Show, SameImport, Messages
    <3> HIDE DEF w
    <3>3. Awake(s, w) /\ Traced(o, y, w) BY <2>2, <3>2, SameImportGood
    <3>4. Steered(w) BY <2>3, <3>2 DEF Steered, Stage, SameImport
    <3> QED BY <3>1, <3>3, <3>4 DEF Good
  <2>8. Good(g, s, o, y, StartModule(r, reached))
    <3> HIDE DEF b
    <3>1. Shaped(r) BY <2>5 DEF Shaped
    <3>2. Typed(g, r) BY <2>5 DEF Shaped, Names, Typed
    <3>3. /\ SameImport(q, r) /\ r.importLock = q.importLock
          /\ ~r.queued /\ r.lock /\ r.shown = q.shown
      BY <2>3, <2>5, <2>6 DEF Shaped, Names, Show, SameImport, Messages
    <3> HIDE DEF r
    <3>4. Awake(s, r) /\ Traced(o, y, r) BY <2>2, <3>3, SameImportGood
    <3>5. Startable(g, s, o, y, r)
      BY <2>3, <3>1, <3>2, <3>3, <3>4 DEF Startable, SameImport, Messages
    <3> QED BY <3>5, StartModuleGood
  <2>9. UpdateNextModule(b, reached) = StartModule(r, reached)
    BY <2>6 DEF UpdateNextModule
  <2> QED BY <1>2, <2>4, <2>7, <2>8, <2>9 DEF StartUpdate
<1> QED BY <1>1, <1>2

-----------------------------------------------------------------------------
(***************************************************************************)
(* ButeoImport                                                             *)
(***************************************************************************)
\* A handler of ButeoImport is under way, and what it was waiting for is over.
Busy(g, s, o, q) ==
  /\ Shaped(q) /\ Typed(g, q) /\ Steered(q) /\ Heard(s, q) /\ Recorded(o, q)
  /\ q.at \in Loops /\ ~q.continues
  /\ q.connected \/ q.leftover
  /\ q.interface \/ q.hung
  /\ ~q.leftover => q.shown["question"] = 0 /\ Quiet(q)

\* All but the fields of these.
SameButLock(q, r) ==
  /\ SameImport(q, r) /\ r.queued = q.queued /\ r.lock = q.lock /\ r.shown = q.shown
  /\ r.twice = q.twice

\* Whatever fails, ABUpdate shows it if it listens, and notes the syncs left over.
LEMMA OnErrorGood ==
  ASSUME NEW g, NEW s, NEW o, NEW y, NEW q, Busy(g, s, o, q)
  PROVE  Good(g, s, o, y, OnError(q, TRUE))
<1> DEFINE r == [q EXCEPT !.importLock = @ /\ ~TRUE]
           e == ModuleError(r)
<1>1. Shaped(r) /\ Typed(g, r)
  BY DEF Busy, Shaped, Names, Typed
<1>2. SameButLock(q, r) /\ ~r.importLock
  BY DEF Busy, Shaped, Names, SameImport, SameButLock
<1> HIDE DEF r
<1>3. CASE q.connected
  <2>1. Shaped(e) BY <1>1 DEF Shaped, ModuleError, Rollback, Show
  <2>2. Typed(g, e) BY <1>1 DEF Shaped, Typed, Names, Show, ModuleError, Rollback, Messages
  <2>3. /\ e.at = q.at /\ e.accounts = q.accounts /\ ~e.connected /\ e.updates = q.updates
        /\ e.errors = q.errors /\ e.leftover = (q.leftover \/ q.evoQueue # {} \/ q.buteoQueue # {})
        /\ e.evoQueue = q.evoQueue /\ e.buteoQueue = q.buteoQueue /\ e.continues = q.continues
        /\ e.hung = q.hung /\ e.monitor = q.monitor /\ e.interface = q.interface
        /\ e.quits = q.quits /\ e.queued = q.queued /\ e.lock = q.lock
        /\ e.twice = q.twice /\ ~e.importLock
    BY <1>1, <1>2 DEF Shaped, Names, Show, ModuleError, Rollback, SameImport, SameButLock
  <2>4. /\ e.shown["question"] = q.shown["question"] /\ e.shown["complete"] = q.shown["complete"]
        /\ e.shown["start"] = q.shown["start"] /\ e.shown["later"] = q.shown["later"]
        /\ e.shown["failure"] = q.shown["failure"] + 1
    BY <1>1, <1>2 DEF Shaped, Typed, Names, Show, ModuleError, Rollback, SameImport, SameButLock, Messages
  <2> HIDE DEF e
  <2>5. q.at = "loop" BY <1>3 DEF Busy, Steered, Loops
  <2>6. Steered(e)
    <3>1. q.quits \/ (q.lock /\ Stage(q)) BY <1>3, <2>5 DEF Busy, Steered, Fresh
    <3>2. Stage(q) => Stage(e) BY <1>3, <2>3, <2>4, <2>5 DEF Stage
    <3> QED BY <1>3, <2>3, <2>5, <3>1, <3>2 DEF Busy, Steered
  <2>7. Awake(s, e) BY <2>3, <2>4 DEF Busy, Awake, Heard, Calm
  <2>8. Traced(o, y, e)
    <3>1. Recorded(o, e) BY <2>3 DEF Busy, Recorded
    <3>2. ~e.leftover => ~q.leftover /\ q.evoQueue = {} /\ q.buteoQueue = {} BY <2>3
    <3>3. ~e.leftover => Tidy(e) BY <2>3, <2>4, <3>2 DEF Busy, Tidy, Calm, Quiet
    <3> QED BY <2>3, <2>5, <3>1, <3>3 DEF Traced
  <2>9. OnError(q, TRUE) = e BY <1>2, <1>3 DEF OnError, SameButLock, SameImport, e, r
  <2> QED BY <2>1, <2>2, <2>6, <2>7, <2>8, <2>9 DEF Good
<1>4. CASE ~q.connected
  <2>1. Steered(r)
    <3>1. Fresh(q) => Fresh(r) BY <1>2 DEF Fresh, SameButLock, SameImport
    <3>2. Stage(q) => Stage(r) BY <1>2 DEF Stage, SameButLock, SameImport
    <3> QED BY <1>2, <3>1, <3>2 DEF Busy, Steered, SameButLock, SameImport
  <2>2. Awake(s, r) /\ Traced(o, y, r)
    BY <1>2, <1>4 DEF Busy, SameButLock, SameImport, Awake, Heard, Calm, Traced, Recorded
  <2>3. OnError(q, TRUE) = r BY <1>2, <1>4 DEF OnError, SameButLock, SameImport, r
  <2> QED BY <1>1, <2>1, <2>2, <2>3 DEF Good
<1> QED BY <1>3, <1>4

\* The accounts at risk depend on what was read and on what was skipped.
LEMMA RiskSame ==
  ASSUME NEW o, NEW y, NEW q, NEW r, r.accounts = q.accounts, r.skipped = q.skipped
  PROVE  AtRisk(o, y, r) = AtRisk(o, y, q) /\ Enabled(r) = Enabled(q)
BY DEF AtRisk, Enabled

\* The monitor is asked for the next sync of an old source, or Buteo's turn has come.
LEMMA SyncOldContactsContinueGood ==
  ASSUME NEW g, NEW s, NEW o, NEW y, NEW q, NEW accepted, Busy(g, s, o, q),
         ~q.leftover => q.buteoQueue = {} /\ AtRisk(o, y, q) \subseteq Enabled(q)
  PROVE  Good(g, s, o, y, SyncOldContactsContinue(q, accepted))
<1> DEFINE c == [q EXCEPT !.continues = TRUE]
<1>1. CASE q.evoQueue = {}
  <2>1. Shaped(c) BY DEF Busy, Shaped
  <2>2. Typed(g, c) BY DEF Busy, Shaped, Names, Typed
  <2>3. /\ c.at = q.at /\ c.accounts = q.accounts /\ c.connected = q.connected
        /\ c.updates = q.updates /\ c.errors = q.errors /\ c.leftover = q.leftover
        /\ c.evoQueue = q.evoQueue /\ c.buteoQueue = q.buteoQueue /\ c.continues
        /\ c.hung = q.hung /\ c.monitor = q.monitor /\ c.interface = q.interface
        /\ c.quits = q.quits /\ c.queued = q.queued /\ c.lock = q.lock
        /\ c.twice = q.twice /\ c.importLock = q.importLock /\ c.shown = q.shown
        /\ c.skipped = q.skipped
    BY DEF Busy, Shaped, Names
  <2> HIDE DEF c
  <2>4. Steered(c)
    <3>1. Fresh(q) => Fresh(c) BY <2>3 DEF Fresh
    <3>2. Stage(q) => Stage(c) BY <2>3 DEF Stage
    <3> QED BY <2>3, <3>1, <3>2 DEF Busy, Steered, Loops
  <2>5. Awake(s, c) BY <2>3 DEF Busy, Awake, Heard, Calm
  <2>6. Traced(o, y, c)
    <3>1. ~q.leftover => q.connected /\ q.at = "loop" BY DEF Busy, Steered, Loops
    <3>2. ~q.leftover => SyncsOld(o, y, c)
      BY <1>1, <2>3, RiskSame DEF Busy, SyncsOld, Quiet
    <3> QED BY <2>3, <3>1, <3>2 DEF Busy, Traced, Recorded, Tidy, Phase
  <2> QED BY <1>1, <2>1, <2>2, <2>4, <2>5, <2>6 DEF SyncOldContactsContinue, Good, c
<1>2. CASE q.evoQueue # {} /\ accepted
  <2>1. Awake(s, q) BY <1>2 DEF Busy, Awake, Calm
  <2>2. Traced(o, y, q)
    <3>1. ~q.leftover => q.connected /\ q.at = "loop" BY DEF Busy, Steered, Loops
    <3>2. ~q.leftover => SyncsOld(o, y, q)
      BY <1>2 DEF Busy, SyncsOld, Quiet
    <3> QED BY <3>1, <3>2 DEF Busy, Traced, Tidy, Phase
  <2> QED BY <1>2, <2>1, <2>2 DEF Busy, Good, SyncOldContactsContinue
<1>3. CASE q.evoQueue # {} /\ ~accepted
  BY <1>3, OnErrorGood DEF SyncOldContactsContinue
<1> QED BY <1>1, <1>2, <1>3

\* The two differ in the accounts and the queues of the steps before Buteo's only.
Alike(q, r) ==
  /\ r.at = q.at /\ r.connected = q.connected /\ r.quits = q.quits /\ r.queued = q.queued
  /\ r.lock = q.lock /\ r.importLock = q.importLock /\ r.twice = q.twice /\ r.shown = q.shown
  /\ r.updates = q.updates /\ r.errors = q.errors /\ r.leftover = q.leftover
  /\ r.buteoQueue = q.buteoQueue /\ r.continues = q.continues

LEMMA SteeredAlike ==
  ASSUME NEW q, NEW r, Alike(q, r), Steered(q), q.interface \/ q.hung
  PROVE  Steered(r)
<1>1. ~Fresh(q) BY DEF Fresh
<1>2. Stage(q) => Stage(r) BY DEF Stage, Alike
<1> QED BY <1>1, <1>2 DEF Steered, Alike

\* The queue of old sources to sync is made, or the step is given up without a word.
LEMMA SyncOldContactsGood ==
  ASSUME NEW g, NEW s, NEW o, NEW y, NEW q, NEW accepted, NEW present, Busy(g, s, o, q),
         ~q.leftover => q.buteoQueue = {} /\ q.evoQueue = {} /\ AtRisk(o, y, q) \subseteq Enabled(q)
  PROVE  Good(g, s, o, y, SyncOldContacts(q, accepted, present))
<1> DEFINE d == [q EXCEPT !.monitor = "deaf", !.interface = FALSE, !.hung = TRUE]
           toSync == {a \in DOMAIN q.accounts : /\ q.accounts[a].syncEnabled
                                                /\ ~q.accounts[a].newSource
                                                /\ q.accounts[a].oldSource # "none"}
           r == [q EXCEPT !.monitor = IF @ = "null" THEN "heard" ELSE @, !.evoQueue = toSync]
<1>1. CASE q.monitor = "null" /\ ~present
  <2>1. Shaped(d) BY DEF Busy, Shaped
  <2>2. Typed(g, d) BY DEF Busy, Shaped, Names, Typed
  <2>3. /\ Alike(q, d) /\ d.accounts = q.accounts /\ d.skipped = q.skipped
        /\ d.evoQueue = q.evoQueue /\ d.hung /\ d.monitor = "deaf"
    BY DEF Busy, Shaped, Names, Alike
  <2> HIDE DEF d
  <2>4. Steered(d) BY <2>3, SteeredAlike DEF Busy
  <2>5. Awake(s, d) BY <2>3 DEF Busy, Awake, Heard, Alike
  <2>6. Traced(o, y, d)
    <3>1. ~q.leftover => q.connected /\ q.at = "loop" BY DEF Busy, Steered, Loops
    <3>2. ~q.leftover => Emits(o, y, d)
      BY <2>3 DEF Busy, Emits, Quiet, Calm, Alike
    <3> QED BY <2>3, <3>1, <3>2 DEF Busy, Traced, Recorded, Tidy, Phase, Alike
  <2> QED BY <1>1, <2>1, <2>2, <2>4, <2>5, <2>6 DEF SyncOldContacts, Good, d
<1>2. CASE ~(q.monitor = "null" /\ ~present)
  <2>0. toSync \subseteq DOMAIN q.accounts OBVIOUS
  <2> HIDE DEF toSync
  <2>1. Shaped(r) BY DEF Busy, Shaped
  <2>2. Typed(g, r) BY <2>0 DEF Busy, Shaped, Names, Typed
  <2>3. /\ Alike(q, r) /\ r.accounts = q.accounts /\ r.skipped = q.skipped
        /\ r.hung = q.hung /\ r.interface = q.interface
        /\ r.monitor = IF q.monitor = "null" THEN "heard" ELSE q.monitor
    BY DEF Busy, Shaped, Names, Alike
  <2> HIDE DEF r
  <2>4. Steered(r) BY <2>3, SteeredAlike DEF Busy
  <2>5. Heard(s, r) BY <2>3 DEF Busy, Heard, Alike
  <2>6. Busy(g, s, o, r)
    BY <2>1, <2>2, <2>3, <2>4, <2>5 DEF Busy, Recorded, Alike, Quiet
  <2>7. ~r.leftover => r.buteoQueue = {} /\ AtRisk(o, y, r) \subseteq Enabled(r)
    BY <2>3, RiskSame DEF Alike
  <2>8. Good(g, s, o, y, SyncOldContactsContinue(r, accepted))
    BY <2>6, <2>7, SyncOldContactsContinueGood
  <2> QED BY <1>2, <2>8 DEF SyncOldContacts, r, toSync
<1> QED BY <1>1, <1>2

\* The next question is asked, or all are answered.
LEMMA AskAboutDisabledAccountsGood ==
  ASSUME NEW g, NEW s, NEW o, NEW y, NEW q, NEW accepted, NEW present, Busy(g, s, o, q),
         ~q.leftover => /\ q.buteoQueue = {} /\ q.evoQueue = {}
                        /\ AtRisk(o, y, q) \subseteq Enabled(q) \union q.disabled
  PROVE  Good(g, s, o, y, AskAboutDisabledAccounts(q, accepted, present))
<1> DEFINE w == Show(q, "question")
<1>1. CASE q.disabled = {}
  BY <1>1, SyncOldContactsGood DEF AskAboutDisabledAccounts
<1>2. CASE q.disabled # {}
  <2>1. Shaped(w) /\ Typed(g, w) BY NotificationTyped DEF Busy, Messages
  <2>2. /\ w.at = q.at /\ w.accounts = q.accounts /\ w.connected = q.connected
        /\ w.updates = q.updates /\ w.errors = q.errors /\ w.leftover = q.leftover
        /\ w.evoQueue = q.evoQueue /\ w.buteoQueue = q.buteoQueue /\ w.continues = q.continues
        /\ w.hung = q.hung /\ w.monitor = q.monitor /\ w.interface = q.interface
        /\ w.quits = q.quits /\ w.queued = q.queued /\ w.lock = q.lock
        /\ w.twice = q.twice /\ w.importLock = q.importLock
        /\ w.skipped = q.skipped /\ w.disabled = q.disabled
    BY DEF Busy, Shaped, Names, Show
  <2>3. /\ w.shown["question"] = q.shown["question"] + 1
        /\ \A m \in Messages \ {"question"} : w.shown[m] = q.shown[m]
    BY DEF Busy, Shaped, Names, Typed, Show, Messages
  <2> HIDE DEF w
  <2>4. Steered(w)
    <3>1. ~Fresh(q) /\ Steered(q) BY DEF Busy, Fresh
    <3>2. ASSUME Stage(q), q.lock, ~q.quits, q.at \in Loops PROVE Stage(w)
      <4>1. ~q.queued BY <3>2 DEF Stage, Busy
      <4>2. /\ w.shown["start"] = q.shown["start"] /\ w.shown["failure"] = q.shown["failure"]
            /\ w.shown["complete"] = q.shown["complete"] /\ w.shown["later"] = q.shown["later"]
        BY <2>3 DEF Messages
      <4> QED BY <2>2, <3>2, <4>1, <4>2 DEF Stage
    <3> QED BY <2>2, <3>1, <3>2 DEF Steered
  <2>5. Awake(s, w) BY <2>2, <2>3 DEF Busy, Awake, Heard, Calm, Typed, Messages
  <2>6. Traced(o, y, w)
    <3>1. ~q.leftover => q.connected /\ q.at = "loop" BY DEF Busy, Steered, Loops
    <3>2. ~q.leftover => Asks(o, y, w)
      BY <2>2, <2>3, RiskSame DEF Busy, Asks, Quiet
    <3> QED BY <2>2, <3>1, <3>2 DEF Busy, Traced, Recorded, Tidy, Phase
  <2> QED BY <1>2, <2>1, <2>4, <2>5, <2>6 DEF AskAboutDisabledAccounts, Good, w
<1> QED BY <1>1, <1>2

\* The module says that it is done: the old sources may go.
LEMMA EmitUpdatedGood ==
  ASSUME NEW g, NEW s, NEW o, NEW y, NEW q, Busy(g, s, o, q),
         ~q.leftover => q.evoQueue = {} /\ q.buteoQueue = {} /\ AtRisk(o, y, q) = {}
  PROVE  Good(g, s, o, y, EmitUpdated(q))
<1> DEFINE r == [q EXCEPT !.connected = FALSE,
                          !.at = IF @ = "loop" THEN "commit" ELSE "nested"]
<1>1. CASE q.connected
  <2>1. Shaped(r) BY DEF Busy, Shaped
  <2>2. q.at = "loop" BY <1>1 DEF Busy, Steered, Loops
  <2>3. /\ r.at = "commit" /\ r.accounts = q.accounts /\ ~r.connected
        /\ r.updates = q.updates /\ r.errors = q.errors /\ r.leftover = q.leftover
        /\ r.evoQueue = q.evoQueue /\ r.buteoQueue = q.buteoQueue /\ r.continues = q.continues
        /\ r.hung = q.hung /\ r.monitor = q.monitor /\ r.interface = q.interface
        /\ r.quits = q.quits /\ r.queued = q.queued /\ r.lock = q.lock
        /\ r.twice = q.twice /\ r.importLock = q.importLock /\ r.shown = q.shown
        /\ r.skipped = q.skipped
    BY <2>2 DEF Busy, Shaped, Names
  <2>4. Typed(g, r) BY <2>2 DEF Busy, Shaped, Names, Typed, Loops
  <2> HIDE DEF r
  <2>5. Steered(r)
    <3>1. ~Fresh(q) BY DEF Busy, Fresh
    <3>2. Stage(q) => Stage(r) BY <1>1, <2>2, <2>3 DEF Stage
    <3> QED BY <1>1, <2>2, <2>3, <3>1, <3>2 DEF Busy, Steered, Loops
  <2>6. Awake(s, r) BY <2>2, <2>3 DEF Busy, Awake, Heard, Calm, Loops
  <2>7. Traced(o, y, r)
    <3>1. AtRisk(o, y, r) = AtRisk(o, y, q) BY <2>3, RiskSame
    <3> QED BY <2>2, <2>3, <3>1 DEF Busy, Traced, Recorded, Tidy, Calm, Quiet
  <2> QED BY <1>1, <2>1, <2>4, <2>5, <2>6, <2>7 DEF EmitUpdated, Good, r
<1>2. CASE ~q.connected
  BY <1>2 DEF EmitUpdated, Busy, Good, Awake, Traced
<1> QED BY <1>1, <1>2

\* Every account with old contacts is synced as it is, or asked about.
LEMMA CheckOldAccountsGood ==
  ASSUME NEW g, NEW s, NEW o, NEW y, NEW q, NEW accepted, NEW present, Busy(g, s, o, q),
         q.connected, ~q.leftover => q.buteoQueue = {} /\ q.evoQueue = {}
  PROVE  Good(g, s, o, y, CheckOldAccounts(q, accepted, present))
<1> DEFINE toAsk == {a \in DOMAIN q.accounts : /\ ~q.accounts[a].syncEnabled
                                               /\ q.accounts[a].oldSource = "full"}
           r == [q EXCEPT !.disabled = toAsk]
<1>1. toAsk \subseteq DOMAIN q.accounts OBVIOUS
<1>2. AtRisk(o, y, q) \subseteq Enabled(q) \union toAsk
  <2>1. q.at = "loop" BY DEF Busy, Steered, Loops
  <2>2. \A a \in DOMAIN q.accounts : q.accounts[a].oldSource \in {"none", o[a]}
    BY <2>1 DEF Busy, Recorded
  <2> QED BY <2>2 DEF AtRisk, Enabled
<1> HIDE DEF toAsk
<1>3. Shaped(r) BY DEF Busy, Shaped
<1>4. Typed(g, r) BY <1>1 DEF Busy, Shaped, Names, Typed
<1>5. /\ Alike(q, r) /\ r.accounts = q.accounts /\ r.skipped = q.skipped
      /\ r.hung = q.hung /\ r.interface = q.interface /\ r.monitor = q.monitor
      /\ r.evoQueue = q.evoQueue /\ r.disabled = toAsk
  BY DEF Busy, Shaped, Names, Alike
<1> HIDE DEF r
<1>6. Steered(r) BY <1>5, SteeredAlike DEF Busy
<1>7. Heard(s, r) BY <1>5 DEF Busy, Heard, Alike, Calm
<1>8. Busy(g, s, o, r)
  BY <1>3, <1>4, <1>5, <1>6, <1>7 DEF Busy, Recorded, Alike, Quiet
<1>9. AtRisk(o, y, r) \subseteq Enabled(r) \union r.disabled
  BY <1>2, <1>5, RiskSame
<1>10. ~r.leftover => r.buteoQueue = {} /\ r.evoQueue = {} BY <1>5 DEF Alike
<1>11. Good(g, s, o, y, AskAboutDisabledAccounts(r, accepted, present))
  BY <1>8, <1>9, <1>10, AskAboutDisabledAccountsGood
<1> QED BY <1>11 DEF CheckOldAccounts, r, toAsk

\* The accounts are read; nothing of an earlier attempt is in the way of update().
LEMMA PreparedGood ==
  ASSUME NEW g, NEW s, NEW o, NEW y, NEW q, NEW accepted, NEW present,
         Good(g, s, o, y, q), q.at = "prepare", ~q.continues, DOMAIN q.accounts = g
  PROVE  Good(g, s, o, y, Update([q EXCEPT !.at = "loop", !.connected = TRUE], accepted, present))
<1> DEFINE r == [q EXCEPT !.at = "loop", !.connected = TRUE]
           t == [r EXCEPT !.importLock = TRUE]
<1>1. Shaped(r) BY DEF Good, Shaped
<1>2. /\ r.at = "loop" /\ r.accounts = q.accounts /\ r.connected
      /\ r.updates = q.updates /\ r.errors = q.errors /\ r.leftover = q.leftover
      /\ r.evoQueue = q.evoQueue /\ r.buteoQueue = q.buteoQueue /\ r.continues = q.continues
      /\ r.hung = q.hung /\ r.monitor = q.monitor /\ r.interface = q.interface
      /\ r.quits = q.quits /\ r.queued = q.queued /\ r.lock = q.lock
      /\ r.twice = q.twice /\ r.importLock = q.importLock /\ r.shown = q.shown
      /\ r.skipped = q.skipped
  BY DEF Good, Shaped, Names
<1>3. Typed(g, r) BY DEF Good, Shaped, Names, Typed, Loops
<1> HIDE DEF r
<1>4. Steered(r) /\ ~q.importLock
  <2>1. ~Fresh(q) BY DEF Fresh
  <2>2. Stage(q) => Stage(r) BY <1>2 DEF Stage, Good, Steered
  <2> QED BY <1>2, <2>1, <2>2 DEF Good, Steered, Loops
<1>5. Heard(s, r) BY <1>2 DEF Good, Awake, Heard, Calm, Loops
<1>6. q.interface \/ q.hung BY DEF Good, Awake, Heard
<1>7. ~q.leftover => Calm(q) /\ Quiet(q)
  BY DEF Good, Traced, Tidy, Typed, Quiet, Steered, Loops
<1>8. Busy(g, s, o, r)
  <2>1. Recorded(o, r) BY <1>2 DEF Good, Traced, Recorded
  <2> QED BY <1>1, <1>2, <1>3, <1>4, <1>5, <1>6, <1>7, <2>1 DEF Busy, Quiet, Calm, Loops
<1>9. CASE r.accounts = << >>
  <2>1. AtRisk(o, y, r) = {} BY <1>9 DEF AtRisk
  <2>2. ~r.leftover => r.evoQueue = {} /\ r.buteoQueue = {} BY <1>2, <1>7 DEF Calm
  <2>3. Good(g, s, o, y, EmitUpdated(r)) BY <1>8, <2>1, <2>2, EmitUpdatedGood
  <2> QED BY <1>2, <1>4, <1>9, <2>3 DEF Update, r
<1>10. CASE r.accounts # << >>
  <2>1. Shaped(t) BY <1>1 DEF Shaped
  <2>2. Typed(g, t) BY <1>1, <1>3 DEF Shaped, Names, Typed
  <2>3. /\ t.at = "loop" /\ t.accounts = r.accounts /\ t.connected
        /\ t.updates = r.updates /\ t.errors = r.errors /\ t.leftover = r.leftover
        /\ t.evoQueue = r.evoQueue /\ t.buteoQueue = r.buteoQueue /\ t.continues = r.continues
        /\ t.hung = r.hung /\ t.monitor = r.monitor /\ t.interface = r.interface
        /\ t.quits = r.quits /\ t.queued = r.queued /\ t.lock = r.lock
        /\ t.twice = r.twice /\ t.shown = r.shown
    BY <1>1, <1>2 DEF Shaped, Names
  <2> HIDE DEF t
  <2>4. Steered(t)
    <3>1. ~Fresh(r) BY <1>2 DEF Fresh
    <3>2. Stage(r) => Stage(t) BY <1>2, <2>3 DEF Stage
    <3> QED BY <1>2, <1>4, <2>3, <3>1, <3>2 DEF Steered
  <2>5. Heard(s, t) BY <1>2, <1>5, <2>3 DEF Heard, Calm
  <2>6. Busy(g, s, o, t)
    BY <1>2, <1>8, <2>1, <2>2, <2>3, <2>4, <2>5 DEF Busy, Recorded, Quiet
  <2>7. ~t.leftover => t.evoQueue = {} /\ t.buteoQueue = {} BY <1>2, <1>7, <2>3 DEF Calm
  <2>8. Good(g, s, o, y, CheckOldAccounts(t, accepted, present))
    BY <2>3, <2>6, <2>7, CheckOldAccountsGood
  <2> QED BY <1>2, <1>4, <1>10, <2>8 DEF Update, t, r
<1> QED BY <1>9, <1>10

\* An answer about one account leaves the others, and what was read of the sources.
LEMMA AccountSet ==
  ASSUME NEW acc \in Seq(AccountInfo), NEW a \in DOMAIN acc
  PROVE  /\ [acc EXCEPT ![a].syncEnabled = TRUE] \in Seq(AccountInfo)
         /\ [acc EXCEPT ![a].removeAfterUpdate = FALSE] \in Seq(AccountInfo)
         /\ [acc EXCEPT ![a].syncProfile = FALSE] \in Seq(AccountInfo)
         /\ \A b \in DOMAIN acc :
              /\ [acc EXCEPT ![a].syncEnabled = TRUE][b].oldSource = acc[b].oldSource
              /\ [acc EXCEPT ![a].removeAfterUpdate = FALSE][b].oldSource = acc[b].oldSource
              /\ [acc EXCEPT ![a].syncProfile = FALSE][b].oldSource = acc[b].oldSource
<1> DEFINE t == TRUE
           f == FALSE
           e == [acc[a] EXCEPT !.syncEnabled = t]
           d == [acc[a] EXCEPT !.removeAfterUpdate = f]
           c == [acc[a] EXCEPT !.syncProfile = f]
<1>1. acc[a] \in AccountInfo /\ t \in BOOLEAN /\ f \in BOOLEAN OBVIOUS
<1>2. [acc EXCEPT ![a].syncEnabled = TRUE] = [acc EXCEPT ![a] = e] OBVIOUS
<1>3. [acc EXCEPT ![a].removeAfterUpdate = FALSE] = [acc EXCEPT ![a] = d] OBVIOUS
<1>4. [acc EXCEPT ![a].syncProfile = FALSE] = [acc EXCEPT ![a] = c] OBVIOUS
<1> HIDE DEF t, f
<1>5. e \in AccountInfo /\ e.oldSource = acc[a].oldSource BY <1>1 DEF AccountInfo
<1>6. d \in AccountInfo /\ d.oldSource = acc[a].oldSource BY <1>1 DEF AccountInfo
<1>7. c \in AccountInfo /\ c.oldSource = acc[a].oldSource BY <1>1 DEF AccountInfo
<1> HIDE DEF e, d, c
<1>8. \A x \in AccountInfo : [acc EXCEPT ![a] = x] \in Seq(AccountInfo) OBVIOUS
<1>9. \A x : x.oldSource = acc[a].oldSource =>
        \A b \in DOMAIN acc : [acc EXCEPT ![a] = x][b].oldSource = acc[b].oldSource
  OBVIOUS
<1>10. /\ [acc EXCEPT ![a] = e] \in Seq(AccountInfo)
       /\ [acc EXCEPT ![a] = d] \in Seq(AccountInfo)
       /\ [acc EXCEPT ![a] = c] \in Seq(AccountInfo)
  BY <1>5, <1>6, <1>7, <1>8
<1>11. \A b \in DOMAIN acc :
         /\ [acc EXCEPT ![a] = e][b].oldSource = acc[b].oldSource
         /\ [acc EXCEPT ![a] = d][b].oldSource = acc[b].oldSource
         /\ [acc EXCEPT ![a] = c][b].oldSource = acc[b].oldSource
  BY <1>5, <1>6, <1>7, <1>9
<1> QED BY <1>2, <1>3, <1>4, <1>10, <1>11

\* A process that crashed does nothing more.
LEMMA CrashedGood ==
  ASSUME NEW g, NEW s, NEW o, NEW y, NEW q, NEW t, NEW z, Good(g, s, o, y, q), Listening(q)
  PROVE  Good(g, t, o, z, Crashed(q))
<1> DEFINE r == Crashed(q)
<1>1. Shaped(r) BY DEF Good, Shaped, Crashed
<1>2. Typed(g, r) BY DEF Good, Shaped, Names, Typed, Crashed
<1>3. r.at = "crashed" /\ r.connected = q.connected /\ r.continues = q.continues
      /\ r.quits = q.quits /\ r.lock = q.lock /\ r.hung = q.hung /\ r.monitor = q.monitor
      /\ r.interface = q.interface /\ r.evoQueue = q.evoQueue /\ r.buteoQueue = q.buteoQueue
      /\ r.shown = q.shown /\ r.updates = q.updates /\ r.errors = q.errors
  BY DEF Good, Shaped, Names, Crashed
<1> HIDE DEF r
<1>4. Steered(r) BY <1>3 DEF Good, Steered, Listening, Loops
<1>5. Awake(t, r) BY <1>3 DEF Good, Awake, Heard, Calm, Loops
<1>6. Traced(o, z, r) BY <1>3 DEF Traced, Recorded, Loops
<1> QED BY <1>1, <1>2, <1>4, <1>5, <1>6 DEF Good, r

\* What a handler knows of the accounts and the queues may change under way.
LEMMA BusyAlike ==
  ASSUME NEW g, NEW s, NEW o, NEW q, NEW r, Busy(g, s, o, q),
         Shaped(r), Typed(g, r), Alike(q, r), Recorded(o, r),
         r.hung = q.hung, r.interface = q.interface, r.monitor = q.monitor,
         r.evoQueue = q.evoQueue
  PROVE  Busy(g, s, o, r)
<1>1. Steered(r) BY SteeredAlike DEF Busy
<1>2. Heard(s, r) BY DEF Busy, Heard, Alike, Calm
<1> QED BY <1>1, <1>2 DEF Busy, Alike, Quiet

\* The question about the account a is closed by its answer.
Replied(q, a) == [Closed(q, "question") EXCEPT !.disabled = @ \ {a}]

LEMMA RepliedBusy ==
  ASSUME NEW g, NEW s, NEW o, NEW y, NEW q, NEW a, NEW r, r = Replied(q, a),
         Good(g, s, o, y, q), Listening(q), q.shown["question"] > 0
  PROVE  /\ Busy(g, s, o, r)
         /\ r.accounts = q.accounts /\ r.skipped = q.skipped /\ r.disabled = q.disabled \ {a}
         /\ ~r.leftover =>
              /\ r.buteoQueue = {} /\ r.evoQueue = {}
              /\ AtRisk(o, y, q) \subseteq Enabled(q) \union q.disabled
<1> DEFINE c == Closed(q, "question")
<1>0. "question" \in Messages BY DEF Messages
<1>5. r = [c EXCEPT !.disabled = @ \ {a}] BY DEF Replied
<1>1. Shaped(c) /\ Typed(g, c) BY <1>0, NotificationTyped DEF Good
<1>2. Shaped(r) /\ Typed(g, r)
  <2> HIDE DEF c
  <2>1. Shaped(r) BY <1>1, <1>5 DEF Shaped
  <2>2. Typed(g, r) BY <1>1, <1>5 DEF Shaped, Names, Typed
  <2> QED BY <2>1, <2>2
<1>3. /\ r.at = q.at /\ r.accounts = q.accounts /\ r.connected = q.connected
      /\ r.updates = q.updates /\ r.errors = q.errors /\ r.leftover = q.leftover
      /\ r.evoQueue = q.evoQueue /\ r.buteoQueue = q.buteoQueue /\ r.continues = q.continues
      /\ r.hung = q.hung /\ r.monitor = q.monitor /\ r.interface = q.interface
      /\ r.quits = q.quits /\ r.queued = q.queued /\ r.lock = q.lock
      /\ r.twice = q.twice /\ r.importLock = q.importLock
      /\ r.skipped = q.skipped /\ r.disabled = q.disabled \ {a}
  BY <1>5 DEF Good, Shaped, Names, Closed
<1>4. /\ r.shown["question"] = q.shown["question"] - 1
      /\ r.shown["start"] = q.shown["start"] /\ r.shown["failure"] = q.shown["failure"]
      /\ r.shown["complete"] = q.shown["complete"] /\ r.shown["later"] = q.shown["later"]
  <2>1. c.shown = [q.shown EXCEPT !["question"] = @ - 1] BY DEF Good, Shaped, Names, Closed
  <2>2. r.shown = c.shown BY <1>1, <1>5 DEF Shaped, Names
  <2> QED BY <2>1, <2>2 DEF Good, Typed, Messages
<1>6. q.lock /\ Stage(q) BY <1>0, ShownStage DEF Good
<1>7. ~q.queued BY <1>6 DEF Stage, Messages
<1>8. Steered(r)
  <2>1. Stage(r) BY <1>3, <1>4, <1>6, <1>7 DEF Stage
  <2> QED BY <1>3, <1>6, <2>1 DEF Good, Steered, Listening, Loops
<1>9. q.shown["question"] \in Nat BY <1>0 DEF Good, Typed
<1>10. (q.interface \/ q.hung) /\ Heard(s, r)
  BY <1>3, <1>4, <1>9 DEF Good, Awake, Heard, Calm
<1>11. ASSUME ~q.leftover
       PROVE  q.connected /\ Asks(o, y, q)
  <2>1. q.connected BY <1>9, <1>11 DEF Good, Traced, Tidy, Calm, Listening
  <2> QED BY <1>9, <1>11, <2>1 DEF Good, Traced, Phase, SyncsOld, SyncsNew, Emits, Calm, Listening
<1>12. Busy(g, s, o, r)
  BY <1>2, <1>3, <1>4, <1>8, <1>10, <1>11
  DEF Busy, Recorded, Good, Traced, Asks, Quiet, Listening
<1> QED BY <1>3, <1>11, <1>12 DEF Asks

\* An answer: the account is synced, or skipped as it cannot be, or kept as it is.
LEMMA QuestionRepliedGood ==
  ASSUME NEW g, NEW s, NEW o, NEW y, NEW q, NEW a, NEW accepted, NEW present,
         Good(g, s, o, y, q), Listening(q), q.shown["question"] > 0,
         a \in DOMAIN q.accounts, a \in g
  PROVE  /\ Good(g, s, o, y, AskAboutDisabledAccounts(
                   [Replied(q, a) EXCEPT !.accounts[a].syncEnabled = TRUE], accepted, present))
         /\ Good(g, s, o, y, AskAboutDisabledAccounts(
                   [Replied(q, a) EXCEPT !.skipped = @ \union {a}], accepted, present))
         /\ Good(g, s, o, y, AskAboutDisabledAccounts(
                   [Replied(q, a) EXCEPT !.accounts[a].removeAfterUpdate = FALSE],
                   accepted, present))
<1>0. PICK r : r = Replied(q, a) OBVIOUS
<1> DEFINE acc == r.accounts
           b == [r EXCEPT !.accounts[a].syncEnabled = TRUE]
           c == [r EXCEPT !.skipped = @ \union {a}]
           d == [r EXCEPT !.accounts[a].removeAfterUpdate = FALSE]
<1>1. /\ Busy(g, s, o, r)
      /\ acc = q.accounts /\ r.skipped = q.skipped /\ r.disabled = q.disabled \ {a}
      /\ ~r.leftover =>
           /\ r.buteoQueue = {} /\ r.evoQueue = {}
           /\ AtRisk(o, y, q) \subseteq Enabled(q) \union q.disabled
  BY <1>0, RepliedBusy
<1>2. acc \in Seq(AccountInfo) /\ a \in DOMAIN acc BY <1>1 DEF Busy, Typed
<1>3. ~r.leftover => AtRisk(o, y, r) \subseteq Enabled(r) \union r.disabled \union {a}
  <2>1. AtRisk(o, y, r) = AtRisk(o, y, q) /\ Enabled(r) = Enabled(q) BY <1>1, RiskSame
  <2> QED BY <1>1, <2>1
<1>4. Good(g, s, o, y, AskAboutDisabledAccounts(b, accepted, present))
  <2> DEFINE e == [acc EXCEPT ![a].syncEnabled = TRUE]
  <2>1. /\ e \in Seq(AccountInfo) /\ DOMAIN e = DOMAIN acc
        /\ \A i \in DOMAIN acc : e[i].oldSource = acc[i].oldSource
    BY <1>2, AccountSet
  <2>2. /\ \A i \in DOMAIN acc : acc[i].syncEnabled => e[i].syncEnabled
        /\ \A i \in DOMAIN acc : e[i].removeAfterUpdate => acc[i].removeAfterUpdate
        /\ e[a].syncEnabled
    BY <1>2 DEF AccountInfo
  <2>3. b = [r EXCEPT !.accounts = e] OBVIOUS
  <2> HIDE DEF e, b
  <2>4. Shaped(b) BY <1>1, <2>3 DEF Busy, Shaped
  <2>5. Typed(g, b) BY <1>1, <2>1, <2>3 DEF Busy, Shaped, Names, Typed
  <2>6. /\ Alike(r, b) /\ b.accounts = e /\ b.skipped = r.skipped /\ b.disabled = r.disabled
        /\ b.hung = r.hung /\ b.interface = r.interface /\ b.monitor = r.monitor
        /\ b.evoQueue = r.evoQueue
    BY <1>1, <2>3 DEF Busy, Shaped, Names, Alike
  <2>7. Busy(g, s, o, b)
    <3>1. Recorded(o, b) BY <1>1, <2>1, <2>6 DEF Busy, Recorded, Alike
    <3> QED BY <1>1, <2>4, <2>5, <2>6, <3>1, BusyAlike
  <2>8. AtRisk(o, y, b) \subseteq AtRisk(o, y, r) /\ Enabled(r) \subseteq Enabled(b) /\ a \in Enabled(b)
    BY <1>2, <2>1, <2>2, <2>6 DEF AtRisk, Enabled
  <2>9. ~b.leftover => /\ b.buteoQueue = {} /\ b.evoQueue = {}
                       /\ AtRisk(o, y, b) \subseteq Enabled(b) \union b.disabled
    BY <1>1, <1>3, <2>6, <2>8 DEF Alike
  <2> QED BY <2>7, <2>9, AskAboutDisabledAccountsGood
<1>5. Good(g, s, o, y, AskAboutDisabledAccounts(c, accepted, present))
  <2>1. Shaped(c) BY <1>1 DEF Busy, Shaped
  <2>2. Typed(g, c) BY <1>1 DEF Busy, Shaped, Names, Typed
  <2>3. /\ Alike(r, c) /\ c.accounts = r.accounts /\ c.skipped = r.skipped \union {a}
        /\ c.hung = r.hung /\ c.interface = r.interface /\ c.monitor = r.monitor
        /\ c.evoQueue = r.evoQueue /\ c.disabled = r.disabled
    BY <1>1 DEF Busy, Shaped, Names, Alike
  <2> HIDE DEF c
  <2>4. Busy(g, s, o, c)
    <3>1. Recorded(o, c) BY <1>1, <2>3 DEF Busy, Recorded, Alike
    <3> QED BY <1>1, <2>1, <2>2, <2>3, <3>1, BusyAlike
  <2>5. AtRisk(o, y, c) = AtRisk(o, y, r) \ {a} /\ Enabled(c) = Enabled(r)
    BY <2>3 DEF AtRisk, Enabled
  <2>6. ~c.leftover => /\ c.buteoQueue = {} /\ c.evoQueue = {}
                       /\ AtRisk(o, y, c) \subseteq Enabled(c) \union c.disabled
    BY <1>1, <1>3, <2>3, <2>5 DEF Alike
  <2> QED BY <2>4, <2>6, AskAboutDisabledAccountsGood
<1>6. Good(g, s, o, y, AskAboutDisabledAccounts(d, accepted, present))
  <2> DEFINE e == [acc EXCEPT ![a].removeAfterUpdate = FALSE]
  <2>1. /\ e \in Seq(AccountInfo) /\ DOMAIN e = DOMAIN acc
        /\ \A i \in DOMAIN acc : e[i].oldSource = acc[i].oldSource
    BY <1>2, AccountSet
  <2>2. /\ \A i \in DOMAIN acc : acc[i].syncEnabled => e[i].syncEnabled
        /\ \A i \in DOMAIN acc : e[i].removeAfterUpdate => acc[i].removeAfterUpdate
        /\ ~e[a].removeAfterUpdate
    BY <1>2 DEF AccountInfo
  <2>3. d = [r EXCEPT !.accounts = e] OBVIOUS
  <2> HIDE DEF e, d
  <2>4. Shaped(d) BY <1>1, <2>3 DEF Busy, Shaped
  <2>5. Typed(g, d) BY <1>1, <2>1, <2>3 DEF Busy, Shaped, Names, Typed
  <2>6. /\ Alike(r, d) /\ d.accounts = e /\ d.skipped = r.skipped /\ d.disabled = r.disabled
        /\ d.hung = r.hung /\ d.interface = r.interface /\ d.monitor = r.monitor
        /\ d.evoQueue = r.evoQueue
    BY <1>1, <2>3 DEF Busy, Shaped, Names, Alike
  <2>7. Busy(g, s, o, d)
    <3>1. Recorded(o, d) BY <1>1, <2>1, <2>6 DEF Busy, Recorded, Alike
    <3> QED BY <1>1, <2>4, <2>5, <2>6, <3>1, BusyAlike
  <2>8. AtRisk(o, y, d) \subseteq AtRisk(o, y, r) \ {a} /\ Enabled(r) \subseteq Enabled(d)
    BY <1>2, <2>1, <2>2, <2>6 DEF AtRisk, Enabled
  <2>9. ~d.leftover => /\ d.buteoQueue = {} /\ d.evoQueue = {}
                       /\ AtRisk(o, y, d) \subseteq Enabled(d) \union d.disabled
    BY <1>1, <1>3, <2>6, <2>8 DEF Alike
  <2> QED BY <2>7, <2>9, AskAboutDisabledAccountsGood
<1> QED BY <1>0, <1>4, <1>5, <1>6

\* Nobody answers the question: the step is given up without a word.
LEMMA QuestionClosedGood ==
  ASSUME NEW g, NEW s, NEW o, NEW y, NEW q,
         Good(g, s, o, y, q), Listening(q), q.shown["question"] > 0
  PROVE  Good(g, s, o, y, [Closed(q, "question") EXCEPT !.hung = TRUE])
<1> DEFINE c == Closed(q, "question")
           r == [c EXCEPT !.hung = TRUE]
           b == Replied(q, 0)
<1>1. Shaped(c) /\ Typed(g, c) BY NotificationTyped DEF Good, Messages
<1>2. Shaped(r) /\ Typed(g, r)
  <2> HIDE DEF c
  <2>1. Shaped(r) BY <1>1 DEF Shaped
  <2>2. Typed(g, r) BY <1>1 DEF Shaped, Names, Typed
  <2> QED BY <2>1, <2>2
<1>3. /\ Alike(c, r) /\ r.accounts = c.accounts /\ r.skipped = c.skipped
      /\ r.interface = c.interface /\ r.monitor = c.monitor /\ r.evoQueue = c.evoQueue /\ r.hung
  <2> HIDE DEF c
  <2> QED BY <1>1 DEF Shaped, Names, Alike
<1>4. /\ Alike(c, b) /\ b.accounts = c.accounts /\ b.skipped = c.skipped
      /\ b.interface = c.interface /\ b.monitor = c.monitor /\ b.evoQueue = c.evoQueue
      /\ b.hung = c.hung
  <2>1. b = [c EXCEPT !.disabled = @ \ {0}] BY DEF Replied
  <2> HIDE DEF c, b
  <2> QED BY <1>1, <2>1 DEF Shaped, Names, Alike
<1>5. Busy(g, s, o, b) /\ (~b.leftover => b.buteoQueue = {} /\ b.evoQueue = {})
  BY RepliedBusy
<1> HIDE DEF r, b, c
<1>6. Alike(b, r) /\ r.accounts = b.accounts /\ r.skipped = b.skipped
      /\ r.monitor = b.monitor /\ r.evoQueue = b.evoQueue
  BY <1>3, <1>4 DEF Alike
<1>7. Steered(r) BY <1>5, <1>6, SteeredAlike DEF Busy
<1>8. Awake(s, r) BY <1>3, <1>5, <1>6 DEF Busy, Awake, Heard
<1>9. Traced(o, y, r)
  <2>1. ~b.leftover => b.connected /\ b.at = "loop" BY <1>5 DEF Busy, Steered, Loops
  <2>2. ~b.leftover => Emits(o, y, r) BY <1>3, <1>5, <1>6 DEF Busy, Emits, Quiet, Calm, Alike
  <2> QED BY <1>5, <1>6, <2>1, <2>2 DEF Busy, Traced, Recorded, Tidy, Phase, Alike
<1> QED BY <1>2, <1>7, <1>8, <1>9 DEF Good, r, c

\* The monitor has synced an old source, or failed to.
LEMMA OldContactsSyncedGood ==
  ASSUME NEW g, NEW s, NEW o, NEW y, NEW q, NEW a, NEW accepted,
         Good(g, s, o, y, q), Listening(q), q.evoQueue # {}
  PROVE  LET r == [q EXCEPT !.evoQueue = @ \ {a}]
         IN  /\ Good(g, s, o, y, SyncOldContactsContinue(r, accepted))
             /\ Good(g, s, o, y, OnError(r, TRUE))
<1> DEFINE r == [q EXCEPT !.evoQueue = @ \ {a}]
<1>1. Shaped(r) BY DEF Good, Shaped
<1>2. Typed(g, r) BY DEF Good, Shaped, Names, Typed
<1>3. /\ Alike(q, r) /\ r.accounts = q.accounts /\ r.skipped = q.skipped
      /\ r.hung = q.hung /\ r.interface = q.interface /\ r.monitor = q.monitor
      /\ r.evoQueue = q.evoQueue \ {a}
  BY DEF Good, Shaped, Names, Alike
<1> HIDE DEF r
<1>4. (q.interface \/ q.hung) BY DEF Good, Awake, Heard, Calm
<1>5. Heard(s, r) BY <1>3, <1>4 DEF Good, Awake, Heard, Alike
<1>6. Steered(r) BY <1>3, <1>4, SteeredAlike DEF Good
<1>7. ASSUME ~q.leftover
      PROVE  q.connected /\ SyncsOld(o, y, q)
  <2>1. q.connected BY <1>7 DEF Good, Traced, Tidy, Calm, Listening
  <2> QED BY <1>7, <2>1 DEF Good, Traced, Phase, Asks, SyncsNew, Emits, Calm, Listening
<1>8. Busy(g, s, o, r)
  BY <1>1, <1>2, <1>3, <1>4, <1>5, <1>6, <1>7
  DEF Busy, Recorded, Good, Traced, SyncsOld, Quiet, Listening, Alike
<1>9. ~r.leftover => r.buteoQueue = {} /\ AtRisk(o, y, r) \subseteq Enabled(r)
  BY <1>3, <1>7, RiskSame DEF Alike, SyncsOld
<1> QED BY <1>8, <1>9, SyncOldContactsContinueGood, OnErrorGood DEF r

\* The accounts, once the profiles in made are there.
Profiled(acc, made) ==
  [a \in DOMAIN acc |-> [acc[a] EXCEPT !.syncProfile = @ \/ a \in made]]

LEMMA ProfilesMade ==
  ASSUME NEW acc \in Seq(AccountInfo), NEW made, NEW e, e = Profiled(acc, made)
  PROVE  /\ e \in Seq(AccountInfo) /\ DOMAIN e = DOMAIN acc
         /\ \A a \in DOMAIN acc : /\ e[a].oldSource = acc[a].oldSource
                                  /\ e[a].syncEnabled = acc[a].syncEnabled
                                  /\ e[a].removeAfterUpdate = acc[a].removeAfterUpdate
<1>1. ASSUME NEW a \in DOMAIN acc
      PROVE  /\ e[a] \in AccountInfo /\ e[a].oldSource = acc[a].oldSource
             /\ e[a].syncEnabled = acc[a].syncEnabled
             /\ e[a].removeAfterUpdate = acc[a].removeAfterUpdate
  <2> DEFINE b == acc[a].syncProfile \/ a \in made
  <2>1. acc[a] \in AccountInfo /\ b \in BOOLEAN OBVIOUS
  <2>2. e[a] = [acc[a] EXCEPT !.syncProfile = b] BY DEF Profiled
  <2> HIDE DEF b
  <2> QED BY <2>1, <2>2 DEF AccountInfo
<1>2. DOMAIN acc = 1 .. Len(acc) /\ Len(acc) \in Nat OBVIOUS
<1>3. e \in [1 .. Len(acc) -> AccountInfo] BY <1>1, <1>2 DEF Profiled
<1>4. e \in Seq(AccountInfo) BY <1>2, <1>3
<1> QED BY <1>1, <1>4 DEF Profiled

\* What continueUpdate leaves: e are the accounts with their profiles, those in started are
\* in Buteo's queue, and those that are refused are not.
Continued(q, e, started, refused) ==
  [q EXCEPT !.continues = FALSE, !.failed = {}, !.buteoQueue = started,
            !.accounts = e, !.skipped = @ \union refused]

LEMMA ContinueUpdateGood ==
  ASSUME NEW g, NEW s, NEW o, NEW y, NEW q, NEW t, NEW r, NEW e, NEW started, NEW refused,
         Good(g, s, o, y, q), q.continues,
         started \subseteq Enabled(q), refused \subseteq DOMAIN q.accounts,
         \A a \in started : t[a] # "none",
         e \in Seq(AccountInfo) /\ DOMAIN e = DOMAIN q.accounts,
         \A a \in DOMAIN q.accounts : /\ e[a].oldSource = q.accounts[a].oldSource
                                      /\ e[a].syncEnabled = q.accounts[a].syncEnabled
                                      /\ e[a].removeAfterUpdate = q.accounts[a].removeAfterUpdate,
         r = Continued(q, e, started, refused)
  PROVE  /\ Enabled(q) \subseteq started \union refused =>
              Good(g, t, o, y, [r EXCEPT !.updates = @ + IF started = {} THEN 1 ELSE 0])
         /\ Good(g, t, o, y, OnError(r, TRUE))
<1> DEFINE w == [r EXCEPT !.updates = @ + IF started = {} THEN 1 ELSE 0]
<1>1. /\ e \in Seq(AccountInfo) /\ DOMAIN e = DOMAIN q.accounts
      /\ \A a \in DOMAIN q.accounts : /\ e[a].oldSource = q.accounts[a].oldSource
                                      /\ e[a].syncEnabled = q.accounts[a].syncEnabled
                                      /\ e[a].removeAfterUpdate = q.accounts[a].removeAfterUpdate
  OBVIOUS
<1>2. r = [q EXCEPT !.continues = FALSE, !.failed = {}, !.buteoQueue = started,
                    !.accounts = e, !.skipped = @ \union refused]
  BY DEF Continued
<1>3. Shaped(r) BY <1>2 DEF Good, Shaped
<1>4. Typed(g, r) BY <1>1, <1>2 DEF Good, Shaped, Names, Typed, Enabled
<1>5. /\ r.at = q.at /\ r.connected = q.connected /\ r.accounts = e
      /\ r.updates = q.updates /\ r.errors = q.errors /\ r.leftover = q.leftover
      /\ r.evoQueue = q.evoQueue /\ r.buteoQueue = started /\ ~r.continues
      /\ r.hung = q.hung /\ r.monitor = q.monitor /\ r.interface = q.interface
      /\ r.quits = q.quits /\ r.queued = q.queued /\ r.lock = q.lock
      /\ r.twice = q.twice /\ r.importLock = q.importLock /\ r.shown = q.shown
      /\ r.skipped = q.skipped \union refused
  BY <1>2 DEF Good, Shaped, Names
<1>6. (q.interface \/ q.hung) /\ q.at \in Loops
  BY DEF Good, Awake, Heard, Calm, Steered, Typed
<1>7. ASSUME ~q.leftover
      PROVE  q.connected /\ q.at = "loop" /\ SyncsOld(o, y, q) /\ q.evoQueue = {}
  <2>1. q.connected /\ q.at = "loop"
    BY <1>6, <1>7 DEF Good, Traced, Tidy, Calm, Steered, Loops
  <2> QED BY <1>6, <1>7, <2>1 DEF Good, Traced, Phase, Asks, SyncsOld, SyncsNew, Emits, Calm
<1>8. Steered(r)
  <2>1. ~Fresh(q) BY <1>6 DEF Fresh
  <2>2. Stage(q) => Stage(r) BY <1>5 DEF Stage
  <2> QED BY <1>5, <2>1, <2>2 DEF Good, Steered
<1>9. Heard(t, r) BY <1>5, <1>6 DEF Good, Awake, Heard
<1>10. Recorded(o, r) BY <1>1, <1>5 DEF Good, Traced, Recorded
<1>11. Busy(g, t, o, r)
  BY <1>3, <1>4, <1>5, <1>6, <1>7, <1>8, <1>9, <1>10 DEF Busy, SyncsOld, Quiet
<1>12. ASSUME Enabled(q) \subseteq started \union refused
       PROVE  Good(g, t, o, y, w)
  <2>1. ~q.leftover => AtRisk(o, y, r) \subseteq started
    <3>1. AtRisk(o, y, r) \subseteq AtRisk(o, y, q) \ refused
      BY <1>1, <1>5 DEF AtRisk
    <3> QED BY <1>7, <1>12, <3>1 DEF SyncsOld
  <2>2. Shaped(w) BY <1>3 DEF Shaped
  <2>3. Typed(g, w) BY <1>3, <1>4 DEF Shaped, Names, Typed
  <2>4. /\ w.at = r.at /\ w.connected = r.connected /\ w.accounts = r.accounts
        /\ w.updates = r.updates + (IF started = {} THEN 1 ELSE 0)
        /\ w.errors = r.errors /\ w.leftover = r.leftover
        /\ w.evoQueue = r.evoQueue /\ w.buteoQueue = r.buteoQueue /\ w.continues = r.continues
        /\ w.hung = r.hung /\ w.monitor = r.monitor /\ w.interface = r.interface
        /\ w.quits = r.quits /\ w.queued = r.queued /\ w.lock = r.lock
        /\ w.twice = r.twice /\ w.importLock = r.importLock /\ w.shown = r.shown
        /\ w.skipped = r.skipped /\ w.failed = r.failed
    BY <1>3 DEF Shaped, Names
  <2> HIDE DEF w
  <2>5. Steered(w)
    <3>1. ~Fresh(r) BY <1>5, <1>6 DEF Fresh
    <3>2. Stage(r) => Stage(w) BY <2>4 DEF Stage
    <3> QED BY <1>8, <2>4, <3>1, <3>2 DEF Steered
  <2>6. r.updates \in Nat BY <1>4 DEF Typed
  <2>7. Awake(t, w)
    <3>1. Heard(t, w) BY <1>5, <1>6, <1>9, <2>4 DEF Heard
    <3> QED BY <1>5, <2>4, <2>6, <3>1 DEF Awake, Calm
  <2>8. Traced(o, y, w)
    <3>1. AtRisk(o, y, w) = AtRisk(o, y, r) BY <2>4, RiskSame
    <3>2. CASE started = {}
      <4>1. ~q.leftover => Emits(o, y, w)
        BY <1>5, <1>7, <2>1, <2>4, <3>1, <3>2 DEF Emits, Calm, Quiet, SyncsOld
      <4> QED BY <1>5, <1>7, <1>10, <2>4, <4>1 DEF Traced, Recorded, Tidy, Phase
    <3>3. CASE started # {}
      <4>1. w.updates = q.updates BY <1>5, <2>4, <2>6, <3>3
      <4>3. started \subseteq Enabled(w) BY <1>1, <1>5, <2>4 DEF Enabled
      <4>2. ~q.leftover => SyncsNew(o, y, w)
        BY <1>5, <1>7, <2>1, <2>4, <3>1, <3>3, <4>1, <4>3 DEF SyncsNew, Quiet, SyncsOld
      <4> QED BY <1>5, <1>7, <1>10, <2>4, <4>2 DEF Traced, Recorded, Tidy, Phase
    <3> QED BY <3>2, <3>3
  <2> QED BY <2>2, <2>3, <2>5, <2>7, <2>8 DEF Good
<1> QED BY <1>11, <1>12, OnErrorGood
\* What Buteo does with other accounts, and what it has synced, is no hindrance.
LEMMA SyncsElsewhereGood ==
  ASSUME NEW g, NEW s, NEW o, NEW y, NEW q, NEW t, NEW z,
         Good(g, s, o, y, q), ~q.continues, y \subseteq z,
         Listening(q) /\ q.interface =>
           \A b \in q.buteoQueue : s[b] # "none" => t[b] # "none"
  PROVE  Good(g, t, o, z, q)
<1>1. Heard(t, q) BY DEF Good, Awake, Heard, Calm, Listening
<1>2. Awake(t, q) BY <1>1 DEF Good, Awake
<1>3. AtRisk(o, z, q) \subseteq AtRisk(o, y, q) BY DEF AtRisk
<1>4. Phase(o, y, q) => Phase(o, z, q)
  BY <1>3 DEF Phase, Asks, SyncsOld, SyncsNew, Emits
<1>5. Traced(o, z, q) BY <1>3, <1>4 DEF Good, Traced
<1> QED BY <1>2, <1>5 DEF Good

\* Buteo is done with the account a.
OneLess(q, a, r) ==
  /\ r.at = q.at /\ r.connected = q.connected /\ r.quits = q.quits /\ r.queued = q.queued
  /\ r.lock = q.lock /\ r.importLock = q.importLock /\ r.twice = q.twice /\ r.shown = q.shown
  /\ r.updates = q.updates /\ r.errors = q.errors /\ r.leftover = q.leftover
  /\ r.evoQueue = q.evoQueue /\ r.continues = q.continues
  /\ r.hung = q.hung /\ r.monitor = q.monitor /\ r.interface = q.interface
  /\ r.buteoQueue = q.buteoQueue \ {a}

\* What it does with the others goes on.
OthersGoOn(g, s, t, a) == \A b \in g \ {a} : s[b] # "none" => t[b] # "none"

\* That account is synced or has failed, and no other has come to be at risk.
SeenTo(o, y, q, z, a, r) ==
  /\ AtRisk(o, z, r) \subseteq AtRisk(o, y, q)
  /\ r.leftover \/ a \in r.failed \/ a \notin AtRisk(o, z, r)
  /\ q.failed \subseteq r.failed /\ Enabled(q) \subseteq Enabled(r)

\* While nothing is left over, the accounts of Buteo's queue are what is waited for.
LEMMA QueueIsAwaited ==
  ASSUME NEW g, NEW s, NEW o, NEW y, NEW q, NEW a,
         Good(g, s, o, y, q), Listening(q), a \in q.buteoQueue, ~q.leftover
  PROVE  q.connected /\ q.at = "loop" /\ SyncsNew(o, y, q)
<1>1. q.connected BY DEF Good, Traced, Tidy, Calm, Listening
<1> QED BY <1>1
        DEF Good, Traced, Phase, Asks, SyncsOld, Emits, Calm, Listening, Steered, Loops

LEMMA OneLessGood ==
  ASSUME NEW g, NEW s, NEW o, NEW y, NEW q, NEW t, NEW z, NEW a, NEW r,
         Good(g, s, o, y, q), Listening(q), q.interface, a \in q.buteoQueue,
         OthersGoOn(g, s, t, a),
         Shaped(r), Typed(g, r), Recorded(o, r), OneLess(q, a, r),
         SeenTo(o, y, q, z, a, r)
  PROVE  /\ Busy(g, t, o, r)
         /\ ~r.leftover => /\ r.connected /\ r.at = "loop" /\ r.evoQueue = {}
                           /\ AtRisk(o, z, r) \subseteq r.buteoQueue \union r.failed
         /\ r.buteoQueue # {} => Good(g, t, o, z, r)
<1>1. ASSUME ~q.leftover
      PROVE  q.connected /\ q.at = "loop" /\ SyncsNew(o, y, q)
  BY <1>1, QueueIsAwaited
<1>2. Steered(r)
  <2>1. ~Fresh(q) BY DEF Fresh
  <2>2. Stage(q) => Stage(r) BY DEF Stage, OneLess
  <2> QED BY <2>1, <2>2 DEF Good, Steered, OneLess
<1>3. Heard(t, r)
  <2>1. q.buteoQueue \subseteq g BY DEF Good, Typed
  <2> QED BY <2>1 DEF Good, Awake, Heard, OneLess, OthersGoOn
<1>4. Busy(g, t, o, r)
  BY <1>1, <1>2, <1>3 DEF Busy, OneLess, SyncsNew, Quiet, Listening
<1>5. ~r.leftover => AtRisk(o, z, r) \subseteq r.buteoQueue \union r.failed
  BY <1>1 DEF SyncsNew, OneLess, SeenTo
<1>6. ASSUME r.buteoQueue # {} PROVE Good(g, t, o, z, r)
  <2>1. Awake(t, r) BY <1>3, <1>6 DEF Awake, Calm
  <2>2. ~r.leftover => SyncsNew(o, z, r)
    BY <1>1, <1>5, <1>6 DEF SyncsNew, OneLess, Quiet, SeenTo
  <2>3. Traced(o, z, r) BY <1>1, <2>2 DEF Traced, OneLess, Tidy, Phase
  <2> QED BY <1>2, <2>1, <2>3 DEF Good
<1> QED BY <1>1, <1>4, <1>5, <1>6 DEF SyncsNew, OneLess

\* A sync of Buteo ends: others are waited for, or the module is done, or some have failed.
LEMMA SyncEndedGood ==
  ASSUME NEW g, NEW s, NEW o, NEW y, NEW q, NEW t, NEW z, NEW a, NEW outcome \in Outcomes,
         Good(g, s, o, y, q), Listening(q), q.interface, a \in q.buteoQueue,
         OthersGoOn(g, s, t, a),
         y \subseteq z, outcome = "done" => a \in z, Known(q, a) => a \in DOMAIN q.accounts
  PROVE  Good(g, t, o, z, SyncEnded(q, a, outcome))
<1> DEFINE more == IF outcome = "done" \/ (outcome = "error" /\ ~q.accounts[a].syncEnabled)
                   THEN q.failed ELSE q.failed \union {a}
           r == Noted(q, a, outcome)
           w == [r EXCEPT !.errors = @ + 1]
<1>1. CASE ~Known(q, a) BY <1>1, CrashedGood DEF SyncEnded
<1>2. CASE Known(q, a)
  <2>0. r = [q EXCEPT !.buteoQueue = @ \ {a}, !.failed = more]
    BY DEF Good, Shaped, Names, Noted
  <2>10. more \in {q.failed, q.failed \union {a}} OBVIOUS
  <2>11. ASSUME ~q.leftover PROVE a \in more \/ outcome = "done"
    <3>1. a \in Enabled(q) BY <2>11, QueueIsAwaited DEF SyncsNew
    <3> QED BY <3>1 DEF Enabled, Outcomes
  <2> HIDE DEF more, r
  <2>1. Shaped(r) BY <2>0 DEF Good, Shaped
  <2>2. Typed(g, r) BY <1>2, <2>0, <2>10 DEF Good, Shaped, Names, Typed
  <2>3. /\ OneLess(q, a, r) /\ r.accounts = q.accounts /\ r.skipped = q.skipped
        /\ r.failed = more
    BY <2>0 DEF Good, Shaped, Names, OneLess
  <2>4. SeenTo(o, y, q, z, a, r)
    BY <2>3, <2>10, <2>11 DEF SeenTo, AtRisk, Enabled, OneLess
  <2>5. Recorded(o, r) /\ OneLess(q, a, r) BY <2>3 DEF Good, Traced, Recorded, OneLess
  <2>6. /\ Busy(g, t, o, r)
        /\ ~r.leftover => /\ r.connected /\ r.at = "loop" /\ r.evoQueue = {}
                          /\ AtRisk(o, z, r) \subseteq r.buteoQueue \union r.failed
        /\ r.buteoQueue # {} => Good(g, t, o, z, r)
    BY <2>1, <2>2, <2>4, <2>5, OneLessGood
  <2>7. CASE r.buteoQueue # {} BY <1>2, <2>6, <2>7 DEF SyncEnded, r
  <2>8. CASE r.buteoQueue = {} /\ r.failed = {}
    <3>1. Good(g, t, o, z, EmitUpdated(r)) BY <2>6, <2>8, EmitUpdatedGood
    <3> QED BY <1>2, <2>8, <3>1 DEF SyncEnded, r
  <2>9. CASE r.buteoQueue = {} /\ r.failed # {}
    <3>1. Shaped(w) BY <2>1 DEF Shaped
    <3>2. Typed(g, w) BY <2>1, <2>2 DEF Shaped, Names, Typed
    <3>3. /\ w.at = r.at /\ w.connected = r.connected /\ w.accounts = r.accounts
          /\ w.updates = r.updates /\ w.errors = r.errors + 1 /\ w.leftover = r.leftover
          /\ w.evoQueue = r.evoQueue /\ w.buteoQueue = {} /\ w.continues = r.continues
          /\ w.hung = r.hung /\ w.monitor = r.monitor /\ w.interface = r.interface
          /\ w.quits = r.quits /\ w.queued = r.queued /\ w.lock = r.lock
          /\ w.twice = r.twice /\ w.importLock = r.importLock /\ w.shown = r.shown
          /\ w.skipped = r.skipped
      BY <2>1, <2>9 DEF Shaped, Names
    <3>4. SyncEnded(q, a, outcome) = w BY <1>2, <2>9 DEF SyncEnded, r
    <3> HIDE DEF w
    <3>5. r.errors \in Nat /\ ~r.continues /\ r.at \in Loops BY <2>6 DEF Busy, Typed
    <3>6. Steered(w)
      <4>1. ~Fresh(r) BY <2>3 DEF Fresh, OneLess
      <4>2. Stage(r) => Stage(w) BY <3>3 DEF Stage
      <4> QED BY <2>6, <3>3, <4>1, <4>2 DEF Busy, Steered
    <3>7. Awake(t, w)
      <4>1. w.interface BY <2>3, <3>3 DEF OneLess
      <4>2. Heard(t, w) BY <2>6, <3>3, <4>1 DEF Busy, Heard
      <4> QED BY <3>3, <3>5, <4>2 DEF Awake
    <3>8. Traced(o, z, w)
      <4>1. ~r.leftover => Emits(o, z, w)
        BY <2>6, <3>3, <3>5 DEF Busy, Emits, Calm, Quiet
      <4> QED BY <2>5, <2>6, <3>3, <4>1 DEF Traced, Recorded, Tidy, Phase
    <3> QED BY <3>1, <3>2, <3>4, <3>6, <3>7, <3>8 DEF Good
  <2> QED BY <2>7, <2>8, <2>9
<1> QED BY <1>1, <1>2

\* A profile is deleted: its account is skipped, or the last one is, without a word.
LEMMA ForgottenGood ==
  ASSUME NEW g, NEW s, NEW o, NEW y, NEW q, NEW t, NEW a,
         Good(g, s, o, y, q), Listening(q), q.interface,
         OthersGoOn(g, s, t, a),
         Known(q, a) /\ a \in q.buteoQueue => a \in DOMAIN q.accounts
  PROVE  Good(g, t, o, y, Forgotten(q, a))
<1> DEFINE r == [q EXCEPT !.accounts[a].syncProfile = FALSE,
                          !.buteoQueue = @ \ {a}, !.skipped = @ \union {a}]
           w == [r EXCEPT !.importLock = FALSE, !.hung = TRUE]
           n == [q EXCEPT !.importLock = @ /\ q.buteoQueue # {}]
<1>1. CASE a \in q.buteoQueue /\ ~Known(q, a) BY <1>1, CrashedGood DEF Forgotten
<1>2. CASE a \in q.buteoQueue /\ Known(q, a)
  <2> DEFINE acc == q.accounts
             e == [acc EXCEPT ![a].syncProfile = FALSE]
  <2>0. acc \in Seq(AccountInfo) /\ a \in DOMAIN acc BY <1>2 DEF Good, Typed
  <2>1. /\ e \in Seq(AccountInfo) /\ DOMAIN e = DOMAIN acc
        /\ \A i \in DOMAIN acc : e[i].oldSource = acc[i].oldSource
    BY <2>0, AccountSet
  <2>2. \A i \in DOMAIN acc : /\ e[i].removeAfterUpdate => acc[i].removeAfterUpdate
                              /\ acc[i].syncEnabled => e[i].syncEnabled
    BY <2>0 DEF AccountInfo
  <2>3. r = [q EXCEPT !.accounts = e, !.buteoQueue = @ \ {a}, !.skipped = @ \union {a}] OBVIOUS
  <2> HIDE DEF e, r
  <2>4. Shaped(r) BY <2>3 DEF Good, Shaped
  <2>5. Typed(g, r) BY <2>1, <2>3 DEF Good, Shaped, Names, Typed
  <2>6. /\ OneLess(q, a, r) /\ r.accounts = e /\ r.skipped = q.skipped \union {a}
        /\ r.failed = q.failed
    BY <2>3 DEF Good, Shaped, Names, OneLess
  <2>7. SeenTo(o, y, q, y, a, r) BY <2>1, <2>2, <2>6 DEF SeenTo, AtRisk, Enabled
  <2>8. Recorded(o, r) BY <2>1, <2>6 DEF Good, Traced, Recorded, OneLess
  <2>9. /\ Busy(g, t, o, r)
        /\ ~r.leftover => /\ r.connected /\ r.at = "loop" /\ r.evoQueue = {}
        /\ r.buteoQueue # {} => Good(g, t, o, y, r)
    BY <1>2, <2>4, <2>5, <2>6, <2>7, <2>8, OneLessGood
  <2>10. CASE r.buteoQueue # {} BY <1>2, <2>9, <2>10 DEF Forgotten, r
  <2>11. CASE r.buteoQueue = {}
    <3>1. Shaped(w) BY <2>4 DEF Shaped
    <3>2. Typed(g, w) BY <2>4, <2>5 DEF Shaped, Names, Typed
    <3>3. /\ w.at = r.at /\ w.connected = r.connected /\ w.accounts = r.accounts
          /\ w.updates = r.updates /\ w.errors = r.errors /\ w.leftover = r.leftover
          /\ w.evoQueue = r.evoQueue /\ w.buteoQueue = {} /\ w.continues = r.continues
          /\ w.hung /\ w.monitor = r.monitor /\ w.interface = r.interface
          /\ w.quits = r.quits /\ w.queued = r.queued /\ w.lock = r.lock
          /\ w.twice = r.twice /\ ~w.importLock /\ w.shown = r.shown
          /\ w.skipped = r.skipped
      BY <2>4, <2>11 DEF Shaped, Names
    <3>4. Forgotten(q, a) = w BY <1>2, <2>11 DEF Forgotten, r
    <3> HIDE DEF w
    <3>5. Steered(w)
      <4>1. ~Fresh(r) BY <2>6 DEF Fresh, OneLess
      <4>2. ~r.queued /\ Stage(r) => Stage(w) BY <3>3 DEF Stage
      <4>3. r.queued => ~Stage(r) BY <2>6 DEF Stage, OneLess
      <4> QED BY <2>9, <3>3, <4>1, <4>2, <4>3 DEF Busy, Steered
    <3>6. Awake(t, w) BY <2>9, <3>3 DEF Busy, Awake, Heard
    <3>7. Traced(o, y, w)
      <4>1. ~r.leftover => Emits(o, y, w)
        BY <2>9, <3>3 DEF Busy, Emits, Calm, Quiet
      <4> QED BY <2>8, <2>9, <3>3, <4>1 DEF Traced, Recorded, Tidy, Phase
    <3> QED BY <3>1, <3>2, <3>4, <3>5, <3>6, <3>7 DEF Good
  <2> QED BY <2>10, <2>11
<1>3. CASE a \notin q.buteoQueue
  <2>1. Shaped(n) BY DEF Good, Shaped
  <2>2. Typed(g, n) BY DEF Good, Shaped, Names, Typed
  <2>3. SameButLock(q, n) /\ (n.importLock => q.importLock)
    BY DEF Good, Shaped, Names, SameButLock, SameImport
  <2>4. Forgotten(q, a) = n BY <1>3 DEF Forgotten
  <2> HIDE DEF n
  <2>5. Good(g, t, o, y, q)
    <3>1. q.buteoQueue \subseteq g BY DEF Good, Typed
    <3> QED BY <1>3, <3>1, SyncsElsewhereGood DEF Listening, OthersGoOn
  <2>6. Steered(n)
    <3>1. ~Fresh(q) BY DEF Fresh
    <3>2. Stage(q) => Stage(n) BY <2>3 DEF Stage, SameButLock, SameImport
    <3> QED BY <2>3, <3>1, <3>2 DEF Good, Steered, SameButLock, SameImport
  <2>7. Awake(t, n) /\ Traced(o, y, n)
    BY <2>3, <2>5, SameImportGood DEF Good, SameButLock
  <2> QED BY <2>1, <2>2, <2>4, <2>6, <2>7 DEF Good
<1> QED BY <1>1, <1>2, <1>3
\* A queued call reports the failure of the syncs.
LEMMA QueuedErrorGood ==
  ASSUME NEW g, NEW s, NEW o, NEW y, NEW q,
         Good(g, s, o, y, q), Listening(q), q.errors > 0
  PROVE  Good(g, s, o, y, OnError([q EXCEPT !.errors = @ - 1], TRUE))
<1> DEFINE r == [q EXCEPT !.errors = @ - 1]
<1>1. Shaped(r) BY DEF Good, Shaped
<1>2. q.errors \in Nat /\ q.errors - 1 \in Nat BY DEF Good, Typed
<1>3. Typed(g, r) BY <1>2 DEF Good, Shaped, Names, Typed
<1>4. /\ r.at = q.at /\ r.connected = q.connected /\ r.accounts = q.accounts
      /\ r.updates = q.updates /\ r.errors = q.errors - 1 /\ r.leftover = q.leftover
      /\ r.evoQueue = q.evoQueue /\ r.buteoQueue = q.buteoQueue /\ r.continues = q.continues
      /\ r.hung = q.hung /\ r.monitor = q.monitor /\ r.interface = q.interface
      /\ r.quits = q.quits /\ r.queued = q.queued /\ r.lock = q.lock
      /\ r.twice = q.twice /\ r.importLock = q.importLock /\ r.shown = q.shown
  BY DEF Good, Shaped, Names
<1> HIDE DEF r
<1>5. q.interface \/ q.hung BY DEF Good, Awake, Heard
<1>6. ASSUME ~q.leftover PROVE q.connected /\ q.errors = 1 /\ q.updates = 0 /\ Calm(q)
  <2>1. q.connected BY <1>6 DEF Good, Traced, Tidy, Listening
  <2> QED BY <1>6, <2>1
          DEF Good, Traced, Phase, Asks, SyncsOld, SyncsNew, Emits, Quiet, Listening
<1>7. Steered(r)
  <2>1. ~Fresh(q) BY <1>5 DEF Fresh
  <2>2. Stage(q) => Stage(r) BY <1>4 DEF Stage
  <2> QED BY <1>4, <2>1, <2>2 DEF Good, Steered
<1>8. Heard(s, r) BY <1>4, <1>5 DEF Good, Awake, Heard
<1>9. Busy(g, s, o, r)
  BY <1>1, <1>3, <1>4, <1>5, <1>6, <1>7, <1>8
  DEF Busy, Calm, Quiet, Recorded, Good, Traced, Listening
<1>10. Good(g, s, o, y, OnError(r, TRUE)) BY <1>9, OnErrorGood
<1> QED BY <1>10 DEF r

\* A timer fires: the module is done, or was done before the update was.
LEMMA UpdatedTimerGood ==
  ASSUME NEW g, NEW s, NEW o, NEW y, NEW q,
         Good(g, s, o, y, q), Listening(q), q.updates > 0
  PROVE  Good(g, s, o, y, EmitUpdated([q EXCEPT !.updates = @ - 1]))
<1> DEFINE r == [q EXCEPT !.updates = @ - 1]
<1>1. Shaped(r) BY DEF Good, Shaped
<1>2. q.updates \in Nat /\ q.updates - 1 \in Nat BY DEF Good, Typed
<1>3. Typed(g, r) BY <1>2 DEF Good, Shaped, Names, Typed
<1>4. /\ r.at = q.at /\ r.connected = q.connected /\ r.accounts = q.accounts
      /\ r.updates = q.updates - 1 /\ r.errors = q.errors /\ r.leftover = q.leftover
      /\ r.evoQueue = q.evoQueue /\ r.buteoQueue = q.buteoQueue /\ r.continues = q.continues
      /\ r.hung = q.hung /\ r.monitor = q.monitor /\ r.interface = q.interface
      /\ r.quits = q.quits /\ r.queued = q.queued /\ r.lock = q.lock
      /\ r.twice = q.twice /\ r.importLock = q.importLock /\ r.shown = q.shown
      /\ r.skipped = q.skipped
  BY DEF Good, Shaped, Names
<1> HIDE DEF r
<1>5. q.interface \/ q.hung BY DEF Good, Awake, Heard
<1>6. Steered(r)
  <2>1. ~Fresh(q) BY <1>5 DEF Fresh
  <2>2. Stage(q) => Stage(r) BY <1>4 DEF Stage
  <2> QED BY <1>4, <2>1, <2>2 DEF Good, Steered
<1>7. Heard(s, r) BY <1>4, <1>5 DEF Good, Awake, Heard
<1>8. Recorded(o, r) BY <1>4 DEF Good, Traced, Recorded
<1>9. CASE q.connected \/ q.leftover
  <2>1. ASSUME ~q.leftover
        PROVE  q.updates = 1 /\ q.errors = 0 /\ Calm(q) /\ AtRisk(o, y, q) = {}
    BY <1>9, <2>1
    DEF Good, Traced, Phase, Asks, SyncsOld, SyncsNew, Emits, Quiet, Listening
  <2>2. Busy(g, s, o, r)
    BY <1>1, <1>3, <1>4, <1>5, <1>6, <1>7, <1>8, <1>9, <2>1 DEF Busy, Calm, Quiet, Listening
  <2>3. ~r.leftover => r.evoQueue = {} /\ r.buteoQueue = {} /\ AtRisk(o, y, r) = {}
    BY <1>4, <2>1, RiskSame DEF Calm
  <2>4. Good(g, s, o, y, EmitUpdated(r)) BY <2>2, <2>3, EmitUpdatedGood
  <2> QED BY <2>4 DEF r
<1>10. CASE ~q.connected /\ ~q.leftover
  <2>1. EmitUpdated(r) = r BY <1>4, <1>10 DEF EmitUpdated
  <2>2. Awake(s, r) BY <1>4, <1>7, <1>10 DEF Awake
  <2>3. Tidy(q) BY <1>10 DEF Good, Traced, Listening
  <2>4. Tidy(r) BY <1>2, <1>4, <2>3 DEF Tidy, Calm
  <2>5. q.at = "loop" BY <1>10, <2>3 DEF Tidy
  <2>6. Traced(o, y, r) BY <1>4, <1>8, <1>10, <2>4, <2>5 DEF Traced
  <2> QED BY <1>1, <1>3, <1>6, <2>1, <2>2, <2>6 DEF Good, r
<1> QED BY <1>9, <1>10

\* One account more is read.
LEMMA ReadAccountGood ==
  ASSUME NEW g, NEW s, NEW o, NEW y, NEW q, NEW e \in AccountInfo,
         Good(g, s, o, y, q), q.at = "prepare",
         Len(q.accounts) + 1 \in g, e.oldSource \in {"none", o[Len(q.accounts) + 1]}
  PROVE  Good(g, s, o, y, [q EXCEPT !.accounts = Append(@, e)])
<1> DEFINE r == [q EXCEPT !.accounts = Append(@, e)]
           acc == q.accounts
           longer == Append(acc, e)
<1>0. acc \in Seq(AccountInfo) BY DEF Good, Typed
<1>1. /\ longer \in Seq(AccountInfo) /\ DOMAIN longer = DOMAIN acc \union {Len(acc) + 1}
      /\ \A a \in DOMAIN acc : longer[a] = acc[a]
      /\ longer[Len(acc) + 1] = e
  BY <1>0
<1>2. r = [q EXCEPT !.accounts = longer] OBVIOUS
<1> HIDE DEF r, longer
<1>3. Shaped(r) BY <1>2 DEF Good, Shaped
<1>4. ~q.connected BY DEF Good, Steered
<1>5. Typed(g, r) BY <1>1, <1>2, <1>4 DEF Good, Shaped, Names, Typed
<1>6. /\ r.at = q.at /\ r.connected = q.connected
      /\ r.accounts = longer
      /\ r.updates = q.updates /\ r.errors = q.errors /\ r.leftover = q.leftover
      /\ r.evoQueue = q.evoQueue /\ r.buteoQueue = q.buteoQueue /\ r.continues = q.continues
      /\ r.hung = q.hung /\ r.monitor = q.monitor /\ r.interface = q.interface
      /\ r.quits = q.quits /\ r.queued = q.queued /\ r.lock = q.lock
      /\ r.twice = q.twice /\ r.importLock = q.importLock /\ r.shown = q.shown
  BY <1>2 DEF Good, Shaped, Names
<1>7. Steered(r)
  <2>1. ~Fresh(q) BY DEF Fresh
  <2>2. Stage(q) => Stage(r) BY <1>6 DEF Stage
  <2> QED BY <1>6, <2>1, <2>2 DEF Good, Steered
<1>8. Awake(s, r) BY <1>6 DEF Good, Awake, Heard, Calm
<1>9. Recorded(o, r) BY <1>1, <1>6 DEF Good, Traced, Recorded
<1>10. Traced(o, y, r) BY <1>4, <1>6, <1>9 DEF Good, Traced, Tidy, Calm, Loops
<1> QED BY <1>3, <1>5, <1>7, <1>8, <1>10 DEF Good, r

\* The old sources go, whatever they are then; the accounts' service is disabled.
LEMMA RemoveSourcesGood ==
  ASSUME NEW g, NEW s, NEW o, NEW y, NEW q, NEW e, NEW z,
         Good(g, s, o, y, q), q.at = "commit",
         e \in Seq(AccountInfo) /\ DOMAIN e = DOMAIN q.accounts
  PROVE  Good(g, s, z, y, [q EXCEPT !.at = "remove", !.accounts = e])
<1> DEFINE r == [q EXCEPT !.at = "remove", !.accounts = e]
<1>1. Shaped(r) BY DEF Good, Shaped
<1>2. ~q.connected BY DEF Good, Steered
<1>3. Typed(g, r) BY <1>2 DEF Good, Shaped, Names, Typed, Loops
<1>4. /\ r.at = "remove" /\ r.connected = q.connected /\ r.accounts = e
      /\ r.updates = q.updates /\ r.errors = q.errors /\ r.leftover = q.leftover
      /\ r.evoQueue = q.evoQueue /\ r.buteoQueue = q.buteoQueue /\ r.continues = q.continues
      /\ r.hung = q.hung /\ r.monitor = q.monitor /\ r.interface = q.interface
      /\ r.quits = q.quits /\ r.queued = q.queued /\ r.lock = q.lock
      /\ r.twice = q.twice /\ r.importLock = q.importLock /\ r.shown = q.shown
  BY DEF Good, Shaped, Names
<1> HIDE DEF r
<1>5. Steered(r)
  <2>1. ~Fresh(q) BY DEF Fresh
  <2>2. Stage(q) => Stage(r) BY <1>4 DEF Stage
  <2> QED BY <1>4, <2>1, <2>2 DEF Good, Steered, Loops
<1>6. Awake(s, r) BY <1>4 DEF Good, Awake, Heard, Calm, Loops
<1>7. Traced(z, y, r) BY <1>2, <1>4 DEF Good, Traced, Tidy, Calm, Recorded, Loops
<1> QED BY <1>1, <1>3, <1>5, <1>6, <1>7 DEF Good, r

\* commit() returns: ABUpdate waits for the end to be acknowledged.
LEMMA CommitGood ==
  ASSUME NEW g, NEW s, NEW o, NEW y, NEW q,
         Good(g, s, o, y, q), q.at = "remove"
  PROVE  Good(g, s, o, y,
              Show([q EXCEPT !.at = "loop", !.accounts = << >>, !.importLock = FALSE,
                             !.updates = @ + 1], "complete"))
<1> DEFINE r == [q EXCEPT !.at = "loop", !.accounts = << >>, !.importLock = FALSE,
                          !.updates = @ + 1]
           w == Show(r, "complete")
<1>1. Shaped(r) BY DEF Good, Shaped
<1>2. ~q.connected /\ q.updates \in Nat BY DEF Good, Steered, Typed
<1>3. Typed(g, r) BY <1>2 DEF Good, Shaped, Names, Typed, Loops
<1>4. /\ r.at = "loop" /\ r.connected = q.connected /\ r.accounts = << >>
      /\ r.updates = q.updates + 1 /\ r.errors = q.errors /\ r.leftover = q.leftover
      /\ r.evoQueue = q.evoQueue /\ r.buteoQueue = q.buteoQueue /\ r.continues = q.continues
      /\ r.hung = q.hung /\ r.monitor = q.monitor /\ r.interface = q.interface
      /\ r.quits = q.quits /\ r.queued = q.queued /\ r.lock = q.lock
      /\ r.twice = q.twice /\ ~r.importLock /\ r.shown = q.shown
  BY DEF Good, Shaped, Names
<1> HIDE DEF r
<1>5. Shaped(w) /\ Typed(g, w) BY <1>1, <1>3, NotificationTyped DEF Messages
<1>6. /\ w.at = r.at /\ w.connected = r.connected /\ w.accounts = r.accounts
      /\ w.updates = r.updates /\ w.errors = r.errors /\ w.leftover = r.leftover
      /\ w.evoQueue = r.evoQueue /\ w.buteoQueue = r.buteoQueue /\ w.continues = r.continues
      /\ w.hung = r.hung /\ w.monitor = r.monitor /\ w.interface = r.interface
      /\ w.quits = r.quits /\ w.queued = r.queued /\ w.lock = r.lock
      /\ w.twice = r.twice /\ w.importLock = r.importLock
  BY <1>1 DEF Shaped, Names, Show
<1>7. /\ w.shown["complete"] = r.shown["complete"] + 1
      /\ w.shown["start"] = r.shown["start"] /\ w.shown["failure"] = r.shown["failure"]
      /\ w.shown["question"] = r.shown["question"] /\ w.shown["later"] = r.shown["later"]
  BY <1>1, <1>3 DEF Shaped, Names, Typed, Show, Messages
<1>8. q.shown["complete"] \in Nat BY DEF Good, Typed, Messages
<1> HIDE DEF w
<1>9. Steered(w)
  <2>1. ~Fresh(q) BY DEF Fresh
  <2>2. Stage(q) => Stage(w) BY <1>2, <1>4, <1>6, <1>7 DEF Stage
  <2> QED BY <1>2, <1>4, <1>6, <2>1, <2>2 DEF Good, Steered, Loops
<1>10. Awake(s, w)
  <2>1. q.hung \/ q.interface BY DEF Good, Awake, Heard
  <2> QED BY <1>2, <1>4, <1>6, <1>7, <2>1 DEF Good, Awake, Heard, Loops
<1>11. Traced(o, y, w)
  <2>1. Recorded(o, w) BY <1>4, <1>6 DEF Recorded
  <2>2. ~q.leftover => Tidy(q) BY DEF Good, Traced, Loops
  <2>3. ~q.leftover => Tidy(w) BY <1>2, <1>4, <1>6, <1>7, <1>8, <2>2 DEF Tidy, Calm
  <2> QED BY <1>2, <1>4, <1>6, <2>1, <2>3 DEF Traced
<1> QED BY <1>5, <1>9, <1>10, <1>11 DEF Good, w, r

\* A process that was just started, and one that is not running.
LEMMA StartedGood ==
  ASSUME NEW g, NEW s, NEW o, NEW y, NEW i \in {"no", "asked"}
  PROVE  Good(g, s, o, y, Started(i)) /\ Good(g, s, o, y, NotRunning)
<1> DEFINE q == Started(i)
           b == Started("no")
           r == [b EXCEPT !.at = "off"]
<1>1. ASSUME NEW j \in {"no", "asked"} PROVE Good(g, s, o, y, Started(j))
  <2> DEFINE c == Started(j)
  <2>1. Shaped(c) BY DEF Shaped, Names, Started
  <2>2. /\ c.at = "loop" /\ ~c.quits /\ ~c.lock /\ ~c.queued /\ ~c.connected /\ c.internet = j
        /\ c.shown = [m \in Messages |-> 0] /\ ~c.importLock /\ c.accounts = << >>
        /\ c.disabled = {} /\ c.evoQueue = {} /\ c.buteoQueue = {} /\ c.failed = {}
        /\ ~c.interface /\ c.monitor = "null" /\ ~c.continues /\ c.updates = 0 /\ c.errors = 0
        /\ ~c.hung /\ c.unseen = [m \in Messages |-> 0]
    BY DEF Started
  <2> HIDE DEF c
  <2>3. Typed(g, c) BY <2>2 DEF Typed, Loops, Messages
  <2>4. Steered(c) BY <2>2 DEF Steered, Fresh
  <2>5. Awake(s, c) BY <2>2 DEF Awake, Heard, Calm, Messages
  <2>6. Traced(o, y, c) BY <2>2 DEF Traced, Recorded, Tidy, Calm, Messages
  <2> QED BY <2>1, <2>3, <2>4, <2>5, <2>6 DEF Good, c
<1>2. Good(g, s, o, y, r)
  <2>1. Good(g, s, o, y, b) BY <1>1
  <2>2. ~b.quits /\ ~b.connected /\ ~b.importLock /\ ~b.continues /\ ~b.interface
    BY DEF Started
  <2> HIDE DEF b
  <2>3. Shaped(r) BY <2>1 DEF Good, Shaped
  <2>4. Typed(g, r) BY <2>1 DEF Good, Shaped, Names, Typed
  <2>5. /\ r.at = "off" /\ r.connected = b.connected
        /\ r.updates = b.updates /\ r.errors = b.errors
        /\ r.evoQueue = b.evoQueue /\ r.buteoQueue = b.buteoQueue /\ r.continues = b.continues
        /\ r.hung = b.hung /\ r.monitor = b.monitor /\ r.interface = b.interface
        /\ r.quits = b.quits /\ r.importLock = b.importLock /\ r.shown = b.shown
    BY <2>1 DEF Good, Shaped, Names
  <2> HIDE DEF r
  <2>6. Steered(r) BY <2>2, <2>5 DEF Steered, Loops
  <2>7. Awake(s, r) BY <2>1, <2>2, <2>5 DEF Good, Awake, Heard, Calm, Loops
  <2>8. Traced(o, y, r) BY <2>5 DEF Traced, Recorded, Loops
  <2> QED BY <2>3, <2>4, <2>6, <2>7, <2>8 DEF Good
<1> QED BY <1>1, <1>2 DEF NotRunning
-----------------------------------------------------------------------------
(***************************************************************************)
(* The specification                                                       *)
(***************************************************************************)
\* The accounts, their sources and what Buteo does are what they may be.
World ==
  /\ google \subseteq Nat \ {0}
  /\ key \in BOOLEAN /\ evo \subseteq google /\ old \in [google -> Sources]
  /\ new \subseteq google /\ profile \subseteq google /\ synced \subseteq google
  /\ sync \in [google -> {"none", "queued", "active"}]

IInv == World /\ Good(google, sync, old, synced, p)

\* A set of numbers has its least number.
LEMMA MinIsMember ==
  ASSUME NEW S \in SUBSET Nat, S # {}
  PROVE  Min(S) \in S
<1>1. PICK m \in S : \A n \in S : ~(<<n, m>> \in OpToRel(<, Nat))
  BY NatLessThanWellFounded, WFMin, Zenon
<1>2. \A n \in S : ~(n < m)
  BY <1>1 DEF OpToRel
<1>3. \A n \in S : m <= n BY <1>2
<1> QED BY <1>3 DEF Min

\* An account whose index is in range is one that was read.
LEMMA KnownAccount ==
  ASSUME IInv, NEW a \in google, Known(p, a)
  PROVE  a \in DOMAIN p.accounts
<1>1. p.accounts \in Seq(AccountInfo) /\ a \in Nat \ {0} BY DEF IInv, World, Good, Typed
<1> QED BY <1>1 DEF Known

LEMMA InitInv == Init => IInv
<1> SUFFICES ASSUME Init PROVE IInv OBVIOUS
<1>1. World
  <2>1. PICK n \in 0 .. MaxAccounts : google = 1 .. n BY DEF Init
  <2>2. google \subseteq Nat \ {0} BY <2>1, BoundsAssumption
  <2> QED BY <2>2 DEF Init, World
<1>2. PICK i \in {"no", "asked"} : p = Started(i) BY DEF Init
<1>3. Good(google, sync, old, synced, p) BY <1>2, StartedGood
<1> QED BY <1>1, <1>3 DEF IInv

\* The handlers that change p only, and leave it good.
LEMMA ProcessInv ==
  ASSUME IInv, Good(google, sync, old, synced, p'), key' \in BOOLEAN,
         UNCHANGED <<google, evo, old, buteo>>
  PROVE  IInv'
BY DEF IInv, World, buteo

LEMMA BeginInv ==
  ASSUME IInv, NEW q, NEW online, NEW reached,
         Good(google, sync, old, synced, q), Listening(q), Begin(q, online, reached),
         UNCHANGED <<google, evo, old, buteo>>
  PROVE  IInv'
<1>1. PICK needed : /\ p' = StartUpdate(q, needed, online, reached)
                    /\ key' = (key \/ (~q.lock /\ ~needed))
  BY DEF Begin
<1>2. Good(google, sync, old, synced, p') BY <1>1, StartUpdateGood
<1>3. key' \in BOOLEAN BY <1>1
<1> QED BY <1>2, <1>3, ProcessInv

\* Somebody asks for an update, and the wait for a connection.
LEMMA StartsInv ==
  ASSUME IInv,
         \/ Launch \/ StartCalled \/ StartWhenConnected
         \/ OnlineStateChanged \/ ContinueUpdateWithInternet
  PROVE  IInv'
<1> DEFINE n == [p EXCEPT !.internet = "no"]
           w == [p EXCEPT !.internet = "waits"]
           t == [p EXCEPT !.internet = "timer"]
<1>0. Good(google, sync, old, synced, p) BY DEF IInv
<1>1. ASSUME Listens
      PROVE  /\ Good(google, sync, old, synced, n) /\ Listening(n)
             /\ Good(google, sync, old, synced, w)
             /\ Good(google, sync, old, synced, t)
  <2>1. Listening(p) BY <1>1 DEF Listens, Listening
  <2> QED BY <1>0, <2>1, InternetGood
<1>2. key \in BOOLEAN BY DEF IInv, World
<1>3. CASE Launch
  <2>1. PICK i \in {"no", "asked"} : p' = Started(i) BY <1>3 DEF Launch
  <2>2. Good(google, sync, old, synced, p') BY <2>1, StartedGood
  <2> QED BY <1>2, <1>3, <2>2, ProcessInv DEF Launch, settings, buteo
<1>4. CASE StartCalled
  <2>1. Listening(p) BY <1>4 DEF StartCalled, Listens, Listening
  <2>2. PICK online, reached \in BOOLEAN : Begin(p, online, reached) BY <1>4 DEF StartCalled
  <2> QED BY <1>0, <1>4, <2>1, <2>2, BeginInv DEF StartCalled
<1>5. CASE StartWhenConnected
  <2>1. CASE Begin(n, TRUE, FALSE)
    <3> HIDE DEF n
    <3> QED BY <1>1, <1>5, <2>1, BeginInv DEF StartWhenConnected
  <2>2. CASE p' = w /\ UNCHANGED key
    <3> HIDE DEF w
    <3> QED BY <1>1, <1>2, <1>5, <2>2, ProcessInv DEF StartWhenConnected
  <2> QED BY <1>5, <2>1, <2>2 DEF StartWhenConnected
<1>6. CASE OnlineStateChanged
  <2>1. p' = t BY <1>6 DEF OnlineStateChanged
  <2> HIDE DEF t
  <2> QED BY <1>1, <1>2, <1>6, <2>1, ProcessInv DEF OnlineStateChanged, settings
<1>7. CASE ContinueUpdateWithInternet
  <2>1. CASE Begin(n, TRUE, FALSE)
    <3> HIDE DEF n
    <3> QED BY <1>1, <1>7, <2>1, BeginInv DEF ContinueUpdateWithInternet
  <2>2. CASE p' = w /\ UNCHANGED key
    <3> HIDE DEF w
    <3> QED BY <1>1, <1>2, <1>7, <2>2, ProcessInv DEF ContinueUpdateWithInternet
  <2> QED BY <1>7, <2>1, <2>2 DEF ContinueUpdateWithInternet
<1> QED BY <1>3, <1>4, <1>5, <1>6, <1>7

\* The answers of the user.
LEMMA AnswersInv ==
  ASSUME IInv, Answers
  PROVE  IInv'
<1>1. Good(google, sync, old, synced, p) /\ key \in BOOLEAN BY DEF IInv, World
<1>2. Listens => Listening(p) BY DEF Listens, Listening
<1>9. \A m \in Messages : OnScreen(p, m) => p.shown[m] > 0
  BY <1>1 DEF Good, Typed, OnScreen
<1>10. /\ {"start", "complete", "later"} \subseteq Messages
       /\ {"failure", "answered", "question"} \subseteq Messages
  BY DEF Messages
<1>3. ASSUME NEW m \in {"start", "complete", "later"}, MessageClosed(m) PROVE IInv'
  <2>1. PICK reached \in BOOLEAN : p' = UpdateNextModule(Closed(p, m), reached)
    BY <1>3 DEF MessageClosed
  <2>2. Good(google, sync, old, synced, p')
    BY <1>1, <1>2, <1>3, <1>9, <1>10, <2>1, MessageClosedGood DEF MessageClosed
  <2> QED BY <1>1, <1>3, <2>2, ProcessInv DEF MessageClosed, settings
<1>4. CASE Retry
  <2>1. PICK reached \in BOOLEAN :
          p' = UpdateNextModule([Answered(p) EXCEPT !.queued = TRUE], reached)
    BY <1>4 DEF Retry
  <2>2. Good(google, sync, old, synced, p')
    BY <1>1, <1>2, <1>4, <1>9, <1>10, <2>1, RetryGood DEF Retry
  <2> QED BY <1>1, <1>4, <2>2, ProcessInv DEF Retry, settings
<1>5. CASE NoRetry
  <2>1. Good(google, sync, old, synced, p')
    BY <1>1, <1>2, <1>5, <1>9, <1>10, PutOffGood DEF NoRetry
  <2> QED BY <1>1, <1>5, <2>1, ProcessInv DEF NoRetry, settings
<1>6. ASSUME NEW m \in {"failure", "answered"}, FailureClosed(m) PROVE IInv'
  <2>1. Good(google, sync, old, synced, p')
    BY <1>1, <1>2, <1>6, <1>9, <1>10, PutOffGood DEF FailureClosed
  <2> QED BY <1>1, <1>6, <2>1, ProcessInv DEF FailureClosed, settings
<1>7. CASE QuestionReplied
  <2> DEFINE a == Min(p.disabled)
  <2>1. CASE p.disabled = {} \/ ~Known(p, a)
    <3>1. p' = Crashed(p) /\ UNCHANGED <<google, key, old, buteo, evo>>
      BY <1>7, <2>1 DEF QuestionReplied
    <3>2. Good(google, sync, old, synced, p') BY <1>1, <1>2, <1>7, <3>1, CrashedGood
          DEF QuestionReplied
    <3> QED BY <1>1, <3>1, <3>2, ProcessInv
  <2>2. CASE p.disabled # {} /\ Known(p, a)
    <3>1. a \in google
      <4>1. p.disabled \subseteq google /\ google \subseteq Nat BY DEF IInv, World, Good, Typed
      <4> QED BY <2>2, <4>1, MinIsMember
    <3>2. a \in DOMAIN p.accounts BY <2>2, <3>1, KnownAccount
    <3> HIDE DEF a
    <3>3. PICK accepted, present, enabled \in BOOLEAN :
            \/ /\ p' = AskAboutDisabledAccounts(
                         IF enabled THEN [Replied(p, a) EXCEPT !.accounts[a].syncEnabled = TRUE]
                                    ELSE [Replied(p, a) EXCEPT !.skipped = @ \union {a}],
                         accepted, present)
               /\ evo' = IF enabled THEN evo \union {a} ELSE evo
            \/ /\ p' = AskAboutDisabledAccounts(
                         [Replied(p, a) EXCEPT !.accounts[a].removeAfterUpdate = FALSE],
                         accepted, present)
               /\ UNCHANGED evo
      BY <1>7, <2>2 DEF QuestionReplied, Replied, a
    <3>4. evo' \subseteq google BY <3>1, <3>3 DEF IInv, World
    <3>5. Good(google, sync, old, synced, p')
      <4>1. p.shown["question"] > 0 /\ Listening(p)
        BY <1>2, <1>7, <1>9, <1>10 DEF QuestionReplied
      <4>2. /\ Good(google, sync, old, synced, AskAboutDisabledAccounts(
                       [Replied(p, a) EXCEPT !.accounts[a].syncEnabled = TRUE],
                       accepted, present))
            /\ Good(google, sync, old, synced, AskAboutDisabledAccounts(
                       [Replied(p, a) EXCEPT !.skipped = @ \union {a}], accepted, present))
            /\ Good(google, sync, old, synced, AskAboutDisabledAccounts(
                       [Replied(p, a) EXCEPT !.accounts[a].removeAfterUpdate = FALSE],
                       accepted, present))
        BY <1>1, <3>1, <3>2, <4>1, QuestionRepliedGood
      <4>3. CASE enabled BY <3>3, <4>2, <4>3
      <4>4. CASE ~enabled BY <3>3, <4>2, <4>4
      <4> QED BY <4>3, <4>4
    <3> QED BY <1>7, <3>4, <3>5 DEF QuestionReplied, IInv, World, buteo
  <2> QED BY <2>1, <2>2
<1>8. CASE QuestionClosed
  <2>1. Good(google, sync, old, synced, p')
    BY <1>1, <1>2, <1>8, <1>9, <1>10, QuestionClosedGood DEF QuestionClosed
  <2> QED BY <1>1, <1>8, <2>1, ProcessInv DEF QuestionClosed, settings
<1> QED BY <1>3, <1>4, <1>5, <1>6, <1>7, <1>8 DEF Answers

\* The loop of continueUpdate: what it starts is with Buteo, and the rest is refused.
LEMMA ContinueUpdateInv ==
  ASSUME IInv, ContinueUpdate
  PROVE  IInv'
<1>0. Good(google, sync, old, synced, p) /\ p.continues BY DEF IInv, ContinueUpdate
<1> DEFINE acc == p.accounts
           missing == {a \in DOMAIN acc : ~acc[a].syncProfile}
           reached(good) == {a \in DOMAIN acc : (missing \ good) \cap (1 .. a) = {}}
           startable(good) == {a \in reached(good) \cap good :
                                 acc[a].syncEnabled /\ (a \in missing \union profile)}
           left(good) == {a \in reached(good) \ startable(good) : acc[a].syncEnabled}
<1>1. PICK good \in SUBSET DOMAIN acc :
        LET q == [p EXCEPT !.continues = FALSE, !.failed = {}, !.buteoQueue = startable(good),
                           !.accounts = [a \in DOMAIN acc |->
                             [acc[a] EXCEPT !.syncProfile = @ \/ a \in reached(good) \cap missing]],
                           !.skipped = @ \union left(good)]
        IN  /\ p' = IF missing \subseteq good
                    THEN [q EXCEPT !.updates = @ + IF startable(good) = {} THEN 1 ELSE 0]
                    ELSE OnError(q, TRUE)
            /\ profile' = profile \union (reached(good) \cap missing)
            /\ sync' = [a \in google |->
                          IF a \in startable(good) /\ sync[a] = "none" THEN "queued" ELSE sync[a]]
  BY DEF ContinueUpdate
<1> DEFINE made == reached(good) \cap missing
           e == Profiled(acc, made)
<1>2. PICK started, refused : started = startable(good) /\ refused = left(good) OBVIOUS
<1>3. acc \in Seq(AccountInfo) /\ DOMAIN acc \subseteq google BY <1>0 DEF Good, Typed
<1>4. /\ e \in Seq(AccountInfo) /\ DOMAIN e = DOMAIN acc
      /\ \A a \in DOMAIN acc : /\ e[a].oldSource = acc[a].oldSource
                               /\ e[a].syncEnabled = acc[a].syncEnabled
                               /\ e[a].removeAfterUpdate = acc[a].removeAfterUpdate
  <2>1. e = Profiled(acc, made) OBVIOUS
  <2> HIDE DEF made, e, acc
  <2> QED BY <1>3, <2>1, ProfilesMade
<1>5. started \subseteq Enabled(p) /\ started \subseteq DOMAIN acc /\ refused \subseteq DOMAIN acc
  BY <1>2 DEF Enabled
<1>6. missing \subseteq good => Enabled(p) \subseteq started \union refused
  BY <1>2 DEF Enabled
<1>7. made \subseteq google BY <1>3
<1> HIDE DEF e
<1>8. PICK r : r = Continued(p, e, started, refused) OBVIOUS
<1>9. /\ p' = IF missing \subseteq good
              THEN [r EXCEPT !.updates = @ + IF started = {} THEN 1 ELSE 0]
              ELSE OnError(r, TRUE)
      /\ profile' = profile \union made
      /\ sync' = [a \in google |->
                    IF a \in started /\ sync[a] = "none" THEN "queued" ELSE sync[a]]
  BY <1>1, <1>2, <1>8 DEF Continued, e, Profiled
<1> HIDE DEF made, missing, startable, left, reached
<1>10. sync' \in [google -> {"none", "queued", "active"}]
       /\ \A a \in started : sync'[a] # "none"
  BY <1>3, <1>5, <1>9 DEF IInv, World
<1>11. /\ Enabled(p) \subseteq started \union refused =>
            Good(google, sync', old, synced, [r EXCEPT !.updates = @ + IF started = {} THEN 1 ELSE 0])
       /\ Good(google, sync', old, synced, OnError(r, TRUE))
  <2>1. PICK t : t = sync' OBVIOUS
  <2>2. \A a \in started : t[a] # "none" BY <1>10, <2>1
  <2>3. /\ Enabled(p) \subseteq started \union refused =>
             Good(google, t, old, synced, [r EXCEPT !.updates = @ + IF started = {} THEN 1 ELSE 0])
        /\ Good(google, t, old, synced, OnError(r, TRUE))
    BY <1>0, <1>4, <1>5, <1>8, <2>2, ContinueUpdateGood
  <2> QED BY <2>1, <2>3
<1>12. Good(google, sync', old, synced, p') BY <1>6, <1>9, <1>11
<1> QED BY <1>7, <1>9, <1>10, <1>12 DEF ContinueUpdate, IInv, World, settings

\* The signals of the monitor and of Buteo.
LEMMA SyncsInv ==
  ASSUME IInv, Syncs
  PROVE  IInv'
<1>1. Good(google, sync, old, synced, p) /\ key \in BOOLEAN BY DEF IInv, World
<1>2. Listens <=> Listening(p) BY DEF Listens, Listening
<1>3. ASSUME NEW success \in BOOLEAN, OldContactsSynced(success) PROVE IInv'
  <2>1. PICK a : a = Min(p.evoQueue) OBVIOUS
  <2>2. PICK accepted \in BOOLEAN :
          p' = IF ~Known(p, a) THEN Crashed(p)
               ELSE IF success
                    THEN SyncOldContactsContinue([p EXCEPT !.evoQueue = @ \ {a}], accepted)
                    ELSE OnError([p EXCEPT !.evoQueue = @ \ {a}], TRUE)
    BY <1>3, <2>1 DEF OldContactsSynced
  <2>3. p.evoQueue # {} /\ Listening(p) BY <1>2, <1>3 DEF OldContactsSynced
  <2>4. Good(google, sync, old, synced, p')
    BY <1>1, <2>2, <2>3, OldContactsSyncedGood, CrashedGood
  <2> QED BY <1>1, <1>3, <2>4, ProcessInv DEF OldContactsSynced, settings
<1>4. ASSUME NEW a \in google, SyncStarted(a) PROVE IInv'
  <2>1. /\ sync' \in [google -> {"none", "queued", "active"}]
        /\ \A b \in google : sync[b] # "none" => sync'[b] # "none"
    BY <1>4 DEF SyncStarted, IInv, World
  <2>2. Good(google, sync', old, synced, p)
    <3>1. p.buteoQueue \subseteq google BY <1>1 DEF Good, Typed
    <3>2. PICK t : t = sync' OBVIOUS
    <3>3. \A b \in p.buteoQueue : sync[b] # "none" => t[b] # "none" BY <2>1, <3>1, <3>2
    <3>4. ~p.continues /\ synced \subseteq synced BY <1>4 DEF SyncStarted
    <3>5. Good(google, t, old, synced, p) BY <1>1, <3>3, <3>4, SyncsElsewhereGood
    <3> QED BY <3>2, <3>5
  <2> QED BY <1>4, <2>1, <2>2 DEF SyncStarted, IInv, World, settings
<1>5. ASSUME NEW a \in google, NEW outcome \in Outcomes, SyncStatusChanged(a, outcome)
      PROVE  IInv'
  <2>1. PICK t, z : t = sync' /\ z = synced' OBVIOUS
  <2>2. /\ t \in [google -> {"none", "queued", "active"}]
        /\ OthersGoOn(google, sync, t, a)
        /\ z \subseteq google /\ synced \subseteq z /\ (outcome = "done" => a \in z)
        /\ new' \subseteq google
    BY <1>5, <2>1 DEF SyncStatusChanged, IInv, World, OthersGoOn
  <2>3. Good(google, t, old, z, p')
    <3>1. CASE Listening(p) /\ p.interface /\ a \in p.buteoQueue
      <4>1. p' = SyncEnded(p, a, outcome) BY <1>2, <1>5, <3>1 DEF SyncStatusChanged
      <4>2. Known(p, a) => a \in DOMAIN p.accounts BY KnownAccount
      <4>3. Good(google, t, old, z, SyncEnded(p, a, outcome))
        BY <1>1, <2>2, <3>1, <4>2, SyncEndedGood
      <4> QED BY <4>1, <4>3
    <3>2. CASE ~(Listening(p) /\ p.interface /\ a \in p.buteoQueue)
      <4>1. p' = p /\ ~p.continues BY <1>2, <1>5, <3>2 DEF SyncStatusChanged
      <4>2. p.buteoQueue \subseteq google BY <1>1 DEF Good, Typed
      <4>3. Listening(p) /\ p.interface =>
              \A b \in p.buteoQueue : sync[b] # "none" => t[b] # "none"
        BY <2>2, <3>2, <4>2 DEF OthersGoOn
      <4>4. Good(google, t, old, z, p)
        BY <1>1, <2>2, <4>1, <4>3, SyncsElsewhereGood
      <4> QED BY <4>1, <4>4
    <3> QED BY <3>1, <3>2
  <2> QED BY <1>5, <2>1, <2>2, <2>3 DEF SyncStatusChanged, IInv, World, settings
<1>6. ASSUME NEW a \in google \union {0}, ProfileDeleted(a) PROVE IInv'
  <2>1. PICK t : t = sync' OBVIOUS
  <2>2. /\ t \in [google -> {"none", "queued", "active"}]
        /\ OthersGoOn(google, sync, t, a)
        /\ profile' \subseteq google
    BY <1>6, <2>1 DEF ProfileDeleted, IInv, World, OthersGoOn
  <2>3. p.buteoQueue \subseteq google BY <1>1 DEF Good, Typed
  <2>4. Good(google, t, old, synced, p')
    <3>1. CASE Listening(p) /\ p.interface
      <4>1. p' = Forgotten(p, a) BY <1>2, <1>6, <3>1 DEF ProfileDeleted
      <4>2. Known(p, a) /\ a \in p.buteoQueue => a \in DOMAIN p.accounts
        BY <2>3, KnownAccount
      <4>3. Good(google, t, old, synced, Forgotten(p, a))
        BY <1>1, <2>2, <3>1, <4>2, ForgottenGood
      <4> QED BY <4>1, <4>3
    <3>2. CASE ~(Listening(p) /\ p.interface)
      <4>1. p' = p /\ ~p.continues BY <1>2, <1>6, <3>2 DEF ProfileDeleted
      <4>2. synced \subseteq synced OBVIOUS
      <4>3. Good(google, t, old, synced, p)
        BY <1>1, <3>2, <4>1, <4>2, SyncsElsewhereGood
      <4> QED BY <4>1, <4>3
    <3> QED BY <3>1, <3>2
  <2> QED BY <1>6, <2>1, <2>2, <2>4 DEF ProfileDeleted, IInv, World, settings
<1> QED BY <1>3, <1>4, <1>5, <1>6 DEF Syncs

\* prepareToUpdate, the queued calls, commit and the end of the process.
LEMMA StepsInv ==
  ASSUME IInv,
         \/ ReadAccount \/ Prepared \/ QueuedError \/ UpdatedTimer
         \/ RemoveSources \/ Commit \/ Quit
  PROVE  IInv'
<1>1. Good(google, sync, old, synced, p) /\ key \in BOOLEAN BY DEF IInv, World
<1>2. Listens => Listening(p) BY DEF Listens, Listening
<1>3. CASE ReadAccount
  <2> DEFINE a == Len(p.accounts) + 1
             e == [syncEnabled |-> a \in evo,
                   oldSource |-> IF p.quits THEN "none" ELSE old[a],
                   newSource |-> ~p.quits /\ a \in new,
                   syncProfile |-> a \in profile,
                   removeAfterUpdate |-> TRUE]
  <2>1. p' = [p EXCEPT !.accounts = Append(@, e)] /\ a \in google /\ p.at = "prepare"
    BY <1>3 DEF ReadAccount
  <2>2. e \in AccountInfo /\ e.oldSource \in {"none", old[a]}
    <3>1. old[a] \in Sources BY <2>1 DEF IInv, World
    <3> QED BY <3>1 DEF AccountInfo, Sources
  <2> HIDE DEF e
  <2>3. Good(google, sync, old, synced, p')
    <3>1. Good(google, sync, old, synced, [p EXCEPT !.accounts = Append(@, e)])
      BY <1>1, <2>1, <2>2, ReadAccountGood
    <3> QED BY <2>1, <3>1
  <2> QED BY <1>1, <1>3, <2>3, ProcessInv DEF ReadAccount, settings
<1>4. CASE Prepared
  <2>1. Good(google, sync, old, synced, p')
    <3>1. PICK accepted, present \in BOOLEAN :
            p' = Update([p EXCEPT !.at = "loop", !.connected = TRUE], accepted, present)
      BY <1>4 DEF Prepared
    <3>2. p.at = "prepare" /\ ~p.continues /\ DOMAIN p.accounts = google BY <1>4 DEF Prepared
    <3>3. Good(google, sync, old, synced,
               Update([p EXCEPT !.at = "loop", !.connected = TRUE], accepted, present))
      BY <1>1, <3>2, PreparedGood
    <3> QED BY <3>1, <3>3
  <2> QED BY <1>1, <1>4, <2>1, ProcessInv DEF Prepared, settings
<1>5. CASE QueuedError
  <2>1. Good(google, sync, old, synced, p') BY <1>1, <1>2, <1>5, QueuedErrorGood DEF QueuedError
  <2> QED BY <1>1, <1>5, <2>1, ProcessInv DEF QueuedError, settings
<1>6. CASE UpdatedTimer
  <2>1. Good(google, sync, old, synced, p')
    BY <1>1, <1>2, <1>6, UpdatedTimerGood DEF UpdatedTimer
  <2> QED BY <1>1, <1>6, <2>1, ProcessInv DEF UpdatedTimer, settings
<1>7. CASE RemoveSources
  <2> DEFINE acc == p.accounts
             e == [a \in DOMAIN acc |-> [acc[a] EXCEPT !.syncEnabled = FALSE]]
  <2>1. /\ p' = [p EXCEPT !.at = "remove", !.accounts = e] /\ p.at = "commit"
        /\ evo' \subseteq evo
    BY <1>7 DEF RemoveSources
  <2>2. PICK removed : old' = [a \in google |-> IF a \in removed THEN "none" ELSE old[a]]
    BY <1>7 DEF RemoveSources
  <2>3. old' \in [google -> Sources] BY <2>2 DEF IInv, World, Sources
  <2>4. acc \in Seq(AccountInfo) BY <1>1 DEF Good, Typed
  <2>5. e \in Seq(AccountInfo) /\ DOMAIN e = DOMAIN acc
    <3> DEFINE f == FALSE
    <3>1. DOMAIN acc = 1 .. Len(acc) /\ Len(acc) \in Nat BY <2>4
    <3>2. ASSUME NEW a \in DOMAIN acc PROVE e[a] \in AccountInfo
      <4>1. acc[a] \in AccountInfo BY <2>4
      <4>2. e[a] = [acc[a] EXCEPT !.syncEnabled = f] /\ f \in BOOLEAN OBVIOUS
      <4> HIDE DEF f
      <4> QED BY <4>1, <4>2 DEF AccountInfo
    <3>3. e \in [1 .. Len(acc) -> AccountInfo] BY <3>1, <3>2
    <3> QED BY <3>1, <3>3
  <2> HIDE DEF e
  <2>6. Good(google, sync, old', synced, p')
    <3>1. PICK z : z = old' OBVIOUS
    <3>2. Good(google, sync, z, synced, [p EXCEPT !.at = "remove", !.accounts = e])
      BY <1>1, <2>1, <2>5, RemoveSourcesGood
    <3> QED BY <2>1, <3>1, <3>2
  <2> QED BY <1>1, <1>7, <2>1, <2>3, <2>6 DEF RemoveSources, IInv, World, buteo
<1>8. CASE Commit
  <2>1. Good(google, sync, old, synced, p') BY <1>1, <1>8, CommitGood DEF Commit
  <2>2. key' \in BOOLEAN BY <1>8 DEF Commit
  <2> QED BY <1>8, <2>1, <2>2, ProcessInv DEF Commit
<1>9. CASE Quit
  <2>1. Good(google, sync, old, synced, p') BY <1>9, StartedGood DEF Quit
  <2> QED BY <1>1, <1>9, <2>1, ProcessInv DEF Quit, settings
<1> QED BY <1>3, <1>4, <1>5, <1>6, <1>7, <1>8, <1>9

LEMMA NextInv == IInv /\ [Next]_vars => IInv'
<1> SUFFICES ASSUME IInv, [Next]_vars PROVE IInv' OBVIOUS
<1>1. CASE UNCHANGED vars BY <1>1 DEF vars, settings, buteo, IInv, World
<1>2. CASE ScreenChanges BY <1>2 DEF ScreenChanges, settings, buteo, IInv, World
<1>3. CASE Next /\ ~ScreenChanges
  BY <1>3, StartsInv, AnswersInv, ContinueUpdateInv, SyncsInv, StepsInv DEF Next
<1> QED BY <1>1, <1>2, <1>3

\* What the update waits for, step by step, holds in every state.
THEOREM InvariantHolds == Spec => []IInv
BY InitInv, NextInv, PTL DEF Spec

\* An update that was started waits for something that will come, but for a notification
\* that could not be shown or a step given up without a word, and update() never finds its
\* lock taken: startUpdate, the module and every handler, failing or not, in every order.
THEOREM UpdateGoesOnHolds == Spec => []UpdateGoesOn
<1>1. ASSUME IInv PROVE UpdateGoesOn
  <2>0. World /\ Typed(google, p) /\ Steered(p) /\ Awake(sync, p) BY <1>1 DEF IInv, Good
  <2>1. TypeOK BY <2>0 DEF World, Typed, TypeOK
  <2>2. SomebodyWaits
    <3> SUFFICES ASSUME p.lock, ~p.hung, p.at = "loop", ~p.continues
                 PROVE  \/ \E m \in {"start", "complete", "later", "failure"} : Awaits(m)
                        \/ /\ p.connected
                           /\ \/ Awaits("question")
                              \/ p.evoQueue # {} /\ p.monitor = "heard"
                              \/ \E a \in p.buteoQueue : sync[a] # "none" /\ p.interface
                              \/ p.updates > 0 \/ p.errors > 0
      BY DEF SomebodyWaits
    <3>1. ~p.quits /\ ~Fresh(p) BY <2>0 DEF Steered, Fresh
    <3>2. Stage(p) BY <2>0, <3>1 DEF Steered, Loops
    <3>3. \A m \in Messages : p.shown[m] \in Nat BY <2>0 DEF Typed
    <3>4. \/ \E m \in {"start", "complete", "later", "failure"} : p.shown[m] > 0
          \/ p.connected
      BY <3>2, <3>3 DEF Stage, Messages
    <3>5. p.connected => ~Calm(p) \/ p.updates > 0 \/ p.errors > 0
      BY <2>0, <3>1 DEF Awake
    <3>6. ~Calm(p) => \/ p.shown["question"] > 0
                      \/ p.evoQueue # {} /\ p.monitor = "heard"
                      \/ \E a \in p.buteoQueue : sync[a] # "none" /\ p.interface
      BY <2>0, <3>1, <3>3 DEF Awake, Heard, Calm, Typed, Messages, Loops
    <3>7. \A m \in Messages : p.shown[m] > 0 => Awaits(m)
      BY <2>0 DEF Typed, Awaits, OnScreen
    <3> QED BY <3>4, <3>5, <3>6, <3>7 DEF Messages
  <2>3. LockFree BY <2>0 DEF Steered, LockFree
  <2> QED BY <2>1, <2>2, <2>3 DEF UpdateGoesOn
<1> QED BY <1>1, InvariantHolds, PTL

\* The process does not quit in the middle of an update, unless the question whether to retry
\* was closed after it was answered: onRetryClosed, updateNextModule and notifyDone.
THEOREM NotAbandonedHolds == Spec => []NotAbandoned
<1>1. IInv => NotAbandoned BY DEF IInv, Good, Steered, NotAbandoned
<1> QED BY <1>1, InvariantHolds, PTL

\* commit() removes an old source with contacts only if Buteo synced the account, it was
\* skipped, or an earlier attempt left syncs under way: whatever the accounts were when they
\* were read, and however the questions and the syncs ended.
THEOREM KeptUnlessSkippedHolds == Spec => KeptUnlessSkipped
<1> DEFINE Kept == \A a \in google : old[a] = "full" /\ old'[a] = "none" =>
                     a \in synced \/ a \in p.skipped \/ p.leftover
<1>1. ASSUME IInv, [Next]_vars PROVE Kept
  <2> SUFFICES ASSUME NEW a \in google, old[a] = "full", old'[a] = "none", ~p.leftover
               PROVE  a \in synced \/ a \in p.skipped
    OBVIOUS
  <2>1. old' # old OBVIOUS
  <2>2. RemoveSources
    BY <1>1, <2>1 DEF Next, vars, settings, Answers, Syncs, Launch, StartCalled,
       StartWhenConnected, OnlineStateChanged, ContinueUpdateWithInternet, MessageClosed, Retry,
       NoRetry, FailureClosed, QuestionReplied, QuestionClosed, ReadAccount, Prepared,
       ContinueUpdate, OldContactsSynced, SyncStarted, SyncStatusChanged, ProfileDeleted,
       QueuedError, UpdatedTimer, Commit, Quit, ScreenChanges
  <2>3. a \in DOMAIN p.accounts /\ p.accounts[a].removeAfterUpdate
        /\ p.accounts[a].oldSource # "none" /\ p.at = "commit"
    BY <2>2 DEF RemoveSources
  <2>4. AtRisk(old, synced, p) = {} BY <1>1, <2>3 DEF IInv, Good, Traced, Loops
  <2> QED BY <2>3, <2>4 DEF AtRisk
<1>2. IInv /\ [Next]_vars => [Kept]_vars BY <1>1
<1> QED BY <1>2, InvariantHolds, PTL DEF Spec, KeptUnlessSkipped
=============================================================================
