----------------------- MODULE UpdateContacts_proofs -----------------------
(***************************************************************************)
(* The update command, for any contacts, details, callers and lists: what  *)
(* a command holds while it waits for folks, that a call sends one reply,  *)
(* to its own message unless it gave up, and that who reads a contact      *)
(* after an update gets what folks has, but for the changes that were      *)
(* skipped and not made up for.                                            *)
(***************************************************************************)
EXTENDS UpdateContacts, FiniteSetTheorems, SequenceTheorems, WellFoundedInduction, TLAPS

Calls == [caller : Caller, list : Lists]

\* The places a call can be at, beside Over.
Queued(k)  == \E i \in DOMAIN queue : queue[i].caller = k
Waits(k)   == \E i \in DOMAIN waiting : waiting[i].call.caller = k
HasLock(k) == locked /\ command.caller = k

\* One of four, and no two of them.
OneOf(a, b, c, d) ==
  /\ a \/ b \/ c \/ d
  /\ a => ~b /\ ~c /\ ~d
  /\ b => ~c /\ ~d
  /\ c => ~d

\* A call that was made is at one place; one that was not made is nowhere.
Places ==
  \A k \in Caller :
    IF k \in called THEN OneOf(Queued(k), Waits(k), HasLock(k), Over(k))
    ELSE ~Queued(k) /\ ~Waits(k) /\ ~HasLock(k) /\ ~Over(k)

\* No call is in the queue twice, or waits twice.
QueuedOnce == \A i, j \in DOMAIN queue : queue[i].caller = queue[j].caller => i = j
WaitsOnce ==
  \A i, j \in DOMAIN waiting :
    waiting[i].call.caller = waiting[j].call.caller /\ waiting[i].call.caller \in Caller => i = j

\* The calls, each at one place, and their replies.
CallsInv ==
  /\ Places /\ QueuedOnce /\ WaitsOnce /\ OneReply
  /\ \A k \in dropped : Over(k)

\* What a command has for its list, whether it has the lock or not.
InPlace(cmd) ==
  /\ cmd.next \in 1..Len(cmd.list) + 1
  /\ Len(cmd.result) = Len(cmd.list)
  /\ \A n \in DOMAIN cmd.list :
       /\ cmd.result[n].id \in {cmd.list[n].id, None}
       /\ n >= cmd.next => cmd.result[n].data = cmd.list[n].new

\* A command is that of a call, and while it waits next is behind a contact of its list.
LockInv ==
  /\ InPlace(command)
  /\ locked => command.caller \in Caller /\ command.list \in Lists
  /\ \A c \in contactLock :
       command.next - 1 \in DOMAIN command.list

\* What a thread has read is what folks has, unless that changed since.
ReaderInv ==
  reader # None /\ reader.data # None /\ reader.contact \notin missed
    => reader.data = backend[reader.contact]

\* What folks changed for a command, and was not announced, the command still has to tell.
News ==
  unannounced \subseteq failed \cup missed
                        \cup (IF locked THEN command.updated \cup contactLock ELSE {})

\* What does not speak of the calls.
Core == CommandInv /\ LockInv /\ ReaderInv /\ FreshUnlessSkipped /\ News

IInv == Core /\ CallsInv

Commands == [caller : Caller \cup {None}, list : Lists \cup {<< >>}, next : Nat,
             updated : SUBSET Contact, result : Seq(Result)]

\* The types, and what is said of the map and the thread: all that updateContactsDone
\* leaves alone.
Rest ==
  /\ map \in BOOLEAN /\ entries \in SUBSET Contact
  /\ ~map => entries = {}
  /\ backend \in [Contact -> Data] /\ garbage \in Seq(Nat)
  /\ reader \in [contact : entries, data : Data \cup {None}] \cup {None}
  /\ ReaderInv
  /\ called \in SUBSET Caller /\ dropped \in SUBSET Caller
  /\ queue \in Seq(Calls) /\ waiting \in Seq(Frame)
  /\ failed \in SUBSET Contact /\ missed \in SUBSET Contact

LEMMA CoreRest ==
  ASSUME Core
  PROVE  /\ Rest /\ replies \in [Caller -> Seq(Reply)]
         /\ cache \in [Contact -> Data \cup {None}]
         /\ unannounced \in SUBSET Contact /\ contactLock \subseteq entries
         /\ request \in Request \cup {None}
         /\ contactLock = IF request # None /\ request.attached THEN {request.update.id} ELSE {}
BY DEF Core, CommandInv, TypeOK, Rest, Calls

-----------------------------------------------------------------------------
(***************************************************************************)
(* The list of a command                                                   *)
(***************************************************************************)

\* A set of numbers has its least number.
LEMMA MinIsIn ==
  ASSUME NEW S \in SUBSET Nat, S # {}
  PROVE  Min(S) \in S
<1>1. PICK m \in S : \A n \in S : ~(<<n, m>> \in OpToRel(<, Nat))
  BY NatLessThanWellFounded, WFMin, Zenon
<1>2. \A n \in S : ~(n < m)
  BY <1>1 DEF OpToRel
<1>3. \A n \in S : m <= n BY <1>2
<1> QED BY <1>3 DEF Min

\* The lists hold contacts.
LEMMA ListFacts ==
  ASSUME NEW list \in Lists
  PROVE  /\ list \in Seq(Update)
         /\ Len(list) \in Nat /\ DOMAIN list = 1..Len(list)
         /\ \A n \in DOMAIN list : list[n] \in Update /\ list[n].id \in Contact
                                   /\ list[n].new \in Data
<1>1. list \in Seq(Update) BY ListsAssumption
<1>2. \A u \in Update : u.id \in Contact /\ u.new \in Data BY DEF Update
<1> QED BY <1>1, <1>2

\* What a contact that was not found leaves in the results.
LEMMA SkippedFacts ==
  ASSUME NEW cmd \in Commands, cmd.list \in Lists, InPlace(cmd),
         NEW i \in cmd.next..Len(cmd.list) + 1
  PROVE  /\ Skipped(cmd, i) \in Seq(Result) /\ Len(Skipped(cmd, i)) = Len(cmd.list)
         /\ \A n \in DOMAIN cmd.list :
              Skipped(cmd, i)[n] = IF n \in cmd.next..(i - 1) THEN Failure ELSE cmd.result[n]
<1> DEFINE r == Skipped(cmd, i)
<1>1. /\ cmd.result \in Seq(Result) /\ Len(cmd.result) = Len(cmd.list) /\ Failure \in Result
  BY DEF Commands, InPlace, Result
<1>2. /\ Len(cmd.list) \in Nat /\ DOMAIN cmd.list = 1..Len(cmd.list) /\ DOMAIN cmd.result = 1..Len(cmd.list)
  BY <1>1, ListFacts
<1>3. r = [n \in 1..Len(cmd.list) |->
             IF n \in cmd.next..(i - 1) THEN Failure ELSE cmd.result[n]]
  BY <1>2 DEF Skipped
<1>4. \A n \in 1..Len(cmd.list) : cmd.result[n] \in Result
  BY <1>1, <1>2
<1>5. r \in [1..Len(cmd.list) -> Result]
  BY <1>1, <1>3, <1>4
<1>6. r \in Seq(Result) /\ Len(r) = Len(cmd.list)
  BY <1>2, <1>5
<1> QED BY <1>2, <1>3, <1>6

\* Two contacts that differ, differ in a detail.
LEMMA DifferingFacts ==
  ASSUME NEW u \in Update, NEW original \in Data, original # u.new
  PROVE  Min(Differing(u, original, 0)) \in 1..Details
<1>1. u.new \in Data BY DEF Update
<1>2. PICK d \in 1..Details : original[d] # u.new[d]
  <2> SUFFICES ASSUME \A d \in 1..Details : original[d] = u.new[d] PROVE original = u.new
    OBVIOUS
  <2>1. /\ original = [d \in 1..Details |-> original[d]]
        /\ u.new = [d \in 1..Details |-> u.new[d]]
    BY <1>1 DEF Data
  <2> QED BY <2>1
<1>3. d \in Differing(u, original, 0) BY <1>2, DetailsAssumption DEF Differing
<1>4. Differing(u, original, 0) \in SUBSET Nat /\ Differing(u, original, 0) \subseteq 1..Details
  BY DetailsAssumption DEF Differing
<1> QED BY <1>3, <1>4, MinIsIn

-----------------------------------------------------------------------------
(***************************************************************************)
(* updateContactsDone                                                      *)
(***************************************************************************)

\* The command with which Continue leaves the lock, or keeps it.
Outcome(k) ==
  \/ /\ ~locked'
     /\ \E r \in Seq(Result) :
          replies' = [replies EXCEPT ![k] = Append(@, [from |-> k, result |-> r])]
  \/ locked' /\ command'.caller = k /\ replies' = replies

\* The next contact of the list is asked for, or the command ends.
LEMMA ContinueInv ==
  ASSUME NEW cmd \in Commands, InPlace(cmd), cmd.caller \in Caller, cmd.list \in Lists,
         NEW book \in [Contact -> Data \cup {None}], NEW silent \in SUBSET Contact,
         entries' = entries, reader' \in {None, reader}, halted' = "no", Rest', TypeOK,
         \A c \in entries \ (failed' \cup missed') : book[c] \in {None, backend'[c]},
         silent \subseteq failed' \cup missed' \cup cmd.updated,
         Continue(cmd, book, {}, silent)
  PROVE  Core' /\ Outcome(cmd.caller)
<1> DEFINE n == Len(cmd.list)
<1>1. n \in Nat /\ DOMAIN cmd.list = 1..n /\ cmd.next \in 1..n + 1
  BY ListFacts DEF InPlace
<1>2. /\ cmd.updated \in SUBSET Contact /\ cmd.result \in Seq(Result) /\ cmd.next \in Nat
      /\ cmd = [caller |-> cmd.caller, list |-> cmd.list, next |-> cmd.next,
                updated |-> cmd.updated, result |-> cmd.result]
  BY DEF Commands
<1>3. \A m \in DOMAIN cmd.list :
        cmd.result[m].id \in {cmd.list[m].id, None}
        /\ (m >= cmd.next => cmd.result[m].data = cmd.list[m].new)
  BY DEF InPlace
<1>4. CASE Finish(cmd, book, {}, silent)
  <2> DEFINE r == Skipped(cmd, n + 1)
  <2>1. r \in Seq(Result)
    <3>1. n + 1 \in cmd.next..n + 1 BY <1>1
    <3> QED BY <3>1, SkippedFacts
  <2>2. /\ replies' = [replies EXCEPT ![cmd.caller] = Append(@, [from |-> cmd.caller, result |-> r])]
        /\ unannounced' = silent \ cmd.updated /\ locked' = FALSE
        /\ command' = Command(None, << >>) /\ cache' = book /\ contactLock' = {}
        /\ request' = None
    BY <1>4 DEF Finish
  <2> HIDE DEF r
  <2>3. replies' \in [Caller -> Seq(Reply)]
    <3>1. replies \in [Caller -> Seq(Reply)] BY DEF TypeOK
    <3>2. [from |-> cmd.caller, result |-> r] \in Reply BY <2>1 DEF Reply
    <3> QED BY <2>2, <3>1, <3>2
  <2>4. /\ command' \in Commands /\ command'.list = << >> /\ command'.next = 1
        /\ command'.result = << >>
    BY <2>2 DEF Commands, Command
  <2>5. InPlace(command')
    BY <2>4 DEF InPlace
  <2>6. TypeOK'
    <3>1. command'.next \in 1..Len(command'.list) + 1 BY <2>5 DEF InPlace
    <3> QED BY <2>2, <2>3, <2>4, <3>1 DEF TypeOK, Commands, Rest, Calls
  <2>7. CommandInv' BY <2>2, <2>6 DEF CommandInv, HaltedInv, Rest
  <2>8. LockInv' BY <2>2, <2>5 DEF LockInv, InPlace
  <2>9. FreshUnlessSkipped' BY <2>2 DEF FreshUnlessSkipped
  <2>10. News' BY <2>2 DEF News
  <2> QED BY <2>1, <2>2, <2>7, <2>8, <2>9, <2>10 DEF Outcome, Core, Rest
<1>5. ASSUME NEW i \in Open(cmd, {}), StartUpdate(cmd, i, book, {}, silent)
      PROVE  Core' /\ Outcome(cmd.caller)
  <2>1. PICK u \in Update : u = cmd.list[i]
    BY <1>1, <1>5, ListFacts DEF Open
  <2>2. i \in cmd.next..n /\ i \in 1..n /\ i \in Nat /\ u.id \in entries /\ u.id \in Contact /\ u.new \in Data
    BY <1>1, <1>5, <2>1 DEF Open, Update, TypeOK
  <2>3. PICK original \in Data :
          original = IF book[u.id] = None THEN backend'[u.id] ELSE book[u.id]
    BY <2>2 DEF Rest
  <2>4. PICK r \in Seq(Result) : r = Skipped(cmd, i)
    BY <1>1, <2>2, SkippedFacts
  <2>5. /\ Len(r) = n
        /\ \A m \in 1..n : r[m] = IF m \in cmd.next..(i - 1) THEN Failure ELSE cmd.result[m]
    BY <1>1, <2>2, <2>4, SkippedFacts
  <2>6. /\ locked' = TRUE
        /\ command' = [cmd EXCEPT !.next = i + 1, !.result = r]
        /\ cache' = [book EXCEPT ![u.id] = original]
        /\ unannounced' = silent /\ replies' = replies /\ ~Holds(u.id)
        /\ IF original = u.new
           THEN request' = None /\ contactLock' = {}
           ELSE /\ contactLock' = {u.id}
                /\ request' = [update |-> u, original |-> original, attached |-> TRUE,
                               detail |-> Min(Differing(u, original, 0))]
    BY <1>5, <2>1, <2>3, <2>4 DEF StartUpdate
  <2>7. command' = [caller |-> cmd.caller, list |-> cmd.list, next |-> i + 1,
                    updated |-> cmd.updated, result |-> r]
    BY <1>2, <2>6
  <2>8. /\ command'.caller = cmd.caller /\ command'.list = cmd.list /\ command'.next = i + 1
        /\ command'.updated = cmd.updated /\ command'.result = r
    BY <2>7
  <2>9. command' \in Commands
    BY <1>2, <2>2, <2>7 DEF Commands
  <2>10. InPlace(command')
    <3>1. command'.next \in 1..Len(command'.list) + 1 /\ Len(command'.result) = Len(command'.list)
      BY <1>1, <2>2, <2>5, <2>8
    <3>2. ASSUME NEW m \in 1..n
          PROVE  r[m].id \in {cmd.list[m].id, None}
                 /\ (m >= i + 1 => r[m].data = cmd.list[m].new)
      <4>1. CASE m \in cmd.next..(i - 1) BY <2>2, <2>5, <4>1, <1>1 DEF Failure
      <4>2. CASE m \notin cmd.next..(i - 1)
        <5>1. r[m] = cmd.result[m] BY <2>5, <4>2
        <5>2. m >= i + 1 => m >= cmd.next BY <1>1, <2>2
        <5> QED BY <1>1, <1>3, <5>1, <5>2
      <4> QED BY <4>1, <4>2
    <3>3. PICK g : g = command' OBVIOUS
    <3>4. g.list = cmd.list /\ g.next = i + 1 /\ g.result = r BY <2>8, <3>3
    <3>5. InPlace(g) BY <1>1, <3>1, <3>2, <3>3, <3>4 DEF InPlace
    <3> QED BY <3>3, <3>5
  <2>11. /\ cache' \in [Contact -> Data \cup {None}]
         /\ cache'[u.id] = original /\ \A c \in Contact \ {u.id} : cache'[c] = book[c]
    BY <2>2, <2>6
  <2>12. /\ request' \in Request \cup {None}
         /\ contactLock' = (IF request' # None /\ request'.attached
                            THEN {request'.update.id} ELSE {})
         /\ contactLock' \in SUBSET {u.id}
         /\ contactLock' # {} => request'.original = original /\ request'.update = u
    <3>1. CASE original = u.new BY <2>6, <3>1
    <3>2. CASE original # u.new
      <4>1. request' \in Request
        <5>1. Min(Differing(u, original, 0)) \in 1..Details BY <2>1, <3>2, DifferingFacts
        <5>2. request' = [update |-> u, original |-> original, attached |-> TRUE,
                          detail |-> Min(Differing(u, original, 0))]
          BY <2>6, <3>2
        <5> QED BY <5>1, <5>2 DEF Request
      <4>2. request' # None BY <4>1, NoneAssumption
      <4> QED BY <2>6, <3>2, <4>1, <4>2
    <3> QED BY <3>1, <3>2
  <2>13. TypeOK'
    <3>1. command'.next \in 1..Len(command'.list) + 1 BY <2>10 DEF InPlace
    <3>2. contactLock' \in SUBSET entries' /\ unannounced' \in SUBSET Contact BY <2>2, <2>6, <2>12
    <3>3. locked' \in BOOLEAN BY <2>6
    <3> QED BY <2>6, <2>9, <2>11, <2>12, <3>1, <3>2, <3>3 DEF TypeOK, Commands, Rest, Calls
  <2>14. command'.list[command'.next - 1] = u /\ command'.next - 1 \in DOMAIN command'.list
    BY <1>1, <2>1, <2>2, <2>8
  <2>15. CommandInv'
    <3>1. ~Holds(u.id)' BY <2>6 DEF Holds
    <3> QED BY <2>2, <2>6, <2>11, <2>12, <2>13, <2>14, <3>1 DEF CommandInv, HaltedInv, Rest
  <2>16. LockInv'
    BY <2>8, <2>10, <2>12, <2>14 DEF LockInv, InPlace
  <2>17. FreshUnlessSkipped'
    BY <2>2, <2>3, <2>11 DEF FreshUnlessSkipped, Rest
  <2>18. News' BY <2>6, <2>8 DEF News
  <2> QED BY <2>6, <2>8, <2>15, <2>16, <2>17, <2>18 DEF Outcome, Core, Rest
<1>6. CASE Open(cmd, {}) = {}
  BY <1>4, <1>6 DEF Continue
<1>7. CASE Open(cmd, {}) # {}
  <2>1. Open(cmd, {}) \in SUBSET Nat BY <1>1 DEF Open
  <2> QED BY <1>5, <1>7, <2>1, MinIsIn DEF Continue
<1> QED BY <1>6, <1>7

\* While nobody has the lock, no individual is locked either.
LEMMA NoLock ==
  ASSUME Core, ~locked
  PROVE  contactLock = {} /\ unannounced \subseteq failed \cup missed
BY DEF Core, CommandInv, News

\* A call gets the lock: it asks for its first contact, or finds no map.
LEMMA EnterCore ==
  ASSUME Core, ~locked, Running, NEW call \in Calls, Enter(call),
         queue' \in Seq(Calls), waiting' \in Seq(Frame)
  PROVE  Core' /\ Outcome(call.caller)
<1>1. PICK cmd : cmd = Command(call.caller, call.list) OBVIOUS
<1>2. /\ call.caller \in Caller /\ call.list \in Lists
      /\ call.list \in Seq(Update) /\ Len(call.list) \in Nat
      /\ DOMAIN call.list = 1..Len(call.list)
      /\ \A n \in DOMAIN call.list : call.list[n].id \in Contact /\ call.list[n].new \in Data
  BY ListFacts DEF Calls
<1>3. /\ cmd.caller = call.caller /\ cmd.list = call.list /\ cmd.next = 1 /\ cmd.updated = {}
      /\ cmd.result = [i \in 1..Len(call.list) |->
                         [id |-> call.list[i].id, data |-> call.list[i].new]]
      /\ cmd = [caller |-> cmd.caller, list |-> cmd.list, next |-> cmd.next,
                updated |-> cmd.updated, result |-> cmd.result]
  BY <1>1, <1>2 DEF Command
<1>4. cmd.result \in Seq(Result) /\ Len(cmd.result) = Len(cmd.list)
  <2>1. \A i \in 1..Len(call.list) :
          [id |-> call.list[i].id, data |-> call.list[i].new] \in Result
    BY <1>2 DEF Result
  <2>2. cmd.result \in [1..Len(call.list) -> Result] BY <1>3, <2>1
  <2> QED BY <1>2, <1>3, <2>2
<1>5. cmd \in Commands /\ cmd.caller \in Caller /\ cmd.list \in Lists
  <2>1. cmd.caller \in Caller /\ cmd.list \in Lists /\ cmd.next \in Nat
        /\ cmd.updated \in SUBSET Contact
    BY <1>2, <1>3
  <2> QED BY <1>3, <1>4, <2>1 DEF Commands
<1>6. InPlace(cmd)
  BY <1>2, <1>3, <1>4 DEF InPlace
<1>7. contactLock = {} /\ unannounced \subseteq failed \cup missed BY NoLock
<1>8. Rest /\ cache \in [Contact -> Data \cup {None}] /\ unannounced \in SUBSET Contact /\ TypeOK
  BY CoreRest DEF Core, CommandInv
<1>9. UNCHANGED <<map, entries, backend, reader, called, dropped, foreign, failed, missed, garbage>>
  BY DEF Enter
<1>10. Rest'
  BY <1>8, <1>9 DEF Rest, ReaderInv
<1>11. CASE Continue(cmd, cache, {}, unannounced) /\ UNCHANGED halted
  <2>1. \A c \in entries \ (failed' \cup missed') : cache[c] \in {None, backend'[c]}
    BY <1>7, <1>9 DEF FreshUnlessSkipped, Core
  <2>2. halted' = "no" BY <1>11 DEF Running
  <2>3. unannounced \subseteq failed' \cup missed' \cup cmd.updated BY <1>7, <1>9
  <2> QED BY <1>3, <1>5, <1>6, <1>8, <1>9, <1>10, <1>11, <2>1, <2>2, <2>3, ContinueInv
<1>12. CASE /\ ~map /\ halted' = "reload" /\ locked' = TRUE /\ command' = cmd
            /\ UNCHANGED <<cache, contactLock, request, replies, unannounced>>
  <2>1. TypeOK'
    <3>1. command'.next \in 1..Len(command'.list) + 1 BY <1>6, <1>12 DEF InPlace
    <3> QED BY <1>5, <1>8, <1>9, <1>10, <1>12, <3>1 DEF TypeOK, Rest, Commands, Calls
  <2>2. CommandInv' BY <1>7, <1>9, <1>12, <2>1 DEF Core, CommandInv, HaltedInv
  <2>3. InPlace(command') BY <1>6, <1>12
  <2>4. LockInv' BY <1>5, <1>7, <1>12, <2>3 DEF LockInv, InPlace
  <2>5. FreshUnlessSkipped' /\ News'
    BY <1>7, <1>9, <1>12 DEF Core, FreshUnlessSkipped, News
  <2> QED BY <1>3, <1>10, <1>12, <2>2, <2>4, <2>5 DEF Core, Outcome, Rest
<1> QED BY <1>1, <1>7, <1>11, <1>12 DEF Enter

\* The result of the contact a command waits for.
LEMMA WithResultFacts ==
  ASSUME Core, contactLock # {}, NEW r \in Result, r.id \in {request.update.id, None}
  PROVE  /\ WithResult(command, r) \in Commands /\ InPlace(WithResult(command, r))
         /\ WithResult(command, r).caller = command.caller
         /\ WithResult(command, r).list = command.list
         /\ WithResult(command, r).next = command.next
         /\ WithResult(command, r).updated = command.updated
         /\ command.caller \in Caller /\ command.list \in Lists /\ locked
<1> USE DEF Core
<1>1. PICK cmd \in Commands : cmd = command
  BY DEF CommandInv, TypeOK, Commands
<1>2. PICK k : k = cmd.next - 1 OBVIOUS
<1>3. /\ locked /\ cmd.list[k] = request.update /\ k \in DOMAIN cmd.list
      /\ cmd.caller \in Caller /\ cmd.list \in Lists /\ InPlace(cmd)
  BY <1>1, <1>2 DEF CommandInv, LockInv
<1>4. DOMAIN cmd.list = 1..Len(cmd.list) /\ Len(cmd.list) \in Nat BY <1>3, ListFacts
<1>5. /\ cmd.result \in Seq(Result) /\ Len(cmd.result) = Len(cmd.list) /\ cmd.next \in Nat
      /\ cmd = [caller |-> cmd.caller, list |-> cmd.list, next |-> cmd.next,
                updated |-> cmd.updated, result |-> cmd.result]
      /\ cmd.updated \in SUBSET Contact
  BY <1>3 DEF Commands, InPlace
<1>6. PICK s : s = [cmd.result EXCEPT ![k] = r] OBVIOUS
<1>7. WithResult(command, r) = [caller |-> cmd.caller, list |-> cmd.list, next |-> cmd.next,
                                updated |-> cmd.updated, result |-> s]
  <2>1. WithResult(cmd, r) = [cmd EXCEPT !.result = s]
    BY <1>2, <1>6 DEF WithResult
  <2>2. [cmd EXCEPT !.result = s] =
          [caller |-> cmd.caller, list |-> cmd.list, next |-> cmd.next,
           updated |-> cmd.updated, result |-> s]
    BY <1>5
  <2> QED BY <1>1, <2>1, <2>2
<1>8. /\ s \in Seq(Result) /\ Len(s) = Len(cmd.list)
      /\ s[k] = r /\ \A n \in 1..Len(cmd.list) : n # k => s[n] = cmd.result[n]
  BY <1>3, <1>4, <1>5, <1>6
<1>9. PICK new : new = WithResult(command, r) OBVIOUS
<1>10. /\ new.caller = cmd.caller /\ new.list = cmd.list /\ new.next = cmd.next
       /\ new.updated = cmd.updated /\ new.result = s
  BY <1>7, <1>9
<1>11. new \in Commands
  BY <1>3, <1>5, <1>7, <1>8, <1>9 DEF Commands
<1>12. ASSUME NEW n \in DOMAIN new.list
       PROVE  new.result[n].id \in {new.list[n].id, None}
              /\ (n >= new.next => new.result[n].data = new.list[n].new)
  <2>1. CASE n = k
    BY <1>2, <1>3, <1>4, <1>5, <1>8, <1>10, <2>1
  <2>2. CASE n # k
    BY <1>3, <1>4, <1>8, <1>10, <2>2 DEF InPlace
  <2> QED BY <2>1, <2>2
<1>13. InPlace(new)
  <2>1. new.next \in 1..Len(new.list) + 1 /\ Len(new.result) = Len(new.list)
    BY <1>3, <1>8, <1>10 DEF InPlace
  <2> QED BY <1>12, <2>1 DEF InPlace
<1> QED BY <1>1, <1>3, <1>9, <1>10, <1>11, <1>13

\* Folks has changed a detail: nothing else of what it has.
LEMMA WrittenFacts ==
  ASSUME Core, request # None, backend' = Written
  PROVE  /\ request \in Request /\ request.update.id \in Contact
         /\ backend' \in [Contact -> Data]
         /\ \A c \in Contact \ {request.update.id} : backend'[c] = backend[c]
<1> USE DEF Core
<1>1. request \in Request /\ backend \in [Contact -> Data] BY DEF CommandInv, TypeOK
<1>2. PICK c \in Contact, d \in 1..Details, v \in Value :
        c = request.update.id /\ d = request.detail /\ v = request.update.new[request.detail]
  BY <1>1 DEF Request, Update, Data
<1>3. backend' = [backend EXCEPT ![c] = [backend[c] EXCEPT ![d] = v]]
  BY <1>2 DEF Written
<1>4. [backend[c] EXCEPT ![d] = v] \in Data BY <1>1, <1>2 DEF Data
<1> QED BY <1>1, <1>2, <1>3, <1>4

\* The level at which a failed request is to be deleted.
LEMMA PostLevelType ==
  ASSUME waiting \in Seq(Frame)
  PROVE  PostLevel \in Nat
<1> DEFINE S == {i \in DOMAIN waiting : waiting[i] = Destructor}
<1>1. PICK n \in Nat : n = Len(waiting) /\ DOMAIN waiting = 1..n OBVIOUS
<1>2. IsFiniteSet(1..n) BY <1>1, FS_Interval
<1>3. S \subseteq 1..n BY <1>1
<1> HIDE DEF S
<1>4. Cardinality(S) \in Nat BY <1>2, <1>3, FS_Subset, FS_CardinalityType
<1>5. Level = 1 + n + Cardinality(S) BY <1>1 DEF Level, S
<1> QED BY <1>1, <1>4, <1>5 DEF PostLevel

\* The last detail of a contact is changed.
LEMMA UpdateDoneCore ==
  ASSUME Core, UpdateDone
  PROVE  Core' /\ Outcome(command.caller) /\ locked
<1>1. /\ request # None /\ request.attached /\ backend' = Written
      /\ reader' = None /\ halted = "no" /\ halted' = "no"
      /\ UNCHANGED <<map, entries, called, queue, waiting, dropped, foreign, garbage>>
  BY DEF UpdateDone, LastDetailChanged, Running
<1>2. PICK c \in Contact : c = request.update.id BY <1>1, WrittenFacts
<1>3. contactLock = {c} /\ c \in entries
  BY <1>1, <1>2 DEF Core, CommandInv
<1>4. /\ backend' \in [Contact -> Data] /\ backend'[c] \in Data
      /\ \A e \in Contact \ {c} : backend'[e] = backend[e]
  BY <1>1, <1>2, WrittenFacts
<1>5. PICK r \in Result : r = [id |-> c, data |-> backend'[c]]
  BY <1>4 DEF Result
<1>6. PICK old \in Commands : old = WithResult(command, r)
  BY <1>2, <1>3, <1>5, WithResultFacts
<1>7. /\ InPlace(old) /\ old.caller = command.caller /\ old.list = command.list
      /\ old.updated = command.updated
      /\ command.caller \in Caller /\ command.list \in Lists /\ locked
  BY <1>2, <1>3, <1>5, <1>6, WithResultFacts
<1>8. PICK cmd : cmd = [old EXCEPT !.updated = @ \cup {c}] OBVIOUS
<1>9. /\ cmd \in Commands /\ cmd.caller = command.caller /\ cmd.list = old.list
      /\ cmd.next = old.next /\ cmd.result = old.result /\ cmd.updated = command.updated \cup {c}
  BY <1>7, <1>8 DEF Commands
<1>10. InPlace(cmd)
  BY <1>7, <1>9 DEF InPlace
<1>11. PICK book : book = [cache EXCEPT ![c] = backend'[c]] OBVIOUS
<1>12. /\ failed' = failed \ {c} /\ missed' = missed \ {c}
       /\ Continue(cmd, book, {}, unannounced \cup {c})
  <2>1. contactLock \ {c} = {} BY <1>3
  <2> QED BY <1>2, <1>5, <1>6, <1>8, <1>11, <2>1 DEF UpdateDone, LastDetailChanged
<1>13. /\ book \in [Contact -> Data \cup {None}]
       /\ \A e \in entries \ (failed' \cup missed') : book[e] \in {None, backend'[e]}
  BY <1>2, <1>3, <1>4, <1>11, <1>12 DEF Core, CommandInv, TypeOK, FreshUnlessSkipped
<1>14. /\ unannounced \cup {c} \in SUBSET Contact
       /\ unannounced \cup {c} \subseteq failed' \cup missed' \cup cmd.updated
  BY <1>3, <1>7, <1>9, <1>12 DEF Core, CommandInv, TypeOK, News
<1>15. Rest' /\ TypeOK
  <2>1. Rest /\ TypeOK BY CoreRest DEF Core, CommandInv
  <2> QED BY <1>1, <1>4, <1>12, <2>1 DEF Rest, ReaderInv
<1> QED BY <1>1, <1>7, <1>9, <1>10, <1>12, <1>13, <1>14, <1>15, ContinueInv

\* Folks refuses a change.
LEMMA UpdateFailedCore ==
  ASSUME Core, UpdateFailed
  PROVE  Core' /\ Outcome(command.caller) /\ locked
<1>1. /\ request # None /\ request.attached /\ garbage' = Append(garbage, PostLevel)
      /\ halted' = "no"
      /\ UNCHANGED <<map, entries, backend, reader, called, queue, waiting, dropped, foreign, missed>>
  BY DEF UpdateFailed, ChangeRefused, Running
<1>2. PICK c \in Contact : c = request.update.id
  BY <1>1 DEF Core, CommandInv, TypeOK, Request, Update
<1>3. contactLock = {c} /\ c \in entries
  BY <1>1, <1>2 DEF Core, CommandInv
<1>4. Failure \in Result /\ Failure.id = None BY DEF Result, Failure
<1>5. PICK cmd \in Commands : cmd = WithResult(command, Failure)
  BY <1>3, <1>4, WithResultFacts
<1>6. /\ InPlace(cmd) /\ cmd.caller = command.caller /\ cmd.list = command.list
      /\ cmd.updated = command.updated
      /\ command.caller \in Caller /\ command.list \in Lists /\ locked
  BY <1>3, <1>4, <1>5, WithResultFacts
<1>7. failed' = failed \cup {c} /\ Continue(cmd, cache, {}, unannounced)
  <2>1. contactLock \ {c} = {} BY <1>3
  <2> QED BY <1>2, <1>5, <2>1 DEF UpdateFailed, ChangeRefused
<1>8. \A e \in entries \ (failed' \cup missed') : cache[e] \in {None, backend'[e]}
  BY <1>1, <1>3, <1>7 DEF Core, FreshUnlessSkipped
<1>9. unannounced \subseteq failed' \cup missed' \cup cmd.updated
  BY <1>1, <1>3, <1>6, <1>7 DEF Core, News
<1>10. Rest /\ TypeOK /\ cache \in [Contact -> Data \cup {None}] /\ unannounced \in SUBSET Contact
  BY CoreRest DEF Core, CommandInv
<1>11. Rest'
  <2>1. garbage' \in Seq(Nat) BY <1>1, <1>10, PostLevelType DEF Rest
  <2> QED BY <1>1, <1>7, <1>10, <2>1 DEF Rest, ReaderInv
<1> QED BY <1>1, <1>6, <1>7, <1>8, <1>9, <1>10, <1>11, ContinueInv

-----------------------------------------------------------------------------
(***************************************************************************)
(* Folks, readers and reloads                                              *)
(***************************************************************************)

\* A call moves, or a destructor: nothing else happens.
LEMMA CallsOnlyCore ==
  ASSUME Core, UNCHANGED <<entryVars, commandVars, history, halted>>,
         called' \in SUBSET Caller, dropped' \in SUBSET Caller, garbage' \in Seq(Nat),
         queue' \in Seq(Calls), waiting' \in Seq(Frame), replies' \in [Caller -> Seq(Reply)]
  PROVE  Core'
<1> USE DEF Core, entryVars, commandVars, history
<1>1. TypeOK' BY DEF CommandInv, TypeOK, Calls
<1>2. CommandInv' BY <1>1 DEF CommandInv, HaltedInv, ThreadWaits, Holds
<1>3. LockInv' BY DEF LockInv, InPlace
<1>4. ReaderInv' /\ FreshUnlessSkipped' /\ News' BY DEF ReaderInv, FreshUnlessSkipped, News
<1> QED BY <1>2, <1>3, <1>4

\* The command stays, and what is locked stays locked and loaded or is let go.
LEMMA CommandStays ==
  ASSUME Core, UNCHANGED <<commandVars, callVars>>, Rest', HaltedInv', halted \notin {"replaced", "created"},
         halted' \in {"no", "reload", "replaced", "created", "scan"},
         cache' \in [Contact -> Data \cup {None}], unannounced' \in SUBSET Contact,
         request' \in Request \cup {None}, contactLock' \subseteq contactLock,
         contactLock' \subseteq entries',
         contactLock' = (IF request' # None /\ request'.attached
                         THEN {request'.update.id} ELSE {}),
         contactLock' # {} => request'.original = request.original
                              /\ request'.update = request.update,
         \A e \in contactLock' :
           ~Holds(e)' /\ (halted' \notin {"replaced", "created"} => cache'[e] = cache[e]),
         FreshUnlessSkipped', News'
  PROVE  Core'
<1>1. TypeOK' BY CoreRest DEF Core, CommandInv, TypeOK, Rest, commandVars, callVars, Calls
<1>2. CommandInv'
  <2> SUFFICES ASSUME NEW e \in contactLock'
               PROVE  /\ locked' /\ e \in entries'
                      /\ halted' \notin {"replaced", "created"} => cache'[e] = request'.original
                      /\ ~Holds(e)'
                      /\ command'.list[command'.next - 1] = request'.update
    BY <1>1 DEF CommandInv, Rest
  <2> QED BY DEF Core, CommandInv, commandVars
<1>3. LockInv' BY DEF Core, LockInv, InPlace, commandVars
<1> QED BY <1>2, <1>3 DEF Core, Rest

\* What shows of a contact, and what is still to be told of it.
FreshAt(c) == c \in entries \ (contactLock \cup failed \cup missed) => cache[c] \in {None, backend[c]}
NewsAt(c) ==
  c \in unannounced =>
    c \in failed \cup missed \/ (locked /\ c \in command.updated \cup contactLock)

\* Nothing is touched but the individual of c.
Elsewhere(c) ==
  \A e \in Contact \ {c} :
    /\ e \in entries' <=> e \in entries
    /\ backend'[e] = backend[e] /\ cache'[e] = cache[e]
    /\ e \in contactLock' <=> e \in contactLock
    /\ e \in failed' <=> e \in failed
    /\ e \in missed' <=> e \in missed
    /\ e \in unannounced' <=> e \in unannounced

LEMMA OneContact ==
  ASSUME Core, UNCHANGED commandVars, NEW c \in Contact, Elsewhere(c), FreshAt(c)', NewsAt(c)',
         entries' \in SUBSET Contact, unannounced' \in SUBSET Contact
  PROVE  FreshUnlessSkipped' /\ News'
<1>1. ASSUME NEW e \in entries' \ (contactLock' \cup failed' \cup missed')
      PROVE  cache'[e] \in {None, backend'[e]}
  <2>1. CASE e = c BY <1>1, <2>1 DEF FreshAt
  <2>2. CASE e # c BY <1>1, <2>2 DEF Core, FreshUnlessSkipped, Elsewhere
  <2> QED BY <2>1, <2>2
<1>2. ASSUME NEW e \in unannounced'
      PROVE  e \in failed' \cup missed' \/ (locked' /\ e \in command'.updated \cup contactLock')
  <2>1. CASE e = c BY <1>2, <2>1 DEF NewsAt
  <2>2. CASE e # c
    <3>1. e \in Contact /\ e \in unannounced BY <1>2, <2>2 DEF Elsewhere
    <3>2. e \in failed \cup missed \/ (locked /\ e \in command.updated \cup contactLock)
      BY <3>1 DEF Core, News
    <3> QED BY <2>2, <3>1, <3>2 DEF Elsewhere, commandVars
  <2> QED BY <2>1, <2>2
<1> QED BY <1>1, <1>2 DEF FreshUnlessSkipped, News

\* At any time.
LEMMA AtAnyTime ==
  ASSUME Core, NEW c \in Contact
  PROVE  FreshAt(c) /\ NewsAt(c)
BY DEF Core, FreshUnlessSkipped, News, FreshAt, NewsAt

\* An individual tells of a change, or skips it: what folks has of no other has changed.
LEMMA FolksTellsCore ==
  ASSUME Core, Running, NEW c \in Contact, FolksTells(c),
         backend' \in [Contact -> Data], \A e \in Contact \ {c} : backend'[e] = backend[e],
         UNCHANGED <<map, entries, contactLock, reader, halted, commandVars, callVars>>,
         garbage' = garbage, request' \in Request \cup {None},
         contactLock = (IF request' # None /\ request'.attached
                         THEN {request'.update.id} ELSE {}),
         contactLock # {} => request'.original = request.original
                              /\ request'.update = request.update
  PROVE  Core'
<1>1. /\ Rest /\ cache \in [Contact -> Data \cup {None}]
      /\ unannounced \in SUBSET Contact /\ contactLock \subseteq entries
  BY CoreRest
<1>2. \A e \in contactLock : ~Holds(e)' /\ ~Holds(e) BY DEF Core, CommandInv, Holds
<1>3. /\ halted = "no" /\ HaltedInv' BY DEF Running, HaltedInv
<1>4. FreshAt(c) /\ NewsAt(c) BY AtAnyTime
<1>5. /\ cache' \in [Contact -> Data \cup {None}] /\ unannounced' \in SUBSET Contact
      /\ failed' \in SUBSET Contact /\ missed' \in SUBSET Contact
      /\ Elsewhere(c) /\ FreshAt(c)' /\ NewsAt(c)'
      /\ \A e \in contactLock' : cache'[e] = cache[e]
      /\ Holds(c) => c \in missed'
      /\ ~Holds(c) => missed' \in {missed, missed \ {c}}
  <2>1. CASE /\ c \in contactLock /\ unannounced' = unannounced \cup {c}
             /\ UNCHANGED <<cache, failed, missed>>
    <3>1. locked BY <2>1 DEF Core, CommandInv
    <3>2. ~Holds(c) BY <1>2, <2>1
    <3> QED BY <1>1, <2>1, <3>1, <3>2 DEF Rest, Elsewhere, FreshAt, NewsAt, commandVars
  <2>2. CASE /\ Holds(c) /\ unannounced' = unannounced \cup {c} /\ missed' = missed \cup {c}
             /\ UNCHANGED <<cache, failed>>
    BY <1>1, <2>2 DEF Rest, Elsewhere, FreshAt, NewsAt
  <2>3. CASE /\ c \notin contactLock /\ ~Holds(c) /\ cache' = [cache EXCEPT ![c] = None]
             /\ unannounced' = unannounced \ {c} /\ failed' = failed \ {c}
             /\ missed' = missed \ {c}
    BY <1>1, <2>3 DEF Rest, Elsewhere, FreshAt, NewsAt
  <2> QED BY <2>1, <2>2, <2>3 DEF FolksTells
<1>6. Rest'
  <2>1. ReaderInv'
    <3> SUFFICES ASSUME reader # None, reader.data # None, reader.contact \notin missed'
                 PROVE  reader.data = backend'[reader.contact]
      BY DEF ReaderInv
    <3>1. reader.contact \in Contact BY <1>1 DEF Rest
    <3>2. CASE reader.contact = c BY <1>5, <3>2 DEF Holds
    <3>3. CASE reader.contact # c
      <4>1. reader.contact \notin missed BY <1>5, <3>1, <3>3 DEF Elsewhere
      <4> QED BY <1>1, <3>1, <3>3, <4>1 DEF Rest, ReaderInv
    <3> QED BY <3>2, <3>3
  <2> QED BY <1>1, <1>5, <2>1 DEF Rest, callVars
<1>7. FreshUnlessSkipped' /\ News'
  BY <1>1, <1>5, OneContact DEF Rest
<1> QED BY <1>1, <1>2, <1>3, <1>5, <1>6, <1>7, CommandStays

\* A detail is changed and there are others.
LEMMA DetailChangedCore ==
  ASSUME Core, DetailChanged
  PROVE  Core'
<1>1. /\ request # None /\ Left # {} /\ backend' = Written /\ Running
      /\ request' = [request EXCEPT !.detail = Min(Left)] /\ FolksTells(request.update.id)
      /\ UNCHANGED <<map, entries, contactLock, reader, halted, commandVars, callVars, garbage>>
  BY DEF DetailChanged
<1>2. PICK c \in Contact : c = request.update.id BY <1>1, WrittenFacts
<1>3. /\ request \in Request /\ backend' \in [Contact -> Data]
      /\ \A e \in Contact \ {c} : backend'[e] = backend[e]
  BY <1>1, <1>2, WrittenFacts
<1>4. Min(Left) \in 1..Details
  <2>1. request.detail \in Nat BY <1>3, DetailsAssumption DEF Request
  <2>2. Left \in SUBSET Nat /\ Left \subseteq 1..Details
    BY <2>1, DetailsAssumption DEF Left, Differing
  <2> QED BY <1>1, <2>2, MinIsIn
<1>5. /\ request' \in Request /\ request'.update = request.update
      /\ request'.original = request.original /\ request'.attached = request.attached
  BY <1>1, <1>3, <1>4 DEF Request
<1>6. request' # None BY <1>5, NoneAssumption
<1>7. contactLock = IF request.attached THEN {c} ELSE {}
  BY <1>1, <1>2, CoreRest
<1> QED BY <1>1, <1>2, <1>3, <1>5, <1>6, <1>7, FolksTellsCore

\* Nothing of the individuals changes, but that the request is dropped.
LEMMA RequestGone ==
  ASSUME Core, Running, request # None, ~request.attached, request' = None,
         garbage' \in Seq(Nat),
         UNCHANGED <<map, entries, backend, cache, contactLock, reader, commandVars, callVars, history, halted>>
  PROVE  Core'
<1>1. /\ Rest /\ cache \in [Contact -> Data \cup {None}]
      /\ unannounced \in SUBSET Contact /\ contactLock = {}
  BY CoreRest
<1>2. Rest' BY <1>1 DEF Rest, ReaderInv, callVars, history
<1>3. halted = "no" /\ HaltedInv' BY DEF Running, HaltedInv
<1>4. FreshUnlessSkipped' /\ News'
  BY DEF Core, FreshUnlessSkipped, News, history, commandVars
<1> QED BY <1>1, <1>2, <1>3, <1>4, CommandStays DEF history

\* A request without its individual ends.
LEMMA DetachedDoneCore ==
  ASSUME Core, DetachedDone
  PROVE  Core'
<1>1. /\ request # None /\ ~request.attached /\ request' = None /\ Running
      /\ UNCHANGED <<map, entries, contactLock, reader, commandVars, callVars, foreign, halted>>
  BY DEF DetachedDone
<1>2. contactLock = {} /\ waiting \in Seq(Frame) /\ garbage \in Seq(Nat)
  BY <1>1, CoreRest DEF Rest
<1>3. CASE backend' = Written /\ FolksTells(request.update.id) /\ garbage' = garbage
  <2>1. PICK c \in Contact : c = request.update.id BY <1>1, <1>3, WrittenFacts
  <2>2. /\ backend' \in [Contact -> Data]
        /\ \A e \in Contact \ {c} : backend'[e] = backend[e]
    BY <1>1, <1>3, <2>1, WrittenFacts
  <2> QED BY <1>1, <1>2, <1>3, <2>1, <2>2, FolksTellsCore
<1>4. CASE garbage' = Append(garbage, PostLevel)
           /\ UNCHANGED <<backend, cache, failed, missed, unannounced>>
  <2>1. garbage' \in Seq(Nat) BY <1>2, <1>4, PostLevelType
  <2> QED BY <1>1, <1>4, <2>1, RequestGone DEF history
<1> QED BY <1>3, <1>4 DEF DetachedDone

\* Individuals are destroyed, that of the update among them or not.
LEMMA DestroyedCore ==
  ASSUME Core, NEW cs \in SUBSET Contact, Destroyed(cs), map' \in BOOLEAN, ~map' => entries' = {}
  PROVE  Core'
<1>1. /\ entries' = entries \ cs /\ contactLock' = contactLock \ cs
      /\ cache' = [c \in Contact |-> IF c \in cs THEN None ELSE cache[c]]
      /\ request' = IF contactLock \cap cs # {} THEN [request EXCEPT !.attached = FALSE] ELSE request
      /\ failed' = failed \ cs /\ missed' = missed \ cs /\ unannounced' = unannounced \ cs
      /\ reader = None /\ halted = "no"
      /\ UNCHANGED <<backend, reader, commandVars, callVars, foreign, garbage, halted>>
  BY DEF Destroyed, Running
<1>2. /\ Rest /\ cache \in [Contact -> Data \cup {None}]
      /\ unannounced \in SUBSET Contact /\ contactLock \subseteq entries
      /\ request \in Request \cup {None}
      /\ contactLock = IF request # None /\ request.attached THEN {request.update.id} ELSE {}
  BY CoreRest
<1>3. Rest' /\ HaltedInv' BY <1>1, <1>2 DEF Rest, ReaderInv, callVars, HaltedInv
<1>4. /\ request' \in Request \cup {None}
      /\ contactLock' = IF request' # None /\ request'.attached THEN {request'.update.id} ELSE {}
      /\ contactLock' # {} => request' = request
  <2>1. CASE contactLock \cap cs # {}
    <3>1. request \in Request /\ contactLock = {request.update.id} BY <1>2, <2>1
    <3>2. request' \in Request /\ ~request'.attached BY <1>1, <2>1, <3>1 DEF Request
    <3>3. contactLock' = {} BY <1>1, <2>1, <3>1
    <3> QED BY <3>2, <3>3
  <2>2. CASE contactLock \cap cs = {} BY <1>1, <1>2, <2>2
  <2> QED BY <2>1, <2>2
<1>5. /\ \A e \in contactLock' : ~Holds(e)' /\ cache'[e] = cache[e]
      /\ cache' \in [Contact -> Data \cup {None}]
  BY <1>1, <1>2 DEF Holds, Rest
<1>6. FreshUnlessSkipped'
  BY <1>1, <1>2 DEF Rest, Core, FreshUnlessSkipped
<1>7. News' BY <1>1 DEF Core, News, commandVars
<1>8. contactLock' \subseteq contactLock /\ contactLock' \subseteq entries' BY <1>1, <1>2
<1> QED BY <1>1, <1>2, <1>3, <1>4, <1>5, <1>6, <1>7, <1>8, CommandStays

\* The contact of one individual is loaded, or its entry comes.
LEMMA LoadedCore ==
  ASSUME Core, Running, NEW c \in Contact, FreshAt(c)', NewsAt(c)', Elsewhere(c),
         map, entries' = entries \cup {c}, cache' \in [Contact -> Data \cup {None}],
         HaltedInv', halted' \in {"no", "replaced", "created"},
         c \in contactLock => cache'[c] = cache[c] \/ halted' \in {"replaced", "created"},
         unannounced' \subseteq unannounced, failed' \subseteq failed,
         reader' = reader \/ reader' = None, missed' = missed \/ reader' = None,
         missed' \subseteq missed,
         UNCHANGED <<map, backend, contactLock, request, commandVars, callVars, garbage>>
  PROVE  Core'
<1>1. /\ Rest /\ cache \in [Contact -> Data \cup {None}]
      /\ unannounced \in SUBSET Contact /\ contactLock \subseteq entries
      /\ request \in Request \cup {None}
      /\ contactLock = IF request # None /\ request.attached THEN {request.update.id} ELSE {}
  BY CoreRest
<1>2. Rest' BY <1>1 DEF Rest, ReaderInv, callVars
<1>3. halted = "no" /\ unannounced' \in SUBSET Contact BY <1>1 DEF Running
<1>4. \A e \in contactLock' :
        ~Holds(e)' /\ (halted' \notin {"replaced", "created"} => cache'[e] = cache[e])
  <2> SUFFICES ASSUME NEW e \in contactLock
               PROVE  ~Holds(e)' /\ (halted' \notin {"replaced", "created"} => cache'[e] = cache[e])
    OBVIOUS
  <2>1. ~Holds(e) /\ e \in Contact BY <1>1 DEF Core, CommandInv, Rest
  <2>2. ~Holds(e)' BY <2>1 DEF Holds
  <2>3. CASE e = c BY <2>2, <2>3
  <2>4. CASE e # c BY <2>1, <2>2, <2>4 DEF Elsewhere
  <2> QED BY <2>3, <2>4
<1>5. FreshUnlessSkipped' /\ News'
  BY <1>1, <1>3, OneContact DEF Rest
<1> QED BY <1>1, <1>2, <1>3, <1>4, <1>5, CommandStays

\* An entry comes, a new individual or a persona for one that there is.
LEMMA EntryCore ==
  ASSUME Core, NEW c \in Contact,
         EntryAdded(c) \/ EntryRepeated(c) \/ EntryReplaced(c) \/ Created(c) \/ Read(c)
  PROVE  Core'
<1>1. /\ Rest /\ cache \in [Contact -> Data \cup {None}] /\ contactLock \subseteq entries
      /\ unannounced \in SUBSET Contact /\ FreshAt(c) /\ NewsAt(c)
  BY CoreRest, AtAnyTime
<1>2. Running /\ halted = "no"
  BY DEF EntryAdded, EntryRepeated, EntryReplaced, Created, Read, Running
<1>3. backend \in [Contact -> Data] /\ entries \in SUBSET Contact BY <1>1 DEF Rest
<1>4. c \in contactLock => cache[c] # None
  BY <1>2, NoneAssumption, CoreRest DEF Core, CommandInv, Request
<1>5. c \in entries => map BY <1>1 DEF Rest
<1>6. CASE EntryAdded(c) \/ Read(c)
  <2>1. /\ map /\ c \notin contactLock /\ entries' = entries \cup {c}
        /\ cache' = [cache EXCEPT ![c] = backend[c]]
        /\ UNCHANGED <<map, backend, contactLock, request, reader, commandVars, callVars, history,
                       garbage, halted>>
    BY <1>1, <1>3, <1>4, <1>5, <1>6 DEF EntryAdded, Read
  <2>2. HaltedInv' BY <1>2, <2>1 DEF HaltedInv
  <2>3. /\ cache' \in [Contact -> Data \cup {None}] /\ cache'[c] = backend[c]
        /\ \A e \in Contact \ {c} : cache'[e] = cache[e]
    BY <1>1, <1>3, <2>1
  <2>4. FreshAt(c)' /\ NewsAt(c)' /\ Elsewhere(c)
    BY <1>1, <2>1, <2>3 DEF FreshAt, NewsAt, Elsewhere, history, commandVars
  <2> QED BY <1>2, <2>1, <2>2, <2>3, <2>4, LoadedCore DEF history
<1>7. CASE EntryRepeated(c)
  <2>1. /\ map /\ entries' = entries \cup {c} /\ unannounced' = unannounced \ {c}
        /\ cache' = IF cache[c] = None THEN [cache EXCEPT ![c] = backend[c]] ELSE cache
        /\ UNCHANGED <<map, backend, contactLock, request, reader, commandVars, callVars,
                       foreign, failed, missed, garbage, halted>>
    BY <1>5, <1>7 DEF EntryRepeated
  <2>2. HaltedInv' BY <1>2, <2>1 DEF HaltedInv
  <2>3. /\ cache' \in [Contact -> Data \cup {None}]
        /\ cache'[c] \in {cache[c], backend[c]}
        /\ c \in contactLock => cache'[c] = cache[c]
        /\ \A e \in Contact \ {c} : cache'[e] = cache[e]
    BY <1>1, <1>3, <1>4, <2>1
  <2>4. c \in entries BY <1>7 DEF EntryRepeated
  <2>5. FreshAt(c)' /\ NewsAt(c)' /\ Elsewhere(c)
    BY <1>1, <2>1, <2>3, <2>4 DEF FreshAt, NewsAt, Elsewhere
  <2> QED BY <1>2, <2>1, <2>2, <2>3, <2>5, LoadedCore
<1>8. CASE EntryReplaced(c) \/ Created(c)
  <2>1. /\ map /\ c \in entries /\ entries' = entries \cup {c}
        /\ UNCHANGED <<map, backend, contactLock, request, reader, commandVars, callVars, garbage>>
        /\ \/ reader' = None /\ failed' = failed \ {c} /\ missed' = missed \ {c}
              /\ unannounced' = unannounced \ {c}
           \/ UNCHANGED <<failed, missed, unannounced>>
    BY <1>5, <1>8 DEF EntryReplaced, Created, history
  <2>2. ReadAgain(c, "replaced") \/ ReadAgain(c, "created")
    BY <1>8 DEF EntryReplaced, Created
  <2>3. /\ cache' \in [Contact -> Data \cup {None}] /\ cache'[c] \in {None, backend[c]}
        /\ \A e \in Contact \ {c} : cache'[e] = cache[e]
        /\ c \in contactLock => halted' \in {"replaced", "created"}
        /\ c \notin contactLock => halted' = "no"
    BY <1>1, <1>2, <1>3, <2>2 DEF ReadAgain
  <2>4. HaltedInv' BY <2>1, <2>3 DEF HaltedInv
  <2>5. FreshAt(c)' BY <2>1, <2>3 DEF FreshAt
  <2>6. NewsAt(c)' BY <1>1, <2>1 DEF NewsAt, commandVars
  <2>7. Elsewhere(c) BY <2>1, <2>3 DEF Elsewhere
  <2>8. /\ halted' \in {"no", "replaced", "created"} /\ unannounced' \subseteq unannounced
        /\ failed' \subseteq failed /\ missed' \subseteq missed
        /\ reader' = reader /\ (missed' = missed \/ reader' = None)
    BY <2>1, <2>3
  <2> QED BY <1>2, <2>1, <2>3, <2>4, <2>5, <2>6, <2>7, <2>8, LoadedCore
<1> QED BY <1>6, <1>7, <1>8

\* Somebody else changes a detail.
LEMMA ForeignCore ==
  ASSUME Core, NEW c \in Contact, NEW d \in 1..Details, NEW v \in Value, ForeignChange(c, d, v)
  PROVE  Core'
<1>1. /\ Running /\ FolksTells(c) /\ backend' = [backend EXCEPT ![c][d] = v]
      /\ UNCHANGED <<map, entries, contactLock, request, reader, commandVars, callVars, garbage, halted>>
  BY DEF ForeignChange
<1>2. /\ Rest /\ request \in Request \cup {None}
      /\ contactLock = IF request # None /\ request.attached THEN {request.update.id} ELSE {}
  BY CoreRest
<1>3. /\ backend' \in [Contact -> Data]
      /\ \A e \in Contact \ {c} : backend'[e] = backend[e]
  <2>1. backend \in [Contact -> Data] BY <1>2 DEF Rest
  <2>2. backend' = [backend EXCEPT ![c] = [backend[c] EXCEPT ![d] = v]] BY <1>1
  <2>3. [backend[c] EXCEPT ![d] = v] \in Data BY <2>1 DEF Data
  <2> QED BY <2>1, <2>2, <2>3
<1> QED BY <1>1, <1>2, <1>3, FolksTellsCore

\* A filter thread loads a contact.
LEMMA ThreadCore ==
  ASSUME Core, (\E c \in Contact : ThreadChecks(c)) \/ ThreadLocks \/ ThreadLoads \/ ScanWaits
  PROVE  Core'
<1>1. /\ Rest /\ cache \in [Contact -> Data \cup {None}]
      /\ unannounced \in SUBSET Contact /\ contactLock \subseteq entries
      /\ request \in Request \cup {None}
      /\ contactLock = IF request # None /\ request.attached THEN {request.update.id} ELSE {}
  BY CoreRest
<1>2. /\ Running /\ halted = "no"
      /\ UNCHANGED <<map, entries, backend, contactLock, request, commandVars, callVars, history, garbage>>
  BY DEF ThreadChecks, ThreadLocks, ThreadLoads, ScanWaits, Running, entryVars
<1>3. \A e \in contactLock : ~Holds(e) BY DEF Core, CommandInv
<1>4. News' BY <1>2 DEF Core, News, history, commandVars
<1>5. CASE reader' # None /\ UNCHANGED <<cache, halted>>
           /\ reader' \in [contact : entries, data : Data \cup {None}] /\ ReaderInv'
           /\ \A e \in contactLock : ~Holds(e)'
  <2>1. Rest' BY <1>1, <1>2, <1>5 DEF Rest, history, callVars
  <2>2. HaltedInv' BY <1>2, <1>5 DEF HaltedInv
  <2>3. FreshUnlessSkipped' BY <1>2, <1>5 DEF Core, FreshUnlessSkipped, history
  <2> QED BY <1>1, <1>2, <1>4, <1>5, <2>1, <2>2, <2>3, CommandStays DEF history
<1>6. ASSUME NEW c \in Contact, ThreadChecks(c) PROVE Core'
  <2>1. /\ reader' = [contact |-> c, data |-> None] /\ c \in entries
        /\ UNCHANGED <<cache, halted>>
    BY <1>6 DEF ThreadChecks
  <2>2. /\ reader' \in [contact : entries, data : Data \cup {None}] /\ reader'.data = None
    BY <2>1
  <2>3. reader' # None BY <1>1, <2>1, NoneAssumption DEF Rest
  <2>4. ReaderInv' /\ \A e \in contactLock : ~Holds(e)' BY <2>2 DEF ReaderInv, Holds
  <2> QED BY <1>5, <2>1, <2>2, <2>3, <2>4
<1>7. CASE ThreadLocks
  <2>1. /\ reader # None /\ reader.contact \notin contactLock
        /\ reader' = [reader EXCEPT !.data = backend[reader.contact]]
        /\ UNCHANGED <<cache, halted>>
    BY <1>7 DEF ThreadLocks
  <2>2. PICK c \in entries : c = reader.contact BY <1>1, <2>1 DEF Rest
  <2>3. c \in Contact /\ backend[c] \in Data BY <1>1, <2>2 DEF Rest
  <2>4. reader' = [contact |-> c, data |-> backend[c]]
    BY <1>1, <2>1, <2>2 DEF Rest
  <2>5. reader' \in [contact : entries, data : Data \cup {None}] /\ reader' # None
    BY <1>1, <2>3, <2>4, NoneAssumption DEF Rest
  <2>6. reader'.contact = c /\ reader'.data = backend[c] BY <2>4
  <2>7. ReaderInv' BY <1>2, <2>6 DEF ReaderInv
  <2>8. \A e \in contactLock : ~Holds(e)' BY <2>1, <2>2, <2>6 DEF Holds
  <2> QED BY <1>5, <2>1, <2>5, <2>7, <2>8
<1>8. CASE ThreadLoads
  <2>1. /\ reader # None /\ reader.data # None /\ reader' = None /\ halted' = halted
        /\ \E new \in Data :
             /\ \A d \in 1..Details : new[d] \in {reader.data[d], backend[reader.contact][d]}
             /\ cache' = [cache EXCEPT ![reader.contact] = new]
    BY <1>8 DEF ThreadLoads
  <2>2. PICK c \in entries : c = reader.contact BY <1>1, <2>1 DEF Rest
  <2>3. PICK new \in Data :
          /\ \A d \in 1..Details : new[d] \in {reader.data[d], backend[c][d]}
          /\ cache' = [cache EXCEPT ![c] = new]
    BY <2>1, <2>2
  <2>4. c \in Contact /\ backend[c] \in Data /\ map BY <1>1, <2>2 DEF Rest
  <2>5. c \notin contactLock BY <1>3, <2>1, <2>2 DEF Holds
  <2>6. c \notin missed => new = backend[c]
    <3> SUFFICES ASSUME c \notin missed PROVE new = backend[c] OBVIOUS
    <3>1. reader.data = backend[c] BY <1>1, <2>1, <2>2 DEF Rest, ReaderInv
    <3>2. \A d \in 1..Details : new[d] = backend[c][d] BY <2>3, <3>1
    <3>3. /\ DOMAIN new = 1..Details /\ DOMAIN backend[c] = 1..Details
          /\ new = [d \in DOMAIN new |-> new[d]] /\ backend[c] = [d \in DOMAIN backend[c] |-> backend[c][d]]
      BY <2>3, <2>4 DEF Data
    <3> QED BY <3>2, <3>3
  <2>7. /\ cache' \in [Contact -> Data \cup {None}] /\ cache'[c] = new
        /\ \A e \in Contact \ {c} : cache'[e] = cache[e]
    BY <1>1, <2>3, <2>4
  <2>8. FreshAt(c)' BY <1>2, <2>6, <2>7 DEF FreshAt, history
  <2>9. NewsAt(c)' BY <1>2, <2>4, AtAnyTime DEF NewsAt, history, commandVars
  <2>10. Elsewhere(c) BY <1>2, <2>7 DEF Elsewhere, history
  <2>11. HaltedInv' BY <1>2, <2>1 DEF HaltedInv
  <2>12. entries' = entries \cup {c} /\ halted' \in {"no", "replaced", "created"} BY <1>2, <2>1, <2>2
  <2> QED BY <1>2, <2>1, <2>4, <2>5, <2>7, <2>8, <2>9, <2>10, <2>11, <2>12, LoadedCore DEF history
<1>9. CASE ScanWaits
  <2>1. /\ reader # None /\ reader.contact \in contactLock /\ halted' = "scan"
        /\ UNCHANGED <<cache, reader>>
    BY <1>9 DEF ScanWaits, entryVars
  <2>2. HaltedInv' BY <1>2, <2>1 DEF HaltedInv, ThreadWaits
  <2>3. Rest' BY <1>1, <1>2, <2>1 DEF Rest, ReaderInv, history, callVars
  <2>4. FreshUnlessSkipped' BY <1>2, <2>1 DEF Core, FreshUnlessSkipped, history
  <2>5. \A e \in contactLock : ~Holds(e)' BY <1>3, <2>1 DEF Holds
  <2> QED BY <1>1, <1>2, <1>4, <2>1, <2>2, <2>3, <2>4, <2>5, CommandStays DEF history
<1> QED BY <1>6, <1>7, <1>8, <1>9

\* A reload, and everything else that happens to the individuals.
LEMMA FolksChangesCore ==
  ASSUME Core, (\E c \in Contact : EntryChanges(c) \/ Read(c)) \/ Unprepare \/ Prepare
  PROVE  Core'
<1>1. Rest BY CoreRest
<1>2. ASSUME NEW c \in Contact, EntryRemoved(c) PROVE Core'
  <2>1. Destroyed({c}) /\ map' = map /\ entries' = entries \ {c}
    BY <1>2 DEF EntryRemoved, Destroyed
  <2> QED BY <1>1, <2>1, DestroyedCore DEF Rest
<1>3. CASE Unprepare
  <2>1. Destroyed(Contact) /\ map' = FALSE /\ entries' = entries \ Contact
    BY <1>3 DEF Unprepare, Destroyed
  <2> QED BY <1>1, <2>1, DestroyedCore DEF Rest
<1>4. CASE Prepare
  <2>1. /\ map' = TRUE /\ halted = "no"
        /\ UNCHANGED <<entries, backend, cache, contactLock, request, reader, commandVars, callVars,
                       history, garbage, halted>>
    BY <1>4 DEF Prepare, Running
  <2>2. Rest' BY <1>1, <2>1 DEF Rest, ReaderInv, history, callVars
  <2>3. HaltedInv' BY <2>1 DEF HaltedInv
  <2>4. FreshUnlessSkipped' /\ News' BY <2>1 DEF Core, FreshUnlessSkipped, News, history, commandVars
  <2>5. \A e \in contactLock : ~Holds(e)' BY <2>1 DEF Core, CommandInv, Holds
  <2> QED BY <2>1, <2>2, <2>3, <2>4, <2>5, CoreRest, CommandStays DEF history
<1>5. ASSUME NEW c \in Contact, EntryChanges(c) \/ Read(c) PROVE Core'
  BY <1>2, <1>5, EntryCore, ForeignCore DEF EntryChanges
<1> QED BY <1>3, <1>4, <1>5

-----------------------------------------------------------------------------
(***************************************************************************)
(* The calls                                                               *)
(***************************************************************************)

\* The call j stays at its place.
Stays(j) ==
  /\ Queued(j)' <=> Queued(j)
  /\ Waits(j)' <=> Waits(j)
  /\ HasLock(j)' <=> HasLock(j)
  /\ Over(j)' <=> Over(j)

\* The replies are one for each call that is over, and so are the calls that gave up.
RepliesInv == OneReply /\ \A k \in dropped : Over(k)

\* One call goes from one place to another.
LEMMA OneMoves ==
  ASSUME CallsInv, NEW k \in Caller, called' = called \cup {k},
         \A j \in Caller \ {k} : Stays(j),
         OneOf(Queued(k)', Waits(k)', HasLock(k)', Over(k)'),
         QueuedOnce', WaitsOnce', RepliesInv'
  PROVE  CallsInv'
<1>1. ASSUME NEW j \in Caller
      PROVE  (IF j \in called THEN OneOf(Queued(j), Waits(j), HasLock(j), Over(j))
              ELSE ~Queued(j) /\ ~Waits(j) /\ ~HasLock(j) /\ ~Over(j))'
  <2>1. CASE j = k BY <2>1
  <2>2. CASE j # k
    <3>1. j \in called' <=> j \in called BY <2>2
    <3> QED BY <2>2, <3>1 DEF CallsInv, Places, OneOf, Stays
  <2> QED BY <2>1, <2>2
<1>2. Places' BY <1>1 DEF Places
<1> QED BY <1>2 DEF CallsInv, RepliesInv

\* The calls stay where they are.
LEMMA CallsStay ==
  ASSUME CallsInv, called' = called, \A j \in Caller : Stays(j), QueuedOnce', WaitsOnce', RepliesInv'
  PROVE  CallsInv'
<1>1. ASSUME NEW j \in Caller
      PROVE  (IF j \in called THEN OneOf(Queued(j), Waits(j), HasLock(j), Over(j))
              ELSE ~Queued(j) /\ ~Waits(j) /\ ~HasLock(j) /\ ~Over(j))'
  BY DEF CallsInv, Places, OneOf, Stays
<1>2. Places' BY <1>1 DEF Places
<1> QED BY <1>2 DEF CallsInv, RepliesInv

\* A call is queued.
LEMMA QueueGrows ==
  ASSUME NEW S, queue \in Seq(S), NEW e \in S, queue' = Append(queue, e), QueuedOnce,
         ~Queued(e.caller)
  PROVE  /\ Queued(e.caller)' /\ QueuedOnce'
         /\ \A j : j # e.caller => (Queued(j)' <=> Queued(j))
<1>1. PICK n \in Nat : n = Len(queue) OBVIOUS
<1>2. /\ DOMAIN queue = 1..n /\ DOMAIN queue' = 1..(n + 1) /\ queue'[n + 1] = e
      /\ \A i \in 1..n : queue'[i] = queue[i]
  BY <1>1
<1>3. /\ \A i \in DOMAIN queue' : i \in DOMAIN queue \/ i = n + 1
      /\ \A i \in DOMAIN queue : i \in DOMAIN queue' /\ queue'[i] = queue[i]
      /\ n + 1 \in DOMAIN queue'
  BY <1>2
<1> QED BY <1>2, <1>3 DEF Queued, QueuedOnce

\* The oldest call is taken from the queue.
LEMMA QueueShrinks ==
  ASSUME NEW S, queue \in Seq(S), queue # << >>, queue' = Tail(queue), QueuedOnce,
         NEW k, k = Head(queue).caller
  PROVE  /\ Head(queue) \in S /\ queue' \in Seq(S)
         /\ Queued(k) /\ ~Queued(k)' /\ QueuedOnce'
         /\ \A j : j # k => (Queued(j)' <=> Queued(j))
<1>1. PICK n \in Nat \ {0} : n = Len(queue) OBVIOUS
<1>2. /\ DOMAIN queue = 1..n /\ DOMAIN queue' = 1..(n - 1) /\ Head(queue) = queue[1]
      /\ \A i \in 1..(n - 1) : queue'[i] = queue[i + 1]
      /\ Head(queue) \in S /\ queue' \in Seq(S)
  BY <1>1
<1>3. /\ \A i \in DOMAIN queue' : i + 1 \in DOMAIN queue /\ queue'[i] = queue[i + 1] /\ i + 1 # 1
      /\ 1 \in DOMAIN queue
  BY <1>2
<1>4. Queued(k) /\ ~Queued(k)'
  BY <1>2, <1>3 DEF Queued, QueuedOnce
<1>5. QueuedOnce'
  <2> SUFFICES ASSUME NEW i \in DOMAIN queue', NEW j \in DOMAIN queue',
                      queue'[i].caller = queue'[j].caller
               PROVE  i = j
    BY DEF QueuedOnce
  <2>1. i + 1 = j + 1 BY <1>3 DEF QueuedOnce
  <2> QED BY <1>2, <2>1
<1>6. ASSUME NEW j, j # k PROVE Queued(j)' <=> Queued(j)
  <2>1. Queued(j)' => Queued(j) BY <1>3 DEF Queued
  <2>2. ASSUME Queued(j) PROVE Queued(j)'
    <3>1. PICK i \in DOMAIN queue : queue[i].caller = j BY <2>2 DEF Queued
    <3>2. i # 1 BY <1>2, <1>6, <3>1
    <3>3. i - 1 \in DOMAIN queue' /\ queue'[i - 1] = queue[i] BY <1>2, <3>1, <3>2
    <3> QED BY <3>1, <3>3 DEF Queued
  <2> QED BY <2>1, <2>2
<1> QED BY <1>2, <1>4, <1>5, <1>6

\* A call waits inside the innermost one.
LEMMA WaitingGrows ==
  ASSUME waiting \in Seq(Frame), NEW e \in Frame, waiting' = Append(waiting, e), WaitsOnce,
         e.call.caller \in Caller => ~Waits(e.call.caller)
  PROVE  /\ waiting' \in Seq(Frame) /\ WaitsOnce' /\ Waits(e.call.caller)'
         /\ \A j : j # e.call.caller => (Waits(j)' <=> Waits(j))
<1>1. PICK n \in Nat : n = Len(waiting) OBVIOUS
<1>2. /\ DOMAIN waiting = 1..n /\ DOMAIN waiting' = 1..(n + 1) /\ waiting'[n + 1] = e
      /\ \A i \in 1..n : waiting'[i] = waiting[i]
      /\ waiting' \in Seq(Frame)
  BY <1>1
<1>3. /\ \A i \in DOMAIN waiting' : i \in DOMAIN waiting \/ i = n + 1
      /\ \A i \in DOMAIN waiting : i \in DOMAIN waiting' /\ waiting'[i] = waiting[i]
      /\ n + 1 \in DOMAIN waiting'
  BY <1>2
<1> QED BY <1>2, <1>3 DEF Waits, WaitsOnce

\* The innermost call waits no more.
LEMMA WaitingShrinks ==
  ASSUME waiting \in Seq(Frame), waiting # << >>, waiting' = Front(waiting), WaitsOnce,
         NEW k \in Caller, k = Last(waiting).call.caller
  PROVE  /\ waiting' \in Seq(Frame) /\ Waits(k) /\ ~Waits(k)' /\ WaitsOnce'
         /\ \A j : j # k => (Waits(j)' <=> Waits(j))
<1>1. PICK n \in Nat \ {0} : n = Len(waiting) OBVIOUS
<1>2. PICK e : e = Last(waiting) OBVIOUS
<1>3. DOMAIN waiting = 1..n /\ e = waiting[n]
  BY <1>1, <1>2 DEF Last
<1>4. /\ DOMAIN waiting' = 1..(n - 1) /\ waiting' \in Seq(Frame)
      /\ \A i \in 1..(n - 1) : waiting'[i] = waiting[i]
  BY <1>1 DEF Front
<1>5. /\ \A i \in DOMAIN waiting' : i \in DOMAIN waiting /\ i # n /\ waiting'[i] = waiting[i]
      /\ n \in DOMAIN waiting
      /\ \A i \in DOMAIN waiting : i # n => i \in DOMAIN waiting'
  BY <1>3, <1>4
<1> QED BY <1>2, <1>3, <1>4, <1>5 DEF Waits, WaitsOnce

\* The last element of a non-empty sequence is one of them.
LEMMA LastIsIn ==
  ASSUME NEW S, NEW s \in Seq(S), s # << >>
  PROVE  Last(s) \in S
<1>1. Len(s) \in Nat /\ Len(s) # 0 /\ DOMAIN s = 1..Len(s) OBVIOUS
<1>2. s[Len(s)] \in S BY <1>1
<1> QED BY <1>2 DEF Last

\* A nested event loop is that of a call that waits, or of a destructor, which is no call.
LEMMA FrameFacts ==
  /\ Destructor.call.caller \notin Caller /\ Destructor \in Frame
  /\ \A e \in Frame \ {Destructor} :
       e \in [call : Calls, tries : 0..MaxTries] /\ e.call \in Calls /\ e.call.caller \in Caller
<1>1. Destructor.call.caller = None BY DEF Destructor
<1> QED BY <1>1, NoneAssumption DEF Frame, Calls

\* A call ends with a reply: to its own message, or, when it gives up, to another.
LEMMA RepliesGrow ==
  ASSUME replies \in [Caller -> Seq(Reply)], NEW h \in Caller, NEW k \in Caller, NEW r,
         replies' = [replies EXCEPT ![h] = Append(@, [from |-> k, result |-> r])],
         RepliesInv, ~Over(k),
         \/ h = k /\ dropped' = dropped
         \/ h # k /\ dropped' = dropped \cup {k}
  PROVE  RepliesInv' /\ Over(k)' /\ \A j \in Caller \ {k} : Over(j)' <=> Over(j)
<1>1. PICK s \in Seq(Reply) : s = replies[h] OBVIOUS
<1>2. PICK n \in Nat : n = Len(s) OBVIOUS
<1>3. PICK e : e = [from |-> k, result |-> r] OBVIOUS
<1>4. PICK t : t = replies'[h] OBVIOUS
<1>5. /\ DOMAIN s = 1..n /\ DOMAIN t = 1..(n + 1) /\ t[n + 1] = e /\ \A i \in 1..n : t[i] = s[i]
  BY <1>1, <1>2, <1>3, <1>4
<1>6. /\ e.from = k /\ n + 1 \in DOMAIN t
      /\ \A i \in DOMAIN t : (i \in DOMAIN s /\ t[i] = s[i]) \/ i = n + 1
      /\ \A i \in DOMAIN s : i \in DOMAIN t /\ t[i] = s[i]
  BY <1>3, <1>5
<1>7. \A g \in Caller \ {h} : replies'[g] = replies[g] OBVIOUS
<1>8. ASSUME NEW g \in Caller, NEW m \in DOMAIN replies'[g]
      PROVE  \/ g = h /\ m = n + 1 /\ replies'[g][m].from = k
             \/ /\ m \in DOMAIN replies[g] /\ replies'[g][m] = replies[g][m]
                /\ replies[g][m].from # k
  <2>1. CASE g = h BY <1>1, <1>4, <1>5, <1>6, <2>1 DEF Over
  <2>2. CASE g # h BY <1>7, <2>2 DEF Over
  <2> QED BY <2>1, <2>2
<1>9. ASSUME NEW g \in Caller, NEW m \in DOMAIN replies[g]
      PROVE  m \in DOMAIN replies'[g] /\ replies'[g][m] = replies[g][m]
  <2>1. CASE g = h BY <1>1, <1>4, <1>6, <2>1
  <2>2. CASE g # h BY <1>7, <2>2
  <2> QED BY <2>1, <2>2
<1>10. Over(k)' BY <1>4, <1>5, <1>6 DEF Over
<1>11. ASSUME NEW j \in Caller \ {k} PROVE Over(j)' <=> Over(j)
  BY <1>8, <1>9, <1>11 DEF Over
<1>12. k \notin dropped BY DEF RepliesInv
<1>13. OneReply'
  <2> SUFFICES ASSUME NEW g \in Caller, NEW f \in Caller,
                      NEW m \in DOMAIN replies'[g], NEW i \in DOMAIN replies'[f]
               PROVE  /\ replies'[g][m].from = replies'[f][i].from => g = f /\ m = i
                      /\ replies'[g][m].from = g <=> replies'[g][m].from \notin dropped'
    BY DEF OneReply
  <2>1. replies'[g][m].from = replies'[f][i].from => g = f /\ m = i
    BY <1>8 DEF RepliesInv, OneReply
  <2>2. replies'[g][m].from = g <=> replies'[g][m].from \notin dropped'
    <3>1. CASE g = h /\ m = n + 1 /\ replies'[g][m].from = k
      BY <1>12, <3>1
    <3>2. CASE /\ m \in DOMAIN replies[g] /\ replies'[g][m] = replies[g][m]
               /\ replies[g][m].from # k
      <4>1. replies[g][m].from = g <=> replies[g][m].from \notin dropped
        BY <3>2 DEF RepliesInv, OneReply
      <4> QED BY <3>2, <4>1
    <3> QED BY <1>8, <3>1, <3>2
  <2> QED BY <2>1, <2>2
<1>14. ASSUME NEW j \in dropped' PROVE Over(j)'
  <2>1. j = k \/ j \in dropped BY <1>14
  <2>2. j \in dropped => Over(j) BY DEF RepliesInv
  <2>3. Over(j) => Over(j)' BY <1>9 DEF Over
  <2> QED BY <1>10, <2>1, <2>2, <2>3
<1> QED BY <1>10, <1>11, <1>13, <1>14 DEF RepliesInv

\* A command that continues still has the lock, or has answered its call.
LEMMA OutcomeFacts ==
  ASSUME replies \in [Caller -> Seq(Reply)], NEW k \in Caller, Outcome(k),
         ~locked \/ command.caller = k, ~Over(k), RepliesInv, dropped' = dropped
  PROVE  /\ \A j \in Caller \ {k} : (HasLock(j)' <=> HasLock(j)) /\ (Over(j)' <=> Over(j))
         /\ HasLock(k)' \/ Over(k)'
         /\ HasLock(k)' => ~Over(k)'
         /\ RepliesInv'
<1>1. CASE locked' /\ command'.caller = k /\ replies' = replies
  BY <1>1 DEF HasLock, Over, RepliesInv, OneReply
<1>2. ASSUME ~locked', NEW r,
             replies' = [replies EXCEPT ![k] = Append(@, [from |-> k, result |-> r])]
      PROVE  /\ \A j \in Caller \ {k} : Over(j)' <=> Over(j)
             /\ Over(k)' /\ RepliesInv'
  BY <1>2, RepliesGrow
<1> QED BY <1>1, <1>2 DEF Outcome, HasLock

\* A call is made.
LEMMA CallInv ==
  ASSUME Core, CallsInv, NEW k \in Caller, NEW list \in Lists, Call(k, list)
  PROVE  Core' /\ CallsInv'
<1>1. /\ k \notin called /\ called' = called \cup {k}
      /\ UNCHANGED <<entryVars, commandVars, waiting, replies, dropped, history, garbage, halted>>
  BY DEF Call
<1>2. PICK e \in Calls : e = [caller |-> k, list |-> list]
  BY DEF Calls
<1>3. queue' = Append(queue, e) /\ e.caller = k
  BY <1>2 DEF Call
<1>4. /\ queue \in Seq(Calls) /\ called \in SUBSET Caller /\ garbage \in Seq(Nat)
      /\ dropped \in SUBSET Caller /\ replies \in [Caller -> Seq(Reply)]
      /\ waiting \in Seq(Frame)
  BY CoreRest DEF Rest
<1>5. queue' \in Seq(Calls) BY <1>3, <1>4
<1>6. Core' BY <1>1, <1>4, <1>5, CallsOnlyCore
<1>7. ~Queued(k) /\ ~Waits(k) /\ ~HasLock(k) /\ ~Over(k) /\ QueuedOnce
  BY <1>1 DEF CallsInv, Places
<1>8. /\ Queued(k)' /\ QueuedOnce' /\ \A j \in Caller \ {k} : Queued(j)' <=> Queued(j)
  BY <1>2, <1>3, <1>4, <1>7, QueueGrows
<1>9. \A j \in Caller : /\ Waits(j)' <=> Waits(j)
                        /\ HasLock(j)' <=> HasLock(j)
                        /\ Over(j)' <=> Over(j)
  BY <1>1 DEF Waits, HasLock, Over, commandVars
<1>10. OneOf(Queued(k)', Waits(k)', HasLock(k)', Over(k)')
  BY <1>7, <1>8, <1>9 DEF OneOf
<1>11. WaitsOnce' /\ RepliesInv'
  BY <1>1 DEF WaitsOnce, CallsInv, RepliesInv, OneReply, Over
<1>12. \A j \in Caller \ {k} : Stays(j) BY <1>8, <1>9 DEF Stays
<1> QED BY <1>1, <1>6, <1>8, <1>10, <1>11, <1>12, OneMoves

\* A call that was at a place is at no other.
LEMMA AtOnePlace ==
  ASSUME CallsInv, NEW k \in Caller, Queued(k) \/ Waits(k) \/ HasLock(k) \/ Over(k)
  PROVE  k \in called /\ OneOf(Queued(k), Waits(k), HasLock(k), Over(k))
BY DEF CallsInv, Places

\* updateContacts runs: the call gets the lock, or waits.
LEMMA BeginInv ==
  ASSUME Core, CallsInv, Begin
  PROVE  Core' /\ CallsInv'
<1>1. /\ queue # << >> /\ queue' = Tail(queue) /\ Running
      /\ queue \in Seq(Calls) /\ called \in SUBSET Caller /\ garbage \in Seq(Nat)
      /\ dropped \in SUBSET Caller /\ replies \in [Caller -> Seq(Reply)]
      /\ waiting \in Seq(Frame)
      /\ QueuedOnce /\ WaitsOnce /\ RepliesInv
  BY CoreRest DEF Rest, Begin, CallsInv, RepliesInv
<1>2. PICK call \in Calls : call = Head(queue)
  <2>1. Head(queue) \in Calls BY <1>1, QueueShrinks
  <2> QED BY <2>1
<1>3. PICK k \in Caller : k = call.caller BY DEF Calls
<1>4. /\ queue' \in Seq(Calls)
      /\ Queued(k) /\ ~Queued(k)' /\ QueuedOnce'
      /\ \A j \in Caller \ {k} : Queued(j)' <=> Queued(j)
  BY <1>1, <1>2, <1>3, QueueShrinks
<1>5. k \in called /\ OneOf(Queued(k), Waits(k), HasLock(k), Over(k))
  BY <1>4, AtOnePlace
<1>6. ~Waits(k) /\ ~HasLock(k) /\ ~Over(k)
  BY <1>4, <1>5 DEF OneOf
<1>7. CASE ~locked
  <2>1. Enter(call) /\ waiting' = waiting /\ UNCHANGED <<called, dropped>>
    BY <1>2, <1>7 DEF Begin, Enter
  <2>2. Core' /\ Outcome(k)
    BY <1>1, <1>3, <1>4, <1>7, <2>1, EnterCore
  <2>3. /\ \A j \in Caller \ {k} : (HasLock(j)' <=> HasLock(j)) /\ (Over(j)' <=> Over(j))
        /\ HasLock(k)' \/ Over(k)'
        /\ HasLock(k)' => ~Over(k)'
        /\ RepliesInv'
    BY <1>1, <1>6, <1>7, <2>1, <2>2, OutcomeFacts
  <2>4. \A j \in Caller : Waits(j)' <=> Waits(j)
    BY <2>1 DEF Waits
  <2>5. \A j \in Caller \ {k} : Stays(j) BY <1>4, <2>3, <2>4 DEF Stays
  <2>6. OneOf(Queued(k)', Waits(k)', HasLock(k)', Over(k)')
    BY <1>4, <1>6, <2>3, <2>4 DEF OneOf
  <2>7. WaitsOnce' BY <1>1, <2>1 DEF WaitsOnce
  <2>8. called' = called \cup {k} BY <1>5, <2>1
  <2> QED BY <1>4, <2>2, <2>3, <2>5, <2>6, <2>7, <2>8, OneMoves
<1>8. CASE locked
  <2>1. PICK e : e = [call |-> call, tries |-> MaxTries] OBVIOUS
  <2>2. /\ waiting' = Append(waiting, e)
        /\ UNCHANGED <<entryVars, commandVars, called, replies, dropped, history, garbage, halted>>
    BY <1>2, <1>8, <2>1 DEF Begin
  <2>3. e \in Frame /\ e.call.caller = k
    <3>1. MaxTries \in 0..MaxTries BY BoundsAssumption
    <3> QED BY <1>3, <2>1, <3>1 DEF Frame, Calls
  <2>4. /\ waiting' \in Seq(Frame) /\ Waits(k)' /\ WaitsOnce'
        /\ \A j \in Caller \ {k} : Waits(j)' <=> Waits(j)
    BY <1>1, <1>6, <2>2, <2>3, WaitingGrows
  <2>5. Core' BY <1>1, <1>4, <2>2, <2>4, CallsOnlyCore
  <2>6. \A j \in Caller : (HasLock(j)' <=> HasLock(j)) /\ (Over(j)' <=> Over(j))
    BY <2>2 DEF HasLock, Over, commandVars
  <2>7. \A j \in Caller \ {k} : Stays(j) BY <1>4, <2>4, <2>6 DEF Stays
  <2>8. OneOf(Queued(k)', Waits(k)', HasLock(k)', Over(k)')
    BY <1>4, <1>6, <2>4, <2>6 DEF OneOf
  <2>9. called' = called \cup {k} BY <1>5, <2>2
  <2>10. RepliesInv' BY <1>1, <2>2 DEF RepliesInv, OneReply, Over
  <2> QED BY <1>4, <2>4, <2>5, <2>7, <2>8, <2>9, <2>10, OneMoves
<1> QED BY <1>7, <1>8

\* The innermost call that waits gets the lock, or gives up.
LEMMA ResumeInv ==
  ASSUME Core, CallsInv, Resume \/ GiveUp
  PROVE  Core' /\ CallsInv'
<1>1. /\ waiting # << >> /\ waiting' = Front(waiting) /\ queue' = queue /\ called' = called
      /\ Last(waiting) # Destructor /\ Running
      /\ queue \in Seq(Calls) /\ called \in SUBSET Caller /\ garbage \in Seq(Nat)
      /\ dropped \in SUBSET Caller /\ replies \in [Caller -> Seq(Reply)]
      /\ waiting \in Seq(Frame)
      /\ QueuedOnce /\ WaitsOnce /\ RepliesInv
  BY CoreRest DEF Rest, Resume, GiveUp, Innermost, Enter, CallsInv, RepliesInv
<1>2. PICK e : e = Last(waiting) OBVIOUS
<1>3. e \in Frame \ {Destructor} BY <1>1, <1>2, LastIsIn
<1>4. PICK k \in Caller : k = e.call.caller /\ e.call \in Calls BY <1>3, FrameFacts
<1>5. /\ waiting' \in Seq(Frame) /\ Waits(k) /\ ~Waits(k)' /\ WaitsOnce'
      /\ \A j : j # k => (Waits(j)' <=> Waits(j))
  BY <1>1, <1>2, <1>4, WaitingShrinks
<1>6. k \in called /\ OneOf(Queued(k), Waits(k), HasLock(k), Over(k))
  BY <1>5, AtOnePlace
<1>7. ~Queued(k) /\ ~HasLock(k) /\ ~Over(k)
  BY <1>5, <1>6 DEF OneOf
<1>8. (\A j \in Caller : Queued(j)' <=> Queued(j)) /\ QueuedOnce'
  BY <1>1 DEF Queued, QueuedOnce
<1>9. called' = called \cup {k} BY <1>1, <1>6
<1>10. CASE Resume
  <2>1. ~locked /\ Enter(e.call) /\ UNCHANGED <<called, dropped>>
    BY <1>2, <1>10 DEF Resume, Enter
  <2>2. Core' /\ Outcome(k)
    BY <1>1, <1>4, <1>5, <2>1, EnterCore
  <2>3. /\ \A j \in Caller \ {k} : (HasLock(j)' <=> HasLock(j)) /\ (Over(j)' <=> Over(j))
        /\ HasLock(k)' \/ Over(k)'
        /\ HasLock(k)' => ~Over(k)'
        /\ RepliesInv'
    BY <1>1, <1>7, <2>1, <2>2, OutcomeFacts
  <2>4. \A j \in Caller \ {k} : Stays(j) BY <1>5, <1>8, <2>3 DEF Stays
  <2>5. OneOf(Queued(k)', Waits(k)', HasLock(k)', Over(k)')
    BY <1>5, <1>7, <1>8, <2>3 DEF OneOf
  <2> QED BY <1>5, <1>8, <1>9, <2>2, <2>3, <2>4, <2>5, OneMoves
<1>11. CASE GiveUp
  <2>1. /\ locked /\ dropped' = dropped \cup {k}
        /\ replies' = [replies EXCEPT ![command.caller] = Append(@, [from |-> k, result |-> << >>])]
        /\ UNCHANGED <<entryVars, commandVars, called, queue, history, garbage, halted>>
    BY <1>2, <1>4, <1>11 DEF GiveUp
  <2>2. PICK h \in Caller : h = command.caller BY <2>1 DEF Core, LockInv
  <2>3. h # k BY <1>7, <2>1, <2>2 DEF HasLock
  <2>4. replies' \in [Caller -> Seq(Reply)]
    <3>1. [from |-> k, result |-> << >>] \in Reply BY DEF Reply
    <3>2. Append(replies[h], [from |-> k, result |-> << >>]) \in Seq(Reply) BY <1>1, <3>1
    <3> QED BY <1>1, <2>1, <2>2, <3>2
  <2>5. Core' BY <1>1, <1>5, <2>1, <2>4, CallsOnlyCore
  <2>6. RepliesInv' /\ Over(k)' /\ \A j \in Caller \ {k} : Over(j)' <=> Over(j)
    BY <1>1, <1>7, <2>1, <2>2, <2>3, RepliesGrow
  <2>7. \A j \in Caller : HasLock(j)' <=> HasLock(j)
    BY <2>1 DEF HasLock, commandVars
  <2>8. \A j \in Caller \ {k} : Stays(j) BY <1>5, <1>8, <2>6, <2>7 DEF Stays
  <2>9. OneOf(Queued(k)', Waits(k)', HasLock(k)', Over(k)')
    BY <1>5, <1>7, <1>8, <2>6, <2>7 DEF OneOf
  <2> QED BY <1>5, <1>8, <1>9, <2>5, <2>6, <2>8, <2>9, OneMoves
<1> QED BY <1>10, <1>11

\* Folks answers the command that has the lock: it goes on, or its call is answered.
LEMMA UpdateEndsInv ==
  ASSUME Core, CallsInv, UpdateDone \/ UpdateFailed
  PROVE  Core' /\ CallsInv'
<1>1. /\ Core' /\ Outcome(command.caller) /\ locked
      /\ UNCHANGED <<called, queue, waiting, dropped>>
  BY UpdateDoneCore, UpdateFailedCore DEF UpdateDone, UpdateFailed, LastDetailChanged, ChangeRefused
<1>2. PICK k \in Caller : k = command.caller
  BY <1>1 DEF Core, LockInv
<1>3. replies \in [Caller -> Seq(Reply)] /\ called \in SUBSET Caller /\ RepliesInv
  BY CoreRest DEF Rest, RepliesInv, CallsInv
<1>4. HasLock(k) BY <1>1, <1>2 DEF HasLock
<1>5. k \in called /\ OneOf(Queued(k), Waits(k), HasLock(k), Over(k))
  BY <1>4, AtOnePlace
<1>6. ~Queued(k) /\ ~Waits(k) /\ ~Over(k)
  BY <1>4, <1>5 DEF OneOf
<1>7. /\ \A j \in Caller \ {k} : (HasLock(j)' <=> HasLock(j)) /\ (Over(j)' <=> Over(j))
      /\ HasLock(k)' \/ Over(k)'
      /\ HasLock(k)' => ~Over(k)'
      /\ RepliesInv'
  BY <1>1, <1>2, <1>3, <1>6, OutcomeFacts
<1>8. \A j \in Caller : (Queued(j)' <=> Queued(j)) /\ (Waits(j)' <=> Waits(j))
  BY <1>1 DEF Queued, Waits
<1>9. QueuedOnce' /\ WaitsOnce' BY <1>1 DEF QueuedOnce, WaitsOnce, CallsInv
<1>10. \A j \in Caller \ {k} : Stays(j) BY <1>7, <1>8 DEF Stays
<1>11. OneOf(Queued(k)', Waits(k)', HasLock(k)', Over(k)')
  BY <1>6, <1>7, <1>8 DEF OneOf
<1>12. called' = called \cup {k} BY <1>1, <1>5
<1> QED BY <1>1, <1>7, <1>9, <1>10, <1>11, <1>12, OneMoves

\* Nothing happens to a call.
LEMMA CallsSame ==
  ASSUME CallsInv, UNCHANGED <<called, queue, replies, dropped, locked, command>>,
         \/ waiting' = waiting
         \/ \E n, t : waiting' = [waiting EXCEPT ![n].tries = t]
  PROVE  CallsInv'
<1>1. /\ DOMAIN waiting' = DOMAIN waiting
      /\ \A i \in DOMAIN waiting : waiting'[i].call = waiting[i].call
  <2>1. CASE waiting' = waiting BY <2>1
  <2>2. ASSUME NEW n, NEW t, waiting' = [waiting EXCEPT ![n].tries = t]
        PROVE  <1>1!1 /\ <1>1!2
    <3>1. waiting' = [waiting EXCEPT ![n] = [waiting[n] EXCEPT !.tries = t]] BY <2>2
    <3>2. [waiting[n] EXCEPT !.tries = t].call = waiting[n].call OBVIOUS
    <3> QED BY <3>1, <3>2
  <2> QED BY <2>1, <2>2
<1>2. \A j \in Caller : Stays(j)
  BY <1>1 DEF Stays, Queued, Waits, HasLock, Over
<1>3. QueuedOnce' BY DEF QueuedOnce, CallsInv
<1>4. WaitsOnce' BY <1>1 DEF WaitsOnce, CallsInv
<1>5. RepliesInv' BY DEF CallsInv, RepliesInv, OneReply, Over
<1> QED BY <1>2, <1>3, <1>4, <1>5, CallsStay

\* processUpdates runs the event loop once more.
LEMMA TryAgainInv ==
  ASSUME Core, CallsInv, TryAgain
  PROVE  Core' /\ CallsInv'
<1> DEFINE Turns == [call : Calls, tries : 0..MaxTries]
<1>1. /\ waiting # << >> /\ waiting \in Seq(Frame) /\ Last(waiting).tries > 0
      /\ Last(waiting) # Destructor
      /\ waiting' = [waiting EXCEPT ![Len(waiting)].tries = @ - 1]
      /\ UNCHANGED <<entryVars, commandVars, called, queue, replies, dropped, history, garbage, halted>>
  BY CoreRest DEF TryAgain, Innermost, Rest
<1>2. PICK n \in Nat \ {0} : n = Len(waiting) BY <1>1
<1>3. PICK e : e = Last(waiting) /\ e = waiting[n] BY <1>2 DEF Last
<1>4. e \in Turns
  <2>1. e \in Frame \ {Destructor} BY <1>1, <1>3, LastIsIn
  <2> QED BY <2>1, FrameFacts
<1>5. PICK t \in 0..MaxTries : t = e.tries - 1
  <2>1. e.tries \in 0..MaxTries /\ e.tries > 0 BY <1>1, <1>3, <1>4
  <2> QED BY <2>1, BoundsAssumption
<1>6. waiting' = [waiting EXCEPT ![n] = [e EXCEPT !.tries = t]]
  BY <1>1, <1>2, <1>3, <1>5
<1>7. [e EXCEPT !.tries = t] \in Turns BY <1>4
<1> HIDE DEF Turns
<1>8. waiting' \in Seq(Frame)
  <2>1. Turns \subseteq Frame BY DEF Turns, Frame, Calls
  <2>2. [e EXCEPT !.tries = t] \in Frame BY <1>7, <2>1
  <2> QED BY <1>1, <1>6, <2>2
<1>9. Core'
  <2>1. /\ called' \in SUBSET Caller /\ dropped' \in SUBSET Caller /\ queue' \in Seq(Calls)
        /\ replies' \in [Caller -> Seq(Reply)] /\ garbage' \in Seq(Nat)
    BY <1>1, CoreRest DEF Rest
  <2> QED BY <1>1, <1>8, <2>1, CallsOnlyCore
<1>10. \E m, r : waiting' = [waiting EXCEPT ![m].tries = r]
  <2>1. waiting' = [waiting EXCEPT ![n].tries = t] BY <1>3, <1>6
  <2> QED BY <2>1
<1> QED BY <1>1, <1>9, <1>10, CallsSame DEF commandVars

\* The destructor of a failed request runs its event loop.
LEMMA RequestDeletedInv ==
  ASSUME Core, CallsInv, RequestDeleted
  PROVE  Core' /\ CallsInv'
<1>1. /\ waiting' = Append(waiting, Destructor)
      /\ \E i \in DOMAIN garbage : garbage' = RemoveAt(garbage, i)
      /\ UNCHANGED <<entryVars, commandVars, called, queue, replies, dropped, history, halted>>
  BY DEF RequestDeleted
<1>2. /\ waiting \in Seq(Frame) /\ garbage \in Seq(Nat) /\ called \in SUBSET Caller
      /\ dropped \in SUBSET Caller /\ queue \in Seq(Calls) /\ replies \in [Caller -> Seq(Reply)]
  BY CoreRest DEF Rest
<1>3. garbage' \in Seq(Nat)
  <2>1. PICK i \in DOMAIN garbage : garbage' = RemoveAt(garbage, i) BY <1>1
  <2>2. PICK n \in Nat : n = Len(garbage) /\ DOMAIN garbage = 1..n /\ \A j \in 1..n : garbage[j] \in Nat
    <3>1. Len(garbage) \in Nat /\ DOMAIN garbage = 1..Len(garbage) BY <1>2
    <3>2. \A j \in 1..Len(garbage) : garbage[j] \in Nat BY <1>2
    <3> QED BY <3>1, <3>2
  <2>3. SubSeq(garbage, 1, i - 1) \in Seq(Nat)
    <3>1. \A j \in 1..(i - 1) : garbage[j] \in Nat BY <2>2
    <3> QED BY <2>2, <3>1, SubSeqProperties
  <2>4. SubSeq(garbage, i + 1, n) \in Seq(Nat)
    <3>1. \A j \in (i + 1)..n : garbage[j] \in Nat BY <2>2
    <3> QED BY <2>2, <3>1, SubSeqProperties
  <2> QED BY <2>1, <2>2, <2>3, <2>4, ConcatProperties DEF RemoveAt
<1>4. /\ waiting' \in Seq(Frame) /\ WaitsOnce'
      /\ \A j : j # Destructor.call.caller => (Waits(j)' <=> Waits(j))
  BY <1>1, <1>2, FrameFacts, WaitingGrows DEF CallsInv
<1>5. Core' BY <1>1, <1>2, <1>3, <1>4, CallsOnlyCore
<1>6. \A j \in Caller : Stays(j)
  BY <1>1, <1>4, FrameFacts DEF Stays, Queued, HasLock, Over, commandVars
<1>7. QueuedOnce' /\ RepliesInv'
  BY <1>1 DEF CallsInv, QueuedOnce, RepliesInv, OneReply, Over
<1> QED BY <1>1, <1>4, <1>5, <1>6, <1>7, CallsStay

-----------------------------------------------------------------------------

\* Every step keeps the invariant.
LEMMA NextInv ==
  ASSUME IInv, [Next]_vars
  PROVE  IInv'
<1> SUFFICES Core' /\ CallsInv' BY DEF IInv
<1>1. Core /\ CallsInv BY DEF IInv
<1>2. ASSUME NEW k \in Caller, NEW list \in Lists, Call(k, list) PROVE Core' /\ CallsInv'
  BY <1>1, <1>2, CallInv
<1>3. CASE Begin BY <1>1, <1>3, BeginInv
<1>4. CASE Resume \/ GiveUp BY <1>1, <1>4, ResumeInv
<1>5. CASE TryAgain BY <1>1, <1>5, TryAgainInv
<1>6. CASE UpdateDone \/ UpdateFailed BY <1>1, <1>6, UpdateEndsInv
<1>7. CASE RequestDeleted BY <1>1, <1>7, RequestDeletedInv
<1>8. CASE DetailChanged
  BY <1>1, <1>8, DetailChangedCore, CallsSame DEF DetailChanged, commandVars, callVars
<1>9. CASE DetachedDone
  BY <1>1, <1>9, DetachedDoneCore, CallsSame DEF DetachedDone, commandVars, callVars
<1>10. CASE (\E c \in Contact : EntryChanges(c) \/ Read(c)) \/ Unprepare \/ Prepare
  <2>1. Core' BY <1>1, <1>10, FolksChangesCore
  <2>2. UNCHANGED <<commandVars, callVars>>
    BY <1>10 DEF EntryChanges, EntryRemoved, EntryAdded, EntryRepeated, EntryReplaced, Created,
                 Destroyed, ForeignChange, Read, Unprepare, Prepare
  <2> QED BY <1>1, <2>1, <2>2, CallsSame DEF commandVars, callVars
<1>11. CASE (\E c \in Contact : ThreadChecks(c)) \/ ThreadLocks \/ ThreadLoads \/ ScanWaits
  <2>1. Core' BY <1>1, <1>11, ThreadCore
  <2>2. UNCHANGED <<commandVars, callVars>>
    BY <1>11 DEF ThreadChecks, ThreadLocks, ThreadLoads, ScanWaits
  <2> QED BY <1>1, <2>1, <2>2, CallsSame DEF commandVars, callVars
<1>12. CASE UNCHANGED vars
  <2>1. /\ called' \in SUBSET Caller /\ dropped' \in SUBSET Caller /\ garbage' \in Seq(Nat)
        /\ queue' \in Seq(Calls) /\ waiting' \in Seq(Frame) /\ replies' \in [Caller -> Seq(Reply)]
    BY <1>1, <1>12, CoreRest DEF Rest, vars, callVars
  <2>2. Core' BY <1>1, <1>12, <2>1, CallsOnlyCore DEF vars
  <2> QED BY <1>1, <1>12, <2>2, CallsSame DEF vars, commandVars, callVars
<1> QED BY <1>2, <1>3, <1>4, <1>5, <1>6, <1>7, <1>8, <1>9, <1>10, <1>11, <1>12
        DEF Next, FolksAnswers

\* No command has the lock at the beginning, and every entry shows what folks has.
LEMMA InitInv == Init => IInv
<1> SUFFICES ASSUME Init PROVE IInv OBVIOUS
<1>1. /\ map = TRUE /\ entries \in SUBSET Contact /\ contactLock = {} /\ request = None
      /\ garbage = << >> /\ reader = None /\ halted = "no" /\ locked = FALSE
      /\ command = Command(None, << >>) /\ called = {} /\ queue = << >> /\ waiting = << >>
      /\ dropped = {} /\ replies = [k \in Caller |-> << >>]
      /\ failed = {} /\ missed = {} /\ unannounced = {}
  BY DEF Init
<1>2. backend \in [Contact -> Data]
  <2>1. {[d \in 1..Details |-> v] : v \in Value} \subseteq Data BY DEF Data
  <2> QED BY <2>1 DEF Init
<1>3. /\ cache \in [Contact -> Data \cup {None}]
      /\ \A c \in entries : cache[c] = backend[c]
  BY <1>2 DEF Init
<1>4. /\ command = [caller |-> None, list |-> << >>, next |-> 1, updated |-> {}, result |-> << >>]
  BY <1>1 DEF Command
<1>5. TypeOK
  <2>1. command.next \in 1..Len(command.list) + 1 BY <1>4
  <2>2. command \in [caller : Caller \cup {None}, list : Lists \cup {<< >>}, next : Nat,
                     updated : SUBSET Contact, result : Seq(Result)]
    BY <1>4
  <2>3. replies \in [Caller -> Seq(Reply)] BY <1>1
  <2>4. /\ queue \in Seq([caller : Caller, list : Lists]) /\ waiting \in Seq(Frame)
        /\ garbage \in Seq(Nat)
    BY <1>1
  <2> QED BY <1>1, <1>2, <1>3, <2>1, <2>2, <2>3, <2>4 DEF TypeOK
<1>6. CommandInv BY <1>1, <1>5 DEF CommandInv, HaltedInv
<1>7. LockInv BY <1>1, <1>4 DEF LockInv, InPlace
<1>8. CallsInv
  BY <1>1 DEF CallsInv, Places, QueuedOnce, WaitsOnce, OneReply, Queued, Waits, HasLock, Over
<1>9. FreshUnlessSkipped /\ News /\ ReaderInv
  BY <1>1, <1>3 DEF FreshUnlessSkipped, News, ReaderInv
<1> QED BY <1>6, <1>7, <1>8, <1>9 DEF IInv, Core

\* The inductive invariant holds throughout.
LEMMA Invariant == Spec => []IInv
<1>1. IInv /\ [Next]_vars => IInv' BY NextInv
<1> QED BY <1>1, InitInv, PTL DEF Spec

\* Exactly one of the four places of Accounted.
LEMMA OneOfFour ==
  ASSUME NEW S \in SUBSET {1, 2, 3, 4}, OneOf(1 \in S, 2 \in S, 3 \in S, 4 \in S)
  PROVE  Cardinality(S) = 1
<1>1. PICK p : p \in S BY DEF OneOf
<1>2. S = {p} BY <1>1 DEF OneOf
<1> QED BY <1>2, FS_Singleton

\* A command waits for the contact that comes before next, whose entry is in the map (the
\* Q_ASSERT of updateContactsDone) and is the only one locked, with its contact loaded: no
\* thread is loading it, and the main thread waits for its lock, for ever then, only when the
\* individual is replaced, or gets a new persona, during the update (setIndividual, flush).
THEOREM CommandTheorem == Spec => []CommandInv
<1>1. IInv => CommandInv BY DEF IInv, Core
<1> QED BY <1>1, Invariant, PTL

\* An individual that is not being updated shows what folks has, and what an update wrote is
\* announced when its command is done: QIndividual::update, markAsDirty, contact and
\* AddressBook::updateContactsDone, with a filter thread that loads contacts at any time.
\* It does not hold for the changes that folksIndividualChanged skipped and nobody made up
\* for: those of an update that failed half way, and those during the load of a thread.
THEOREM UpToDateTheorem == Spec => []UpToDate
<1>1. IInv => UpToDate
  BY DEF IInv, Core, News, FreshUnlessSkipped, AnnouncedUnlessSkipped, UpToDate
<1> QED BY <1>1, Invariant, PTL

\* A call of updateContacts is at one place until a reply ends it: one reply, to its own
\* message and in the order of its list, unless processUpdates gave up; then the one reply it
\* sends is empty and goes to another call, which is answered twice, and its own client never
\* is: updateContacts, processUpdates, updateContactsDone.
THEOREM CallsAnsweredTheorem == Spec => []CallsAnswered
<1>1. ASSUME IInv, NEW k \in called
      PROVE  Quantify({1, 2, 3, 4}, LAMBDA place :
               CASE place = 1 -> \E i \in DOMAIN queue : queue[i].caller = k
                 [] place = 2 -> \E i \in DOMAIN waiting : waiting[i].call.caller = k
                 [] place = 3 -> locked /\ command.caller = k
                 [] place = 4 -> Over(k)) = 1
  <2>1. k \in Caller BY <1>1, CoreRest DEF IInv, Rest
  <2>2. OneOf(Queued(k), Waits(k), HasLock(k), Over(k))
    BY <1>1, <2>1 DEF IInv, CallsInv, Places
  <2>3. PICK S :
          S = {place \in {1, 2, 3, 4} :
                 CASE place = 1 -> \E i \in DOMAIN queue : queue[i].caller = k
                   [] place = 2 -> \E i \in DOMAIN waiting : waiting[i].call.caller = k
                   [] place = 3 -> locked /\ command.caller = k
                   [] place = 4 -> Over(k)}
    OBVIOUS
  <2>4. 1 \in S <=> Queued(k) BY <2>3, SMT DEF Queued
  <2>5. 2 \in S <=> Waits(k) BY <2>3, SMT DEF Waits
  <2>6. 3 \in S <=> HasLock(k) BY <2>3, SMT DEF HasLock
  <2>7. 4 \in S <=> Over(k) BY <2>3, SMT DEF Over
  <2>8. S \in SUBSET {1, 2, 3, 4} BY <2>3
  <2>9. OneOf(1 \in S, 2 \in S, 3 \in S, 4 \in S)
    BY <2>2, <2>4, <2>5, <2>6, <2>7 DEF OneOf
  <2>10. Cardinality(S) = 1 BY <2>8, <2>9, OneOfFour
  <2> QED BY <2>3, <2>10 DEF Quantify
<1>2. IInv => Accounted BY <1>1 DEF Accounted
<1>3. IInv => ResultsInPlace BY DEF IInv, Core, LockInv, InPlace, ResultsInPlace
<1>4. IInv => OneReply BY DEF IInv, CallsInv
<1>5. IInv => CallsAnswered BY <1>2, <1>3, <1>4 DEF CallsAnswered
<1> QED BY <1>5, Invariant, PTL
=============================================================================
