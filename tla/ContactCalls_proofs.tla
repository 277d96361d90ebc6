------------------------ MODULE ContactCalls_proofs ------------------------
(***************************************************************************)
(* Three things about any number of calls of any kind and any contacts and *)
(* sources: every call is answered once, and a purge twice; a removal that *)
(* is answered has removed what it was asked to; and what is said about    *)
(* sources is true.                                                        *)
(*                                                                         *)
(* OneAnswer says how many answers a call has, but not that a call whose   *)
(* slot is queued has none yet, or that it is queued once: CallsInv does.  *)
(* Every slot and every callback then is a turn of one call: the call was  *)
(* the head of the queue or it was working, and the turn leaves it alone,  *)
(* working or answered (Turn).                                             *)
(***************************************************************************)
EXTENDS ContactCalls, WellFoundedInduction, TLAPS

\* The call with the record r has n answers.
HasAnswers(r, n) == \E S : r.answers \in Seq(S) /\ Len(r.answers) = n

\* The answers a call has at each stage.
Fits(r) ==
  /\ r = [stage |-> r.stage, request |-> r.request, data |-> r.data, answers |-> r.answers]
  /\ r.stage \in {"none", "queued", "working", "done"}
  /\ r.stage \in {"none", "queued"} => r.request.kind # "purge"
  /\ HasAnswers(r, (IF r.stage = "done" THEN 1 ELSE 0)
                   + (IF r.request.kind = "purge" THEN 1 ELSE 0))

\* What is queued is queued once.
QueueInv ==
  /\ queue \in Seq(Calls)
  /\ \A i \in 1..Len(queue) : call[queue[i]].stage = "queued"
  /\ \A i, j \in 1..Len(queue) : queue[i] = queue[j] => i = j

CallsInv ==
  /\ DOMAIN call = Calls
  /\ \A c \in Calls : Fits(call[c])
  /\ QueueInv

\* The call c is at the head of the queue and taken off, or is not queued.
Taken(c) ==
  \/ queue # <<>> /\ c = Head(queue) /\ queue' = Tail(queue)
  \/ call[c].stage # "queued" /\ queue' = queue

\* The call c stays as it is, is working or is answered.
Turned(c) ==
  \/ call' = call
  \/ \E r : Fits(r) /\ call' = [call EXCEPT ![c] = r]

\* The call c may be answered or put to work.
Open(c) == call[c].stage \in {"queued", "working"}

-----------------------------------------------------------------------------
\* A turn of one call keeps the answers of all.
LEMMA Turn ==
  ASSUME CallsInv, NEW c \in Calls, Taken(c), Turned(c)
  PROVE  CallsInv'
<1>1. DOMAIN call' = Calls
  BY DEF CallsInv, Turned
<1>2. \A d \in Calls : d # c => call'[d] = call[d]
  BY DEF CallsInv, Turned
<1>3. Fits(call'[c])
  BY DEF CallsInv, Turned
<1>4. \A d \in Calls : Fits(call'[d])
  BY <1>2, <1>3 DEF CallsInv
<1>5. QueueInv'
  <2>1. CASE queue # <<>> /\ c = Head(queue) /\ queue' = Tail(queue)
    <3>1. queue \in Seq(Calls) BY DEF CallsInv, QueueInv
    <3>2. /\ queue' \in Seq(Calls) /\ Len(queue') = Len(queue) - 1 /\ Len(queue) \in Nat \ {0}
          /\ \A i \in 1..Len(queue') : queue'[i] = queue[i + 1] /\ i + 1 \in 1..Len(queue)
      BY <2>1, <3>1
    <3>3. \A i \in 1..Len(queue') : queue'[i] # c
      <4> SUFFICES ASSUME NEW i \in 1..Len(queue'), queue'[i] = c PROVE FALSE OBVIOUS
      <4>1. queue[i + 1] = queue[1] /\ i + 1 \in 1..Len(queue) /\ 1 \in 1..Len(queue)
        BY <2>1, <3>1, <3>2
      <4>2. i + 1 = 1 BY <4>1 DEF CallsInv, QueueInv
      <4> QED BY <4>2
    <3>4. \A i \in 1..Len(queue') : queue'[i] \in Calls
      BY <3>2
    <3>5. \A i \in 1..Len(queue') : call'[queue'[i]].stage = "queued"
      BY <1>2, <3>2, <3>3, <3>4 DEF CallsInv, QueueInv
    <3>6. \A i, j \in 1..Len(queue') : queue'[i] = queue'[j] => i = j
      <4> SUFFICES ASSUME NEW i \in 1..Len(queue'), NEW j \in 1..Len(queue'),
                          queue'[i] = queue'[j]
                   PROVE  i = j OBVIOUS
      <4>1. i + 1 = j + 1 BY <3>2 DEF CallsInv, QueueInv
      <4> QED BY <4>1, <3>2
    <3> QED BY <3>2, <3>5, <3>6 DEF QueueInv, Calls
  <2>2. CASE call[c].stage # "queued" /\ queue' = queue
    <3>1. \A i \in 1..Len(queue) : queue[i] # c /\ queue[i] \in Calls
      BY <2>2 DEF CallsInv, QueueInv
    <3> QED BY <1>2, <2>2, <3>1 DEF CallsInv, QueueInv, Calls
  <2> QED BY <2>1, <2>2 DEF Taken
<1> QED BY <1>1, <1>4, <1>5 DEF CallsInv, Calls

\* A call whose slot runs has not been answered.
LEMMA HeadOpen ==
  ASSUME CallsInv, NEW c, NEW kind, Runs(c, kind), kind # "purge"
  PROVE  /\ c \in Calls /\ Open(c) /\ Taken(c) /\ call[c].request.kind = kind
<1>1. queue \in Seq(Calls) /\ queue # <<>> /\ c = Head(queue) BY DEF CallsInv, QueueInv, Runs
<1>2. Len(queue) \in Nat /\ 1 \in 1..Len(queue) /\ c = queue[1] BY <1>1
<1> QED BY <1>1, <1>2 DEF CallsInv, QueueInv, Open, Runs, Taken, Kind

\* The record of a call has four fields, each with one value: the provers compare such
\* records field by field.
LEMMA FourFields ==
  ASSUME NEW r, Fits(r)
  PROVE  r \in [stage : {r.stage}, request : {r.request}, data : {r.data}, answers : {r.answers}]
<1>1. r = [stage |-> r.stage, request |-> r.request, data |-> r.data, answers |-> r.answers]
  BY DEF Fits
<1> QED BY <1>1

\* The record of a call that is answered,
LEMMA Answered ==
  ASSUME NEW r, Fits(r), NEW d, NEW as
  PROVE  [r EXCEPT !.stage = "done", !.data = d, !.answers = as]
           = [stage |-> "done", request |-> r.request, data |-> d, answers |-> as]
<1>1. r \in [stage : {r.stage}, request : {r.request}, data : {r.data}, answers : {r.answers}]
  BY FourFields
<1>2. ASSUME NEW s, s = [r EXCEPT !.stage = "done", !.data = d, !.answers = as]
      PROVE  s = [stage |-> "done", request |-> r.request, data |-> d, answers |-> as]
  BY <1>1, <1>2
<1> QED BY <1>2

\* put to work,
LEMMA Worked ==
  ASSUME NEW r, Fits(r), NEW d
  PROVE  [r EXCEPT !.stage = "working", !.data = d]
           = [stage |-> "working", request |-> r.request, data |-> d, answers |-> r.answers]
<1>1. r \in [stage : {r.stage}, request : {r.request}, data : {r.data}, answers : {r.answers}]
  BY FourFields
<1>2. ASSUME NEW s, s = [r EXCEPT !.stage = "working", !.data = d]
      PROVE  s = [stage |-> "working", request |-> r.request, data |-> d,
                  answers |-> r.answers]
  BY <1>1, <1>2
<1> QED BY <1>2

\* has other data,
LEMMA DataChanged ==
  ASSUME NEW r, Fits(r), NEW d
  PROVE  [r EXCEPT !.data = d]
           = [stage |-> r.stage, request |-> r.request, data |-> d, answers |-> r.answers]
<1>1. r \in [stage : {r.stage}, request : {r.request}, data : {r.data}, answers : {r.answers}]
  BY FourFields
<1>2. ASSUME NEW s, s = [r EXCEPT !.data = d]
      PROVE  s = [stage |-> r.stage, request |-> r.request, data |-> d,
                  answers |-> r.answers]
  BY <1>1, <1>2
<1> QED BY <1>2

\* or is made.
LEMMA Asked ==
  ASSUME NEW r, Fits(r), NEW q
  PROVE  [r EXCEPT !.stage = "queued", !.request = q]
           = [stage |-> "queued", request |-> q, data |-> r.data, answers |-> r.answers]
<1>1. r \in [stage : {r.stage}, request : {r.request}, data : {r.data}, answers : {r.answers}]
  BY FourFields
<1>2. ASSUME NEW s, s = [r EXCEPT !.stage = "queued", !.request = q]
      PROVE  s = [stage |-> "queued", request |-> q, data |-> r.data,
                  answers |-> r.answers]
  BY <1>1, <1>2
<1> QED BY <1>2

\* An answer is one more.
LEMMA AnswerTurns ==
  ASSUME CallsInv, NEW c \in Calls, NEW a, Open(c), Answer(c, a)
  PROVE  Turned(c)
<1> DEFINE r == call[c]
           new == [stage |-> "done", request |-> r.request, data |-> Nothing,
                   answers |-> Append(r.answers, a)]
           n == IF r.request.kind = "purge" THEN 1 ELSE 0
<1>1. Fits(r) /\ r.stage \in {"queued", "working"} BY DEF CallsInv, Open
<1>2. call' = [call EXCEPT ![c] = new]
  <2>1. [call[c] EXCEPT !.stage = "done", !.data = Nothing,
                        !.answers = Append(call[c].answers, a)] = new
    BY <1>1, Answered
  <2> QED BY <2>1, Zenon DEF Answer
<1>3. PICK S : r.answers \in Seq(S) /\ Len(r.answers) = n
  BY <1>1 DEF Fits, HasAnswers
<1>4. HasAnswers(new, 1 + n)
  <2>1. r.answers \in Seq(S \union {a})
    BY <1>3
  <2>2. Append(r.answers, a) \in Seq(S \union {a}) /\ Len(Append(r.answers, a)) = 1 + n
    BY <1>3, <2>1
  <2> QED BY <2>2 DEF HasAnswers
<1>5. Fits(new)
  BY <1>1, <1>4 DEF Fits
<1> QED BY <1>2, <1>5 DEF Turned

\* Work answers nothing.
LEMMA WorksTurns ==
  ASSUME CallsInv, NEW c \in Calls, NEW d, Open(c), Works(c, d)
  PROVE  Turned(c)
<1> DEFINE r == call[c]
           new == [stage |-> "working", request |-> r.request, data |-> d,
                   answers |-> r.answers]
<1>1. Fits(r) /\ r.stage \in {"queued", "working"} BY DEF CallsInv, Open
<1>2. call' = [call EXCEPT ![c] = new]
  <2>1. [call[c] EXCEPT !.stage = "working", !.data = d] = new
    BY <1>1, Worked
  <2> QED BY <2>1, Zenon DEF Works
<1>3. Fits(new)
  BY <1>1 DEF Fits, HasAnswers
<1> QED BY <1>2, <1>3 DEF Turned

\* What a slot or a callback may do to its call.
Outcome(c) ==
  \/ \E a : Answer(c, a)
  \/ \E d : Works(c, d)
  \/ call' = call

\* The turn of a slot.
LEMMA SlotTurn ==
  ASSUME CallsInv, NEW c \in Calls, NEW kind, Runs(c, kind), kind # "purge", Outcome(c)
  PROVE  CallsInv'
<1>1. Open(c) /\ Taken(c) BY HeadOpen
<1>2. Turned(c) BY <1>1, AnswerTurns, WorksTurns DEF Outcome, Turned
<1> QED BY <1>1, <1>2, Turn

\* The turn of a callback.
LEMMA CallbackTurn ==
  ASSUME CallsInv, NEW c \in Calls, NEW kind, Working(c, kind), UNCHANGED queue, Outcome(c)
  PROVE  CallsInv'
<1>1. Open(c) /\ Taken(c) BY DEF Open, Taken, Working
<1>2. Turned(c) BY <1>1, AnswerTurns, WorksTurns DEF Outcome, Turned
<1> QED BY <1>1, <1>2, Turn

-----------------------------------------------------------------------------
\* The calls about sources.
LEMMA SourceSteps ==
  ASSUME CallsInv, NEW c \in Calls, SourceCallsNext(c)
  PROVE  CallsInv'
<1>1. CASE CreateSource(c)
  <2>1. Outcome(c) BY <1>1 DEF CreateSource, Outcome
  <2> QED BY <1>1, <2>1, SlotTurn DEF CreateSource
<1>2. CASE UpdateSources(c)
  <2>1. Outcome(c) BY <1>2 DEF UpdateSources, UpdateFrom, Outcome
  <2> QED BY <1>2, <2>1, SlotTurn DEF UpdateSources
<1>3. CASE RemoveSource(c)
  <2>1. Outcome(c) BY <1>3 DEF RemoveSource, Outcome
  <2> QED BY <1>3, <2>1, SlotTurn DEF RemoveSource
<1>4. CASE GetSource(c)
  <2>1. Outcome(c) BY <1>4 DEF GetSource, Outcome
  <2> QED BY <1>4, <2>1, SlotTurn DEF GetSource
<1>5. CASE CreateSourceDone(c)
  <2>1. Outcome(c) BY <1>5 DEF CreateSourceDone, Outcome
  <2> QED BY <1>5, <2>1, CallbackTurn DEF CreateSourceDone
<1>6. CASE UpdateSourceEDSDone(c)
  <2>1. Outcome(c) BY <1>6 DEF UpdateSourceEDSDone, UpdateFrom, Outcome
  <2> QED BY <1>6, <2>1, CallbackTurn DEF UpdateSourceEDSDone
<1>7. CASE RemoveSourceDone(c)
  <2>1. Outcome(c) BY <1>7 DEF RemoveSourceDone, Outcome
  <2> QED BY <1>7, <2>1, CallbackTurn DEF RemoveSourceDone
<1> QED BY <1>1, <1>2, <1>3, <1>4, <1>5, <1>6, <1>7 DEF SourceCallsNext

\* However removeContactDone goes on, it answers at most once.
LEMMA RemoveTurnOutcome ==
  ASSUME NEW c, NEW left, NEW count, NEW soft, NEW failed, RemoveTurn(c, left, count, soft, failed)
  PROVE  Outcome(c)
<1>1. CASE left # <<>> /\ ~MapAlive
  BY <1>1 DEF RemoveTurn, Dies, Outcome
<1>2. CASE ~(left # <<>> /\ ~MapAlive)
  BY <1>2 DEF RemoveTurn, Outcome
<1> QED BY <1>1, <1>2

\* EDS has a new contact, or refuses it: the call goes on with what it waits for.
LEMMA PersonaAddedStep ==
  ASSUME CallsInv, NEW c \in Calls, PersonaAdded(c)
  PROVE  CallsInv'
<1> DEFINE r == call[c]
<1>1. Fits(r) /\ r.stage = "working" /\ queue' = queue
  BY DEF CallsInv, PersonaAdded, Working
<1>2. ASSUME NEW w, call' = [call EXCEPT ![c].data.wait = w] PROVE Turned(c)
  <2> DEFINE new == [stage |-> r.stage, request |-> r.request,
                     data |-> [r.data EXCEPT !.wait = w], answers |-> r.answers]
  <2>1. [r EXCEPT !.data = [r.data EXCEPT !.wait = w]] = new
    BY <1>1, DataChanged
  <2>2. call' = [call EXCEPT ![c] = new]
    BY <1>2, <2>1
  <2>3. Fits(new) BY <1>1 DEF Fits, HasAnswers
  <2> QED BY <2>2, <2>3 DEF Turned
<1>3. Turned(c) BY <1>2 DEF PersonaAdded
<1>4. Taken(c) BY <1>1 DEF Taken
<1> QED BY <1>3, <1>4, Turn

\* A purge is answered when it is called, and is at work or done then.
LEMMA PurgeStep ==
  ASSUME CallsInv, NEW c \in Calls, PurgeContacts(c)
  PROVE  CallsInv'
<1>1. call[c].stage = "none" /\ queue' = queue BY DEF PurgeContacts, IsNext
<1>2. PICK r, d :
        /\ r.kind = "purge"
        /\ \/ call' = call
           \/ call' = [call EXCEPT ![c] = [stage |-> "done", request |-> r, data |-> Nothing,
                                          answers |-> <<0, "returned">>]]
           \/ call' = [call EXCEPT ![c] = [stage |-> "working", request |-> r,
                                          answers |-> <<"returned">>, data |-> d]]
  BY DEF PurgeContacts, Dies
<1>3. Fits([stage |-> "done", request |-> r, data |-> Nothing, answers |-> <<0, "returned">>])
  <2>1. <<0, "returned">> \in Seq({0, "returned"}) /\ Len(<<0, "returned">>) = 2 OBVIOUS
  <2> DEFINE x == [stage |-> "done", request |-> r, data |-> Nothing,
                   answers |-> <<0, "returned">>]
  <2>2. \E S : x.answers \in Seq(S) /\ Len(x.answers) = 2
    <3> WITNESS {0, "returned"}
    <3> QED BY <2>1
  <2> QED BY <1>2, <2>2 DEF Fits, HasAnswers
<1>4. Fits([stage |-> "working", request |-> r, answers |-> <<"returned">>, data |-> d])
  <2>1. <<"returned">> \in Seq({"returned"}) /\ Len(<<"returned">>) = 1 OBVIOUS
  <2> DEFINE x == [stage |-> "working", request |-> r, answers |-> <<"returned">>, data |-> d]
  <2>2. \E S : x.answers \in Seq(S) /\ Len(x.answers) = 1
    <3> WITNESS {"returned"}
    <3> QED BY <2>1
  <2> QED BY <1>2, <2>2 DEF Fits, HasAnswers
<1>5. Turned(c) BY <1>2, <1>3, <1>4 DEF Turned
<1>6. Taken(c) BY <1>1 DEF Taken
<1> QED BY <1>5, <1>6, Turn

\* The calls about contacts.
LEMMA ContactSteps ==
  ASSUME CallsInv, NEW c \in Calls,
         \/ CreateContact(c) \/ PersonaAdded(c) \/ CreateContactDone(c)
         \/ RemoveContacts(c) \/ PurgeContacts(c) \/ RemoveContactDone(c)
  PROVE  CallsInv'
<1>1. CASE CreateContact(c)
  <2>1. Outcome(c) BY <1>1 DEF CreateContact, Dies, Outcome
  <2> QED BY <1>1, <2>1, SlotTurn DEF CreateContact
<1>2. CASE CreateContactDone(c)
  <2>1. Outcome(c) BY <1>2 DEF CreateContactDone, Dies, Outcome
  <2> QED BY <1>2, <2>1, CallbackTurn DEF CreateContactDone
<1>3. CASE RemoveContacts(c)
  <2>1. Outcome(c) BY <1>3, RemoveTurnOutcome DEF RemoveContacts
  <2> QED BY <1>3, <2>1, SlotTurn DEF RemoveContacts
<1>4. CASE RemoveContactDone(c)
  <2>1. Outcome(c) BY <1>4, RemoveTurnOutcome DEF RemoveContactDone
  <2> QED BY <1>4, <2>1, CallbackTurn DEF RemoveContactDone
<1> QED BY <1>1, <1>2, <1>3, <1>4, PersonaAddedStep, PurgeStep

\* A call that arrives goes to the end of the queue, where it was not.
LEMMA ArriveStep ==
  ASSUME CallsInv, NEW c \in Calls, Arrive(c)
  PROVE  CallsInv'
<1>1. PICK r : r.kind # "purge"
              /\ call' = [call EXCEPT ![c] = [call[c] EXCEPT !.stage = "queued", !.request = r]]
  BY DEF Arrive
<1>2. call[c].stage = "none" /\ Fits(call[c]) /\ queue \in Seq(Calls) /\ queue' = Append(queue, c)
  BY DEF Arrive, IsNext, CallsInv, QueueInv
<1> DEFINE new == [stage |-> "queued", request |-> r, data |-> call[c].data,
                   answers |-> call[c].answers]
<1>3. call' = [call EXCEPT ![c] = new]
  <2>1. [call[c] EXCEPT !.stage = "queued", !.request = r] = new
    BY <1>2, Asked
  <2> QED BY <1>1, <2>1, Zenon
<1>4. Fits(new)
  BY <1>1, <1>2 DEF Fits, HasAnswers
<1>5. DOMAIN call' = Calls /\ call'[c] = new /\ \A d \in Calls \ {c} : call'[d] = call[d]
  BY <1>3 DEF CallsInv
<1>6. \A d \in Calls : Fits(call'[d])
  BY <1>4, <1>5 DEF CallsInv
<1>7. QueueInv'
  <2>1. /\ queue' \in Seq(Calls) /\ Len(queue) \in Nat /\ Len(queue') = Len(queue) + 1
        /\ queue'[Len(queue) + 1] = c
        /\ \A i \in 1..Len(queue) : queue'[i] = queue[i] /\ queue[i] \in Calls
    BY <1>2
  <2>2. \A i \in 1..Len(queue) : queue[i] # c /\ call[queue[i]].stage = "queued"
    BY <1>2 DEF CallsInv, QueueInv
  <2>3. \A i \in 1..Len(queue') : call'[queue'[i]].stage = "queued"
    BY <1>5, <2>1, <2>2
  <2>4. \A i, j \in 1..Len(queue') : queue'[i] = queue'[j] => i = j
    BY <2>1, <2>2 DEF CallsInv, QueueInv
  <2> QED BY <2>1, <2>3, <2>4 DEF QueueInv, Calls
<1> QED BY <1>5, <1>6, <1>7 DEF CallsInv, Calls

\* Folks, EDS and a reload leave the calls to their slots and callbacks.
LEMMA Elsewhere ==
  ASSUME CallsInv, UNCHANGED replyVars
  PROVE  CallsInv'
BY DEF CallsInv, QueueInv, replyVars, Calls

\* No call is made or queued at first.
LEMMA CallsInit ==
  ASSUME Init
  PROVE  CallsInv
<1>1. call = [c \in Calls |-> Idle] /\ queue = <<>>
  BY DEF Init, RepliesInit
<1>2. Fits(Idle)
  <2>1. \E S : Idle.answers \in Seq(S) /\ Len(Idle.answers) = 0
    <3> WITNESS {}
    <3> QED BY DEF Idle
  <2> QED BY <2>1 DEF Fits, HasAnswers, Idle, Nothing
<1>3. QueueInv
  BY <1>1 DEF QueueInv
<1> QED BY <1>1, <1>2, <1>3 DEF CallsInv

\* Every step keeps the answers of every call.
LEMMA CallsStep ==
  ASSUME CallsInv, [Next]_vars
  PROVE  CallsInv'
<1>1. CASE \E c \in Calls : Arrive(c)
  BY <1>1, ArriveStep
<1>2. CASE \E c \in Calls : SourceCallsNext(c)
  BY <1>2, SourceSteps
<1>3. CASE \E c \in Calls : \/ CreateContact(c) \/ PersonaAdded(c) \/ CreateContactDone(c)
                           \/ RemoveContacts(c) \/ PurgeContacts(c) \/ RemoveContactDone(c)
  BY <1>3, ContactSteps
<1>4. CASE \E s \in Sources : StoreAppears(s) \/ StoreVanishes(s)
  BY <1>4, Elsewhere DEF StoreAppears, StoreVanishes
<1>5. CASE \E p \in Contacts : FolksAdds(p) \/ FolksRemoves(p)
  BY <1>5, Elsewhere DEF FolksAdds, FolksRemoves
<1>6. CASE Reload
  BY <1>6, Elsewhere DEF Reload, Unprepare, Unprepared, Prepare
<1>7. CASE UNCHANGED vars
  BY <1>7, Elsewhere DEF vars
<1> QED BY <1>1, <1>2, <1>3, <1>4, <1>5, <1>6, <1>7 DEF Next

\* Every slot and every callback answers its call at most once, whatever the other calls,
\* folks, EDS and a reload do between them: addressbook.cpp sends no second reply to a call
\* and forgets none that it ends.
THEOREM OneAnswerTheorem == Spec => []OneAnswer
<1>1. Init => CallsInv BY CallsInit
<1>2. CallsInv /\ [Next]_vars => CallsInv' BY CallsStep
<1>3. CallsInv => OneAnswer
  BY DEF CallsInv, Fits, HasAnswers, OneAnswer, Kind
<1> QED BY <1>1, <1>2, <1>3, PTL DEF Spec
-----------------------------------------------------------------------------
(***************************************************************************)
(* RemovalsReal.  RemovedUnlessKept speaks of the end of a removal; while  *)
(* it is at work, what it was asked to remove is settled, is the contact   *)
(* folks is asked to remove, or is among the ids that are left.            *)
(***************************************************************************)

\* A contact is made again by a call.
Recreated(p) == \E d \in Calls : Kind(d) = "createContact" /\ call[d].request.contact = p

\* The removal c has nothing to do for the contact p any more.
Settled(c, p) == p \in marked \/ home[p] = None \/ p \in kept[c] \/ Recreated(p)

\* What a removal has still to do is in its data.
RemovalAt(c) ==
  /\ call[c].request.ids \in Seq(Contacts)
  /\ call[c].stage = "done" => \A p \in ToSet(call[c].request.ids) : Settled(c, p)
  /\ call[c].stage = "working" =>
        LET d == call[c].data IN
        /\ d.current \in Contacts /\ d.left \in Seq(Contacts)
        /\ \A p \in ToSet(call[c].request.ids) :
              Settled(c, p) \/ p = d.current \/ p \in ToSet(d.left)

RemovalsInv ==
  /\ DOMAIN home = Contacts /\ DOMAIN kept = Calls /\ entries \subseteq Contacts
  /\ \A c \in Calls : call[c].stage = "none" => Kind(c) \notin {"createContact", "removeContacts"}
  /\ \A c \in Calls : Kind(c) = "removeContacts" => RemovalAt(c)
  /\ MarkedAreTold

\* No step unsettles what was settled.
StaysSettled == \A c \in Calls, p \in Contacts : Settled(c, p) => Settled(c, p)'

\* The contacts of a sequence are those at its places.
LEMMA ToSetFacts ==
  ASSUME NEW S, NEW s \in Seq(S)
  PROVE  /\ ToSet(s) \subseteq S
         /\ \A p : p \in ToSet(s) <=> \E i \in 1..Len(s) : p = s[i]
BY DEF ToSet

\* A set of numbers has its least number.
LEMMA MinIsLeast ==
  ASSUME NEW S \in SUBSET Nat, S # {}
  PROVE  Min(S) \in S /\ \A n \in S : Min(S) <= n
<1>1. PICK m \in S : \A n \in S : ~(<<n, m>> \in OpToRel(<, Nat))
  BY NatLessThanWellFounded, WFMin, Zenon
<1>2. \A n \in S : ~(n < m)
  BY <1>1 DEF OpToRel
<1>3. \A n \in S : m <= n BY <1>2
<1> QED BY <1>3 DEF Min

\* FirstHard is the place of the first contact that needs folks, or 0.
LEMMA FirstHardFacts ==
  ASSUME NEW left \in Seq(Contacts), NEW soft, NEW bad,
         NEW i, i = FirstHard(left, soft, bad)
  PROVE  /\ i = 0 \/ (i \in 1..Len(left) /\ left[i] \in entries)
         /\ \A j \in 1..Len(left) : i = 0 \/ j < i =>
               left[j] \notin entries \/ (soft /\ left[j] \notin bad)
<1> DEFINE I == {j \in 1..Len(left) : left[j] \in entries /\ ~(soft /\ left[j] \notin bad)}
<1>1. FirstHard(left, soft, bad) = IF I # {} THEN Min(I) ELSE 0
  BY DEF FirstHard, SelectInSeq
<1>2. CASE I = {}
  <2>1. i = 0 BY <1>1, <1>2
  <2>2. \A j \in 1..Len(left) : ~(left[j] \in entries /\ ~(soft /\ left[j] \notin bad))
    BY <1>2, Zenon
  <2> QED BY <2>1, <2>2, Zenon
<1>3. CASE I # {}
  <2>1. I \in SUBSET Nat BY Len(left) \in Nat
  <2>2. i \in I /\ \A n \in I : i <= n
    <3>1. i = Min(I) BY <1>1, <1>3
    <3> HIDE DEF I
    <3> QED BY <1>3, <2>1, <3>1, MinIsLeast
  <2>3. i \in 1..Len(left) /\ left[i] \in entries
    BY <2>2
  <2>4. ASSUME NEW j \in 1..Len(left), j < i
        PROVE  left[j] \notin entries \/ (soft /\ left[j] \notin bad)
    <3>1. j \notin I
      <4>1. Len(left) \in Nat OBVIOUS
      <4> HIDE DEF I
      <4> QED BY <2>1, <2>2, <2>4, <4>1
    <3> QED BY <3>1, Zenon
  <2> HIDE DEF I
  <2> QED BY <2>3, <2>4
<1> QED BY <1>2, <1>3

\* The ids before, at and after a place of a sequence are all of them.
LEMMA SplitAt ==
  ASSUME NEW S, NEW left \in Seq(S), NEW i \in 1..Len(left), NEW p \in ToSet(left)
  PROVE  \/ /\ p \in ToSet(SubSeq(left, 1, i - 1))
            /\ \E j \in 1..Len(left) : j < i /\ p = left[j]
         \/ p = left[i]
         \/ p \in ToSet(SubSeq(left, i + 1, Len(left)))
<1>1. Len(left) \in Nat /\ i \in Nat OBVIOUS
<1>2. PICK j \in 1..Len(left) : p = left[j] BY ToSetFacts
<1>3. CASE j < i
  <2> DEFINE s == SubSeq(left, 1, i - 1)
  <2>1. s \in Seq(S) /\ Len(s) = i - 1 /\ s[j] = left[j] /\ j \in 1..Len(s)
    BY <1>1, <1>2, <1>3
  <2>2. p \in ToSet(s) BY <1>2, <2>1, ToSetFacts
  <2> QED BY <1>2, <1>3, <2>2
<1>4. CASE j > i
  <2> DEFINE s == SubSeq(left, i + 1, Len(left))
  <2>1. s \in Seq(S) /\ Len(s) = Len(left) - i /\ j - i \in 1..Len(s) /\ s[j - i] = left[j]
    BY <1>1, <1>2, <1>4
  <2>2. p \in ToSet(s) BY <1>2, <2>1, ToSetFacts
  <2> QED BY <2>2
<1> QED BY <1>1, <1>2, <1>3, <1>4
\* An answer and work change one call, and not what it was asked.
LEMMA AnswerShape ==
  ASSUME CallsInv, NEW c \in Calls, NEW a, Open(c), Answer(c, a)
  PROVE  /\ call'[c].stage = "done" /\ call'[c].request = call[c].request
         /\ \A d \in Calls \ {c} : call'[d] = call[d]
<1>1. Fits(call[c]) BY DEF CallsInv
<1>2. [call[c] EXCEPT !.stage = "done", !.data = Nothing, !.answers = Append(call[c].answers, a)]
        = [stage |-> "done", request |-> call[c].request, data |-> Nothing,
           answers |-> Append(call[c].answers, a)]
  BY <1>1, Answered
<1>3. call' = [call EXCEPT ![c] = [stage |-> "done", request |-> call[c].request,
                                   data |-> Nothing, answers |-> Append(call[c].answers, a)]]
  BY <1>2, Zenon DEF Answer
<1> QED BY <1>3 DEF CallsInv

\* The same of work.
LEMMA WorksShape ==
  ASSUME CallsInv, NEW c \in Calls, NEW d, Open(c), Works(c, d)
  PROVE  /\ call'[c].stage = "working" /\ call'[c].request = call[c].request
         /\ call'[c].data = d
         /\ \A e \in Calls \ {c} : call'[e] = call[e]
<1>1. Fits(call[c]) BY DEF CallsInv
<1>2. [call[c] EXCEPT !.stage = "working", !.data = d]
        = [stage |-> "working", request |-> call[c].request, data |-> d,
           answers |-> call[c].answers]
  BY <1>1, Worked
<1>3. call' = [call EXCEPT ![c] = [stage |-> "working", request |-> call[c].request,
                                   data |-> d, answers |-> call[c].answers]]
  BY <1>2, Zenon DEF Works
<1> QED BY <1>3 DEF CallsInv

\* Whatever a slot or a callback does, every call keeps its request.
LEMMA OutcomeShape ==
  ASSUME CallsInv, NEW c \in Calls, Open(c), Outcome(c)
  PROVE  /\ call'[c].stage # "none"
         /\ \A d \in Calls : call'[d].request = call[d].request
         /\ \A d \in Calls \ {c} : call'[d] = call[d]
<1>1. CASE \E a : Answer(c, a)
  <2>1. PICK a : Answer(c, a) BY <1>1
  <2> QED BY <2>1, AnswerShape
<1>2. CASE \E d : Works(c, d)
  <2>1. PICK d : Works(c, d) BY <1>2
  <2> QED BY <2>1, WorksShape
<1>3. CASE call' = call
  BY <1>3 DEF Open
<1> QED BY <1>1, <1>2, <1>3 DEF Outcome

\* While no request changes and no contact is made, a step that forgets no mark and no
\* contact that was kept leaves settled what is.
LEMMA SettledStays ==
  ASSUME \A d \in Calls : Kind(d) = "createContact" => call'[d].request = call[d].request,
         \A p \in Contacts : p \in marked => p \in marked' \/ Recreated(p)',
         \A p \in Contacts : home[p] = None => home'[p] = None \/ Recreated(p)',
         \A c \in Calls : kept[c] \subseteq kept'[c]
  PROVE  StaysSettled
<1>1. \A p : Recreated(p) => Recreated(p)'
  BY DEF Recreated, Kind, Calls
<1> QED BY <1>1 DEF StaysSettled, Settled

\* A removal that a step does not touch has still to do what it had.
LEMMA OtherRemoval ==
  ASSUME RemovalsInv, StaysSettled, NEW c \in Calls, call'[c] = call[c],
         Kind(c) = "removeContacts"
  PROVE  RemovalAt(c)'
<1>1. RemovalAt(c) BY DEF RemovalsInv
<1>2. ToSet(call[c].request.ids) \subseteq Contacts BY <1>1, ToSetFacts DEF RemovalAt
<1>3. \A p \in ToSet(call[c].request.ids) : Settled(c, p) => Settled(c, p)'
  BY <1>2 DEF StaysSettled
<1> QED BY <1>1, <1>3 DEF RemovalAt

\* A turn of a call that is no removal, and of which no contact knows.
LEMMA NoRemoval ==
  ASSUME CallsInv, RemovalsInv, NEW c \in Calls, Alive, Open(c), Outcome(c),
         Kind(c) # "removeContacts", UNCHANGED contactVars
  PROVE  RemovalsInv'
<1>1. /\ call'[c].stage # "none"
      /\ \A d \in Calls : call'[d].request = call[d].request
      /\ \A d \in Calls \ {c} : call'[d] = call[d]
  BY OutcomeShape
<1>2. UNCHANGED <<home, marked, entries, told, kept>> BY DEF contactVars
<1>3. StaysSettled BY <1>1, <1>2, SettledStays
<1>4. \A d \in Calls : Kind(d)' = "removeContacts" => RemovalAt(d)'
  BY <1>1, <1>3, OtherRemoval DEF Kind
<1>5. marked \subseteq told BY DEF RemovalsInv, MarkedAreTold, Alive
<1>6. \A d \in Calls : call'[d].stage = "none" => Kind(d)' \notin {"createContact", "removeContacts"}
  BY <1>1 DEF RemovalsInv, Kind
<1> QED BY <1>2, <1>4, <1>5, <1>6 DEF RemovalsInv, MarkedAreTold, Calls
\* What a turn of removeContactDone leaves to do was left to do, or the contact failed; it
\* tells of the contacts it marks, or dies.
LEMMA RemoveTurnInv ==
  ASSUME CallsInv, RemovalsInv, NEW c \in Calls, Alive, Open(c),
         NEW left, NEW count, NEW soft, NEW failed, RemoveTurn(c, left, count, soft, failed),
         \/ home' = home
         \/ \E x : home' = [home EXCEPT ![x] = None],
         UNCHANGED entries,
         Kind(c) = "removeContacts" =>
            /\ left \in Seq(Contacts)
            /\ \A p \in ToSet(call[c].request.ids) :
                  Settled(c, p) \/ home'[p] = None \/ p \in failed \/ p \in ToSet(left)
  PROVE  RemovalsInv'
<1>1. /\ DOMAIN home' = Contacts
      /\ \A p \in Contacts : home[p] = None => home'[p] = None
  BY DEF RemovalsInv
<1>2. Outcome(c) BY RemoveTurnOutcome
<1>3. /\ call'[c].stage # "none"
      /\ \A d \in Calls : call'[d].request = call[d].request
      /\ \A d \in Calls \ {c} : call'[d] = call[d]
  BY <1>2, OutcomeShape
<1>4. \A p : Recreated(p) => Recreated(p)'
  BY <1>3 DEF Recreated, Kind, Calls
<1>5. \A d \in Calls : call'[d].stage = "none" => Kind(d)' \notin {"createContact", "removeContacts"}
  BY <1>3 DEF RemovalsInv, Kind
<1>6. marked \subseteq told BY DEF RemovalsInv, MarkedAreTold, Alive
<1>7. SUFFICES /\ DOMAIN kept' = Calls /\ StaysSettled /\ MarkedAreTold'
               /\ Kind(c) = "removeContacts" => RemovalAt(c)'
  <2>1. ASSUME StaysSettled, NEW d \in Calls \ {c}, Kind(d)' = "removeContacts"
        PROVE  RemovalAt(d)'
    BY <1>3, <2>1, OtherRemoval DEF Kind
  <2>2. ASSUME StaysSettled, Kind(c) = "removeContacts" => RemovalAt(c)'
        PROVE  \A d \in Calls : Kind(d)' = "removeContacts" => RemovalAt(d)'
    BY <1>3, <2>1, <2>2 DEF Kind
  <2> QED BY <1>1, <1>5, <2>2 DEF RemovalsInv, Calls
<1>8. CASE left # <<>> /\ ~MapAlive
  <2>1. call' = call /\ marked' = marked /\ told' = told /\ kept' = kept
    BY <1>8 DEF RemoveTurn, Dies
  <2>2. StaysSettled BY <1>1, <1>3, <2>1, SettledStays
  <2>3. Kind(c) = "removeContacts" => RemovalAt(c)'
    BY <2>1, <2>2, OtherRemoval
  <2> QED BY <1>6, <2>1, <2>2, <2>3 DEF RemovalsInv, MarkedAreTold
<1>9. CASE ~(left # <<>> /\ ~MapAlive)
  <2> DEFINE done(i) == IF i = 0 THEN left ELSE SubSeq(left, 1, i - 1)
             marks(i, bad) == Softly(done(i), soft) \ bad
  <2>1. PICK bad, i :
           /\ bad \in SUBSET Softly(left, soft)
           /\ i = FirstHard(left, soft, bad)
           /\ marked' = marked \union marks(i, bad)
           /\ kept' = [kept EXCEPT ![c] = kept[c] \union failed \union (ToSet(done(i)) \ entries)]
           /\ IF i = 0
              THEN Answer(c, count)
              ELSE Works(c, [wait |-> "remove", current |-> left[i], count |-> count,
                             left |-> SubSeq(left, i + 1, Len(left)), soft |-> soft])
           /\ told' = told \union marks(i, bad) \/ crashed' = "freed"
    BY <1>9, Zenon DEF RemoveTurn, Announced
  <2> HIDE DEF done, marks
  <2>2. DOMAIN kept' = Calls /\ \A d \in Calls : kept[d] \subseteq kept'[d]
    BY <2>1 DEF RemovalsInv
  <2>3. StaysSettled BY <1>1, <1>3, <2>1, <2>2, SettledStays
  <2>4. MarkedAreTold' BY <1>6, <2>1 DEF MarkedAreTold
  <2>5. ASSUME Kind(c) = "removeContacts" PROVE RemovalAt(c)'
    <3>1. left \in Seq(Contacts) BY <2>5
    <3>2. call[c].request.ids \in Seq(Contacts) /\ ToSet(call[c].request.ids) \subseteq Contacts
      BY <2>5, ToSetFacts DEF RemovalsInv, RemovalAt
    <3>3. /\ i = 0 \/ (i \in 1..Len(left) /\ left[i] \in entries)
          /\ \A j \in 1..Len(left) : i = 0 \/ j < i =>
                left[j] \notin entries \/ (soft /\ left[j] \notin bad)
      BY <2>1, <3>1, FirstHardFacts
    \* A contact that is done with is marked, or had no entry.
    <3>4. ASSUME NEW j \in 1..Len(left), i = 0 \/ j < i, left[j] \in ToSet(done(i))
          PROVE  Settled(c, left[j])'
      <4>1. CASE left[j] \notin entries
        <5>1. left[j] \in kept'[c] BY <2>1, <3>4, <4>1 DEF RemovalsInv
        <5> QED BY <5>1 DEF Settled
      <4>2. CASE left[j] \in entries
        <5>1. soft /\ left[j] \notin bad BY <3>3, <3>4, <4>2
        <5>2. left[j] \in marks(i, bad) BY <3>4, <4>2, <5>1 DEF marks, Softly
        <5> QED BY <2>1, <5>2 DEF Settled
      <4> QED BY <4>1, <4>2
    <3>5. ASSUME NEW p \in ToSet(call[c].request.ids)
          PROVE  Settled(c, p)' \/ p \in ToSet(left)
      <4>1. CASE Settled(c, p) BY <2>3, <3>2, <4>1 DEF StaysSettled
      <4>2. CASE home'[p] = None BY <4>2 DEF Settled
      <4>3. CASE p \in failed
        <5>1. p \in kept'[c] BY <2>1, <4>3 DEF RemovalsInv
        <5> QED BY <5>1 DEF Settled
      <4> QED BY <2>5, <4>1, <4>2, <4>3
    <3>6. CASE i = 0
      <4>1. call'[c].stage = "done" /\ call'[c].request = call[c].request
        BY <2>1, <3>6, AnswerShape
      <4>2. \A p \in ToSet(left) : Settled(c, p)'
        <5>1. ASSUME NEW p \in ToSet(left) PROVE Settled(c, p)'
          <6>1. PICK j \in 1..Len(left) : p = left[j] BY <3>1, ToSetFacts
          <6> QED BY <3>4, <3>6, <6>1 DEF done
        <5> QED BY <5>1
      <4> QED BY <3>2, <3>5, <4>1, <4>2 DEF RemovalAt
    <3>7. CASE i # 0
      <4>1. i \in 1..Len(left) /\ left[i] \in Contacts BY <3>1, <3>3, <3>7
      <4> DEFINE rest == SubSeq(left, i + 1, Len(left))
      <4>2. /\ call'[c].stage = "working" /\ call'[c].request = call[c].request
            /\ call'[c].data.current = left[i] /\ call'[c].data.left = rest
        <5> DEFINE d == [wait |-> "remove", current |-> left[i], count |-> count,
                         left |-> rest, soft |-> soft]
        <5>1. Works(c, d) BY <2>1, <3>7
        <5>2. d.current = left[i] /\ d.left = rest OBVIOUS
        <5> HIDE DEF d
        <5>3. /\ call'[c].stage = "working" /\ call'[c].request = call[c].request
              /\ call'[c].data = d
          BY <5>1, WorksShape
        <5> QED BY <5>2, <5>3
      <4>3. rest \in Seq(Contacts)
        <5>1. Len(left) \in Nat /\ i \in Nat BY <3>1, <4>1
        <5> QED BY <3>1, <4>1, <5>1
      <4> HIDE DEF rest
      <4>4. \A p \in ToSet(left) : Settled(c, p)' \/ p = left[i] \/ p \in ToSet(rest)
        <5>1. ASSUME NEW p \in ToSet(left), p # left[i], p \notin ToSet(rest)
              PROVE  Settled(c, p)'
          <6>1. PICK j \in 1..Len(left) : j < i /\ p = left[j] /\ p \in ToSet(SubSeq(left, 1, i - 1))
            BY <3>1, <4>1, <5>1, SplitAt DEF rest
          <6> QED BY <3>4, <3>7, <6>1 DEF done
        <5> QED BY <5>1
      <4> QED BY <3>2, <3>5, <4>1, <4>2, <4>3, <4>4 DEF RemovalAt
    <3> QED BY <3>6, <3>7
  <2> QED BY <2>2, <2>3, <2>4, <2>5
<1> QED BY <1>8, <1>9
\* A removal whose slot runs has all its contacts to do.
LEMMA RemoveContactsInv ==
  ASSUME CallsInv, RemovalsInv, NEW c \in Calls, RemoveContacts(c)
  PROVE  RemovalsInv'
<1>1. Open(c) /\ Alive /\ Kind(c) = "removeContacts"
  BY HeadOpen DEF RemoveContacts, Runs
<1>2. call[c].request.ids \in Seq(Contacts)
  BY <1>1 DEF RemovalsInv, RemovalAt
<1>3. RemoveTurn(c, call[c].request.ids, 0, TRUE, {}) /\ UNCHANGED <<home, entries>>
  BY DEF RemoveContacts
<1> QED BY <1>1, <1>2, <1>3, RemoveTurnInv

\* The contact folks was busy with is gone, or could not be removed.
LEMMA RemoveContactDoneInv ==
  ASSUME CallsInv, RemovalsInv, NEW c \in Calls, RemoveContactDone(c)
  PROVE  RemovalsInv'
<1>1. Open(c) /\ Alive /\ call[c].stage = "working" /\ UNCHANGED entries
  BY DEF RemoveContactDone, Working, Open
<1> DEFINE d == call[c].data
<1>2. PICK n, failed :
        /\ RemoveTurn(c, d.left, n, d.soft, failed)
        /\ \/ home' = [home EXCEPT ![d.current] = None]
           \/ home' = home /\ failed = {d.current}
  BY DEF RemoveContactDone
<1>3. ASSUME Kind(c) = "removeContacts"
      PROVE  /\ d.left \in Seq(Contacts)
             /\ \A p \in ToSet(call[c].request.ids) :
                   Settled(c, p) \/ home'[p] = None \/ p \in failed \/ p \in ToSet(d.left)
  <2>1. RemovalAt(c) /\ DOMAIN home = Contacts BY <1>3 DEF RemovalsInv
  <2>2. d.current \in Contacts BY <1>1, <2>1 DEF RemovalAt
  <2>3. home'[d.current] = None \/ d.current \in failed BY <1>2, <2>1, <2>2
  <2> QED BY <1>1, <2>1, <2>3 DEF RemovalAt
<1>4. home' = home \/ \E x : home' = [home EXCEPT ![x] = None] BY <1>2
<1> HIDE DEF d
<1> QED BY <1>1, <1>2, <1>3, <1>4, RemoveTurnInv

\* A purge marks nothing, and was no other call before.
LEMMA PurgeInv ==
  ASSUME CallsInv, RemovalsInv, NEW c \in Calls, PurgeContacts(c)
  PROVE  RemovalsInv'
<1>1. call[c].stage = "none" /\ Alive /\ UNCHANGED <<home, marked, entries, told, kept>>
  BY DEF PurgeContacts, IsNext, contactVars
<1>2. PICK r, d :
        /\ r.kind = "purge"
        /\ \/ call' = call
           \/ call' = [call EXCEPT ![c] = [stage |-> "done", request |-> r, data |-> Nothing,
                                          answers |-> <<0, "returned">>]]
           \/ call' = [call EXCEPT ![c] = [stage |-> "working", request |-> r,
                                          answers |-> <<"returned">>, data |-> d]]
  BY DEF PurgeContacts, Dies
<1>3. Kind(c) \notin {"createContact", "removeContacts"} BY <1>1 DEF RemovalsInv
<1>4. /\ \A e \in Calls \ {c} : call'[e] = call[e]
      /\ Kind(c)' \notin {"createContact", "removeContacts"}
  BY <1>2, <1>3 DEF CallsInv, Kind
<1>5. StaysSettled BY <1>1, <1>3, <1>4, SettledStays DEF Kind
<1>6. \A e \in Calls : Kind(e)' = "removeContacts" => RemovalAt(e)'
  BY <1>4, <1>5, OtherRemoval DEF Kind
<1>7. \A e \in Calls : call'[e].stage = "none" => Kind(e)' \notin {"createContact", "removeContacts"}
  BY <1>4 DEF RemovalsInv, Kind
<1>8. marked \subseteq told BY <1>1 DEF RemovalsInv, MarkedAreTold, Alive
<1> QED BY <1>1, <1>6, <1>7, <1>8 DEF RemovalsInv, MarkedAreTold, Calls

\* A contact that is made, and may have been removed before, is made by a call.
LEMMA PersonaAddedInv ==
  ASSUME CallsInv, RemovalsInv, NEW c \in Calls, PersonaAdded(c)
  PROVE  RemovalsInv'
<1> DEFINE r == call[c]
<1>0. PICK p : p = r.request.contact OBVIOUS
<1>1. /\ Fits(r) /\ r.stage = "working" /\ Kind(c) = "createContact" /\ Alive
      /\ UNCHANGED <<entries, told, kept>>
  BY DEF CallsInv, PersonaAdded, Working
<1>2. PICK w : call' = [call EXCEPT ![c].data.wait = w] BY DEF PersonaAdded
<1>3. [r EXCEPT !.data = [r.data EXCEPT !.wait = w]]
        = [stage |-> r.stage, request |-> r.request, data |-> [r.data EXCEPT !.wait = w],
           answers |-> r.answers]
  BY <1>1, DataChanged
<1>4. call' = [call EXCEPT ![c] = [stage |-> r.stage, request |-> r.request,
                                   data |-> [r.data EXCEPT !.wait = w], answers |-> r.answers]]
  BY <1>2, <1>3
<1>5. /\ call'[c].stage = r.stage /\ call'[c].request = r.request
      /\ \A d \in Calls \ {c} : call'[d] = call[d]
  BY <1>4 DEF CallsInv
<1>6. Recreated(p)' BY <1>0, <1>1, <1>5 DEF Recreated, Kind, Calls
<1>7. /\ DOMAIN home' = DOMAIN home /\ marked' \subseteq marked
      /\ \A q \in Contacts : q # p => home'[q] = home[q] /\ (q \in marked => q \in marked')
  BY <1>0 DEF PersonaAdded, RemovalsInv
<1> HIDE DEF r
<1>8. StaysSettled
  <2>1. \A q \in Contacts : q \in marked => q \in marked' \/ Recreated(q)'
    BY <1>6, <1>7
  <2>2. \A q \in Contacts : home[q] = None => home'[q] = None \/ Recreated(q)'
    BY <1>6, <1>7
  <2> QED BY <1>1, <1>5, <2>1, <2>2, SettledStays DEF r
<1>9. \A d \in Calls : Kind(d)' = "removeContacts" => RemovalAt(d)'
  BY <1>1, <1>5, <1>8, OtherRemoval DEF Kind, r
<1>10. \A d \in Calls : call'[d].stage = "none" => Kind(d)' \notin {"createContact", "removeContacts"}
  BY <1>1, <1>5 DEF RemovalsInv, Kind
<1>11. marked \subseteq told BY <1>1 DEF RemovalsInv, MarkedAreTold, Alive
<1> QED BY <1>1, <1>7, <1>9, <1>10, <1>11 DEF RemovalsInv, MarkedAreTold, Calls

\* A call that arrives has all its contacts to do.
LEMMA ArriveInv ==
  ASSUME CallsInv, RemovalsInv, NEW c \in Calls, Arrive(c), UNCHANGED contactVars
  PROVE  RemovalsInv'
<1>1. PICK q \in Requests : call' = [call EXCEPT ![c] = [call[c] EXCEPT !.stage = "queued", !.request = q]]
  BY DEF Arrive
<1>2. call[c].stage = "none" /\ Fits(call[c]) /\ Alive
  BY DEF Arrive, IsNext, CallsInv
<1>3. call' = [call EXCEPT ![c] = [stage |-> "queued", request |-> q, data |-> call[c].data,
                                   answers |-> call[c].answers]]
  <2>1. [call[c] EXCEPT !.stage = "queued", !.request = q]
          = [stage |-> "queued", request |-> q, data |-> call[c].data,
             answers |-> call[c].answers]
    BY <1>2, Asked
  <2> QED BY <1>1, <2>1, Zenon
<1>4. /\ call'[c].stage = "queued" /\ call'[c].request = q
      /\ \A d \in Calls \ {c} : call'[d] = call[d]
  BY <1>3 DEF CallsInv
<1>5. UNCHANGED <<home, marked, entries, told, kept>> BY DEF contactVars
<1>6. Kind(c) \notin {"createContact", "removeContacts"} BY <1>2 DEF RemovalsInv
<1>7. StaysSettled BY <1>4, <1>5, <1>6, SettledStays DEF Kind
<1>8. Kind(c)' = "removeContacts" => RemovalAt(c)'
  BY <1>4, IdsAssumption DEF Kind, RemovalAt
<1>9. \A d \in Calls : Kind(d)' = "removeContacts" => RemovalAt(d)'
  BY <1>4, <1>7, <1>8, OtherRemoval DEF Kind
<1>10. \A d \in Calls : call'[d].stage = "none" => Kind(d)' \notin {"createContact", "removeContacts"}
  BY <1>4 DEF RemovalsInv, Kind
<1> QED BY <1>2, <1>5, <1>9, <1>10 DEF RemovalsInv, MarkedAreTold, Alive, Calls

\* Slots and callbacks that remove nothing.
LEMMA QuietTurns ==
  ASSUME CallsInv, NEW c \in Calls,
         SourceCallsNext(c) \/ CreateContact(c) \/ CreateContactDone(c)
  PROVE  Alive /\ Open(c) /\ Outcome(c) /\ Kind(c) # "removeContacts"
<1>1. CASE CreateSource(c)
  BY <1>1, HeadOpen DEF CreateSource, Outcome, Runs
<1>2. CASE UpdateSources(c)
  BY <1>2, HeadOpen DEF UpdateSources, UpdateFrom, Outcome, Runs
<1>3. CASE RemoveSource(c)
  BY <1>3, HeadOpen DEF RemoveSource, Outcome, Runs
<1>4. CASE GetSource(c)
  BY <1>4, HeadOpen DEF GetSource, Outcome, Runs
<1>5. CASE CreateSourceDone(c)
  BY <1>5 DEF CreateSourceDone, Outcome, Working, Open
<1>6. CASE UpdateSourceEDSDone(c)
  BY <1>6 DEF UpdateSourceEDSDone, UpdateFrom, Outcome, Working, Open
<1>7. CASE RemoveSourceDone(c)
  BY <1>7 DEF RemoveSourceDone, Outcome, Working, Open
<1>8. CASE CreateContact(c)
  BY <1>8, HeadOpen DEF CreateContact, Outcome, Runs, Dies
<1>9. CASE CreateContactDone(c)
  BY <1>9 DEF CreateContactDone, Outcome, Working, Open, Dies
<1> QED BY <1>1, <1>2, <1>3, <1>4, <1>5, <1>6, <1>7, <1>8, <1>9 DEF SourceCallsNext

\* Folks and a reload change the entries, and unmark nothing.
LEMMA EntriesInv ==
  ASSUME RemovalsInv, UNCHANGED <<call, home, marked, kept>>, entries' \subseteq Contacts,
         told \subseteq told', Alive \/ crashed' = crashed
  PROVE  RemovalsInv'
<1>1. StaysSettled BY SettledStays
<1>2. \A c \in Calls : Kind(c)' = "removeContacts" => RemovalAt(c)'
  BY <1>1, OtherRemoval DEF Kind
<1> QED BY <1>2 DEF RemovalsInv, MarkedAreTold, Alive, Kind, Calls

\* Nothing is removed, made or marked at first.
LEMMA RemovalsInit ==
  ASSUME Init
  PROVE  RemovalsInv
<1>1. \A c \in Calls : call[c].request = Nothing BY DEF Init, RepliesInit, Idle
<1> QED BY <1>1 DEF Init, RemovalsInv, MarkedAreTold, Kind, Nothing

\* Every step of the calls, folks, EDS and a reload keeps what the removals have to do.
LEMMA RemovalsStep ==
  ASSUME CallsInv, RemovalsInv, [Next]_vars
  PROVE  RemovalsInv'
<1>1. CASE \E c \in Calls : Arrive(c) /\ UNCHANGED <<sourceVars, contactVars>>
  BY <1>1, ArriveInv
<1>2. CASE \E c \in Calls : SourceCallsNext(c) /\ UNCHANGED contactVars
  BY <1>2, QuietTurns, NoRemoval
<1>3. CASE \E c \in Calls : CreateContact(c) \/ CreateContactDone(c)
  <2>1. UNCHANGED contactVars BY <1>3 DEF CreateContact, CreateContactDone
  <2> QED BY <1>3, <2>1, QuietTurns, NoRemoval
<1>4. CASE \E c \in Calls : \/ PersonaAdded(c) \/ RemoveContacts(c)
                           \/ PurgeContacts(c) \/ RemoveContactDone(c)
  BY <1>4, PersonaAddedInv, RemoveContactsInv, PurgeInv, RemoveContactDoneInv
<1>5. CASE \E s \in Sources : (StoreAppears(s) \/ StoreVanishes(s)) /\ UNCHANGED contactVars
  <2>1. UNCHANGED <<call, home, marked, kept, entries, told, crashed>>
    BY <1>5 DEF StoreAppears, StoreVanishes, contactVars, replyVars, serviceVars
  <2> QED BY <2>1, EntriesInv DEF RemovalsInv
<1>6. CASE \E p \in Contacts : FolksAdds(p) \/ FolksRemoves(p)
  <2>1. /\ UNCHANGED <<call, home, marked, kept, crashed>>
        /\ entries' \subseteq Contacts /\ told \subseteq told'
    BY <1>6 DEF FolksAdds, FolksRemoves, RemovalsInv, replyVars, serviceVars
  <2> QED BY <2>1, EntriesInv
<1>7. CASE Reload
  <2>1. /\ UNCHANGED <<call, home, marked, kept, told, crashed>>
        /\ entries' \subseteq Contacts
    BY <1>7 DEF Reload, Unprepare, Unprepared, Prepare, RemovalsInv, replyVars, contactVars
  <2> QED BY <2>1, EntriesInv
<1>8. CASE UNCHANGED vars
  <2>1. UNCHANGED <<call, home, marked, kept, entries, told, crashed>>
    BY <1>8 DEF vars, contactVars, replyVars, serviceVars
  <2> QED BY <2>1, EntriesInv DEF RemovalsInv
<1> QED BY <1>1, <1>2, <1>3, <1>4, <1>5, <1>6, <1>7, <1>8 DEF Next

\* A removal that is answered has marked or removed what it was asked to, but for what it
\* kept, and what is marked is announced as removed: addressbook.cpp's removeContactDone
\* leaves no id out, whichever of them EDS refuses to mark and whatever goes while it waits.
THEOREM RemovalsTheorem == Spec => []RemovalsReal
<1> DEFINE Inv == CallsInv /\ RemovalsInv
<1>1. Init => Inv BY CallsInit, RemovalsInit
<1>2. Inv /\ [Next]_vars => Inv' BY CallsStep, RemovalsStep
<1>3. Inv => RemovalsReal
  BY DEF RemovalsInv, RemovalAt, Settled, Recreated, RemovalsReal, RemovedUnlessKept
<1> QED BY <1>1, <1>2, <1>3, PTL DEF Spec
-----------------------------------------------------------------------------
(***************************************************************************)
(* SourceAnswersTrue.  While an update is at work, what it has to say so   *)
(* far is about sources before the one the registry is asked to store, in  *)
(* their order, and what is left is the rest of the list.                  *)
(***************************************************************************)

SourceRecord == [id : Sources, isPrimary : BOOLEAN]

\* The sources of the result are among the first m of the list, in their order.
Embeds(result, list, m) ==
  \E f \in [1..Len(result) -> 1..m] :
     /\ \A i \in 1..Len(result) : result[i].id = list[f[i]]
     /\ \A i, j \in 1..Len(result) : i < j => f[i] < f[j]

\* What is left of the list after its first m places.
Rest(left, list, m) ==
  /\ left \in Seq(Sources) /\ Len(left) = Len(list) - m
  /\ \A j \in 1..Len(left) : left[j] = list[m + j]

\* The data d of an update of the sources in the list.
Updates(d, list) ==
  \E k \in 1..Len(list) :
     /\ d.current = list[k] /\ Rest(d.left, list, k)
     /\ d.result \in Seq(SourceRecord) /\ Embeds(d.result, list, k - 1)

SourceAnswer(c) ==
  /\ call[c].request \in Requests \union {Nothing}
  /\ call[c].stage = "done" /\ c \notin blind =>
        LET a == call[c].answers[1] IN
        /\ Kind(c) = "createSource" => a.id = None \/ (a.id \in Sources /\ InRegistry(a.id))
        /\ Kind(c) = "updateSources" => Embeds(a, call[c].request.list, Len(call[c].request.list))
  /\ call[c].stage = "working" /\ Kind(c) = "updateSources" =>
        Updates(call[c].data, call[c].request.list)

SourcesInv ==
  /\ DOMAIN registry = Sources
  /\ \A c \in Calls : SourceAnswer(c)

\* The registry forgets no source.
RegistryGrows ==
  /\ DOMAIN registry' = Sources
  /\ \A s \in Sources : InRegistry(s) => InRegistry(s)'

\* What a call for sources names are sources.
LEMMA SourcesNamed ==
  ASSUME SourcesInv, NEW c \in Calls
  PROVE  /\ Kind(c) = "createSource" => call[c].request.source \in Sources
         /\ Kind(c) = "updateSources" => call[c].request.list \in Seq(Sources)
<1>1. Nothing.kind = "nothing" BY DEF Nothing
<1>2. call[c].request = Nothing \/ call[c].request \in Requests
  BY DEF SourcesInv, SourceAnswer
<1>3. CASE call[c].request = Nothing
  <2>1. Kind(c) = "nothing" BY <1>1, <1>3 DEF Kind
  <2> QED BY <2>1
<1>4. CASE call[c].request \in Requests BY <1>4, SourcesAssumption DEF Kind
<1> QED BY <1>2, <1>3, <1>4

\* The answer to a call that is answered in a slot or a callback is its first.
LEMMA FirstAnswer ==
  ASSUME CallsInv, NEW c \in Calls, NEW a, Open(c), Answer(c, a), Kind(c) # "purge"
  PROVE  call'[c].answers[1] = a
<1>1. Fits(call[c]) BY DEF CallsInv
<1>2. [call[c] EXCEPT !.stage = "done", !.data = Nothing, !.answers = Append(call[c].answers, a)]
        = [stage |-> "done", request |-> call[c].request, data |-> Nothing,
           answers |-> Append(call[c].answers, a)]
  BY <1>1, Answered
<1>3. call' = [call EXCEPT ![c] = [stage |-> "done", request |-> call[c].request,
                                   data |-> Nothing, answers |-> Append(call[c].answers, a)]]
  BY <1>2, Zenon DEF Answer
<1>4. call'[c].answers = Append(call[c].answers, a) BY <1>3 DEF CallsInv
<1>5. PICK S : call[c].answers \in Seq(S) /\ Len(call[c].answers) = 0
  BY <1>1 DEF Fits, HasAnswers, Open, Kind
<1>6. call[c].answers \in Seq(S \union {a}) BY <1>5
<1> QED BY <1>4, <1>5, <1>6

\* A result stays a part of a longer beginning of the list.
LEMMA EmbedsMore ==
  ASSUME NEW result, NEW list, NEW m \in Nat, NEW n \in Nat, m <= n, Embeds(result, list, m)
  PROVE  Embeds(result, list, n)
<1>1. PICK f \in [1..Len(result) -> 1..m] :
         /\ \A i \in 1..Len(result) : result[i].id = list[f[i]]
         /\ \A i, j \in 1..Len(result) : i < j => f[i] < f[j]
  BY DEF Embeds
<1>2. f \in [1..Len(result) -> 1..n] BY <1>1
<1> QED BY <1>1, <1>2 DEF Embeds

\* A result of nothing is a part of any list.
LEMMA EmbedsNothing ==
  ASSUME NEW list, NEW m \in Nat
  PROVE  Embeds(<<>>, list, m)
<1> DEFINE f == [i \in {} |-> 1]
<1>1. f \in [1..Len(<<>>) -> 1..m] OBVIOUS
<1>2. 1..Len(<<>>) = {} OBVIOUS
<1> QED BY <1>1, <1>2 DEF Embeds

\* The next source of the list may be added to the result.
LEMMA EmbedsNext ==
  ASSUME NEW result \in Seq(SourceRecord), NEW list, NEW k \in Nat \ {0},
         Embeds(result, list, k - 1), NEW r \in SourceRecord, r.id = list[k]
  PROVE  Embeds(Append(result, r), list, k)
<1>1. PICK f \in [1..Len(result) -> 1..(k - 1)] :
         /\ \A i \in 1..Len(result) : result[i].id = list[f[i]]
         /\ \A i, j \in 1..Len(result) : i < j => f[i] < f[j]
  BY DEF Embeds
<1> DEFINE n == Len(result)
           new == Append(result, r)
           g == [i \in 1..(n + 1) |-> IF i = n + 1 THEN k ELSE f[i]]
<1>2. /\ n \in Nat /\ Len(new) = n + 1 /\ new[n + 1] = r
      /\ \A i \in 1..n : new[i] = result[i]
  OBVIOUS
<1>3. \A i \in 1..n : f[i] \in 1..(k - 1) BY <1>1
<1>4. g \in [1..Len(new) -> 1..k] BY <1>2, <1>3
<1>5. \A i \in 1..Len(new) : new[i].id = list[g[i]]
  BY <1>1, <1>2
<1>6. \A i, j \in 1..Len(new) : i < j => g[i] < g[j]
  <2> SUFFICES ASSUME NEW i \in 1..(n + 1), NEW j \in 1..(n + 1), i < j PROVE g[i] < g[j]
    BY <1>2
  <2>1. i \in 1..n /\ g[i] = f[i] BY <1>2
  <2>2. CASE j = n + 1 BY <1>2, <1>3, <2>1, <2>2
  <2>3. CASE j # n + 1
    <3>1. j \in 1..n /\ g[j] = f[j] BY <1>2, <2>3
    <3> QED BY <1>1, <2>1, <3>1
  <2> QED BY <2>2, <2>3
<1> HIDE DEF new, g
<1> QED BY <1>4, <1>5, <1>6 DEF Embeds, new

\* What comes after a place of a sequence.
LEMMA AfterPlace ==
  ASSUME NEW S, NEW s \in Seq(S), NEW i \in 1..Len(s)
  PROVE  /\ SubSeq(s, i + 1, Len(s)) \in Seq(S)
         /\ Len(SubSeq(s, i + 1, Len(s))) = Len(s) - i
         /\ \A j \in 1..Len(SubSeq(s, i + 1, Len(s))) :
               SubSeq(s, i + 1, Len(s))[j] = s[i + j] /\ i + j \in 1..Len(s)
<1>1. Len(s) \in Nat /\ i \in Nat OBVIOUS
<1>2. SubSeq(s, i + 1, Len(s)) \in Seq(S) BY <1>1
<1>3. Len(SubSeq(s, i + 1, Len(s))) = Len(s) - i BY <1>1
<1> QED BY <1>1, <1>2, <1>3

\* Found is the place of a source in what is left, or 0.
LEMMA FoundFacts ==
  ASSUME NEW left \in Seq(Sources), NEW i, i = Found(left)
  PROVE  i = 0 \/ i \in 1..Len(left)
<1> DEFINE I == {j \in 1..Len(left) : InRegistry(left[j])}
<1>1. i = IF I # {} THEN Min(I) ELSE 0 BY DEF Found, SelectInSeq
<1>2. Len(left) \in Nat /\ I \in SUBSET Nat OBVIOUS
<1>3. I \subseteq 1..Len(left) OBVIOUS
<1> HIDE DEF I
<1> QED BY <1>1, <1>2, <1>3, MinIsLeast
\* A step in which one call at most goes on, and as SourceAnswer says.
LEMMA OthersAnswers ==
  ASSUME SourcesInv, NEW c \in Calls, RegistryGrows, blind \subseteq blind',
         \A d \in Calls \ {c} : call'[d] = call[d],
         SourceAnswer(c)'
  PROVE  SourcesInv'
<1>1. ASSUME NEW d \in Calls \ {c} PROVE SourceAnswer(d)'
  <2>1. call'[d] = call[d] /\ SourceAnswer(d) BY DEF SourcesInv
  <2>2. d \notin blind' => d \notin blind OBVIOUS
  <2>5. \A s \in Sources : InRegistry(s) => InRegistry(s)' BY DEF RegistryGrows
  <2>6. Kind(d)' = Kind(d) BY <2>1 DEF Kind
  <2> QED BY <2>1, <2>2, <2>5, <2>6 DEF SourceAnswer
<1>2. \A d \in Calls : SourceAnswer(d)' BY <1>1
<1> QED BY <1>2 DEF SourcesInv, RegistryGrows, Calls

\* A turn of a call that is not about creating or updating sources.
LEMMA NoSourceCall ==
  ASSUME SourcesInv, NEW c \in Calls, RegistryGrows, blind \subseteq blind',
         \A d \in Calls \ {c} : call'[d] = call[d],
         call'[c].request \in Requests \union {Nothing},
         \/ Kind(c)' \notin {"createSource", "updateSources"}
         \/ call'[c].stage \notin {"working", "done"}
  PROVE  SourcesInv'
<1>1. SourceAnswer(c)' BY DEF SourceAnswer
<1> QED BY <1>1, OthersAnswers

\* The next source that the registry has is committed, or the update is answered.
LEMMA UpdateFromInv ==
  ASSUME CallsInv, SourcesInv, NEW c \in Calls, Open(c), Kind(c) = "updateSources",
         NEW left, NEW result \in Seq(SourceRecord), NEW primary, NEW m \in Nat,
         m <= Len(call[c].request.list),
         Rest(left, call[c].request.list, m), Embeds(result, call[c].request.list, m),
         UpdateFrom(c, left, result, primary)
  PROVE  SourceAnswer(c)'
<1>1. PICK list : list = call[c].request.list OBVIOUS
<1>2. list \in Seq(Sources) /\ Len(list) \in Nat /\ Len(call[c].request.list) = Len(list)
  BY <1>1, SourcesNamed
<1>3. left \in Seq(Sources) /\ Len(left) = Len(list) - m
      /\ \A j \in 1..Len(left) : left[j] = list[m + j]
  BY <1>1 DEF Rest
<1>4. PICK i : i = Found(left) OBVIOUS
<1>5. i = 0 \/ i \in 1..Len(left) BY <1>3, <1>4, FoundFacts
<1>6. CASE i = 0
  <2>1. Answer(c, result) BY <1>4, <1>6 DEF UpdateFrom
  <2>2. call'[c].stage = "done" /\ call'[c].request = call[c].request
    BY <2>1, AnswerShape
  <2>3. call'[c].answers[1] = result BY <2>1, FirstAnswer
  <2>4. Embeds(result, list, Len(list)) BY <1>1, <1>2, EmbedsMore
  <2>5. Kind(c)' = "updateSources" BY <2>2 DEF Kind
  <2>6. call'[c].request.list = list BY <1>1, <2>2
  <2>7. call'[c].request \in Requests \union {Nothing} BY <2>2 DEF SourcesInv, SourceAnswer
  <2> QED BY <2>2, <2>3, <2>4, <2>5, <2>6, <2>7 DEF SourceAnswer
<1>7. CASE i # 0
  <2>1. i \in 1..Len(left) /\ i \in Nat /\ m + i \in 1..Len(list) /\ left[i] = list[m + i]
    BY <1>2, <1>3, <1>5, <1>7
  <2>2. PICK rest : rest = SubSeq(left, i + 1, Len(left)) OBVIOUS
  <2>3. PICK d : d = [wait |-> "commit", current |-> left[i], result |-> result, left |-> rest]
    OBVIOUS
  <2>4. Works(c, d) BY <1>4, <1>7, <2>2, <2>3 DEF UpdateFrom
  <2>5. d.current = left[i] /\ d.result = result /\ d.left = rest BY <2>3
  <2>6. call'[c].stage = "working" /\ call'[c].request = call[c].request /\ call'[c].data = d
    BY <2>4, WorksShape
  <2>7. Rest(rest, list, m + i)
    <3>1. /\ rest \in Seq(Sources) /\ Len(rest) = Len(left) - i
          /\ \A j \in 1..Len(rest) : rest[j] = left[i + j] /\ i + j \in 1..Len(left)
      BY <1>3, <2>1, <2>2, AfterPlace
    <3>2. \A j \in 1..Len(rest) : left[i + j] = list[m + (i + j)] BY <1>3, <3>1
    <3>3. \A j \in 1..Len(rest) : m + (i + j) = (m + i) + j BY <2>1
    <3>4. Len(rest) = Len(list) - (m + i) BY <1>2, <1>3, <2>1, <3>1
    <3> QED BY <3>1, <3>2, <3>3, <3>4 DEF Rest
  <2>8. Embeds(result, list, (m + i) - 1)
    <3>1. (m + i) - 1 \in Nat /\ m <= (m + i) - 1 BY <2>1
    <3> QED BY <1>1, <3>1, EmbedsMore
  <2>9. Updates(d, list)
    <3>1. PICK k : k = m + i OBVIOUS
    <3>2. /\ k \in 1..Len(list) /\ d.current = list[k] /\ Rest(d.left, list, k)
          /\ d.result \in Seq(SourceRecord) /\ Embeds(d.result, list, k - 1)
      BY <2>1, <2>5, <2>7, <2>8, <3>1
    <3> QED BY <3>2 DEF Updates
  <2>10. call'[c].request \in Requests \union {Nothing} BY <2>6 DEF SourcesInv, SourceAnswer
  <2>11. call'[c].request.list = list BY <1>1, <2>6
  <2> QED BY <2>6, <2>9, <2>10, <2>11 DEF SourceAnswer
<1> QED BY <1>6, <1>7
\* A step that leaves the calls alone.
LEMMA NoCall ==
  ASSUME SourcesInv, call' = call, RegistryGrows, blind' = blind
  PROVE  SourcesInv'
<1>1. ASSUME NEW c \in Calls PROVE SourceAnswer(c)'
  <2>1. call'[c] = call[c] /\ SourceAnswer(c) BY DEF SourcesInv
  <2>2. \A s \in Sources : InRegistry(s) => InRegistry(s)' BY DEF RegistryGrows
  <2>3. Kind(c)' = Kind(c) BY <2>1 DEF Kind
  <2> QED BY <2>1, <2>2, <2>3 DEF SourceAnswer
<1> QED BY <1>1 DEF SourcesInv, RegistryGrows, Calls

\* The registry as it was, with a source enabled or disabled.
LEMMA RegistryKept ==
  ASSUME SourcesInv,
         \/ registry' = registry
         \/ \E s : registry' = [registry EXCEPT ![s] = "enabled"]
         \/ \E s : registry' = [registry EXCEPT ![s] = IF registry[s] = "absent" THEN registry[s]
                                                       ELSE "disabled"]
  PROVE  RegistryGrows
BY DEF SourcesInv, RegistryGrows, InRegistry

\* The calls that create a source.
LEMMA CreateSourceInv ==
  ASSUME CallsInv, SourcesInv, NEW c \in Calls, CreateSource(c) \/ CreateSourceDone(c)
  PROVE  SourcesInv'
<1>1. Open(c) /\ Kind(c) = "createSource"
  BY HeadOpen DEF CreateSource, CreateSourceDone, Working, Open, Kind
<1>2. PICK r : r = call[c].request OBVIOUS
<1>3. r.source \in Sources BY <1>1, <1>2, SourcesNamed
<1>4. blind \subseteq blind' BY DEF CreateSource, CreateSourceDone
<1>5. RegistryGrows BY RegistryKept DEF CreateSource, CreateSourceDone
<1>6. \/ \E d : Works(c, d)
      \/ \E a : Answer(c, a) /\ (c \in blind' \/ a = NoSource \/ (a.id = r.source /\ InRegistry(r.source)'))
  <2>1. CASE CreateSource(c) BY <1>2, <2>1 DEF CreateSource
  <2>2. CASE CreateSourceDone(c)
    <3>1. CASE registry' = [registry EXCEPT ![r.source] = "enabled"]
               /\ Answer(c, [id |-> r.source, isPrimary |-> r.primary])
      <4>1. InRegistry(r.source)' BY <1>3, <3>1 DEF InRegistry, SourcesInv
      <4>2. [id |-> r.source, isPrimary |-> r.primary].id = r.source OBVIOUS
      <4> QED BY <3>1, <4>1, <4>2
    <3>2. CASE Answer(c, NoSource) BY <3>2
    <3> QED BY <1>2, <2>2, <3>1, <3>2 DEF CreateSourceDone
  <2> QED BY <2>1, <2>2
<1>7. CASE \E d : Works(c, d)
  <2>1. PICK d : Works(c, d) BY <1>7
  <2>2. /\ call'[c].stage = "working" /\ call'[c].request = call[c].request
        /\ \A e \in Calls \ {c} : call'[e] = call[e]
    BY <1>1, <2>1, WorksShape
  <2>3. SourceAnswer(c)' BY <1>1, <2>2 DEF SourcesInv, SourceAnswer, Kind
  <2> QED BY <1>4, <1>5, <2>2, <2>3, OthersAnswers
<1>8. CASE \E a : /\ Answer(c, a)
                  /\ c \in blind' \/ a = NoSource \/ (a.id = r.source /\ InRegistry(r.source)')
  <2>1. PICK a : /\ Answer(c, a)
                 /\ c \in blind' \/ a = NoSource \/ (a.id = r.source /\ InRegistry(r.source)')
    BY <1>8
  <2>2. /\ call'[c].stage = "done" /\ call'[c].request = call[c].request
        /\ \A e \in Calls \ {c} : call'[e] = call[e]
    BY <1>1, <2>1, AnswerShape
  <2>3. call'[c].answers[1] = a BY <1>1, <2>1, FirstAnswer
  <2>4. c \in blind' \/ a.id = None \/ (a.id \in Sources /\ InRegistry(a.id)')
    <3>1. CASE a = NoSource BY <3>1 DEF NoSource
    <3>2. CASE a.id = r.source /\ InRegistry(r.source)' BY <1>3, <3>2 DEF InRegistry
    <3> QED BY <2>1, <3>1, <3>2
  <2>5. Kind(c)' = "createSource" /\ call'[c].request \in Requests \union {Nothing}
    BY <1>1, <2>2 DEF SourcesInv, SourceAnswer, Kind
  <2>6. SourceAnswer(c)' BY <2>2, <2>3, <2>4, <2>5 DEF SourceAnswer, InRegistry
  <2> QED BY <1>4, <1>5, <2>2, <2>6, OthersAnswers
<1> QED BY <1>6, <1>7, <1>8

\* An update that is answered with nothing, or by one that had no primary store.
LEMMA EmptyUpdate ==
  ASSUME CallsInv, SourcesInv, NEW c \in Calls, Open(c), Kind(c) = "updateSources",
         Answer(c, <<>>)
  PROVE  SourceAnswer(c)'
<1>1. call'[c].stage = "done" /\ call'[c].request = call[c].request BY AnswerShape
<1>2. call'[c].answers[1] = <<>> BY FirstAnswer
<1>3. Embeds(<<>>, call[c].request.list, Len(call[c].request.list))
  <2>1. Len(call[c].request.list) \in Nat BY SourcesNamed
  <2> QED BY <2>1, EmbedsNothing
<1>4. Kind(c)' = "updateSources" /\ call'[c].request \in Requests \union {Nothing}
  BY <1>1 DEF SourcesInv, SourceAnswer, Kind
<1> QED BY <1>1, <1>2, <1>3, <1>4 DEF SourceAnswer

\* The calls that update sources.
LEMMA UpdateSourcesInv ==
  ASSUME CallsInv, SourcesInv, NEW c \in Calls, UpdateSources(c) \/ UpdateSourceEDSDone(c)
  PROVE  SourcesInv'
<1>1. Open(c) /\ Kind(c) = "updateSources"
  BY HeadOpen DEF UpdateSources, UpdateSourceEDSDone, Working, Open, Kind
<1>2. PICK list : list = call[c].request.list OBVIOUS
<1>3. list \in Seq(Sources) /\ Len(list) \in Nat BY <1>1, <1>2, SourcesNamed
<1>4. blind \subseteq blind' BY DEF UpdateSources, UpdateSourceEDSDone
<1>5. RegistryGrows BY RegistryKept DEF UpdateSources, UpdateSourceEDSDone
<1>6. \A d \in Calls \ {c} : call'[d] = call[d]
  <2>1. Outcome(c) BY DEF UpdateSources, UpdateSourceEDSDone, UpdateFrom, Outcome
  <2> QED BY <1>1, <2>1, OutcomeShape
<1>7. SourceAnswer(c)'
  <2>1. CASE UpdateSources(c)
    <3>1. CASE Answer(c, <<>>) BY <1>1, <3>1, EmptyUpdate
    <3>2. CASE UpdateFrom(c, list, <<>>, call[c].request.primary)
      <4>1. Rest(list, list, 0) BY <1>3 DEF Rest
      <4>2. <<>> \in Seq(SourceRecord) /\ Embeds(<<>>, list, 0)
        BY EmbedsNothing
      <4>3. 0 \in Nat /\ 0 <= Len(list) BY <1>3
      <4>4. PICK primary : primary = call[c].request.primary OBVIOUS
      <4> QED BY <1>1, <1>2, <3>2, <4>1, <4>2, <4>3, <4>4, UpdateFromInv
    <3> QED BY <1>2, <2>1, <3>1, <3>2 DEF UpdateSources
  <2>2. CASE UpdateSourceEDSDone(c)
    <3>1. PICK d : d = call[c].data OBVIOUS
    <3>2. Updates(d, list)
      BY <1>1, <1>2, <2>2, <3>1 DEF UpdateSourceEDSDone, Working, SourcesInv, SourceAnswer
    <3>3. PICK k \in 1..Len(list) :
             /\ d.current = list[k] /\ Rest(d.left, list, k)
             /\ d.result \in Seq(SourceRecord) /\ Embeds(d.result, list, k - 1)
      BY <3>2 DEF Updates
    <3>4. k \in Nat \ {0} /\ k - 1 \in Nat /\ k <= Len(list) /\ k - 1 <= k BY <1>3
    <3>5. PICK r : r = ParseEDSSource(d.current) OBVIOUS
    <3>6. r \in SourceRecord /\ r.id = list[k]
      BY <1>3, <3>3, <3>5 DEF ParseEDSSource, SourceRecord
    <3>7. Append(d.result, r) \in Seq(SourceRecord) BY <3>3, <3>6
    <3>8. Embeds(Append(d.result, r), list, k) BY <3>3, <3>4, <3>6, EmbedsNext
    <3>9. Embeds(d.result, list, k) BY <3>3, <3>4, EmbedsMore
    <3>10. \/ UpdateFrom(c, d.left, Append(d.result, r), call[c].request.primary)
           \/ UpdateFrom(c, d.left, d.result, call[c].request.primary)
      BY <2>2, <3>1, <3>5 DEF UpdateSourceEDSDone
    <3> QED BY <1>1, <1>2, <3>3, <3>4, <3>7, <3>8, <3>9, <3>10, UpdateFromInv
  <2> QED BY <2>1, <2>2
<1> QED BY <1>4, <1>5, <1>6, <1>7, OthersAnswers
\* Every other turn of a call that exists.
LEMMA OtherTurns ==
  ASSUME CallsInv, SourcesInv, NEW c \in Calls, Open(c), Outcome(c),
         Kind(c) \notin {"createSource", "updateSources"}, RegistryGrows, blind' = blind
  PROVE  SourcesInv'
<1>1. /\ call'[c].request = call[c].request
      /\ \A d \in Calls \ {c} : call'[d] = call[d]
  BY OutcomeShape
<1>2. /\ call'[c].request \in Requests \union {Nothing}
      /\ Kind(c)' \notin {"createSource", "updateSources"}
  BY <1>1 DEF SourcesInv, SourceAnswer, Kind
<1> QED BY <1>1, <1>2, NoSourceCall

\* The calls about sources.
LEMMA SourceCallsInv ==
  ASSUME CallsInv, SourcesInv, NEW c \in Calls, SourceCallsNext(c)
  PROVE  SourcesInv'
<1>1. CASE CreateSource(c) \/ CreateSourceDone(c) BY <1>1, CreateSourceInv
<1>2. CASE UpdateSources(c) \/ UpdateSourceEDSDone(c) BY <1>2, UpdateSourcesInv
<1>3. CASE RemoveSource(c) \/ GetSource(c) \/ RemoveSourceDone(c)
  <2>1. Open(c) /\ Outcome(c) BY <1>3, QuietTurns DEF SourceCallsNext
  <2>2. Kind(c) \in {"removeSource", "availableSources", "source"}
    BY <1>3 DEF RemoveSource, GetSource, RemoveSourceDone, Runs, Working
  <2>3. blind' = blind BY <1>3 DEF RemoveSource, GetSource, RemoveSourceDone, sourceVars
  <2>4. \/ registry' = registry
        \/ \E s : registry' = [registry EXCEPT ![s] = IF registry[s] = "absent" THEN registry[s]
                                                      ELSE "disabled"]
    BY <1>3 DEF RemoveSource, GetSource, RemoveSourceDone, Disabled, sourceVars
  <2>5. RegistryGrows BY <2>4, RegistryKept
  <2> QED BY <2>1, <2>2, <2>3, <2>5, OtherTurns
<1> QED BY <1>1, <1>2, <1>3 DEF SourceCallsNext

\* The calls about contacts.
LEMMA ContactCallsInv ==
  ASSUME CallsInv, SourcesInv, NEW c \in Calls,
         \/ CreateContact(c) \/ PersonaAdded(c) \/ CreateContactDone(c)
         \/ RemoveContacts(c) \/ PurgeContacts(c) \/ RemoveContactDone(c)
  PROVE  SourcesInv'
<1>1. UNCHANGED <<registry, blind>>
  BY DEF CreateContact, PersonaAdded, CreateContactDone, RemoveContacts, PurgeContacts,
         RemoveContactDone, sourceVars
<1>2. RegistryGrows BY <1>1, RegistryKept
<1>3. CASE CreateContact(c) \/ CreateContactDone(c)
  <2>1. Open(c) /\ Outcome(c) BY <1>3, QuietTurns
  <2>2. Kind(c) = "createContact" BY <1>3 DEF CreateContact, CreateContactDone, Runs, Working
  <2> QED BY <1>1, <1>2, <2>1, <2>2, OtherTurns
<1>4. CASE RemoveContacts(c)
  <2>1. Open(c) /\ Kind(c) = "removeContacts" BY <1>4, HeadOpen DEF RemoveContacts, Runs
  <2>2. Outcome(c) BY <1>4, RemoveTurnOutcome DEF RemoveContacts
  <2> QED BY <1>1, <1>2, <2>1, <2>2, OtherTurns
<1>5. CASE RemoveContactDone(c)
  <2>1. Open(c) /\ Kind(c) \in {"removeContacts", "purge"}
    BY <1>5 DEF RemoveContactDone, Working, Open
  <2>2. Outcome(c) BY <1>5, RemoveTurnOutcome DEF RemoveContactDone
  <2> QED BY <1>1, <1>2, <2>1, <2>2, OtherTurns
<1>6. CASE PersonaAdded(c)
  <2> DEFINE r == call[c]
  <2>1. Fits(r) /\ Kind(c) = "createContact" BY <1>6 DEF CallsInv, PersonaAdded, Working
  <2>2. PICK w : call' = [call EXCEPT ![c].data.wait = w] BY <1>6 DEF PersonaAdded
  <2>3. [r EXCEPT !.data = [r.data EXCEPT !.wait = w]]
          = [stage |-> r.stage, request |-> r.request, data |-> [r.data EXCEPT !.wait = w],
             answers |-> r.answers]
    BY <2>1, DataChanged
  <2>4. call' = [call EXCEPT ![c] = [stage |-> r.stage, request |-> r.request,
                                     data |-> [r.data EXCEPT !.wait = w], answers |-> r.answers]]
    BY <2>2, <2>3
  <2>5. call'[c].request = call[c].request /\ \A d \in Calls \ {c} : call'[d] = call[d]
    BY <2>4 DEF CallsInv
  <2>6. /\ call'[c].request \in Requests \union {Nothing}
        /\ Kind(c)' \notin {"createSource", "updateSources"}
    BY <2>1, <2>5 DEF SourcesInv, SourceAnswer, Kind
  <2> QED BY <1>1, <1>2, <2>5, <2>6, NoSourceCall
<1>7. CASE PurgeContacts(c)
  <2>1. PICK r, d :
          /\ r \in Requests /\ r.kind = "purge"
          /\ \/ call' = call
             \/ call' = [call EXCEPT ![c] = [stage |-> "done", request |-> r, data |-> Nothing,
                                            answers |-> <<0, "returned">>]]
             \/ call' = [call EXCEPT ![c] = [stage |-> "working", request |-> r,
                                            answers |-> <<"returned">>, data |-> d]]
    BY <1>7 DEF PurgeContacts, Dies
  <2>2. CASE call' = call BY <1>1, <1>2, <2>2, NoCall
  <2>3. CASE call' # call
    <3>1. call'[c].request = r /\ \A e \in Calls \ {c} : call'[e] = call[e]
      BY <2>1, <2>3 DEF CallsInv
    <3>2. Kind(c)' = "purge" BY <2>1, <3>1 DEF Kind
    <3>3. call'[c].request \in Requests \union {Nothing} BY <2>1, <3>1
    <3>4. Kind(c)' \notin {"createSource", "updateSources"} BY <3>2
    <3> QED BY <1>1, <1>2, <3>1, <3>3, <3>4, NoSourceCall
  <2> QED BY <2>2, <2>3
<1> QED BY <1>3, <1>4, <1>5, <1>6, <1>7

\* Nothing is asked for at first.
LEMMA SourcesInvInit ==
  ASSUME Init
  PROVE  SourcesInv
<1>1. \A c \in Calls : call[c] = Idle BY DEF Init, RepliesInit
<1>2. Idle.stage = "none" /\ Idle.request = Nothing BY DEF Idle
<1>3. \A c \in Calls : SourceAnswer(c) BY <1>1, <1>2 DEF SourceAnswer
<1> QED BY <1>3 DEF Init, SourcesInit, SourcesInv

\* Every step keeps what the answers about sources rest on.
LEMMA SourcesStep ==
  ASSUME CallsInv, SourcesInv, [Next]_vars
  PROVE  SourcesInv'
<1>1. CASE \E c \in Calls : Arrive(c) /\ UNCHANGED <<sourceVars, contactVars>>
  <2>1. PICK c \in Calls : Arrive(c) /\ UNCHANGED sourceVars BY <1>1
  <2>2. PICK q \in Requests :
          call' = [call EXCEPT ![c] = [call[c] EXCEPT !.stage = "queued", !.request = q]]
    BY <2>1 DEF Arrive
  <2>3. [call[c] EXCEPT !.stage = "queued", !.request = q]
          = [stage |-> "queued", request |-> q, data |-> call[c].data,
             answers |-> call[c].answers]
    BY Asked DEF CallsInv
  <2>4. call' = [call EXCEPT ![c] = [stage |-> "queued", request |-> q, data |-> call[c].data,
                                     answers |-> call[c].answers]]
    BY <2>2, <2>3, Zenon
  <2>5. /\ call'[c].stage = "queued" /\ call'[c].request = q
        /\ \A d \in Calls \ {c} : call'[d] = call[d]
    BY <2>4 DEF CallsInv
  <2>6. registry' = registry /\ blind' = blind BY <2>1 DEF sourceVars
  <2>7. RegistryGrows BY <2>6, RegistryKept
  <2> QED BY <2>5, <2>6, <2>7, NoSourceCall
<1>2. CASE \E c \in Calls : SourceCallsNext(c)
  BY <1>2, SourceCallsInv
<1>3. CASE \E c \in Calls : \/ CreateContact(c) \/ PersonaAdded(c) \/ CreateContactDone(c)
                           \/ RemoveContacts(c) \/ PurgeContacts(c) \/ RemoveContactDone(c)
  BY <1>3, ContactCallsInv
<1>4. CASE \/ \E s \in Sources : StoreAppears(s) \/ StoreVanishes(s)
           \/ \E p \in Contacts : FolksAdds(p) \/ FolksRemoves(p)
           \/ Reload
           \/ UNCHANGED vars
  <2>1. UNCHANGED <<call, registry, blind>>
    BY <1>4 DEF StoreAppears, StoreVanishes, FolksAdds, FolksRemoves, Reload, Unprepare,
                Unprepared, Prepare, vars, replyVars, sourceVars
  <2> QED BY <2>1, NoCall, RegistryKept
<1> QED BY <1>1, <1>2, <1>3, <1>4 DEF Next

\* A source that createSource says it made is in the registry for good, and updateSources
\* answers with sources of its list in their order, whatever EDS refuses and whichever calls
\* run between its callbacks; but when folks had no primary store.
THEOREM SourceAnswersTheorem == Spec => []SourceAnswersTrue
<1> DEFINE Inv == CallsInv /\ SourcesInv
<1>1. Init => Inv BY CallsInit, SourcesInvInit
<1>2. Inv /\ [Next]_vars => Inv' BY CallsStep, SourcesStep
<1>3. Inv => SourceAnswersTrue
  BY DEF SourcesInv, SourceAnswer, SourceAnswersTrue, Embeds
<1> QED BY <1>1, <1>2, <1>3, PTL DEF Spec
=============================================================================
