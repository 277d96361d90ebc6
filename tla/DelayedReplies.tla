--------------------------- MODULE DelayedReplies ---------------------------
(***************************************************************************)
(* The calls of the D-Bus interface that are answered later                *)
(* (lib/addressbook-adaptor.cpp), and the part of the service's state they *)
(* all depend on.                                                          *)
(*                                                                         *)
(* The adaptor takes a call off the bus, asks for a delayed reply and      *)
(* queues the slot of AddressBook, which runs in a later turn of the main  *)
(* loop.  purgeContacts is called at once, and its reply is not delayed:   *)
(* QtDBus answers it when the slot returns.                                *)
(*                                                                         *)
(* A slot starts an asynchronous call of folks or EDS and returns; what it *)
(* has still to do is kept in an object of its own until the callback.     *)
(***************************************************************************)
EXTENDS Naturals, Sequences, SequencesExt, FiniteSets

CONSTANTS
    MaxCalls,     \* calls made in a behaviour; the calls are 1..MaxCalls, in this order
    Requests,     \* what a client may ask for: records with a field kind
    MaxReloads    \* reloads of folks in a behaviour

VARIABLES
    call,         \* per call: [stage, request, data, answers]
    queue,        \* the calls whose slot is queued
    folks,        \* "running", "unpreparing" (no map), "unprepared" (no aggregator either)
    reloads,      \* reloads so far
    crashed       \* "no", or why the process died

replyVars == <<call, queue>>
serviceVars == <<folks, reloads, crashed>>

Calls == 1..MaxCalls
Nothing == [kind |-> "nothing"]

\* What becomes of a call: "none" made yet, "queued", "working" while folks or EDS
\* has to answer, "done" when its data is deleted.
Idle == [stage |-> "none", request |-> Nothing, data |-> Nothing, answers |-> <<>>]

RepliesInit ==
    /\ call = [c \in Calls |-> Idle]
    /\ queue = <<>>
    /\ folks = "running"
    /\ reloads = 0
    /\ crashed = "no"

Alive == crashed = "no"
MapAlive == folks = "running"
Kind(c) == call[c].request.kind

IsNext(c) == /\ call[c].stage = "none"
             /\ \A d \in 1..(c - 1) : call[d].stage # "none"

\* A delayed reply: the slot goes to the end of the queue.
Arrive(c) ==
    /\ Alive /\ IsNext(c)
    /\ \E r \in Requests :
          /\ r.kind # "purge"
          /\ r.kind = "createSource" => \A d \in Calls : call[d].request # r  \* a new QUuid
          /\ call' = [call EXCEPT ![c] = [@ EXCEPT !.stage = "queued", !.request = r]]
    /\ queue' = Append(queue, c)
    /\ UNCHANGED serviceVars

\* The main loop runs the slot of the call at the head of the queue.
Runs(c, kind) ==
    /\ Alive /\ queue # <<>> /\ c = Head(queue) /\ Kind(c) = kind
    /\ queue' = Tail(queue)

\* Outcomes of a turn for the call c: it is answered and forgotten, ...
Answer(c, a) ==
    call' = [call EXCEPT ![c] = [@ EXCEPT !.stage = "done", !.data = Nothing,
                                          !.answers = Append(call[c].answers, a)]]

\* ... or it goes on with the data d after an asynchronous call.
Works(c, d) == call' = [call EXCEPT ![c] = [@ EXCEPT !.stage = "working", !.data = d]]

\* The process dies: nothing else is ever done.
Dies(why) == crashed' = why /\ UNCHANGED <<call, folks, reloads>>

\* A callback finds its data, which says what it was waiting for.
Working(c, kind) == Alive /\ call[c].stage = "working" /\ Kind(c) = kind

---------------------------------------------------------------------------
\* A reload, shortened to what the calls can see of it: unprepareFolks deletes the
\* map, folksUnprepared drops the aggregator, prepareFolks makes both again.
\* (ServiceLifecycle has the chain itself.)

Unprepare ==
    /\ Alive /\ folks = "running" /\ reloads < MaxReloads
    /\ folks' = "unpreparing"
    /\ reloads' = reloads + 1
    /\ UNCHANGED <<replyVars, crashed>>

Unprepared ==
    /\ Alive /\ folks = "unpreparing"
    /\ folks' = "unprepared"
    /\ UNCHANGED <<replyVars, reloads, crashed>>

Prepare ==
    /\ Alive /\ folks = "unprepared"
    /\ folks' = "running"
    /\ UNCHANGED <<replyVars, reloads, crashed>>
=============================================================================
