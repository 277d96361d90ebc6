---------------------------- MODULE SaveRequests ----------------------------
(***************************************************************************)
(* What a save request of an application becomes: the steps of saveContact *)
(* in contacts/contacts-service.cpp and the books the data object keeps    *)
(* (contacts/qcontactsaverequest-data.cpp).  A request is a mix of groups, *)
(* which stand for sources, and contacts, with or without an id.  New      *)
(* groups are created one by one, then new contacts one by one, then all   *)
(* groups and then all contacts that have an id are updated in one call    *)
(* each; what the service answers is filed under the place of each item.   *)
(*                                                                         *)
(* ClientRequests has the life of every request; here is what one save     *)
(* does inside it.  The service, which may answer late or not at all, is   *)
(* external: what it answers is what SourceCalls and UpdateContacts send.  *)
(***************************************************************************)
EXTENDS Naturals, SequencesExt, FiniteSetsExt

CONSTANT Inputs     \* what may be saved: sequences of items

Items == [kind : {"group", "contact"}, new : BOOLEAN]

ASSUME InputsAssumption == Inputs \subseteq Seq(Items)

VARIABLES
    input,       \* the items, in the order of the request
    state,       \* of the request, as the application sees it
    error,       \* the error the request ended with
    data,        \* QContactSaveRequestData, see NewData
    step,        \* the call under way
    served,      \* the service has acted on it
    saved,       \* places of the items the service has stored
    unanswered,  \* history: places of items of calls that got no answer
    asked,       \* history: how often each item was sent, 2 for more than once
    todo,        \* history: the calls left when the last one was sent
    crashed

serviceVars == <<served, saved, unanswered>>
vars == <<input, state, error, data, step, serviceVars, asked, todo, crashed>>

Places == DOMAIN input
ToCreate == {k \in Places : input[k].new}
ToUpdate == Places \ ToCreate
Kind(K, kind) == {k \in K : input[k].kind = kind}

\* The item at place k as the application gave it, as the service answered it, and
\* made of an empty answer.
Given(k) == [of |-> k, is |-> "given"]
Answered(k) == [of |-> k, is |-> "answered"]
Empty(k) == [of |-> k, is |-> "empty"]

None == 0

\* prepareContacts
Prepared(d, K) == [d EXCEPT !.groups = Kind(K, "group"), !.contacts = Kind(K, "contact")]

\* The members of the data object: m_contactsToCreate, m_contactsToUpdate,
\* m_pendingGroups, m_pendingContacts, the key of m_currentContact, m_errorMap.
NewData == [toCreate |-> [k \in ToCreate |-> Given(k)],
            toUpdate |-> [k \in ToUpdate |-> Given(k)],
            groups |-> {}, contacts |-> {}, current |-> None, errors |-> {}]

\* The calls of a save with so many new groups and new contacts, and with groups and
\* contacts that have an id or without.
Calls(groups, contacts, oldGroups, oldContacts) ==
    LET once(name, some) == IF some THEN <<name>> ELSE <<>>
    IN  [i \in 1..groups |-> "createGroup"] \o [i \in 1..contacts |-> "createContact"]
        \o once("updateGroups", oldGroups) \o once("updateContacts", oldContacts)

PlanOf(items) ==
    LET number(kind, new) == Cardinality({k \in DOMAIN items : items[k] = [kind |-> kind, new |-> new]})
    IN  Calls(number("group", TRUE), number("contact", TRUE),
              number("group", FALSE) > 0, number("contact", FALSE) > 0)

\* The calls that are left when op is the next, by what is pending.
CallsLeft(op, d) ==
    CASE op \in {"createGroup", "createContact"} ->
           Calls(Cardinality(d.groups), Cardinality(d.contacts),
                 Kind(ToUpdate, "group") # {}, Kind(ToUpdate, "contact") # {})
      [] op = "updateGroups" -> Calls(0, 0, TRUE, d.contacts # {})
      [] op = "updateContacts" -> Calls(0, 0, FALSE, TRUE)

Init ==
    /\ input \in Inputs
    /\ state = "idle" /\ error = "none"
    /\ data = NewData
    /\ step = "none"
    /\ served = FALSE /\ saved = {} /\ unanswered = {}
    /\ asked = [k \in Places |-> 0]
    /\ todo = PlanOf(input)
    /\ crashed = FALSE

---------------------------------------------------------------------------
\* The steps.  Each sends the call for what is pending or goes on to the next.

\* The items the call under way is about.
Sent(op, d) ==
    CASE op = "createGroup" -> {Min(d.groups)}
      [] op = "createContact" -> {Min(d.contacts)}
      [] op = "updateGroups" -> d.groups
      [] op = "updateContacts" -> d.contacts
      [] op = "none" -> {}

Send(op, d) ==
    /\ step' = op /\ data' = d /\ served' = FALSE
    /\ asked' = [k \in Places |-> IF k \in Sent(op, d) THEN Min({2, asked[k] + 1}) ELSE asked[k]]
    /\ todo' = CallsLeft(op, d)
    /\ state' = "active"
    /\ UNCHANGED error

\* finish and destroyRequest
Finish(d, e) ==
    /\ state' = "finished" /\ error' = e
    /\ data' = d /\ step' = "none"
    /\ UNCHANGED <<served, asked, todo>>

UpdateContacts(d) ==
    IF d.contacts = {} THEN Finish(d, "NoError")
    ELSE Send("updateContacts", d) \/ Finish(d, "UnspecifiedError")  \* it cannot be sent

UpdateGroups(d) ==
    IF d.groups = {} THEN UpdateContacts(d)
    ELSE Send("updateGroups", d) \/ Finish(d, "UnspecifiedError")

CreateContactsStart(d) ==
    IF d.contacts = {} THEN UpdateGroups(Prepared(d, ToUpdate))
    ELSE Send("createContact", [d EXCEPT !.current = Min(d.contacts)])

CreateGroupsStart(d) ==
    IF d.groups = {} THEN CreateContactsStart(d) ELSE Send("createGroup", d)

SaveContact ==
    /\ state = "idle"
    /\ CreateGroupsStart(Prepared(NewData, ToCreate))
    /\ UNCHANGED <<input, saved, unanswered, crashed>>

---------------------------------------------------------------------------
\* The books of the data object

UpdateCurrentContact(d, k) ==
    [d EXCEPT !.toCreate[k] = Answered(k), !.contacts = @ \ {k}]

\* An empty Source, the answer of a creation that failed, becomes a group as well.
UpdateCurrentGroup(d, k) ==
    [d EXCEPT !.toCreate[k] = IF k \in saved THEN Answered(k) ELSE Empty(k),
              !.groups = @ \ {k}]

NotifyUpdateError(d) ==
    [d EXCEPT !.errors = @ \union {d.current}, !.contacts = @ \ {d.current}]

\* updatePendingGroups: the answer leaves out sources that failed, and without all of
\* them it is not used.
UpdatePendingGroups(d, answer) ==
    IF Cardinality(answer) # Cardinality(d.groups) THEN d
    ELSE [d EXCEPT !.toUpdate =
            [k \in ToUpdate |-> IF k \in d.groups THEN Answered(k) ELSE d.toUpdate[k]]]

\* How many of K come no later than k.
Rank(K, k) == Cardinality({j \in K : j <= k})

\* Mutant: the contacts are filed from the second place on.
UpdatePendingContactsShifted(d, answer) ==
    LET filed(k) == {a \in answer : Rank(answer, a) + 1 = Rank(ToUpdate, k)}
    IN  [d EXCEPT !.toUpdate =
            [k \in ToUpdate |-> IF filed(k) # {} THEN Answered(CHOOSE a \in filed(k) : TRUE)
                                                 ELSE d.toUpdate[k]]]

\* updatePendingContacts: the parser drops what is not a vCard, and the contacts are
\* filed under the first places of m_contactsToUpdate, groups and contacts alike.
UpdatePendingContacts(d, answer) ==
    LET filed(k) == {a \in answer : Rank(answer, a) = Rank(ToUpdate, k)}
    IN  [d EXCEPT !.toUpdate =
            [k \in ToUpdate |-> IF filed(k) # {} THEN Answered(CHOOSE a \in filed(k) : TRUE)
                                                 ELSE d.toUpdate[k]]]

---------------------------------------------------------------------------
\* Answers.  No answer comes when the service is gone or when a call takes too long.

Waiting(op) == state = "active" /\ step = op /\ ~crashed

CreateGroupDone ==
    /\ Waiting("createGroup") /\ served
    /\ CreateGroupsStart(UpdateCurrentGroup(data, Min(data.groups)))
    /\ UNCHANGED <<input, saved, unanswered, crashed>>

\* notifyUpdateError follows m_currentContact, which is set by nextContact only.
CreateGroupFailed ==
    /\ Waiting("createGroup")
    /\ crashed' = TRUE
    /\ UNCHANGED <<input, state, error, data, step, serviceVars, asked, todo>>

\* Mutant: the errors of the reply are not looked at.
CreateContactsDoneUnchecked ==
    /\ Waiting("createContact") /\ served
    /\ CreateContactsStart(UpdateCurrentContact(data, data.current))
    /\ UNCHANGED <<input, saved, unanswered, crashed>>

\* Mutant: the first contact that fails ends the save.
CreateContactsDoneStops ==
    /\ Waiting("createContact")
    /\ \/ served /\ data.current \in saved
          /\ CreateContactsStart(UpdateCurrentContact(data, data.current))
       \/ Finish(NotifyUpdateError(data), "UnspecifiedError")
    /\ UNCHANGED <<input, saved, unanswered, crashed>>

\* createContactsDone: an empty vCard is an error, too.
CreateContactsDone ==
    /\ Waiting("createContact")
    /\ \/ /\ served
          /\ CreateContactsStart(IF data.current \in saved
                                 THEN UpdateCurrentContact(data, data.current)
                                 ELSE NotifyUpdateError(data))
          /\ UNCHANGED unanswered
       \/ /\ CreateContactsStart(NotifyUpdateError(data))
          /\ unanswered' = unanswered \union {data.current}
    /\ UNCHANGED <<input, saved, crashed>>

\* updateGroupsDone: the error of the reply is forgotten.
UpdateGroupsDone ==
    /\ Waiting("updateGroups")
    /\ \/ /\ served
          /\ UpdateContacts(UpdatePendingGroups(data, data.groups \intersect saved))
          /\ UNCHANGED unanswered
       \/ /\ UpdateContacts(data)
          /\ unanswered' = unanswered \union data.groups
    /\ UNCHANGED <<input, saved, crashed>>

UpdateContactDone ==
    /\ Waiting("updateContacts")
    /\ \/ /\ served
          /\ Finish(UpdatePendingContacts(data, data.contacts \intersect saved), "NoError")
          /\ UNCHANGED unanswered
       \/ /\ Finish(data, "UnspecifiedError")
          /\ unanswered' = unanswered \union data.contacts
    /\ UNCHANGED <<input, saved, crashed>>

\* cancelRequest: the application gets what is known so far, and no error map.
Cancel ==
    /\ state = "active" /\ ~crashed
    /\ state' = "canceled" /\ error' = "NoError" /\ step' = "none"
    /\ unanswered' = unanswered \union Sent(step, data)
    /\ UNCHANGED <<input, data, served, saved, asked, todo, crashed>>

---------------------------------------------------------------------------
\* The service

\* It stores some of the items of the call and refuses the others, ...
Serve ==
    /\ \E op \in {"createGroup", "createContact", "updateGroups", "updateContacts"} : Waiting(op)
    /\ ~served
    /\ served' = TRUE
    /\ \E S \in SUBSET Sent(step, data) : saved' = saved \union S
    /\ UNCHANGED <<input, state, error, data, step, unanswered, asked, todo, crashed>>

\* ... also when the plugin waits no longer.
ServeLate ==
    /\ \E k \in unanswered \ saved : saved' = saved \union {k}
    /\ UNCHANGED <<input, state, error, data, step, served, unanswered, asked, todo, crashed>>

Answers == CreateGroupDone \/ CreateGroupFailed \/ CreateContactsDone
           \/ UpdateGroupsDone \/ UpdateContactDone

Next == SaveContact \/ Answers \/ Cancel \/ Serve \/ ServeLate

\* Every call is answered, if only by an error.
Spec == Init /\ [][Next]_vars /\ WF_vars(Answers)

---------------------------------------------------------------------------
\* The contacts updateRequest hands to the application; those to be created win.
Result ==
    [k \in DOMAIN data.toCreate \union DOMAIN data.toUpdate |->
        IF k \in DOMAIN data.toCreate THEN data.toCreate[k] ELSE data.toUpdate[k]]

\* Every item is sent at most once, whatever was refused before it, and a contact only
\* after every new group it might go to; a save without an error has sent them all.
EachOnce ==
    /\ \A k \in Places : asked[k] <= 1
    /\ \A k \in Kind(Places, "contact"), g \in Kind(ToCreate, "group") :
          asked[k] > 0 => asked[g] > 0
    /\ state = "finished" /\ error = "NoError" => \A k \in Places : asked[k] = 1

\* Where the places in the result of updateContacts go wrong: a group with an id comes
\* before a contact with an id, or a contact was refused before one that was not.
Misfiled ==
    \E j, k \in ToUpdate :
        /\ j < k /\ input[k].kind = "contact"
        /\ input[j].kind = "group" \/ j \notin saved

\* The result has every item at its own place, as many as the application gave, also if
\* some were refused: but for the two cases above.
FiledInPlace ==
    /\ DOMAIN Result = Places
    /\ Misfiled \/ \A k \in Places : Result[k].of = k

\* What a save stores is what it was given, and where the application finds it.
EachInPlace == EachOnce /\ FiledInPlace

\* A new contact the service has is in the result with its id and not among the errors,
\* unless its call got no answer, so that saving the others again makes no doubles; and
\* what was filed as an answer is stored, also after a cancellation.
NoDoubles ==
    /\ \A k \in Kind(ToCreate, "contact") :
          k \in saved /\ state \in {"finished", "canceled"} =>
              \/ Result[k] = Answered(k) /\ k \notin data.errors
              \/ k \in unanswered
    /\ \A k \in Places : Result[k].is = "answered" => Result[k].of \in saved

\* A save that ends without an error, as a whole or for an item, but has not stored all
\* its items shows it by an item it returns as it was given, or an empty group; for a new
\* contact there is always an error.
ErrorsTold ==
    state = "finished" /\ error = "NoError" =>
        /\ Kind(ToCreate, "contact") \subseteq saved \union data.errors
        /\ \/ Places \subseteq saved \union data.errors
           \/ \E k \in Places : Result[k].is # "answered"

\* The application can tell from what it is handed what was stored and what was not.
ResultTells == NoDoubles /\ ErrorsTold

\* A save comes to an end, whatever is refused, unless the plugin follows a null pointer.
SaveEnds == state = "active" ~> state # "active" \/ crashed

\* The save as the one request of ClientRequests, its plan the calls it asks for.
Abstract == INSTANCE ClientRequests WITH
    Request <- {"save"},
    Plans <- [r \in {"save"} |-> {PlanOf(items) : items \in Inputs}],
    MaxLosses <- 0,
    MaxDepth <- 0,
    state <- [r \in {"save"} |-> state],
    phase <- [r \in {"save"} |-> CASE state = "active" -> "called"
                                   [] state # "active" /\ (\E k \in Places : asked[k] > 0) -> "deleted"
                                   [] OTHER -> "none"],
    todo <- [r \in {"save"} |-> todo],
    running <- IF state = "active" THEN {"save"} ELSE {},
    stack <- <<>>,
    told <- {},
    iface <- TRUE,
    ready <- TRUE,
    bus <- TRUE,
    losses <- 0,
    stranded <- {},
    crashed <- crashed

\* A save behaves as that request (saveContact, destroyRequest): refused items do not
\* shorten the plan, no call is repeated, and a call that cannot be sent ends it.
ImplementsRequest == Abstract!Spec

\* A save behaves as the request of ClientRequests that asks for the same calls, and ends.
SaveImplementsRequest == ImplementsRequest /\ SaveEnds
=============================================================================
