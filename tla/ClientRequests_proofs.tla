----------------------- MODULE ClientRequests_proofs -----------------------
(***************************************************************************)
(* Proofs about ClientRequests, for every set of requests, all plans and   *)
(* any depth of event loops.                                               *)
(*                                                                         *)
(* The argument is per request.  Consistent(r) says how the state the      *)
(* application sees, the data object, the list of running requests and the *)
(* event loops agree about r.  It is inductive together with the fact that *)
(* no request is waited for twice, which is what makes the end of a loop   *)
(* the end of all waiting for its request.                                 *)
(***************************************************************************)
EXTENDS ClientRequests, SequenceTheorems, TLAPS

Underway(r) == phase[r] \in {"called", "parsing"}

Consistent(r) ==
  /\ Underway(r) => state[r] = "active" /\ r \in running /\ iface
  /\ r \in running => state[r] # "idle"
  /\ r \in running /\ state[r] = "active" => Underway(r) \/ r \in stranded
  /\ r \in running \/ Waited(r) => phase[r] \notin {"none", "deleted"}
  /\ Waited(r) => r \in told \/ r \in stranded \/ Underway(r)
  /\ phase[r] = "called" => todo[r] # << >>
  /\ state[r] = "idle" => todo[r] \in Plans[r]

WaitedOnce ==
  \A i, j \in DOMAIN stack : stack[i] = stack[j] /\ stack[i] # Lost => i = j

IInv ==
  /\ TypeOK
  /\ WaitedOnce
  /\ \A r \in Request : Consistent(r)

-----------------------------------------------------------------------------
(* The stack of event loops. *)

\* A loop that is entered.
LEMMA Entered ==
  ASSUME TypeOK, NEW x \in Request \cup {Lost}, stack' = Append(stack, x)
  PROVE  /\ stack' \in Seq(Request \cup {Lost})
         /\ Len(stack') = Len(stack) + 1
         /\ \A q : Waited(q)' <=> Waited(q) \/ q = x
         /\ WaitedOnce /\ (x = Lost \/ ~Waited(x)) => WaitedOnce'
<1>1. stack \in Seq(Request \cup {Lost}) BY DEF TypeOK
<1>2. /\ stack' \in Seq(Request \cup {Lost})
      /\ Len(stack') = Len(stack) + 1
      /\ DOMAIN stack' = 1 .. Len(stack) + 1 /\ DOMAIN stack = 1 .. Len(stack)
      /\ stack'[Len(stack) + 1] = x
      /\ \A i \in 1 .. Len(stack) : stack'[i] = stack[i]
      /\ Len(stack) \in Nat
  BY <1>1
<1>3. ASSUME NEW q PROVE Waited(q)' <=> Waited(q) \/ q = x
  BY <1>2 DEF Waited
<1>4. ASSUME WaitedOnce, x = Lost \/ ~Waited(x) PROVE WaitedOnce'
  BY <1>2, <1>4 DEF WaitedOnce, Waited
<1> QED BY <1>2, <1>3, <1>4

\* A loop that is left.
LEMMA Left ==
  ASSUME TypeOK, WaitedOnce, stack # << >>, stack' = Front(stack)
  PROVE  /\ stack' \in Seq(Request \cup {Lost})
         /\ Len(stack') <= Len(stack)
         /\ Last(stack) \in Request \cup {Lost}
         /\ WaitedOnce'
         /\ \A q : Waited(q)' => Waited(q)
         /\ \A q : q # Last(stack) => (Waited(q)' <=> Waited(q))
         /\ \A q : q = Last(stack) /\ q # Lost => ~Waited(q)'
<1>1. stack \in Seq(Request \cup {Lost}) BY DEF TypeOK
<1> DEFINE n == Len(stack)
<1>2. n \in Nat /\ n > 0 /\ DOMAIN stack = 1 .. n
  BY <1>1
<1>3. /\ stack' \in Seq(Request \cup {Lost})
      /\ Len(stack') = n - 1
      /\ DOMAIN stack' = 1 .. n - 1
      /\ \A i \in 1 .. n - 1 : stack'[i] = stack[i]
  BY <1>1, <1>2 DEF Front
<1>4. Last(stack) = stack[n] /\ Last(stack) \in Request \cup {Lost}
  BY <1>1, <1>2 DEF Last
<1> HIDE DEF n
<1>5. WaitedOnce'
  BY <1>2, <1>3 DEF WaitedOnce
<1>6. \A q : Waited(q)' => Waited(q)
  BY <1>2, <1>3 DEF Waited
<1>7. ASSUME NEW q, q # Last(stack) PROVE Waited(q) => Waited(q)'
  BY <1>2, <1>3, <1>4, <1>7 DEF Waited
<1>8. ASSUME NEW q, q = Last(stack), q # Lost PROVE ~Waited(q)'
  BY <1>2, <1>3, <1>4, <1>8 DEF Waited, WaitedOnce
<1> QED BY <1>2, <1>3, <1>4, <1>5, <1>6, <1>7, <1>8 DEF n

\* The type after a step that enters or leaves a loop.
LEMMA LoopTypes ==
  ASSUME TypeOK, stack' \in Seq(Request \cup {Lost}), Len(stack') <= MaxDepth,
         UNCHANGED <<state, todo, stranded, crashed>>,
         phase' \in [Request -> Phases], running' \in SUBSET Request, told' \in SUBSET Request,
         iface' \in BOOLEAN, ready' \in BOOLEAN, bus' \in BOOLEAN, ready' => iface',
         losses' \in 0 .. MaxLosses
  PROVE  TypeOK'
BY DEF TypeOK

-----------------------------------------------------------------------------
(* How the engine is through with a request. *)

\* A step that does not touch q leaves it consistent.
LEMMA Untouched ==
  ASSUME NEW q, Consistent(q),
         state'[q] = state[q], phase'[q] = phase[q], todo'[q] = todo[q],
         q \in running' <=> q \in running, q \in told' <=> q \in told,
         q \in stranded' <=> q \in stranded, Waited(q)' <=> Waited(q),
         Underway(q) => (iface => iface')
  PROVE  Consistent(q)'
BY DEF Consistent, Underway

\* What the steps of a request leave alone.
LoopsAlone == UNCHANGED <<stack, serviceVars, crashed>>

LEMMA LoopsStay ==
  ASSUME LoopsAlone
  PROVE  /\ \A q : Waited(q)' <=> Waited(q)
         /\ WaitedOnce => WaitedOnce'
BY DEF LoopsAlone, Waited, WaitedOnce

\* The type of what the steps of a request touch.
LEMMA RequestTypes ==
  ASSUME TypeOK, LoopsAlone,
         state' \in [Request -> {"idle", "active", "finished", "canceled", "gone"}],
         phase' \in [Request -> Phases],
         todo' \in [Request -> Seq(Calls) \cup {Unsupported}],
         running' \in SUBSET Request, told' \in SUBSET Request, stranded' \in SUBSET Request
  PROVE  TypeOK'
BY DEF TypeOK, LoopsAlone, serviceVars

\* A request that ends, one way or the other: the application learns it.
LEMMA EndedInv ==
  ASSUME IInv, NEW r \in Request, r \in running, LoopsAlone,
         NEW s \in {"finished", "canceled", "gone"},
         Told(r, s), DestroyRequest(r), UNCHANGED <<todo, stranded>>
  PROVE  IInv'
<1>1. TypeOK'
  BY RequestTypes DEF IInv, TypeOK, Told, DestroyRequest, Destroyed, Phases
<1>2. WaitedOnce'
  BY LoopsStay DEF IInv
<1>3. ASSUME NEW q \in Request PROVE Consistent(q)'
  <2>1. CASE q = r
    BY <2>1, LoopsStay
    DEF IInv, TypeOK, Consistent, Underway, Told, DestroyRequest, Destroyed
  <2>2. CASE q # r
    BY <2>2, LoopsStay, Untouched
    DEF IInv, TypeOK, Told, DestroyRequest, LoopsAlone, serviceVars
  <2> QED BY <2>1, <2>2
<1> QED BY <1>1, <1>2, <1>3 DEF IInv

\* A request that is forgotten.
LEMMA DropInv ==
  ASSUME IInv, NEW r \in Request, r \in running, Drop(r), LoopsAlone
  PROVE  IInv'
<1>1. TypeOK'
  BY RequestTypes DEF IInv, TypeOK, Drop, DestroyRequest, Destroyed, Phases
<1>2. WaitedOnce'
  BY LoopsStay DEF IInv
<1>3. ASSUME NEW q \in Request PROVE Consistent(q)'
  <2>1. CASE q = r
    BY <2>1, LoopsStay
    DEF IInv, TypeOK, Consistent, Underway, Drop, DestroyRequest, Destroyed
  <2>2. CASE q # r
    BY <2>2, LoopsStay, Untouched
    DEF IInv, TypeOK, Drop, DestroyRequest, LoopsAlone, serviceVars
  <2> QED BY <2>1, <2>2
<1> QED BY <1>1, <1>2, <1>3 DEF IInv

\* A request that goes on with calls, or ends.
LEMMA ContinueInv ==
  ASSUME IInv, NEW r \in Request, Underway(r), LoopsAlone,
         NEW calls \in Seq(Calls), Continue(r, calls)
  PROVE  IInv'
<1>1. r \in running /\ state[r] = "active" /\ iface
  BY DEF IInv, Consistent
<1>2. CASE Finish(r)
  BY <1>1, <1>2, EndedInv DEF Finish
<1>3. CASE /\ calls # << >>
           /\ phase' = [phase EXCEPT ![r] = "called"]
           /\ todo' = [todo EXCEPT ![r] = calls]
           /\ UNCHANGED <<state, running, told, stranded>>
  <2>1. TypeOK'
    BY <1>3, RequestTypes DEF IInv, TypeOK, Phases
  <2>2. WaitedOnce'
    BY LoopsStay DEF IInv
  <2>3. ASSUME NEW q \in Request PROVE Consistent(q)'
    <3>1. CASE q = r
      BY <1>1, <1>3, <3>1, LoopsStay
      DEF IInv, TypeOK, Consistent, Underway, LoopsAlone, serviceVars
    <3>2. CASE q # r
      BY <1>3, <3>2, LoopsStay, Untouched DEF IInv, TypeOK, LoopsAlone, serviceVars
    <3> QED BY <3>1, <3>2
  <2> QED BY <2>1, <2>2, <2>3 DEF IInv
<1> QED BY <1>2, <1>3 DEF Continue

LEMMA FetchPageInv ==
  ASSUME IInv, NEW r \in Request, Underway(r), LoopsAlone, FetchPage(r)
  PROVE  IInv'
<1>1. r \in running BY DEF IInv, Consistent
<1>2. <<"page">> \in Seq(Calls) BY DEF Calls
<1> QED BY <1>1, <1>2, DropInv, ContinueInv DEF FetchPage

-----------------------------------------------------------------------------
(* The actions. *)

LEMMA InitInv == Init => IInv
<1> SUFFICES ASSUME Init PROVE IInv
  OBVIOUS
<1>1. \A r \in Request : todo[r] \in Plans[r] /\ todo[r] \in Seq(Calls) \cup {Unsupported}
  BY PlansAssumption DEF Init
<1>2. TypeOK
  <2>1. todo \in [Request -> Seq(Calls) \cup {Unsupported}]
    BY <1>1 DEF Init
  <2>2. /\ stack \in Seq(Request \cup {Lost})
        /\ Len(stack) <= MaxDepth
        /\ losses \in 0 .. MaxLosses
    BY BoundsAssumption DEF Init
  <2>3. iface \in BOOLEAN /\ ready \in BOOLEAN /\ bus \in BOOLEAN /\ (ready => iface)
    <3>1. CASE iface BY <3>1 DEF Init
    <3>2. CASE ~iface BY <3>2 DEF Init
    <3> QED BY <3>1, <3>2
  <2>4. /\ state \in [Request -> {"idle", "active", "finished", "canceled", "gone"}]
        /\ phase \in [Request -> Phases]
        /\ running \in SUBSET Request /\ told \in SUBSET Request
        /\ stranded \in SUBSET Request /\ crashed \in BOOLEAN
    BY DEF Init, Phases
  <2> QED BY <2>1, <2>2, <2>3, <2>4 DEF TypeOK
<1>3. WaitedOnce
  BY DEF Init, WaitedOnce
<1>4. ASSUME NEW r \in Request PROVE Consistent(r)
  BY <1>1 DEF Init, Consistent, Underway, Waited
<1> QED BY <1>2, <1>3, <1>4 DEF IInv

\* What follows the first of several calls.
LEMMA LongTail ==
  ASSUME NEW S, NEW s \in Seq(S), Len(s) > 1
  PROVE  Tail(s) # << >>
<1>1. s # << >> /\ Len(s) \in Nat
  OBVIOUS
<1>2. Len(Tail(s)) = Len(s) - 1
  BY <1>1, HeadTailProperties
<1>3. ASSUME Tail(s) = << >> PROVE FALSE
  <2>1. Len(Tail(s)) = Len(<< >>)
    BY <1>3, Zenon
  <2>2. Len(<< >>) = 0
    OBVIOUS
  <2>3. Len(s) - 1 = 0
    BY <1>2, <2>1, <2>2, Zenon
  <2>4. \A n \in Nat : n > 1 => n - 1 # 0
    OBVIOUS
  <2>5. Len(s) \in Nat /\ Len(s) > 1
    BY <1>1
  <2> QED BY <2>3, <2>4, <2>5, Zenon
<1> QED BY <1>3

LEMMA StartInv ==
  ASSUME IInv, NEW r \in Request, Start(r)
  PROVE  IInv'
<1>1. LoopsAlone /\ state[r] = "idle"
  BY DEF Start, LoopsAlone
<1>2. r \notin running /\ ~Underway(r) /\ todo[r] \in Plans[r]
  BY <1>1 DEF IInv, Consistent, Underway
<1>3. CASE Reject(r)
  <2>1. TypeOK'
    BY <1>1, <1>3, RequestTypes DEF IInv, TypeOK, Reject
  <2>2. ASSUME NEW q \in Request PROVE Consistent(q)'
    <3>1. CASE q = r
      BY <1>1, <1>2, <1>3, <3>1, LoopsStay DEF IInv, TypeOK, Consistent, Underway, Reject
    <3>2. CASE q # r
      BY <1>1, <1>3, <3>2, LoopsStay, Untouched DEF IInv, TypeOK, Reject, LoopsAlone, serviceVars
    <3> QED BY <3>1, <3>2
  <2> QED BY <1>1, <2>1, <2>2, LoopsStay DEF IInv
<1>4. CASE /\ state' = [state EXCEPT ![r] = "active"]
           /\ stranded' = stranded \cup {r}
           /\ UNCHANGED <<phase, todo, running, told>>
  <2>1. TypeOK'
    BY <1>1, <1>4, RequestTypes DEF IInv, TypeOK
  <2>2. ASSUME NEW q \in Request PROVE Consistent(q)'
    <3>1. CASE q = r
      BY <1>1, <1>2, <1>4, <3>1, LoopsStay DEF IInv, TypeOK, Consistent, Underway
    <3>2. CASE q # r
      BY <1>1, <1>4, <3>2, LoopsStay, Untouched DEF IInv, TypeOK, LoopsAlone, serviceVars
    <3> QED BY <3>1, <3>2
  <2> QED BY <1>1, <2>1, <2>2, LoopsStay DEF IInv
<1>5. CASE /\ IsOnline
           /\ todo[r] # Unsupported
           /\ todo[r] # << >>
           /\ state' = [state EXCEPT ![r] = "active"]
           /\ running' = running \cup {r}
           /\ phase' = [phase EXCEPT ![r] = "called"]
           /\ todo' = [todo EXCEPT ![r] = IF Head(@) = "queryNow" THEN Tail(@) ELSE @]
           /\ UNCHANGED <<told, stranded>>
  <2>1. todo[r] \in Seq(Calls) /\ (Head(todo[r]) = "queryNow" => Len(todo[r]) > 1)
    BY <1>2, <1>5, PlansAssumption
  <2> DEFINE rest == IF Head(todo[r]) = "queryNow" THEN Tail(todo[r]) ELSE todo[r]
  <2>2. rest \in Seq(Calls) /\ rest # << >>
    <3>1. CASE Head(todo[r]) = "queryNow"
      <4>1. Tail(todo[r]) \in Seq(Calls) /\ Len(Tail(todo[r])) = Len(todo[r]) - 1
        BY <1>5, <2>1
      <4>2. Tail(todo[r]) # << >>
        BY <2>1, <3>1, LongTail
      <4> QED BY <3>1, <4>1, <4>2
    <3>2. CASE Head(todo[r]) # "queryNow"
      BY <1>5, <2>1, <3>2
    <3> QED BY <3>1, <3>2
  <2>3. todo' = [todo EXCEPT ![r] = rest]
    BY <1>5
  <2> HIDE DEF rest
  <2>4. TypeOK'
    BY <1>1, <1>5, <2>2, <2>3, RequestTypes DEF IInv, TypeOK, Phases
  <2>5. ASSUME NEW q \in Request PROVE Consistent(q)'
    <3>1. CASE q = r
      BY <1>1, <1>2, <1>5, <2>2, <2>3, <3>1, LoopsStay
      DEF IInv, TypeOK, Consistent, Underway, IsOnline, LoopsAlone, serviceVars
    <3>2. CASE q # r
      BY <1>1, <1>5, <2>3, <3>2, LoopsStay, Untouched
      DEF IInv, TypeOK, LoopsAlone, serviceVars
    <3> QED BY <3>1, <3>2
  <2> QED BY <1>1, <2>4, <2>5, LoopsStay DEF IInv
<1> QED BY <1>3, <1>4, <1>5 DEF Start

LEMMA CancelInv ==
  ASSUME IInv, NEW r \in Request, Cancel(r)
  PROVE  IInv'
BY EndedInv DEF Cancel, LoopsAlone

LEMMA WaitInv ==
  ASSUME IInv, NEW r \in Request, Wait(r)
  PROVE  IInv'
<1> USE DEF Wait, requestVars, serviceVars
<1>1. TypeOK
  BY DEF IInv
<1>2. /\ stack' \in Seq(Request \cup {Lost}) /\ WaitedOnce'
      /\ Len(stack') = Len(stack) + 1
  BY Entered DEF IInv
<1>3. Len(stack') <= MaxDepth
  <2>1. Len(stack) \in Nat
    BY <1>1 DEF TypeOK
  <2> QED BY <1>2, <2>1, BoundsAssumption
<1>4. TypeOK'
  BY <1>1, <1>2, <1>3, LoopTypes DEF TypeOK
<1>5. ASSUME NEW q \in Request PROVE Consistent(q)'
  <2>1. CASE q = r
    BY <2>1, Entered DEF IInv, Consistent, Underway
  <2>2. CASE q # r
    BY <2>2, Entered, Untouched DEF IInv
  <2> QED BY <2>1, <2>2
<1> QED BY <1>2, <1>4, <1>5 DEF IInv

LEMMA ReturnInv ==
  ASSUME IInv, NEW r \in Request, Return(r)
  PROVE  IInv'
<1> USE DEF Return, serviceVars
<1>1. r # Lost
  BY LostAssumption
<1>2. TypeOK' /\ WaitedOnce'
  <2>1. TypeOK
    BY DEF IInv
  <2>2. /\ stack' \in Seq(Request \cup {Lost}) /\ WaitedOnce'
        /\ Len(stack') <= Len(stack)
    BY Left DEF IInv
  <2>3. Len(stack') <= MaxDepth
    BY <2>1, <2>2, BoundsAssumption DEF TypeOK
  <2> QED BY <2>1, <2>2, <2>3, LoopTypes DEF TypeOK, Phases
<1>3. ASSUME NEW q \in Request PROVE Consistent(q)'
  <2>1. CASE q = r
    BY <1>1, <2>1, Left DEF IInv, TypeOK, Consistent, Underway
  <2>2. CASE q # r
    BY <2>2, Left, Untouched DEF IInv, TypeOK
  <2> QED BY <2>1, <2>2
<1> QED BY <1>2, <1>3 DEF IInv

LEMMA ReleaseInv ==
  ASSUME IInv, NEW r \in Request, Release(r)
  PROVE  IInv'
<1>1. LoopsAlone
  BY DEF Release, LoopsAlone
<1>2. CASE r \in running
  BY <1>1, <1>2, EndedInv DEF Release
<1>3. CASE r \notin running
  <2>1. /\ state' = [state EXCEPT ![r] = "gone"]
        /\ UNCHANGED <<told, running, phase, todo, stranded>>
    BY <1>3 DEF Release
  <2>2. TypeOK'
    BY <1>1, <2>1, RequestTypes DEF IInv, TypeOK
  <2>3. ASSUME NEW q \in Request PROVE Consistent(q)'
    <3>1. CASE q = r
      BY <1>1, <1>3, <2>1, <3>1, LoopsStay DEF IInv, TypeOK, Consistent, Underway
    <3>2. CASE q # r
      BY <1>1, <2>1, <3>2, LoopsStay, Untouched DEF IInv, TypeOK, LoopsAlone, serviceVars
    <3> QED BY <3>1, <3>2
  <2> QED BY <1>1, <2>2, <2>3, LoopsStay DEF IInv
<1> QED BY <1>2, <1>3

\* The phase of a request changes, nothing else of it.
LEMMA PhaseInv ==
  ASSUME IInv, NEW r \in Request, Underway(r), LoopsAlone,
         \/ phase' = [phase EXCEPT ![r] = "parsing"] /\ UNCHANGED stranded
         \/ phase' = [phase EXCEPT ![r] = "stuck"] /\ stranded' = stranded \cup {r},
         UNCHANGED <<state, todo, running, told>>
  PROVE  IInv'
<1>1. TypeOK'
  BY RequestTypes DEF IInv, TypeOK, Phases
<1>2. ASSUME NEW q \in Request PROVE Consistent(q)'
  <2>1. CASE q = r
    BY <2>1, LoopsStay DEF IInv, TypeOK, Consistent, Underway, LoopsAlone, serviceVars
  <2>2. CASE q # r
    BY <2>2, LoopsStay, Untouched DEF IInv, TypeOK, LoopsAlone, serviceVars
  <2> QED BY <2>1, <2>2
<1> QED BY <1>1, <1>2, LoopsStay DEF IInv

LEMMA ReplyInv ==
  ASSUME IInv, NEW r \in Request, NEW ok \in BOOLEAN, Reply(r, ok)
  PROVE  IInv'
<1>1. LoopsAlone /\ Underway(r) /\ r \in running /\ phase[r] = "called"
  BY DEF Reply, LoopsAlone, Underway, IInv, Consistent
<1>2. todo[r] # << >> /\ todo[r] \in Seq(Calls) \cup {Unsupported}
  BY <1>1 DEF IInv, TypeOK, Consistent
<1>3. Tail(todo[r]) \in Seq(Calls)
  <2>1. CASE todo[r] \in Seq(Calls)
    BY <1>2, <2>1
  <2>2. CASE todo[r] = Unsupported
    <3>1. Tail(<<"unsupported">>) = << >>
      OBVIOUS
    <3> QED BY <2>2, <3>1 DEF Unsupported
  <2> QED BY <1>2, <2>1, <2>2
<1>4. CASE Finish(r)
  BY <1>1, <1>4, EndedInv DEF Finish
<1>5. CASE Drop(r)
  BY <1>1, <1>5, DropInv
<1>6. CASE FetchPage(r)
  BY <1>1, <1>6, FetchPageInv
<1>7. CASE Continue(r, Tail(todo[r]))
  BY <1>1, <1>3, <1>7, ContinueInv
<1>8. CASE /\ Told(r, "finished")
           /\ phase' = [phase EXCEPT ![r] = "idle"]
           /\ UNCHANGED <<running, todo, stranded>>
  <2>1. TypeOK'
    BY <1>1, <1>8, RequestTypes DEF IInv, TypeOK, Told, Phases
  <2>2. ASSUME NEW q \in Request PROVE Consistent(q)'
    <3>1. CASE q = r
      BY <1>1, <1>8, <3>1, LoopsStay DEF IInv, TypeOK, Consistent, Underway, Told
    <3>2. CASE q # r
      BY <1>1, <1>8, <3>2, LoopsStay, Untouched DEF IInv, TypeOK, Told, LoopsAlone, serviceVars
    <3> QED BY <3>1, <3>2
  <2> QED BY <1>1, <2>1, <2>2, LoopsStay DEF IInv
<1>9. CASE /\ phase' = [phase EXCEPT ![r] = "parsing"]
           /\ UNCHANGED <<state, todo, running, told, stranded>>
  BY <1>1, <1>9, PhaseInv
<1> QED
  BY <1>4, <1>5, <1>6, <1>7, <1>8, <1>9
  DEF Reply, CollectionsReply, QueryReply, PageReply, StepReply, RemoveReply

LEMMA ParserInv ==
  ASSUME IInv, NEW r \in Request, ParsedFull(r) \/ ParsedLast(r) \/ ParseFails(r)
  PROVE  IInv'
<1>1. LoopsAlone /\ Underway(r) /\ r \in running
  BY DEF ParsedFull, ParsedLast, ParseFails, LoopsAlone, Underway, IInv, Consistent
<1>2. CASE ParsedFull(r)
  BY <1>1, <1>2, FetchPageInv DEF ParsedFull
<1>3. CASE ParsedLast(r)
  BY <1>1, <1>3, EndedInv DEF ParsedLast, Finish
<1>4. CASE ParseFails(r)
  BY <1>1, <1>4, PhaseInv DEF ParseFails
<1> QED BY <1>2, <1>3, <1>4

\* The service is lost: a loop more, or not.
LEMMA ServiceLostInv ==
  ASSUME IInv, ServiceLost
  PROVE  IInv'
<1> USE DEF ServiceLost, requestVars
<1> TypeOK /\ losses' \in 0 .. MaxLosses
  BY BoundsAssumption DEF IInv, TypeOK
<1>1. CASE stack' = stack
  <2>1. TypeOK' /\ WaitedOnce'
    BY <1>1, LoopTypes DEF IInv, TypeOK, WaitedOnce
  <2>2. \A q \in Request : Consistent(q)'
    BY <1>1, Untouched DEF IInv, Waited
  <2> QED BY <2>1, <2>2 DEF IInv
<1>2. CASE stack' = Append(stack, Lost)
  <2>1. \A q \in Request : q # Lost
    BY LostAssumption
  <2>2. \A q \in Request : Waited(q)' <=> Waited(q)
    BY <1>2, <2>1, Entered DEF IInv
  <2>3. TypeOK' /\ WaitedOnce'
    <3>1. /\ stack' \in Seq(Request \cup {Lost}) /\ WaitedOnce'
          /\ Len(stack') = Len(stack) + 1
      BY <1>2, Entered DEF IInv
    <3>2. Len(stack') <= MaxDepth
      <4>1. Len(stack) \in Nat
        BY DEF TypeOK
      <4> QED BY <3>1, <4>1, BoundsAssumption
    <3> QED BY <3>1, <3>2, LoopTypes DEF TypeOK
  <2>4. \A q \in Request : Consistent(q)'
    BY <2>2, Untouched DEF IInv
  <2> QED BY <2>3, <2>4 DEF IInv
<1> QED BY <1>1, <1>2

\* The interface goes only when no request is in the list.
LEMMA DeinitializedInv ==
  ASSUME IInv, Deinitialized
  PROVE  IInv'
<1> USE DEF Deinitialized, requestVars
<1>1. TypeOK' /\ WaitedOnce'
  <2>1. TypeOK
    BY DEF IInv
  <2>2. /\ stack' \in Seq(Request \cup {Lost}) /\ WaitedOnce'
        /\ Len(stack') <= Len(stack)
    BY Left DEF IInv
  <2>3. Len(stack') <= MaxDepth
    BY <2>1, <2>2, BoundsAssumption DEF TypeOK
  <2>4. ready' \in BOOLEAN /\ (ready' => iface')
    <3>1. CASE iface' BY <3>1
    <3>2. CASE ~iface' BY <3>2
    <3> QED BY <3>1, <3>2
  <2> QED BY <2>1, <2>2, <2>3, <2>4, LoopTypes DEF TypeOK
<1>2. ASSUME NEW q \in Request PROVE Consistent(q)'
  <2>1. q # Last(stack)
    BY LostAssumption
  <2>2. Waited(q)' <=> Waited(q)
    BY <2>1, Left DEF IInv
  <2>3. ~Underway(q)
    BY DEF IInv, Consistent
  <2> QED BY <2>2, <2>3, Untouched DEF IInv
<1> QED BY <1>1, <1>2 DEF IInv

LEMMA ServiceInv ==
  ASSUME IInv, ServiceAppeared \/ ReadyChanged
  PROVE  IInv'
<1> USE DEF ServiceAppeared, ReadyChanged, requestVars
<1>1. TypeOK' /\ WaitedOnce'
  <2>1. TypeOK
    BY DEF IInv
  <2>2. iface' \in BOOLEAN /\ ready' \in BOOLEAN /\ (ready' => iface') /\ bus' \in BOOLEAN
    <3>1. CASE ServiceAppeared /\ iface BY <2>1, <3>1 DEF TypeOK
    <3>2. CASE ServiceAppeared /\ ~iface BY <2>1, <3>2 DEF TypeOK
    <3>3. CASE ReadyChanged BY <2>1, <3>3 DEF TypeOK
    <3> QED BY <2>1, <3>1, <3>2, <3>3 DEF TypeOK
  <2>3. UNCHANGED <<requestVars, stack, losses, crashed>>
    OBVIOUS
  <2>4. TypeOK'
    BY <2>1, <2>2, <2>3, LoopTypes DEF TypeOK
  <2> QED BY <2>3, <2>4 DEF IInv, WaitedOnce
<1>2. UNCHANGED <<requestVars, stack>> /\ (iface => iface')
  BY DEF IInv, TypeOK
<1>3. \A q \in Request : Consistent(q)'
  BY <1>2, Untouched DEF IInv, Waited
<1> QED BY <1>1, <1>3 DEF IInv

\* A step that does nothing to the requests, or only ends the process.
LEMMA StillInv ==
  ASSUME IInv, UNCHANGED <<requestVars, stack, serviceVars>>, crashed' \in BOOLEAN
  PROVE  IInv'
<1> USE DEF requestVars, serviceVars
<1>1. TypeOK' /\ WaitedOnce'
  BY DEF IInv, TypeOK, WaitedOnce
<1>2. \A q \in Request : Consistent(q)'
  BY Untouched DEF IInv, Waited
<1> QED BY <1>1, <1>2 DEF IInv

LEMMA NextInv == IInv /\ [Next]_vars => IInv'
<1> SUFFICES ASSUME IInv, [Next]_vars PROVE IInv'
  OBVIOUS
<1>1. CASE Application
  BY <1>1, StartInv, CancelInv, WaitInv, ReleaseInv DEF Application
<1>2. CASE Answer
  BY <1>2, ReplyInv, ParserInv, StillInv DEF Answer, GroupNotCreated
<1>3. CASE Service
  BY <1>3, ServiceLostInv, ServiceInv DEF Service
<1>4. CASE Loops
  BY <1>4, DeinitializedInv, ReturnInv, StillInv DEF Loops, DeinitializedTwice
<1>5. CASE UNCHANGED vars
  BY <1>5, StillInv DEF vars, IInv, TypeOK
<1> QED BY <1>1, <1>2, <1>3, <1>4, <1>5 DEF Next

-----------------------------------------------------------------------------
(* The theorems. *)

\* How the application, the data objects, the list and the loops agree holds in
\* every reachable state.
THEOREM Inductive == Spec => []IInv
<1>1. Init => IInv
  BY InitInv
<1>2. IInv /\ [Next]_vars => IInv'
  BY NextInv
<1> QED BY <1>1, <1>2, PTL DEF Spec

\* The variables keep to their types.
THEOREM TypeCorrect == Spec => []TypeOK
<1>1. IInv => TypeOK
  BY DEF IInv
<1> QED BY <1>1, Inductive, PTL

\* No data object is deleted while the list or a loop points to it.
THEOREM Kept == Spec => []DataKept
<1>1. IInv => DataKept
  BY DEF IInv, Consistent, DataKept
<1> QED BY <1>1, Inductive, PTL

\* Every answer finds its request active and in the list.
THEOREM Answers == Spec => []AnswersFindRequests
<1>1. IInv => AnswersFindRequests
  BY DEF IInv, Consistent, Underway, AnswersFindRequests
<1> QED BY <1>1, Inductive, PTL

\* Nobody waits for a request for which nothing is under way.
THEOREM Waiters == Spec => []WaitersAreTold
<1>1. IInv => WaitersAreTold
  BY DEF IInv, Consistent, Underway, WaitersAreTold
<1> QED BY <1>1, Inductive, PTL

\* No step of a request finds the interface gone.
THEOREM Interface == Spec => []InterfaceKept
<1>1. IInv => InterfaceKept
  BY DEF IInv, Consistent, Underway, InterfaceKept
<1> QED BY <1>1, Inductive, PTL
=============================================================================
