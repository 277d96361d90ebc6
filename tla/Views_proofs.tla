---------------------------- MODULE Views_proofs ----------------------------
(***************************************************************************)
(* Whoever waits for a filter is woken, and a filter only reads a map that *)
(* is there, for any views, threads, reloads and depth of event loops.     *)
(*                                                                         *)
(* The two properties speak of loops and of maps.  Between them are the    *)
(* calls on the stack (FrameOK): what a call that waits, or runs, may      *)
(* count on while others begin and end inside it.                          *)
(***************************************************************************)
EXTENDS Views, TLAPS

\* What holds of each call on the stack.  One that waits, waits for a view that was queried,
\* and is told to quit when its filter is done.  One that closes a view has taken it off the
\* bus; the result another call waits for goes only if the view was closed inside it.  An
\* unprepareFolks has still to close what is in m_views, but for the views queried inside it.
FrameOK(f) ==
  /\ f.waits => f.view \in View /\ thread[f.view] # "none"
  /\ f.waits /\ f.quit => thread[f.view] \in {"done", "deleted"}
  /\ f.waits /\ f.kind # "call" => f.view \notin adaptor
  /\ f.waits /\ f.kind = "call" => f.view \in adaptor \cup inside
  /\ ~f.waits => f.kind = "unprepare"
  /\ f.kind = "unprepare" => views \subseteq f.rest \cup during
  /\ \A v \in f.rest : thread[v] # "none"

FramesInv == \A i \in DOMAIN stack : FrameOK(stack[i])

\* A filter that may still read the map belongs to a view that unprepareFolks sees, or that
\* is being closed, or was queried inside an unprepareFolks.
Early == {"queued", "starting", "scanning"}

ViewsInv ==
  /\ views \subseteq adaptor
  /\ \A v \in adaptor : thread[v] \notin {"none", "deleted"}
  /\ \A v \in posted : thread[v] \in {"done", "deleted"}
  /\ \A v \in View : thread[v] \in Early => v \in views \cup during \/ BeingClosed(v)

IInv == TypeOK /\ LoopsAreThere /\ NoLostWakeup /\ FramesInv /\ ViewsInv /\ ReadsLiveMap

-----------------------------------------------------------------------------
(***************************************************************************)
(* The stack                                                               *)
(***************************************************************************)

\* A call begins.
LEMMA Pushed ==
  ASSUME stack \in Seq(Frames), NEW f \in Frames, stack' = Append(stack, f)
  PROVE  /\ stack' \in Seq(Frames) /\ Len(stack') = Len(stack) + 1 /\ Len(stack) \in Nat
         /\ DOMAIN stack = 1..Len(stack) /\ DOMAIN stack' = 1..(Len(stack) + 1)
         /\ stack'[Len(stack) + 1] = f
         /\ \A i \in DOMAIN stack : stack'[i] = stack[i]
OBVIOUS

\* A stack without its innermost call.
LEMMA FrontFacts ==
  ASSUME stack \in Seq(Frames), stack # << >>
  PROVE  /\ Front(stack) \in Seq(Frames) /\ Len(Front(stack)) = Len(stack) - 1
         /\ Len(stack) \in Nat \ {0} /\ DOMAIN stack = 1..Len(stack)
         /\ \A i \in 1..(Len(stack) - 1) : Front(stack)[i] = stack[i]
         /\ Last(stack) = stack[Len(stack)] /\ Last(stack) \in Frames
<1> DEFINE n == Len(stack)
<1>1. n \in Nat /\ n > 0 /\ DOMAIN stack = 1..n
  OBVIOUS
<1>2. /\ Front(stack) \in Seq(Frames) /\ Len(Front(stack)) = n - 1
      /\ \A i \in 1..(n - 1) : Front(stack)[i] = stack[i]
  BY <1>1 DEF Front
<1>3. Last(stack) = stack[n] /\ Last(stack) \in Frames
  BY <1>1 DEF Last
<1> QED BY <1>1, <1>2, <1>3

\* The innermost call ends.
LEMMA Popped ==
  ASSUME stack \in Seq(Frames), stack # << >>, stack' = Front(stack)
  PROVE  /\ stack' \in Seq(Frames) /\ Len(stack') = Len(stack) - 1 /\ Len(stack) \in Nat \ {0}
         /\ DOMAIN stack = 1..Len(stack) /\ DOMAIN stack' = 1..(Len(stack) - 1)
         /\ Last(stack) = stack[Len(stack)] /\ Last(stack) \in Frames
         /\ \A i \in DOMAIN stack' : stack'[i] = stack[i]
<1>1. stack' \in Seq(Frames) /\ Len(stack') = Len(stack) - 1
  BY FrontFacts
<1>2. DOMAIN stack' = 1..(Len(stack) - 1)
  BY <1>1
<1> QED BY <1>1, <1>2, FrontFacts

\* The innermost call goes on.
LEMMA Replaced ==
  ASSUME stack \in Seq(Frames), stack # << >>, NEW f \in Frames,
         stack' = Append(Front(stack), f)
  PROVE  /\ stack' \in Seq(Frames) /\ Len(stack') = Len(stack) /\ Len(stack) \in Nat \ {0}
         /\ DOMAIN stack = 1..Len(stack) /\ DOMAIN stack' = 1..Len(stack)
         /\ Last(stack) = stack[Len(stack)] /\ Last(stack) \in Frames
         /\ stack'[Len(stack)] = f
         /\ \A i \in 1..(Len(stack) - 1) : stack'[i] = stack[i]
<1> DEFINE n == Len(stack)  g == Front(stack)
<1> HIDE DEF g
<1>1. n \in Nat \ {0} /\ g \in Seq(Frames) /\ Len(g) = n - 1 /\ stack' = Append(g, f)
      /\ \A i \in 1..(n - 1) : g[i] = stack[i]
  BY FrontFacts DEF g
<1>2. stack' \in Seq(Frames) /\ Len(stack') = n /\ stack'[n] = f
      /\ \A i \in 1..(n - 1) : stack'[i] = g[i]
  BY <1>1
<1>3. DOMAIN stack' = 1..n BY <1>2
<1> QED BY <1>1, <1>2, <1>3, FrontFacts

-----------------------------------------------------------------------------
(***************************************************************************)
(* The filter threads                                                      *)
(***************************************************************************)

\* A filter goes on, and its view finds out what it has to.
LEMMA ThreadMovesInv ==
  ASSUME IInv, NEW v \in View, NEW from, NEW to, ThreadMoves(v, from, to),
         from \notin {"none", "idle", "done", "deleted"},
         to \in Stages \ {"none", "idle", "deleted"},
         to \in Early => from \in Early,
         \/ to # "done" /\ posted' = posted
         \/ to = "done" /\ posted' = posted \cup {v},
         \/ crashed' = "no" /\ (to = "scanning" => map[v] # "deleted")
         \/ crashed' = "map" /\ to = "scanning" /\ map[v] = "deleted"
  PROVE  IInv'
<1> USE DEF IInv
<1>1. /\ UNCHANGED <<ready, folks, adaptor, views, stack, loop, reloads, map, cancelled, answered>>
      /\ UNCHANGED <<overlapped, inside, during>>
      /\ crashed = "no" /\ thread[v] = from
      /\ thread' = [thread EXCEPT ![v] = to]
  BY DEF ThreadMoves, mainVars, historyVars, Alive
<1>2. TypeOK'
  BY <1>1 DEF TypeOK
<1>3. /\ \A w \in View : thread'[w] = IF w = v THEN to ELSE thread[w]
      /\ \A w \in View : thread[w] \in {"none", "idle"} <=> thread'[w] \in {"none", "idle"}
  BY <1>1 DEF TypeOK
<1>4. LoopsAreThere'
  BY <1>1 DEF LoopsAreThere
<1>5. FramesInv'
  <2>1. \A f \in Frames : FrameOK(f) => FrameOK(f)'
    BY <1>1, <1>3 DEF FrameOK, Frames
  <2> QED BY <1>1, <2>1 DEF FramesInv, TypeOK
<1>6. NoLostWakeup'
  BY <1>1, <1>3 DEF NoLostWakeup, FramesInv, FrameOK, Alive
<1>7. ViewsInv'
  BY <1>1, <1>3 DEF ViewsInv, BeingClosed, TypeOK, Early
<1>8. ReadsLiveMap'
  BY <1>1, <1>3 DEF ReadsLiveMap, BeingClosed, Alive, Early
<1> QED BY <1>2, <1>4, <1>5, <1>6, <1>7, <1>8

\* Each of the five steps of a filter.
LEMMA ThreadStepInv ==
  ASSUME IInv, NEW v \in View, ThreadStep(v)
  PROVE  IInv'
<1> USE DEF Stages, Early
<1>1. crashed = "no" BY DEF ThreadStep, Start, Lock, Unlock, SetDone, Post, ThreadMoves, Alive
<1>2. CASE Start(v)
  <2>1. \E to \in {"leaving", "starting"} : ThreadMoves(v, "queued", to)
    BY <1>2 DEF Start
  <2> QED BY <1>1, <1>2, <2>1, ThreadMovesInv DEF Start
<1>3. CASE Lock(v)
  BY <1>3, ThreadMovesInv DEF Lock
<1>4. CASE Unlock(v)
  BY <1>1, <1>4, ThreadMovesInv DEF Unlock
<1>5. CASE SetDone(v)
  BY <1>1, <1>5, ThreadMovesInv DEF SetDone
<1>6. CASE Post(v)
  BY <1>1, <1>6, ThreadMovesInv DEF Post
<1> QED BY <1>2, <1>3, <1>4, <1>5, <1>6 DEF ThreadStep

-----------------------------------------------------------------------------
(***************************************************************************)
(* The main thread                                                         *)
(***************************************************************************)

\* A handler that touches neither calls, views nor filters.
LEMMA AsideInv ==
  ASSUME IInv, TypeOK', crashed = "no", crashed' \in {"no", "sort"},
         UNCHANGED <<adaptor, views, stack, loop, thread, map, posted>>,
         UNCHANGED historyVars
  PROVE  IInv'
<1> USE DEF IInv, historyVars
<1>1. LoopsAreThere' BY DEF LoopsAreThere
<1>2. NoLostWakeup' BY DEF NoLostWakeup, Alive
<1>3. FramesInv' BY DEF FramesInv, FrameOK
<1>4. ViewsInv' BY DEF ViewsInv, BeingClosed
<1>5. ReadsLiveMap' BY DEF ReadsLiveMap, BeingClosed, Alive
<1> QED BY <1>1, <1>2, <1>3, <1>4, <1>5

\* Only the main thread changes the stack, and it is in a loop or in unprepareFolks.
LEMMA QueryInv ==
  ASSUME IInv, NEW v \in View, Query(v)
  PROVE  IInv'
<1> USE DEF IInv
<1>1. /\ UNCHANGED <<ready, folks, stack, loop, reloads, cancelled, posted>>
      /\ UNCHANGED <<answered, crashed, overlapped, inside>>
      /\ crashed = "no" /\ thread[v] = "none"
      /\ adaptor' = adaptor \cup {v} /\ views' = views \cup {v}
  BY DEF Query, InLoop, Alive, Unused
<1>2. \E to \in {"queued", "idle"} : thread' = [thread EXCEPT ![v] = to]
  BY DEF Query
<1>3. \E m \in {"live", "none"} : map' = [map EXCEPT ![v] = m]
  BY DEF Query
<1>4. /\ during' \in {during, during \cup {v}}
      /\ \A i \in DOMAIN stack : stack[i].kind = "unprepare" => v \in during'
  BY DEF Query
<1>5. TypeOK'
  BY <1>1, <1>2, <1>3, <1>4 DEF TypeOK, Stages
<1>6. LoopsAreThere' BY <1>1 DEF LoopsAreThere
<1>7. /\ thread'[v] \in {"queued", "idle"} /\ map'[v] # "deleted"
      /\ \A w \in View \ {v} : thread'[w] = thread[w] /\ map'[w] = map[w]
  BY <1>2, <1>3 DEF TypeOK
<1>8. FramesInv'
  <2>1. ASSUME NEW f \in Frames, FrameOK(f), f.kind = "unprepare" => v \in during'
        PROVE  FrameOK(f)'
    <3>1. f.waits => f.view # v /\ f.view \in View BY <1>1, <2>1 DEF FrameOK
    <3>2. f.rest \subseteq View \ {v} BY <1>1, <2>1 DEF FrameOK, Frames
    <3>3. f.waits => thread'[f.view] = thread[f.view] BY <1>7, <3>1
    <3>4. \A w \in f.rest : thread'[w] # "none" BY <1>7, <2>1, <3>2 DEF FrameOK
    <3>5. f.kind = "unprepare" => views' \subseteq f.rest \cup during'
      BY <1>1, <1>4, <2>1 DEF FrameOK
    <3> QED BY <1>1, <2>1, <3>1, <3>3, <3>4, <3>5 DEF FrameOK
  <2> QED BY <1>1, <1>4, <2>1 DEF FramesInv, TypeOK
<1>9. NoLostWakeup'
  BY <1>1, <1>7 DEF NoLostWakeup, FramesInv, FrameOK, Alive
<1>10. ViewsInv'
  BY <1>1, <1>4, <1>7 DEF ViewsInv, BeingClosed, TypeOK, Early
<1>11. ReadsLiveMap'
  BY <1>1, <1>4, <1>7 DEF ReadsLiveMap, BeingClosed, Alive
<1> QED BY <1>5, <1>6, <1>8, <1>9, <1>10, <1>11
-----------------------------------------------------------------------------
(***************************************************************************)
(* Calls that wait, and calls that close                                   *)
(***************************************************************************)

\* A loop that waits stays where it is, whether it has been told to quit or not.
KeepsWaits ==
  \A i \in DOMAIN stack : stack[i].waits => i \in DOMAIN stack' /\ stack'[i] = stack[i]

\* Every call of the stack was there before.
AddsNone == \A i \in DOMAIN stack' : i \in DOMAIN stack /\ stack'[i] = stack[i]

\* A view that is being closed is being closed as long as the calls that wait are kept.
LEMMA ClosedStays ==
  ASSUME KeepsWaits, NEW v \in View, BeingClosed(v)
  PROVE  BeingClosed(v)'
BY DEF KeepsWaits, BeingClosed

\* contactsDetails and count.
LEMMA AskInv ==
  ASSUME IInv, NEW v \in View, Ask(v)
  PROVE  IInv'
<1> USE DEF IInv
<1>1. /\ UNCHANGED <<ready, folks, adaptor, views, reloads, threadVars, crashed, inside, during>>
      /\ crashed = "no" /\ v \in adaptor /\ Len(stack) < MaxDepth
      /\ thread[v] \notin {"none", "deleted"}
  BY DEF Ask, InLoop, Alive, ViewsInv
<1> USE DEF threadVars
<1>2. CASE Done(v)
  <2>1. /\ UNCHANGED <<adaptor, views, stack, loop, thread, map, posted>>
        /\ UNCHANGED historyVars /\ crashed' = "no" /\ answered' = answered \cup {v}
    BY <1>1, <1>2 DEF Ask, historyVars
  <2>2. TypeOK'
    BY <1>1, <2>1 DEF TypeOK, historyVars
  <2> QED BY <1>1, <2>1, <2>2, AsideInv
<1>3. CASE ~Done(v)
  <2> DEFINE n == Len(stack)  f == Waiting("call", v, {})
  <2>1. /\ stack' = Append(stack, f) /\ answered' = answered
        /\ loop' = [loop EXCEPT ![v] = Len(Append(stack, f))]
        /\ overlapped' = (overlapped \/ loop[v] > 0)
    BY <1>3 DEF Ask, Wait
  <2>2. f \in Frames /\ f.view = v /\ f.waits /\ ~f.quit /\ f.kind = "call" /\ f.rest = {}
    BY DEF Frames, Waiting
  <2>3. stack \in Seq(Frames) BY DEF TypeOK
  <2> HIDE DEF f
  <2>4. /\ stack' \in Seq(Frames) /\ Len(stack') = n + 1 /\ n \in Nat
        /\ DOMAIN stack = 1..n /\ DOMAIN stack' = 1..(n + 1)
        /\ stack'[n + 1] = f /\ \A i \in DOMAIN stack : stack'[i] = stack[i]
    BY <2>1, <2>2, <2>3, Pushed
  <2>5. loop' = [loop EXCEPT ![v] = n + 1]
    BY <2>1, <2>4
  <2> HIDE DEF n
  <2>6. KeepsWaits BY <2>4 DEF KeepsWaits
  <2>7. n + 1 \in 0..MaxDepth /\ n + 1 > 0 /\ n + 1 \notin DOMAIN stack
    BY <1>1, <2>4, BoundsAssumption DEF n
  <2>8. TypeOK'
    <3>1. loop' \in [View -> 0..MaxDepth] BY <2>5, <2>7 DEF TypeOK
    <3>2. overlapped' \in BOOLEAN BY <2>1
    <3>3. Len(stack') <= MaxDepth BY <2>4, <2>7
    <3> QED BY <1>1, <2>1, <2>4, <3>1, <3>2, <3>3 DEF TypeOK
  <2>9. loop'[v] = n + 1 /\ \A w \in View \ {v} : loop'[w] = loop[w]
    BY <2>5 DEF TypeOK
  <2>10. LoopsAreThere'
    BY <2>2, <2>4, <2>7, <2>9 DEF LoopsAreThere
  <2>11. FramesInv'
    <3>1. \A g \in Frames : FrameOK(g) => FrameOK(g)' BY <1>1 DEF FrameOK
    <3>2. f = stack'[n + 1] /\ FrameOK(f)' BY <1>1, <2>2, <2>4 DEF FrameOK
    <3>3. \A i \in DOMAIN stack : stack[i] \in Frames BY DEF TypeOK
    <3>4. ASSUME NEW i \in DOMAIN stack' PROVE FrameOK(stack[i])'
      <4>1. CASE i = n + 1 BY <2>4, <3>2, <4>1
      <4>2. CASE i \in DOMAIN stack BY <2>4, <3>1, <3>3, <4>2 DEF FramesInv
      <4> QED BY <2>4, <4>1, <4>2
    <3> QED BY <3>4 DEF FramesInv
  <2>12. NoLostWakeup'
    <3> SUFFICES ASSUME ~overlapped', NEW i \in DOMAIN stack',
                        stack'[i].waits, ~stack'[i].quit, thread'[stack'[i].view] # "idle"
                 PROVE  /\ loop'[stack'[i].view] = i
                        /\ thread'[stack'[i].view] \in {"done", "deleted"}
                             => stack'[i].view \in posted'
      BY DEF NoLostWakeup
    <3>1. ~overlapped /\ ~(loop[v] > 0) BY <2>1
    <3>2. CASE i = n + 1
      BY <1>1, <1>3, <2>2, <2>4, <2>9, <3>2 DEF Done
    <3>3. CASE i \in DOMAIN stack
      <4>1. stack'[i] = stack[i] BY <2>4, <3>3
      <4>2. /\ loop[stack[i].view] = i
            /\ thread[stack[i].view] \in {"done", "deleted"} => stack[i].view \in posted
        BY <1>1, <3>1, <3>3, <4>1 DEF NoLostWakeup, Alive
      <4>3. stack[i].view \in View
        BY <3>3, <4>1 DEF FramesInv, FrameOK
      <4>4. i > 0 BY <2>4, <3>3
      <4> QED BY <1>1, <2>9, <3>1, <4>1, <4>2, <4>3, <4>4
    <3> QED BY <2>4, <3>2, <3>3
  <2>13. ViewsInv' /\ ReadsLiveMap'
    <3>1. \A w \in View : BeingClosed(w) => BeingClosed(w)' BY <2>6, ClosedStays
    <3>2. ViewsInv' BY <1>1, <3>1 DEF ViewsInv
    <3>3. ReadsLiveMap' BY <1>1, <3>1 DEF ReadsLiveMap, Alive
    <3> QED BY <3>2, <3>3
  <2> QED BY <2>8, <2>10, <2>11, <2>12, <2>13
<1> QED BY <1>2, <1>3
\* View::close of a filter that is done: the filter is deleted, and the stack is what it was,
\* or an unprepareFolks has one view less to close.
LEMMA ClosedInv ==
  ASSUME IInv, NEW v \in View, crashed = "no", Done(v) \/ thread[v] = "deleted",
         adaptor' = adaptor \ {v}, views' = views \ {v},
         thread' = [thread EXCEPT ![v] = "deleted"], crashed' = Freed(v),
         inside' \in {inside, inside \cup {v}},
         \A i \in DOMAIN stack : stack[i].waits /\ stack[i].view = v => v \in inside',
         UNCHANGED <<ready, folks, loop, reloads, map, cancelled, posted, answered>>,
         UNCHANGED <<overlapped, during>>,
         stack' \in Seq(Frames), Len(stack') <= MaxDepth, KeepsWaits,
         \A i \in DOMAIN stack' :
           \/ i \in DOMAIN stack /\ stack'[i] = stack[i]
           \/ /\ ~stack'[i].waits /\ stack'[i].kind = "unprepare"
              /\ views' \subseteq stack'[i].rest \cup during
              /\ \A w \in stack'[i].rest : thread[w] # "none"
  PROVE  IInv'
<1> USE DEF IInv
<1>1. crashed' \in {"no", "thread"} /\ (crashed' = "no" => thread[v] \in {"done", "deleted"})
  BY DEF Freed, Done
<1>2. TypeOK'
  BY <1>1 DEF TypeOK, Stages
<1>3. thread'[v] = "deleted" /\ \A w \in View \ {v} : thread'[w] = thread[w]
  BY DEF TypeOK
<1>4. \A w \in View : thread[w] # "none" => thread'[w] # "none"
  BY <1>3
<1>5. LoopsAreThere'
  BY DEF LoopsAreThere, KeepsWaits
<1>6. FramesInv'
  <2>1. ASSUME NEW i \in DOMAIN stack', i \in DOMAIN stack, stack'[i] = stack[i]
        PROVE  FrameOK(stack[i])'
    <3>1. ASSUME NEW f \in Frames, FrameOK(f), f.waits /\ f.view = v => v \in inside'
          PROVE  FrameOK(f)'
      <4>1. f.waits => thread'[f.view] \in {thread[f.view], "deleted"} /\ f.view \in View
        BY <1>3, <3>1 DEF FrameOK
      <4>2. f.rest \subseteq View BY DEF Frames
      <4>3. \A w \in f.rest : thread'[w] # "none" BY <1>4, <3>1, <4>2 DEF FrameOK
      <4> QED BY <3>1, <4>1, <4>3 DEF FrameOK
    <3>2. stack[i] \in Frames /\ FrameOK(stack[i]) BY <2>1 DEF TypeOK, FramesInv
    <3> QED BY <2>1, <3>1, <3>2
  <2>2. ASSUME NEW i \in DOMAIN stack', ~stack'[i].waits, stack'[i].kind = "unprepare",
               views' \subseteq stack'[i].rest \cup during,
               \A w \in stack'[i].rest : thread[w] # "none"
        PROVE  FrameOK(stack[i])'
    <3>1. stack'[i] \in Frames OBVIOUS
    <3>2. stack'[i].rest \subseteq View BY <3>1 DEF Frames
    <3>3. \A w \in stack'[i].rest : thread'[w] # "none" BY <1>4, <2>2, <3>2
    <3> QED BY <2>2, <3>3 DEF FrameOK
  <2> QED BY <2>1, <2>2 DEF FramesInv
<1>7. NoLostWakeup'
  <2> SUFFICES ASSUME ~overlapped', crashed' = "no", NEW i \in DOMAIN stack',
                      stack'[i].waits, ~stack'[i].quit, thread'[stack'[i].view] # "idle"
               PROVE  /\ loop'[stack'[i].view] = i
                      /\ thread'[stack'[i].view] \in {"done", "deleted"}
                           => stack'[i].view \in posted'
    BY DEF NoLostWakeup, Alive
  <2>1. i \in DOMAIN stack /\ stack'[i] = stack[i] /\ stack[i].view \in View
    BY DEF FramesInv, FrameOK
  <2>2. thread[v] \in {"done", "deleted"} BY <1>1
  <2> QED BY <1>3, <2>1, <2>2 DEF NoLostWakeup, Alive
<1>8. ViewsInv' /\ ReadsLiveMap'
  <2>1. \A w \in View : BeingClosed(w) => BeingClosed(w)' BY ClosedStays
  <2>2. ViewsInv' BY <1>3, <2>1 DEF ViewsInv, Early, TypeOK
  <2>3. ReadsLiveMap' BY <1>1, <1>3, <2>1 DEF ReadsLiveMap, Alive
  <2> QED BY <2>2, <2>3
<1> QED BY <1>2, <1>5, <1>6, <1>7, <1>8

\* View::close of a filter that is not done: it is waited for, at place m.
LEMMA ClosingInv ==
  ASSUME IInv, NEW v \in View, crashed = "no", ~Done(v), thread[v] \notin {"none", "deleted"},
         adaptor' = adaptor \ {v}, views' = views \ {v}, cancelled' = cancelled \cup {v},
         inside' \in {inside, inside \cup {v}},
         \A i \in DOMAIN stack : stack[i].waits /\ stack[i].view = v => v \in inside',
         UNCHANGED <<ready, folks, reloads, thread, map, posted, answered, crashed, during>>,
         stack' \in Seq(Frames), Len(stack') <= MaxDepth, KeepsWaits,
         NEW m \in 1..MaxDepth, m \in DOMAIN stack',
         loop' = [loop EXCEPT ![v] = m], overlapped' = (overlapped \/ loop[v] > 0),
         stack'[m].view = v, stack'[m].waits, ~stack'[m].quit, stack'[m].kind # "call",
         stack'[m].kind = "unprepare" => views' \subseteq stack'[m].rest \cup during,
         \A w \in stack'[m].rest : thread[w] # "none",
         \A i \in DOMAIN stack' \ {m} : i \in DOMAIN stack /\ stack'[i] = stack[i]
  PROVE  IInv'
<1> USE DEF IInv
<1>1. TypeOK'
  <2>1. loop' \in [View -> 0..MaxDepth] BY BoundsAssumption DEF TypeOK
  <2>2. overlapped' \in BOOLEAN OBVIOUS
  <2> QED BY <2>1, <2>2 DEF TypeOK
<1>2. loop'[v] = m /\ (\A w \in View \ {v} : loop'[w] = loop[w]) /\ m > 0
  BY DEF TypeOK
<1>3. LoopsAreThere'
  BY <1>2 DEF LoopsAreThere, KeepsWaits
<1>4. FramesInv'
  <2>1. ASSUME NEW i \in DOMAIN stack' \ {m} PROVE FrameOK(stack[i])'
    <3>1. ASSUME NEW f \in Frames, FrameOK(f), f.waits /\ f.view = v => v \in inside'
          PROVE  FrameOK(f)'
      BY <3>1 DEF FrameOK
    <3>2. stack[i] \in Frames /\ FrameOK(stack[i]) BY DEF TypeOK, FramesInv
    <3> QED BY <3>1, <3>2
  <2>2. FrameOK(stack[m])'
    BY DEF FrameOK
  <2>3. ASSUME NEW i \in DOMAIN stack' PROVE FrameOK(stack[i])'
    BY <2>1, <2>2
  <2> QED BY <2>3 DEF FramesInv
<1>5. NoLostWakeup'
  <2> SUFFICES ASSUME ~overlapped', NEW i \in DOMAIN stack',
                      stack'[i].waits, ~stack'[i].quit, thread'[stack'[i].view] # "idle"
               PROVE  /\ loop'[stack'[i].view] = i
                      /\ thread'[stack'[i].view] \in {"done", "deleted"}
                           => stack'[i].view \in posted'
    BY DEF NoLostWakeup
  <2>1. ~overlapped /\ ~(loop[v] > 0) OBVIOUS
  <2>2. CASE i = m
    BY <1>2, <2>2 DEF Done
  <2>3. CASE i # m
    <3>1. i \in DOMAIN stack /\ stack'[i] = stack[i] BY <2>3
    <3>2. /\ loop[stack[i].view] = i
          /\ thread[stack[i].view] \in {"done", "deleted"} => stack[i].view \in posted
      BY <2>1, <3>1 DEF NoLostWakeup, Alive
    <3>3. stack[i].view \in View BY <3>1 DEF FramesInv, FrameOK
    <3>4. i > 0 BY <3>1 DEF TypeOK
    <3> QED BY <1>2, <2>1, <3>1, <3>2, <3>3, <3>4
  <2> QED BY <2>2, <2>3
<1>6. ViewsInv' /\ ReadsLiveMap'
  <2>1. \A w \in View : BeingClosed(w) => BeingClosed(w)' BY ClosedStays
  <2>2. BeingClosed(v)' BY DEF BeingClosed
  <2>3. ViewsInv' BY <2>1, <2>2 DEF ViewsInv
  <2>4. ReadsLiveMap' BY <2>1, <2>2 DEF ReadsLiveMap, Alive
  <2> QED BY <2>3, <2>4
<1> QED BY <1>1, <1>3, <1>4, <1>5, <1>6
\* ViewAdaptor::close
LEMMA ClientClosesInv ==
  ASSUME IInv, NEW v \in View, ClientCloses(v)
  PROVE  IInv'
<1> USE DEF IInv
<1> DEFINE n == Len(stack)  f == Waiting("close", v, {})
<1>1. /\ adaptor' = adaptor \ {v} /\ views' = views \ {v}
      /\ inside' \in {inside, inside \cup {v}}
      /\ \A i \in DOMAIN stack : stack[i].waits /\ stack[i].view = v => v \in inside'
      /\ UNCHANGED <<ready, folks, reloads, map, posted, answered, during>>
      /\ crashed = "no" /\ thread[v] \notin {"none", "deleted"} /\ n < MaxDepth
  BY DEF ClientCloses, InLoop, Alive, Close, ViewsInv
<1>2. stack \in Seq(Frames) BY DEF TypeOK
<1>3. CASE Done(v)
  <2>1. /\ thread' = [thread EXCEPT ![v] = "deleted"] /\ crashed' = Freed(v)
        /\ stack' = stack /\ UNCHANGED <<cancelled, loop, overlapped>>
    BY <1>3 DEF ClientCloses, Close
  <2>2. KeepsWaits /\ AddsNone BY <2>1 DEF KeepsWaits, AddsNone
  <2>3. stack' \in Seq(Frames) /\ Len(stack') <= MaxDepth BY <2>1 DEF TypeOK
  <2> QED BY <1>1, <1>3, <2>1, <2>2, <2>3, ClosedInv DEF AddsNone
<1>4. CASE ~Done(v)
  <2>1. /\ cancelled' = cancelled \cup {v} /\ UNCHANGED <<thread, crashed>>
        /\ stack' = Append(stack, f)
        /\ loop' = [loop EXCEPT ![v] = Len(Append(stack, f))]
        /\ overlapped' = (overlapped \/ loop[v] > 0)
    BY <1>1, <1>4 DEF ClientCloses, Close, Wait
  <2>2. f \in Frames /\ f.view = v /\ f.waits /\ ~f.quit /\ f.kind = "close" /\ f.rest = {}
    BY DEF Frames, Waiting
  <2> HIDE DEF f
  <2>3. /\ stack' \in Seq(Frames) /\ Len(stack') = n + 1 /\ n \in Nat
        /\ DOMAIN stack = 1..n /\ DOMAIN stack' = 1..(n + 1)
        /\ stack'[n + 1] = f /\ \A i \in DOMAIN stack : stack'[i] = stack[i]
    BY <1>2, <2>1, <2>2, Pushed
  <2>4. loop' = [loop EXCEPT ![v] = n + 1] BY <2>1, <2>3
  <2>5. KeepsWaits BY <2>3 DEF KeepsWaits
  <2>6. n + 1 \in DOMAIN stack' /\ n + 1 \in 1..MaxDepth /\ Len(stack') <= MaxDepth
    BY <1>1, <2>3, BoundsAssumption
  <2>7. \A i \in DOMAIN stack' \ {n + 1} : i \in DOMAIN stack /\ stack'[i] = stack[i]
    BY <2>3
  <2>8. /\ stack'[n + 1].view = v /\ stack'[n + 1].waits /\ ~stack'[n + 1].quit
        /\ stack'[n + 1].kind # "call" /\ stack'[n + 1].kind # "unprepare"
        /\ \A w \in stack'[n + 1].rest : thread[w] # "none"
    BY <2>2, <2>3
  <2> HIDE DEF n
  <2> QED BY <1>1, <1>4, <2>1, <2>3, <2>4, <2>5, <2>6, <2>7, <2>8, ClosingInv
<1> QED BY <1>3, <1>4

\* unprepareFolks closes the next view.
LEMMA CloseNextInv ==
  ASSUME IInv, CloseNext
  PROVE  IInv'
<1> USE DEF IInv
<1> DEFINE n == Len(stack)  top == Last(stack)
<1>1. PICK v \in top.rest :
        Close(v, Append(Front(stack), Waiting("unprepare", v, top.rest \ {v})),
                 Append(Front(stack), Unpreparing(top.rest \ {v})))
  BY DEF CloseNext
<1>2. stack \in Seq(Frames) /\ stack # << >> /\ ~top.waits /\ crashed = "no"
      /\ UNCHANGED <<ready, reloads>>
  BY DEF TypeOK, CloseNext, InUnprepare, Alive
<1>3. top = stack[n] /\ top \in Frames /\ n \in Nat \ {0} /\ DOMAIN stack = 1..n
  BY <1>2, FrontFacts
<1>4. FrameOK(top) BY <1>3 DEF FramesInv
<1> DEFINE rest == top.rest \ {v}
<1> HIDE DEF top
<1>5. /\ v \in View /\ rest \subseteq View /\ thread[v] # "none"
      /\ \A w \in rest : thread[w] # "none"
      /\ views \subseteq rest \cup {v} \cup during
  BY <1>1, <1>2, <1>3, <1>4 DEF FrameOK, Frames
<1>6. /\ adaptor' = adaptor \ {v} /\ views' = views \ {v}
      /\ inside' \in {inside, inside \cup {v}}
      /\ \A i \in DOMAIN stack : stack[i].waits /\ stack[i].view = v => v \in inside'
      /\ UNCHANGED <<folks, map, posted, answered, during>>
  BY <1>1 DEF Close, ViewsInv
<1> HIDE DEF rest
<1>7. views' \subseteq rest \cup during BY <1>5, <1>6
<1>8. CASE Done(v) \/ thread[v] = "deleted"
  <2> DEFINE f == Unpreparing(rest)
  <2>1. /\ thread' = [thread EXCEPT ![v] = "deleted"] /\ crashed' = Freed(v)
        /\ stack' = Append(Front(stack), f) /\ UNCHANGED <<cancelled, loop, overlapped>>
    BY <1>1, <1>8 DEF Close, rest
  <2>2. f \in Frames /\ ~f.waits /\ f.kind = "unprepare" /\ f.rest = rest
    BY <1>5 DEF Frames, Unpreparing
  <2> HIDE DEF f
  <2>3. /\ stack' \in Seq(Frames) /\ Len(stack') = n /\ DOMAIN stack' = 1..n /\ stack'[n] = f
        /\ \A i \in 1..(n - 1) : stack'[i] = stack[i]
    BY <1>2, <2>1, <2>2, Replaced
  <2>4. KeepsWaits
    BY <1>2, <1>3, <2>3 DEF KeepsWaits
  <2>5. Len(stack') <= MaxDepth BY <2>3 DEF TypeOK
  <2>6. \A i \in DOMAIN stack' :
          \/ i \in DOMAIN stack /\ stack'[i] = stack[i]
          \/ /\ ~stack'[i].waits /\ stack'[i].kind = "unprepare"
             /\ views' \subseteq stack'[i].rest \cup during
             /\ \A w \in stack'[i].rest : thread[w] # "none"
    <3>1. \A i \in DOMAIN stack' : i = n \/ i \in 1..(n - 1) BY <1>3, <2>3
    <3>2. \A i \in 1..(n - 1) : i \in DOMAIN stack BY <1>3
    <3> QED BY <1>5, <1>7, <2>2, <2>3, <3>1, <3>2
  <2> QED BY <1>2, <1>5, <1>6, <1>8, <2>1, <2>3, <2>4, <2>5, <2>6, ClosedInv
<1>9. CASE ~(Done(v) \/ thread[v] = "deleted")
  <2> DEFINE f == Waiting("unprepare", v, rest)
  <2>1. /\ cancelled' = cancelled \cup {v} /\ UNCHANGED <<thread, crashed>>
        /\ stack' = Append(Front(stack), f)
        /\ loop' = [loop EXCEPT ![v] = Len(Append(Front(stack), f))]
        /\ overlapped' = (overlapped \/ loop[v] > 0)
    BY <1>1, <1>9 DEF Close, Wait, rest
  <2>2. f \in Frames /\ f.view = v /\ f.waits /\ ~f.quit /\ f.kind = "unprepare" /\ f.rest = rest
    BY <1>5 DEF Frames, Waiting
  <2> HIDE DEF f
  <2>3. /\ stack' \in Seq(Frames) /\ Len(stack') = n /\ DOMAIN stack' = 1..n /\ stack'[n] = f
        /\ \A i \in 1..(n - 1) : stack'[i] = stack[i]
    BY <1>2, <2>1, <2>2, Replaced
  <2>4. loop' = [loop EXCEPT ![v] = n] BY <2>1, <2>3
  <2>5. KeepsWaits
    BY <1>2, <1>3, <2>3 DEF KeepsWaits
  <2>6. n \in DOMAIN stack' /\ n \in 1..MaxDepth /\ Len(stack') <= MaxDepth
    BY <1>3, <2>3, BoundsAssumption DEF TypeOK
  <2>7. \A i \in DOMAIN stack' \ {n} : i \in DOMAIN stack /\ stack'[i] = stack[i]
    BY <1>3, <2>3
  <2>8. /\ stack'[n].view = v /\ stack'[n].waits /\ ~stack'[n].quit
        /\ stack'[n].kind = "unprepare" /\ stack'[n].kind # "call"
        /\ views' \subseteq stack'[n].rest \cup during
        /\ \A w \in stack'[n].rest : thread[w] # "none"
    BY <1>5, <1>7, <2>2, <2>3
  <2> HIDE DEF n
  <2> QED BY <1>2, <1>5, <1>6, <1>9, <2>1, <2>3, <2>4, <2>5, <2>6, <2>7, <2>8, ClosingInv
<1> QED BY <1>8, <1>9
-----------------------------------------------------------------------------
(***************************************************************************)
(* Calls that are told, and calls that end                                 *)
(***************************************************************************)

\* A loop of the stack is told to quit.
LEMMA Told ==
  ASSUME stack \in Seq(Frames), NEW k,
         stack' = [i \in DOMAIN stack |->
                     IF i \in {k} THEN [stack[i] EXCEPT !.quit = TRUE] ELSE stack[i]]
  PROVE  /\ stack' \in Seq(Frames) /\ Len(stack') = Len(stack)
         /\ DOMAIN stack' = DOMAIN stack
         /\ \A i \in DOMAIN stack : i # k => stack'[i] = stack[i]
         /\ \A i \in DOMAIN stack :
              /\ stack'[i].kind = stack[i].kind /\ stack'[i].view = stack[i].view
              /\ stack'[i].waits = stack[i].waits /\ stack'[i].rest = stack[i].rest
         /\ k \in DOMAIN stack => stack'[k].quit
<1>1. \A i \in DOMAIN stack : stack[i] \in Frames OBVIOUS
<1>2. ASSUME NEW f \in Frames
      PROVE  /\ [f EXCEPT !.quit = TRUE] \in Frames /\ [f EXCEPT !.quit = TRUE].quit
             /\ [f EXCEPT !.quit = TRUE].kind = f.kind /\ [f EXCEPT !.quit = TRUE].view = f.view
             /\ [f EXCEPT !.quit = TRUE].waits = f.waits
             /\ [f EXCEPT !.quit = TRUE].rest = f.rest
  BY DEF Frames
<1>3. DOMAIN stack' = DOMAIN stack OBVIOUS
<1>4. \A i \in DOMAIN stack :
        stack'[i] = IF i = k THEN [stack[i] EXCEPT !.quit = TRUE] ELSE stack[i]
  OBVIOUS
<1>5. \A i \in DOMAIN stack : stack'[i] \in Frames BY <1>1, <1>2, <1>4
<1>6. stack' \in Seq(Frames) /\ Len(stack') = Len(stack)
  <2>1. DOMAIN stack = 1..Len(stack) /\ Len(stack) \in Nat OBVIOUS
  <2>2. stack' \in [1..Len(stack) -> Frames] BY <1>5, <2>1
  <2> QED BY <2>1, <2>2
<1> QED BY <1>1, <1>2, <1>3, <1>4, <1>6

\* onFilterDone
LEMMA FilterDoneInv ==
  ASSUME IInv, NEW v \in View, FilterDone(v)
  PROVE  IInv'
<1> USE DEF IInv
<1> DEFINE k == loop[v]
<1>1. /\ v \in posted /\ posted' = posted \ {v} /\ crashed = "no"
      /\ stack' = [i \in DOMAIN stack |->
                     IF i \in {k} THEN [stack[i] EXCEPT !.quit = TRUE] ELSE stack[i]]
      /\ loop' = [loop EXCEPT ![v] = IF k \in {k} THEN 0 ELSE k]
      /\ UNCHANGED <<ready, folks, adaptor, views, reloads, thread, map, cancelled>>
      /\ UNCHANGED <<answered, crashed, overlapped, inside, during>>
      /\ thread[v] \in {"done", "deleted"}
  BY DEF FilterDone, FilterDoneOf, InLoop, Alive, historyVars, ViewsInv
<1>2. stack \in Seq(Frames) BY DEF TypeOK
<1>3. /\ stack' \in Seq(Frames) /\ Len(stack') = Len(stack)
      /\ DOMAIN stack' = DOMAIN stack
      /\ \A i \in DOMAIN stack : i # k => stack'[i] = stack[i]
      /\ \A i \in DOMAIN stack :
           /\ stack'[i].kind = stack[i].kind /\ stack'[i].view = stack[i].view
           /\ stack'[i].waits = stack[i].waits /\ stack'[i].rest = stack[i].rest
      /\ k \in DOMAIN stack => stack'[k].quit
  BY <1>1, <1>2, Told
<1>4. DOMAIN stack = 1..Len(stack) /\ Len(stack) \in Nat BY <1>2
<1>5. loop'[v] = 0 /\ \A w \in View \ {v} : loop'[w] = loop[w]
  BY <1>1 DEF TypeOK
<1>6. \A w \in View : loop[w] \in Nat /\ loop'[w] \in Nat BY <1>5, BoundsAssumption DEF TypeOK
<1>7. k > 0 => k \in DOMAIN stack /\ stack[k].view = v /\ stack[k].waits
  BY DEF LoopsAreThere
<1>8. \A i \in DOMAIN stack : i > 0 BY <1>4
<1>9. k \in DOMAIN stack => stack[k].view = v /\ stack[k].waits BY <1>6, <1>7, <1>8
<1> HIDE DEF k
<1>10. TypeOK'
  <2>1. loop' \in [View -> 0..MaxDepth] BY <1>1, BoundsAssumption DEF TypeOK
  <2>2. posted' \in SUBSET View BY <1>1 DEF TypeOK
  <2> QED BY <1>1, <1>3, <2>1, <2>2 DEF TypeOK
<1>11. LoopsAreThere'
  <2> SUFFICES ASSUME NEW w \in View, loop'[w] > 0
               PROVE  /\ loop'[w] \in DOMAIN stack' /\ stack'[loop'[w]].view = w
                      /\ stack'[loop'[w]].waits /\ ~stack'[loop'[w]].quit
    BY DEF LoopsAreThere
  <2>1. w # v /\ loop'[w] = loop[w] BY <1>5
  <2>2. loop[w] \in DOMAIN stack /\ stack[loop[w]].view = w
        /\ stack[loop[w]].waits /\ ~stack[loop[w]].quit
    BY <2>1 DEF LoopsAreThere
  <2>3. loop[w] # k BY <1>9, <2>1, <2>2
  <2> QED BY <1>3, <2>1, <2>2, <2>3
<1>12. FramesInv'
  <2>1. ASSUME NEW i \in DOMAIN stack PROVE FrameOK(stack[i])'
    <3>1. FrameOK(stack[i]) BY DEF FramesInv
    <3>2. stack'[i].quit => stack[i].quit \/ (stack[i].view = v /\ stack[i].waits)
      BY <1>3, <1>9
    <3>3. /\ stack'[i].kind = stack[i].kind /\ stack'[i].view = stack[i].view
          /\ stack'[i].waits = stack[i].waits /\ stack'[i].rest = stack[i].rest
      BY <1>3
    <3> QED BY <1>1, <3>1, <3>2, <3>3 DEF FrameOK
  <2> QED BY <1>3, <2>1 DEF FramesInv
<1>13. NoLostWakeup'
  <2> SUFFICES ASSUME ~overlapped', NEW i \in DOMAIN stack',
                      stack'[i].waits, ~stack'[i].quit, thread'[stack'[i].view] # "idle"
               PROVE  /\ loop'[stack'[i].view] = i
                      /\ thread'[stack'[i].view] \in {"done", "deleted"}
                           => stack'[i].view \in posted'
    BY DEF NoLostWakeup
  <2>1. i \in DOMAIN stack /\ i # k /\ stack'[i] = stack[i] BY <1>3
  <2>2. /\ loop[stack[i].view] = i
        /\ thread[stack[i].view] \in {"done", "deleted"} => stack[i].view \in posted
    BY <1>1, <2>1 DEF NoLostWakeup, Alive
  <2>3. stack[i].view \in View BY <2>1 DEF FramesInv, FrameOK
  <2>4. stack[i].view # v BY <2>1, <2>2 DEF k
  <2> QED BY <1>1, <1>5, <2>1, <2>2, <2>3, <2>4
<1>14. ViewsInv' /\ ReadsLiveMap'
  <2>1. \A w \in View : BeingClosed(w) => BeingClosed(w)' BY <1>3 DEF BeingClosed
  <2>2. ViewsInv' BY <1>1, <2>1 DEF ViewsInv
  <2>3. ReadsLiveMap' BY <1>1, <2>1 DEF ReadsLiveMap, Alive
  <2> QED BY <2>2, <2>3
<1> QED BY <1>10, <1>11, <1>12, <1>13, <1>14
\* The innermost loop returns, or an unprepareFolks that has nothing left to close: the view
\* of a loop that returns is not one whose filter may still read the map.
LEMMA EndedInv ==
  ASSUME IInv, crashed = "no", stack # << >>, TypeOK',
         UNCHANGED <<adaptor, loop, posted, overlapped, inside, during>>,
         UNCHANGED <<views, map>> \/ (views' = {} /\ views \subseteq during),
         NEW top \in Frames, top = Last(stack), top.waits => top.quit,
         \A w \in View : thread'[w] \in {thread[w], "deleted"},
         \A w \in View : thread'[w] = thread[w] \/ (thread[w] \in {"done", "deleted"} /\ w \notin adaptor),
         \A w \in View : map'[w] \in {map[w], "deleted"},
         (\E w \in View : map'[w] # map[w]) => views' = {} /\ \A w \in View : thread[w] # "scanning",
         crashed' = "no" \/ (crashed' = "result" /\ inside # {}),
         \/ stack' = Front(stack)
         \/ \E f \in Frames :
              /\ stack' = Append(Front(stack), f)
              /\ ~f.waits /\ f.kind = "unprepare" /\ f.rest = top.rest /\ top.kind = "unprepare"
  PROVE  IInv'
<1> USE DEF IInv
<1>1. stack \in Seq(Frames) BY DEF TypeOK
<1>2. PICK n \in Nat \ {0} : n = Len(stack) /\ DOMAIN stack = 1..n /\ stack[n] = top
  BY <1>1, FrontFacts
<1>3. /\ DOMAIN stack' \in {1..(n - 1), 1..n}
      /\ \A i \in 1..(n - 1) : i \in DOMAIN stack' /\ stack'[i] = stack[i]
      /\ n \in DOMAIN stack' => /\ ~stack'[n].waits /\ stack'[n].kind = "unprepare"
                                /\ stack'[n].rest = top.rest /\ top.kind = "unprepare"
  <2>1. CASE stack' = Front(stack)
    BY <1>1, <1>2, <2>1, Popped
  <2>2. CASE stack' # Front(stack)
    <3>1. PICK f \in Frames :
            /\ stack' = Append(Front(stack), f)
            /\ ~f.waits /\ f.kind = "unprepare" /\ f.rest = top.rest /\ top.kind = "unprepare"
      BY <2>2
    <3>2. /\ DOMAIN stack' = 1..n /\ stack'[n] = f
          /\ \A i \in 1..(n - 1) : stack'[i] = stack[i]
      BY <1>1, <1>2, <3>1, Replaced
    <3> QED BY <1>2, <3>1, <3>2
  <2> QED BY <2>1, <2>2
<1>4. \A i \in DOMAIN stack' : i \in 1..(n - 1) \/ i = n
  BY <1>2, <1>3
<1>5. \A i \in DOMAIN stack : i \in 1..(n - 1) \/ i = n
  BY <1>2
<1>6. \A i \in 1..(n - 1) : i \in DOMAIN stack
  BY <1>2
<1>7. LoopsAreThere'
  <2> SUFFICES ASSUME NEW w \in View, loop[w] > 0
               PROVE  /\ loop[w] \in DOMAIN stack' /\ stack'[loop[w]].view = w
                      /\ stack'[loop[w]].waits /\ ~stack'[loop[w]].quit
    BY DEF LoopsAreThere
  <2>1. loop[w] \in DOMAIN stack /\ stack[loop[w]].view = w
        /\ stack[loop[w]].waits /\ ~stack[loop[w]].quit
    BY DEF LoopsAreThere
  <2>2. loop[w] \in 1..(n - 1) BY <1>2, <1>5, <2>1
  <2> QED BY <1>3, <2>1, <2>2
<1>8. FramesInv'
  <2>1. views' \subseteq views OBVIOUS
  <2>2. ASSUME NEW f \in Frames, FrameOK(f) PROVE FrameOK(f)'
    <3>1. f.rest \subseteq View BY DEF Frames
    <3>2. \A w \in f.rest : thread'[w] # "none" BY <2>2, <3>1 DEF FrameOK
    <3>3. f.kind = "unprepare" => views' \subseteq f.rest \cup during BY <2>1, <2>2 DEF FrameOK
    <3>4. f.waits /\ f.quit => thread'[f.view] \in {"done", "deleted"}
      BY <2>2 DEF FrameOK
    <3> QED BY <2>2, <3>2, <3>3, <3>4 DEF FrameOK
  <2>3. ASSUME NEW i \in 1..(n - 1) PROVE FrameOK(stack[i])'
    BY <1>1, <1>3, <1>6, <2>2 DEF FramesInv
  <2>4. ASSUME n \in DOMAIN stack' PROVE FrameOK(stack[n])'
    <3>1. FrameOK(top) BY <1>2 DEF FramesInv
    <3>2. FrameOK(top)' BY <2>2, <3>1
    <3>3. /\ ~stack'[n].waits /\ stack'[n].kind = "unprepare"
          /\ stack'[n].rest = top.rest /\ top.kind = "unprepare"
      BY <1>3, <2>4
    <3> QED BY <3>2, <3>3 DEF FrameOK
  <2>5. ASSUME NEW i \in DOMAIN stack' PROVE FrameOK(stack[i])'
    <3>1. CASE i = n BY <2>4, <3>1
    <3>2. CASE i \in 1..(n - 1) BY <2>3, <3>2
    <3> QED BY <1>4, <3>1, <3>2
  <2> QED BY <2>5 DEF FramesInv
<1>9. NoLostWakeup'
  <2> SUFFICES ASSUME ~overlapped', NEW i \in DOMAIN stack',
                      stack'[i].waits, ~stack'[i].quit, thread'[stack'[i].view] # "idle"
               PROVE  /\ loop'[stack'[i].view] = i
                      /\ thread'[stack'[i].view] \in {"done", "deleted"}
                           => stack'[i].view \in posted'
    BY DEF NoLostWakeup
  <2>1. i \in DOMAIN stack /\ stack'[i] = stack[i] BY <1>3, <1>4, <1>6
  <2>2. stack[i].view \in View BY <2>1 DEF FramesInv, FrameOK
  <2> QED BY <2>1, <2>2 DEF NoLostWakeup, Alive
<1>10. ASSUME NEW w \in View, thread'[w] \in Early, BeingClosed(w)
       PROVE  BeingClosed(w)'
  <2>1. PICK i \in DOMAIN stack : stack[i].waits /\ stack[i].view = w /\ stack[i].kind # "call"
    BY <1>10 DEF BeingClosed
  <2>2. thread[w] \in Early BY <1>10 DEF Early
  <2>3. i # n BY <1>2, <2>1, <2>2 DEF FramesInv, FrameOK, Early
  <2> QED BY <1>3, <1>5, <2>1, <2>3 DEF BeingClosed
<1>11. ViewsInv'
  <2>1. \A w \in View : thread'[w] \in Early => thread[w] \in Early BY DEF Early
  <2>2. \A w \in View : thread'[w] \in Early => w \in views' \cup during \/ BeingClosed(w)'
    BY <1>10, <2>1 DEF ViewsInv
  <2>3. adaptor \subseteq View /\ posted \subseteq View BY DEF TypeOK
  <2> QED BY <2>2, <2>3 DEF ViewsInv
<1>12. ReadsLiveMap'
  <2>1. ASSUME NEW w \in View, thread'[w] \in Early, map'[w] = "deleted"
        PROVE  thread'[w] # "scanning" /\ (BeingClosed(w)' \/ w \in during)
    <3>1. thread[w] = thread'[w] BY <2>1 DEF Early
    <3>2. CASE map[w] = "deleted"
      BY <1>10, <2>1, <3>1, <3>2 DEF ReadsLiveMap, Alive, Early
    <3>3. CASE map'[w] # map[w]
      BY <1>10, <2>1, <3>1, <3>3 DEF ViewsInv
    <3> QED BY <2>1, <3>2, <3>3
  <2> QED BY <2>1 DEF ReadsLiveMap, Early, Alive
<1> QED BY <1>7, <1>8, <1>9, <1>11, <1>12
\* The innermost loop returns.
LEMMA ReturnInv ==
  ASSUME IInv, Return
  PROVE  IInv'
<1> USE DEF IInv
<1>1. stack \in Seq(Frames) /\ stack # << >> /\ crashed = "no"
      /\ UNCHANGED <<ready, folks, adaptor, views, loop, reloads>>
      /\ UNCHANGED <<map, cancelled, posted, overlapped, inside, during>>
  BY DEF TypeOK, Return, InLoop, Alive, historyVars
<1>2. PICK top \in Frames : top = Last(stack)
  BY <1>1, FrontFacts
<1>3. top.waits /\ top.quit
  BY <1>1, <1>2 DEF Return, InLoop
<1>4. PICK n \in Nat \ {0} : n = Len(stack) /\ DOMAIN stack = 1..n /\ stack[n] = top
  BY <1>1, <1>2, FrontFacts
<1>5. FrameOK(top) BY <1>4 DEF FramesInv
<1>6. top.view \in View /\ thread[top.view] \in {"done", "deleted"}
  BY <1>3, <1>5 DEF FrameOK
<1>7. CASE top.kind = "call"
  <2>1. /\ stack' = Front(stack) /\ UNCHANGED thread /\ answered' = answered \cup {top.view}
        /\ crashed' = IF thread[top.view] = "deleted" THEN "result" ELSE "no"
    BY <1>2, <1>7 DEF Return
  <2>2. thread[top.view] = "deleted" => top.view \in inside
    BY <1>3, <1>5, <1>7 DEF FrameOK, ViewsInv
  <2>3. TypeOK'
    <3>1. stack' \in Seq(Frames) /\ Len(stack') = n - 1 BY <1>1, <1>4, <2>1, Popped
    <3>2. Len(stack') <= MaxDepth BY <1>4, <3>1, BoundsAssumption DEF TypeOK
    <3> QED BY <1>1, <1>6, <2>1, <3>1, <3>2 DEF TypeOK
  <2> QED BY <1>1, <1>2, <1>3, <2>1, <2>2, <2>3, EndedInv
<1>8. CASE top.kind # "call"
  <2>1. /\ crashed' = Freed(top.view) /\ UNCHANGED answered
        /\ thread' = [thread EXCEPT ![top.view] = "deleted"]
        /\ \/ stack' = Front(stack)
           \/ top.kind = "unprepare" /\ stack' = Append(Front(stack), Unpreparing(top.rest))
    BY <1>2, <1>8 DEF Return
  <2>2. crashed' = "no" BY <1>6, <2>1 DEF Freed
  <2>3. /\ thread' \in [View -> Stages]
        /\ thread'[top.view] = "deleted" /\ \A w \in View \ {top.view} : thread'[w] = thread[w]
    BY <1>6, <2>1 DEF TypeOK, Stages
  <2>4. top.view \notin adaptor BY <1>3, <1>5, <1>8 DEF FrameOK
  <2>5. PICK f \in Frames : f = Unpreparing(top.rest)
    BY DEF Frames, Unpreparing
  <2>6. ~f.waits /\ f.kind = "unprepare" /\ f.rest = top.rest BY <2>5 DEF Unpreparing
  <2>7. TypeOK'
    <3>1. ASSUME stack' = Front(stack)
          PROVE  stack' \in Seq(Frames) /\ Len(stack') <= MaxDepth
      <4>1. stack' \in Seq(Frames) /\ Len(stack') = n - 1 BY <1>1, <1>4, <3>1, Popped
      <4> QED BY <1>4, <4>1, BoundsAssumption DEF TypeOK
    <3>2. ASSUME stack' = Append(Front(stack), f)
          PROVE  stack' \in Seq(Frames) /\ Len(stack') <= MaxDepth
      <4>1. stack' \in Seq(Frames) /\ Len(stack') = n BY <1>1, <1>4, <3>2, Replaced
      <4> QED BY <1>4, <4>1 DEF TypeOK
    <3>3. stack' \in Seq(Frames) /\ Len(stack') <= MaxDepth BY <2>1, <2>5, <3>1, <3>2
    <3> QED BY <1>1, <2>1, <2>2, <2>3, <3>3 DEF TypeOK
  <2>8. \/ stack' = Front(stack)
        \/ \E g \in Frames :
             /\ stack' = Append(Front(stack), g)
             /\ ~g.waits /\ g.kind = "unprepare" /\ g.rest = top.rest /\ top.kind = "unprepare"
    BY <2>1, <2>5, <2>6
  <2>9. /\ \A w \in View : thread'[w] \in {thread[w], "deleted"}
        /\ \A w \in View : thread'[w] = thread[w]
                           \/ (thread[w] \in {"done", "deleted"} /\ w \notin adaptor)
    BY <1>6, <2>3, <2>4
  <2> QED BY <1>1, <1>2, <1>3, <2>2, <2>7, <2>8, <2>9, EndedInv
<1> QED BY <1>7, <1>8

\* unprepareFolks begins.
LEMMA UnprepareInv ==
  ASSUME IInv, Unprepare
  PROVE  IInv'
<1> USE DEF IInv
<1>1. /\ Len(stack) < MaxDepth /\ reloads < MaxReloads /\ reloads' = reloads + 1
      /\ ready' = FALSE /\ stack' = Append(stack, Unpreparing(views))
      /\ UNCHANGED <<folks, adaptor, views, loop, thread, map, cancelled, posted>>
      /\ UNCHANGED <<answered, crashed, overlapped, inside, during>>
  BY DEF Unprepare, threadVars, historyVars
<1>2. PICK f \in Frames : f = Unpreparing(views)
  BY DEF Frames, Unpreparing, TypeOK
<1>3. ~f.waits /\ f.kind = "unprepare" /\ f.rest = views
  BY <1>2 DEF Unpreparing
<1>4. stack \in Seq(Frames) BY DEF TypeOK
<1>5. PICK n \in Nat : n = Len(stack) BY <1>4
<1>6. /\ stack' \in Seq(Frames) /\ Len(stack') = n + 1
      /\ DOMAIN stack = 1..n /\ DOMAIN stack' = 1..(n + 1)
      /\ stack'[n + 1] = f /\ \A i \in DOMAIN stack : stack'[i] = stack[i]
  BY <1>1, <1>2, <1>4, <1>5, Pushed
<1>7. \A i \in DOMAIN stack' : i \in DOMAIN stack \/ i = n + 1 BY <1>6
<1>8. \A i \in DOMAIN stack : i \in DOMAIN stack' BY <1>6
<1>9. TypeOK'
  <2>1. Len(stack') <= MaxDepth BY <1>1, <1>5, <1>6, BoundsAssumption
  <2>2. reloads' \in 0..MaxReloads BY <1>1, BoundsAssumption DEF TypeOK
  <2> QED BY <1>1, <1>6, <2>1, <2>2 DEF TypeOK
<1>10. LoopsAreThere' BY <1>1, <1>6, <1>8 DEF LoopsAreThere
<1>11. NoLostWakeup' BY <1>1, <1>3, <1>6, <1>7 DEF NoLostWakeup, Alive
<1>12. FramesInv'
  <2>1. \A g \in Frames : FrameOK(g) => FrameOK(g)' BY <1>1 DEF FrameOK
  <2>2. FrameOK(f)' BY <1>1, <1>3 DEF FrameOK, ViewsInv
  <2>3. \A i \in DOMAIN stack : stack[i] \in Frames BY <1>4
  <2>4. ASSUME NEW i \in DOMAIN stack' PROVE FrameOK(stack[i])'
    <3>1. CASE i = n + 1 BY <1>6, <2>2, <3>1
    <3>2. CASE i \in DOMAIN stack BY <1>6, <2>1, <2>3, <3>2 DEF FramesInv
    <3> QED BY <1>7, <3>1, <3>2
  <2> QED BY <2>4 DEF FramesInv
<1>13. ViewsInv' /\ ReadsLiveMap'
  <2>1. \A w \in View : BeingClosed(w) => BeingClosed(w)'
    BY <1>6, <1>8, ClosedStays DEF KeepsWaits
  <2>2. ViewsInv' BY <1>1, <2>1 DEF ViewsInv
  <2>3. ReadsLiveMap' BY <1>1, <2>1 DEF ReadsLiveMap, Alive
  <2> QED BY <2>2, <2>3
<1> QED BY <1>9, <1>10, <1>11, <1>12, <1>13

\* unprepareFolks deletes the map: only views queried inside it are left in m_views.
LEMMA DeleteMapInv ==
  ASSUME IInv, DeleteMap
  PROVE  IInv'
<1> USE DEF IInv
<1>1. /\ stack \in Seq(Frames) /\ stack # << >> /\ crashed = "no" /\ ~Last(stack).waits
      /\ Last(stack).rest = {} /\ views' = {} /\ folks' = "none" /\ stack' = Front(stack)
      /\ map' = [v \in View |-> IF map[v] = "live" THEN "deleted" ELSE map[v]]
      /\ UNCHANGED <<ready, adaptor, loop, reloads, thread, cancelled, posted>>
      /\ UNCHANGED <<answered, crashed, overlapped, inside, during>>
      /\ \A v \in View : thread[v] # "scanning"
  BY DEF TypeOK, DeleteMap, EndUnprepare, InUnprepare, Alive, historyVars
<1>2. PICK top \in Frames : top = Last(stack)
  BY <1>1, FrontFacts
<1>3. PICK n \in Nat \ {0} : n = Len(stack) /\ DOMAIN stack = 1..n /\ stack[n] = top
  BY <1>1, <1>2, FrontFacts
<1>4. FrameOK(top) BY <1>3 DEF FramesInv
<1>5. views \subseteq during BY <1>1, <1>2, <1>4 DEF FrameOK
<1>6. map' \in [View -> {"none", "live", "deleted"}] /\ \A w \in View : map'[w] \in {map[w], "deleted"}
  BY <1>1 DEF TypeOK
<1>7. TypeOK'
  <2>1. stack' \in Seq(Frames) /\ Len(stack') = n - 1 BY <1>1, <1>3, Popped
  <2>2. Len(stack') <= MaxDepth BY <1>3, <2>1, BoundsAssumption DEF TypeOK
  <2> QED BY <1>1, <1>6, <2>1, <2>2 DEF TypeOK
<1> QED BY <1>1, <1>2, <1>5, <1>6, <1>7, EndedInv

-----------------------------------------------------------------------------

\* Every step of the main thread and of the filters.
LEMMA NextInv ==
  ASSUME IInv, [Next]_vars
  PROVE  IInv'
<1> USE DEF IInv
<1>1. ASSUME NEW v \in View, Query(v) PROVE IInv' BY <1>1, QueryInv
<1>2. ASSUME NEW v \in View, Ask(v) PROVE IInv' BY <1>2, AskInv
<1>3. ASSUME NEW v \in View, Sort(v) PROVE IInv'
  <2>1. crashed = "no" /\ crashed' \in {"no", "sort"}
        /\ UNCHANGED <<mainVars, threadVars, answered, historyVars>>
    BY <1>3 DEF Sort, InLoop, Alive
  <2>2. TypeOK' BY <2>1 DEF TypeOK, mainVars, threadVars, historyVars
  <2> QED BY <2>1, <2>2, AsideInv DEF mainVars, threadVars
<1>4. ASSUME NEW v \in View, ClientCloses(v) PROVE IInv' BY <1>4, ClientClosesInv
<1>5. ASSUME NEW v \in View, FilterDone(v) PROVE IInv' BY <1>5, FilterDoneInv
<1>6. ASSUME NEW v \in View, ThreadStep(v) PROVE IInv' BY <1>6, ThreadStepInv
<1>7. CASE MainGoesOn
  BY <1>7, ReturnInv, CloseNextInv, DeleteMapInv DEF MainGoesOn
<1>8. CASE Unprepare BY <1>8, UnprepareInv
<1>9. CASE PrepareFolks \/ BecomeReady
  <2>1. /\ UNCHANGED <<adaptor, views, stack, loop, reloads, threadVars, answered, historyVars>>
        /\ crashed = "no" /\ crashed' = "no"
        /\ ready' \in BOOLEAN /\ folks' \in {"none", "preparing", "quiescent"}
    BY <1>9 DEF PrepareFolks, BecomeReady, InLoop, Alive, TypeOK
  <2>2. TypeOK' BY <2>1 DEF TypeOK, threadVars, historyVars
  <2> QED BY <2>1, <2>2, AsideInv DEF threadVars
<1>10. CASE UNCHANGED vars
  <2> USE <1>10 DEF vars, mainVars, threadVars, historyVars
  <2>1. TypeOK' BY DEF TypeOK
  <2>2. LoopsAreThere' BY DEF LoopsAreThere
  <2>3. NoLostWakeup' BY DEF NoLostWakeup, Alive
  <2>4. FramesInv' BY DEF FramesInv, FrameOK
  <2>5. ViewsInv' BY DEF ViewsInv, BeingClosed
  <2>6. ReadsLiveMap' BY DEF ReadsLiveMap, BeingClosed, Alive
  <2> QED BY <2>1, <2>2, <2>3, <2>4, <2>5, <2>6
<1> QED BY <1>1, <1>2, <1>3, <1>4, <1>5, <1>6, <1>7, <1>8, <1>9, <1>10 DEF Next

\* At the beginning nothing waits.
LEMMA InitInv == Init => IInv
<1> SUFFICES ASSUME Init PROVE IInv OBVIOUS
<1> USE DEF Init
<1>1. TypeOK
  <2>1. stack \in Seq(Frames) /\ Len(stack) <= MaxDepth BY BoundsAssumption
  <2>2. loop \in [View -> 0..MaxDepth] /\ reloads \in 0..MaxReloads BY BoundsAssumption
  <2>3. /\ thread \in [View -> Stages] /\ map \in [View -> {"none", "live", "deleted"}]
        /\ ready \in BOOLEAN /\ folks \in {"none", "preparing", "quiescent"}
    BY DEF Stages
  <2> QED BY <2>1, <2>2, <2>3 DEF TypeOK
<1>2. LoopsAreThere /\ NoLostWakeup /\ FramesInv
  <2>1. DOMAIN stack = {} OBVIOUS
  <2> QED BY <2>1 DEF LoopsAreThere, NoLostWakeup, FramesInv
<1>3. ViewsInv BY DEF ViewsInv, Early
<1>4. ReadsLiveMap BY DEF ReadsLiveMap
<1> QED BY <1>1, <1>2, <1>3, <1>4 DEF IInv

\* The inductive invariant holds throughout.
LEMMA Invariant == Spec => []IInv
<1>1. IInv /\ [Next]_vars => IInv' BY NextInv
<1> QED BY <1>1, InitInv, PTL DEF Spec

\* Whoever waits for a filter is woken by a pointer to a loop that is there, as long as no
\* other loop takes its place: View::waitFilter, View::onFilterDone, FilterThread::run.
THEOREM WaitersTheorem == Spec => []WaitersAreWoken
<1>1. IInv => WaitersAreWoken BY DEF IInv, WaitersAreWoken
<1> QED BY <1>1, Invariant, PTL

\* A filter reads a map that unprepareFolks has deleted only if its view is being closed
\* outside of unprepareFolks, or was queried inside of it; and the result of a filter is gone
\* when it is read only if the view was closed inside the wait for it.
THEOREM LiveMapTheorem == Spec => []ReadsLiveMap
<1>1. IInv => ReadsLiveMap BY DEF IInv
<1> QED BY <1>1, Invariant, PTL
=============================================================================
