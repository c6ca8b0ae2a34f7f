------------------------ MODULE WorkStealingProofs -------------------------
(***************************************************************************)
(* Proofs about the thread team, for every number of threads and leaves,   *)
(* every selection of victims and both modes: types, safety, refinement of *)
(* the pool of work, and that no sleeper is forgotten.                     *)
(***************************************************************************)
EXTENDS WorkStealing, FiniteSetTheorems, TLAPS

-----------------------------------------------------------------------------
(* Types *)

\* The types of the arguments of the helpers and of what they return.
LEMMA MoveToBackType ==
  ASSUME NEW list \in [1 .. M -> Thread], NEW t \in Thread
  PROVE  /\ MoveToBack(list, t) \in [1 .. M -> Thread]
         /\ MoveToBack(list, t)[1] \in Thread
<1>1. \A i \in 1 .. M : i # M => i + 1 \in 1 .. M
  BY MAssumption
<1>2. 1 \in 1 .. M
  BY MAssumption
<1> QED
  BY <1>1, <1>2 DEF MoveToBack

LEMMA LeftNeighbourType ==
  ASSUME NEW t \in Thread
  PROVE  LeftNeighbour(t) \in Thread
BY MAssumption DEF LeftNeighbour, Thread

LEMMA QueueTypes ==
  ASSUME TypeOK, NEW t \in Thread, requestQueue[t] # <<>>
  PROVE  /\ Head(requestQueue[t]) \in Thread
         /\ Tail(requestQueue[t]) \in Seq(Thread)
BY DEF TypeOK

LEMMA TailsSubset ==
  ASSUME NEW S, NEW R \in Tails(S)
  PROVE  R \subseteq S
BY DEF Tails

\* The locations, so that Location itself can stay folded.
LEMMA Locations ==
  /\ "start" \in Location /\ "atStart" \in Location /\ "next" \in Location /\ "working" \in Location
  /\ "serve" \in Location /\ "share" \in Location /\ "uncount" \in Location /\ "wake" \in Location
  /\ "idle" \in Location /\ "count" \in Location /\ "drain" \in Location /\ "cancel" \in Location
  /\ "release" \in Location /\ "select" \in Location /\ "uncountSelf" \in Location /\ "clear" \in Location
  /\ "push" \in Location /\ "check" \in Location /\ "asleep" \in Location /\ "loopTest" \in Location
  /\ "stop" \in Location /\ "unlock" \in Location /\ "atEnd" \in Location /\ "done" \in Location
  /\ "fatal" \in Location
BY DEF Location

LEMMA PullRequestType ==
  ASSUME TypeOK, NEW t \in Thread, NEW l \in Location, pull_request(t, l)
  PROVE  TypeOK'
<1>1. UNCHANGED <<todo, explored, got_work, receivedWork, victim, cursor, allEnd,
                  end_counter, counted, victim_list>>
  BY DEF pull_request, work, control, signals
<1>2. pc' \in [Thread -> Location]
  BY Locations DEF pull_request, GoTo, TypeOK
<1>3. /\ requestQueue' \in [Thread -> Seq(Thread)]
      /\ thief' \in [Thread -> Thread]
  <2>1. requestQueue[t] # <<>>
    BY DEF pull_request
  <2> QED
    BY <2>1, QueueTypes DEF pull_request, TypeOK
<1> QED
  BY <1>1, <1>2, <1>3 DEF TypeOK

LEMMA NoRequestType ==
  ASSUME TypeOK, NEW t \in Thread, NEW l \in Location, NoRequest(t, l)
  PROVE  TypeOK'
<1>1. UNCHANGED <<todo, explored, got_work, receivedWork, requestQueue, thief, victim,
                  cursor, allEnd, end_counter, counted, victim_list>>
  BY DEF NoRequest, work, control, locals, signals
<1>2. pc' \in [Thread -> Location]
  BY DEF NoRequest, GoTo, TypeOK
<1> QED
  BY <1>1, <1>2 DEF TypeOK

\* The variables have their types in every state.
THEOREM TypeCorrect == Spec => []TypeOK
<1>1. Init => TypeOK
  <2> SUFFICES ASSUME Init PROVE TypeOK
    OBVIOUS
  <2> USE MAssumption
  <2>1. todo \in [Thread -> SUBSET Leaf]
    BY DEF Init, InitFullInterval, InitFromFac
  <2>2. got_work \in [Thread -> BOOLEAN]
    BY DEF Init, InitFullInterval, InitFromFac
  <2>3. victim_list \in [1 .. M -> Thread]
    BY DEF Init, InitFullInterval, InitFromFac, ListsFor, Thread
  <2>4. pc \in [Thread -> Location]
    BY Locations DEF Init
  <2>5. /\ requestQueue \in [Thread -> Seq(Thread)]
        /\ thief \in [Thread -> Thread]
        /\ victim \in [Thread -> Thread]
        /\ cursor \in [Thread -> 0 .. M]
        /\ receivedWork \in [Thread -> BOOLEAN]
    BY DEF Init
  <2> QED
    <3>1. explored \subseteq Leaf /\ counted \subseteq Thread /\ end_counter \in Int
      BY DEF Init
    <3>2. allEnd \in BOOLEAN
      BY Zenon DEF Init
    <3> QED
      BY <2>1, <2>2, <2>3, <2>4, <2>5, <3>1, <3>2 DEF TypeOK
<1>2. TypeOK /\ [Next]_vars => TypeOK'
  <2> SUFFICES ASSUME TypeOK, [Next]_vars PROVE TypeOK'
    OBVIOUS
  <2>1. ASSUME NEW t \in Thread, reset_requestQueue(t) PROVE TypeOK'
    <3>1. UNCHANGED <<todo, explored, got_work, receivedWork, thief, victim,
                     cursor, allEnd, end_counter, counted, victim_list>>
      BY <2>1 DEF reset_requestQueue, work, control, locals, signals
    <3>2. pc' \in [Thread -> Location]
      BY <2>1, Locations DEF reset_requestQueue, TypeOK, GoTo
    <3>3. requestQueue' \in [Thread -> Seq(Thread)]
      BY <2>1 DEF reset_requestQueue, TypeOK
    <3> QED
      BY <3>1, <3>2, <3>3 DEF TypeOK
  <2>2. CASE StartBarrier
    <3>1. UNCHANGED <<todo, explored, got_work, requestQueue, receivedWork,
                     thief, victim, cursor, allEnd, end_counter, counted,
                     victim_list>>
      BY <2>2 DEF StartBarrier, work, control, locals, signals
    <3>2. pc' \in [Thread -> Location]
      BY <2>2, Locations DEF StartBarrier, TypeOK, GoTo
    <3> QED
      BY <3>1, <3>2 DEF TypeOK
  <2>3. ASSUME NEW t \in Thread, next(t) PROVE TypeOK'
    <3>1. UNCHANGED <<got_work, requestQueue, receivedWork, thief, victim,
                     cursor, allEnd, end_counter, counted, victim_list>>
      BY <2>3 DEF next, Tails, work, control, locals, signals
    <3>2. pc' \in [Thread -> Location]
      BY <2>3, Locations DEF next, Tails, TypeOK, GoTo
    <3>3. todo' \in [Thread -> SUBSET Leaf]
      BY <2>3 DEF next, Tails, TypeOK
    <3>4. explored' \subseteq Leaf
      BY <2>3 DEF next, Tails, TypeOK
    <3> QED
      BY <3>1, <3>2, <3>3, <3>4 DEF TypeOK
  <2>4. ASSUME NEW t \in Thread, set_workState(t) PROVE TypeOK'
    <3>1. UNCHANGED <<todo, explored, requestQueue, receivedWork, thief,
                     victim, cursor, allEnd, end_counter, counted,
                     victim_list>>
      BY <2>4 DEF set_workState, work, control, locals, signals
    <3>2. pc' \in [Thread -> Location]
      BY <2>4, Locations DEF set_workState, TypeOK, GoTo
    <3>3. got_work' \in [Thread -> BOOLEAN]
      BY <2>4 DEF set_workState, TypeOK
    <3> QED
      BY <3>1, <3>2, <3>3 DEF TypeOK
  <2>5. ASSUME NEW t \in Thread, try_answer_request(t) PROVE TypeOK'
    BY <2>5, PullRequestType, NoRequestType, Locations DEF try_answer_request
  <2>6. ASSUME NEW t \in Thread, work_share(t) PROVE TypeOK'
    <3>1. UNCHANGED <<explored, got_work, requestQueue, receivedWork, thief,
                     victim, cursor, allEnd, end_counter, counted,
                     victim_list>>
      BY <2>6 DEF work_share, Tails, work, control, locals, signals
    <3>2. pc' \in [Thread -> Location]
      <4>1. pc' = [pc EXCEPT ![t] = "fatal"] \/ pc' = [pc EXCEPT ![t] = "uncount"]
        BY <2>6 DEF work_share, GoTo
      <4> QED
        BY <4>1, Locations DEF TypeOK
    <3>3. todo' \in [Thread -> SUBSET Leaf]
      <4>1. CASE todo' = todo
        BY <4>1 DEF TypeOK
      <4>2. ASSUME NEW part \in Tails(todo[t]),
                   todo' = [todo EXCEPT ![t] = @ \ part, ![thief[t]] = part]
            PROVE  todo' \in [Thread -> SUBSET Leaf]
        BY <4>2, TailsSubset DEF TypeOK
      <4> QED
        BY <2>6, <4>1, <4>2 DEF work_share
    <3> QED
      BY <3>1, <3>2, <3>3 DEF TypeOK
  <2>7. ASSUME NEW t \in Thread, Uncount(t) PROVE TypeOK'
    <3>1. UNCHANGED <<todo, explored, got_work, requestQueue, receivedWork,
                     thief, victim, cursor, allEnd, victim_list>>
      BY <2>7 DEF Uncount, counter_decrement, work, control, locals, signals
    <3>2. pc' \in [Thread -> Location]
      BY <2>7, Locations DEF Uncount, counter_decrement, TypeOK, GoTo
    <3>3. end_counter' \in Int
      BY <2>7 DEF Uncount, counter_decrement, TypeOK
    <3>4. counted' \subseteq Thread
      BY <2>7 DEF Uncount, counter_decrement, TypeOK
    <3> QED
      BY <3>1, <3>2, <3>3, <3>4 DEF TypeOK
  <2>8. ASSUME NEW t \in Thread, Wake(t, "wake", "loopTest") PROVE TypeOK'
    <3>1. UNCHANGED <<todo, explored, got_work, requestQueue, thief, victim,
                     cursor, allEnd, end_counter, counted, victim_list>>
      BY <2>8 DEF Wake, Signal, work, control, locals, signals
    <3>2. pc' \in [Thread -> Location]
      BY <2>8, Locations DEF Wake, Signal, TypeOK, GoTo
    <3>3. receivedWork' \in [Thread -> BOOLEAN]
      BY <2>8 DEF Wake, Signal, TypeOK
    <3> QED
      BY <3>1, <3>2, <3>3 DEF TypeOK
  <2>9. ASSUME NEW t \in Thread, LoopTest(t) PROVE TypeOK'
    <3>1. UNCHANGED <<todo, explored, got_work, requestQueue, receivedWork,
                     thief, victim, cursor, allEnd, end_counter, counted,
                     victim_list>>
      BY <2>9 DEF LoopTest, work, control, locals, signals
    <3>2. pc' \in [Thread -> Location]
      BY <2>9, Locations DEF LoopTest, TypeOK, GoTo
    <3> QED
      BY <3>1, <3>2 DEF TypeOK
  <2>10. ASSUME NEW t \in Thread, GoIdle(t) PROVE TypeOK'
    <3>1. UNCHANGED <<todo, explored, requestQueue, receivedWork, thief,
                     victim, cursor, allEnd, end_counter, counted,
                     victim_list>>
      BY <2>10 DEF GoIdle, work, control, locals, signals
    <3>2. pc' \in [Thread -> Location]
      BY <2>10, Locations DEF GoIdle, TypeOK, GoTo
    <3>3. got_work' \in [Thread -> BOOLEAN]
      BY <2>10 DEF GoIdle, TypeOK
    <3> QED
      BY <3>1, <3>2, <3>3 DEF TypeOK
  <2>11. ASSUME NEW t \in Thread, counter_increment(t) PROVE TypeOK'
    <3>1. UNCHANGED <<todo, explored, got_work, requestQueue, receivedWork,
                     thief, victim, cursor, victim_list>>
      BY <2>11 DEF counter_increment, work, control, locals, signals
    <3>2. pc' \in [Thread -> Location]
      BY <2>11, Locations DEF counter_increment, TypeOK, GoTo
    <3>3. allEnd' \in BOOLEAN
      BY <2>11 DEF counter_increment, TypeOK
    <3>4. end_counter' \in Int
      BY <2>11 DEF counter_increment, TypeOK
    <3>5. counted' \subseteq Thread
      BY <2>11 DEF counter_increment, TypeOK
    <3> QED
      BY <3>1, <3>2, <3>3, <3>4, <3>5 DEF TypeOK
  <2>12. ASSUME NEW t \in Thread, Drain(t) PROVE TypeOK'
    BY <2>12, PullRequestType, NoRequestType, Locations DEF Drain
  <2>13. ASSUME NEW t \in Thread, Cancel(t) PROVE TypeOK'
    <3>1. UNCHANGED <<todo, explored, got_work, requestQueue, receivedWork,
                     thief, victim, cursor, allEnd, victim_list>>
      BY <2>13 DEF Cancel, counter_decrement, work, control, locals, signals
    <3>2. pc' \in [Thread -> Location]
      BY <2>13, Locations DEF Cancel, counter_decrement, TypeOK, GoTo
    <3>3. end_counter' \in Int
      BY <2>13 DEF Cancel, counter_decrement, TypeOK
    <3>4. counted' \subseteq Thread
      BY <2>13 DEF Cancel, counter_decrement, TypeOK
    <3> QED
      BY <3>1, <3>2, <3>3, <3>4 DEF TypeOK
  <2>14. ASSUME NEW t \in Thread, Wake(t, "release", "drain") PROVE TypeOK'
    <3>1. UNCHANGED <<todo, explored, got_work, requestQueue, thief, victim,
                     cursor, allEnd, end_counter, counted, victim_list>>
      BY <2>14 DEF Wake, Signal, work, control, locals, signals
    <3>2. pc' \in [Thread -> Location]
      BY <2>14, Locations DEF Wake, Signal, TypeOK, GoTo
    <3>3. receivedWork' \in [Thread -> BOOLEAN]
      BY <2>14 DEF Wake, Signal, TypeOK
    <3> QED
      BY <3>1, <3>2, <3>3 DEF TypeOK
  <2>15. ASSUME NEW t \in Thread, select_victim(t) PROVE TypeOK'
    <3>1. UNCHANGED <<todo, explored, got_work, requestQueue, receivedWork,
                     thief, cursor, allEnd, end_counter, counted>>
      BY <2>15 DEF select_victim, SelectFrom, work, control, locals, signals
    <3>2. pc' \in [Thread -> Location]
      <4>1. \E v : SelectFrom(t, v)
        BY <2>15 DEF select_victim
      <4> QED
        BY <4>1, Locations DEF SelectFrom, GoTo, TypeOK
    <3>3. victim' \in [Thread -> Thread]
      <4>1. \E v \in Thread : SelectFrom(t, v)
        BY <2>15, MoveToBackType, LeftNeighbourType DEF select_victim, TypeOK
      <4> QED
        BY <4>1 DEF SelectFrom, TypeOK
    <3>4. victim_list' \in [1 .. M -> Thread]
      <4>1. MoveToBack(victim_list, t) \in [1 .. M -> Thread]
        BY MoveToBackType DEF TypeOK
      <4>2. victim_list' = victim_list \/ victim_list' = MoveToBack(victim_list, t)
        BY <2>15 DEF select_victim
      <4> QED
        BY <4>1, <4>2 DEF TypeOK
    <3> QED
      BY <3>1, <3>2, <3>3, <3>4 DEF TypeOK
  <2>16. ASSUME NEW t \in Thread, UncountSelf(t) PROVE TypeOK'
    <3>1. UNCHANGED <<todo, explored, got_work, requestQueue, receivedWork,
                     thief, victim, cursor, allEnd, victim_list>>
      BY <2>16 DEF UncountSelf, counter_decrement, work, control, locals, signals
    <3>2. pc' \in [Thread -> Location]
      BY <2>16, Locations DEF UncountSelf, counter_decrement, TypeOK, GoTo
    <3>3. end_counter' \in Int
      BY <2>16 DEF UncountSelf, counter_decrement, TypeOK
    <3>4. counted' \subseteq Thread
      BY <2>16 DEF UncountSelf, counter_decrement, TypeOK
    <3> QED
      BY <3>1, <3>2, <3>3, <3>4 DEF TypeOK
  <2>17. ASSUME NEW t \in Thread, ClearReceived(t) PROVE TypeOK'
    <3>1. UNCHANGED <<todo, explored, got_work, requestQueue, thief, victim,
                     cursor, allEnd, end_counter, counted, victim_list>>
      BY <2>17 DEF ClearReceived, work, control, locals, signals
    <3>2. pc' \in [Thread -> Location]
      BY <2>17, Locations DEF ClearReceived, TypeOK, GoTo
    <3>3. receivedWork' \in [Thread -> BOOLEAN]
      BY <2>17 DEF ClearReceived, TypeOK
    <3> QED
      BY <3>1, <3>2, <3>3 DEF TypeOK
  <2>18. ASSUME NEW t \in Thread, push_request(t) PROVE TypeOK'
    <3>1. UNCHANGED <<todo, explored, got_work, receivedWork, thief, victim,
                     cursor, allEnd, end_counter, counted, victim_list>>
      BY <2>18 DEF push_request, work, control, locals, signals
    <3>2. pc' \in [Thread -> Location]
      BY <2>18, Locations DEF push_request, TypeOK, GoTo
    <3>3. requestQueue' \in [Thread -> Seq(Thread)]
      BY <2>18 DEF push_request, TypeOK
    <3> QED
      BY <3>1, <3>2, <3>3 DEF TypeOK
  <2>19. ASSUME NEW t \in Thread, AwaitWork(t) PROVE TypeOK'
    <3>1. UNCHANGED <<todo, explored, got_work, requestQueue, receivedWork,
                     thief, victim, cursor, allEnd, end_counter, counted,
                     victim_list>>
      BY <2>19 DEF AwaitWork, work, control, locals, signals
    <3>2. pc' \in [Thread -> Location]
      BY <2>19, Locations DEF AwaitWork, TypeOK, GoTo
    <3> QED
      BY <3>1, <3>2 DEF TypeOK
  <2>20. ASSUME NEW t \in Thread, SpuriousWakeup(t) PROVE TypeOK'
    <3>1. UNCHANGED <<todo, explored, got_work, requestQueue, receivedWork,
                     thief, victim, cursor, allEnd, end_counter, counted,
                     victim_list>>
      BY <2>20 DEF SpuriousWakeup, work, control, locals, signals
    <3>2. pc' \in [Thread -> Location]
      BY <2>20, Locations DEF SpuriousWakeup, TypeOK, GoTo
    <3> QED
      BY <3>1, <3>2 DEF TypeOK
  <2>21. ASSUME NEW t \in Thread, StoreAllEnd(t) PROVE TypeOK'
    <3>1. UNCHANGED <<todo, explored, got_work, requestQueue, receivedWork,
                     thief, victim, end_counter, counted, victim_list>>
      BY <2>21 DEF StoreAllEnd, work, control, locals, signals
    <3>2. pc' \in [Thread -> Location]
      BY <2>21, Locations DEF StoreAllEnd, TypeOK, GoTo
    <3>3. allEnd' \in BOOLEAN
      BY <2>21 DEF StoreAllEnd, TypeOK
    <3>4. cursor' \in [Thread -> 0 .. M]
      BY <2>21, MAssumption DEF StoreAllEnd, TypeOK
    <3> QED
      BY <3>1, <3>2, <3>3, <3>4 DEF TypeOK
  <2>22. ASSUME NEW t \in Thread, unlockWaiting(t) PROVE TypeOK'
    <3>1. UNCHANGED <<todo, explored, got_work, requestQueue, thief, victim,
                     allEnd, end_counter, counted, victim_list>>
      BY <2>22 DEF unlockWaiting, Signal, work, control, locals, signals
    <3>2. pc' \in [Thread -> Location]
      <4>1. pc' = pc \/ (\E l \in Location : pc' = [pc EXCEPT ![t] = l])
              \/ \E u, m \in Location :
                   pc' = [pc EXCEPT ![cursor[t]] = u, ![t] = m]
        <5>1. CASE cursor[t] = M \/ cursor[t] = t
          BY <2>22, <5>1, Locations DEF unlockWaiting, GoTo
        <5>2. CASE cursor[t] # M /\ cursor[t] # t
          <6>1. cursor[t] \in Thread
            BY <5>2, MAssumption DEF TypeOK, Thread
          <6>2. pc' = [pc EXCEPT ![cursor[t]] = IF @ = "asleep" THEN "check" ELSE @,
                                 ![t] = "unlock"]
            BY <2>22, <5>2 DEF unlockWaiting, Signal
          <6> QED
            BY <6>1, <6>2, Locations DEF TypeOK
        <5> QED
          BY <5>1, <5>2
      <4> QED
        BY <4>1 DEF TypeOK
    <3>3. receivedWork' \in [Thread -> BOOLEAN]
      BY <2>22 DEF unlockWaiting, Signal, TypeOK
    <3>4. cursor' \in [Thread -> 0 .. M]
      <4>1. cursor[t] # M => cursor[t] + 1 \in 0 .. M
        BY MAssumption DEF TypeOK
      <4> QED
        BY <2>22, <4>1 DEF unlockWaiting, TypeOK
    <3> QED
      BY <3>1, <3>2, <3>3, <3>4 DEF TypeOK
  <2>23. CASE EndBarrier
    <3>1. UNCHANGED <<todo, explored, got_work, requestQueue, receivedWork,
                     thief, victim, cursor, allEnd, end_counter, counted,
                     victim_list>>
      BY <2>23 DEF EndBarrier, work, control, locals, signals
    <3>2. pc' \in [Thread -> Location]
      BY <2>23, Locations DEF EndBarrier, TypeOK, GoTo
    <3> QED
      BY <3>1, <3>2 DEF TypeOK
  <2>24. CASE NextRound
    <3>1. UNCHANGED <<explored, got_work, requestQueue, receivedWork, thief,
                     victim, cursor>>
      BY <2>24 DEF NextRound, ListsFor, Left, work, control, locals, signals
    <3>2. pc' \in [Thread -> Location]
      BY <2>24, Locations DEF NextRound, ListsFor, Left, TypeOK, GoTo
    <3>3. todo' \in [Thread -> SUBSET Leaf]
      <4>1. CASE todo' = todo
        BY <4>1 DEF TypeOK
      <4>2. ASSUME NEW owner, todo' = [t \in Thread |-> {x \in Left : owner[x] = t}]
            PROVE  todo' \in [Thread -> SUBSET Leaf]
        <5>1. Left \subseteq Leaf
          BY DEF Left, TypeOK
        <5> QED
          BY <4>2, <5>1
      <4> QED
        BY <2>24, <4>1, <4>2 DEF NextRound
    <3>4. victim_list' \in [1 .. M -> Thread]
      BY <2>24 DEF NextRound, ListsFor, Left, TypeOK
    <3>5. end_counter' \in Int
      BY <2>24 DEF NextRound, ListsFor, Left, TypeOK
    <3>6. counted' \subseteq Thread
      BY <2>24 DEF NextRound, ListsFor, Left, TypeOK
    <3>7. allEnd' \in BOOLEAN
      BY <2>24 DEF NextRound, ListsFor, Left, TypeOK
    <3> QED
      BY <3>1, <3>2, <3>3, <3>4, <3>5, <3>6, <3>7 DEF TypeOK
  <2>25. CASE Terminated \/ UNCHANGED vars
    BY <2>25 DEF Terminated, vars, TypeOK
  <2> QED
    BY <2>1, <2>2, <2>3, <2>4, <2>5, <2>6, <2>7, <2>8, <2>9, <2>10, <2>11,
       <2>12, <2>13, <2>14, <2>15, <2>16, <2>17, <2>18, <2>19, <2>20,
       <2>21, <2>22, <2>23, <2>24, <2>25
    DEF Next, Step
<1> QED
  BY <1>1, <1>2, PTL DEF Spec

-----------------------------------------------------------------------------
(* The inductive invariant *)

\* The request of u is queued at v.
Queued(u, v) == \E i \in 1 .. Len(requestQueue[v]) : requestQueue[v][i] = u

\* v has pulled u's request, and u is still in the counter, resp. is not.
Serving(v) == pc[v] \in {"share", "uncount", "cancel"}
Waking(v) == pc[v] \in {"wake", "release"}
Held(u, v) == (Serving(v) \/ Waking(v)) /\ thief[v] = u

\* Where a thread may stand whose request is still with its victim.
Waits(u) ==
  \/ pc[u] \in {"check", "asleep"} /\ (~allEnd => ~receivedWork[u])
  \/ allEnd /\ pc[u] \in {"loopTest", "stop", "unlock", "atEnd", "done"}

Requested(u, v) ==
  u # v /\ victim[u] = v /\ Waits(u) /\ ~got_work[u]

\* Every request stands for a waiting thread, at the place it was sent to.
QueueInv ==
  \A v \in Thread : pc[v] # "start" =>
    /\ \A i \in 1 .. Len(requestQueue[v]) :
         /\ Requested(requestQueue[v][i], v)
         /\ requestQueue[v][i] \in counted
    /\ \A i, j \in 1 .. Len(requestQueue[v]) :
         requestQueue[v][i] = requestQueue[v][j] => i = j

HeldInv ==
  \A v \in Thread : Serving(v) \/ Waking(v) =>
    /\ Requested(thief[v], v)
    /\ ~Queued(thief[v], v)
    /\ Serving(v) <=> thief[v] \in counted

\* Who is in the counter, and who is not.
CountInv ==
  /\ end_counter = Cardinality(counted)
  /\ \A t \in Thread :
       /\ pc[t] \in {"start", "atStart", "next", "working", "serve", "share",
                     "uncount", "wake", "idle", "count"} => t \notin counted
       /\ pc[t] = "loopTest" /\ ~allEnd => t \notin counted
       /\ pc[t] \in {"drain", "cancel", "release", "select", "uncountSelf",
                     "clear", "push"} => t \in counted
       /\ pc[t] \in {"check", "asleep"} /\ ~allEnd /\ receivedWork[t]
            => t \notin counted

\* A thread that is out of work says so and has none.
IdleInv ==
  \A t \in Thread :
    /\ pc[t] \in {"count", "drain", "cancel", "release", "select", "uncountSelf",
                  "clear", "push"} => ~got_work[t]
    /\ pc[t] \in {"idle", "count", "drain", "cancel", "release", "select",
                  "uncountSelf", "clear", "push"} => todo[t] = {}

\* A thread that is counted has no work, unless its victim has just handed it
\* some and is about to take it out of the counter.
HandedInv ==
  \A t \in counted : todo[t] # {} =>
    \E v \in Thread : pc[v] = "uncount" /\ thief[v] = t

\* A thread that is about to make a request does not make it to itself, and has
\* no signal left from an earlier one.
VictimInv ==
  \A t \in Thread :
    /\ pc[t] \in {"clear", "push"} => victim[t] # t
    /\ pc[t] = "push" /\ ~allEnd => ~receivedWork[t]

\* Who has left the loop.
EndInv ==
  /\ \A t \in Thread : pc[t] \in {"unlock", "atEnd", "done"} => allEnd
  /\ singleNode /\ (\E t \in Thread : pc[t] = "stop") => allEnd

\* The inductive invariant, apart from the types.
IInv ==
  /\ NoFatalExit
  /\ QueueInv
  /\ HeldInv
  /\ CountInv
  /\ IdleInv
  /\ HandedInv
  /\ VictimInv
  /\ EndInv
  /\ TerminationSound
  /\ WorkConserved

-----------------------------------------------------------------------------
(* Facts that the proofs of the steps share. *)

\* The team is finite, and so are its parts.
LEMMA TeamFinite ==
  /\ IsFiniteSet(Thread)
  /\ Cardinality(Thread) = M
BY MAssumption, FS_Interval DEF Thread

\* So is the set of threads that are counted.
LEMMA CountedFinite ==
  ASSUME TypeOK
  PROVE  IsFiniteSet(counted)
BY TeamFinite, FS_Subset DEF TypeOK

\* Queues that are not touched are well-formed as long as the threads in them
\* go on waiting.
LEMMA KeepQueue ==
  ASSUME TypeOK, QueueInv, requestQueue' = requestQueue,
         \A v \in Thread : pc[v] = "start" => pc'[v] = "start",
         \A u, v \in Thread :
           pc[v] # "start" /\ Requested(u, v) /\ u \in counted /\ Queued(u, v)
             => Requested(u, v)' /\ u \in counted'
  PROVE  QueueInv'
<1> SUFFICES ASSUME NEW v \in Thread, pc'[v] # "start"
             PROVE  /\ \A i \in 1 .. Len(requestQueue[v]) :
                         /\ Requested(requestQueue[v][i], v)'
                         /\ requestQueue[v][i] \in counted'
                    /\ \A i, j \in 1 .. Len(requestQueue[v]) :
                         requestQueue[v][i] = requestQueue[v][j] => i = j
  BY DEF QueueInv, Requested, Waits
<1>1. \A i \in 1 .. Len(requestQueue[v]) :
        /\ requestQueue[v][i] \in Thread
        /\ Queued(requestQueue[v][i], v)
  BY DEF TypeOK, Queued
<1>2. pc[v] # "start"
  OBVIOUS
<1> QED
  BY <1>1, <1>2 DEF QueueInv

\* Work is handed over in one go as far as the counter can tell, as long as
\* nobody is added to it and nobody who hands work over is disturbed.
LEMMA KeepHanded ==
  ASSUME TypeOK, HandedInv, counted' \subseteq counted,
         \A t \in counted' : todo'[t] # {} => todo[t] # {},
         \A v \in Thread : pc[v] = "uncount" /\ thief[v] \in counted' =>
                             pc'[v] = "uncount" /\ thief'[v] = thief[v]
  PROVE  HandedInv'
<1> SUFFICES ASSUME NEW t \in counted', todo'[t] # {}
             PROVE  \E v \in Thread : pc'[v] = "uncount" /\ thief'[v] = t
  BY DEF HandedInv
<1>1. PICK v \in Thread : pc[v] = "uncount" /\ thief[v] = t
  BY DEF HandedInv
<1> QED
  BY <1>1

\* A request that has been pulled is in no queue.
LEMMA HeldNotQueued ==
  ASSUME TypeOK, QueueInv, HeldInv, NEW v \in Thread, Serving(v) \/ Waking(v),
         NEW w \in Thread, pc[w] # "start"
  PROVE  ~Queued(thief[v], w)
<1> SUFFICES ASSUME Queued(thief[v], w) PROVE FALSE
  OBVIOUS
<1>1. Requested(thief[v], w)
  BY DEF Queued, QueueInv
<1>2. Requested(thief[v], v) /\ ~Queued(thief[v], v)
  BY DEF HeldInv
<1> QED
  BY <1>1, <1>2 DEF Requested

\* A request is pulled by one thread only.
LEMMA HeldOnce ==
  ASSUME HeldInv, NEW v \in Thread, NEW w \in Thread,
         Serving(v) \/ Waking(v), Serving(w) \/ Waking(w), thief[v] = thief[w]
  PROVE  v = w
BY DEF HeldInv, Requested

\* Whoever waits for v to serve its request stands still, and is marked idle.
LEMMA HeldWaits ==
  ASSUME TypeOK, HeldInv, NEW v \in Thread, Serving(v) \/ Waking(v)
  PROVE  /\ thief[v] \in Thread
         /\ thief[v] # v
         /\ Requested(thief[v], v)
         /\ pc[thief[v]] \in {"check", "asleep", "loopTest", "stop", "unlock",
                             "atEnd", "done"}
         /\ ~allEnd => pc[thief[v]] \in {"check", "asleep"} /\ ~receivedWork[thief[v]]
         /\ ~got_work[thief[v]]
         /\ Serving(v) <=> thief[v] \in counted
BY DEF TypeOK, HeldInv, Requested, Waits

\* Requests that have been pulled stay as they are, as long as the threads that
\* made them go on waiting and nobody pulls another.
LEMMA KeepHeld ==
  ASSUME TypeOK, HeldInv, requestQueue' = requestQueue, thief' = thief,
         \A v \in Thread : (Serving(v)' => Serving(v)) /\ (Waking(v)' => Waking(v)),
         \A v \in Thread :
           (Serving(v)' \/ Waking(v)') /\ Requested(thief[v], v)
             => Requested(thief[v], v)' /\ (thief[v] \in counted' <=> thief[v] \in counted)
  PROVE  HeldInv'
<1> SUFFICES ASSUME NEW v \in Thread, Serving(v)' \/ Waking(v)'
             PROVE  /\ Requested(thief[v], v)'
                    /\ ~Queued(thief[v], v)'
                    /\ Serving(v)' <=> thief[v] \in counted'
  BY DEF HeldInv
<1>1. /\ Serving(v) \/ Waking(v)
      /\ Serving(v)' <=> Serving(v)
  <2>1. ~(Serving(v) /\ Waking(v))
    BY DEF Serving, Waking
  <2> QED
    BY <2>1
<1>2. ~Queued(thief[v], v)'
  BY <1>1 DEF HeldInv, Queued
<1> QED
  BY <1>1, <1>2 DEF HeldInv

\* A list of different elements is not longer than the set they are from.
LEMMA InjectiveLength ==
  ASSUME NEW S, IsFiniteSet(S), NEW n \in Nat, NEW q \in [1 .. n -> S],
         \A i, j \in 1 .. n : q[i] = q[j] => i = j
  PROVE  n <= Cardinality(S)
<1>1. IsFiniteSet(1 .. n) /\ Cardinality(1 .. n) = n
  BY FS_Interval
<1>2. Cardinality(S) \in Nat
  BY FS_CardinalityType
<1>3. ~(Cardinality(S) < Cardinality(1 .. n))
  BY <1>1, FS_PigeonHole
<1> QED
  BY <1>1, <1>2, <1>3

\* A queue holds requests of different threads other than its owner, so that it
\* is never full.
LEMMA QueueShort ==
  ASSUME TypeOK, QueueInv, NEW t \in Thread, pc[t] # "start"
  PROVE  Len(requestQueue[t]) < M
<1> DEFINE n == Len(requestQueue[t])
<1>1. requestQueue[t] \in Seq(Thread) /\ n \in Nat
  BY DEF TypeOK
<1>2. requestQueue[t] \in [1 .. n -> Thread \ {t}]
  <2>1. \A i \in 1 .. n : requestQueue[t][i] \in Thread /\ requestQueue[t][i] # t
    BY <1>1 DEF QueueInv, Requested
  <2> QED
    BY <1>1, <2>1
<1>3. \A i, j \in 1 .. n : requestQueue[t][i] = requestQueue[t][j] => i = j
  BY DEF QueueInv
<1>4. IsFiniteSet(Thread \ {t}) /\ Cardinality(Thread \ {t}) = M - 1
  BY TeamFinite, FS_RemoveElement, MAssumption
<1>5. n <= Cardinality(Thread \ {t})
  <2> HIDE DEF n
  <2> QED
    BY <1>1, <1>2, <1>3, <1>4, InjectiveLength
<1> QED
  BY <1>1, <1>4, <1>5, MAssumption

-----------------------------------------------------------------------------
(* The steps, one lemma per action. *)

\* Clearing a queue before the start leaves it well-formed.
LEMMA Inv_reset_requestQueue ==
  ASSUME TypeOK, TypeOK', IInv, NEW t \in Thread, reset_requestQueue(t)
  PROVE  IInv'
<1>1. UNCHANGED <<todo, explored, got_work, receivedWork, thief, victim,
                  cursor, allEnd, end_counter, counted, victim_list>>
  BY DEF reset_requestQueue, work, control, locals, signals
<1>2. NoFatalExit'
  BY <1>1 DEF IInv, TypeOK, reset_requestQueue, At, GoTo, NoFatalExit, HeldInv,
     Serving, Waking, Requested
<1>3. QueueInv'
  <2>1. \A u, v \in Thread : Requested(u, v) => Requested(u, v)'
    BY <1>1 DEF TypeOK, reset_requestQueue, At, GoTo, Requested, Waits
  <2>2. \A v \in Thread \ {t} : requestQueue'[v] = requestQueue[v] /\ pc'[v] = pc[v]
    BY DEF reset_requestQueue, GoTo
  <2>3. 1 .. Len(requestQueue'[t]) = {}
    BY DEF TypeOK, reset_requestQueue
  <2>4. \A v \in Thread : \A i \in 1 .. Len(requestQueue[v]) : requestQueue[v][i] \in Thread
    BY DEF TypeOK
  <2> QED
    BY <1>1, <2>1, <2>2, <2>3, <2>4 DEF IInv, QueueInv
<1>4. HeldInv'
  BY <1>1 DEF IInv, TypeOK, reset_requestQueue, At, GoTo, HeldInv, Serving, Waking,
     Queued, Requested, Waits, EndInv, QueueInv, CountInv
<1>5. CountInv'
  BY <1>1 DEF IInv, TypeOK, reset_requestQueue, At, GoTo, CountInv, HeldInv,
     Serving, Waking, Requested, Waits, VictimInv, EndInv
<1>6. IdleInv'
  BY <1>1 DEF IInv, TypeOK, reset_requestQueue, At, GoTo, IdleInv, HeldInv, Serving,
     Waking, Requested, Waits
<1>7. HandedInv'
  BY <1>1 DEF IInv, TypeOK, reset_requestQueue, At, GoTo, HandedInv, CountInv, IdleInv
<1>8. VictimInv'
  BY <1>1 DEF IInv, TypeOK, reset_requestQueue, At, GoTo, VictimInv, EndInv
<1>9. EndInv'
  BY <1>1 DEF IInv, TypeOK, reset_requestQueue, At, GoTo, EndInv
<1>10. TerminationSound' /\ WorkConserved'
  BY <1>1 DEF IInv, TerminationSound, Left, WorkConserved
<1> QED
  BY <1>1, <1>2, <1>3, <1>4, <1>5, <1>6, <1>7, <1>8, <1>9, <1>10 DEF IInv

\* The team leaves the first barrier with nobody counted or waiting.
LEMMA Inv_StartBarrier ==
  ASSUME TypeOK, TypeOK', IInv, StartBarrier
  PROVE  IInv'
<1>1. UNCHANGED <<todo, explored, got_work, requestQueue, receivedWork, thief,
                  victim, cursor, allEnd, end_counter, counted, victim_list>>
  BY DEF StartBarrier, work, control, locals, signals
<1>2. NoFatalExit'
  BY <1>1 DEF IInv, TypeOK, StartBarrier, At, GoTo, NoFatalExit, HeldInv, Serving,
     Waking, Requested
<1>3. QueueInv'
  <2>1. \A u, v \in Thread :
          Requested(u, v) /\ u \in counted /\ Queued(u, v)
            => Requested(u, v)' /\ u \in counted'
    BY <1>1 DEF IInv, TypeOK, StartBarrier, At, GoTo, Requested, Waits, EndInv
  <2>2. \A v \in Thread : pc[v] = "start" => pc'[v] = "start"
    BY DEF TypeOK, StartBarrier, At, GoTo
  <2> QED
    BY <1>1, <2>1, <2>2, KeepQueue DEF IInv
<1>4. HeldInv'
  BY <1>1 DEF IInv, TypeOK, StartBarrier, At, GoTo, HeldInv, Serving, Waking,
     Queued, Requested, Waits, EndInv, QueueInv, CountInv
<1>5. CountInv'
  BY <1>1 DEF IInv, TypeOK, StartBarrier, At, GoTo, CountInv, HeldInv, Serving,
     Waking, Requested, Waits, VictimInv, EndInv
<1>6. IdleInv'
  BY <1>1 DEF IInv, TypeOK, StartBarrier, At, GoTo, IdleInv, HeldInv, Serving,
     Waking, Requested, Waits
<1>7. HandedInv'
  BY <1>1 DEF IInv, TypeOK, StartBarrier, At, GoTo, HandedInv, CountInv, IdleInv
<1>8. VictimInv'
  BY <1>1 DEF IInv, TypeOK, StartBarrier, At, GoTo, VictimInv, EndInv
<1>9. EndInv'
  BY <1>1 DEF IInv, TypeOK, StartBarrier, At, GoTo, EndInv
<1>10. TerminationSound' /\ WorkConserved'
  BY <1>1 DEF IInv, TerminationSound, Left, WorkConserved
<1> QED
  BY <1>1, <1>2, <1>3, <1>4, <1>5, <1>6, <1>7, <1>8, <1>9, <1>10 DEF IInv

\* Exploring only shrinks an interval.
LEMMA Inv_next ==
  ASSUME TypeOK, TypeOK', IInv, NEW t \in Thread, next(t)
  PROVE  IInv'
<1>1. UNCHANGED <<got_work, requestQueue, receivedWork, thief, victim, cursor,
                  allEnd, end_counter, counted, victim_list>>
  BY DEF next, Tails, work, control, locals, signals
<1>2. NoFatalExit'
  BY <1>1 DEF IInv, TypeOK, next, Tails, At, GoTo, NoFatalExit, HeldInv, Serving,
     Waking, Requested
<1>3. QueueInv'
  <2>1. \A u, v \in Thread :
          Requested(u, v) /\ u \in counted /\ Queued(u, v)
            => Requested(u, v)' /\ u \in counted'
    BY <1>1 DEF IInv, TypeOK, next, Tails, At, GoTo, Requested, Waits, CountInv
  <2>2. \A v \in Thread : pc[v] = "start" => pc'[v] = "start"
    BY DEF TypeOK, next, Tails, At, GoTo
  <2> QED
    BY <1>1, <2>1, <2>2, KeepQueue DEF IInv
<1>4. HeldInv'
  <2>1. \A v \in Thread : (Serving(v)' => Serving(v)) /\ (Waking(v)' => Waking(v))
    BY <1>1 DEF TypeOK, next, Tails, At, GoTo, Serving, Waking
  <2>2. \A v \in Thread :
          (Serving(v)' \/ Waking(v)') /\ Requested(thief[v], v)
            => Requested(thief[v], v)' /\ (thief[v] \in counted' <=> thief[v] \in counted)
    BY <1>1 DEF TypeOK, IInv, CountInv, EndInv, next, Tails, At, GoTo, Requested,
       Waits, Serving, Waking
  <2> QED
    BY <1>1, <2>1, <2>2, KeepHeld DEF IInv
<1>5. CountInv'
  BY <1>1 DEF IInv, TypeOK, next, Tails, At, GoTo, CountInv, HeldInv, Serving,
     Waking, Requested, Waits, VictimInv, EndInv
<1>6. IdleInv'
  BY <1>1 DEF IInv, TypeOK, next, Tails, At, GoTo, IdleInv, HeldInv, Serving,
     Waking, Requested, Waits
<1>7. HandedInv'
  <2>1. \A v \in Thread : pc[v] = "uncount" /\ thief[v] \in counted' =>
                            pc'[v] = "uncount" /\ thief'[v] = thief[v]
    BY <1>1 DEF TypeOK, next, Tails, At, GoTo
  <2>2. counted' \subseteq counted /\ \A u \in counted' : todo'[u] # {} => todo[u] # {}
    BY <1>1 DEF next, Tails
  <2> QED
    BY <2>1, <2>2, KeepHanded DEF IInv
<1>8. VictimInv'
  BY <1>1 DEF IInv, TypeOK, next, Tails, At, GoTo, VictimInv, EndInv
<1>9. EndInv'
  BY <1>1 DEF IInv, TypeOK, next, Tails, At, GoTo, EndInv
<1>10. TerminationSound'
  BY <1>1 DEF IInv, TypeOK, next, Tails, At, GoTo, TerminationSound, Left
<1>11. WorkConserved'
  BY <1>1 DEF IInv, TypeOK, next, Tails, At, GoTo, WorkConserved, Left
<1> QED
  BY <1>1, <1>2, <1>3, <1>4, <1>5, <1>6, <1>7, <1>8, <1>9, <1>10, <1>11 DEF IInv

\* A thread that advertises work is not waiting for any.
LEMMA Inv_set_workState ==
  ASSUME TypeOK, TypeOK', IInv, NEW t \in Thread, set_workState(t)
  PROVE  IInv'
<1>1. UNCHANGED <<todo, explored, requestQueue, receivedWork, thief, victim,
                  cursor, allEnd, end_counter, counted, victim_list>>
  BY DEF set_workState, work, control, locals, signals
<1>2. NoFatalExit'
  BY <1>1 DEF IInv, TypeOK, set_workState, At, GoTo, NoFatalExit, HeldInv, Serving,
     Waking, Requested
<1>3. QueueInv'
  BY <1>1 DEF IInv, TypeOK, set_workState, At, GoTo, QueueInv, Requested, Waits,
     EndInv, CountInv
<1>4. HeldInv'
  BY <1>1 DEF IInv, TypeOK, set_workState, At, GoTo, HeldInv, Serving, Waking,
     Queued, Requested, Waits, EndInv, QueueInv, CountInv
<1>5. CountInv'
  BY <1>1 DEF IInv, TypeOK, set_workState, At, GoTo, CountInv, HeldInv, Serving,
     Waking, Requested, Waits, VictimInv, EndInv
<1>6. IdleInv'
  BY <1>1 DEF IInv, TypeOK, set_workState, At, GoTo, IdleInv, HeldInv, Serving,
     Waking, Requested, Waits
<1>7. HandedInv'
  BY <1>1 DEF IInv, TypeOK, set_workState, At, GoTo, HandedInv, CountInv, IdleInv
<1>8. VictimInv'
  BY <1>1 DEF IInv, TypeOK, set_workState, At, GoTo, VictimInv, EndInv
<1>9. EndInv'
  BY <1>1 DEF IInv, TypeOK, set_workState, At, GoTo, EndInv
<1>10. TerminationSound' /\ WorkConserved'
  BY <1>1 DEF IInv, TerminationSound, Left, WorkConserved
<1> QED
  BY <1>1, <1>2, <1>3, <1>4, <1>5, <1>6, <1>7, <1>8, <1>9, <1>10 DEF IInv

\* Work goes to one thread that waits, is counted and has none.
LEMMA Inv_work_share ==
  ASSUME TypeOK, TypeOK', IInv, NEW t \in Thread, work_share(t)
  PROVE  IInv'
<1>1. UNCHANGED <<explored, got_work, requestQueue, receivedWork, thief,
                  victim, cursor, allEnd, end_counter, counted, victim_list>>
  BY DEF work_share, Tails, work, control, locals, signals
<1> DEFINE taker == thief[t]
<1>2. /\ pc[t] = "share"
      /\ Serving(t)
  BY DEF work_share, Tails, At, Serving
<1>3. /\ taker \in Thread
      /\ taker # t
      /\ pc[taker] \in {"check", "asleep", "loopTest", "stop", "unlock", "atEnd", "done"}
      /\ taker \in counted
      /\ ~got_work[taker]
  BY <1>2, HeldWaits DEF IInv
<1>4. todo[taker] = {} /\ t \notin counted
  <2>1. \A v \in Thread : pc[v] = "uncount" => thief[v] # taker
    <3>1. \A v \in Thread : pc[v] = "uncount" => Serving(v) /\ v # t
      BY <1>2 DEF Serving
    <3> QED
      BY <1>2, <3>1, HeldOnce DEF IInv
  <2> QED
    BY <1>2, <1>3, <2>1 DEF IInv, HandedInv, CountInv
<1>5. pc' = [pc EXCEPT ![t] = "uncount"]
  BY <1>3 DEF work_share, GoTo
<1>6. PICK part \in SUBSET todo[t] :
        \/ todo' = todo
        \/ /\ todo'[t] = todo[t] \ part
           /\ todo'[taker] = part
           /\ \A v \in Thread \ {t, taker} : todo'[v] = todo[v]
  <2>1. (Tails(todo[t]) \ {todo[t]}) \cup {{}} \subseteq SUBSET todo[t]
    BY TailsSubset
  <2>2. PICK part \in SUBSET todo[t] :
          todo' = todo \/ todo' = [todo EXCEPT ![t] = @ \ part, ![taker] = part]
    BY <1>3, <2>1 DEF work_share
  <2> QED
    BY <1>3, <2>2 DEF TypeOK
<1>7. NoFatalExit'
  BY <1>1, <1>2, <1>3, <1>4, <1>5, <1>6 DEF IInv, TypeOK, At, GoTo, NoFatalExit,
     HeldInv, Serving, Waking, Requested
<1>8. QueueInv'
  <2>1. \A u, v \in Thread :
          pc[v] # "start" /\ Requested(u, v) /\ u \in counted /\ Queued(u, v)
            => Requested(u, v)' /\ u \in counted'
    BY <1>1, <1>2, <1>3, <1>4, <1>5, <1>6 DEF TypeOK, At, GoTo, Requested, Waits
  <2>2. \A v \in Thread : pc[v] = "start" => pc'[v] = "start"
    BY <1>2, <1>3, <1>4, <1>5, <1>6
  <2> QED
    BY <1>1, <1>2, <1>3, <1>4, <1>5, <1>6, <2>1, <2>2, KeepQueue DEF IInv
<1>9. HeldInv'
  <2>1. \A v \in Thread : (Serving(v)' => Serving(v)) /\ (Waking(v)' => Waking(v))
    BY <1>1, <1>2, <1>3, <1>4, <1>5, <1>6 DEF TypeOK, At, GoTo, Serving, Waking
  <2>2. \A v \in Thread :
          (Serving(v)' \/ Waking(v)') /\ Requested(thief[v], v)
            => Requested(thief[v], v)' /\ (thief[v] \in counted' <=> thief[v] \in counted)
    BY <1>1, <1>2, <1>3, <1>4, <1>5, <1>6 DEF TypeOK, IInv, CountInv, EndInv, At,
       GoTo, Requested, Waits, Serving, Waking
  <2> QED
    BY <1>1, <1>2, <1>3, <1>4, <1>5, <1>6, <2>1, <2>2, KeepHeld DEF IInv
<1>10. CountInv'
  BY <1>1, <1>2, <1>3, <1>4, <1>5, <1>6 DEF IInv, TypeOK, At, GoTo, CountInv,
     HeldInv, Serving, Waking, Requested, Waits, VictimInv, EndInv
<1>11. IdleInv'
  <2>1. \A v \in Thread : v # taker => todo'[v] = {} \/ todo[v] # {}
    BY <1>6
  <2>2. pc'[t] = "uncount" /\ \A v \in Thread \ {t} : pc'[v] = pc[v]
    BY <1>5 DEF TypeOK
  <2> QED
    BY <1>1, <1>3, <2>1, <2>2 DEF IInv, IdleInv
<1>12. HandedInv'
  <2> SUFFICES ASSUME NEW w \in counted, todo'[w] # {}
               PROVE  \E v \in Thread : pc'[v] = "uncount" /\ thief[v] = w
    BY <1>1 DEF HandedInv
  <2>1. CASE w = taker
    BY <1>5, <2>1 DEF TypeOK
  <2>2. CASE w # taker
    <3>1. w # t /\ todo[w] # {}
      BY <1>4, <1>6, <2>2 DEF TypeOK
    <3>2. PICK v \in Thread : pc[v] = "uncount" /\ thief[v] = w
      BY <3>1 DEF IInv, HandedInv
    <3> QED
      BY <1>5, <3>2
  <2> QED
    BY <2>1, <2>2
<1>13. VictimInv'
  BY <1>1, <1>2, <1>3, <1>4, <1>5, <1>6 DEF IInv, TypeOK, At, GoTo, VictimInv, EndInv
<1>14. EndInv'
  BY <1>1, <1>2, <1>3, <1>4, <1>5, <1>6 DEF IInv, TypeOK, At, GoTo, EndInv
<1>15. TerminationSound'
  <2>1. (\A v \in Thread : todo[v] = {}) => \A v \in Thread : todo'[v] = {}
    BY <1>6
  <2> QED
    BY <1>1, <2>1 DEF IInv, TerminationSound, Left
<1>16. WorkConserved'
  <2>1. CASE todo' = todo
    BY <1>1, <2>1 DEF IInv, WorkConserved, Left
  <2>2. CASE todo' # todo
    <3>1. /\ todo'[t] = todo[t] \ part
          /\ todo'[taker] = part
          /\ \A v \in Thread \ {t, taker} : todo'[v] = todo[v]
      BY <1>6, <2>2
    <3>2. Left' = Left
      BY <1>3, <1>4, <3>1 DEF Left
    <3>3. \A v, w \in Thread : v # w => todo'[v] \cap todo'[w] = {}
      BY <1>3, <1>4, <3>1 DEF IInv, WorkConserved
    <3> QED
      BY <1>1, <3>2, <3>3 DEF IInv, WorkConserved
  <2> QED
    BY <2>1, <2>2
<1> QED
  BY <1>1, <1>7, <1>8, <1>9, <1>10, <1>11, <1>12, <1>13, <1>14, <1>15, <1>16 DEF IInv

\* The served thief is taken out of the counter once.
LEMMA Inv_Uncount ==
  ASSUME TypeOK, TypeOK', IInv, NEW t \in Thread, Uncount(t)
  PROVE  IInv'
<1>1. UNCHANGED <<todo, explored, got_work, requestQueue, receivedWork, thief,
                  victim, cursor, allEnd, victim_list>>
  BY DEF Uncount, counter_decrement, work, control, locals, signals
<1>2. Serving(t)
  BY DEF Uncount, counter_decrement, At, Serving
<1>3. /\ thief[t] \in Thread
      /\ thief[t] # t
      /\ pc[thief[t]] \in {"check", "asleep", "loopTest", "stop", "unlock", "atEnd", "done"}
      /\ thief[t] \in counted
  BY <1>2, HeldWaits DEF IInv
<1>4. NoFatalExit'
  BY <1>1, <1>2, <1>3 DEF IInv, TypeOK, Uncount, counter_decrement, At, GoTo,
     NoFatalExit, HeldInv, Serving, Waking, Requested
<1>5. QueueInv'
  <2>0. \A v \in Thread : pc[v] # "start" => ~Queued(thief[t], v)
    <3>1. Serving(t) \/ Waking(t)
      BY DEF Uncount, counter_decrement, At, Serving, Waking
    <3> QED
      BY <3>1, HeldNotQueued DEF IInv
  <2>1. \A u, v \in Thread :
          Requested(u, v) /\ u \in counted /\ Queued(u, v) /\ pc[v] # "start"
            => Requested(u, v)' /\ u \in counted'
    BY <1>1, <1>2, <1>3, <2>0 DEF IInv, TypeOK, Uncount, counter_decrement, At,
       GoTo, Requested, Waits
  <2>2. \A v \in Thread : pc[v] = "start" => pc'[v] = "start"
    BY DEF TypeOK, Uncount, counter_decrement, At, GoTo
  <2> QED
    BY <1>1, <1>2, <1>3, <2>1, <2>2, KeepQueue DEF IInv
<1>6. HeldInv'
  BY <1>1, <1>2, <1>3 DEF IInv, TypeOK, Uncount, counter_decrement, At, GoTo,
     HeldInv, Serving, Waking, Queued, Requested, Waits, EndInv, QueueInv, CountInv
<1>7. CountInv'
  <2>1. end_counter' = Cardinality(counted')
    <3>1. thief[t] \in counted
      BY DEF IInv, Uncount, counter_decrement, At, HeldInv, Serving, CountInv
    <3> QED
      BY <3>1, CountedFinite, FS_RemoveElement DEF IInv, TypeOK, CountInv, Uncount,
         counter_decrement
  <2>2. \A u \in Thread :
          /\ pc'[u] \in {"start", "atStart", "next", "working", "serve", "share",
                         "uncount", "wake", "idle", "count"} => u \notin counted'
          /\ pc'[u] = "loopTest" /\ ~allEnd' => u \notin counted'
          /\ pc'[u] \in {"drain", "cancel", "release", "select", "uncountSelf",
                         "clear", "push"} => u \in counted'
          /\ pc'[u] \in {"check", "asleep"} /\ ~allEnd' /\ receivedWork'[u]
               => u \notin counted'
    BY <1>1, <1>2, <1>3 DEF IInv, TypeOK, Uncount, counter_decrement, At, GoTo,
       CountInv, HeldInv, Serving, Requested, Waits
  <2> QED
    BY <2>1, <2>2 DEF CountInv
<1>8. IdleInv'
  BY <1>1, <1>2, <1>3 DEF IInv, TypeOK, Uncount, counter_decrement, At, GoTo,
     IdleInv, HeldInv, Serving, Waking, Requested, Waits
<1>9. HandedInv'
  BY <1>1, <1>2, <1>3 DEF IInv, TypeOK, Uncount, counter_decrement, At, GoTo,
     HandedInv, CountInv, IdleInv
<1>10. VictimInv'
  BY <1>1, <1>2, <1>3 DEF IInv, TypeOK, Uncount, counter_decrement, At, GoTo,
     VictimInv, EndInv
<1>11. EndInv'
  BY <1>1, <1>2, <1>3 DEF IInv, TypeOK, Uncount, counter_decrement, At, GoTo, EndInv
<1>12. TerminationSound' /\ WorkConserved'
  BY <1>1 DEF IInv, TerminationSound, Left, WorkConserved
<1> QED
  BY <1>1, <1>4, <1>5, <1>6, <1>7, <1>8, <1>9, <1>10, <1>11, <1>12 DEF IInv

\* The cancelled thief is taken out of the counter once.
LEMMA Inv_Cancel ==
  ASSUME TypeOK, TypeOK', IInv, NEW t \in Thread, Cancel(t)
  PROVE  IInv'
<1>1. UNCHANGED <<todo, explored, got_work, requestQueue, receivedWork, thief,
                  victim, cursor, allEnd, victim_list>>
  BY DEF Cancel, counter_decrement, work, control, locals, signals
<1>2. Serving(t)
  BY DEF Cancel, counter_decrement, At, Serving
<1>3. /\ thief[t] \in Thread
      /\ thief[t] # t
      /\ pc[thief[t]] \in {"check", "asleep", "loopTest", "stop", "unlock", "atEnd", "done"}
      /\ thief[t] \in counted
  BY <1>2, HeldWaits DEF IInv
<1>4. NoFatalExit'
  BY <1>1, <1>2, <1>3 DEF IInv, TypeOK, Cancel, counter_decrement, At, GoTo,
     NoFatalExit, HeldInv, Serving, Waking, Requested
<1>5. QueueInv'
  <2>0. \A v \in Thread : pc[v] # "start" => ~Queued(thief[t], v)
    <3>1. Serving(t) \/ Waking(t)
      BY DEF Cancel, counter_decrement, At, Serving, Waking
    <3> QED
      BY <3>1, HeldNotQueued DEF IInv
  <2>1. \A u, v \in Thread :
          Requested(u, v) /\ u \in counted /\ Queued(u, v) /\ pc[v] # "start"
            => Requested(u, v)' /\ u \in counted'
    BY <1>1, <1>2, <1>3, <2>0 DEF IInv, TypeOK, Cancel, counter_decrement, At, GoTo,
       Requested, Waits
  <2>2. \A v \in Thread : pc[v] = "start" => pc'[v] = "start"
    BY DEF TypeOK, Cancel, counter_decrement, At, GoTo
  <2> QED
    BY <1>1, <1>2, <1>3, <2>1, <2>2, KeepQueue DEF IInv
<1>6. HeldInv'
  BY <1>1, <1>2, <1>3 DEF IInv, TypeOK, Cancel, counter_decrement, At, GoTo,
     HeldInv, Serving, Waking, Queued, Requested, Waits, EndInv, QueueInv, CountInv
<1>7. CountInv'
  <2>1. end_counter' = Cardinality(counted')
    <3>1. thief[t] \in counted
      BY DEF IInv, Cancel, counter_decrement, At, HeldInv, Serving, CountInv
    <3> QED
      BY <3>1, CountedFinite, FS_RemoveElement DEF IInv, TypeOK, CountInv, Cancel,
         counter_decrement
  <2>2. \A u \in Thread :
          /\ pc'[u] \in {"start", "atStart", "next", "working", "serve", "share",
                         "uncount", "wake", "idle", "count"} => u \notin counted'
          /\ pc'[u] = "loopTest" /\ ~allEnd' => u \notin counted'
          /\ pc'[u] \in {"drain", "cancel", "release", "select", "uncountSelf",
                         "clear", "push"} => u \in counted'
          /\ pc'[u] \in {"check", "asleep"} /\ ~allEnd' /\ receivedWork'[u]
               => u \notin counted'
    BY <1>1, <1>2, <1>3 DEF IInv, TypeOK, Cancel, counter_decrement, At, GoTo,
       CountInv, HeldInv, Serving, Requested, Waits
  <2> QED
    BY <2>1, <2>2 DEF CountInv
<1>8. IdleInv'
  BY <1>1, <1>2, <1>3 DEF IInv, TypeOK, Cancel, counter_decrement, At, GoTo,
     IdleInv, HeldInv, Serving, Waking, Requested, Waits
<1>9. HandedInv'
  BY <1>1, <1>2, <1>3 DEF IInv, TypeOK, Cancel, counter_decrement, At, GoTo,
     HandedInv, CountInv, IdleInv
<1>10. VictimInv'
  BY <1>1, <1>2, <1>3 DEF IInv, TypeOK, Cancel, counter_decrement, At, GoTo,
     VictimInv, EndInv
<1>11. EndInv'
  BY <1>1, <1>2, <1>3 DEF IInv, TypeOK, Cancel, counter_decrement, At, GoTo, EndInv
<1>12. TerminationSound' /\ WorkConserved'
  BY <1>1 DEF IInv, TerminationSound, Left, WorkConserved
<1> QED
  BY <1>1, <1>4, <1>5, <1>6, <1>7, <1>8, <1>9, <1>10, <1>11, <1>12 DEF IInv

\* A thread that selected itself takes itself out of the counter.
LEMMA Inv_UncountSelf ==
  ASSUME TypeOK, TypeOK', IInv, NEW t \in Thread, UncountSelf(t)
  PROVE  IInv'
<1>1. UNCHANGED <<todo, explored, got_work, requestQueue, receivedWork, thief,
                  victim, cursor, allEnd, victim_list>>
  BY DEF UncountSelf, counter_decrement, work, control, locals, signals
<1>2. NoFatalExit'
  BY <1>1 DEF IInv, TypeOK, UncountSelf, counter_decrement, At, GoTo, NoFatalExit,
     HeldInv, Serving, Waking, Requested
<1>3. QueueInv'
  <2>1. \A u, v \in Thread :
          Requested(u, v) /\ u \in counted /\ Queued(u, v)
            => Requested(u, v)' /\ u \in counted'
    BY <1>1 DEF IInv, TypeOK, UncountSelf, counter_decrement, At, GoTo, Requested,
       Waits, CountInv
  <2>2. \A v \in Thread : pc[v] = "start" => pc'[v] = "start"
    BY DEF TypeOK, UncountSelf, counter_decrement, At, GoTo
  <2> QED
    BY <1>1, <2>1, <2>2, KeepQueue DEF IInv
<1>4. HeldInv'
  <2>1. \A v \in Thread : (Serving(v)' => Serving(v)) /\ (Waking(v)' => Waking(v))
    BY <1>1 DEF TypeOK, UncountSelf, counter_decrement, At, GoTo, Serving, Waking
  <2>2. \A v \in Thread :
          (Serving(v)' \/ Waking(v)') /\ Requested(thief[v], v)
            => Requested(thief[v], v)' /\ (thief[v] \in counted' <=> thief[v] \in counted)
    BY <1>1 DEF TypeOK, IInv, CountInv, EndInv, UncountSelf, counter_decrement, At,
       GoTo, Requested, Waits, Serving, Waking
  <2> QED
    BY <1>1, <2>1, <2>2, KeepHeld DEF IInv
<1>5. CountInv'
  <2>1. end_counter' = Cardinality(counted')
    <3>1. t \in counted
      BY DEF IInv, UncountSelf, counter_decrement, At, HeldInv, Serving, CountInv
    <3> QED
      BY <3>1, CountedFinite, FS_RemoveElement DEF IInv, TypeOK, CountInv,
         UncountSelf, counter_decrement
  <2>2. \A u \in Thread :
          /\ pc'[u] \in {"start", "atStart", "next", "working", "serve", "share",
                         "uncount", "wake", "idle", "count"} => u \notin counted'
          /\ pc'[u] = "loopTest" /\ ~allEnd' => u \notin counted'
          /\ pc'[u] \in {"drain", "cancel", "release", "select", "uncountSelf",
                         "clear", "push"} => u \in counted'
          /\ pc'[u] \in {"check", "asleep"} /\ ~allEnd' /\ receivedWork'[u]
               => u \notin counted'
    BY <1>1 DEF IInv, TypeOK, UncountSelf, counter_decrement, At, GoTo, CountInv,
       HeldInv, Serving, Requested, Waits
  <2> QED
    BY <2>1, <2>2 DEF CountInv
<1>6. IdleInv'
  BY <1>1 DEF IInv, TypeOK, UncountSelf, counter_decrement, At, GoTo, IdleInv,
     HeldInv, Serving, Waking, Requested, Waits
<1>7. HandedInv'
  BY <1>1 DEF IInv, TypeOK, UncountSelf, counter_decrement, At, GoTo, HandedInv,
     CountInv, IdleInv
<1>8. VictimInv'
  BY <1>1 DEF IInv, TypeOK, UncountSelf, counter_decrement, At, GoTo, VictimInv, EndInv
<1>9. EndInv'
  BY <1>1 DEF IInv, TypeOK, UncountSelf, counter_decrement, At, GoTo, EndInv
<1>10. TerminationSound' /\ WorkConserved'
  BY <1>1 DEF IInv, TerminationSound, Left, WorkConserved
<1> QED
  BY <1>1, <1>2, <1>3, <1>4, <1>5, <1>6, <1>7, <1>8, <1>9, <1>10 DEF IInv

\* The thief that is woken after it was served is no longer counted.
LEMMA Inv_Wake ==
  ASSUME TypeOK, TypeOK', IInv, NEW t \in Thread, Wake(t, "wake", "loopTest")
  PROVE  IInv'
<1>1. UNCHANGED <<todo, explored, got_work, requestQueue, thief, victim,
                  cursor, allEnd, end_counter, counted, victim_list>>
  BY DEF Wake, Signal, work, control, locals, signals
<1>2. Waking(t)
  BY DEF Wake, Signal, At, Waking
<1>3. /\ thief[t] \in Thread
      /\ thief[t] # t
      /\ pc[thief[t]] \in {"check", "asleep", "loopTest", "stop", "unlock", "atEnd", "done"}
      /\ thief[t] \notin counted
  BY <1>2, HeldWaits DEF IInv, Serving, Waking
<1>4. NoFatalExit'
  BY <1>1, <1>2, <1>3 DEF IInv, TypeOK, Wake, Signal, At, GoTo, NoFatalExit,
     HeldInv, Serving, Waking, Requested
<1>5. QueueInv'
  <2>0. \A v \in Thread : pc[v] # "start" => ~Queued(thief[t], v)
    <3>1. Serving(t) \/ Waking(t)
      BY DEF Wake, Signal, At, Serving, Waking
    <3> QED
      BY <3>1, HeldNotQueued DEF IInv
  <2>1. \A u, v \in Thread :
          Requested(u, v) /\ u \in counted /\ Queued(u, v) /\ pc[v] # "start"
            => Requested(u, v)' /\ u \in counted'
    BY <1>1, <1>2, <1>3, <2>0 DEF IInv, TypeOK, Wake, Signal, At, GoTo, Requested, Waits
  <2>2. \A v \in Thread : pc[v] = "start" => pc'[v] = "start"
    BY DEF TypeOK, Wake, Signal, At, GoTo
  <2> QED
    BY <1>1, <1>2, <1>3, <2>1, <2>2, KeepQueue DEF IInv
<1>6. HeldInv'
  <2>1. \A v \in Thread : (Serving(v)' => Serving(v)) /\ (Waking(v)' => Waking(v))
    BY <1>1, <1>2, <1>3 DEF TypeOK, Wake, Signal, At, GoTo, Serving, Waking
  <2>2. \A v \in Thread :
          (Serving(v)' \/ Waking(v)') => thief[v] # thief[t] /\ v # t
    <3>1. \A v \in Thread : (Serving(v)' \/ Waking(v)') => v # t
      BY <1>1, <1>2, <1>3 DEF TypeOK, Wake, Signal, At, Serving, Waking
    <3> QED
      BY <1>2, <2>1, <3>1, HeldOnce DEF IInv
  <2>3. \A v \in Thread :
          (Serving(v)' \/ Waking(v)') /\ Requested(thief[v], v)
            => Requested(thief[v], v)' /\ (thief[v] \in counted' <=> thief[v] \in counted)
    BY <1>1, <1>2, <1>3, <2>2 DEF TypeOK, Wake, Signal, At, GoTo, Requested, Waits
  <2> QED
    BY <1>1, <2>1, <2>3, KeepHeld DEF IInv
<1>7. CountInv'
  BY <1>1, <1>2, <1>3 DEF IInv, TypeOK, Wake, Signal, At, GoTo, CountInv, HeldInv,
     Serving, Waking, Requested, Waits, VictimInv, EndInv
<1>8. IdleInv'
  BY <1>1, <1>2, <1>3 DEF IInv, TypeOK, Wake, Signal, At, GoTo, IdleInv, HeldInv,
     Serving, Waking, Requested, Waits
<1>9. HandedInv'
  <2>1. \A v \in Thread : pc[v] = "uncount" /\ thief[v] \in counted' =>
                            pc'[v] = "uncount" /\ thief'[v] = thief[v]
    BY <1>1, <1>2, <1>3 DEF TypeOK, Wake, Signal, At, GoTo
  <2>2. counted' \subseteq counted /\ \A u \in counted' : todo'[u] # {} => todo[u] # {}
    BY <1>1, <1>2, <1>3 DEF Signal
  <2> QED
    BY <2>1, <2>2, KeepHanded DEF IInv
<1>10. VictimInv'
  BY <1>1, <1>2, <1>3 DEF IInv, TypeOK, Wake, Signal, At, GoTo, VictimInv, EndInv
<1>11. EndInv'
  BY <1>1, <1>2, <1>3 DEF IInv, TypeOK, Wake, Signal, At, GoTo, EndInv
<1>12. TerminationSound' /\ WorkConserved'
  BY <1>1 DEF IInv, TerminationSound, Left, WorkConserved
<1> QED
  BY <1>1, <1>4, <1>5, <1>6, <1>7, <1>8, <1>9, <1>10, <1>11, <1>12 DEF IInv

\* Nor is the thief that is woken after it was cancelled.
LEMMA Inv_Wake2 ==
  ASSUME TypeOK, TypeOK', IInv, NEW t \in Thread, Wake(t, "release", "drain")
  PROVE  IInv'
<1>1. UNCHANGED <<todo, explored, got_work, requestQueue, thief, victim,
                  cursor, allEnd, end_counter, counted, victim_list>>
  BY DEF Wake, Signal, work, control, locals, signals
<1>2. Waking(t)
  BY DEF Wake, Signal, At, Waking
<1>3. /\ thief[t] \in Thread
      /\ thief[t] # t
      /\ pc[thief[t]] \in {"check", "asleep", "loopTest", "stop", "unlock", "atEnd", "done"}
      /\ thief[t] \notin counted
  BY <1>2, HeldWaits DEF IInv, Serving, Waking
<1>4. NoFatalExit'
  BY <1>1, <1>2, <1>3 DEF IInv, TypeOK, Wake, Signal, At, GoTo, NoFatalExit,
     HeldInv, Serving, Waking, Requested
<1>5. QueueInv'
  <2>0. \A v \in Thread : pc[v] # "start" => ~Queued(thief[t], v)
    <3>1. Serving(t) \/ Waking(t)
      BY DEF Wake, Signal, At, Serving, Waking
    <3> QED
      BY <3>1, HeldNotQueued DEF IInv
  <2>1. \A u, v \in Thread :
          Requested(u, v) /\ u \in counted /\ Queued(u, v) /\ pc[v] # "start"
            => Requested(u, v)' /\ u \in counted'
    BY <1>1, <1>2, <1>3, <2>0 DEF IInv, TypeOK, Wake, Signal, At, GoTo, Requested, Waits
  <2>2. \A v \in Thread : pc[v] = "start" => pc'[v] = "start"
    BY DEF TypeOK, Wake, Signal, At, GoTo
  <2> QED
    BY <1>1, <1>2, <1>3, <2>1, <2>2, KeepQueue DEF IInv
<1>6. HeldInv'
  <2>1. \A v \in Thread : (Serving(v)' => Serving(v)) /\ (Waking(v)' => Waking(v))
    BY <1>1, <1>2, <1>3 DEF TypeOK, Wake, Signal, At, GoTo, Serving, Waking
  <2>2. \A v \in Thread :
          (Serving(v)' \/ Waking(v)') => thief[v] # thief[t] /\ v # t
    <3>1. \A v \in Thread : (Serving(v)' \/ Waking(v)') => v # t
      BY <1>1, <1>2, <1>3 DEF TypeOK, Wake, Signal, At, Serving, Waking
    <3> QED
      BY <1>2, <2>1, <3>1, HeldOnce DEF IInv
  <2>3. \A v \in Thread :
          (Serving(v)' \/ Waking(v)') /\ Requested(thief[v], v)
            => Requested(thief[v], v)' /\ (thief[v] \in counted' <=> thief[v] \in counted)
    BY <1>1, <1>2, <1>3, <2>2 DEF TypeOK, Wake, Signal, At, GoTo, Requested, Waits
  <2> QED
    BY <1>1, <2>1, <2>3, KeepHeld DEF IInv
<1>7. CountInv'
  BY <1>1, <1>2, <1>3 DEF IInv, TypeOK, Wake, Signal, At, GoTo, CountInv, HeldInv,
     Serving, Waking, Requested, Waits, VictimInv, EndInv
<1>8. IdleInv'
  BY <1>1, <1>2, <1>3 DEF IInv, TypeOK, Wake, Signal, At, GoTo, IdleInv, HeldInv,
     Serving, Waking, Requested, Waits
<1>9. HandedInv'
  <2>1. \A v \in Thread : pc[v] = "uncount" /\ thief[v] \in counted' =>
                            pc'[v] = "uncount" /\ thief'[v] = thief[v]
    BY <1>1, <1>2, <1>3 DEF TypeOK, Wake, Signal, At, GoTo
  <2>2. counted' \subseteq counted /\ \A u \in counted' : todo'[u] # {} => todo[u] # {}
    BY <1>1, <1>2, <1>3 DEF Signal
  <2> QED
    BY <2>1, <2>2, KeepHanded DEF IInv
<1>10. VictimInv'
  BY <1>1, <1>2, <1>3 DEF IInv, TypeOK, Wake, Signal, At, GoTo, VictimInv, EndInv
<1>11. EndInv'
  BY <1>1, <1>2, <1>3 DEF IInv, TypeOK, Wake, Signal, At, GoTo, EndInv
<1>12. TerminationSound' /\ WorkConserved'
  BY <1>1 DEF IInv, TerminationSound, Left, WorkConserved
<1> QED
  BY <1>1, <1>4, <1>5, <1>6, <1>7, <1>8, <1>9, <1>10, <1>11, <1>12 DEF IInv

\* A thread comes to the end of its loop with no request pending, or at the end.
LEMMA Inv_LoopTest ==
  ASSUME TypeOK, TypeOK', IInv, NEW t \in Thread, LoopTest(t)
  PROVE  IInv'
<1>1. UNCHANGED <<todo, explored, got_work, requestQueue, receivedWork, thief,
                  victim, cursor, allEnd, end_counter, counted, victim_list>>
  BY DEF LoopTest, work, control, locals, signals
<1>2. NoFatalExit'
  BY <1>1 DEF IInv, TypeOK, LoopTest, At, GoTo, NoFatalExit, HeldInv, Serving,
     Waking, Requested
<1>3. QueueInv'
  <2>1. \A u, v \in Thread :
          Requested(u, v) /\ u \in counted /\ Queued(u, v)
            => Requested(u, v)' /\ u \in counted'
    BY <1>1 DEF IInv, TypeOK, LoopTest, At, GoTo, Requested, Waits, CountInv
  <2>2. \A v \in Thread : pc[v] = "start" => pc'[v] = "start"
    BY DEF TypeOK, LoopTest, At, GoTo
  <2> QED
    BY <1>1, <2>1, <2>2, KeepQueue DEF IInv
<1>4. HeldInv'
  <2>1. \A v \in Thread : (Serving(v)' => Serving(v)) /\ (Waking(v)' => Waking(v))
    BY <1>1 DEF TypeOK, LoopTest, At, GoTo, Serving, Waking
  <2>2. \A v \in Thread :
          (Serving(v)' \/ Waking(v)') /\ Requested(thief[v], v)
            => Requested(thief[v], v)' /\ (thief[v] \in counted' <=> thief[v] \in counted)
    BY <1>1 DEF TypeOK, IInv, CountInv, EndInv, LoopTest, At, GoTo, Requested,
       Waits, Serving, Waking
  <2> QED
    BY <1>1, <2>1, <2>2, KeepHeld DEF IInv
<1>5. CountInv'
  BY <1>1 DEF IInv, TypeOK, LoopTest, At, GoTo, CountInv, HeldInv, Serving, Waking,
     Requested, Waits, VictimInv, EndInv
<1>6. IdleInv'
  BY <1>1 DEF IInv, TypeOK, LoopTest, At, GoTo, IdleInv, HeldInv, Serving, Waking,
     Requested, Waits
<1>7. HandedInv'
  <2>1. \A v \in Thread : pc[v] = "uncount" /\ thief[v] \in counted' =>
                            pc'[v] = "uncount" /\ thief'[v] = thief[v]
    BY <1>1 DEF TypeOK, LoopTest, At, GoTo
  <2>2. counted' \subseteq counted /\ \A u \in counted' : todo'[u] # {} => todo[u] # {}
    BY <1>1 DEF LoopTest
  <2> QED
    BY <2>1, <2>2, KeepHanded DEF IInv
<1>8. VictimInv'
  BY <1>1 DEF IInv, TypeOK, LoopTest, At, GoTo, VictimInv, EndInv
<1>9. EndInv'
  BY <1>1 DEF IInv, TypeOK, LoopTest, At, GoTo, EndInv
<1>10. TerminationSound' /\ WorkConserved'
  BY <1>1 DEF IInv, TerminationSound, Left, WorkConserved
<1> QED
  BY <1>1, <1>2, <1>3, <1>4, <1>5, <1>6, <1>7, <1>8, <1>9, <1>10 DEF IInv

\* A thread without work takes back its flag.
LEMMA Inv_GoIdle ==
  ASSUME TypeOK, TypeOK', IInv, NEW t \in Thread, GoIdle(t)
  PROVE  IInv'
<1>1. UNCHANGED <<todo, explored, requestQueue, receivedWork, thief, victim,
                  cursor, allEnd, end_counter, counted, victim_list>>
  BY DEF GoIdle, work, control, locals, signals
<1>2. NoFatalExit'
  BY <1>1 DEF IInv, TypeOK, GoIdle, At, GoTo, NoFatalExit, HeldInv, Serving, Waking,
     Requested
<1>3. QueueInv'
  <2>1. \A u, v \in Thread :
          Requested(u, v) /\ u \in counted /\ Queued(u, v)
            => Requested(u, v)' /\ u \in counted'
    BY <1>1 DEF IInv, TypeOK, GoIdle, At, GoTo, Requested, Waits, IdleInv
  <2>2. \A v \in Thread : pc[v] = "start" => pc'[v] = "start"
    BY DEF TypeOK, GoIdle, At, GoTo
  <2> QED
    BY <1>1, <2>1, <2>2, KeepQueue DEF IInv
<1>4. HeldInv'
  <2>1. \A v \in Thread : (Serving(v)' => Serving(v)) /\ (Waking(v)' => Waking(v))
    BY <1>1 DEF TypeOK, GoIdle, At, GoTo, Serving, Waking
  <2>2. \A v \in Thread :
          (Serving(v)' \/ Waking(v)') /\ Requested(thief[v], v)
            => Requested(thief[v], v)' /\ (thief[v] \in counted' <=> thief[v] \in counted)
    BY <1>1 DEF TypeOK, IInv, IdleInv, GoIdle, At, GoTo, Requested, Waits, Serving, Waking
  <2> QED
    BY <1>1, <2>1, <2>2, KeepHeld DEF IInv
<1>5. CountInv'
  BY <1>1 DEF IInv, TypeOK, GoIdle, At, GoTo, CountInv, HeldInv, Serving, Waking,
     Requested, Waits, VictimInv, EndInv
<1>6. IdleInv'
  BY <1>1 DEF IInv, TypeOK, GoIdle, At, GoTo, IdleInv, HeldInv, Serving, Waking,
     Requested, Waits
<1>7. HandedInv'
  BY <1>1 DEF IInv, TypeOK, GoIdle, At, GoTo, HandedInv, CountInv, IdleInv
<1>8. VictimInv'
  BY <1>1 DEF IInv, TypeOK, GoIdle, At, GoTo, VictimInv, EndInv
<1>9. EndInv'
  BY <1>1 DEF IInv, TypeOK, GoIdle, At, GoTo, EndInv
<1>10. TerminationSound' /\ WorkConserved'
  BY <1>1 DEF IInv, TerminationSound, Left, WorkConserved
<1> QED
  BY <1>1, <1>2, <1>3, <1>4, <1>5, <1>6, <1>7, <1>8, <1>9, <1>10 DEF IInv

\* The last thread to be counted finds that nobody has work.
LEMMA Inv_counter_increment ==
  ASSUME TypeOK, TypeOK', IInv, NEW t \in Thread, counter_increment(t)
  PROVE  IInv'
<1>1. UNCHANGED <<todo, explored, got_work, requestQueue, receivedWork, thief,
                  victim, cursor, victim_list>>
  BY DEF counter_increment, work, control, locals, signals
<1>2. NoFatalExit'
  BY <1>1 DEF IInv, TypeOK, counter_increment, At, GoTo, NoFatalExit, HeldInv,
     Serving, Waking, Requested
<1>3. QueueInv'
  <2>1. \A u, v \in Thread :
          Requested(u, v) /\ u \in counted /\ Queued(u, v)
            => Requested(u, v)' /\ u \in counted'
    BY <1>1 DEF IInv, TypeOK, counter_increment, At, GoTo, Requested, Waits, CountInv
  <2>2. \A v \in Thread : pc[v] = "start" => pc'[v] = "start"
    BY DEF TypeOK, counter_increment, At, GoTo
  <2> QED
    BY <1>1, <2>1, <2>2, KeepQueue DEF IInv
<1>4. HeldInv'
  <2>1. \A v \in Thread : (Serving(v)' => Serving(v)) /\ (Waking(v)' => Waking(v))
    BY <1>1 DEF TypeOK, counter_increment, At, GoTo, Serving, Waking
  <2>2. \A v \in Thread :
          (Serving(v)' \/ Waking(v)') /\ Requested(thief[v], v)
            => Requested(thief[v], v)' /\ (thief[v] \in counted' <=> thief[v] \in counted)
    BY <1>1 DEF TypeOK, IInv, CountInv, EndInv, counter_increment, At, GoTo,
       Requested, Waits, Serving, Waking
  <2> QED
    BY <1>1, <2>1, <2>2, KeepHeld DEF IInv
<1>5. CountInv'
  <2>1. t \notin counted
    BY DEF IInv, CountInv, counter_increment, At
  <2>2. end_counter' = Cardinality(counted')
    BY <2>1, CountedFinite, FS_AddElement DEF IInv, CountInv, counter_increment
  <2>3. \A u \in Thread \ {t} :
          pc'[u] = pc[u] /\ (u \in counted' <=> u \in counted)
    BY DEF TypeOK, counter_increment, GoTo
  <2>4. pc'[t] \in {"stop", "drain"} /\ t \in counted'
    BY DEF TypeOK, counter_increment, GoTo
  <2>5. ~allEnd' => ~allEnd
    BY DEF counter_increment
  <2> QED
    BY <1>1, <2>2, <2>3, <2>4, <2>5 DEF IInv, CountInv
<1>6. IdleInv'
  BY <1>1 DEF IInv, TypeOK, counter_increment, At, GoTo, IdleInv, HeldInv, Serving,
     Waking, Requested, Waits
<1>7. HandedInv'
  <2> SUFFICES ASSUME NEW u \in counted', todo'[u] # {}
               PROVE  \E v \in Thread : pc'[v] = "uncount" /\ thief'[v] = u
    BY DEF HandedInv
  <2>1. todo[t] = {}
    BY DEF IInv, IdleInv, counter_increment, At
  <2>2. u \in counted
    BY <1>1, <2>1 DEF counter_increment
  <2>3. PICK v \in Thread : pc[v] = "uncount" /\ thief[v] = u
    BY <1>1, <2>2 DEF IInv, HandedInv
  <2>4. v # t
    BY <2>3 DEF counter_increment, At
  <2> QED
    BY <1>1, <2>3, <2>4 DEF TypeOK, counter_increment, GoTo
<1>8. VictimInv'
  BY <1>1 DEF IInv, TypeOK, counter_increment, At, GoTo, VictimInv, EndInv
<1>9. EndInv'
  BY <1>1 DEF IInv, TypeOK, counter_increment, At, GoTo, EndInv
<1>10. TerminationSound'
  <2>1. CASE allEnd' = allEnd
    BY <1>1, <2>1 DEF IInv, TerminationSound, Left
  <2>2. CASE end_counter + 1 = M
    \* everybody else is in the counter, so that nobody is handing work over
    <3>1. t \notin counted
      BY DEF IInv, CountInv, counter_increment, At
    <3>2. counted \cup {t} = Thread
      <4>1. Cardinality(counted \cup {t}) = M
        BY <2>2, <3>1, CountedFinite, FS_AddElement DEF IInv, CountInv
      <4>2. counted \cup {t} \in SUBSET Thread
        BY DEF TypeOK
      <4> QED
        BY <4>1, <4>2, TeamFinite, FS_Subset
    <3>3. \A v \in Thread : pc[v] # "uncount"
      BY <3>2 DEF IInv, CountInv, counter_increment, At
    <3>4. \A u \in Thread : todo[u] = {}
      <4>1. todo[t] = {}
        BY DEF IInv, IdleInv, counter_increment, At
      <4> QED
        BY <3>2, <3>3, <4>1 DEF IInv, HandedInv
    <3> QED
      BY <1>1, <3>4 DEF TerminationSound, Left
  <2> QED
    BY <2>1, <2>2 DEF counter_increment
<1>11. WorkConserved'
  BY <1>1 DEF IInv, TypeOK, counter_increment, At, GoTo, WorkConserved, Left
<1> QED
  BY <1>1, <1>2, <1>3, <1>4, <1>5, <1>6, <1>7, <1>8, <1>9, <1>10, <1>11 DEF IInv

\* A victim is selected before the request is made.
LEMMA Inv_select_victim ==
  ASSUME TypeOK, TypeOK', IInv, NEW t \in Thread, select_victim(t)
  PROVE  IInv'
<1>1. UNCHANGED <<todo, explored, got_work, requestQueue, receivedWork, thief,
                  cursor, allEnd, end_counter, counted>>
  BY DEF select_victim, SelectFrom, work, control, locals, signals
<1>2. PICK choice \in Thread : SelectFrom(t, choice)
  BY MoveToBackType, LeftNeighbourType DEF select_victim, TypeOK
<1>3. pc[t] = "select"
  BY DEF select_victim, At
<1>4. NoFatalExit'
  BY <1>1, <1>2, <1>3 DEF IInv, TypeOK, SelectFrom, At, GoTo, NoFatalExit, HeldInv,
     Serving, Waking, Requested
<1>5. QueueInv'
  <2>1. \A u, v \in Thread :
          pc[v] # "start" /\ Requested(u, v) /\ u \in counted /\ Queued(u, v)
            => Requested(u, v)' /\ u \in counted'
    BY <1>1, <1>2, <1>3 DEF TypeOK, SelectFrom, At, GoTo, Requested, Waits
  <2>2. \A v \in Thread : pc[v] = "start" => pc'[v] = "start"
    BY <1>1, <1>2, <1>3 DEF TypeOK, SelectFrom, At, GoTo
  <2> QED
    BY <1>1, <1>2, <1>3, <2>1, <2>2, KeepQueue DEF IInv
<1>6. HeldInv'
  <2>1. \A v \in Thread : (Serving(v)' => Serving(v)) /\ (Waking(v)' => Waking(v))
    BY <1>1, <1>2, <1>3 DEF TypeOK, SelectFrom, At, GoTo, Serving, Waking
  <2>2. \A v \in Thread :
          (Serving(v)' \/ Waking(v)') /\ Requested(thief[v], v)
            => Requested(thief[v], v)' /\ (thief[v] \in counted' <=> thief[v] \in counted)
    BY <1>1, <1>2, <1>3 DEF TypeOK, IInv, CountInv, EndInv, SelectFrom, At, GoTo,
       Requested, Waits, Serving, Waking
  <2> QED
    BY <1>1, <1>2, <1>3, <2>1, <2>2, KeepHeld DEF IInv
<1>7. CountInv'
  BY <1>1, <1>2, <1>3 DEF IInv, TypeOK, SelectFrom, At, GoTo, CountInv, HeldInv,
     Serving, Waking, Requested, Waits, VictimInv, EndInv
<1>8. IdleInv'
  BY <1>1, <1>2, <1>3 DEF IInv, TypeOK, SelectFrom, At, GoTo, IdleInv, HeldInv,
     Serving, Waking, Requested, Waits
<1>9. HandedInv'
  <2>1. \A v \in Thread : pc[v] = "uncount" => pc'[v] = "uncount"
    BY <1>1, <1>2, <1>3 DEF TypeOK, SelectFrom, At, GoTo
  <2> QED
    BY <1>1, <1>2, <1>3, <2>1, KeepHanded DEF IInv
<1>10. VictimInv'
  BY <1>1, <1>2, <1>3 DEF IInv, TypeOK, SelectFrom, At, GoTo, VictimInv, EndInv
<1>11. EndInv'
  BY <1>1, <1>2, <1>3 DEF IInv, TypeOK, SelectFrom, At, GoTo, EndInv
<1>12. TerminationSound' /\ WorkConserved'
  BY <1>1 DEF IInv, TerminationSound, Left, WorkConserved
<1> QED
  BY <1>1, <1>4, <1>5, <1>6, <1>7, <1>8, <1>9, <1>10, <1>11, <1>12 DEF IInv

\* An old signal is cleared before the request is made.
LEMMA Inv_ClearReceived ==
  ASSUME TypeOK, TypeOK', IInv, NEW t \in Thread, ClearReceived(t)
  PROVE  IInv'
<1>1. UNCHANGED <<todo, explored, got_work, requestQueue, thief, victim,
                  cursor, allEnd, end_counter, counted, victim_list>>
  BY DEF ClearReceived, work, control, locals, signals
<1>2. NoFatalExit'
  BY <1>1 DEF IInv, TypeOK, ClearReceived, At, GoTo, NoFatalExit, HeldInv, Serving,
     Waking, Requested
<1>3. QueueInv'
  BY <1>1 DEF IInv, TypeOK, ClearReceived, At, GoTo, QueueInv, Requested, Waits,
     EndInv, CountInv
<1>4. HeldInv'
  BY <1>1 DEF IInv, TypeOK, ClearReceived, At, GoTo, HeldInv, Serving, Waking,
     Queued, Requested, Waits, EndInv, QueueInv, CountInv
<1>5. CountInv'
  BY <1>1 DEF IInv, TypeOK, ClearReceived, At, GoTo, CountInv, HeldInv, Serving,
     Waking, Requested, Waits, VictimInv, EndInv
<1>6. IdleInv'
  BY <1>1 DEF IInv, TypeOK, ClearReceived, At, GoTo, IdleInv, HeldInv, Serving,
     Waking, Requested, Waits
<1>7. HandedInv'
  BY <1>1 DEF IInv, TypeOK, ClearReceived, At, GoTo, HandedInv, CountInv, IdleInv
<1>8. VictimInv'
  BY <1>1 DEF IInv, TypeOK, ClearReceived, At, GoTo, VictimInv, EndInv
<1>9. EndInv'
  BY <1>1 DEF IInv, TypeOK, ClearReceived, At, GoTo, EndInv
<1>10. TerminationSound' /\ WorkConserved'
  BY <1>1 DEF IInv, TerminationSound, Left, WorkConserved
<1> QED
  BY <1>1, <1>2, <1>3, <1>4, <1>5, <1>6, <1>7, <1>8, <1>9, <1>10 DEF IInv

\* The request goes to the end of a queue that does not hold it yet.
LEMMA Inv_push_request ==
  ASSUME TypeOK, TypeOK', IInv, NEW t \in Thread, push_request(t)
  PROVE  IInv'
<1>1. UNCHANGED <<todo, explored, got_work, receivedWork, thief, victim,
                  cursor, allEnd, end_counter, counted, victim_list>>
  BY DEF push_request, work, control, locals, signals
<1>2. /\ victim[t] \in Thread /\ victim[t] # t
      /\ t \in counted /\ ~got_work[t] /\ (~allEnd => ~receivedWork[t])
      /\ pc[t] = "push"
  BY DEF IInv, TypeOK, push_request, At, CountInv, IdleInv, VictimInv
<1>3. pc' = [pc EXCEPT ![t] = "check"]
  BY DEF push_request, GoTo
<1>4. requestQueue' = [requestQueue EXCEPT ![victim[t]] = Append(@, t)]
  BY DEF push_request
<1>5. /\ Requested(t, victim[t])'
      /\ \A u, v \in Thread : Requested(u, v) => Requested(u, v)' /\ u # t
  BY <1>1, <1>2, <1>3 DEF TypeOK, Requested, Waits
<1>6. NoFatalExit'
  BY <1>1, <1>2, <1>3, <1>4, <1>5 DEF IInv, TypeOK, At, GoTo, NoFatalExit, HeldInv,
     Serving, Waking, Requested
<1>7. QueueInv'
  <2> SUFFICES ASSUME NEW v \in Thread, pc'[v] # "start"
               PROVE  /\ \A i \in 1 .. Len(requestQueue'[v]) :
                           /\ Requested(requestQueue[v][i], v)'
                           /\ requestQueue'[v][i] \in counted'
                      /\ \A i, j \in 1 .. Len(requestQueue'[v]) :
                           requestQueue'[v][i] = requestQueue'[v][j] => i = j
    BY DEF QueueInv, Requested, Waits
  <2>1. pc[v] # "start"
    BY <1>2, <1>3
  <2>2. /\ requestQueue[v] \in Seq(Thread)
        /\ \A i \in 1 .. Len(requestQueue[v]) :
             /\ requestQueue[v][i] \in Thread \ {t}
             /\ requestQueue[v][i] \in counted
             /\ Requested(requestQueue[v][i], v)
        /\ \A i, j \in 1 .. Len(requestQueue[v]) :
             requestQueue[v][i] = requestQueue[v][j] => i = j
    BY <1>5, <2>1 DEF IInv, QueueInv, TypeOK
  <2>3. CASE v # victim[t]
    <3>1. requestQueue'[v] = requestQueue[v]
      BY <1>4, <2>3
    <3> QED
      BY <1>1, <1>5, <2>2, <3>1
  <2>4. CASE v = victim[t]
    <3>1. /\ requestQueue'[v] = Append(requestQueue[v], t)
          /\ Len(requestQueue'[v]) = Len(requestQueue[v]) + 1
          /\ requestQueue'[v][Len(requestQueue[v]) + 1] = t
          /\ \A i \in 1 .. Len(requestQueue[v]) :
               requestQueue'[v][i] = requestQueue[v][i]
      BY <1>4, <2>2, <2>4 DEF TypeOK
    <3>2. Requested(t, v)' /\ t \in counted'
      BY <1>1, <1>2, <1>5, <2>4
    <3>3. \A i \in 1 .. Len(requestQueue[v]) + 1 :
            i \in 1 .. Len(requestQueue[v]) \/ i = Len(requestQueue[v]) + 1
      OBVIOUS
    <3>4. ASSUME NEW i \in 1 .. Len(requestQueue'[v])
          PROVE  Requested(requestQueue[v][i], v)' /\ requestQueue'[v][i] \in counted'
      BY <1>1, <1>5, <2>2, <3>1, <3>2, <3>3
    <3>5. ASSUME NEW i \in 1 .. Len(requestQueue'[v]), NEW j \in 1 .. Len(requestQueue'[v]),
                 requestQueue'[v][i] = requestQueue'[v][j]
          PROVE  i = j
      BY <2>2, <3>1, <3>3, <3>5
    <3> QED
      BY <3>4, <3>5
  <2> QED
    BY <2>3, <2>4
<1>8. HeldInv'
  <2> SUFFICES ASSUME NEW v \in Thread, Serving(v)' \/ Waking(v)'
               PROVE  /\ Requested(thief[v], v)'
                      /\ ~Queued(thief[v], v)'
                      /\ Serving(v)' <=> thief[v] \in counted'
    BY <1>1 DEF HeldInv
  <2>1. /\ v # t
        /\ Serving(v) \/ Waking(v)
        /\ Serving(v)' <=> Serving(v)
    BY <1>3 DEF TypeOK, Serving, Waking
  <2>2. /\ thief[v] \in Thread
        /\ Requested(thief[v], v)
        /\ ~Queued(thief[v], v)
        /\ Serving(v) <=> thief[v] \in counted
    BY <2>1 DEF IInv, HeldInv, TypeOK
  <2>4. thief[v] # t /\ Requested(thief[v], v)'
    BY <1>1, <1>5, <2>2
  <2>3. ~Queued(thief[v], v)'
    <3> SUFFICES ASSUME NEW i \in 1 .. Len(requestQueue'[v]),
                        requestQueue'[v][i] = thief[v]
                 PROVE  FALSE
      BY <1>1 DEF Queued
    <3>1. requestQueue[v] \in Seq(Thread)
      BY DEF TypeOK
    <3>2. CASE v # victim[t]
      BY <1>4, <2>2, <3>2 DEF TypeOK, Queued
    <3>3. CASE v = victim[t]
      <4>1. requestQueue'[v] = Append(requestQueue[v], t)
        BY <1>4, <3>3 DEF TypeOK
      <4>2. i \in 1 .. Len(requestQueue[v]) => requestQueue[v][i] = thief[v]
        BY <4>1
      <4>3. i = Len(requestQueue[v]) + 1 => thief[v] = t
        BY <3>1, <4>1
      <4>4. i \in 1 .. Len(requestQueue[v]) \/ i = Len(requestQueue[v]) + 1
        BY <4>1
      <4> QED
        BY <2>2, <2>4, <4>2, <4>3, <4>4 DEF Queued
    <3> QED
      BY <3>2, <3>3
  <2> QED
    BY <1>1, <2>1, <2>2, <2>3, <2>4
<1>9. CountInv'
  BY <1>1, <1>2, <1>3, <1>4, <1>5 DEF IInv, TypeOK, At, GoTo, CountInv, HeldInv,
     Serving, Waking, Requested, Waits, VictimInv, EndInv
<1>10. IdleInv'
  BY <1>1, <1>2, <1>3, <1>4, <1>5 DEF IInv, TypeOK, At, GoTo, IdleInv, HeldInv,
     Serving, Waking, Requested, Waits
<1>11. HandedInv'
  BY <1>1, <1>2, <1>3, <1>4, <1>5 DEF IInv, TypeOK, At, GoTo, HandedInv, CountInv, IdleInv
<1>12. VictimInv'
  BY <1>1, <1>2, <1>3, <1>4, <1>5 DEF IInv, TypeOK, At, GoTo, VictimInv, EndInv
<1>13. EndInv'
  BY <1>1, <1>2, <1>3, <1>4, <1>5 DEF IInv, TypeOK, At, GoTo, EndInv
<1>14. TerminationSound' /\ WorkConserved'
  BY <1>1 DEF IInv, TerminationSound, Left, WorkConserved
<1> QED
  BY <1>1, <1>6, <1>7, <1>8, <1>9, <1>10, <1>11, <1>12, <1>13, <1>14 DEF IInv

\* Going to sleep, or not, leaves the request where it is.
LEMMA Inv_AwaitWork ==
  ASSUME TypeOK, TypeOK', IInv, NEW t \in Thread, AwaitWork(t)
  PROVE  IInv'
<1>1. UNCHANGED <<todo, explored, got_work, requestQueue, receivedWork, thief,
                  victim, cursor, allEnd, end_counter, counted, victim_list>>
  BY DEF AwaitWork, work, control, locals, signals
<1>2. NoFatalExit'
  BY <1>1 DEF IInv, TypeOK, AwaitWork, At, GoTo, NoFatalExit, HeldInv, Serving,
     Waking, Requested
<1>3. QueueInv'
  <2>1. \A u, v \in Thread :
          Requested(u, v) /\ u \in counted /\ Queued(u, v)
            => Requested(u, v)' /\ u \in counted'
    BY <1>1 DEF IInv, TypeOK, AwaitWork, At, GoTo, Requested, Waits, CountInv
  <2>2. \A v \in Thread : pc[v] = "start" => pc'[v] = "start"
    BY DEF TypeOK, AwaitWork, At, GoTo
  <2> QED
    BY <1>1, <2>1, <2>2, KeepQueue DEF IInv
<1>4. HeldInv'
  <2>1. \A v \in Thread : (Serving(v)' => Serving(v)) /\ (Waking(v)' => Waking(v))
    BY <1>1 DEF TypeOK, AwaitWork, At, GoTo, Serving, Waking
  <2>2. \A v \in Thread :
          (Serving(v)' \/ Waking(v)') /\ Requested(thief[v], v)
            => Requested(thief[v], v)' /\ (thief[v] \in counted' <=> thief[v] \in counted)
    BY <1>1 DEF TypeOK, IInv, CountInv, EndInv, AwaitWork, At, GoTo, Requested,
       Waits, Serving, Waking
  <2> QED
    BY <1>1, <2>1, <2>2, KeepHeld DEF IInv
<1>5. CountInv'
  BY <1>1 DEF IInv, TypeOK, AwaitWork, At, GoTo, CountInv, HeldInv, Serving, Waking,
     Requested, Waits, VictimInv, EndInv
<1>6. IdleInv'
  BY <1>1 DEF IInv, TypeOK, AwaitWork, At, GoTo, IdleInv, HeldInv, Serving, Waking,
     Requested, Waits
<1>7. HandedInv'
  BY <1>1 DEF IInv, TypeOK, AwaitWork, At, GoTo, HandedInv, CountInv, IdleInv
<1>8. VictimInv'
  BY <1>1 DEF IInv, TypeOK, AwaitWork, At, GoTo, VictimInv, EndInv
<1>9. EndInv'
  BY <1>1 DEF IInv, TypeOK, AwaitWork, At, GoTo, EndInv
<1>10. TerminationSound' /\ WorkConserved'
  BY <1>1 DEF IInv, TerminationSound, Left, WorkConserved
<1> QED
  BY <1>1, <1>2, <1>3, <1>4, <1>5, <1>6, <1>7, <1>8, <1>9, <1>10 DEF IInv

\* A spurious wakeup leaves the request where it is.
LEMMA Inv_SpuriousWakeup ==
  ASSUME TypeOK, TypeOK', IInv, NEW t \in Thread, SpuriousWakeup(t)
  PROVE  IInv'
<1>1. UNCHANGED <<todo, explored, got_work, requestQueue, receivedWork, thief,
                  victim, cursor, allEnd, end_counter, counted, victim_list>>
  BY DEF SpuriousWakeup, work, control, locals, signals
<1>2. NoFatalExit'
  BY <1>1 DEF IInv, TypeOK, SpuriousWakeup, At, GoTo, NoFatalExit, HeldInv, Serving,
     Waking, Requested
<1>3. QueueInv'
  <2>1. \A u, v \in Thread :
          Requested(u, v) /\ u \in counted /\ Queued(u, v)
            => Requested(u, v)' /\ u \in counted'
    BY <1>1 DEF IInv, TypeOK, SpuriousWakeup, At, GoTo, Requested, Waits, CountInv
  <2>2. \A v \in Thread : pc[v] = "start" => pc'[v] = "start"
    BY DEF TypeOK, SpuriousWakeup, At, GoTo
  <2> QED
    BY <1>1, <2>1, <2>2, KeepQueue DEF IInv
<1>4. HeldInv'
  <2>1. \A v \in Thread : (Serving(v)' => Serving(v)) /\ (Waking(v)' => Waking(v))
    BY <1>1 DEF TypeOK, SpuriousWakeup, At, GoTo, Serving, Waking
  <2>2. \A v \in Thread :
          (Serving(v)' \/ Waking(v)') /\ Requested(thief[v], v)
            => Requested(thief[v], v)' /\ (thief[v] \in counted' <=> thief[v] \in counted)
    BY <1>1 DEF TypeOK, IInv, CountInv, EndInv, SpuriousWakeup, At, GoTo, Requested,
       Waits, Serving, Waking
  <2> QED
    BY <1>1, <2>1, <2>2, KeepHeld DEF IInv
<1>5. CountInv'
  BY <1>1 DEF IInv, TypeOK, SpuriousWakeup, At, GoTo, CountInv, HeldInv, Serving,
     Waking, Requested, Waits, VictimInv, EndInv
<1>6. IdleInv'
  BY <1>1 DEF IInv, TypeOK, SpuriousWakeup, At, GoTo, IdleInv, HeldInv, Serving,
     Waking, Requested, Waits
<1>7. HandedInv'
  BY <1>1 DEF IInv, TypeOK, SpuriousWakeup, At, GoTo, HandedInv, CountInv, IdleInv
<1>8. VictimInv'
  BY <1>1 DEF IInv, TypeOK, SpuriousWakeup, At, GoTo, VictimInv, EndInv
<1>9. EndInv'
  BY <1>1 DEF IInv, TypeOK, SpuriousWakeup, At, GoTo, EndInv
<1>10. TerminationSound' /\ WorkConserved'
  BY <1>1 DEF IInv, TerminationSound, Left, WorkConserved
<1> QED
  BY <1>1, <1>2, <1>3, <1>4, <1>5, <1>6, <1>7, <1>8, <1>9, <1>10 DEF IInv

\* Whoever stops the team may do so.
LEMMA Inv_StoreAllEnd ==
  ASSUME TypeOK, TypeOK', IInv, NEW t \in Thread, StoreAllEnd(t)
  PROVE  IInv'
<1>1. UNCHANGED <<todo, explored, got_work, requestQueue, receivedWork, thief,
                  victim, end_counter, counted, victim_list>>
  BY DEF StoreAllEnd, work, control, locals, signals
<1>2. NoFatalExit'
  BY <1>1 DEF IInv, TypeOK, StoreAllEnd, At, GoTo, NoFatalExit, HeldInv, Serving,
     Waking, Requested
<1>3. QueueInv'
  <2>1. \A u, v \in Thread :
          Requested(u, v) /\ u \in counted /\ Queued(u, v)
            => Requested(u, v)' /\ u \in counted'
    BY <1>1 DEF IInv, TypeOK, StoreAllEnd, At, GoTo, Requested, Waits, CountInv
  <2>2. \A v \in Thread : pc[v] = "start" => pc'[v] = "start"
    BY DEF TypeOK, StoreAllEnd, At, GoTo
  <2> QED
    BY <1>1, <2>1, <2>2, KeepQueue DEF IInv
<1>4. HeldInv'
  <2>1. \A v \in Thread : (Serving(v)' => Serving(v)) /\ (Waking(v)' => Waking(v))
    BY <1>1 DEF TypeOK, StoreAllEnd, At, GoTo, Serving, Waking
  <2>2. \A v \in Thread :
          (Serving(v)' \/ Waking(v)') /\ Requested(thief[v], v)
            => Requested(thief[v], v)' /\ (thief[v] \in counted' <=> thief[v] \in counted)
    BY <1>1 DEF TypeOK, IInv, CountInv, EndInv, StoreAllEnd, At, GoTo, Requested,
       Waits, Serving, Waking
  <2> QED
    BY <1>1, <2>1, <2>2, KeepHeld DEF IInv
<1>5. CountInv'
  BY <1>1 DEF IInv, TypeOK, StoreAllEnd, At, GoTo, CountInv, HeldInv, Serving,
     Waking, Requested, Waits, VictimInv, EndInv
<1>6. IdleInv'
  BY <1>1 DEF IInv, TypeOK, StoreAllEnd, At, GoTo, IdleInv, HeldInv, Serving,
     Waking, Requested, Waits
<1>7. HandedInv'
  <2>1. \A v \in Thread : pc[v] = "uncount" /\ thief[v] \in counted' =>
                            pc'[v] = "uncount" /\ thief'[v] = thief[v]
    BY <1>1 DEF TypeOK, StoreAllEnd, At, GoTo
  <2>2. counted' \subseteq counted /\ \A u \in counted' : todo'[u] # {} => todo[u] # {}
    BY <1>1 DEF StoreAllEnd
  <2> QED
    BY <2>1, <2>2, KeepHanded DEF IInv
<1>8. VictimInv'
  BY <1>1 DEF IInv, TypeOK, StoreAllEnd, At, GoTo, VictimInv, EndInv
<1>9. EndInv'
  BY <1>1 DEF IInv, TypeOK, StoreAllEnd, At, GoTo, EndInv
<1>10. TerminationSound'
  <2>1. singleNode => allEnd
    BY DEF IInv, EndInv, StoreAllEnd, At
  <2> QED
    BY <1>1, <2>1 DEF IInv, TerminationSound, Left
<1>11. WorkConserved'
  BY <1>1 DEF IInv, TypeOK, StoreAllEnd, At, GoTo, WorkConserved, Left
<1> QED
  BY <1>1, <1>2, <1>3, <1>4, <1>5, <1>6, <1>7, <1>8, <1>9, <1>10, <1>11 DEF IInv

\* Waking everybody at the end disturbs nobody who is served.
LEMMA Inv_unlockWaiting ==
  ASSUME TypeOK, TypeOK', IInv, NEW t \in Thread, unlockWaiting(t)
  PROVE  IInv'
<1>1. UNCHANGED <<todo, explored, got_work, requestQueue, thief, victim,
                  allEnd, end_counter, counted, victim_list>>
  BY DEF unlockWaiting, Signal, work, control, locals, signals
<1>2. allEnd /\ pc[t] = "unlock"
  BY DEF IInv, EndInv, unlockWaiting, At
<1>3. \A u \in Thread :
        \/ pc'[u] = pc[u]
        \/ pc[u] = "asleep" /\ pc'[u] = "check"
        \/ u = t /\ pc'[u] = "atEnd"
  BY <1>2 DEF TypeOK, unlockWaiting, Signal, GoTo
<1>4. NoFatalExit'
  BY <1>1, <1>2, <1>3 DEF IInv, NoFatalExit, At
<1>5. QueueInv'
  <2>1. \A u, v \in Thread :
          pc[v] # "start" /\ Requested(u, v) /\ u \in counted /\ Queued(u, v)
            => Requested(u, v)' /\ u \in counted'
    BY <1>1, <1>2, <1>3 DEF TypeOK, At, GoTo, Requested, Waits
  <2>2. \A v \in Thread : pc[v] = "start" => pc'[v] = "start"
    BY <1>1, <1>2, <1>3
  <2> QED
    BY <1>1, <1>2, <1>3, <2>1, <2>2, KeepQueue DEF IInv
<1>6. HeldInv'
  <2>1. \A v \in Thread : (Serving(v)' => Serving(v)) /\ (Waking(v)' => Waking(v))
    BY <1>1, <1>2, <1>3 DEF TypeOK, At, GoTo, Serving, Waking
  <2>2. \A v \in Thread :
          (Serving(v)' \/ Waking(v)') /\ Requested(thief[v], v)
            => Requested(thief[v], v)' /\ (thief[v] \in counted' <=> thief[v] \in counted)
    BY <1>1, <1>2, <1>3 DEF TypeOK, IInv, CountInv, EndInv, At, GoTo, Requested,
       Waits, Serving, Waking
  <2> QED
    BY <1>1, <1>2, <1>3, <2>1, <2>2, KeepHeld DEF IInv
<1>7. CountInv'
  <2>1. \A u \in Thread : pc'[u] = pc[u] \/ pc'[u] \in {"check", "atEnd"}
    BY <1>2, <1>3
  <2>2. end_counter' = Cardinality(counted')
    BY <1>1, <1>2, <1>3 DEF IInv, CountInv
  <2> QED
    BY <1>1, <1>2, <1>3, <2>1, <2>2 DEF IInv, CountInv
<1>8. IdleInv'
  BY <1>1, <1>2, <1>3 DEF IInv, TypeOK, At, GoTo, IdleInv, HeldInv, Serving, Waking,
     Requested, Waits
<1>9. HandedInv'
  <2>1. \A v \in Thread : pc[v] = "uncount" => pc'[v] = "uncount"
    BY <1>1, <1>2, <1>3
  <2> QED
    BY <1>1, <1>2, <1>3, <2>1, KeepHanded DEF IInv
<1>10. VictimInv'
  BY <1>1, <1>2, <1>3 DEF IInv, TypeOK, At, GoTo, VictimInv, EndInv
<1>11. EndInv'
  BY <1>1, <1>2, <1>3 DEF EndInv
<1>12. TerminationSound' /\ WorkConserved'
  BY <1>1 DEF IInv, TerminationSound, Left, WorkConserved
<1> QED
  BY <1>1, <1>4, <1>5, <1>6, <1>7, <1>8, <1>9, <1>10, <1>11, <1>12 DEF IInv

\* The team leaves the last barrier.
LEMMA Inv_EndBarrier ==
  ASSUME TypeOK, TypeOK', IInv, EndBarrier
  PROVE  IInv'
<1>1. UNCHANGED <<todo, explored, got_work, requestQueue, receivedWork, thief,
                  victim, cursor, allEnd, end_counter, counted, victim_list>>
  BY DEF EndBarrier, work, control, locals, signals
<1>2. NoFatalExit'
  BY <1>1 DEF IInv, TypeOK, EndBarrier, At, GoTo, NoFatalExit, HeldInv, Serving,
     Waking, Requested
<1>3. QueueInv'
  <2>1. \A u, v \in Thread :
          Requested(u, v) /\ u \in counted /\ Queued(u, v)
            => Requested(u, v)' /\ u \in counted'
    BY <1>1 DEF IInv, TypeOK, EndBarrier, At, GoTo, Requested, Waits, EndInv
  <2>2. \A v \in Thread : pc[v] = "start" => pc'[v] = "start"
    BY DEF TypeOK, EndBarrier, At, GoTo
  <2> QED
    BY <1>1, <2>1, <2>2, KeepQueue DEF IInv
<1>4. HeldInv'
  BY <1>1 DEF IInv, TypeOK, EndBarrier, At, GoTo, HeldInv, Serving, Waking, Queued,
     Requested, Waits, EndInv, QueueInv, CountInv
<1>5. CountInv'
  BY <1>1 DEF IInv, TypeOK, EndBarrier, At, GoTo, CountInv, HeldInv, Serving,
     Waking, Requested, Waits, VictimInv, EndInv
<1>6. IdleInv'
  BY <1>1 DEF IInv, TypeOK, EndBarrier, At, GoTo, IdleInv, HeldInv, Serving, Waking,
     Requested, Waits
<1>7. HandedInv'
  BY <1>1 DEF IInv, TypeOK, EndBarrier, At, GoTo, HandedInv, CountInv, IdleInv
<1>8. VictimInv'
  BY <1>1 DEF IInv, TypeOK, EndBarrier, At, GoTo, VictimInv, EndInv
<1>9. EndInv'
  BY <1>1 DEF IInv, TypeOK, EndBarrier, At, GoTo, EndInv
<1>10. TerminationSound' /\ WorkConserved'
  BY <1>1 DEF IInv, TerminationSound, Left, WorkConserved
<1> QED
  BY <1>1, <1>2, <1>3, <1>4, <1>5, <1>6, <1>7, <1>8, <1>9, <1>10 DEF IInv

\* A new round starts with nobody counted.
LEMMA Inv_NextRound ==
  ASSUME TypeOK, TypeOK', IInv, NextRound
  PROVE  IInv'
<1>1. UNCHANGED <<explored, got_work, requestQueue, receivedWork, thief,
                  victim, cursor>>
  BY DEF NextRound, Left, ListsFor, work, control, locals, signals
<1>2. NoFatalExit'
  BY <1>1 DEF IInv, TypeOK, NextRound, Left, ListsFor, At, GoTo, NoFatalExit,
     HeldInv, Serving, Waking, Requested
<1>3. QueueInv'
  BY <1>1 DEF IInv, TypeOK, NextRound, Left, ListsFor, At, GoTo, QueueInv,
     Requested, Waits, EndInv, CountInv
<1>4. HeldInv'
  BY <1>1 DEF IInv, TypeOK, NextRound, Left, ListsFor, At, GoTo, HeldInv, Serving,
     Waking, Queued, Requested, Waits, EndInv, QueueInv, CountInv
<1>5. CountInv'
  <2>1. \A u \in Thread : pc'[u] = "start"
    BY DEF NextRound
  <2> QED
    BY <2>1, FS_EmptySet DEF NextRound, CountInv
<1>6. IdleInv'
  BY <1>1 DEF IInv, TypeOK, NextRound, Left, ListsFor, At, GoTo, IdleInv, HeldInv,
     Serving, Waking, Requested, Waits
<1>7. HandedInv'
  BY <1>1 DEF IInv, TypeOK, NextRound, Left, ListsFor, At, GoTo, HandedInv,
     CountInv, IdleInv
<1>8. VictimInv'
  BY <1>1 DEF IInv, TypeOK, NextRound, Left, ListsFor, At, GoTo, VictimInv, EndInv
<1>9. EndInv'
  BY <1>1 DEF IInv, TypeOK, NextRound, Left, ListsFor, At, GoTo, EndInv
<1>10. TerminationSound'
  BY <1>1 DEF IInv, TypeOK, NextRound, Left, ListsFor, At, GoTo, TerminationSound, Left
<1>11. WorkConserved'
  <2>1. CASE todo' = todo
    BY <1>1, <2>1 DEF IInv, WorkConserved, Left
  <2>2. ASSUME NEW owner \in [Left -> Thread],
               todo' = [t \in Thread |-> {x \in Left : owner[x] = t}]
        PROVE  WorkConserved'
    <3>1. Left' = Left
      BY <2>2 DEF Left
    <3>2. \A t, u \in Thread : t # u => todo'[t] \cap todo'[u] = {}
      BY <2>2
    <3> QED
      BY <1>1, <3>1, <3>2 DEF IInv, WorkConserved
  <2> QED
    BY <2>1, <2>2 DEF NextRound
<1> QED
  BY <1>1, <1>2, <1>3, <1>4, <1>5, <1>6, <1>7, <1>8, <1>9, <1>10, <1>11 DEF IInv

\* The oldest request is taken out of the queue, to be answered or cancelled.
LEMMA PullRequestInv ==
  ASSUME TypeOK, TypeOK', IInv, NEW t \in Thread, NEW l,
         (pc[t] = "serve" /\ l = "share") \/ (pc[t] = "drain" /\ l = "cancel"),
         pull_request(t, l)
  PROVE  IInv'
<1> DEFINE n == Len(requestQueue[t])
<1>1. UNCHANGED <<todo, explored, got_work, receivedWork, victim, cursor,
                  allEnd,
                  end_counter, counted, victim_list>>
  BY DEF pull_request, work, control, signals
<1>2. /\ requestQueue[t] \in Seq(Thread) /\ requestQueue[t] # <<>>
      /\ n \in Nat /\ n > 0
      /\ Head(requestQueue[t]) = requestQueue[t][1]
      /\ requestQueue[t][1] \in Thread
      /\ Tail(requestQueue[t]) \in Seq(Thread)
      /\ Len(Tail(requestQueue[t])) = n - 1
      /\ \A i \in 1 .. n - 1 : Tail(requestQueue[t])[i] = requestQueue[t][i + 1]
  BY DEF pull_request, TypeOK
<1>3. pc' = [pc EXCEPT ![t] = l]
  <2>1. Len(requestQueue[t]) < M
    BY QueueShort DEF IInv
  <2>2. ~(Len(requestQueue[t]) >= M)
    BY <2>1, <1>2, MAssumption
  <2> QED
    BY <2>2 DEF pull_request, GoTo
<1>4. PICK h \in Thread : h = requestQueue[t][1]
  BY <1>2
<1>5. /\ thief' = [thief EXCEPT ![t] = h]
      /\ requestQueue' = [requestQueue EXCEPT ![t] = Tail(requestQueue[t])]
  BY <1>2, <1>4 DEF pull_request
<1>6. /\ Requested(h, t)
      /\ h \in counted
  <2>1. 1 \in 1 .. Len(requestQueue[t]) /\ h = requestQueue[t][1]
    BY <1>2, <1>4
  <2> QED
    BY <2>1 DEF IInv, QueueInv
<1>7. ~Queued(h, t)'
  <2> SUFFICES ASSUME NEW i \in 1 .. Len(requestQueue'[t]), requestQueue'[t][i] = h
               PROVE  FALSE
    BY DEF Queued
  <2>1. requestQueue'[t] = Tail(requestQueue[t])
    BY <1>5 DEF TypeOK
  <2>2. i + 1 \in 1 .. n /\ 1 \in 1 .. n /\ i + 1 # 1 /\ requestQueue[t][i + 1] = h
    BY <2>1
  <2> QED
    BY <1>4, <2>2 DEF IInv, QueueInv
<1>8. \A u, v \in Thread : Requested(u, v) => Requested(u, v)' /\ u # t
  BY <1>1, <1>3 DEF TypeOK, Requested, Waits
<1>9. NoFatalExit'
  BY <1>3 DEF IInv, TypeOK, NoFatalExit, At
<1>10. QueueInv'
  <2> SUFFICES ASSUME NEW v \in Thread, pc'[v] # "start"
               PROVE  /\ \A i \in 1 .. Len(requestQueue'[v]) :
                           /\ Requested(requestQueue[v][i], v)'
                           /\ requestQueue'[v][i] \in counted'
                      /\ \A i, j \in 1 .. Len(requestQueue'[v]) :
                           requestQueue'[v][i] = requestQueue'[v][j] => i = j
    BY DEF QueueInv
  <2>1. pc[v] # "start"
    BY <1>3
  <2>2. /\ requestQueue[v] \in Seq(Thread)
        /\ \A i \in 1 .. Len(requestQueue[v]) :
             /\ requestQueue[v][i] \in Thread
             /\ requestQueue[v][i] \in counted
             /\ Requested(requestQueue[v][i], v)
        /\ \A i, j \in 1 .. Len(requestQueue[v]) :
             requestQueue[v][i] = requestQueue[v][j] => i = j
    BY <2>1 DEF IInv, QueueInv, TypeOK
  <2>3. CASE v # t
    <3>1. requestQueue'[v] = requestQueue[v]
      BY <1>5, <2>3
    <3> QED
      BY <1>1, <1>8, <2>2, <3>1
  <2>4. CASE v = t
    <3>1. requestQueue'[v] = Tail(requestQueue[v])
      BY <1>5, <2>4 DEF TypeOK
    <3>2. \A i \in 1 .. Len(requestQueue'[v]) :
            /\ i \in Nat
            /\ i + 1 \in 1 .. Len(requestQueue[v])
            /\ requestQueue'[v][i] = requestQueue[v][i + 1]
      BY <2>4, <3>1
    <3>3. ASSUME NEW i \in 1 .. Len(requestQueue'[v])
          PROVE  Requested(requestQueue[v][i], v)' /\ requestQueue'[v][i] \in counted'
      BY <1>1, <1>8, <2>2, <3>2
    <3>4. ASSUME NEW i \in 1 .. Len(requestQueue'[v]), NEW j \in 1 .. Len(requestQueue'[v]),
                 requestQueue'[v][i] = requestQueue'[v][j]
          PROVE  i = j
      <4>1. i + 1 = j + 1
        BY <2>2, <3>2, <3>4
      <4> QED
        BY <4>1
    <3> QED
      BY <3>3, <3>4
  <2> QED
    BY <2>3, <2>4
<1>11. HeldInv'
  <2> SUFFICES ASSUME NEW v \in Thread, Serving(v)' \/ Waking(v)'
               PROVE  /\ Requested(thief[v], v)'
                      /\ ~Queued(thief[v], v)'
                      /\ Serving(v)' <=> thief'[v] \in counted'
    BY DEF HeldInv
  <2>1. CASE v = t
    <3>1. thief'[v] = h
      BY <1>5, <2>1 DEF TypeOK
    <3>2. Serving(v)'
      BY <1>3, <2>1 DEF TypeOK, Serving
    <3> QED
      BY <1>1, <1>6, <1>7, <1>8, <2>1, <3>1, <3>2
  <2>2. CASE v # t
    <3>1. /\ Serving(v) \/ Waking(v)
          /\ Serving(v)' <=> Serving(v)
      BY <1>3, <2>2 DEF TypeOK, Serving, Waking
    <3>2. thief'[v] = thief[v] /\ requestQueue'[v] = requestQueue[v] /\ thief[v] \in Thread
      BY <1>5, <2>2 DEF TypeOK
    <3>3. ~Queued(thief[v], v)'
      BY <3>1, <3>2 DEF IInv, HeldInv, Queued
    <3> QED
      BY <1>1, <1>8, <3>1, <3>2, <3>3 DEF IInv, HeldInv
  <2> QED
    BY <2>1, <2>2
<1>12. CountInv'
  BY <1>1, <1>3 DEF IInv, CountInv, TypeOK
<1>13. IdleInv'
  BY <1>1, <1>3 DEF IInv, IdleInv, TypeOK
<1>14. HandedInv'
  <2>1. \A v \in Thread : pc[v] = "uncount" => pc'[v] = "uncount" /\ thief'[v] = thief[v]
    BY <1>3, <1>5
  <2> QED
    BY <1>1, <2>1, KeepHanded DEF IInv
<1>15. VictimInv'
  BY <1>1, <1>3 DEF IInv, VictimInv, TypeOK
<1>16. EndInv'
  BY <1>1, <1>3 DEF IInv, EndInv, TypeOK
<1>17. TerminationSound' /\ WorkConserved'
  BY <1>1 DEF IInv, TerminationSound, WorkConserved, Left
<1> QED
  BY <1>9, <1>10, <1>11, <1>12, <1>13, <1>14, <1>15, <1>16, <1>17 DEF IInv

\* There is no request to answer or to cancel.
LEMMA NoRequestInv ==
  ASSUME TypeOK, TypeOK', IInv, NEW t \in Thread, NEW l,
         (pc[t] = "serve" /\ l = "loopTest") \/ (pc[t] = "drain" /\ l = "select"),
         NoRequest(t, l)
  PROVE  IInv'
<1>1. UNCHANGED <<todo, explored, got_work, requestQueue, receivedWork, thief,
                  victim,
                  cursor, allEnd, end_counter, counted, victim_list>>
  BY DEF NoRequest, work, control, locals, signals
<1>2. pc' = [pc EXCEPT ![t] = l]
  BY DEF NoRequest, GoTo
<1>3. NoFatalExit'
  BY <1>2 DEF IInv, TypeOK, NoFatalExit, At
<1>4. QueueInv'
  <2>1. \A u, v \in Thread : Requested(u, v) => Requested(u, v)'
    BY <1>1, <1>2 DEF TypeOK, Requested, Waits
  <2>2. \A v \in Thread : pc[v] = "start" => pc'[v] = "start"
    BY <1>2
  <2> QED
    BY <1>1, <2>1, <2>2, KeepQueue DEF IInv
<1>5. HeldInv'
  <2>1. \A v \in Thread : (Serving(v)' => Serving(v)) /\ (Waking(v)' => Waking(v))
    BY <1>2 DEF TypeOK, Serving, Waking
  <2>2. \A v \in Thread : Requested(thief[v], v) => Requested(thief[v], v)'
    BY <1>1, <1>2 DEF TypeOK, Requested, Waits
  <2> QED
    BY <1>1, <2>1, <2>2, KeepHeld DEF IInv
<1>6. CountInv'
  BY <1>1, <1>2 DEF IInv, CountInv, TypeOK
<1>7. IdleInv'
  BY <1>1, <1>2 DEF IInv, IdleInv, TypeOK
<1>8. HandedInv'
  <2>1. \A v \in Thread : pc[v] = "uncount" => pc'[v] = "uncount"
    BY <1>2
  <2> QED
    BY <1>1, <2>1, KeepHanded DEF IInv
<1>9. VictimInv'
  BY <1>1, <1>2 DEF IInv, VictimInv, TypeOK
<1>10. EndInv'
  BY <1>1, <1>2 DEF IInv, EndInv, TypeOK
<1>11. TerminationSound' /\ WorkConserved'
  BY <1>1 DEF IInv, TerminationSound, WorkConserved, Left
<1> QED
  BY <1>3, <1>4, <1>5, <1>6, <1>7, <1>8, <1>9, <1>10, <1>11 DEF IInv

\* A thread with work pulls a request, if there is one.
LEMMA Inv_try_answer_request ==
  ASSUME TypeOK, TypeOK', IInv, NEW t \in Thread, try_answer_request(t)
  PROVE  IInv'
<1>1. CASE pull_request(t, "share")
  BY <1>1, PullRequestInv DEF try_answer_request, At
<1>2. CASE NoRequest(t, "loopTest")
  BY <1>2, NoRequestInv DEF try_answer_request, At
<1> QED
  BY <1>1, <1>2 DEF try_answer_request

\* A thread without work pulls a request that is not its own, if there is one.
LEMMA Inv_Drain ==
  ASSUME TypeOK, TypeOK', IInv, NEW t \in Thread, Drain(t)
  PROVE  IInv'
<1>1. pc[t] = "drain"
  BY DEF Drain, At
<1>2. CASE requestQueue[t] # <<>>
           /\ pull_request(t, IF Head(requestQueue[t]) = t THEN "fatal" ELSE "cancel")
  <2>1. Head(requestQueue[t]) # t
    <3>1. 1 \in 1 .. Len(requestQueue[t]) /\ Head(requestQueue[t]) = requestQueue[t][1]
      BY <1>2
    <3> QED
      BY <1>1, <3>1 DEF IInv, QueueInv, Requested
  <2> QED
    BY <1>1, <1>2, <2>1, PullRequestInv
<1>3. CASE NoRequest(t, "select")
  BY <1>1, <1>3, NoRequestInv
<1> QED
  BY <1>2, <1>3 DEF Drain

-----------------------------------------------------------------------------
(* The invariant. *)

\* The invariant holds at first: nobody is counted and no queue is looked at.
LEMMA Inv_Init ==
  ASSUME Init
  PROVE  IInv
<1>1. /\ pc = [t \in Thread |-> "start"]
      /\ counted = {} /\ end_counter = 0 /\ explored = {}
      /\ allEnd = FALSE
  BY Zenon DEF Init
<1>2. NoFatalExit /\ QueueInv /\ HeldInv /\ IdleInv /\ HandedInv /\ VictimInv /\ EndInv
  BY <1>1 DEF NoFatalExit, At, QueueInv, HeldInv, Serving, Waking, IdleInv,
     HandedInv, VictimInv, EndInv
<1>3. CountInv
  BY <1>1, FS_EmptySet DEF CountInv
<1>4. TerminationSound
  BY <1>1 DEF TerminationSound
<1>5. WorkConserved
  <2>1. CASE singleNode
    <3>1. todo = [t \in Thread |-> IF t = 0 THEN Leaf ELSE {}]
      BY <2>1 DEF Init, InitFullInterval
    <3>2. 0 \in Thread
      BY MAssumption DEF Thread
    <3>3. Left = Leaf
      BY <3>1, <3>2 DEF Left
    <3>4. \A t, u \in Thread : t # u => todo[t] \cap todo[u] = {}
      BY <3>1
    <3> QED
      BY <1>1, <3>3, <3>4 DEF WorkConserved
  <2>2. CASE ~singleNode
    <3>1. PICK owner \in [Leaf -> Thread] :
            todo = [t \in Thread |-> {x \in Leaf : owner[x] = t}]
      BY <2>2 DEF Init, InitFromFac
    <3>2. Left = Leaf
      BY <3>1 DEF Left
    <3>3. \A t, u \in Thread : t # u => todo[t] \cap todo[u] = {}
      BY <3>1
    <3> QED
      BY <1>1, <3>2, <3>3 DEF WorkConserved
  <2> QED
    BY <2>1, <2>2
<1> QED
  BY <1>2, <1>3, <1>4, <1>5 DEF IInv

\* The invariant does not depend on anything but the variables.
LEMMA Inv_Stutter ==
  ASSUME IInv, UNCHANGED vars
  PROVE  IInv'
BY DEF vars, IInv, NoFatalExit, At, QueueInv, HeldInv, Queued, Serving, Waking, CountInv, IdleInv, HandedInv, VictimInv, EndInv, TerminationSound, WorkConserved, Left, Requested, Waits

\* The protocol's invariant: requests, hands, counter and work fit together in
\* every state, whatever the number of threads.
THEOREM Invariant == Spec => []IInv
<1>1. Init => IInv
  BY Inv_Init
<1>2. TypeOK /\ TypeOK' /\ IInv /\ [Next]_vars => IInv'
  <2> SUFFICES ASSUME TypeOK, TypeOK', IInv, [Next]_vars
               PROVE  IInv'
    OBVIOUS
  <2>1. ASSUME NEW t \in Thread, Step(t)
        PROVE  IInv'
    BY <2>1, Inv_reset_requestQueue, Inv_next, Inv_set_workState,
       Inv_try_answer_request, Inv_work_share, Inv_Uncount, Inv_Wake, Inv_LoopTest,
       Inv_GoIdle, Inv_counter_increment, Inv_Drain, Inv_Cancel, Inv_Wake2,
       Inv_select_victim, Inv_UncountSelf, Inv_ClearReceived, Inv_push_request,
       Inv_AwaitWork, Inv_StoreAllEnd, Inv_unlockWaiting DEF Step
  <2>2. ASSUME NEW t \in Thread, SpuriousWakeup(t)
        PROVE  IInv'
    BY <2>2, Inv_SpuriousWakeup
  <2>3. CASE StartBarrier
    BY <2>3, Inv_StartBarrier
  <2>4. CASE EndBarrier
    BY <2>4, Inv_EndBarrier
  <2>5. CASE NextRound
    BY <2>5, Inv_NextRound
  <2>6. CASE Terminated \/ UNCHANGED vars
    BY <2>6, Inv_Stutter DEF Terminated
  <2> QED
    BY <2>1, <2>2, <2>3, <2>4, <2>5, <2>6 DEF Next
<1> QED
  BY <1>1, <1>2, TypeCorrect, PTL DEF Spec

\* No error exit of the protocol is reachable.
THEOREM NeverFatal == Spec => []NoFatalExit
<1>1. IInv => NoFatalExit
  BY DEF IInv
<1> QED
  BY <1>1, Invariant, PTL

\* Stealing neither loses nor copies a leaf.
THEOREM WorkIsConserved == Spec => []WorkConserved
<1>1. IInv => WorkConserved
  BY DEF IInv
<1> QED
  BY <1>1, Invariant, PTL

\* A standalone team stops only when nothing is left to explore.
THEOREM TerminationIsSound == Spec => []TerminationSound
<1>1. IInv => TerminationSound
  BY DEF IInv
<1> QED
  BY <1>1, Invariant, PTL

\* The termination counter is exact.
THEOREM CounterIsExact == Spec => []CounterExact
<1>1. IInv => CounterExact
  BY DEF IInv, CountInv, CounterExact
<1> QED
  BY <1>1, Invariant, PTL

-----------------------------------------------------------------------------
(* The pool of work. *)

\* The initial intervals are an initial pool.
LEMMA PoolInit ==
  ASSUME Init
  PROVE  Pool!Init
<1>1. WorkConserved /\ allEnd = FALSE
  BY Inv_Init, Zenon DEF IInv, Init
<1>2. todo \in [Thread -> SUBSET Leaf]
  BY DEF Init, InitFullInterval, InitFromFac
<1> QED
  BY <1>1, <1>2 DEF Pool!Init, Pool!Disjoint, WorkConserved

\* A step of the team is a step of the pool, or does not concern it.
LEMMA PoolStep ==
  ASSUME TypeOK, TypeOK', IInv, IInv', [Next]_vars
  PROVE  [Pool!Next]_<<todo, allEnd>>
<1>1. ASSUME NEW t \in Thread, next(t)
      PROVE  Pool!Explore(t)
  <2>1. PICK rest \in Tails(todo[t]) : todo' = [todo EXCEPT ![t] = rest]
    BY <1>1 DEF next
  <2>2. rest \subseteq todo[t]
    BY TailsSubset
  <2>3. allEnd' = allEnd
    BY <1>1 DEF next, control
  <2> QED
    BY <2>1, <2>2, <2>3 DEF Pool!Explore, TypeOK
<1>2. ASSUME NEW t \in Thread, work_share(t)
      PROVE  Pool!Steal(t, thief[t]) \/ UNCHANGED <<todo, allEnd>>
  <2>1. allEnd' = allEnd
    BY <1>2 DEF work_share, control
  <2>2. Serving(t)
    BY <1>2 DEF work_share, At, Serving
  <2>3. thief[t] \in Thread /\ thief[t] # t /\ thief[t] \in counted
    BY <2>2, HeldWaits DEF IInv
  <2>4. todo[thief[t]] = {}
    <3>1. \A v \in Thread : pc[v] = "uncount" => thief[v] # thief[t]
      <4>1. \A v \in Thread : pc[v] = "uncount" => Serving(v) /\ v # t
        BY <1>2 DEF Serving, work_share, At
      <4> QED
        BY <2>2, <4>1, HeldOnce DEF IInv
    <3> QED
      BY <2>3, <3>1 DEF IInv, HandedInv
  <2>5. CASE todo' # todo
    <3>1. (Tails(todo[t]) \ {todo[t]}) \cup {{}} \subseteq SUBSET todo[t]
      BY TailsSubset
    <3>2. PICK part \in SUBSET todo[t] :
            todo' = [todo EXCEPT ![t] = @ \ part, ![thief[t]] = part]
      BY <1>2, <2>5, <3>1 DEF work_share
    <3>3. todo'[thief[t]] = part
      BY <2>3, <3>2 DEF TypeOK
    <3> QED
      BY <2>1, <2>3, <2>4, <3>2, <3>3 DEF Pool!Steal
  <2> QED
    BY <2>1, <2>5
<1>3. ASSUME NEW t \in Thread, counter_increment(t) \/ StoreAllEnd(t)
      PROVE  Pool!Stop \/ UNCHANGED <<todo, allEnd>>
  <2>1. todo' = todo
    BY <1>3 DEF counter_increment, StoreAllEnd, work
  <2>2. allEnd' = TRUE \/ allEnd' = allEnd
    BY <1>3 DEF counter_increment, StoreAllEnd
  <2>3. ASSUME allEnd' = TRUE
        PROVE  singleNode => Pool!Left = {}
    BY <2>1, <2>3 DEF IInv, TerminationSound, Left, Pool!Left
  <2> QED
    BY <2>1, <2>2, <2>3 DEF Pool!Stop
<1>4. ASSUME NEW t \in Thread,
             \/ reset_requestQueue(t) \/ set_workState(t) \/ try_answer_request(t)
             \/ Uncount(t) \/ Wake(t, "wake", "loopTest") \/ LoopTest(t) \/ GoIdle(t)
             \/ Drain(t) \/ Cancel(t) \/ Wake(t, "release", "drain")
             \/ select_victim(t) \/ UncountSelf(t) \/ ClearReceived(t)
             \/ push_request(t) \/ AwaitWork(t) \/ SpuriousWakeup(t)
             \/ unlockWaiting(t)
      PROVE  UNCHANGED <<todo, allEnd>>
  BY <1>4 DEF reset_requestQueue, set_workState, try_answer_request, pull_request,
     NoRequest, Uncount, Cancel, UncountSelf, counter_decrement, Wake, LoopTest,
     GoIdle, Drain, select_victim, ClearReceived, push_request, AwaitWork,
     SpuriousWakeup, unlockWaiting, work, control
<1>5. CASE NextRound
  <2>1. allEnd /\ ~singleNode /\ allEnd' = FALSE
    <3>1. 0 \in Thread
      BY MAssumption DEF Thread
    <3> QED
      BY <1>5, <3>1 DEF NextRound, IInv, EndInv, At
  <2>2. Left' = Left
    <3>1. CASE todo' = todo
      BY <3>1 DEF Left
    <3>2. ASSUME NEW owner \in [Left -> Thread],
                 todo' = [t \in Thread |-> {x \in Left : owner[x] = t}]
          PROVE  Left' = Left
      BY <3>2 DEF Left
    <3> QED
      BY <1>5, <3>1, <3>2 DEF NextRound
  <2>3. todo' \in [Thread -> SUBSET Pool!Left]
    <3>1. \A t \in Thread : todo'[t] \subseteq Left
      BY <2>2 DEF Left
    <3> QED
      BY <3>1 DEF TypeOK, Left, Pool!Left
  <2>4. \A t, u \in Thread : t # u => todo'[t] \cap todo'[u] = {}
    BY DEF IInv, WorkConserved
  <2>5. UNION {todo'[e] : e \in Thread} = Pool!Left
    BY <2>2 DEF Left, Pool!Left
  <2>6. Pool!Restart
    BY <2>1, <2>3, <2>4, <2>5 DEF Pool!Restart, Pool!Disjoint
  <2> QED
    BY <2>6 DEF Pool!Next
<1>6. CASE StartBarrier \/ EndBarrier \/ Terminated \/ UNCHANGED vars
  BY <1>6 DEF StartBarrier, EndBarrier, Terminated, vars, work, control
<1>7. ASSUME NEW t \in Thread, Step(t) \/ SpuriousWakeup(t)
      PROVE  [Pool!Next]_<<todo, allEnd>>
  <2>1. CASE next(t)
    BY <1>1, <2>1 DEF Pool!Next
  <2>2. CASE work_share(t)
    <3>1. thief[t] \in Thread
      BY DEF TypeOK
    <3> QED
      BY <1>2, <2>2, <3>1 DEF Pool!Next
  <2>3. CASE counter_increment(t) \/ StoreAllEnd(t)
    BY <1>3, <2>3 DEF Pool!Next
  <2> QED
    BY <1>4, <1>7, <2>1, <2>2, <2>3 DEF Step
<1> QED
  BY <1>5, <1>6, <1>7 DEF Next

\* The thread team implements the abstract pool of work: thieves get work only
\* when they have none, nothing is lost or copied, and a standalone team stops
\* when the pool is empty.
THEOREM Refinement == Spec => ImplementsPool
<1>1. Init => Pool!Init
  BY PoolInit
<1>2. TypeOK /\ TypeOK' /\ IInv /\ IInv' /\ [Next]_vars => [Pool!Next]_<<todo, allEnd>>
  BY PoolStep
<1> QED
  BY <1>1, <1>2, TypeCorrect, Invariant, PTL DEF Spec, ImplementsPool, Pool!Spec,
     Pool!poolVars

-----------------------------------------------------------------------------
(* No sleeper is forgotten: the request of a thread that waits for work is *)
(* with its victim until it is answered or cancelled.  The one place where *)
(* the code throws requests away, reset_requestQueue, is harmless because  *)
(* nobody passes the first barrier before everybody has reached it.        *)

\* The team passes the first barrier together.
PhaseInv ==
  \A t, u \in Thread :
    pc[t] \in {"start", "atStart"} => pc[u] \in {"start", "atStart"}

\* The thread still needs an answer.
Pending(u) == pc[u] \in {"check", "asleep"} /\ ~allEnd /\ ~receivedWork[u]

\* The request of such a thread is in the queue, or in the hands, of its victim.
PendingInv ==
  \A u \in Thread :
    Pending(u) => Queued(u, victim[u]) \/ Held(u, victim[u])

-----------------------------------------------------------------------------

\* Each step keeps the team on the same side of the first barrier.
LEMMA PhaseInitially ==
  ASSUME Init PROVE PhaseInv
BY DEF Init, PhaseInv

LEMMA PhaseStep ==
  ASSUME TypeOK, PhaseInv, [Next]_vars
  PROVE  PhaseInv'
<1>1. ASSUME NEW t \in Thread, Step(t) \/ SpuriousWakeup(t)
      PROVE  PhaseInv'
  <2>1. CASE reset_requestQueue(t)
    BY <2>1 DEF reset_requestQueue, TypeOK, At, GoTo, PhaseInv
  <2>2. CASE next(t)
    BY <2>2 DEF next, Tails, TypeOK, At, GoTo, PhaseInv
  <2>3. CASE set_workState(t)
    BY <2>3 DEF set_workState, TypeOK, At, GoTo, PhaseInv
  <2>4. CASE try_answer_request(t)
    BY <2>4 DEF try_answer_request, pull_request, NoRequest, TypeOK, At, GoTo, PhaseInv
  <2>5. CASE work_share(t)
    BY <2>5 DEF work_share, TypeOK, At, GoTo, PhaseInv
  <2>6. CASE Uncount(t)
    BY <2>6 DEF Uncount, counter_decrement, TypeOK, At, GoTo, PhaseInv
  <2>7. CASE Wake(t, "wake", "loopTest")
    BY <2>7 DEF Wake, Signal, TypeOK, At, GoTo, PhaseInv
  <2>8. CASE LoopTest(t)
    BY <2>8 DEF LoopTest, TypeOK, At, GoTo, PhaseInv
  <2>9. CASE GoIdle(t)
    BY <2>9 DEF GoIdle, TypeOK, At, GoTo, PhaseInv
  <2>10. CASE counter_increment(t)
    BY <2>10 DEF counter_increment, TypeOK, At, GoTo, PhaseInv
  <2>11. CASE Drain(t)
    BY <2>11 DEF Drain, pull_request, NoRequest, TypeOK, At, GoTo, PhaseInv
  <2>12. CASE Cancel(t)
    BY <2>12 DEF Cancel, counter_decrement, TypeOK, At, GoTo, PhaseInv
  <2>13. CASE Wake(t, "release", "drain")
    BY <2>13 DEF Wake, Signal, TypeOK, At, GoTo, PhaseInv
  <2>14. CASE select_victim(t)
    BY <2>14 DEF select_victim, SelectFrom, TypeOK, At, GoTo, PhaseInv
  <2>15. CASE UncountSelf(t)
    BY <2>15 DEF UncountSelf, counter_decrement, TypeOK, At, GoTo, PhaseInv
  <2>16. CASE ClearReceived(t)
    BY <2>16 DEF ClearReceived, TypeOK, At, GoTo, PhaseInv
  <2>17. CASE push_request(t)
    BY <2>17 DEF push_request, TypeOK, At, GoTo, PhaseInv
  <2>18. CASE AwaitWork(t)
    BY <2>18 DEF AwaitWork, TypeOK, At, GoTo, PhaseInv
  <2>19. CASE SpuriousWakeup(t)
    BY <2>19 DEF SpuriousWakeup, TypeOK, At, GoTo, PhaseInv
  <2>20. CASE StoreAllEnd(t)
    BY <2>20 DEF StoreAllEnd, TypeOK, At, GoTo, PhaseInv
  <2>21. CASE unlockWaiting(t)
    <3>1. \A u \in Thread : pc[u] \notin {"start", "atStart"}
      BY <2>21 DEF unlockWaiting, At, PhaseInv
    <3>2. \A u \in Thread : pc'[u] \in {pc[u], "check", "unlock", "atEnd"}
      BY <2>21 DEF unlockWaiting, Signal, TypeOK, GoTo
    <3> QED
      BY <3>1, <3>2 DEF PhaseInv
  <2> QED
    BY <1>1, <2>1, <2>2, <2>3, <2>4, <2>5, <2>6, <2>7, <2>8, <2>9, <2>10, <2>11,
       <2>12, <2>13, <2>14, <2>15, <2>16, <2>17, <2>18, <2>19, <2>20, <2>21 DEF Step
<1>2. CASE StartBarrier
  BY <1>2 DEF StartBarrier, PhaseInv
<1>3. CASE EndBarrier
  BY <1>3 DEF EndBarrier, PhaseInv
<1>4. CASE NextRound
  BY <1>4 DEF NextRound, PhaseInv
<1>5. CASE UNCHANGED vars
  BY <1>5 DEF vars, PhaseInv
<1> QED
  BY <1>1, <1>2, <1>3, <1>4, <1>5 DEF Next, Terminated

-----------------------------------------------------------------------------

\* Requests stay where they are, as long as queues are not touched and nobody
\* drops the request in its hands without an answer.
LEMMA KeepPending ==
  ASSUME TypeOK, PendingInv, requestQueue' = requestQueue,
         \A u \in Thread : Pending(u)' => Pending(u) /\ victim'[u] = victim[u],
         \A u, v \in Thread : Pending(u)' /\ Held(u, v) => Held(u, v)'
  PROVE  PendingInv'
<1> SUFFICES ASSUME NEW u \in Thread, Pending(u)'
             PROVE  (Queued(u, victim[u]) \/ Held(u, victim[u]))'
  BY DEF PendingInv
<1>1. /\ victim'[u] = victim[u]
      /\ victim[u] \in Thread
      /\ Queued(u, victim[u]) \/ Held(u, victim[u])
  BY DEF TypeOK, PendingInv
<1>2. CASE Queued(u, victim[u])
  BY <1>1, <1>2 DEF Queued
<1>3. CASE Held(u, victim[u])
  <2>1. Held(u, victim[u])'
    BY <1>1, <1>3
  <2> QED
    BY <2>1
<1> QED
  BY <1>1, <1>2, <1>3

\* Pulling a request takes it from the queue into the hands of its owner.
LEMMA PullPending ==
  ASSUME TypeOK, PendingInv, NEW t \in Thread, NEW l \in {"share", "cancel"},
         ~Serving(t), ~Waking(t), pc[t] \notin {"check", "asleep"}, pull_request(t, l),
         pc'[t] = l
  PROVE  PendingInv'
<1>1. /\ requestQueue[t] \in Seq(Thread) /\ requestQueue[t] # <<>>
      /\ requestQueue'[t] = Tail(requestQueue[t])
      /\ thief'[t] = Head(requestQueue[t])
      /\ \A v \in Thread \ {t} :
           requestQueue'[v] = requestQueue[v] /\ thief'[v] = thief[v] /\ pc'[v] = pc[v]
  BY DEF TypeOK, pull_request, GoTo
<1>2. UNCHANGED <<allEnd, receivedWork, victim>>
  BY DEF pull_request, control, signals
<1> SUFFICES ASSUME NEW u \in Thread, Pending(u)'
             PROVE  (Queued(u, victim[u]) \/ Held(u, victim[u]))'
  BY DEF PendingInv
<1>3. /\ victim[u] \in Thread
      /\ Queued(u, victim[u]) \/ Held(u, victim[u])
  BY <1>1, <1>2 DEF Pending, PendingInv, TypeOK
<1>4. CASE victim[u] # t
  BY <1>1, <1>2, <1>3, <1>4 DEF Queued, Held, Serving, Waking
<1>5. CASE victim[u] = t
  <2>1. PICK i \in 1 .. Len(requestQueue[t]) : requestQueue[t][i] = u
    BY <1>3, <1>5 DEF Queued, Held
  <2>2. CASE i = 1
    BY <1>1, <1>2, <1>5, <2>1, <2>2 DEF Held, Serving
  <2>3. CASE i # 1
    <3>1. i - 1 \in 1 .. Len(Tail(requestQueue[t])) /\ Tail(requestQueue[t])[i - 1] = u
      BY <1>1, <2>1, <2>3
    <3> QED
      BY <1>1, <1>2, <1>5, <3>1 DEF Queued
  <2> QED
    BY <2>2, <2>3
<1> QED
  BY <1>4, <1>5

\* A new request goes behind those that are queued already.
LEMMA Enqueued ==
  ASSUME NEW S, NEW q \in Seq(S), NEW x \in S
  PROVE  /\ \A i \in 1 .. Len(q) :
              i \in 1 .. Len(Append(q, x)) /\ Append(q, x)[i] = q[i]
         /\ Len(q) + 1 \in 1 .. Len(Append(q, x)) /\ Append(q, x)[Len(q) + 1] = x
OBVIOUS

\* The initial states have no requests.
LEMMA PendingInitially ==
  ASSUME Init PROVE PendingInv
BY DEF Init, PendingInv, Pending

\* Each step leaves every pending request with its victim.
LEMMA PendingStep ==
  ASSUME TypeOK, TypeOK', IInv, IInv', PhaseInv, PendingInv, [Next]_vars
  PROVE  PendingInv'
<1>1. ASSUME NEW t \in Thread, Step(t) \/ SpuriousWakeup(t)
      PROVE  PendingInv'
  <2> USE DEF TypeOK, At, GoTo, work, control, locals, signals
  <2>1. CASE reset_requestQueue(t)
    BY <2>1 DEF reset_requestQueue, PhaseInv, PendingInv, Pending
  <2>2. CASE next(t)
    <3>1. \A u \in Thread : Pending(u)' => Pending(u) /\ victim'[u] = victim[u]
      BY <2>2 DEF next, Tails, Pending
    <3>2. \A u, v \in Thread : Pending(u)' /\ Held(u, v) => Held(u, v)'
      BY <2>2 DEF next, Tails, Pending, Held, Serving, Waking
    <3> QED
      BY <2>2, <3>1, <3>2, KeepPending DEF next
  <2>3. CASE set_workState(t)
    <3>1. \A u \in Thread : Pending(u)' => Pending(u) /\ victim'[u] = victim[u]
      BY <2>3 DEF set_workState, Pending
    <3>2. \A u, v \in Thread : Pending(u)' /\ Held(u, v) => Held(u, v)'
      BY <2>3 DEF set_workState, Pending, Held, Serving, Waking
    <3> QED
      BY <2>3, <3>1, <3>2, KeepPending DEF set_workState
  <2>4. CASE try_answer_request(t)
    <3>1. CASE pull_request(t, "share")
      <4>1. pc'[t] = "share"
        BY <2>4, <3>1 DEF try_answer_request, pull_request, IInv, NoFatalExit
      <4> QED
        BY <2>4, <3>1, <4>1, PullPending DEF try_answer_request, Serving, Waking
    <3>2. CASE NoRequest(t, "loopTest")
      <4>1. \A u \in Thread : Pending(u)' => Pending(u)
        BY <2>4, <3>2 DEF try_answer_request, NoRequest, Pending
      <4>2. \A u, v \in Thread : Held(u, v) => Held(u, v)'
        BY <2>4, <3>2 DEF try_answer_request, NoRequest, Held, Serving, Waking
      <4> QED
        BY <3>2, <4>1, <4>2, KeepPending DEF NoRequest
    <3> QED
      BY <2>4, <3>1, <3>2 DEF try_answer_request
  <2>5. CASE work_share(t)
    <3>1. \A u \in Thread : Pending(u)' => Pending(u) /\ victim'[u] = victim[u]
      BY <2>5 DEF work_share, Pending
    <3>2. \A u, v \in Thread : Pending(u)' /\ Held(u, v) => Held(u, v)'
      BY <2>5, HeldWaits DEF work_share, Pending, Held, Serving, Waking, IInv
    <3> QED
      BY <2>5, <3>1, <3>2, KeepPending DEF work_share
  <2>6. CASE Uncount(t)
    <3>1. \A u \in Thread : Pending(u)' => Pending(u) /\ victim'[u] = victim[u]
      BY <2>6 DEF Uncount, counter_decrement, Pending
    <3>2. \A u, v \in Thread : Pending(u)' /\ Held(u, v) => Held(u, v)'
      BY <2>6 DEF Uncount, counter_decrement, Pending, Held, Serving, Waking
    <3> QED
      BY <2>6, <3>1, <3>2, KeepPending DEF Uncount, counter_decrement
  <2>7. CASE Wake(t, "wake", "loopTest")
    <3>1. \A u \in Thread : Pending(u)' => Pending(u) /\ victim'[u] = victim[u]
      BY <2>7 DEF Wake, Signal, Pending
    <3>2. \A u, v \in Thread : Pending(u)' /\ Held(u, v) => Held(u, v)'
      BY <2>7 DEF Wake, Signal, Pending, Held, Serving, Waking
    <3> QED
      BY <2>7, <3>1, <3>2, KeepPending DEF Wake, Signal
  <2>8. CASE LoopTest(t)
    <3>1. \A u \in Thread : Pending(u)' => Pending(u) /\ victim'[u] = victim[u]
      BY <2>8 DEF LoopTest, Pending
    <3>2. \A u, v \in Thread : Pending(u)' /\ Held(u, v) => Held(u, v)'
      BY <2>8 DEF LoopTest, Pending, Held, Serving, Waking
    <3> QED
      BY <2>8, <3>1, <3>2, KeepPending DEF LoopTest
  <2>9. CASE GoIdle(t)
    <3>1. \A u \in Thread : Pending(u)' => Pending(u) /\ victim'[u] = victim[u]
      BY <2>9 DEF GoIdle, Pending
    <3>2. \A u, v \in Thread : Pending(u)' /\ Held(u, v) => Held(u, v)'
      BY <2>9 DEF GoIdle, Pending, Held, Serving, Waking
    <3> QED
      BY <2>9, <3>1, <3>2, KeepPending DEF GoIdle
  <2>10. CASE counter_increment(t)
    <3>1. \A u \in Thread : Pending(u)' => Pending(u) /\ victim'[u] = victim[u]
      BY <2>10 DEF counter_increment, Pending
    <3>2. \A u, v \in Thread : Pending(u)' /\ Held(u, v) => Held(u, v)'
      BY <2>10 DEF counter_increment, Pending, Held, Serving, Waking
    <3> QED
      BY <2>10, <3>1, <3>2, KeepPending DEF counter_increment
  <2>11. CASE Drain(t)
    <3>1. CASE requestQueue[t] # <<>>
      <4>1. PICK l \in {"cancel", "fatal"} :
             pull_request(t, l) /\ (l = "cancel" \/ pc'[t] = "fatal")
        BY <2>11, <3>1 DEF Drain, NoRequest, pull_request
      <4>2. l = "cancel" /\ pc'[t] = "cancel"
        BY <4>1 DEF pull_request, IInv, NoFatalExit
      <4> QED
        BY <2>11, <4>1, <4>2, PullPending DEF Drain, Serving, Waking
    <3>2. CASE NoRequest(t, "select")
      <4>1. \A u \in Thread : Pending(u)' => Pending(u)
        BY <2>11, <3>2 DEF Drain, NoRequest, Pending
      <4>2. \A u, v \in Thread : Held(u, v) => Held(u, v)'
        BY <2>11, <3>2 DEF Drain, NoRequest, Held, Serving, Waking
      <4> QED
        BY <3>2, <4>1, <4>2, KeepPending DEF NoRequest
    <3> QED
      BY <2>11, <3>1, <3>2 DEF Drain
  <2>12. CASE Cancel(t)
    <3>1. \A u \in Thread : Pending(u)' => Pending(u) /\ victim'[u] = victim[u]
      BY <2>12 DEF Cancel, counter_decrement, Pending
    <3>2. \A u, v \in Thread : Pending(u)' /\ Held(u, v) => Held(u, v)'
      BY <2>12 DEF Cancel, counter_decrement, Pending, Held, Serving, Waking
    <3> QED
      BY <2>12, <3>1, <3>2, KeepPending DEF Cancel, counter_decrement
  <2>13. CASE Wake(t, "release", "drain")
    <3>1. \A u \in Thread : Pending(u)' => Pending(u) /\ victim'[u] = victim[u]
      BY <2>13 DEF Wake, Signal, Pending
    <3>2. \A u, v \in Thread : Pending(u)' /\ Held(u, v) => Held(u, v)'
      BY <2>13 DEF Wake, Signal, Pending, Held, Serving, Waking
    <3> QED
      BY <2>13, <3>1, <3>2, KeepPending DEF Wake, Signal
  <2>14. CASE select_victim(t)
    <3>1. \A u \in Thread : Pending(u)' => Pending(u) /\ victim'[u] = victim[u]
      BY <2>14 DEF select_victim, SelectFrom, Pending
    <3>2. \A u, v \in Thread : Pending(u)' /\ Held(u, v) => Held(u, v)'
      BY <2>14 DEF select_victim, SelectFrom, Pending, Held, Serving, Waking
    <3> QED
      BY <2>14, <3>1, <3>2, KeepPending DEF select_victim, SelectFrom
  <2>15. CASE UncountSelf(t)
    <3>1. \A u \in Thread : Pending(u)' => Pending(u) /\ victim'[u] = victim[u]
      BY <2>15 DEF UncountSelf, counter_decrement, Pending
    <3>2. \A u, v \in Thread : Pending(u)' /\ Held(u, v) => Held(u, v)'
      BY <2>15 DEF UncountSelf, counter_decrement, Pending, Held, Serving, Waking
    <3> QED
      BY <2>15, <3>1, <3>2, KeepPending DEF UncountSelf, counter_decrement
  <2>16. CASE ClearReceived(t)
    <3>1. \A u \in Thread : Pending(u)' => Pending(u) /\ victim'[u] = victim[u]
      BY <2>16 DEF ClearReceived, Pending
    <3>2. \A u, v \in Thread : Pending(u)' /\ Held(u, v) => Held(u, v)'
      BY <2>16 DEF ClearReceived, Pending, Held, Serving, Waking
    <3> QED
      BY <2>16, <3>1, <3>2, KeepPending DEF ClearReceived
  <2>17. CASE push_request(t)
    <3>1. /\ requestQueue[victim[t]] \in Seq(Thread)
          /\ requestQueue'[victim[t]] = Append(requestQueue[victim[t]], t)
          /\ \A v \in Thread \ {victim[t]} : requestQueue'[v] = requestQueue[v]
          /\ victim' = victim
      BY <2>17 DEF push_request
    <3>2. \A u, v \in Thread : Queued(u, v) => Queued(u, v)'
      <4> SUFFICES ASSUME NEW u \in Thread, NEW v \in Thread, Queued(u, v)
                   PROVE  Queued(u, v)'
        OBVIOUS
      <4>1. CASE v = victim[t]
        <5>1. PICK i \in 1 .. Len(requestQueue[v]) : requestQueue[v][i] = u
          BY DEF Queued
        <5>2. /\ requestQueue[v] \in Seq(Thread)
              /\ requestQueue'[v] = Append(requestQueue[v], t)
          BY <3>1, <4>1
        <5>3. i \in 1 .. Len(requestQueue'[v]) /\ requestQueue'[v][i] = u
          BY <5>1, <5>2, Enqueued
        <5> QED
          BY <5>3 DEF Queued
      <4>2. CASE v # victim[t]
        BY <3>1, <4>2 DEF Queued
      <4> QED
        BY <4>1, <4>2
    <3>3. Queued(t, victim[t])'
      <4> DEFINE n == Len(requestQueue[victim[t]]) + 1
      <4>1. n \in 1 .. Len(requestQueue'[victim[t]]) /\ requestQueue'[victim[t]][n] = t
        BY <3>1, Enqueued
      <4> QED
        BY <3>1, <4>1 DEF Queued
    <3>4. \A u, v \in Thread : Held(u, v) => Held(u, v)'
      BY <2>17 DEF push_request, Held, Serving, Waking
    <3>5. \A u \in Thread \ {t} : Pending(u)' => Pending(u)
      BY <2>17 DEF push_request, Pending
    <3>6. victim' = victim /\ \A u \in Thread : victim[u] \in Thread
      BY <2>17 DEF push_request
    <3> QED
      BY <3>2, <3>3, <3>4, <3>5, <3>6 DEF PendingInv
  <2>18. CASE AwaitWork(t)
    <3>1. \A u \in Thread : Pending(u)' => Pending(u) /\ victim'[u] = victim[u]
      BY <2>18 DEF AwaitWork, Pending
    <3>2. \A u, v \in Thread : Pending(u)' /\ Held(u, v) => Held(u, v)'
      BY <2>18 DEF AwaitWork, Pending, Held, Serving, Waking
    <3> QED
      BY <2>18, <3>1, <3>2, KeepPending DEF AwaitWork
  <2>19. CASE SpuriousWakeup(t)
    <3>1. \A u \in Thread : Pending(u)' => Pending(u) /\ victim'[u] = victim[u]
      BY <2>19 DEF SpuriousWakeup, Pending
    <3>2. \A u, v \in Thread : Pending(u)' /\ Held(u, v) => Held(u, v)'
      BY <2>19 DEF SpuriousWakeup, Pending, Held, Serving, Waking
    <3> QED
      BY <2>19, <3>1, <3>2, KeepPending DEF SpuriousWakeup
  <2>20. CASE StoreAllEnd(t)
    <3>1. \A u \in Thread : Pending(u)' => Pending(u) /\ victim'[u] = victim[u]
      BY <2>20 DEF StoreAllEnd, Pending
    <3>2. \A u, v \in Thread : Pending(u)' /\ Held(u, v) => Held(u, v)'
      BY <2>20 DEF StoreAllEnd, Pending, Held, Serving, Waking
    <3> QED
      BY <2>20, <3>1, <3>2, KeepPending DEF StoreAllEnd
  <2>21. CASE unlockWaiting(t)
    BY <2>21 DEF unlockWaiting, IInv, EndInv, PendingInv, Pending
  <2> QED
    BY <1>1, <2>1, <2>2, <2>3, <2>4, <2>5, <2>6, <2>7, <2>8, <2>9, <2>10, <2>11,
       <2>12, <2>13, <2>14, <2>15, <2>16, <2>17, <2>18, <2>19, <2>20, <2>21 DEF Step
<1>2. CASE StartBarrier
  BY <1>2 DEF StartBarrier, PendingInv, Pending
<1>3. CASE EndBarrier
  BY <1>3 DEF EndBarrier, PendingInv, Pending
<1>4. CASE NextRound
  BY <1>4 DEF NextRound, PendingInv, Pending
<1>5. CASE UNCHANGED vars
  BY <1>5 DEF vars, PendingInv, Pending, Queued, Held, Serving, Waking
<1> QED
  BY <1>1, <1>2, <1>3, <1>4, <1>5 DEF Next, Terminated

-----------------------------------------------------------------------------

\* RequestPending: a thread that sleeps while the search goes on and has not
\* been signalled has its request in its victim's queue, or in its hands.
THEOREM NobodyIsForgotten == Spec => []RequestPending
<1>1. Init => PhaseInv /\ PendingInv
  BY PhaseInitially, PendingInitially
<1>2. TypeOK /\ TypeOK' /\ IInv /\ IInv' /\ PhaseInv /\ PendingInv /\ [Next]_vars
        => (PhaseInv /\ PendingInv)'
  BY PhaseStep, PendingStep
<1>3. TypeOK /\ PendingInv => RequestPending
  <2> SUFFICES ASSUME TypeOK, PendingInv, NEW t \in Thread, Pending(t)
               PROVE  \/ \E i \in DOMAIN requestQueue[victim[t]] :
                           requestQueue[victim[t]][i] = t
                      \/ /\ thief[victim[t]] = t
                         /\ pc[victim[t]] \in {"share", "uncount", "wake", "cancel",
                                               "release"}
    BY DEF RequestPending, Pending, At
  <2> QED
    BY DEF TypeOK, PendingInv, Queued, Held, Serving, Waking
<1> QED
  BY <1>1, <1>2, <1>3, TypeCorrect, Invariant, PTL DEF Spec
=============================================================================
