---------------------------- MODULE WorkStealing ----------------------------
(***************************************************************************)
(* The thread team of multicore/src/matrix_controller.cpp: M POSIX threads *)
(* explore the tree, each on its own IVM, steal work from one another and  *)
(* detect termination with one counter.                                    *)
(*                                                                         *)
(* A thread that runs out of work (request_work) counts itself, cancels    *)
(* the requests queued at it, queues its own request at a victim and       *)
(* sleeps on its condition variable.  A thread that has work answers one   *)
(* request after every node (try_answer_request), and whoever answers or   *)
(* cancels takes the thief out of the counter before waking it.  The       *)
(* thread that brings the counter to M ends the exploration.               *)
(*                                                                         *)
(* One action is one critical section or one access to shared data.  The   *)
(* IVM of a thread is abstracted to the leaves of its interval, a set of   *)
(* numbers explored from the left (module Ivm refines this).               *)
(***************************************************************************)
EXTENDS Integers, Sequences, FiniteSets

CONSTANTS
  M,            \* number of threads (matrix_controller::M)
  Leaf,         \* the leaves of the tree, numbered from left to right
  mc_ws_select, \* arguments::mc_ws_select, victim selection: "r", "o" or other
  singleNode    \* arguments::singleNode: standalone, or worker of a master

ASSUME MAssumption == M \in Nat \ {0}
ASSUME LeafAssumption == Leaf \subseteq Int
ASSUME SelectAssumption == mc_ws_select \in {"r", "o", "left"}
ASSUME ModeAssumption == singleNode \in BOOLEAN

Thread == 0 .. M - 1

VARIABLES
  pc,           \* where each thread stands in explore_multicore
  todo,         \* leaves left in the interval of each thread's IVM
  explored,     \* leaves that have been visited or pruned (history)
  got_work,     \* bbthread::got_work
  requestQueue, \* bbthread::requestQueue, the thieves waiting for this thread
  receivedWork, \* bbthread::receivedWork, the predicate of cond_shared
  thief,        \* local thief of request_work and try_answer_request
  victim,       \* local victim of request_work
  cursor,       \* local i of unlockWaiting
  allEnd,       \* the exploration has to stop
  end_counter,  \* how many threads are out of work
  counted,      \* which threads end_counter stands for (history)
  victim_list   \* threads, the one that has not made a request for longest first

vars == <<pc, todo, explored, got_work, requestQueue, receivedWork, thief,
          victim, cursor, allEnd, end_counter, counted, victim_list>>

work    == <<todo, explored>>
control == <<allEnd, end_counter, counted>>
locals  == <<thief, victim, cursor>>
signals == <<got_work, receivedWork>>

Location ==
  {"start", "atStart", "next", "working", "serve", "share", "uncount", "wake",
   "idle", "count", "drain", "cancel", "release", "select", "uncountSelf",
   "clear", "push", "check", "asleep", "loopTest", "stop", "unlock", "atEnd",
   "done", "fatal"}

-----------------------------------------------------------------------------

At(t, l) == pc[t] = l
GoTo(t, l) == pc' = [pc EXCEPT ![t] = l]

\* What may be left of an interval of which a part has been cut off the front.
Tails(S) == {{x \in S : x >= c} : c \in S} \cup {{}}

\* std::list::remove followed by push_back.
Place(list, t) == CHOOSE i \in 1 .. M : list[i] = t
MoveToBack(list, t) ==
  [i \in 1 .. M |-> IF i = M THEN t
                    ELSE IF i < Place(list, t) THEN list[i] ELSE list[i + 1]]

\* The lists in which the threads that were dealt an interval come first.
ListsFor(intervals) ==
  {list \in [1 .. M -> Thread] :
     /\ \A i, j \in 1 .. M : i # j => list[i] # list[j]
     /\ \A i, j \in 1 .. M :
          i < j /\ intervals[list[j]] # {} => intervals[list[i]] # {}}

\* pthread_cond_signal on cond_shared of thread u, from thread t which goes on
\* at l: u, if it sleeps, gets up and tests its predicate again.
\* Mutant: the predicate is left alone.
SignalOnly(t, u, l) ==
  /\ UNCHANGED receivedWork
  /\ pc' = [pc EXCEPT ![u] = IF @ = "asleep" THEN "check" ELSE @, ![t] = l]
Signal(t, u, l) ==
  /\ receivedWork' = [receivedWork EXCEPT ![u] = TRUE]
  /\ pc' = [pc EXCEPT ![u] = IF @ = "asleep" THEN "check" ELSE @, ![t] = l]

Left == UNION {todo[t] : t \in Thread}

-----------------------------------------------------------------------------

\* initFullInterval (standalone: thread 0 gets the whole tree) or initFromFac
\* (worker: the intervals of the work unit).  got_work and receivedWork of a
\* worker's threads are read before anything has written them.  Whoever gets an
\* interval is moved to the front of victim_list, in the order of the intervals.
InitFullInterval ==
  /\ todo = [t \in Thread |-> IF t = 0 THEN Leaf ELSE {}]
  /\ got_work = [t \in Thread |-> t = 0]
  /\ victim_list = [i \in 1 .. M |-> i - 1]

InitFromFac ==
  /\ \E owner \in [Leaf -> Thread] :
       todo = [t \in Thread |-> {x \in Leaf : owner[x] = t}]
  /\ got_work \in [Thread -> BOOLEAN]
  /\ victim_list \in ListsFor(todo)

Init ==
  /\ IF singleNode THEN InitFullInterval ELSE InitFromFac
  /\ pc = [t \in Thread |-> "start"]
  /\ explored = {}
  /\ requestQueue = [t \in Thread |-> <<>>]
  /\ receivedWork \in [Thread -> BOOLEAN]
  /\ thief = [t \in Thread |-> t]
  /\ victim = [t \in Thread |-> t]
  /\ cursor = [t \in Thread |-> 0]
  /\ allEnd = FALSE
  /\ end_counter = 0
  /\ counted = {}

-----------------------------------------------------------------------------
(* explore_multicore, before the loop *)

reset_requestQueue(t) ==
  /\ At(t, "start")
  /\ requestQueue' = [requestQueue EXCEPT ![t] = <<>>]
  /\ GoTo(t, "atStart")
  /\ UNCHANGED <<work, control, locals, signals, victim_list>>

\* pthread_barrier_wait before the loop: all threads leave it together.
StartBarrier ==
  /\ \A t \in Thread : At(t, "atStart")
  /\ pc' = [t \in Thread |-> "next"]
  /\ UNCHANGED <<work, control, locals, signals, requestQueue, victim_list>>

(* explore_multicore, the loop *)

\* sbb[id]->next() under mutex_ivm returns false iff the interval is exhausted;
\* then allEnd is read.
next(t) ==
  /\ At(t, "next")
  /\ \E rest \in Tails(todo[t]) :
       /\ todo' = [todo EXCEPT ![t] = rest]
       /\ explored' = explored \cup (todo[t] \ rest)
       /\ GoTo(t, IF rest = {} /\ ~allEnd THEN "idle" ELSE "working")
  /\ UNCHANGED <<control, locals, signals, requestQueue, victim_list>>

\* set_workState(continuer)
set_workState(t) ==
  /\ At(t, "working")
  /\ got_work' = [got_work EXCEPT ![t] = todo[t] # {}]
  /\ GoTo(t, "serve")
  /\ UNCHANGED <<work, control, locals, receivedWork, requestQueue, victim_list>>

\* pull_request: the oldest request, or exit(-1) when there are too many.
\* Mutant: the request stays in the queue.
peek_request(t, l) ==
  /\ requestQueue[t] # <<>>
  /\ thief' = [thief EXCEPT ![t] = Head(requestQueue[t])]
  /\ GoTo(t, IF Len(requestQueue[t]) >= M THEN "fatal" ELSE l)
  /\ UNCHANGED <<work, control, signals, victim, cursor, requestQueue, victim_list>>
pull_request(t, l) ==
  /\ requestQueue[t] # <<>>
  /\ thief' = [thief EXCEPT ![t] = Head(requestQueue[t])]
  /\ requestQueue' = [requestQueue EXCEPT ![t] = Tail(@)]
  /\ GoTo(t, IF Len(requestQueue[t]) >= M THEN "fatal" ELSE l)
  /\ UNCHANGED <<work, control, signals, victim, cursor, victim_list>>

\* has_request is false: go on at l.
NoRequest(t, l) ==
  /\ requestQueue[t] = <<>>
  /\ GoTo(t, l)
  /\ UNCHANGED <<work, control, locals, signals, requestQueue, victim_list>>

\* try_answer_request, up to the pulled request.
try_answer_request(t) ==
  /\ At(t, "serve")
  /\ pull_request(t, "share") \/ NoRequest(t, "loopTest")

\* got_work of the thief is tested, then work_share runs under the thief's
\* mutex_ivm: the thief's interval is overwritten, unless nothing is shared.
\* Mutant: the victim's interval is not cut.
work_copy(t) ==
  LET u == thief[t] IN
  /\ At(t, "share")
  /\ IF got_work[u]
       THEN GoTo(t, "fatal") /\ UNCHANGED todo
       ELSE /\ GoTo(t, "uncount")
            /\ \E part \in (Tails(todo[t]) \ {todo[t]}) \cup {{}} :
                 todo' = IF part = {} THEN todo ELSE [todo EXCEPT ![u] = part]
  /\ UNCHANGED <<explored, control, locals, signals, requestQueue, victim_list>>
work_share(t) ==
  LET u == thief[t] IN
  /\ At(t, "share")
  /\ IF got_work[u]
       THEN GoTo(t, "fatal") /\ UNCHANGED todo
       ELSE /\ GoTo(t, "uncount")
            /\ \E part \in (Tails(todo[t]) \ {todo[t]}) \cup {{}} :
                 todo' = IF part = {} THEN todo
                         ELSE [todo EXCEPT ![t] = @ \ part, ![u] = part]
  /\ UNCHANGED <<explored, control, locals, signals, requestQueue, victim_list>>

\* counter_decrement on behalf of thread u, by t.
counter_decrement(t, u, l) ==
  /\ end_counter' = end_counter - 1
  /\ counted' = counted \ {u}
  /\ GoTo(t, l)
  /\ UNCHANGED <<work, allEnd, locals, signals, requestQueue, victim_list>>

Uncount(t) == At(t, "uncount") /\ counter_decrement(t, thief[t], "wake")

\* receivedWork of the thief is set and the thief signalled, under its
\* mutex_shared.
Wake(t, from, l) ==
  /\ At(t, from)
  /\ Signal(t, thief[t], l)
  /\ UNCHANGED <<work, control, locals, got_work, requestQueue, victim_list>>

\* The tests that close the loop.  A worker also leaves it when the balancing
\* period has passed or a better solution was found, whenever that is.
\* Mutant: so does a standalone thread.
LoopTestAlways(t) ==
  /\ At(t, "loopTest")
  /\ GoTo(t, "next") \/ GoTo(t, "stop")
  /\ UNCHANGED <<work, control, locals, signals, requestQueue, victim_list>>
LoopTest(t) ==
  /\ At(t, "loopTest")
  /\ \/ ~allEnd /\ GoTo(t, "next")
     \/ (allEnd \/ ~singleNode) /\ GoTo(t, "stop")
  /\ UNCHANGED <<work, control, locals, signals, requestQueue, victim_list>>

-----------------------------------------------------------------------------
(* request_work *)

\* set_workState(false)
\* Mutant: the flag is left as it is.
GoIdleUnmarked(t) ==
  /\ At(t, "idle")
  /\ GoTo(t, "count")
  /\ UNCHANGED <<work, control, locals, signals, requestQueue, victim_list>>
GoIdle(t) ==
  /\ At(t, "idle")
  /\ got_work' = [got_work EXCEPT ![t] = FALSE]
  /\ GoTo(t, "count")
  /\ UNCHANGED <<work, control, locals, receivedWork, requestQueue, victim_list>>

\* Mutants: the counter is compared before it counts t, or one thread early.
count_late(t) ==
  /\ At(t, "count")
  /\ end_counter' = end_counter + 1
  /\ counted' = counted \cup {t}
  /\ IF end_counter = M
       THEN allEnd' = TRUE /\ GoTo(t, "stop")
       ELSE UNCHANGED allEnd /\ GoTo(t, "drain")
  /\ UNCHANGED <<work, locals, signals, requestQueue, victim_list>>
count_early(t) ==
  /\ At(t, "count")
  /\ end_counter' = end_counter + 1
  /\ counted' = counted \cup {t}
  /\ IF end_counter + 1 = M - 1
       THEN allEnd' = TRUE /\ GoTo(t, "stop")
       ELSE UNCHANGED allEnd /\ GoTo(t, "drain")
  /\ UNCHANGED <<work, locals, signals, requestQueue, victim_list>>
counter_increment(t) ==
  /\ At(t, "count")
  /\ end_counter' = end_counter + 1
  /\ counted' = counted \cup {t}
  /\ IF end_counter + 1 = M
       THEN allEnd' = TRUE /\ GoTo(t, "stop")
       ELSE UNCHANGED allEnd /\ GoTo(t, "drain")
  /\ UNCHANGED <<work, locals, signals, requestQueue, victim_list>>

\* The loop that cancels the pending requests; a thread that finds its own id
\* in its queue exits.
Drain(t) ==
  /\ At(t, "drain")
  /\ \/ /\ requestQueue[t] # <<>>
        /\ pull_request(t, IF Head(requestQueue[t]) = t THEN "fatal" ELSE "cancel")
     \/ NoRequest(t, "select")

\* Mutant: the thief whose request is cancelled is not woken.
CancelSilently(t) == At(t, "cancel") /\ counter_decrement(t, thief[t], "drain")
Cancel(t) == At(t, "cancel") /\ counter_decrement(t, thief[t], "release")

\* Mutant: no wrapping around.
LeftOf(t) == t - 1
LeftNeighbour(t) == IF t = 0 THEN M - 1 ELSE t - 1

\* select_victim.  Random selection gives up after M + 1 draws and keeps the last
\* one, so every thread may come out of it, t included.
SelectFrom(t, v) ==
  /\ victim' = [victim EXCEPT ![t] = v]
  /\ GoTo(t, IF v = t THEN "uncountSelf" ELSE "clear")

select_victim(t) ==
  /\ At(t, "select")
  /\ \/ /\ mc_ws_select = "r"
        /\ \E v \in Thread : SelectFrom(t, v)
        /\ UNCHANGED victim_list
     \/ /\ mc_ws_select = "o"
        /\ victim_list' = MoveToBack(victim_list, t)
        /\ SelectFrom(t, IF got_work[victim_list'[1]] THEN victim_list'[1]
                                                      ELSE LeftNeighbour(t))
     \/ /\ mc_ws_select = "left"
        /\ SelectFrom(t, LeftNeighbour(t))
        /\ UNCHANGED victim_list
  /\ UNCHANGED <<work, control, thief, cursor, signals, requestQueue>>

\* The thread selected itself: it is not out of work for the others.
UncountSelf(t) == At(t, "uncountSelf") /\ counter_decrement(t, t, "loopTest")

ClearReceived(t) ==
  /\ At(t, "clear")
  /\ receivedWork' = [receivedWork EXCEPT ![t] = FALSE]
  /\ GoTo(t, "push")
  /\ UNCHANGED <<work, control, locals, got_work, requestQueue, victim_list>>

push_request(t) ==
  /\ At(t, "push")
  /\ requestQueue' = [requestQueue EXCEPT ![victim[t]] = Append(@, t)]
  /\ GoTo(t, "check")
  /\ UNCHANGED <<work, control, locals, signals, victim_list>>

\* while(!receivedWork && !allEnd) pthread_cond_wait: testing the predicate and
\* going to sleep are one step under mutex_shared.
\* Mutant: allEnd is not part of the predicate.
AwaitWorkOnly(t) ==
  /\ At(t, "check")
  /\ GoTo(t, IF receivedWork[t] THEN "loopTest" ELSE "asleep")
  /\ UNCHANGED <<work, control, locals, signals, requestQueue, victim_list>>
AwaitWork(t) ==
  /\ At(t, "check")
  /\ GoTo(t, IF receivedWork[t] \/ allEnd THEN "loopTest" ELSE "asleep")
  /\ UNCHANGED <<work, control, locals, signals, requestQueue, victim_list>>

\* pthread_cond_wait may return without a signal.
SpuriousWakeup(t) ==
  /\ At(t, "asleep")
  /\ GoTo(t, "check")
  /\ UNCHANGED <<work, control, locals, signals, requestQueue, victim_list>>

-----------------------------------------------------------------------------
(* explore_multicore, after the loop *)

StoreAllEnd(t) ==
  /\ At(t, "stop")
  /\ allEnd' = TRUE
  /\ cursor' = [cursor EXCEPT ![t] = 0]
  /\ GoTo(t, "unlock")
  /\ UNCHANGED <<work, end_counter, counted, thief, victim, signals,
                 requestQueue, victim_list>>

\* One turn of the loop over all other threads, then the barrier.
unlockWaiting(t) ==
  /\ At(t, "unlock")
  /\ IF cursor[t] = M
       THEN GoTo(t, "atEnd") /\ UNCHANGED <<receivedWork, cursor>>
       ELSE /\ cursor' = [cursor EXCEPT ![t] = @ + 1]
            /\ IF cursor[t] = t THEN UNCHANGED <<receivedWork, pc>>
                                ELSE Signal(t, cursor[t], "unlock")
  /\ UNCHANGED <<work, control, thief, victim, got_work, requestQueue, victim_list>>

\* pthread_barrier_wait of stop; the threads return and next() joins them.
EndBarrier ==
  /\ \A t \in Thread : At(t, "atEnd")
  /\ pc' = [t \in Thread |-> "done"]
  /\ UNCHANGED <<work, control, locals, signals, requestQueue, victim_list>>

\* A worker calls matrix_controller::next again, with the intervals as they
\* are, or dealt out anew (updateWorkUnit) by initFromFac, which leaves got_work
\* alone.
NextRound ==
  /\ ~singleNode
  /\ \A t \in Thread : At(t, "done")
  /\ \/ UNCHANGED <<todo, victim_list>>
     \/ /\ \E owner \in [Left -> Thread] :
             todo' = [t \in Thread |-> {x \in Left : owner[x] = t}]
        /\ victim_list' \in ListsFor(todo')
  /\ pc' = [t \in Thread |-> "start"]
  /\ end_counter' = 0
  /\ counted' = {}
  /\ allEnd' = FALSE
  /\ UNCHANGED <<explored, locals, signals, requestQueue>>

\* A standalone run is over.
Terminated ==
  /\ singleNode
  /\ \A t \in Thread : At(t, "done")
  /\ UNCHANGED vars

-----------------------------------------------------------------------------

\* The steps that thread t takes by itself.
Step(t) ==
  \/ reset_requestQueue(t)
  \/ next(t)
  \/ set_workState(t)
  \/ try_answer_request(t)
  \/ work_share(t)
  \/ Uncount(t)
  \/ Wake(t, "wake", "loopTest")
  \/ LoopTest(t)
  \/ GoIdle(t)
  \/ counter_increment(t)
  \/ Drain(t)
  \/ Cancel(t)
  \/ Wake(t, "release", "drain")
  \/ select_victim(t)
  \/ UncountSelf(t)
  \/ ClearReceived(t)
  \/ push_request(t)
  \/ AwaitWork(t)
  \/ StoreAllEnd(t)
  \/ unlockWaiting(t)

Next ==
  \/ \E t \in Thread : Step(t) \/ SpuriousWakeup(t)
  \/ StartBarrier
  \/ EndBarrier
  \/ NextRound
  \/ Terminated

\* Every thread is scheduled, a barrier opens, and next() cannot be called for
\* ever without consuming its interval, because the tree is finite.
Fairness ==
  /\ \A t \in Thread : WF_vars(Step(t))
  /\ \A t \in Thread : SF_vars(next(t) /\ todo'[t] # todo[t])
  /\ WF_vars(StartBarrier)
  /\ WF_vars(EndBarrier)

Spec == Init /\ [][Next]_vars
FairSpec == Spec /\ Fairness

-----------------------------------------------------------------------------
(* Properties *)

\* The variables hold what the C++ declarations allow, and one entry per thread.
TypeOK ==
  /\ pc \in [Thread -> Location]
  /\ todo \in [Thread -> SUBSET Leaf]
  /\ explored \subseteq Leaf
  /\ got_work \in [Thread -> BOOLEAN]
  /\ requestQueue \in [Thread -> Seq(Thread)]
  /\ receivedWork \in [Thread -> BOOLEAN]
  /\ thief \in [Thread -> Thread]
  /\ victim \in [Thread -> Thread]
  /\ cursor \in [Thread -> 0 .. M]
  /\ allEnd \in BOOLEAN
  /\ end_counter \in Int
  /\ counted \subseteq Thread
  /\ victim_list \in [1 .. M -> Thread]

\* None of the error exits of pull_request, request_work and try_answer_request
\* is ever taken: no queue ever holds M requests, no thread finds its own
\* request, and no thief that is answered has work already.
NoFatalExit == \A t \in Thread : ~At(t, "fatal")

\* Stealing loses nothing and copies nothing: every leaf has been explored, or
\* is in the interval of exactly one thread.
WorkConserved ==
  /\ explored \cup Left = Leaf
  /\ explored \cap Left = {}
  /\ \A t, u \in Thread : t # u => todo[t] \cap todo[u] = {}

\* A standalone team ends only when every leaf has been explored: the counter
\* never reaches M while some thread has work, or is just being handed some.
TerminationSound == singleNode /\ allEnd => Left = {}

\* The counter is the number of threads that are out of work: no thread is
\* counted twice, and no thread is taken out twice by two answers to it.
CounterExact == end_counter = Cardinality(counted)

\* Nobody is forgotten: a thread that sleeps while the search goes on and has
\* not been signalled has its request in its victim's queue, or in its hands.
RequestPending ==
  \A t \in Thread :
    At(t, "asleep") /\ ~allEnd /\ ~receivedWork[t] =>
      LET v == victim[t] IN
      \/ \E i \in DOMAIN requestQueue[v] : requestQueue[v][i] = t
      \/ /\ thief[v] = t
         /\ pc[v] \in {"share", "uncount", "wake", "cancel", "release"}

\* The team keeps the promise of an abstract pool of work: a thief is only ever
\* given work while it has none, and work leaves the pool by exploration only.
Pool == INSTANCE WorkPool
          WITH Explorer <- Thread, pool <- todo, over <- allEnd,
               Exhaustive <- singleNode
ImplementsPool == Pool!Spec

\* Once somebody has decided to stop, all threads reach the final barrier.
ShutdownCompletes == allEnd ~> \A t \in Thread : At(t, "done")

\* A thread that waits for work does not wait for ever: its request is
\* answered or cancelled, or the exploration ends.
WaitEnds == \A t \in Thread : At(t, "push") ~> At(t, "loopTest")

\* Termination is detected: when no leaf is left, a standalone team comes to its
\* end.
TerminationDetected == Left = {} ~> \A t \in Thread : At(t, "done")
=============================================================================
