----------------------------- MODULE LinkedTeam -----------------------------
(***************************************************************************)
(* The team of threads that explore with linked lists of nodes             *)
(* (multicoreLL/src/tree_controller.cpp, bbthread.cpp, tree.cpp).          *)
(*                                                                         *)
(* Every thread has a deque of nodes.  A thread whose deque is empty       *)
(* counts itself, cancels the requests queued at it, pushes a request to a *)
(* victim and only then, in another critical section, says that it waits.  *)
(* An answer or a cancellation that comes in between is overtaken by that: *)
(* the thread sleeps uncounted, possibly with work, and nobody wakes it.   *)
(* overtaken records these threads; the properties say that nothing else   *)
(* makes a sleeper unknown or leaves nodes unexplored.                     *)
(*                                                                         *)
(* A node is the set of the leaves below it.  One leaf, opt, is optimal; a *)
(* bound may cut off any node that does not have it, and all once it was   *)
(* found.                                                                  *)
(***************************************************************************)
EXTENDS Integers, FiniteSetsExt, SequencesExt

CONSTANTS
  M,        \* number of threads
  Leaves,   \* number of leaves
  Select    \* arguments::mc_ws_select: "r" neighbour, "o" oldest

ASSUME LinkedAssumption ==
  /\ M \in Nat \ {0, 1}
  /\ Leaves \in Nat \ {0}
  /\ Select \in {"r", "o"}

VARIABLES
  pc,            \* pc[i]: next step of thread i
  deq,           \* deq[i]: its nodes, the first is explored next
  continuer,     \* continuer[i]: did its last step find a node?
  requestQueue,  \* requestQueue[i]: threads that want work from i
  waiting,       \* waiting[i]: bbthread::waiting
  thief,         \* thief[i]: the thread that i answers or cancels
  victim_list,   \* the threads, the one that asked last at the end; it starts
                 \* empty if the number of threads was left to the program
  end_counter,   \* number of threads that count as idle
  allEnd,        \* the search is over
  found,         \* has opt been evaluated?
  opt,           \* the optimal leaf (never changes)
  overtaken      \* threads that were answered before they waited

ll == <<deq, continuer, found>>
comm == <<requestQueue, waiting, thief, victim_list, overtaken>>
vars == <<pc, ll, comm, end_counter, allEnd, opt>>

Thread == 0 .. M - 1
Leaf == 1 .. Leaves
Nodes == {a .. b : a, b \in Leaf} \ {{}}

Init ==
  /\ pc = [i \in Thread |-> "Loop"]
  /\ deq = [i \in Thread |-> IF i = 0 THEN <<Leaf>> ELSE <<>>]
  /\ continuer = [i \in Thread |-> TRUE]
  /\ requestQueue = [i \in Thread |-> <<>>]
  /\ waiting = [i \in Thread |-> FALSE]
  /\ thief = [i \in Thread |-> i]
  /\ victim_list \in {<<>>, [k \in 1 .. M |-> k - 1]}
  /\ end_counter = 0
  /\ allEnd = FALSE
  /\ found = FALSE /\ opt \in Leaf
  /\ overtaken = {}

Goto(i, from, to) == pc[i] = from /\ pc' = [pc EXCEPT ![i] = to]

-----------------------------------------------------------------------------
(* tree.cpp: the steps of the search *)

Middle(n) == (Min(n) + Max(n)) \div 2
decompose(n) == <<Min(n) .. Middle(n), Middle(n) + 1 .. Max(n)>>

\* Mutant: a leaf is evaluated and stays.
evaluate_top(i, n) ==
  /\ found' = (found \/ n = {opt})
  /\ UNCHANGED deq
\* improve, for a leaf that was taken from the deque.
evaluate(i, n) ==
  /\ found' = (found \/ n = {opt})
  /\ deq' = [deq EXCEPT ![i] = Tail(@)]

\* Tree::next: the first node is cut off, evaluated or replaced by children.
next(i) ==
  /\ Goto(i, "Next", "Loop")
  /\ deq[i] # <<>>
  /\ LET n == Head(deq[i])
     IN \/ /\ opt \in n => found
           /\ deq' = [deq EXCEPT ![i] = Tail(@)]
           /\ UNCHANGED found
        \/ /\ Cardinality(n) = 1
           /\ evaluate(i, n)
        \/ /\ Cardinality(n) > 1
           /\ deq' = [deq EXCEPT ![i] = decompose(n) \o Tail(@)]
           /\ UNCHANGED found
  /\ continuer' = [continuer EXCEPT ![i] = TRUE]
  /\ UNCHANGED <<comm, end_counter, allEnd, opt>>

nextEmpty(i) ==
  /\ Goto(i, "Next", "Loop")
  /\ deq[i] = <<>>
  /\ continuer' = [continuer EXCEPT ![i] = FALSE]
  /\ UNCHANGED <<deq, found, comm, end_counter, allEnd, opt>>

-----------------------------------------------------------------------------
(* explore: the loop of a thread *)

Loop(i) ==
  /\ Goto(i, "Loop", IF ~continuer[i] /\ ~allEnd THEN "Count" ELSE "Answer")
  /\ UNCHANGED <<ll, comm, end_counter, allEnd, opt>>

LoopTest(i) ==
  /\ Goto(i, "Test", IF allEnd THEN "Stop" ELSE "Next")
  /\ UNCHANGED <<ll, comm, end_counter, allEnd, opt>>

\* stop: everybody is told and unlocked, and all meet at the barrier.
stop(i) ==
  /\ Goto(i, "Stop", "Barrier")
  /\ allEnd' = TRUE
  /\ waiting' = [j \in Thread |-> IF j = i THEN waiting[i] ELSE FALSE]
  /\ UNCHANGED <<ll, requestQueue, thief, victim_list, overtaken, end_counter, opt>>

Barrier ==
  /\ \A i \in Thread : pc[i] = "Barrier"
  /\ pc' = [i \in Thread |-> "Done"]
  /\ UNCHANGED <<ll, comm, end_counter, allEnd, opt>>

-----------------------------------------------------------------------------
(* demander: a thread without work *)

\* Mutant: the thread does not count itself.
count_not(i) ==
  /\ Goto(i, "Count", "Cancel")
  /\ UNCHANGED <<ll, comm, end_counter, allEnd, opt>>
\* counter_increment; the last one leaves without looking at its requests.
counter_increment(i) ==
  /\ pc[i] = "Count"
  /\ end_counter' = end_counter + 1
  /\ allEnd' = (allEnd \/ end_counter' = M)
  /\ pc' = [pc EXCEPT ![i] = IF end_counter' = M THEN "Test" ELSE "Cancel"]
  /\ UNCHANGED <<ll, comm, opt>>

\* The next request that was queued here, if there is one.
pull_request(i) ==
  /\ thief' = [thief EXCEPT ![i] = Head(requestQueue[i])]
  /\ requestQueue' = [requestQueue EXCEPT ![i] = Tail(@)]

Cancel(i) ==
  /\ requestQueue[i] # <<>>
  /\ Goto(i, "Cancel", IF Head(requestQueue[i]) = i THEN "Fatal" ELSE "CancelCount")
  /\ pull_request(i)
  /\ UNCHANGED <<ll, waiting, victim_list, overtaken, end_counter, allEnd, opt>>

\* Mutant: a thread whose request is cancelled stays counted.
decrement_not(i, from, to) ==
  /\ Goto(i, from, to)
  /\ UNCHANGED <<ll, comm, end_counter, allEnd, opt>>
counter_decrement(i, from, to) ==
  /\ Goto(i, from, to)
  /\ end_counter' = end_counter - 1
  /\ UNCHANGED <<ll, comm, allEnd, opt>>

\* Mutant: the counter is taken for the news.
WakeNobody(i) == UNCHANGED <<waiting, overtaken>>
\* The thief is woken, or it will not see that it was.
Wake(i) ==
  /\ waiting' = [waiting EXCEPT ![thief[i]] = FALSE]
  /\ overtaken' = IF pc[thief[i]] = "SetWaiting" THEN overtaken \cup {thief[i]}
                                                 ELSE overtaken
CancelWake(i) ==
  /\ Goto(i, "CancelWake", "Cancel")
  /\ Wake(i)
  /\ UNCHANGED <<ll, requestQueue, thief, victim_list, end_counter, allEnd, opt>>

\* chooseOldest moves i to the end of the list and takes the first.
Without(list, i) ==
  IF i \in ToSet(list)
  THEN RemoveAt(list, CHOOSE k \in DOMAIN list : list[k] = i) ELSE list
Oldest(i) == Append(Without(victim_list, i), i)
choisir_thread(i, list) ==
  IF Select = "o" THEN Head(list) ELSE IF i = 0 THEN M - 1 ELSE i - 1

\* A victim is chosen and the request pushed to it, unless it is i itself.
push_request(i) ==
  /\ requestQueue[i] = <<>>
  /\ victim_list' = IF Select = "o" THEN Oldest(i) ELSE victim_list
  /\ LET victim == choisir_thread(i, victim_list')
     IN IF victim # i
        THEN /\ Goto(i, "Cancel", "SetWaiting")
             /\ requestQueue' = [requestQueue EXCEPT ![victim] = Append(@, i)]
        ELSE /\ Goto(i, "Cancel", "Alone")
             /\ UNCHANGED requestQueue
  /\ UNCHANGED <<ll, waiting, thief, overtaken, end_counter, allEnd, opt>>

SetWaiting(i) ==
  /\ Goto(i, "SetWaiting", "Wait")
  /\ waiting' = [waiting EXCEPT ![i] = TRUE]
  /\ UNCHANGED <<ll, requestQueue, thief, victim_list, overtaken, end_counter,
                 allEnd, opt>>

\* The thread sleeps until it is answered, cancelled or all is over.
Wait(i) ==
  /\ ~waiting[i] \/ allEnd
  /\ Goto(i, "Wait", "Test")
  /\ UNCHANGED <<ll, comm, end_counter, allEnd, opt>>

-----------------------------------------------------------------------------
(* try_repondre: one request is answered in every round *)

NoRequest(i) ==
  /\ requestQueue[i] = <<>>
  /\ Goto(i, "Answer", "Test")
  /\ UNCHANGED <<ll, comm, end_counter, allEnd, opt>>

Answer(i) ==
  /\ requestQueue[i] # <<>>
  /\ Goto(i, "Answer", "Share")
  /\ pull_request(i)
  /\ UNCHANGED <<ll, waiting, victim_list, overtaken, end_counter, allEnd, opt>>

\* The thief gets the last half of the nodes, the last one first, each pushed
\* at its front; the only node is kept.
howMany(i) == Len(deq[i]) \div 2
\* Mutant: the nodes are not popped.
work_copy(i) ==
  /\ Goto(i, "Share", "AnswerCount")
  /\ deq' = [deq EXCEPT ![thief[i]] =
               SubSeq(deq[i], Len(deq[i]) - howMany(i) + 1, Len(deq[i])) \o @]
  /\ UNCHANGED <<continuer, found, comm, end_counter, allEnd, opt>>
work_share(i) ==
  /\ Goto(i, "Share", "AnswerCount")
  /\ deq' = [deq EXCEPT
               ![thief[i]] = SubSeq(deq[i], Len(deq[i]) - howMany(i) + 1, Len(deq[i])) \o @,
               ![i] = SubSeq(@, 1, Len(@) - howMany(i))]
  /\ UNCHANGED <<continuer, found, comm, end_counter, allEnd, opt>>

AnswerWake(i) ==
  /\ Goto(i, "AnswerWake", "Test")
  /\ Wake(i)
  /\ UNCHANGED <<ll, requestQueue, thief, victim_list, end_counter, allEnd, opt>>

-----------------------------------------------------------------------------

Step(i) ==
  \/ Loop(i) \/ LoopTest(i) \/ next(i) \/ nextEmpty(i) \/ stop(i)
  \/ counter_increment(i) \/ Cancel(i) \/ CancelWake(i)
  \/ counter_decrement(i, "CancelCount", "CancelWake")
  \/ counter_decrement(i, "Alone", "Test")
  \/ push_request(i) \/ SetWaiting(i) \/ Wait(i)
  \/ NoRequest(i) \/ Answer(i) \/ work_share(i) \/ AnswerWake(i)
  \/ counter_decrement(i, "AnswerCount", "AnswerWake")

Finished == \A i \in Thread : pc[i] = "Done"

\* The team is over, or it hangs: some thread was overtaken and nobody moves.
Stopped == (Finished \/ overtaken # {}) /\ UNCHANGED vars

Next == (\E i \in Thread : Step(i)) \/ Barrier \/ Stopped

Spec == Init /\ [][Next]_vars /\ WF_vars(Barrier) /\ \A i \in Thread : WF_vars(Step(i))

-----------------------------------------------------------------------------
(* Properties *)

Steps == {"Loop", "Test", "Next", "Stop", "Barrier", "Done", "Count", "Cancel",
          "CancelCount", "CancelWake", "SetWaiting", "Wait", "Answer", "Share",
          "AnswerCount", "AnswerWake", "Alone"}

\* The types; in particular no thread pulls its own request, which would be
\* a fatal error, and the counter stays between 0 and M.
TypeOK ==
  /\ pc \in [Thread -> Steps]
  /\ deq \in [Thread -> Seq(Nodes)]
  /\ continuer \in [Thread -> BOOLEAN] /\ waiting \in [Thread -> BOOLEAN]
  /\ requestQueue \in [Thread -> Seq(Thread)]
  /\ thief \in [Thread -> Thread]
  /\ victim_list \in Seq(Thread)
  /\ end_counter \in 0 .. M
  /\ allEnd \in BOOLEAN /\ found \in BOOLEAN
  /\ opt \in Leaf /\ overtaken \subseteq Thread

\* The counter says how many threads ask and were not answered or cancelled:
\* whoever cancels or answers takes exactly one off, whatever is interleaved.
Asks(i) ==
  \/ \E j \in Thread : i \in ToSet(requestQueue[j])
  \/ \E j \in Thread : pc[j] \in {"CancelCount", "Share", "AnswerCount"} /\ thief[j] = i
Counted ==
  {i \in Thread : Asks(i) \/ pc[i] \in {"Cancel", "CancelCount", "CancelWake", "Alone"}}
CounterExact == ~allEnd => end_counter = Cardinality(Counted)

\* A thread that sleeps will be found by somebody: its request is queued or
\* being served; or it was overtaken.
SleeperKnown ==
  \A i \in Thread :
    pc[i] = "Wait" /\ waiting[i] /\ ~allEnd =>
      \/ Asks(i)
      \/ \E j \in Thread : pc[j] \in {"CancelWake", "AnswerWake"} /\ thief[j] = i
      \/ i \in overtaken

\* Every node is explored in the end unless a thread was overtaken, which may
\* have been given nodes and sleeps on them.  (That the team then also stops
\* is not promised: three threads can cancel one another's requests for ever,
\* as those of matrix_controller can.)
ExploredOrOvertaken == <>((\A i \in Thread : deq[i] = <<>>) \/ overtaken # {})

\* The team implements the pool of work.
NodesOf(i) == UNION ToSet(deq[i])
Pool == INSTANCE WorkPool WITH
  Explorer <- Thread, Exhaustive <- TRUE,
  pool <- [i \in Thread |-> NodesOf(i)],
  over <- allEnd
ImplementsPool == Pool!Spec
=============================================================================
