-------------------------- MODULE LinkedTeamProofs --------------------------
(***************************************************************************)
(* The safety of the team of multicoreLL, for every number of threads and  *)
(* leaves and both selections of victims: the counter is exact, no thread  *)
(* pulls its own request, a sleeper is known to somebody unless it was     *)
(* overtaken, and the team implements the pool of work.                    *)
(***************************************************************************)
EXTENDS LinkedTeam, FiniteSetTheorems, SequenceTheorems, TLAPS

-----------------------------------------------------------------------------
(* The inductive invariant *)

\* The request of i is queued at j.
Queued(i, j) == \E k \in 1 .. Len(requestQueue[j]) : requestQueue[j][k] = i

\* j has pulled a request; its thief is still in the counter, resp. is not.
Counting(j) == pc[j] \in {"CancelCount", "Share", "AnswerCount"}
Waking(j) == pc[j] \in {"CancelWake", "AnswerWake"}
Held(i, j) == (Counting(j) \/ Waking(j)) /\ thief[j] = i

\* The request of i is with j.
At(i, j) == Queued(i, j) \/ Held(i, j)

\* The steps of a thread that is idle and has no request anywhere.
Idle == {"Cancel", "CancelCount", "CancelWake", "Alone"}

\* Where a thread may stand whose request is with somebody.
Waits(i) ==
  \/ pc[i] = "SetWaiting"
  \/ pc[i] = "Wait" /\ (waiting[i] \/ allEnd)
  \/ allEnd /\ pc[i] \in {"Test", "Stop", "Barrier", "Done"}

\* Every request stands for a thread that waits, ...
RequestInv == \A i, j \in Thread : At(i, j) => i # j /\ Waits(i)
\* ... and a thread has one request only.
OnceInv ==
  /\ \A i, j, h \in Thread : At(i, j) /\ At(i, h) => j = h
  /\ \A i, j \in Thread : Queued(i, j) => ~Held(i, j)
  /\ \A j \in Thread : \A k, l \in 1 .. Len(requestQueue[j]) :
       requestQueue[j][k] = requestQueue[j][l] => k = l

\* The counter, also after the end.
CountInv ==
  /\ ~allEnd => end_counter = Cardinality(Counted)
  /\ allEnd => Cardinality(Counted) <= end_counter

\* Who is idle has no nodes; who asks has none either, unless it was just given some.
IdleInv ==
  \A i \in Thread :
    /\ pc[i] = "Loop" /\ ~continuer[i] => deq[i] = <<>>
    /\ pc[i] \in {"Count"} \cup Idle => deq[i] = <<>>
    /\ Asks(i) => \/ deq[i] = <<>>
                  \/ \E j \in Thread : pc[j] = "AnswerCount" /\ thief[j] = i

\* A thread that goes to sleep is known, or was overtaken.
SleepInv ==
  \A i \in Thread :
    pc[i] = "SetWaiting" \/ (pc[i] = "Wait" /\ waiting[i]) =>
      allEnd \/ i \in overtaken \/ \E j \in Thread : At(i, j)

\* When the search is over there are no nodes, and who has left knows it.
EndInv ==
  /\ allEnd => \A i \in Thread :
       /\ deq[i] = <<>>
       /\ pc[i] \in {"SetWaiting", "Wait", "Test", "Stop", "Barrier", "Done"} \cup Idle
  /\ \A i \in Thread : pc[i] \in {"Stop", "Barrier", "Done"} => allEnd

\* The nodes of a thread have no leaf in common.
NodeInv ==
  \A i \in Thread : \A k, l \in 1 .. Len(deq[i]) :
    k # l => deq[i][k] \cap deq[i][l] = {}

IInv ==
  /\ RequestInv /\ OnceInv /\ CountInv /\ IdleInv /\ SleepInv /\ EndInv /\ NodeInv

-----------------------------------------------------------------------------
(* Facts about the data *)

\* The steps, so that their set can stay folded.
LEMMA Locations ==
  /\ "Loop" \in Steps /\ "Test" \in Steps /\ "Next" \in Steps /\ "Stop" \in Steps
  /\ "Barrier" \in Steps /\ "Done" \in Steps /\ "Count" \in Steps /\ "Cancel" \in Steps
  /\ "CancelCount" \in Steps /\ "CancelWake" \in Steps /\ "SetWaiting" \in Steps
  /\ "Wait" \in Steps /\ "Answer" \in Steps /\ "Share" \in Steps
  /\ "AnswerCount" \in Steps /\ "AnswerWake" \in Steps /\ "Alone" \in Steps
BY DEF Steps

\* The ends of an interval.
LEMMA Ends ==
  ASSUME NEW a \in Int, NEW b \in Int, a <= b
  PROVE  Min(a .. b) = a /\ Max(a .. b) = b
<1>1. \A x \in a .. b : (\A y \in a .. b : x =< y) => x = a
  OBVIOUS
<1>2. \A x \in a .. b : (\A y \in a .. b : x >= y) => x = b
  OBVIOUS
<1>3. a \in a .. b /\ (\A y \in a .. b : a =< y) /\ b \in a .. b /\ (\A y \in a .. b : b >= y)
  OBVIOUS
<1> QED BY <1>1, <1>2, <1>3 DEF Min, Max

\* decompose cuts a node that is not a leaf into two that are not empty.
LEMMA Halves ==
  ASSUME NEW n \in Nodes, Cardinality(n) # 1
  PROVE  \E a, m, b \in Leaf :
           /\ n = a .. b /\ a <= m /\ m + 1 <= b
           /\ decompose(n) = <<a .. m, m + 1 .. b>>
<1>1. PICK a, b \in Leaf : n = a .. b /\ n # {}
  BY DEF Nodes
<1>2. a \in Int /\ b \in Int /\ a \in Nat /\ b \in Nat /\ a <= b
  BY <1>1, LinkedAssumption DEF Leaf
<1>3. a < b
  BY <1>1, <1>2, FS_Interval
<1>4. Min(n) = a /\ Max(n) = b
  BY <1>1, <1>2, Ends
<1> DEFINE m == (a + b) \div 2
<1>5. m \in Int /\ a <= m /\ m + 1 <= b
  BY <1>2, <1>3
<1>6. m \in Leaf
  BY <1>2, <1>5, LinkedAssumption DEF Leaf
<1>7. decompose(n) = <<a .. m, m + 1 .. b>>
  BY <1>4 DEF decompose, Middle
<1> QED BY <1>1, <1>5, <1>6, <1>7

\* Both halves are nodes.
LEMMA ParentType ==
  ASSUME NEW a \in Leaf, NEW m \in Leaf, NEW b \in Leaf, a <= m, m + 1 <= b
  PROVE  <<a .. m, m + 1 .. b>> \in Seq(Nodes)
<1>1. m + 1 \in Leaf
  BY LinkedAssumption DEF Leaf
<1>2. a .. m \in Nodes /\ m + 1 .. b \in Nodes
  <2>1. a .. m # {} /\ m + 1 .. b # {}
    BY LinkedAssumption DEF Leaf
  <2> QED BY <1>1, <2>1 DEF Nodes
<1> QED BY <1>2

\* The team is finite, and so is every part of it.
LEMMA TeamFinite ==
  /\ IsFiniteSet(Thread) /\ Cardinality(Thread) = M
  /\ IsFiniteSet(Counted) /\ Cardinality(Counted) \in Nat
  /\ Cardinality(Counted) <= M
  /\ Cardinality(Counted) = M => Counted = Thread
<1>1. IsFiniteSet(Thread) /\ Cardinality(Thread) = M
  BY LinkedAssumption, FS_Interval DEF Thread
<1>2. Counted \in SUBSET Thread
  BY DEF Counted
<1> QED BY <1>1, <1>2, FS_Subset, FS_CardinalityType


\* The entries of a queue, as a set and one by one.
LEMMA Entries ==
  ASSUME NEW s \in Seq(Thread), NEW x
  PROVE  x \in ToSet(s) <=> \E k \in 1 .. Len(s) : s[k] = x
BY LenProperties DEF ToSet

\* Who asks: the request is queued, or somebody holds it who has not counted yet.
LEMMA AsksQueued ==
  ASSUME requestQueue \in [Thread -> Seq(Thread)], NEW i \in Thread
  PROVE  Asks(i) <=> \E j \in Thread : Queued(i, j) \/ (Counting(j) /\ thief[j] = i)
<1>1. \A j \in Thread : i \in ToSet(requestQueue[j]) <=> Queued(i, j)
  BY Entries DEF Queued
<1> QED BY <1>1 DEF Asks, Counting

\* The same after a step.
LEMMA AsksQueuedNext ==
  ASSUME requestQueue' \in [Thread -> Seq(Thread)], NEW i \in Thread
  PROVE  Asks(i)' <=> \E j \in Thread :
                        Queued(i, j)' \/ (Counting(j)' /\ thief'[j] = i)
<1>1. \A j \in Thread : i \in ToSet(requestQueue'[j]) <=> Queued(i, j)'
  BY Entries DEF Queued
<1> QED BY <1>1 DEF Asks, Counting

\* Pulling a request shortens the queue by its first entry.
LEMMA Pulled ==
  ASSUME TypeOK, NEW i \in Thread, requestQueue[i] # <<>>, pull_request(i)
  PROVE  /\ thief' \in [Thread -> Thread]
         /\ requestQueue' \in [Thread -> Seq(Thread)]
         /\ thief'[i] = requestQueue[i][1] /\ 1 \in 1 .. Len(requestQueue[i])
         /\ \A j \in Thread \ {i} : thief'[j] = thief[j] /\ requestQueue'[j] = requestQueue[j]
         /\ Len(requestQueue'[i]) = Len(requestQueue[i]) - 1
         /\ \A k \in 1 .. Len(requestQueue'[i]) :
              requestQueue'[i][k] = requestQueue[i][k + 1]
<1>1. requestQueue[i] \in Seq(Thread)
  BY DEF TypeOK
<1>2. /\ Head(requestQueue[i]) \in Thread /\ Tail(requestQueue[i]) \in Seq(Thread)
      /\ Len(Tail(requestQueue[i])) = Len(requestQueue[i]) - 1
      /\ \A k \in 1 .. Len(Tail(requestQueue[i])) :
           Tail(requestQueue[i])[k] = requestQueue[i][k + 1]
  BY <1>1, HeadTailProperties
<1>3. Head(requestQueue[i]) = requestQueue[i][1]
  BY <1>1
<1>4. 1 \in 1 .. Len(requestQueue[i])
  BY <1>1, EmptySeq
<1> QED BY <1>2, <1>3, <1>4 DEF pull_request, TypeOK

\* The victim of i is a thread; the list of victims remains one of threads.
LEMMA Victim ==
  ASSUME TypeOK, NEW i \in Thread
  PROVE  /\ Oldest(i) \in Seq(Thread)
         /\ choisir_thread(i, Oldest(i)) \in Thread
         /\ Select # "o" => \A list : choisir_thread(i, list) \in Thread
<1>1. Select # "o" => \A list : choisir_thread(i, list) \in Thread
  BY LinkedAssumption DEF choisir_thread, Thread
<1>2. Without(victim_list, i) \in Seq(Thread)
  <2>1. victim_list \in Seq(Thread)
    BY DEF TypeOK
  <2>2. CASE i \in ToSet(victim_list)
    <3> DEFINE k == CHOOSE k \in DOMAIN victim_list : victim_list[k] = i
    <3>1. k \in 1 .. Len(victim_list)
      BY <2>1, <2>2, LenProperties DEF ToSet
    <3>2. Without(victim_list, i) = RemoveAt(victim_list, k)
      BY <2>2 DEF Without
    <3> HIDE DEF k
    <3>3. /\ k \in Int /\ k - 1 \in Int /\ k + 1 \in Int /\ Len(victim_list) \in Int
          /\ \A n \in 1 .. Len(victim_list) : victim_list[n] \in Thread
      BY <2>1, <3>1
    <3>4. \A n \in 1 .. k - 1 : victim_list[n] \in Thread
      BY <3>1, <3>3
    <3>5. \A n \in k + 1 .. Len(victim_list) : victim_list[n] \in Thread
      BY <3>1, <3>3
    <3>6. SubSeq(victim_list, 1, k - 1) \in Seq(Thread)
      BY <3>3, <3>4, SubSeqProperties
    <3>7. SubSeq(victim_list, k + 1, Len(victim_list)) \in Seq(Thread)
      BY <3>3, <3>5, SubSeqProperties
    <3> QED BY <3>2, <3>6, <3>7, ConcatProperties DEF RemoveAt
  <2>3. CASE i \notin ToSet(victim_list)
    BY <2>1, <2>3 DEF Without
  <2> QED BY <2>2, <2>3
<1>3. Oldest(i) \in Seq(Thread) /\ Oldest(i) # <<>>
  BY <1>2, AppendProperties DEF Oldest
<1>4. Head(Oldest(i)) \in Thread
  BY <1>3, HeadTailProperties
<1>5. Select = "o" => choisir_thread(i, Oldest(i)) \in Thread
  BY <1>4 DEF choisir_thread
<1> QED BY <1>1, <1>3, <1>5

\* So a request goes to some other thread, or to nobody.
LEMMA Pushed ==
  ASSUME TypeOK, NEW i \in Thread, push_request(i)
  PROVE  \/ /\ Goto(i, "Cancel", "Alone") /\ requestQueue' = requestQueue
         \/ /\ Goto(i, "Cancel", "SetWaiting")
            /\ \E v \in Thread \ {i} :
                 /\ requestQueue' \in [Thread -> Seq(Thread)]
                 /\ \A j \in Thread \ {v} : requestQueue'[j] = requestQueue[j]
                 /\ Len(requestQueue'[v]) = Len(requestQueue[v]) + 1
                 /\ requestQueue'[v][Len(requestQueue[v]) + 1] = i
                 /\ \A k \in 1 .. Len(requestQueue[v]) :
                      requestQueue'[v][k] = requestQueue[v][k]
<1> DEFINE v == choisir_thread(i, victim_list')
<1>1. v \in Thread
  BY Victim DEF push_request
<1>2. CASE v = i
  BY <1>2 DEF push_request
<1>3. CASE v # i
  <2>1. /\ Goto(i, "Cancel", "SetWaiting")
        /\ requestQueue' = [requestQueue EXCEPT ![v] = Append(@, i)]
    BY <1>3 DEF push_request
  <2> HIDE DEF v
  <2>2. requestQueue[v] \in Seq(Thread) /\ requestQueue \in [Thread -> Seq(Thread)]
    BY <1>1 DEF TypeOK
  <2>3. /\ Append(requestQueue[v], i) \in Seq(Thread)
        /\ Len(Append(requestQueue[v], i)) = Len(requestQueue[v]) + 1
        /\ \A k \in 1 .. Len(requestQueue[v]) :
             Append(requestQueue[v], i)[k] = requestQueue[v][k]
        /\ Append(requestQueue[v], i)[Len(requestQueue[v]) + 1] = i
    BY <2>2, AppendProperties
  <2>4. requestQueue'[v] = Append(requestQueue[v], i)
    BY <1>1, <2>1, <2>2
  <2>5. \A j \in Thread \ {v} : requestQueue'[j] = requestQueue[j]
    BY <1>1, <2>1, <2>2
  <2>6. requestQueue' \in [Thread -> Seq(Thread)]
    BY <1>1, <2>1, <2>2, <2>3
  <2> QED BY <1>1, <1>3, <2>1, <2>3, <2>4, <2>5, <2>6
<1> QED BY <1>2, <1>3

\* The shared half and the half that is kept; the thief has no nodes.
LEMMA SharedHalves ==
  ASSUME TypeOK, NEW i \in Thread, thief[i] # i, deq[thief[i]] = <<>>, work_share(i)
  PROVE  LET n == Len(deq[i])  h == Len(deq[i]) \div 2
         IN /\ n \in Nat /\ h \in Nat /\ h <= n
            /\ deq' \in [Thread -> Seq(Nodes)]
            /\ Len(deq'[i]) = n - h /\ Len(deq'[thief[i]]) = h
            /\ \A k \in 1 .. n - h : deq'[i][k] = deq[i][k]
            /\ \A k \in 1 .. h : deq'[thief[i]][k] = deq[i][n - h + k]
            /\ \A j \in Thread \ {i, thief[i]} : deq'[j] = deq[j]
<1> DEFINE n == Len(deq[i])
           h == Len(deq[i]) \div 2
           kept == SubSeq(deq[i], 1, n - h)
           given == SubSeq(deq[i], n - h + 1, n)
<1>1. deq[i] \in Seq(Nodes) /\ n \in Nat /\ h \in Nat /\ h <= n
  BY DEF TypeOK
<1> HIDE DEF n, h
<1>2. \A k \in 1 .. n : deq[i][k] \in Nodes
  BY <1>1 DEF n
<1>3. /\ kept \in Seq(Nodes) /\ Len(kept) = n - h
      /\ \A k \in 1 .. n - h : kept[k] = deq[i][k]
  <2>1. 1 \in Int /\ n - h \in Int /\ \A k \in 1 .. n - h : deq[i][k] \in Nodes
    BY <1>1, <1>2
  <2>2. /\ kept \in Seq(Nodes) /\ Len(kept) = IF 1 <= n - h THEN n - h - 1 + 1 ELSE 0
        /\ \A k \in 1 .. n - h - 1 + 1 : kept[k] = deq[i][1 + k - 1]
    BY <2>1, SubSeqProperties
  <2> QED BY <1>1, <2>2
<1>4. /\ given \in Seq(Nodes) /\ Len(given) = h
      /\ \A k \in 1 .. h : given[k] = deq[i][n - h + k]
  <2>1. n - h + 1 \in Int /\ n \in Int /\ \A k \in n - h + 1 .. n : deq[i][k] \in Nodes
    BY <1>1, <1>2
  <2>2. /\ given \in Seq(Nodes)
        /\ Len(given) = IF n - h + 1 <= n THEN n - (n - h + 1) + 1 ELSE 0
        /\ \A k \in 1 .. n - (n - h + 1) + 1 : given[k] = deq[i][n - h + 1 + k - 1]
    BY <2>1, SubSeqProperties
  <2> QED BY <1>1, <2>2
<1>5. given \o deq[thief[i]] = given
  BY <1>4, ConcatEmptySeq
<1>6. thief[i] \in Thread
  BY DEF TypeOK
<1>7. deq' = [deq EXCEPT ![thief[i]] = given, ![i] = kept]
  BY <1>5, <1>6 DEF work_share, howMany, TypeOK, n, h
<1>8. /\ deq'[i] = kept /\ deq'[thief[i]] = given
      /\ \A j \in Thread \ {i, thief[i]} : deq'[j] = deq[j]
      /\ deq' \in [Thread -> Seq(Nodes)]
  BY <1>3, <1>4, <1>6, <1>7 DEF TypeOK
<1> QED BY <1>1, <1>3, <1>4, <1>8 DEF n, h

\* A step of the search: the nodes that are left have their leaves from the
\* first node or are the others, and have none in common.
LEMMA NextNodes ==
  ASSUME TypeOK, NEW i \in Thread, next(i),
         \A k, l \in 1 .. Len(deq[i]) : k # l => deq[i][k] \cap deq[i][l] = {}
  PROVE  /\ deq' \in [Thread -> Seq(Nodes)]
         /\ \A j \in Thread \ {i} : deq'[j] = deq[j]
         /\ \A k \in 1 .. Len(deq'[i]) :
              \E l \in 1 .. Len(deq[i]) : deq'[i][k] \subseteq deq[i][l]
         /\ \A k, l \in 1 .. Len(deq'[i]) : k # l => deq'[i][k] \cap deq'[i][l] = {}
<1> DEFINE s == deq[i]
           t == Tail(deq[i])
<1>1. deq \in [Thread -> Seq(Nodes)] /\ s \in Seq(Nodes) /\ s # <<>> /\ Len(s) \in Nat
  BY DEF TypeOK, next
<1>2. /\ Head(s) \in Nodes /\ t \in Seq(Nodes) /\ Len(t) = Len(s) - 1
      /\ \A k \in 1 .. Len(t) : t[k] = s[k + 1]
  BY <1>1, HeadTailProperties
<1>3. Head(s) = s[1] /\ Len(s) >= 1
  BY <1>1, EmptySeq
<1> HIDE DEF s, t
<1>4. CASE deq' = [deq EXCEPT ![i] = t]
  <2>1. deq'[i] = t /\ deq' \in [Thread -> Seq(Nodes)]
    BY <1>1, <1>2, <1>4
  <2>2. \A j \in Thread \ {i} : deq'[j] = deq[j]
    BY <1>1, <1>4
  <2>3. \A k \in 1 .. Len(t) : k + 1 \in 1 .. Len(s)
    BY <1>1, <1>2
  <2>4. \A k \in 1 .. Len(t) : \E l \in 1 .. Len(s) : t[k] \subseteq s[l]
    BY <1>2, <2>3
  <2>5. \A k, l \in 1 .. Len(t) : k # l => k + 1 # l + 1
    OBVIOUS
  <2>6. \A k, l \in 1 .. Len(t) : k # l => t[k] \cap t[l] = {}
    BY <1>2, <2>3, <2>5 DEF s
  <2> QED BY <2>1, <2>2, <2>4, <2>6 DEF s
<1>5. CASE Cardinality(Head(s)) > 1 /\ deq' = [deq EXCEPT ![i] = decompose(Head(s)) \o t]
  <2>1. PICK a, m, b \in Leaf :
          /\ Head(s) = a .. b /\ a <= m /\ m + 1 <= b
          /\ decompose(Head(s)) = <<a .. m, m + 1 .. b>>
    BY <1>2, <1>5, Halves
  <2>2. a \in Int /\ m \in Int /\ b \in Int
    BY LinkedAssumption DEF Leaf
  <2> DEFINE d == <<a .. m, m + 1 .. b>>
  <2>3. d \in Seq(Nodes)
    BY <2>1, ParentType
  <2>4. Len(d) = 2 /\ d[1] = a .. m /\ d[2] = m + 1 .. b
    OBVIOUS
  <2> HIDE DEF d
  <2>5. /\ d \o t \in Seq(Nodes) /\ Len(d \o t) = 2 + Len(t)
        /\ \A k \in 1 .. 2 + Len(t) : (d \o t)[k] = IF k <= 2 THEN d[k] ELSE t[k - 2]
    <3>1. /\ d \o t \in Seq(Nodes) /\ Len(d \o t) = Len(d) + Len(t)
          /\ \A k \in 1 .. Len(d) + Len(t) :
               (d \o t)[k] = IF k <= Len(d) THEN d[k] ELSE t[k - Len(d)]
      BY <1>2, <2>3, ConcatProperties
    <3> QED BY <2>4, <3>1
  <2>6. deq'[i] = d \o t /\ deq' \in [Thread -> Seq(Nodes)]
    BY <1>1, <1>5, <2>1, <2>5 DEF d
  <2>7. \A j \in Thread \ {i} : deq'[j] = deq[j]
    BY <1>1, <1>5
  <2>8. \A k \in 1 .. Len(deq'[i]) :
          \/ k = 1 /\ deq'[i][k] = a .. m
          \/ k = 2 /\ deq'[i][k] = m + 1 .. b
          \/ k - 1 \in 2 .. Len(s) /\ k \notin {1, 2} /\ deq'[i][k] = s[k - 1]
    <3> SUFFICES ASSUME NEW k \in 1 .. Len(deq'[i])
                 PROVE  \/ k = 1 /\ deq'[i][k] = a .. m
                        \/ k = 2 /\ deq'[i][k] = m + 1 .. b
                        \/ /\ k - 1 \in 2 .. Len(s) /\ k \notin {1, 2}
                           /\ deq'[i][k] = s[k - 1]
      OBVIOUS
    <3>1. CASE k <= 2
      BY <3>1, <1>1, <1>2, <2>4, <2>5, <2>6
    <3>2. CASE k > 2
      <4>1. k - 2 \in 1 .. Len(t) /\ (k - 2) + 1 = k - 1 /\ k - 1 \in 2 .. Len(s)
        BY <1>1, <1>2, <2>5, <2>6, <3>2
      <4>2. deq'[i][k] = t[k - 2]
        BY <1>1, <1>2, <2>5, <2>6, <3>2
      <4> QED BY <1>2, <3>2, <4>1, <4>2
    <3> QED BY <1>1, <1>2, <2>5, <2>6, <3>1, <3>2
  <2>9. a .. m \subseteq s[1] /\ m + 1 .. b \subseteq s[1] /\ (a .. m) \cap (m + 1 .. b) = {}
    BY <1>3, <2>1, <2>2
  <2>10. \A k \in 2 .. Len(s) : k \in 1 .. Len(s) /\ s[1] \cap s[k] = {} /\ 1 \in 1 .. Len(s)
    BY <1>1, <1>3 DEF s
  <2>11. 1 \in 1 .. Len(s)
    BY <1>1, <1>3
  <2>12. \A k \in 1 .. Len(deq'[i]) : \E l \in 1 .. Len(s) : deq'[i][k] \subseteq s[l]
    BY <2>8, <2>9, <2>10, <2>11
  <2>13. \A k, l \in 1 .. Len(deq'[i]) : k # l => deq'[i][k] \cap deq'[i][l] = {}
    <3> SUFFICES ASSUME NEW k \in 1 .. Len(deq'[i]), NEW l \in 1 .. Len(deq'[i]), k # l
                 PROVE  deq'[i][k] \cap deq'[i][l] = {}
      OBVIOUS
    <3>1. CASE k \in {1, 2} /\ l \in {1, 2}
      BY <2>8, <2>9, <3>1
    <3>2. CASE k \in {1, 2} /\ l \notin {1, 2}
      BY <2>8, <2>9, <2>10, <3>2
    <3>3. CASE k \notin {1, 2} /\ l \in {1, 2}
      BY <2>8, <2>9, <2>10, <3>3
    <3>4. CASE k \notin {1, 2} /\ l \notin {1, 2}
      <4>1. k - 1 # l - 1
        BY <1>1, <1>2, <2>5, <2>6
      <4> QED BY <2>8, <2>10, <3>4, <4>1 DEF s
    <3> QED BY <3>1, <3>2, <3>3, <3>4
  <2> QED BY <2>6, <2>7, <2>12, <2>13 DEF s
<1> QED BY <1>4, <1>5 DEF next, evaluate, s, t

-----------------------------------------------------------------------------
(* Facts that the steps share *)

\* A request that a thread has pulled is that of another thread, which waits.
LEMMA HeldThief ==
  ASSUME TypeOK, RequestInv, NEW j \in Thread, Counting(j) \/ Waking(j)
  PROVE  thief[j] \in Thread /\ thief[j] # j /\ Waits(thief[j]) /\ At(thief[j], j)
<1>1. thief[j] \in Thread
  BY DEF TypeOK
<1>2. At(thief[j], j)
  BY DEF At, Held
<1> QED BY <1>1, <1>2 DEF RequestInv

\* Whoever asks waits; so nobody who is about to count or to be alone asks.
LEMMA AskersWait ==
  ASSUME TypeOK, RequestInv, NEW i \in Thread, Asks(i)
  PROVE  Waits(i)
<1>1. PICK j \in Thread : Queued(i, j) \/ (Counting(j) /\ thief[j] = i)
  BY AsksQueued DEF TypeOK
<1>2. At(i, j)
  BY <1>1 DEF At, Held
<1> QED BY <1>2 DEF RequestInv

\* The thief has no nodes when it is given some.
LEMMA ThiefEmpty ==
  ASSUME TypeOK, IInv, NEW i \in Thread, pc[i] = "Share"
  PROVE  thief[i] \in Thread /\ thief[i] # i /\ deq[thief[i]] = <<>>
<1>1. thief[i] \in Thread /\ thief[i] # i /\ At(thief[i], i)
  BY HeldThief DEF IInv, Counting
<1>2. Asks(thief[i])
  BY <1>1, AsksQueued DEF Counting, TypeOK
<1>3. ~ \E j \in Thread : pc[j] = "AnswerCount" /\ thief[j] = thief[i]
  <2> SUFFICES ASSUME NEW j \in Thread, pc[j] = "AnswerCount", thief[j] = thief[i]
               PROVE  FALSE
    OBVIOUS
  <2>1. At(thief[i], j)
    BY DEF At, Held, Counting
  <2> QED BY <1>1, <2>1 DEF IInv, OnceInv
<1> QED BY <1>1, <1>2, <1>3 DEF IInv, IdleInv

\* A thread that counts itself is not counted yet, so that the counter has room;
\* when it is the last, all the others are counted.
LEMMA CountRoom ==
  ASSUME TypeOK, IInv, NEW i \in Thread, pc[i] = "Count"
  PROVE  /\ ~allEnd /\ i \notin Counted
         /\ end_counter = Cardinality(Counted)
         /\ end_counter + 1 = Cardinality(Counted \cup {i})
         /\ end_counter + 1 \in 0 .. M
         /\ end_counter + 1 = M => Counted \cup {i} = Thread
<1>1. ~allEnd
  BY DEF IInv, EndInv, Idle
<1>2. ~Asks(i)
  BY AskersWait DEF IInv, Waits
<1>3. i \notin Counted
  BY <1>2 DEF Counted
<1>4. end_counter = Cardinality(Counted)
  BY <1>1 DEF IInv, CountInv
<1>5. IsFiniteSet(Counted) /\ Cardinality(Counted) \in Nat /\ Cardinality(Thread) = M
  BY TeamFinite
<1>6. Cardinality(Counted \cup {i}) = Cardinality(Counted) + 1
  BY <1>3, <1>5, FS_AddElement
<1>7. Counted \cup {i} \in SUBSET Thread
  BY DEF Counted
<1>8. Cardinality(Counted \cup {i}) <= M /\
      (Cardinality(Counted \cup {i}) = M => Counted \cup {i} = Thread)
  BY <1>7, TeamFinite, FS_Subset
<1> QED BY <1>1, <1>3, <1>4, <1>5, <1>6, <1>8

\* Whoever is taken out of the counter is in it.
LEMMA CountPositive ==
  ASSUME TypeOK, IInv, NEW i \in Thread, pc[i] \in {"CancelCount", "AnswerCount", "Alone"}
  PROVE  /\ pc[i] # "Alone" => thief[i] \in Counted
         /\ pc[i] = "Alone" => i \in Counted
         /\ end_counter - 1 \in 0 .. M
<1>1. ASSUME pc[i] # "Alone" PROVE thief[i] \in Counted
  <2>1. thief[i] \in Thread
    BY DEF TypeOK
  <2>2. Asks(thief[i])
    BY <1>1, <2>1, AsksQueued DEF Counting, TypeOK
  <2> QED BY <1>1, <2>1, <2>2 DEF Counted
<1>2. ASSUME pc[i] = "Alone" PROVE i \in Counted
  BY <1>2 DEF Counted
<1>3. Counted # {}
  BY <1>1, <1>2
<1>4. Cardinality(Counted) \in Nat /\ Cardinality(Counted) # 0
  BY <1>3, TeamFinite, FS_EmptySet
<1>5. end_counter >= Cardinality(Counted)
  BY <1>4 DEF IInv, CountInv, TypeOK
<1>6. end_counter - 1 \in 0 .. M
  BY <1>4, <1>5, LinkedAssumption DEF TypeOK
<1> QED BY <1>1, <1>2, <1>6

-----------------------------------------------------------------------------
(* Types *)

\* The team starts with values of the types.
LEMMA TypeInit ==
  ASSUME Init PROVE TypeOK
<1>1. Leaf \in Nodes
  <2>1. Leaf = 1 .. Leaves /\ 1 \in Leaf /\ Leaves \in Leaf
    BY LinkedAssumption DEF Leaf
  <2>2. Leaf \in {a .. b : a, b \in Leaf}
    BY <2>1
  <2> QED BY <2>1, <2>2 DEF Nodes
<1>2. deq \in [Thread -> Seq(Nodes)]
  BY <1>1, EmptySeq DEF Init
<1>3. requestQueue \in [Thread -> Seq(Thread)]
  BY EmptySeq DEF Init
<1>4. victim_list \in Seq(Thread)
  <2>1. \A k \in 1 .. M : k - 1 \in Thread
    BY LinkedAssumption DEF Thread
  <2>2. M \in Nat
    BY LinkedAssumption
  <2>3. [k \in 1 .. M |-> k - 1] \in [1 .. M -> Thread]
    BY <2>1
  <2>4. [k \in 1 .. M |-> k - 1] \in Seq(Thread)
    BY <2>2, <2>3, SeqDef
  <2> QED BY <2>4, EmptySeq DEF Init
<1>5. 0 \in 0 .. M
  BY LinkedAssumption
<1> QED BY <1>2, <1>3, <1>4, <1>5, Locations DEF Init, TypeOK

\* Every step keeps the types: no thread pulls its own request, and the counter
\* stays in its range.
LEMMA TypeStep ==
  ASSUME TypeOK, IInv, [Next]_vars PROVE TypeOK'
<1> USE Locations
<1>1. ASSUME NEW i \in Thread, Step(i) PROVE TypeOK'
  <2>1. CASE next(i)
    <3>1. deq' \in [Thread -> Seq(Nodes)]
      BY <2>1, NextNodes DEF IInv, NodeInv
    <3>2. found' \in BOOLEAN
      BY <2>1 DEF next, evaluate, TypeOK
    <3> QED BY <2>1, <3>1, <3>2 DEF next, TypeOK, Goto, comm
  <2>2. CASE work_share(i)
    <3>1. deq' \in [Thread -> Seq(Nodes)]
      <4>1. pc[i] = "Share"
        BY <2>2 DEF work_share, Goto
      <4> QED BY <2>2, <4>1, ThiefEmpty, SharedHalves
    <3> QED BY <2>2, <3>1 DEF work_share, TypeOK, Goto, comm
  <2>3. CASE Cancel(i)
    <3>1. Head(requestQueue[i]) # i
      <4>1. requestQueue[i][1] = Head(requestQueue[i]) /\ 1 \in 1 .. Len(requestQueue[i])
        BY <2>3, EmptySeq DEF Cancel, TypeOK
      <4>2. Head(requestQueue[i]) \in Thread
        BY <2>3, HeadTailProperties DEF Cancel, TypeOK
      <4>3. At(Head(requestQueue[i]), i)
        BY <4>1 DEF At, Queued
      <4> QED BY <4>2, <4>3 DEF IInv, RequestInv
    <3>2. thief' \in [Thread -> Thread] /\ requestQueue' \in [Thread -> Seq(Thread)]
      BY <2>3, Pulled DEF Cancel
    <3> QED BY <2>3, <3>1, <3>2 DEF Cancel, TypeOK, Goto, ll
  <2>4. CASE Answer(i)
    <3>1. thief' \in [Thread -> Thread] /\ requestQueue' \in [Thread -> Seq(Thread)]
      BY <2>4, Pulled DEF Answer
    <3> QED BY <2>4, <3>1 DEF Answer, TypeOK, Goto, ll
  <2>5. CASE push_request(i)
    <3>1. victim_list' \in Seq(Thread)
      BY <2>5, Victim DEF push_request, TypeOK
    <3>2. requestQueue' \in [Thread -> Seq(Thread)]
      BY <2>5, Pushed DEF TypeOK
    <3>3. pc' \in [Thread -> Steps]
      <4>1. Goto(i, "Cancel", "Alone") \/ Goto(i, "Cancel", "SetWaiting")
        BY <2>5, Pushed
      <4> QED BY <4>1 DEF TypeOK, Goto
    <3> QED BY <2>5, <3>1, <3>2, <3>3 DEF push_request, TypeOK, ll
  <2>6. CASE counter_increment(i)
    <3>1. end_counter' \in 0 .. M
      BY <2>6, CountRoom DEF counter_increment
    <3> QED BY <2>6, <3>1 DEF counter_increment, TypeOK, ll, comm
  <2>7. CASE counter_decrement(i, "CancelCount", "CancelWake")
             \/ counter_decrement(i, "Alone", "Test")
             \/ counter_decrement(i, "AnswerCount", "AnswerWake")
    <3>1. end_counter' \in 0 .. M
      <4>1. pc[i] \in {"CancelCount", "AnswerCount", "Alone"}
        BY <2>7 DEF counter_decrement, Goto
      <4>2. end_counter' = end_counter - 1
        BY <2>7 DEF counter_decrement
      <4> QED BY <4>1, <4>2, CountPositive
    <3>2. pc' \in [Thread -> Steps]
      BY <2>7 DEF counter_decrement, TypeOK, Goto
    <3>3. UNCHANGED <<ll, comm, allEnd, opt>>
      BY <2>7 DEF counter_decrement
    <3> QED BY <3>1, <3>2, <3>3 DEF TypeOK, ll, comm
  <2>8. CASE Loop(i)
    BY <2>8 DEF Loop, TypeOK, Goto, ll, comm
  <2>9. CASE LoopTest(i)
    BY <2>9 DEF LoopTest, TypeOK, Goto, ll, comm
  <2>10. CASE nextEmpty(i)
    BY <2>10 DEF nextEmpty, TypeOK, Goto, comm
  <2>11. CASE stop(i)
    BY <2>11 DEF stop, TypeOK, Goto, ll
  <2>12. CASE SetWaiting(i)
    BY <2>12 DEF SetWaiting, TypeOK, Goto, ll
  <2>13. CASE Wait(i)
    BY <2>13 DEF Wait, TypeOK, Goto, ll, comm
  <2>14. CASE NoRequest(i)
    BY <2>14 DEF NoRequest, TypeOK, Goto, ll, comm
  <2>15. CASE CancelWake(i) \/ AnswerWake(i)
    <3>1. thief[i] \in Thread
      BY DEF TypeOK
    <3>2. waiting' \in [Thread -> BOOLEAN] /\ overtaken' \subseteq Thread
      BY <2>15, <3>1 DEF CancelWake, AnswerWake, Wake, TypeOK
    <3>3. pc' \in [Thread -> Steps]
      BY <2>15 DEF CancelWake, AnswerWake, Goto, TypeOK
    <3> QED BY <2>15, <3>2, <3>3 DEF CancelWake, AnswerWake, TypeOK, ll
  <2> QED BY <1>1, <2>1, <2>2, <2>3, <2>4, <2>5, <2>6, <2>7, <2>8, <2>9, <2>10, <2>11,
             <2>12, <2>13, <2>14, <2>15 DEF Step
<1>2. CASE Barrier
  BY <1>2 DEF Barrier, TypeOK, ll, comm
<1>3. CASE UNCHANGED vars
  BY <1>3 DEF vars, TypeOK, ll, comm
<1> QED BY <1>1, <1>2, <1>3 DEF Next, Stopped

-----------------------------------------------------------------------------
(* The requests *)

\* A step that adds no request keeps the invariant of those that are there, if
\* their threads go on waiting.
LEMMA KeepRequests ==
  ASSUME RequestInv, OnceInv, requestQueue' = requestQueue, thief' = thief,
         \A v \in Thread : Counting(v)' \/ Waking(v)' => Counting(v) \/ Waking(v),
         \A u, v \in Thread : At(u, v) /\ At(u, v)' => Waits(u)'
  PROVE  RequestInv' /\ OnceInv'
<1>1. \A u, v \in Thread : Queued(u, v)' <=> Queued(u, v)
  BY DEF Queued
<1>2. \A u, v \in Thread : Held(u, v)' => Held(u, v)
  BY DEF Held
<1>3. \A u, v \in Thread : At(u, v)' => At(u, v)
  BY <1>1, <1>2 DEF At
<1>4. RequestInv'
  BY <1>3 DEF RequestInv
<1>5. OnceInv'
  BY <1>1, <1>2, <1>3 DEF OnceInv
<1> QED BY <1>4, <1>5

\* A request that is pulled is with the same thread as before.
LEMMA PullAt ==
  ASSUME TypeOK, NEW i \in Thread, requestQueue[i] # <<>>, pull_request(i),
         ~(Counting(i) \/ Waking(i)), Counting(i)',
         \A j \in Thread \ {i} : pc'[j] = pc[j]
  PROVE  /\ \A u, v \in Thread : At(u, v)' <=> At(u, v)
         /\ \A u, v \in Thread : Queued(u, v)' => Queued(u, v)
         /\ \A u \in Thread : Held(u, i)' <=> u = requestQueue[i][1]
         /\ \A u, v \in Thread : v # i => (Held(u, v)' <=> Held(u, v))
         /\ \A u \in Thread, v \in Thread \ {i} : Queued(u, v)' <=> Queued(u, v)
<1>0. requestQueue[i] \in Seq(Thread) /\ Len(requestQueue[i]) \in Nat
  BY DEF TypeOK
<1>1. \A u \in Thread, v \in Thread \ {i} :
        (Queued(u, v)' <=> Queued(u, v)) /\ (Held(u, v)' <=> Held(u, v))
  BY Pulled DEF Queued, Held, Counting, Waking
<1>2. \A u \in Thread : Held(u, i)' <=> u = requestQueue[i][1]
  BY Pulled DEF Held
<1>3. \A u \in Thread : Queued(u, i)' => Queued(u, i)
  <2> SUFFICES ASSUME NEW u \in Thread, NEW k \in 1 .. Len(requestQueue'[i]),
                      requestQueue'[i][k] = u
               PROVE  Queued(u, i)
    BY DEF Queued
  <2>1. Len(requestQueue'[i]) = Len(requestQueue[i]) - 1 /\ requestQueue[i][k + 1] = u
    BY Pulled
  <2>2. k + 1 \in 1 .. Len(requestQueue[i])
    BY <1>0, <2>1
  <2> QED BY <2>1, <2>2 DEF Queued
<1>4. \A u \in Thread : Queued(u, i) => u = requestQueue[i][1] \/ Queued(u, i)'
  <2> SUFFICES ASSUME NEW u \in Thread, NEW k \in 1 .. Len(requestQueue[i]),
                      requestQueue[i][k] = u, k # 1
               PROVE  Queued(u, i)'
    BY DEF Queued
  <2>1. Len(requestQueue'[i]) = Len(requestQueue[i]) - 1
    BY Pulled
  <2>2. k - 1 \in 1 .. Len(requestQueue'[i]) /\ (k - 1) + 1 = k
    BY <1>0, <2>1
  <2>3. requestQueue'[i][k - 1] = requestQueue[i][(k - 1) + 1]
    BY <2>2, Pulled
  <2> QED BY <2>2, <2>3 DEF Queued
<1>5. \A u \in Thread : u = requestQueue[i][1] => Queued(u, i)
  BY Pulled DEF Queued
<1>6. \A u \in Thread : ~Held(u, i)
  BY DEF Held
<1> QED BY <1>1, <1>2, <1>3, <1>4, <1>5, <1>6 DEF At

\* So pulling keeps the invariant of the requests.
LEMMA PullRequests ==
  ASSUME TypeOK, RequestInv, OnceInv, NEW i \in Thread, requestQueue[i] # <<>>,
         pull_request(i), ~(Counting(i) \/ Waking(i)), Counting(i)', ~Waits(i),
         \A j \in Thread \ {i} : pc'[j] = pc[j], waiting' = waiting, allEnd' = allEnd
  PROVE  RequestInv' /\ OnceInv'
<1>0. requestQueue[i] \in Seq(Thread) /\ Len(requestQueue[i]) \in Nat
  BY DEF TypeOK
<1>1. \A u \in Thread \ {i} : Waits(u) => Waits(u)'
  BY DEF Waits
<1>2. RequestInv'
  BY <1>1, PullAt DEF RequestInv
<1>3. \A u, v \in Thread : Queued(u, v)' => ~Held(u, v)'
  <2> SUFFICES ASSUME NEW u \in Thread, NEW v \in Thread, Queued(u, v)', Held(u, v)'
               PROVE  FALSE
    OBVIOUS
  <2>1. v = i
    BY PullAt DEF OnceInv
  <2>2. PICK k \in 1 .. Len(requestQueue'[i]) : requestQueue'[i][k] = u
    BY <2>1 DEF Queued
  <2>3. requestQueue[i][k + 1] = u /\ k + 1 \in 1 .. Len(requestQueue[i]) /\ k + 1 # 1
    BY <1>0, <2>2, Pulled
  <2>4. requestQueue[i][1] = u /\ 1 \in 1 .. Len(requestQueue[i])
    BY <2>1, PullAt, Pulled
  <2> QED BY <2>3, <2>4 DEF OnceInv
<1>4. \A j \in Thread : \A k, l \in 1 .. Len(requestQueue'[j]) :
        requestQueue'[j][k] = requestQueue'[j][l] => k = l
  <2> SUFFICES ASSUME NEW j \in Thread, NEW k \in 1 .. Len(requestQueue'[j]),
                      NEW l \in 1 .. Len(requestQueue'[j]),
                      requestQueue'[j][k] = requestQueue'[j][l]
               PROVE  k = l
    OBVIOUS
  <2>1. CASE j # i
    BY <2>1, Pulled DEF OnceInv
  <2>2. CASE j = i
    <3>1. k \in 1 .. Len(requestQueue[i]) - 1 /\ l \in 1 .. Len(requestQueue[i]) - 1
      BY <2>2, Pulled
    <3>2. requestQueue[i][k + 1] = requestQueue[i][l + 1]
      BY <2>2, Pulled
    <3>3. /\ k + 1 \in 1 .. Len(requestQueue[i]) /\ l + 1 \in 1 .. Len(requestQueue[i])
          /\ k \in Int /\ l \in Int
      BY <1>0, <3>1
    <3>4. k + 1 = l + 1
      BY <3>2, <3>3 DEF OnceInv
    <3> QED BY <3>3, <3>4
  <2> QED BY <2>1, <2>2
<1>5. \A u, v, w \in Thread : At(u, v)' /\ At(u, w)' => v = w
  BY PullAt DEF OnceInv
<1> QED BY <1>2, <1>3, <1>4, <1>5 DEF OnceInv

\* A thread that makes a request has no other.
LEMMA PushRequests ==
  ASSUME TypeOK, RequestInv, OnceInv, NEW i \in Thread, push_request(i)
  PROVE  RequestInv' /\ OnceInv'
<1>0. /\ thief' = thief /\ waiting' = waiting /\ allEnd' = allEnd /\ pc[i] = "Cancel"
      /\ \A j \in Thread \ {i} : pc'[j] = pc[j]
      /\ pc'[i] \in {"Alone", "SetWaiting"}
  BY DEF push_request, Goto, TypeOK
<1>1. \A v \in Thread : ~At(i, v)
  BY <1>0 DEF RequestInv, Waits
<1>2. \A u \in Thread \ {i} : Waits(u) => Waits(u)'
  BY <1>0 DEF Waits
<1>3. \A v \in Thread : (Counting(v)' <=> Counting(v)) /\ (Waking(v)' <=> Waking(v))
  BY <1>0 DEF Counting, Waking
<1>4. CASE requestQueue' = requestQueue
  <2>1. \A u, v \in Thread : At(u, v) => Waits(u)'
    BY <1>1, <1>2 DEF RequestInv
  <2> QED BY <1>0, <1>3, <1>4, <2>1, KeepRequests
<1>5. CASE requestQueue' # requestQueue
  <2>1. Goto(i, "Cancel", "SetWaiting")
    BY <1>5, Pushed
  <2>2. PICK w \in Thread \ {i} :
          /\ \A j \in Thread \ {w} : requestQueue'[j] = requestQueue[j]
          /\ Len(requestQueue'[w]) = Len(requestQueue[w]) + 1
          /\ requestQueue'[w][Len(requestQueue[w]) + 1] = i
          /\ \A k \in 1 .. Len(requestQueue[w]) :
               requestQueue'[w][k] = requestQueue[w][k]
    BY <1>5, Pushed
  <2>3. requestQueue[w] \in Seq(Thread) /\ Len(requestQueue[w]) \in Nat
    BY DEF TypeOK
  <2>4. \A u, v \in Thread : Held(u, v)' <=> Held(u, v)
    BY <1>0, <1>3 DEF Held
  <2>5. \A u \in Thread, v \in Thread \ {w} : Queued(u, v)' <=> Queued(u, v)
    BY <2>2 DEF Queued
  <2>6. \A k \in 1 .. Len(requestQueue'[w]) :
          \/ k \in 1 .. Len(requestQueue[w]) /\ requestQueue'[w][k] = requestQueue[w][k]
          \/ k = Len(requestQueue[w]) + 1 /\ requestQueue'[w][k] = i
    BY <2>2, <2>3
  <2>7. \A k \in 1 .. Len(requestQueue[w]) :
          k \in 1 .. Len(requestQueue'[w]) /\ requestQueue[w][k] # i
    BY <1>1, <2>2, <2>3 DEF At, Queued
  <2>8. \A u \in Thread : Queued(u, w)' <=> Queued(u, w) \/ u = i
    <3>1. Len(requestQueue[w]) + 1 \in 1 .. Len(requestQueue'[w])
      BY <2>2, <2>3
    <3> QED BY <2>2, <2>6, <2>7, <3>1 DEF Queued
  <2>9. \A u, v \in Thread : At(u, v)' <=> At(u, v) \/ (u = i /\ v = w)
    BY <2>4, <2>5, <2>8 DEF At
  <2>10. Waits(i)'
    BY <2>1 DEF Goto, Waits, TypeOK
  <2>11. RequestInv'
    BY <1>2, <2>9, <2>10 DEF RequestInv
  <2>12. \A u, v, x \in Thread : At(u, v)' /\ At(u, x)' => v = x
    BY <1>1, <2>9 DEF OnceInv
  <2>13. \A u, v \in Thread : Queued(u, v)' => ~Held(u, v)'
    BY <1>1, <2>4, <2>5, <2>8 DEF OnceInv, At
  <2>14. \A j \in Thread : \A k, l \in 1 .. Len(requestQueue'[j]) :
           requestQueue'[j][k] = requestQueue'[j][l] => k = l
    <3> SUFFICES ASSUME NEW j \in Thread, NEW k \in 1 .. Len(requestQueue'[j]),
                        NEW l \in 1 .. Len(requestQueue'[j]),
                        requestQueue'[j][k] = requestQueue'[j][l]
                 PROVE  k = l
      OBVIOUS
    <3>1. CASE j # w
      BY <2>2, <3>1 DEF OnceInv
    <3>2. CASE j = w
      <4>1. CASE k \in 1 .. Len(requestQueue[w]) /\ l \in 1 .. Len(requestQueue[w])
        BY <2>2, <3>2, <4>1 DEF OnceInv
      <4>2. CASE k \notin 1 .. Len(requestQueue[w]) \/ l \notin 1 .. Len(requestQueue[w])
        BY <2>6, <2>7, <3>2, <4>2
      <4> QED BY <4>1, <4>2
    <3> QED BY <3>1, <3>2
  <2> QED BY <2>11, <2>12, <2>13, <2>14 DEF OnceInv
<1> QED BY <1>4, <1>5

\* The steps of a thread that touch no request.
Apart(i) ==
  \/ Loop(i) \/ LoopTest(i) \/ next(i) \/ nextEmpty(i) \/ stop(i)
  \/ counter_increment(i) \/ counter_decrement(i, "Alone", "Test")
  \/ counter_decrement(i, "CancelCount", "CancelWake")
  \/ counter_decrement(i, "AnswerCount", "AnswerWake")
  \/ SetWaiting(i) \/ Wait(i) \/ NoRequest(i) \/ work_share(i)

\* They leave the requests with whom they are, and whoever waits goes on waiting.
LEMMA ApartEffect ==
  ASSUME TypeOK, NEW i \in Thread, Apart(i)
  PROVE  /\ requestQueue' = requestQueue /\ thief' = thief /\ overtaken' = overtaken
         /\ allEnd => allEnd'
         /\ \A j \in Thread \ {i} : pc'[j] = pc[j]
         /\ \A j \in Thread : Counting(j) \/ Waking(j) <=> Counting(j)' \/ Waking(j)'
         /\ \A u \in Thread : Waits(u) => Waits(u)'
<1>1. requestQueue' = requestQueue /\ thief' = thief /\ overtaken' = overtaken
  BY DEF Apart, Loop, LoopTest, next, nextEmpty, stop, counter_increment, counter_decrement,
     SetWaiting, Wait, NoRequest, work_share, comm
<1>2. \A j \in Thread \ {i} : pc'[j] = pc[j]
  BY DEF Apart, Loop, LoopTest, next, nextEmpty, stop, counter_increment, counter_decrement,
     SetWaiting, Wait, NoRequest, work_share, Goto, TypeOK
<1>3. Counting(i) \/ Waking(i) <=> Counting(i)' \/ Waking(i)'
  BY DEF Apart, Loop, LoopTest, next, nextEmpty, stop, counter_increment, counter_decrement,
     SetWaiting, Wait, NoRequest, work_share, Goto, TypeOK, Counting, Waking
<1>4. /\ allEnd => allEnd'
      /\ \A u \in Thread : (waiting[u] \/ allEnd) /\ (pc[u] = "Wait" => pc'[u] = "Wait")
                             => waiting'[u] \/ allEnd'
  BY DEF Apart, Loop, LoopTest, next, nextEmpty, stop, counter_increment, counter_decrement,
     SetWaiting, Wait, NoRequest, work_share, Goto, TypeOK, comm
<1>5. Waits(i) => Waits(i)'
  <2>1. CASE LoopTest(i)
    BY <2>1 DEF LoopTest, Goto, Waits, TypeOK
  <2>2. CASE stop(i)
    BY <2>2 DEF stop, Goto, Waits, TypeOK
  <2>3. CASE SetWaiting(i)
    BY <2>3 DEF SetWaiting, Goto, Waits, TypeOK
  <2>4. CASE Wait(i)
    BY <2>4 DEF Wait, Goto, Waits, TypeOK
  <2>5. CASE Loop(i) \/ next(i) \/ nextEmpty(i) \/ counter_increment(i)
             \/ counter_decrement(i, "Alone", "Test")
             \/ counter_decrement(i, "CancelCount", "CancelWake")
             \/ counter_decrement(i, "AnswerCount", "AnswerWake")
             \/ NoRequest(i) \/ work_share(i)
    BY <2>5 DEF Loop, next, nextEmpty, counter_increment, counter_decrement, NoRequest,
       work_share, Goto, Waits
  <2> QED BY <2>1, <2>2, <2>3, <2>4, <2>5 DEF Apart
<1>6. \A u \in Thread \ {i} : Waits(u) => Waits(u)'
  BY <1>2, <1>4 DEF Waits
<1>7. \A j \in Thread \ {i} : Counting(j) \/ Waking(j) <=> Counting(j)' \/ Waking(j)'
  BY <1>2 DEF Counting, Waking
<1> QED BY <1>1, <1>2, <1>3, <1>4, <1>5, <1>6, <1>7

\* The thief that is woken has no request any more.
LEMMA WakeEffect ==
  ASSUME TypeOK, RequestInv, OnceInv, NEW i \in Thread, CancelWake(i) \/ AnswerWake(i)
  PROVE  /\ requestQueue' = requestQueue /\ thief' = thief /\ allEnd' = allEnd
         /\ \A j \in Thread \ {i} : pc'[j] = pc[j]
         /\ Waking(i) /\ ~Counting(i)' /\ ~Waking(i)' /\ ~Waits(i)
         /\ thief[i] \in Thread /\ thief[i] # i
         /\ \A u \in Thread \ {thief[i]} : waiting'[u] = waiting[u]
         /\ waiting'[thief[i]] = FALSE
         /\ overtaken \subseteq overtaken'
         /\ pc[thief[i]] = "SetWaiting" => thief[i] \in overtaken'
         /\ \A u, v \in Thread : At(u, v)' <=> At(u, v) /\ u # thief[i]
<1>1. /\ requestQueue' = requestQueue /\ thief' = thief /\ allEnd' = allEnd
      /\ \A j \in Thread \ {i} : pc'[j] = pc[j]
  BY DEF CancelWake, AnswerWake, Goto, TypeOK
<1>2. Waking(i) /\ ~Counting(i)' /\ ~Waking(i)' /\ ~Waits(i)
  BY DEF CancelWake, AnswerWake, Goto, TypeOK, Counting, Waking, Waits
<1>3. thief[i] \in Thread /\ thief[i] # i /\ At(thief[i], i) /\ Held(thief[i], i)
  BY <1>2, HeldThief DEF Held
<1>4. /\ \A u \in Thread \ {thief[i]} : waiting'[u] = waiting[u]
      /\ waiting'[thief[i]] = FALSE
      /\ overtaken \subseteq overtaken'
      /\ pc[thief[i]] = "SetWaiting" => thief[i] \in overtaken'
  BY <1>3 DEF CancelWake, AnswerWake, Wake, TypeOK
<1>5. \A u, v \in Thread : Queued(u, v)' <=> Queued(u, v)
  BY <1>1 DEF Queued
<1>6. \A u, v \in Thread : v # i => (Held(u, v)' <=> Held(u, v))
  BY <1>1 DEF Held, Counting, Waking
<1>7. \A u \in Thread : ~Held(u, i)' /\ (u # thief[i] => ~Held(u, i))
  BY <1>2 DEF Held
<1>8. \A u, v \in Thread : u # thief[i] => (At(u, v)' <=> At(u, v))
  BY <1>5, <1>6, <1>7 DEF At
<1>9. \A u, v \in Thread : u = thief[i] => ~At(u, v)'
  <2> SUFFICES ASSUME NEW u \in Thread, NEW v \in Thread, u = thief[i]
               PROVE  ~Queued(u, v)' /\ ~Held(u, v)'
    BY DEF At
  <2>1. At(u, i) /\ Held(u, i)
    BY <1>3
  <2>2. At(u, v) => v = i
    BY <2>1 DEF OnceInv
  <2>3. ~Queued(u, v)
    BY <2>1, <2>2 DEF At, OnceInv
  <2>4. v # i => ~Held(u, v)
    BY <2>2 DEF At
  <2> QED BY <1>5, <1>6, <1>7, <2>3, <2>4
<1> QED BY <1>1, <1>2, <1>3, <1>4, <1>8, <1>9

\* Every step keeps the invariant of the requests.
LEMMA RequestStep ==
  ASSUME TypeOK, IInv, [Next]_vars PROVE RequestInv' /\ OnceInv'
<1> USE DEF IInv
<1>1. ASSUME NEW i \in Thread, Step(i) PROVE RequestInv' /\ OnceInv'
  <2>1. CASE Apart(i)
    <3>1. \A u, v \in Thread : At(u, v) => Waits(u)'
      BY <2>1, ApartEffect DEF RequestInv
    <3> QED BY <2>1, <3>1, ApartEffect, KeepRequests
  <2>2. CASE Cancel(i)
    <3>0. Head(requestQueue[i]) # i
      <4>1. requestQueue[i][1] = Head(requestQueue[i]) /\ 1 \in 1 .. Len(requestQueue[i])
        BY <2>2, EmptySeq DEF Cancel, TypeOK
      <4>2. Head(requestQueue[i]) \in Thread
        BY <2>2, HeadTailProperties DEF Cancel, TypeOK
      <4>3. At(Head(requestQueue[i]), i)
        BY <4>1 DEF At, Queued
      <4> QED BY <4>2, <4>3 DEF RequestInv
    <3>1. ~(Counting(i) \/ Waking(i)) /\ Counting(i)' /\ ~Waits(i)
      BY <2>2, <3>0 DEF Cancel, Goto, TypeOK, Counting, Waking, Waits
    <3>2. \A j \in Thread \ {i} : pc'[j] = pc[j]
      BY <2>2 DEF Cancel, Goto, TypeOK
    <3> QED BY <2>2, <3>1, <3>2, PullRequests DEF Cancel
  <2>3. CASE Answer(i)
    <3>1. ~(Counting(i) \/ Waking(i)) /\ Counting(i)' /\ ~Waits(i)
      BY <2>3 DEF Answer, Goto, TypeOK, Counting, Waking, Waits
    <3>2. \A j \in Thread \ {i} : pc'[j] = pc[j]
      BY <2>3 DEF Answer, Goto, TypeOK
    <3> QED BY <2>3, <3>1, <3>2, PullRequests DEF Answer
  <2>4. CASE push_request(i)
    BY <2>4, PushRequests
  <2>5. CASE CancelWake(i) \/ AnswerWake(i)
    <3>0. /\ \A u \in Thread \ {i, thief[i]} : pc'[u] = pc[u] /\ waiting'[u] = waiting[u]
          /\ allEnd' = allEnd
      BY <2>5, WakeEffect
    <3>1. \A u \in Thread \ {i, thief[i]} : Waits(u) => Waits(u)'
      BY <3>0 DEF Waits
    <3>2. \A u, v \in Thread : At(u, v) /\ At(u, v)' => Waits(u)'
      <4>1. \A u, v \in Thread : At(u, v)' => u # thief[i]
        BY <2>5, WakeEffect
      <4>2. \A u, v \in Thread : At(u, v) => u # i
        BY <2>5, WakeEffect DEF RequestInv
      <4> QED BY <3>1, <4>1, <4>2 DEF RequestInv
    <3>3. \A v \in Thread : Counting(v)' \/ Waking(v)' => Counting(v) \/ Waking(v)
      BY <2>5, WakeEffect DEF Counting, Waking
    <3> QED BY <2>5, <3>2, <3>3, WakeEffect, KeepRequests
  <2> QED BY <1>1, <2>1, <2>2, <2>3, <2>4, <2>5 DEF Step, Apart
<1>2. CASE Barrier
  <2>1. \A u \in Thread : Waits(u) => Waits(u)'
    BY <1>2 DEF Barrier, Waits, comm
  <2>2. requestQueue' = requestQueue /\ thief' = thief
    BY <1>2 DEF Barrier, comm
  <2>3. \A v \in Thread : Counting(v)' \/ Waking(v)' => Counting(v) \/ Waking(v)
    BY <1>2 DEF Barrier, Counting, Waking
  <2>4. \A u, v \in Thread : At(u, v) => Waits(u)'
    BY <2>1 DEF RequestInv
  <2> QED BY <2>2, <2>3, <2>4, KeepRequests
<1>3. CASE UNCHANGED vars
  <2>1. /\ requestQueue' = requestQueue /\ thief' = thief /\ pc' = pc
        /\ waiting' = waiting /\ allEnd' = allEnd
    BY <1>3 DEF vars, comm
  <2>2. \A v \in Thread : Counting(v)' \/ Waking(v)' => Counting(v) \/ Waking(v)
    BY <2>1 DEF Counting, Waking
  <2>3. \A u, v \in Thread : At(u, v) => Waits(u)'
    BY <2>1 DEF RequestInv, Waits
  <2> QED BY <2>1, <2>2, <2>3, KeepRequests
<1> QED BY <1>1, <1>2, <1>3 DEF Next, Stopped

-----------------------------------------------------------------------------
(* The counter *)

\* A step that lets nobody else count counts the same threads.
LEMMA SameCounted ==
  ASSUME TypeOK, TypeOK', requestQueue' = requestQueue, thief' = thief,
         \A j \in Thread : Counting(j)' <=> Counting(j),
         \A j \in Thread : pc'[j] \in Idle <=> pc[j] \in Idle
  PROVE  Counted' = Counted
<1>1. \A u, v \in Thread : Queued(u, v)' <=> Queued(u, v)
  BY DEF Queued
<1>2. \A u \in Thread : Asks(u)' <=> Asks(u)
  BY <1>1, AsksQueued, AsksQueuedNext DEF TypeOK
<1> QED BY <1>2 DEF Counted, Idle

\* A thread that pulls a request leaves it counted.
LEMMA PullCounted ==
  ASSUME TypeOK, TypeOK', NEW i \in Thread, requestQueue[i] # <<>>, pull_request(i),
         ~(Counting(i) \/ Waking(i)), Counting(i)',
         \A j \in Thread \ {i} : pc'[j] = pc[j], pc'[i] \in Idle <=> pc[i] \in Idle
  PROVE  Counted' = Counted
<1>1. \A u \in Thread, v \in Thread \ {i} :
        (Queued(u, v) \/ (Counting(v) /\ thief[v] = u)) <=>
        (Queued(u, v)' \/ (Counting(v)' /\ thief'[v] = u))
  BY PullAt, Pulled DEF Counting
<1>2. \A u \in Thread :
        (Queued(u, i) \/ (Counting(i) /\ thief[i] = u)) <=>
        (Queued(u, i)' \/ (Counting(i)' /\ thief'[i] = u))
  BY PullAt DEF At, Held
<1>3. \A u, v \in Thread :
        (Queued(u, v) \/ (Counting(v) /\ thief[v] = u)) <=>
        (Queued(u, v)' \/ (Counting(v)' /\ thief'[v] = u))
  BY <1>1, <1>2
<1>4. requestQueue \in [Thread -> Seq(Thread)] /\ requestQueue' \in [Thread -> Seq(Thread)]
  BY DEF TypeOK
<1>5. \A u \in Thread : Asks(u)' <=> Asks(u)
  BY <1>3, <1>4, AsksQueued, AsksQueuedNext
<1> QED BY <1>5 DEF Counted, Idle

\* A thread that asks remains counted: now by its request.
LEMMA PushCounted ==
  ASSUME TypeOK, TypeOK', NEW i \in Thread, push_request(i)
  PROVE  Counted' = Counted
<1>0. /\ thief' = thief /\ pc[i] = "Cancel" /\ \A j \in Thread \ {i} : pc'[j] = pc[j]
      /\ pc'[i] \in {"Alone", "SetWaiting"}
  BY DEF push_request, Goto, TypeOK
<1>1. \A v \in Thread : Counting(v)' <=> Counting(v)
  BY <1>0 DEF Counting
<1>2. CASE Goto(i, "Cancel", "Alone") /\ requestQueue' = requestQueue
  <2>1. \A j \in Thread : pc'[j] \in Idle <=> pc[j] \in Idle
    BY <1>0, <1>2 DEF Goto, Idle, TypeOK
  <2> QED BY <1>0, <1>1, <1>2, <2>1, SameCounted
<1>3. CASE ~(Goto(i, "Cancel", "Alone") /\ requestQueue' = requestQueue)
  <2>2. PICK w \in Thread \ {i} :
          /\ \A j \in Thread \ {w} : requestQueue'[j] = requestQueue[j]
          /\ Len(requestQueue'[w]) = Len(requestQueue[w]) + 1
          /\ requestQueue'[w][Len(requestQueue[w]) + 1] = i
          /\ \A k \in 1 .. Len(requestQueue[w]) :
               requestQueue'[w][k] = requestQueue[w][k]
    BY <1>3, Pushed
  <2>3. Len(requestQueue[w]) \in Nat
    BY DEF TypeOK
  <2>4. \A u \in Thread, v \in Thread \ {w} : Queued(u, v)' <=> Queued(u, v)
    BY <2>2 DEF Queued
  <2>5. \A u \in Thread : Queued(u, w)' <=> Queued(u, w) \/ u = i
    <3>1. \A k \in 1 .. Len(requestQueue'[w]) :
            \/ k \in 1 .. Len(requestQueue[w]) /\ requestQueue'[w][k] = requestQueue[w][k]
            \/ k = Len(requestQueue[w]) + 1 /\ requestQueue'[w][k] = i
      BY <2>2, <2>3
    <3>2. /\ Len(requestQueue[w]) + 1 \in 1 .. Len(requestQueue'[w])
          /\ \A k \in 1 .. Len(requestQueue[w]) : k \in 1 .. Len(requestQueue'[w])
      BY <2>2, <2>3
    <3> QED BY <2>2, <3>1, <3>2 DEF Queued
  <2>6. \A u \in Thread : u # i => (Asks(u)' <=> Asks(u))
    BY <1>0, <1>1, <2>4, <2>5, AsksQueued, AsksQueuedNext DEF TypeOK
  <2>7. Asks(i)'
    BY <2>5, AsksQueuedNext DEF TypeOK
  <2> QED BY <1>0, <2>6, <2>7 DEF Counted
<1> QED BY <1>2, <1>3

\* The thief is taken off, and nobody else.
LEMMA ThiefUncounted ==
  ASSUME TypeOK, TypeOK', IInv, NEW i \in Thread,
         \/ counter_decrement(i, "CancelCount", "CancelWake")
         \/ counter_decrement(i, "AnswerCount", "AnswerWake")
  PROVE  Counted' = Counted \ {thief[i]}
<1>1. /\ requestQueue' = requestQueue /\ thief' = thief
      /\ \A j \in Thread \ {i} : pc'[j] = pc[j]
      /\ pc[i] \in Idle <=> pc'[i] \in Idle
      /\ Counting(i) /\ ~Counting(i)'
  BY DEF counter_decrement, comm, Goto, TypeOK, Idle, Counting
<1>2. thief[i] \in Thread /\ thief[i] # i /\ Waits(thief[i]) /\ Held(thief[i], i)
  BY <1>1, HeldThief DEF IInv, Held
<1>3. \A u, v \in Thread : Queued(u, v)' <=> Queued(u, v)
  BY <1>1 DEF Queued
<1>4. \A v \in Thread \ {i} : Counting(v)' <=> Counting(v)
  BY <1>1 DEF Counting
<1>5. \A u \in Thread : u # thief[i] => (Asks(u)' <=> Asks(u))
  BY <1>1, <1>3, <1>4, AsksQueued, AsksQueuedNext DEF TypeOK
<1>6. \A u \in Thread : u = thief[i] => ~Asks(u)'
  <2> SUFFICES ASSUME NEW u \in Thread, u = thief[i], NEW v \in Thread,
                      Queued(u, v) \/ (Counting(v)' /\ thief[v] = u)
               PROVE  FALSE
    BY <1>1, <1>3, AsksQueuedNext DEF TypeOK
  <2>1. At(u, i) /\ Held(u, i)
    BY <1>2 DEF At
  <2>2. At(u, v)
    BY <1>1, <1>4 DEF At, Held
  <2>3. v = i
    BY <2>1, <2>2 DEF IInv, OnceInv
  <2> QED BY <1>1, <2>1, <2>3 DEF IInv, OnceInv
<1>7. pc'[thief[i]] \notin Idle
  BY <1>1, <1>2 DEF Waits, Idle
<1> QED BY <1>1, <1>2, <1>5, <1>6, <1>7 DEF Counted, Idle

\* The counter loses one when a thread that is counted is taken off.
LEMMA CountLess ==
  ASSUME TypeOK, CountInv, NEW t \in Counted, Counted' = Counted \ {t},
         end_counter' = end_counter - 1, allEnd' = allEnd
  PROVE  CountInv'
<1>1. IsFiniteSet(Counted) /\ Cardinality(Counted) \in Nat
  BY TeamFinite
<1>2. Cardinality(Counted') = Cardinality(Counted) - 1
  BY <1>1, FS_RemoveElement
<1> QED BY <1>1, <1>2 DEF CountInv, TypeOK

\* A step counts a thread or takes one off, and the counter with it.
LEMMA CountedChange ==
  ASSUME TypeOK, TypeOK', IInv, NEW i \in Thread, Step(i)
  PROVE  \/ Counted' = Counted /\ end_counter' = end_counter /\ allEnd' = allEnd
         \/ pc[i] = "Count" /\ deq' = deq /\ Counted' \subseteq Counted \cup {i} /\ CountInv'
         \/ \E t \in Counted : /\ Counted' = Counted \ {t}
                               /\ end_counter' = end_counter - 1 /\ allEnd' = allEnd
<1> USE DEF IInv
<1>1. CASE \/ Loop(i) \/ LoopTest(i) \/ next(i) \/ nextEmpty(i) \/ stop(i)
           \/ SetWaiting(i) \/ Wait(i) \/ NoRequest(i) \/ work_share(i)
  <2>1. requestQueue' = requestQueue /\ thief' = thief
    BY <1>1, ApartEffect DEF Apart
  <2>2. \A j \in Thread : Counting(j)' <=> Counting(j)
    BY <1>1 DEF Loop, LoopTest, next, nextEmpty, stop, SetWaiting, Wait, NoRequest,
       work_share, Goto, Counting, TypeOK
  <2>3. \A j \in Thread : pc'[j] \in Idle <=> pc[j] \in Idle
    BY <1>1 DEF Loop, LoopTest, next, nextEmpty, stop, SetWaiting, Wait, NoRequest,
       work_share, Goto, Idle, TypeOK
  <2>4. end_counter' = end_counter /\ allEnd' = allEnd
    BY <1>1 DEF Loop, LoopTest, next, nextEmpty, stop, SetWaiting, Wait, NoRequest,
       work_share, Goto, TypeOK, EndInv
  <2> QED BY <2>1, <2>2, <2>3, <2>4, SameCounted
<1>2. CASE CancelWake(i) \/ AnswerWake(i)
  <2>1. requestQueue' = requestQueue /\ thief' = thief /\ allEnd' = allEnd
    BY <1>2, WakeEffect
  <2>2. \A j \in Thread : Counting(j)' <=> Counting(j)
    BY <1>2 DEF CancelWake, AnswerWake, Goto, Counting, TypeOK
  <2>3. \A j \in Thread : pc'[j] \in Idle <=> pc[j] \in Idle
    BY <1>2 DEF CancelWake, AnswerWake, Goto, Idle, TypeOK
  <2>4. end_counter' = end_counter
    BY <1>2 DEF CancelWake, AnswerWake
  <2> QED BY <2>1, <2>2, <2>3, <2>4, SameCounted
<1>3. CASE Cancel(i) \/ Answer(i)
  <2>1. /\ requestQueue[i] # <<>> /\ pull_request(i)
        /\ end_counter' = end_counter /\ allEnd' = allEnd
    BY <1>3 DEF Cancel, Answer
  <2>2. ~(Counting(i) \/ Waking(i))
    BY <1>3 DEF Cancel, Answer, Goto, Counting, Waking
  <2>3. \A j \in Thread \ {i} : pc'[j] = pc[j]
    BY <1>3 DEF Cancel, Answer, Goto, TypeOK
  <2>4. Counting(i)' /\ (pc'[i] \in Idle <=> pc[i] \in Idle)
    <3>1. "Fatal" \notin Steps /\ pc'[i] \in Steps
      BY DEF TypeOK, Steps
    <3> QED BY <1>3, <3>1 DEF Cancel, Answer, Goto, Counting, Idle, TypeOK
  <2> QED BY <2>1, <2>2, <2>3, <2>4, PullCounted
<1>4. CASE push_request(i)
  BY <1>4, PushCounted DEF push_request
<1>5. CASE counter_increment(i)
  <2>1. /\ pc[i] = "Count" /\ requestQueue' = requestQueue /\ thief' = thief
        /\ \A j \in Thread \ {i} : pc'[j] = pc[j]
        /\ end_counter' = end_counter + 1
        /\ pc'[i] = IF end_counter' = M THEN "Test" ELSE "Cancel"
        /\ end_counter' = M => allEnd'
        /\ deq' = deq
    BY <1>5 DEF counter_increment, comm, ll, TypeOK
  <2>2. \A u, v \in Thread : Queued(u, v)' <=> Queued(u, v)
    BY <2>1 DEF Queued
  <2>3. \A v \in Thread : Counting(v)' <=> Counting(v)
    BY <2>1 DEF Counting
  <2>4. \A u \in Thread : Asks(u)' <=> Asks(u)
    BY <2>1, <2>2, <2>3, AsksQueued, AsksQueuedNext DEF TypeOK
  <2>5. CASE end_counter' = M
    <3>1. Counted' = Counted
      BY <2>1, <2>4, <2>5 DEF Counted
    <3> QED BY <2>1, <2>5, <3>1, TeamFinite DEF CountInv
  <2>6. CASE end_counter' # M
    <3>1. Counted' = Counted \cup {i}
      BY <2>1, <2>4, <2>6 DEF Counted
    <3>2. end_counter' = Cardinality(Counted')
      BY <2>1, <3>1, CountRoom
    <3> QED BY <2>1, <3>1, <3>2 DEF CountInv, TypeOK
  <2> QED BY <2>5, <2>6
<1>6. CASE counter_decrement(i, "Alone", "Test")
  <2>1. /\ pc[i] = "Alone" /\ requestQueue' = requestQueue /\ thief' = thief
        /\ \A j \in Thread \ {i} : pc'[j] = pc[j]
        /\ end_counter' = end_counter - 1 /\ allEnd' = allEnd /\ pc'[i] = "Test"
    BY <1>6 DEF counter_decrement, Goto, comm, TypeOK
  <2>2. \A u, v \in Thread : Queued(u, v)' <=> Queued(u, v)
    BY <2>1 DEF Queued
  <2>3. \A v \in Thread : Counting(v)' <=> Counting(v)
    BY <2>1 DEF Counting
  <2>4. \A u \in Thread : Asks(u)' <=> Asks(u)
    BY <2>1, <2>2, <2>3, AsksQueued, AsksQueuedNext DEF TypeOK
  <2>5. ~Asks(i)
    BY <2>1, AskersWait DEF Waits
  <2>6. i \in Counted /\ Counted' = Counted \ {i}
    BY <2>1, <2>4, <2>5 DEF Counted
  <2> QED BY <2>1, <2>6
<1>7. CASE \/ counter_decrement(i, "CancelCount", "CancelWake")
           \/ counter_decrement(i, "AnswerCount", "AnswerWake")
  <2>1. pc[i] \in {"CancelCount", "AnswerCount"}
    BY <1>7 DEF counter_decrement, Goto
  <2>2. end_counter' = end_counter - 1 /\ allEnd' = allEnd
    BY <1>7 DEF counter_decrement
  <2>3. thief[i] \in Counted
    BY <2>1, CountPositive
  <2>4. Counted' = Counted \ {thief[i]}
    BY <1>7, ThiefUncounted
  <2> QED BY <2>2, <2>3, <2>4
<1> QED BY <1>1, <1>2, <1>3, <1>4, <1>5, <1>6, <1>7 DEF Step

\* Every step keeps the counter exact.
LEMMA CountStep ==
  ASSUME TypeOK, TypeOK', IInv, [Next]_vars PROVE CountInv'
<1>0. ASSUME Counted' = Counted, end_counter' = end_counter, allEnd' = allEnd
      PROVE  CountInv'
  BY <1>0 DEF CountInv, IInv
<1>1. ASSUME NEW i \in Thread, Step(i) PROVE CountInv'
  BY <1>0, <1>1, CountedChange, CountLess DEF IInv
<1>2. CASE Barrier
  <2>1. /\ requestQueue' = requestQueue /\ thief' = thief
        /\ end_counter' = end_counter /\ allEnd' = allEnd
    BY <1>2 DEF Barrier, comm
  <2>2. \A j \in Thread : Counting(j)' <=> Counting(j)
    BY <1>2 DEF Barrier, Counting
  <2>3. \A j \in Thread : pc'[j] \in Idle <=> pc[j] \in Idle
    BY <1>2 DEF Barrier, Idle
  <2> QED BY <1>0, <2>1, <2>2, <2>3, SameCounted
<1>3. CASE UNCHANGED vars
  <2>1. /\ requestQueue' = requestQueue /\ thief' = thief /\ pc' = pc
        /\ end_counter' = end_counter /\ allEnd' = allEnd
    BY <1>3 DEF vars, comm
  <2>2. Counted' = Counted
    BY <2>1, SameCounted DEF Counting
  <2> QED BY <1>0, <2>1, <2>2
<1> QED BY <1>1, <1>2, <1>3 DEF Next, Stopped

-----------------------------------------------------------------------------
(* The end, the idle threads and their nodes *)

\* A step moves one thread; only two kinds of steps end the search, and only who
\* sees that it is over leaves the loop.
LEMMA StepEffect ==
  ASSUME TypeOK, NEW i \in Thread, Step(i)
  PROVE  /\ \A j \in Thread \ {i} : pc'[j] = pc[j] /\ continuer'[j] = continuer[j]
         /\ allEnd' = allEnd \/ counter_increment(i) \/ stop(i)
         /\ stop(i) => pc[i] = "Stop" /\ allEnd'
         /\ pc'[i] \in {"Stop", "Barrier", "Done"} => pc[i] = "Stop" \/ allEnd
<1>1. CASE Loop(i) \/ LoopTest(i)
  BY <1>1 DEF Loop, LoopTest, stop, Goto, TypeOK, ll
<1>2. CASE stop(i)
  BY <1>2 DEF stop, Goto, TypeOK, ll
<1>3. CASE next(i)
  <2>1. /\ pc' = [pc EXCEPT ![i] = "Loop"] /\ continuer' = [continuer EXCEPT ![i] = TRUE]
        /\ allEnd' = allEnd /\ pc[i] = "Next"
    BY <1>3 DEF next, Goto
  <2> QED BY <2>1 DEF TypeOK, stop, Goto
<1>4. CASE nextEmpty(i)
  BY <1>4 DEF nextEmpty, stop, Goto, TypeOK
<1>5. CASE counter_increment(i)
  BY <1>5 DEF counter_increment, stop, Goto, TypeOK, ll
<1>6. CASE \/ counter_decrement(i, "Alone", "Test")
           \/ counter_decrement(i, "CancelCount", "CancelWake")
           \/ counter_decrement(i, "AnswerCount", "AnswerWake")
  BY <1>6 DEF counter_decrement, stop, Goto, TypeOK, ll
<1>7. CASE Cancel(i) \/ Answer(i) \/ CancelWake(i) \/ AnswerWake(i)
  BY <1>7 DEF Cancel, Answer, CancelWake, AnswerWake, stop, Goto, TypeOK, ll
<1>8. CASE push_request(i)
  BY <1>8 DEF push_request, stop, Goto, TypeOK, ll
<1>9. CASE SetWaiting(i) \/ Wait(i) \/ NoRequest(i)
  BY <1>9 DEF SetWaiting, Wait, NoRequest, stop, Goto, TypeOK, ll
<1>10. CASE work_share(i)
  BY <1>10 DEF work_share, stop, Goto, TypeOK
<1> QED BY <1>1, <1>2, <1>3, <1>4, <1>5, <1>6, <1>7, <1>8, <1>9, <1>10 DEF Step

\* A thread changes its own nodes only, and those of its thief when it shares.
LEMMA DequesKept ==
  ASSUME TypeOK, IInv, NEW i \in Thread, Step(i)
  PROVE  /\ ~next(i) /\ ~work_share(i) => deq' = deq
         /\ next(i) => /\ pc[i] = "Next" /\ pc'[i] = "Loop" /\ continuer'[i]
                       /\ \A j \in Thread \ {i} : deq'[j] = deq[j]
         /\ work_share(i) =>
              /\ pc[i] = "Share" /\ pc'[i] = "AnswerCount"
              /\ \A j \in Thread \ {i, thief[i]} : deq'[j] = deq[j]
<1>1. CASE next(i)
  <2>1. \A j \in Thread \ {i} : deq'[j] = deq[j]
    BY <1>1, NextNodes DEF IInv, NodeInv
  <2>2. pc[i] = "Next" /\ pc'[i] = "Loop" /\ continuer'[i] /\ ~work_share(i)
    BY <1>1 DEF next, work_share, Goto, TypeOK
  <2> QED BY <1>1, <2>1, <2>2
<1>2. CASE work_share(i)
  <2>1. pc[i] = "Share" /\ pc'[i] = "AnswerCount" /\ ~next(i)
    BY <1>2 DEF next, work_share, Goto, TypeOK
  <2>2. \A j \in Thread \ {i, thief[i]} : deq'[j] = deq[j]
    BY <1>2, <2>1, ThiefEmpty, SharedHalves
  <2> QED BY <1>2, <2>1, <2>2
<1>3. CASE ~next(i) /\ ~work_share(i)
  BY <1>3 DEF Step, Loop, LoopTest, nextEmpty, stop, counter_increment, Cancel, CancelWake,
     counter_decrement, push_request, SetWaiting, Wait, NoRequest, Answer, AnswerWake, ll
<1> QED BY <1>1, <1>2, <1>3

\* The last thread counts itself when nobody has nodes and all others are idle.
LEMMA LastCounts ==
  ASSUME TypeOK, IInv, NEW i \in Thread, pc[i] = "Count", end_counter + 1 = M
  PROVE  \A j \in Thread : /\ deq[j] = <<>>
                           /\ j # i => pc[j] \in {"SetWaiting", "Wait"} \cup Idle
<1> USE DEF IInv
<1>1. ~allEnd /\ Counted \cup {i} = Thread
  BY CountRoom
<1>2. deq[i] = <<>>
  BY DEF IdleInv
<1>3. ASSUME NEW j \in Thread, j # i
      PROVE  deq[j] = <<>> /\ pc[j] \in {"SetWaiting", "Wait"} \cup Idle
  <2>1. j \in Counted
    BY <1>1, <1>3
  <2>2. CASE pc[j] \in Idle
    BY <2>2 DEF IdleInv
  <2>3. CASE pc[j] \notin Idle
    <3>1. Asks(j)
      BY <2>1, <2>3 DEF Counted, Idle
    <3>2. pc[j] \in {"SetWaiting", "Wait"}
      BY <1>1, <3>1, AskersWait DEF Waits
    <3>3. ~ \E k \in Thread : pc[k] = "AnswerCount"
      <4> SUFFICES ASSUME NEW k \in Thread, pc[k] = "AnswerCount" PROVE FALSE
        OBVIOUS
      <4>1. k \in Counted
        BY <1>1
      <4>2. Waits(k)
        BY <4>1, AskersWait DEF Counted
      <4> QED BY <4>2 DEF Waits
    <3> QED BY <3>1, <3>2, <3>3 DEF IdleInv
  <2> QED BY <2>2, <2>3
<1> QED BY <1>2, <1>3

\* Every step keeps what is known of the end.
LEMMA EndStep ==
  ASSUME TypeOK, TypeOK', IInv, [Next]_vars PROVE EndInv'
<1> USE DEF IInv
<1> DEFINE Ended == {"SetWaiting", "Wait", "Test", "Stop", "Barrier", "Done"} \cup Idle
<1>1. ASSUME NEW i \in Thread, Step(i) PROVE EndInv'
  <2>0. \A j \in Thread \ {i} : pc'[j] = pc[j]
    BY <1>1, StepEffect
  <2>1. CASE counter_increment(i)
    <3>1. /\ pc[i] = "Count" /\ deq' = deq /\ end_counter' = end_counter + 1
          /\ pc'[i] \in {"Test", "Cancel"}
      BY <2>1 DEF counter_increment, ll, TypeOK
    <3>2. allEnd' <=> end_counter + 1 = M
      BY <2>1, <3>1, CountRoom DEF counter_increment
    <3>3. \A j \in Thread : pc'[j] \in {"Stop", "Barrier", "Done"} => allEnd'
      BY <2>0, <3>1, CountRoom DEF EndInv
    <3>4. allEnd' => \A j \in Thread : deq'[j] = <<>> /\ pc'[j] \in Ended
      BY <2>0, <3>1, <3>2, LastCounts DEF Idle
    <3> QED BY <3>3, <3>4 DEF EndInv
  <2>2. CASE ~counter_increment(i)
    <3>1. allEnd' = allEnd
      BY <1>1, <2>2, StepEffect DEF EndInv, TypeOK
    <3>2. allEnd => pc[i] \in Ended
      BY DEF EndInv
    <3>3. pc'[i] \in {"Stop", "Barrier", "Done"} => allEnd
      BY <1>1, StepEffect DEF EndInv
    <3>4. allEnd => deq' = deq
      BY <1>1, <3>2, DequesKept DEF Idle
    <3>5. allEnd => pc'[i] \in Ended
      <4>1. "Fatal" \notin Steps /\ pc'[i] \in Steps
        BY DEF TypeOK, Steps
      <4> QED BY <1>1, <2>2, <3>2, <4>1 DEF Step, Loop, LoopTest, next, nextEmpty, stop,
         Cancel, CancelWake, counter_decrement, push_request, SetWaiting, Wait, NoRequest,
         Answer, work_share, AnswerWake, Goto, Idle, TypeOK
    <3> QED BY <2>0, <3>1, <3>3, <3>4, <3>5 DEF EndInv
  <2> QED BY <2>1, <2>2
<1>2. CASE Barrier
  <2>1. /\ \A j \in Thread : pc[j] = "Barrier" /\ pc'[j] = "Done"
        /\ deq' = deq /\ allEnd' = allEnd
    BY <1>2 DEF Barrier, ll
  <2> QED BY <2>1 DEF EndInv
<1>3. CASE UNCHANGED vars
  BY <1>3 DEF vars, ll, EndInv
<1> QED BY <1>1, <1>2, <1>3 DEF Next, Stopped

\* Every step keeps the idle threads without nodes.
LEMMA IdleStep ==
  ASSUME TypeOK, TypeOK', IInv, [Next]_vars PROVE IdleInv'
<1> USE DEF IInv
<1>1. ASSUME NEW i \in Thread, Step(i) PROVE IdleInv'
  <2>1. \A j \in Thread \ {i} : pc'[j] = pc[j] /\ continuer'[j] = continuer[j]
    BY <1>1, StepEffect
  <2>2. \A j \in Thread \ {i} : \/ deq'[j] = deq[j]
                                \/ work_share(i) /\ j = thief[i]
    BY <1>1, DequesKept
  <2>3. work_share(i) => /\ thief[i] \in Thread /\ thief[i] # i /\ Waits(thief[i])
                         /\ thief' = thief /\ pc'[i] = "AnswerCount"
    <3>1. work_share(i) => Counting(i) /\ thief' = thief /\ pc'[i] = "AnswerCount"
      BY DEF work_share, Goto, Counting, comm, TypeOK
    <3> QED BY <3>1, HeldThief
  <2>4. \A j \in Thread : deq[j] = <<>> =>
          deq'[j] = <<>> \/ (work_share(i) /\ (j = i \/ j = thief[i]))
    <3>1. next(i) => deq[i] # <<>>
      BY DEF next
    <3> QED BY <1>1, <2>2, <3>1, DequesKept
  <2>5. ASSUME NEW j \in Thread PROVE pc'[j] = "Loop" /\ ~continuer'[j] => deq'[j] = <<>>
    <3>1. CASE j # i
      BY <2>1, <2>2, <2>3, <3>1 DEF IdleInv, Waits
    <3>2. CASE j = i /\ nextEmpty(i)
      BY <3>2 DEF nextEmpty
    <3>3. CASE j = i /\ ~nextEmpty(i)
      BY <1>1, <3>3 DEF Step, Loop, LoopTest, next, stop, counter_increment, Cancel,
         CancelWake, counter_decrement, push_request, SetWaiting, Wait, NoRequest, Answer,
         work_share, AnswerWake, Goto, TypeOK
    <3> QED BY <3>1, <3>2, <3>3
  <2>6. ASSUME NEW j \in Thread PROVE pc'[j] \in {"Count"} \cup Idle => deq'[j] = <<>>
    <3>1. CASE j # i
      BY <2>1, <2>2, <2>3, <3>1 DEF IdleInv, Waits, Idle
    <3>2. CASE j = i
      <4>1. pc'[i] \in {"Count"} \cup Idle =>
              \/ pc[i] = "Loop" /\ ~continuer[i]
              \/ pc[i] \in {"Count"} \cup Idle
        <5>1. CASE Loop(i) \/ counter_increment(i)
          BY <5>1 DEF Loop, counter_increment, Goto, TypeOK, Idle
        <5>2. CASE \/ Cancel(i) \/ CancelWake(i) \/ push_request(i)
                   \/ counter_decrement(i, "CancelCount", "CancelWake")
          BY <5>2 DEF Cancel, CancelWake, push_request, counter_decrement, Goto, Idle
        <5>3. CASE LoopTest(i) \/ stop(i) \/ SetWaiting(i)
          <6>1. pc'[i] \in {"Stop", "Next", "Barrier", "Wait"}
            BY <5>3 DEF LoopTest, stop, SetWaiting, Goto, TypeOK
          <6> QED BY <6>1 DEF Idle
        <5>4. CASE Wait(i) \/ NoRequest(i) \/ Answer(i) \/ work_share(i) \/ AnswerWake(i)
          BY <5>4 DEF Wait, NoRequest, Answer, work_share, AnswerWake, Goto, TypeOK, Idle
        <5>5. CASE \/ counter_decrement(i, "Alone", "Test")
                   \/ counter_decrement(i, "AnswerCount", "AnswerWake")
          BY <5>5 DEF counter_decrement, Goto, TypeOK, Idle
        <5>6. CASE next(i) \/ nextEmpty(i)
          <6>1. pc'[i] = "Loop"
            BY <5>6 DEF next, nextEmpty, Goto, TypeOK
          <6> QED BY <6>1 DEF Idle
        <5> QED BY <1>1, <5>1, <5>2, <5>3, <5>4, <5>5, <5>6 DEF Step
      <4>2. ~(work_share(i) /\ pc'[i] \in {"Count"} \cup Idle)
        BY <2>3 DEF Idle
      <4>3. pc'[i] \in {"Count"} \cup Idle => deq[i] = <<>>
        BY <4>1 DEF IdleInv
      <4> QED BY <2>4, <3>2, <4>2, <4>3
    <3> QED BY <3>1, <3>2
  <2>7. ASSUME NEW j \in Thread, Asks(j)'
        PROVE  \/ deq'[j] = <<>>
               \/ \E k \in Thread : pc'[k] = "AnswerCount" /\ thief'[k] = j
    <3>0. j \in Counted'
      BY <2>7 DEF Counted
    <3>1. CASE j \notin Counted
      BY <1>1, <3>0, <3>1, CountedChange DEF IdleInv
    <3>2. CASE j \in Counted /\ deq[j] = <<>>
      <4>1. j = i => ~work_share(i)
        BY <3>2, AskersWait DEF Counted, Waits, work_share, Goto
      <4> QED BY <2>3, <2>4, <3>2, <4>1
    <3>3. CASE j \in Counted /\ deq[j] # <<>>
      <4>1. PICK k \in Thread : pc[k] = "AnswerCount" /\ thief[k] = j
        BY <3>3 DEF Counted, IdleInv, Idle
      <4>2. CASE k # i
        <5>1. thief'[k] = thief[k]
          BY <1>1, <4>2, ApartEffect, WakeEffect, Pulled DEF Step, Apart, Cancel, Answer,
             push_request
        <5> QED BY <2>1, <4>1, <4>2, <5>1
      <4>3. CASE k = i
        <5>1. counter_decrement(i, "AnswerCount", "AnswerWake")
          BY <1>1, <4>1, <4>3 DEF Step, Loop, LoopTest, next, nextEmpty, stop,
             counter_increment, Cancel, CancelWake, counter_decrement, push_request,
             SetWaiting, Wait, NoRequest, Answer, work_share, AnswerWake, Goto
        <5> QED BY <3>0, <4>1, <4>3, <5>1, ThiefUncounted
      <4> QED BY <4>2, <4>3
    <3> QED BY <3>1, <3>2, <3>3
  <2> QED BY <2>5, <2>6, <2>7 DEF IdleInv
<1>2. CASE Barrier
  <2>1. /\ \A j \in Thread : pc[j] = "Barrier" /\ pc'[j] = "Done"
        /\ requestQueue' = requestQueue /\ thief' = thief
    BY <1>2 DEF Barrier, comm
  <2>2. \A j \in Thread : Asks(j)' => Asks(j)
    <3>1. \A j, k \in Thread : Queued(j, k)' <=> Queued(j, k)
      BY <2>1 DEF Queued
    <3>2. \A k \in Thread : Counting(k)' => Counting(k)
      BY <2>1 DEF Counting
    <3> QED BY <2>1, <3>1, <3>2, AsksQueued, AsksQueuedNext DEF TypeOK
  <2>3. deq' = deq
    BY <1>2 DEF Barrier, ll
  <2> QED BY <2>1, <2>2, <2>3 DEF IdleInv, Idle
<1>3. CASE UNCHANGED vars
  BY <1>3 DEF vars, ll, comm, IdleInv, Asks
<1> QED BY <1>1, <1>2, <1>3 DEF Next, Stopped

\* A request that is pushed is at the victim, and the others stay where they are.
LEMMA PushAt ==
  ASSUME TypeOK, NEW i \in Thread, push_request(i)
  PROVE  /\ \A u, v \in Thread : At(u, v) => At(u, v)'
         /\ pc'[i] = "SetWaiting" => \E v \in Thread : At(i, v)'
<1>0. /\ thief' = thief /\ pc[i] = "Cancel" /\ \A j \in Thread \ {i} : pc'[j] = pc[j]
  BY DEF push_request, Goto, TypeOK
<1>1. \A u, v \in Thread : Held(u, v) => Held(u, v)'
  BY <1>0 DEF Held, Counting, Waking
<1>2. CASE requestQueue' = requestQueue /\ Goto(i, "Cancel", "Alone")
  BY <1>1, <1>2 DEF At, Queued, Goto, TypeOK
<1>3. CASE ~(requestQueue' = requestQueue /\ Goto(i, "Cancel", "Alone"))
  <2>1. PICK w \in Thread \ {i} :
          /\ \A j \in Thread \ {w} : requestQueue'[j] = requestQueue[j]
          /\ Len(requestQueue'[w]) = Len(requestQueue[w]) + 1
          /\ requestQueue'[w][Len(requestQueue[w]) + 1] = i
          /\ \A k \in 1 .. Len(requestQueue[w]) :
               requestQueue'[w][k] = requestQueue[w][k]
    BY <1>3, Pushed
  <2>2. /\ Len(requestQueue[w]) + 1 \in 1 .. Len(requestQueue'[w])
        /\ \A k \in 1 .. Len(requestQueue[w]) : k \in 1 .. Len(requestQueue'[w])
    BY <2>1 DEF TypeOK
  <2>3. \A u, v \in Thread : Queued(u, v) => Queued(u, v)'
    BY <2>1, <2>2 DEF Queued
  <2>4. Queued(i, w)'
    BY <2>1, <2>2 DEF Queued
  <2> QED BY <1>1, <2>3, <2>4 DEF At
<1> QED BY <1>2, <1>3

\* Every step keeps the sleepers known.
LEMMA SleepStep ==
  ASSUME TypeOK, TypeOK', IInv, [Next]_vars PROVE SleepInv'
<1> USE DEF IInv
<1> DEFINE Sleeps(j) == pc[j] = "SetWaiting" \/ (pc[j] = "Wait" /\ waiting[j])
           Known(j) == allEnd \/ j \in overtaken \/ \E v \in Thread : At(j, v)
<1>1. ASSUME NEW i \in Thread, Step(i) PROVE SleepInv'
  <2>1. CASE Apart(i)
    <3>1. \A u, v \in Thread : At(u, v) => At(u, v)'
      BY <2>1, ApartEffect DEF At, Queued, Held
    <3>2. overtaken' = overtaken /\ (allEnd => allEnd')
      BY <2>1, ApartEffect
    <3>3. \A j \in Thread : Sleeps(j)' => Sleeps(j)
      BY <2>1 DEF Apart, Loop, LoopTest, next, nextEmpty, stop, counter_increment,
         counter_decrement, SetWaiting, Wait, NoRequest, work_share, comm, Goto, TypeOK
    <3> QED BY <3>1, <3>2, <3>3 DEF SleepInv
  <2>2. CASE Cancel(i) \/ Answer(i)
    <3>1. /\ requestQueue[i] # <<>> /\ pull_request(i)
          /\ waiting' = waiting /\ allEnd' = allEnd /\ overtaken' = overtaken
      BY <2>2 DEF Cancel, Answer
    <3>2. ~(Counting(i) \/ Waking(i))
      BY <2>2 DEF Cancel, Answer, Goto, Counting, Waking
    <3>3. \A j \in Thread \ {i} : pc'[j] = pc[j]
      BY <2>2 DEF Cancel, Answer, Goto, TypeOK
    <3>4. Counting(i)'
      <4>1. "Fatal" \notin Steps /\ pc'[i] \in Steps
        BY DEF TypeOK, Steps
      <4> QED BY <2>2, <4>1 DEF Cancel, Answer, Goto, Counting, TypeOK
    <3>5. \A u, v \in Thread : At(u, v) => At(u, v)'
      BY <3>1, <3>2, <3>3, <3>4, PullAt
    <3>6. \A j \in Thread : Sleeps(j)' => Sleeps(j)
      BY <3>1, <3>3, <3>4 DEF Counting
    <3> QED BY <3>1, <3>5, <3>6 DEF SleepInv
  <2>3. CASE push_request(i)
    <3>1. /\ waiting' = waiting /\ allEnd' = allEnd /\ overtaken' = overtaken
          /\ \A j \in Thread \ {i} : pc'[j] = pc[j]
          /\ pc'[i] \in {"Alone", "SetWaiting"}
      BY <2>3 DEF push_request, Goto, TypeOK
    <3>2. \A j \in Thread \ {i} : Sleeps(j)' => Sleeps(j)
      BY <3>1
    <3> QED BY <2>3, <3>1, <3>2, PushAt DEF SleepInv
  <2>4. CASE CancelWake(i) \/ AnswerWake(i)
    <3>1. pc'[i] \in {"Cancel", "Test"}
      BY <2>4 DEF CancelWake, AnswerWake, Goto, TypeOK
    <3>2. \A j \in Thread : j # i /\ j # thief[i] /\ Sleeps(j)' => Sleeps(j) /\ Known(j)'
      <4>1. \A j \in Thread : j # i /\ j # thief[i] /\ Sleeps(j)' => Sleeps(j)
        BY <2>4, WakeEffect
      <4>2. \A j \in Thread : j # thief[i] /\ Known(j) => Known(j)'
        BY <2>4, WakeEffect
      <4> QED BY <4>1, <4>2 DEF SleepInv
    <3>3. \A j \in Thread : j = thief[i] /\ Sleeps(j)' => Known(j)'
      BY <2>4, WakeEffect
    <3> QED BY <3>1, <3>2, <3>3 DEF SleepInv
  <2> QED BY <1>1, <2>1, <2>2, <2>3, <2>4 DEF Step, Apart
<1>2. CASE Barrier
  BY <1>2 DEF Barrier, SleepInv
<1>3. CASE UNCHANGED vars
  BY <1>3 DEF vars, comm, SleepInv, At, Queued, Held, Counting, Waking
<1> QED BY <1>1, <1>2, <1>3 DEF Next, Stopped

\* Every step keeps the nodes of a thread apart.
LEMMA NodeStep ==
  ASSUME TypeOK, TypeOK', IInv, [Next]_vars PROVE NodeInv'
<1>1. ASSUME NEW i \in Thread, Step(i) PROVE NodeInv'
  <2>1. CASE next(i)
    BY <2>1, NextNodes DEF IInv, NodeInv
  <2>2. CASE work_share(i)
    <3> DEFINE n == Len(deq[i])
               h == Len(deq[i]) \div 2
    <3>0. thief[i] # i /\ deq[thief[i]] = <<>>
      BY <1>1, <2>2, ThiefEmpty, DequesKept
    <3>1. /\ n \in Nat /\ h \in Nat /\ h <= n
          /\ Len(deq'[i]) = n - h /\ Len(deq'[thief[i]]) = h
          /\ \A k \in 1 .. n - h : deq'[i][k] = deq[i][k]
          /\ \A k \in 1 .. h : deq'[thief[i]][k] = deq[i][n - h + k]
          /\ \A j \in Thread \ {i, thief[i]} : deq'[j] = deq[j]
      BY <2>2, <3>0, SharedHalves
    <3>2. \A k, l \in 1 .. n : k # l => deq[i][k] \cap deq[i][l] = {}
      BY DEF IInv, NodeInv
    <3> HIDE DEF n, h
    <3>3. \A k, l \in 1 .. n - h : k # l => deq'[i][k] \cap deq'[i][l] = {}
      <4>1. \A k \in 1 .. n - h : k \in 1 .. n
        BY <3>1
      <4> QED BY <3>1, <3>2, <4>1
    <3>4. \A k, l \in 1 .. h : k # l => deq'[thief[i]][k] \cap deq'[thief[i]][l] = {}
      <4>1. \A k \in 1 .. h : n - h + k \in 1 .. n
        BY <3>1
      <4>2. \A k, l \in 1 .. h : k # l => n - h + k # n - h + l
        BY <3>1
      <4> SUFFICES ASSUME NEW k \in 1 .. h, NEW l \in 1 .. h, k # l
                   PROVE  deq'[thief[i]][k] \cap deq'[thief[i]][l] = {}
        OBVIOUS
      <4>3. deq[i][n - h + k] \cap deq[i][n - h + l] = {}
        BY <3>2, <4>1, <4>2
      <4> QED BY <3>1, <4>3
    <3> QED BY <3>1, <3>3, <3>4 DEF IInv, NodeInv
  <2>3. CASE ~next(i) /\ ~work_share(i)
    BY <1>1, <2>3, DequesKept DEF IInv, NodeInv
  <2> QED BY <2>1, <2>2, <2>3
<1>2. CASE Barrier \/ UNCHANGED vars
  BY <1>2 DEF Barrier, vars, ll, IInv, NodeInv
<1> QED BY <1>1, <1>2 DEF Next, Stopped

-----------------------------------------------------------------------------
(* The theorems *)

\* The team starts with one node and no requests.
LEMMA InvInit ==
  ASSUME Init PROVE IInv
<1>0. TypeOK
  BY TypeInit
<1>1. \A i, j \in Thread : ~At(i, j)
  BY DEF Init, At, Queued, Held, Counting, Waking
<1>2. RequestInv /\ OnceInv
  <2>1. \A j \in Thread : requestQueue[j] = <<>>
    BY DEF Init
  <2>2. \A j \in Thread : \A k \in 1 .. Len(requestQueue[j]) : FALSE
    BY <2>1
  <2> QED BY <1>1, <2>2 DEF RequestInv, OnceInv, At
<1>3. \A i \in Thread : ~Asks(i)
  BY <1>0, <1>1, AsksQueued DEF TypeOK, At, Held
<1>4. CountInv
  <2>1. Counted = {}
    BY <1>3 DEF Counted, Init
  <2> QED BY <2>1, FS_EmptySet DEF CountInv, Init
<1>5. IdleInv /\ SleepInv /\ EndInv
  BY <1>3 DEF IdleInv, SleepInv, EndInv, Init, Idle
<1>6. NodeInv
  <2>1. \A i \in Thread : Len(deq[i]) \in {0, 1}
    BY DEF Init
  <2> QED BY <2>1 DEF NodeInv
<1> QED BY <1>2, <1>4, <1>5, <1>6 DEF IInv

\* Every step keeps the types and the invariant.
LEMMA InvStep ==
  ASSUME TypeOK, IInv, [Next]_vars PROVE TypeOK' /\ IInv'
<1>1. TypeOK'
  BY TypeStep
<1>2. IInv'
  BY <1>1, RequestStep, CountStep, IdleStep, SleepStep, EndStep, NodeStep DEF IInv
<1> QED BY <1>1, <1>2

\* The types and the inductive invariant hold always.
THEOREM Invariant == Spec => [](TypeOK /\ IInv)
<1>1. Init => TypeOK /\ IInv
  BY TypeInit, InvInit
<1>2. TypeOK /\ IInv /\ [Next]_vars => TypeOK' /\ IInv'
  BY InvStep
<1> QED BY <1>1, <1>2, PTL DEF Spec

\* No thread ever pulls its own request, which ends the program, and the counter
\* of tree_controller stays between 0 and the number of threads.
THEOREM TypeCorrect == Spec => []TypeOK
BY Invariant, PTL

\* Until the end, the counter is the number of threads that ask or are about to:
\* whoever answers or cancels takes exactly one off.
THEOREM CounterIsExact == Spec => []CounterExact
<1>1. TypeOK /\ IInv => CounterExact
  BY DEF IInv, CountInv, CounterExact
<1> QED BY <1>1, Invariant, PTL

\* A thread that sleeps has its request with somebody, or it was overtaken: no
\* other order of steps loses a wake-up.
THEOREM SleepersAreKnown == Spec => []SleeperKnown
<1>1. ASSUME TypeOK, IInv PROVE SleeperKnown
  <2> SUFFICES ASSUME NEW i \in Thread, pc[i] = "Wait", waiting[i], ~allEnd,
                      i \notin overtaken
               PROVE  \/ Asks(i)
                      \/ \E j \in Thread : pc[j] \in {"CancelWake", "AnswerWake"} /\ thief[j] = i
    BY DEF SleeperKnown
  <2>1. PICK j \in Thread : At(i, j)
    BY <1>1 DEF IInv, SleepInv
  <2>2. CASE Queued(i, j) \/ Counting(j)
    BY <1>1, <2>1, <2>2, AsksQueued DEF At, Held, TypeOK
  <2>3. CASE ~Queued(i, j) /\ Waking(j)
    BY <2>1, <2>3 DEF At, Held, Waking
  <2> QED BY <2>1, <2>2, <2>3 DEF At, Held
<1> QED BY <1>1, Invariant, PTL

-----------------------------------------------------------------------------
(* The team implements the pool of work. *)

\* The leaves of a thread are those of its nodes.
LEMMA LeavesOf ==
  ASSUME NEW s \in Seq(Nodes)
  PROVE  UNION ToSet(s) = UNION {s[k] : k \in 1 .. Len(s)}
BY LenProperties DEF ToSet

\* The team starts with all leaves at the first thread.
LEMMA PoolInit ==
  ASSUME Init PROVE Pool!Init
<1>1. \A i \in Thread : NodesOf(i) \subseteq Leaf
  <2> SUFFICES ASSUME NEW i \in Thread PROVE NodesOf(i) \subseteq Leaf
    OBVIOUS
  <2>1. CASE i = 0
    <3>1. deq[i] = <<Leaf>>
      BY <2>1 DEF Init
    <3> QED BY <3>1 DEF NodesOf, ToSet
  <2>2. CASE i # 0
    <3>1. deq[i] = <<>>
      BY <2>2 DEF Init
    <3> QED BY <3>1 DEF NodesOf, ToSet
  <2> QED BY <2>1, <2>2
<1>2. \A i \in Thread \ {0} : NodesOf(i) = {}
  <2>1. \A i \in Thread \ {0} : deq[i] = <<>>
    BY DEF Init
  <2> QED BY <2>1 DEF NodesOf, ToSet
<1>3. [i \in Thread |-> NodesOf(i)] \in [Thread -> SUBSET Leaf]
  BY <1>1
<1>4. Pool!Disjoint([i \in Thread |-> NodesOf(i)])
  BY <1>2 DEF Pool!Disjoint
<1> QED BY <1>3, <1>4 DEF Init, Pool!Init

\* Every step explores, hands over, stops, or does not matter to the pool.
LEMMA PoolStep ==
  ASSUME TypeOK, TypeOK', IInv, IInv', [Next]_vars
  PROVE  [Pool!Next]_<<[i \in Thread |-> NodesOf(i)], allEnd>>
<1> DEFINE pool == [i \in Thread |-> NodesOf(i)]
<1>0. \A i \in Thread :
        /\ NodesOf(i) = UNION {deq[i][k] : k \in 1 .. Len(deq[i])}
        /\ NodesOf(i)' = UNION {deq'[i][k] : k \in 1 .. Len(deq'[i])}
  BY LeavesOf DEF NodesOf, TypeOK
<1>1. ASSUME NEW i \in Thread, Step(i)
      PROVE  [Pool!Next]_<<pool, allEnd>>
  <2>1. CASE next(i)
    <3>1. /\ \A k \in 1 .. Len(deq'[i]) :
               \E l \in 1 .. Len(deq[i]) : deq'[i][k] \subseteq deq[i][l]
          /\ \A j \in Thread \ {i} : deq'[j] = deq[j]
      BY <2>1, NextNodes DEF IInv, NodeInv
    <3>2. NodesOf(i)' \subseteq NodesOf(i)
      BY <1>0, <3>1
    <3>3. \A j \in Thread \ {i} : NodesOf(j)' = NodesOf(j)
      BY <3>1 DEF NodesOf
    <3>4. allEnd' = allEnd
      BY <2>1 DEF next
    <3>5. pool' = [pool EXCEPT ![i] = pool'[i]]
      BY <3>3
    <3>6. pool'[i] \subseteq pool[i]
      BY <3>2
    <3> QED BY <3>4, <3>5, <3>6 DEF Pool!Next, Pool!Explore
  <2>2. CASE work_share(i)
    <3> DEFINE n == Len(deq[i])
               h == Len(deq[i]) \div 2
               t == thief[i]
    <3>1. t \in Thread /\ t # i /\ deq[t] = <<>>
      BY <1>1, <2>2, ThiefEmpty, DequesKept
    <3>2. /\ n \in Nat /\ h \in Nat /\ h <= n
          /\ Len(deq'[i]) = n - h /\ Len(deq'[t]) = h
          /\ \A k \in 1 .. n - h : deq'[i][k] = deq[i][k]
          /\ \A k \in 1 .. h : deq'[t][k] = deq[i][n - h + k]
          /\ \A j \in Thread \ {i, t} : deq'[j] = deq[j]
      BY <2>2, <3>1, SharedHalves
    <3>3. \A k, l \in 1 .. n : k # l => deq[i][k] \cap deq[i][l] = {}
      BY DEF IInv, NodeInv
    <3>4. NodesOf(t) = {}
      BY <3>1 DEF NodesOf, ToSet
    <3>5. /\ NodesOf(i) = UNION {deq[i][k] : k \in 1 .. n}
          /\ NodesOf(i)' = UNION {deq'[i][k] : k \in 1 .. n - h}
          /\ \A j \in Thread : j = t => NodesOf(j)' = UNION {deq'[t][k] : k \in 1 .. h}
      BY <1>0, <3>1, <3>2
    <3> HIDE DEF n, h, t
    <3>6. (UNION {deq'[t][k] : k \in 1 .. h}) \subseteq (UNION {deq[i][k] : k \in 1 .. n})
      <4>1. \A k \in 1 .. h : n - h + k \in 1 .. n
        BY <3>2
      <4> QED BY <3>2, <4>1
    <3>7. (UNION {deq'[i][k] : k \in 1 .. n - h}) =
          (UNION {deq[i][k] : k \in 1 .. n}) \ (UNION {deq'[t][k] : k \in 1 .. h})
      <4>1. \A k \in 1 .. n - h : k \in 1 .. n /\ \A l \in 1 .. h : k # n - h + l
        BY <3>2
      <4>2. \A l \in 1 .. h : n - h + l \in 1 .. n
        BY <3>2
      <4>3. \A k \in 1 .. n : k \in 1 .. n - h \/ (k - (n - h) \in 1 .. h
                                /\ n - h + (k - (n - h)) = k)
        BY <3>2
      <4>4. \A k \in 1 .. n - h, l \in 1 .. h : deq'[i][k] \cap deq'[t][l] = {}
        BY <3>2, <3>3, <4>1, <4>2
      <4>5. \A k \in 1 .. n : \/ \E m \in 1 .. n - h : deq[i][k] = deq'[i][m]
                              \/ \E l \in 1 .. h : deq[i][k] = deq'[t][l]
        <5> SUFFICES ASSUME NEW k \in 1 .. n, k \notin 1 .. n - h
                     PROVE  \E l \in 1 .. h : deq[i][k] = deq'[t][l]
          BY <3>2
        <5>1. k - (n - h) \in 1 .. h /\ n - h + (k - (n - h)) = k
          BY <4>3
        <5>2. deq'[t][k - (n - h)] = deq[i][n - h + (k - (n - h))]
          BY <3>2, <5>1
        <5> QED BY <5>1, <5>2
      <4>6. \A k \in 1 .. n - h : \E m \in 1 .. n : deq'[i][k] = deq[i][m]
        BY <3>2, <4>1
      <4> QED BY <4>4, <4>5, <4>6
    <3>8. /\ NodesOf(i)' = NodesOf(i) \ (UNION {deq'[t][k] : k \in 1 .. h})
          /\ (UNION {deq'[t][k] : k \in 1 .. h}) \subseteq NodesOf(i)
      BY <3>5, <3>6, <3>7
    <3>9. \A j \in Thread \ {i, t} : NodesOf(j)' = NodesOf(j)
      BY <3>2 DEF NodesOf
    <3>10. allEnd' = allEnd
      BY <2>2 DEF work_share
    <3>11. pool'[t] = UNION {deq'[t][k] : k \in 1 .. h}
      BY <3>1, <3>5
    <3>12. pool' = [pool EXCEPT ![i] = @ \ pool'[t], ![t] = pool'[t]]
      BY <3>1, <3>8, <3>9, <3>11
    <3>13. Pool!Steal(i, t)
      BY <3>1, <3>4, <3>8, <3>10, <3>11, <3>12 DEF Pool!Steal
    <3> QED BY <3>1, <3>13 DEF Pool!Next
  <2>3. CASE ~next(i) /\ ~work_share(i)
    <3>1. deq' = deq
      BY <1>1, <2>3, DequesKept
    <3>2. pool' = pool
      BY <3>1 DEF NodesOf
    <3>3. CASE allEnd' = allEnd
      BY <3>2, <3>3
    <3>4. CASE allEnd' # allEnd
      <4>1. allEnd' = TRUE
        <5>1. allEnd => allEnd'
          BY <1>1, ApartEffect, WakeEffect DEF Step, Apart, Cancel, Answer, push_request, IInv
        <5> QED BY <3>4, <5>1 DEF TypeOK
      <4>2. \A j \in Thread : deq[j] = <<>>
        BY <3>1, <4>1 DEF IInv, EndInv
      <4>3. \A j \in Thread : NodesOf(j) = {}
        BY <4>2 DEF NodesOf, ToSet
      <4>4. Pool!Left = {}
        BY <4>3 DEF Pool!Left
      <4> QED BY <3>2, <4>1, <4>4 DEF Pool!Next, Pool!Stop
    <3> QED BY <3>3, <3>4
  <2> QED BY <2>1, <2>2, <2>3
<1>2. CASE Barrier \/ UNCHANGED vars
  <2>1. deq' = deq /\ allEnd' = allEnd
    BY <1>2 DEF Barrier, vars, ll
  <2>2. pool' = pool
    BY <2>1 DEF NodesOf
  <2> QED BY <2>1, <2>2
<1> QED BY <1>1, <1>2 DEF Next, Stopped

\* The linked-list team implements the pool of work: no leaf is lost or owned
\* twice, a thief has no nodes, and the search is over only when none is left.
THEOREM Refinement == Spec => ImplementsPool
<1>1. Init => Pool!Init
  BY PoolInit
<1>2. TypeOK /\ TypeOK' /\ IInv /\ IInv' /\ [Next]_vars
        => [Pool!Next]_<<[i \in Thread |-> NodesOf(i)], allEnd>>
  BY PoolStep
<1> QED
  BY <1>1, <1>2, Invariant, PTL DEF Spec, ImplementsPool, Pool!Spec, Pool!poolVars

=============================================================================
