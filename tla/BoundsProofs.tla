---------------------------- MODULE BoundsProofs ---------------------------
(***************************************************************************)
(* Proofs about FlowShop and GpuBounds, for any number of jobs and         *)
(* machines and all processing times: none of the bounds of a node or of   *)
(* one of its children, on the host or on the device, is above the         *)
(* makespan of a schedule that completes it.                               *)
(***************************************************************************)
EXTENDS GpuBounds, DataLemmas

-----------------------------------------------------------------------------
(* Heads and tails *)

\* Times of the machines.
Time == [Machine -> Nat]

\* Processing times, and the smallest numbers of machines and jobs.
LEMMA Durations ==
  ASSUME ptm \in Instances
  PROVE  \A m \in Machine : \A j \in Job : ptm[m][j] \in Nat
BY FlowShopAssumption

\* There are two jobs and two machines at least.
LEMMA Sizes ==
  /\ nbJob \in Nat /\ nbJob >= 2 /\ nbMachines \in Nat /\ nbMachines >= 2
  /\ Machine = 1 .. nbMachines /\ Job = 0 .. nbJob - 1
  /\ 1 \in Machine /\ nbMachines \in Machine
  /\ \A m \in Machine : m \in Nat /\ 1 <= m /\ m <= nbMachines
BY FlowShopAssumption DEF Machine, Job

\* A job goes through the machines one after the other.
Started(c, front, j) ==
  /\ c \in Time
  /\ c[1] = front[1] + ptm[1][j]
  /\ \A m \in 2 .. nbMachines : c[m] = Larger(front[m], c[m - 1]) + ptm[m][j]

\* AddFirst takes a job through the machines.
LEMMA AddFirstOf ==
  ASSUME ptm \in Instances, NEW front \in Time, NEW j \in Job
  PROVE  Started(AddFirst(front, j), front, j)
<1> DEFINE n == nbMachines
           zero == 0
           g == [x \in (1 .. n) \X Nat |-> Larger(front[x[1]], x[2]) + ptm[x[1]][j]]
           step(c) == [m \in 0 .. n |-> IF m = 0 THEN 0 ELSE Larger(front[m], c[m - 1]) + ptm[m][j]]
<1>1. \A m \in 1 .. n : front[m] \in Nat /\ ptm[m][j] \in Nat
  BY Durations, Sizes DEF Time
<1>2. g \in [(1 .. n) \X Nat -> Nat]
  BY <1>1 DEF Larger
<1>3. PICK f \in [0 .. n -> Nat] :
        f = [k \in 0 .. n |-> IF k = 0 THEN zero ELSE g[<<k, f[k - 1]>>]]
  <2> DEFINE D == Nat
  <2>1. zero \in D /\ n \in Nat /\ g \in [(1 .. n) \X D -> D]
    BY <1>2, Sizes
  <2> HIDE DEF g, zero, n, D
  <2>2. \E f \in [0 .. n -> D] : Recurs(f, n, zero, g)
    BY <2>1, Recursive
  <2> QED BY <2>2 DEF D, Recurs
<1>4. f = step(f)
  <2>1. ASSUME NEW k \in 0 .. n, k # 0
        PROVE  g[<<k, f[k - 1]>>] = Larger(front[k], f[k - 1]) + ptm[k][j]
    <3>1. k \in 1 .. n /\ f[k - 1] \in Nat
      BY <2>1, Sizes
    <3> QED BY <3>1
  <2>2. step(f) = [k \in 0 .. n |-> IF k = 0 THEN zero ELSE g[<<k, f[k - 1]>>]]
    <3> HIDE DEF g
    <3> QED BY <2>1
  <2> QED BY <1>3, <2>2
<1>5. PICK c : c = step(c) /\ AddFirst(front, j) = [m \in Machine |-> c[m]]
  BY <1>4 DEF AddFirst
<1>6. \A m \in 0 .. n : c[m] = IF m = 0 THEN 0 ELSE Larger(front[m], c[m - 1]) + ptm[m][j]
  BY <1>5
<1>7. \A k \in 0 .. n : k \in {m \in 0 .. n : c[m] \in Nat}
  <2> DEFINE S == {m \in 0 .. n : c[m] \in Nat}
  <2>1. 0 \in S
    BY <1>6, Sizes
  <2>2. ASSUME NEW k \in 0 .. n - 1, k \in S PROVE k + 1 \in S
    <3>1. k + 1 \in 1 .. n /\ k + 1 \in 0 .. n /\ (k + 1) - 1 = k /\ k + 1 # 0
      BY Sizes
    <3>2. c[k + 1] = Larger(front[k + 1], c[k]) + ptm[k + 1][j]
      BY <1>6, <3>1
    <3>3. c[k] \in Nat /\ front[k + 1] \in Nat /\ ptm[k + 1][j] \in Nat
      BY <1>1, <2>2, <3>1
    <3>4. c[k + 1] \in Nat
      BY <3>2, <3>3 DEF Larger
    <3> QED BY <3>1, <3>4
  <2> HIDE DEF S
  <2>3. n \in Nat
    BY Sizes
  <2> QED BY <2>1, <2>2, <2>3, UpTo DEF S
<1> DEFINE a == [m \in Machine |-> c[m]]
<1>8. a \in Time /\ \A m \in Machine : a[m] = c[m]
  BY <1>7, Sizes DEF Time
<1>9. a[1] = front[1] + ptm[1][j]
  <2>1. c[0] = 0 /\ c[1] = Larger(front[1], c[0]) + ptm[1][j] /\ front[1] \in Nat
    BY <1>1, <1>6, Sizes
  <2> QED BY <1>8, <2>1, Sizes DEF Larger
<1>10. ASSUME NEW m \in 2 .. nbMachines PROVE a[m] = Larger(front[m], a[m - 1]) + ptm[m][j]
  <2>1. m \in 0 .. n /\ m # 0 /\ m \in Machine /\ m - 1 \in Machine
    BY Sizes
  <2> QED BY <1>6, <1>8, <2>1
<1> QED BY <1>5, <1>8, <1>9, <1>10 DEF Started

\* ... seen from the end.
Ended(c, back, j) ==
  /\ c \in Time
  /\ c[nbMachines] = back[nbMachines] + ptm[nbMachines][j]
  /\ \A m \in 1 .. nbMachines - 1 : c[m] = Larger(back[m], c[m + 1]) + ptm[m][j]

\* AddLast takes it back from the last one.
LEMMA AddLastOf ==
  ASSUME ptm \in Instances, NEW back \in Time, NEW j \in Job
  PROVE  Ended(AddLast(back, j), back, j)
<1> DEFINE n == nbMachines
           zero == 0
           at(k) == n + 1 - k
           g == [x \in (1 .. n) \X Nat |-> Larger(back[at(x[1])], x[2]) + ptm[at(x[1])][j]]
           step(c) == [m \in 1 .. n + 1 |-> IF m > n THEN 0 ELSE Larger(back[m], c[m + 1]) + ptm[m][j]]
<1>0. n \in Nat
  BY Sizes
<1>1. \A m \in 1 .. n : back[m] \in Nat /\ ptm[m][j] \in Nat
  BY Durations, Sizes DEF Time
<1>2. g \in [(1 .. n) \X Nat -> Nat]
  <2>1. \A k \in 1 .. n : at(k) \in 1 .. n
    BY <1>0
  <2> HIDE DEF at
  <2> QED BY <1>1, <2>1 DEF Larger
<1>3. PICK h \in [0 .. n -> Nat] :
        h = [k \in 0 .. n |-> IF k = 0 THEN zero ELSE g[<<k, h[k - 1]>>]]
  <2> DEFINE D == Nat
  <2>1. zero \in D /\ n \in Nat /\ g \in [(1 .. n) \X D -> D]
    BY <1>2, Sizes
  <2> HIDE DEF g, zero, n, D
  <2>2. \E f \in [0 .. n -> D] : Recurs(f, n, zero, g)
    BY <2>1, Recursive
  <2> QED BY <2>2 DEF D, Recurs
<1> DEFINE f == [m \in 1 .. n + 1 |-> h[at(m)]]
<1>4. f = step(f)
  <2>1. ASSUME NEW m \in 1 .. n + 1, ~(m > n)
        PROVE  h[at(m)] = Larger(back[m], h[at(m + 1)]) + ptm[m][j]
    <3>1. at(m) \in 1 .. n /\ at(m) \in 0 .. n /\ at(m) # 0 /\ at(m + 1) = at(m) - 1 /\ at(at(m)) = m
      BY <1>0, <2>1
    <3>2. h[at(m)] = g[<<at(m), h[at(m) - 1]>>] /\ h[at(m) - 1] \in Nat
      <4> HIDE DEF g, at
      <4> QED BY <1>0, <1>3, <3>1
    <3>3. \A k \in 1 .. n : \A x \in Nat : g[<<k, x>>] = Larger(back[at(k)], x) + ptm[at(k)][j]
      OBVIOUS
    <3> HIDE DEF g, at
    <3> QED BY <3>1, <3>2, <3>3
  <2>2. at(n + 1) = 0 /\ h[0] = 0
    BY <1>0, <1>3
  <2>3. ASSUME NEW m \in 1 .. n + 1
        PROVE  f[m] = IF m > n THEN 0 ELSE Larger(back[m], f[m + 1]) + ptm[m][j]
    <3>1. CASE m > n
      <4>1. m = n + 1
        BY <1>0, <3>1
      <4> QED BY <2>2, <3>1, <4>1
    <3>2. CASE ~(m > n)
      <4>1. m + 1 \in 1 .. n + 1
        BY <1>0, <3>2
      <4> HIDE DEF at
      <4> QED BY <2>1, <3>2, <4>1
    <3> QED BY <3>1, <3>2
  <2>4. f = [m \in 1 .. n + 1 |-> f[m]]
    OBVIOUS
  <2> HIDE DEF f
  <2> QED BY <2>3, <2>4
<1> HIDE DEF f
<1>5. PICK c : c = step(c) /\ AddLast(back, j) = [m \in Machine |-> c[m]]
  BY <1>4 DEF AddLast
<1>6. \A m \in 1 .. n + 1 : c[m] = IF m > n THEN 0 ELSE Larger(back[m], c[m + 1]) + ptm[m][j]
  BY <1>5
<1>7. \A k \in 0 .. n : k \in {m \in 0 .. n : c[m + 1] \in Nat}
  <2> DEFINE S == {m \in 0 .. n : c[m + 1] \in Nat}
  <2>1. n \in S
    BY <1>0, <1>6
  <2>2. ASSUME NEW k \in 1 .. n, k \in S PROVE k - 1 \in S
    <3>1. k - 1 \in 0 .. n /\ k \in 1 .. n + 1 /\ ~(k > n) /\ (k - 1) + 1 = k
      BY <1>0
    <3>2. c[k] = Larger(back[k], c[k + 1]) + ptm[k][j]
      BY <1>6, <3>1
    <3> QED BY <1>1, <2>2, <3>1, <3>2 DEF Larger
  <2> HIDE DEF S
  <2> QED BY <1>0, <2>1, <2>2, DownTo DEF S
<1> DEFINE a == [m \in Machine |-> c[m]]
<1>8. a \in Time /\ \A m \in Machine : a[m] = c[m]
  <2>1. ASSUME NEW m \in Machine PROVE c[m] \in Nat
    <3>1. m - 1 \in 0 .. n /\ (m - 1) + 1 = m
      BY Sizes
    <3> QED BY <1>7, <3>1
  <2> QED BY <2>1 DEF Time
<1>9. a[n] = back[n] + ptm[n][j]
  <2>1. c[n + 1] = 0 /\ c[n] = Larger(back[n], c[n + 1]) + ptm[n][j] /\ back[n] \in Nat
    BY <1>1, <1>6, Sizes
  <2> QED BY <1>8, <2>1, Sizes DEF Larger
<1>10. ASSUME NEW m \in 1 .. nbMachines - 1 PROVE a[m] = Larger(back[m], a[m + 1]) + ptm[m][j]
  <2>1. m \in 1 .. n + 1 /\ ~(m > n) /\ m \in Machine /\ m + 1 \in Machine
    BY Sizes
  <2> QED BY <1>6, <1>8, <2>1
<1> QED BY <1>5, <1>8, <1>9, <1>10 DEF Ended

\* The heads of all the beginnings of a list of jobs.
HeadsOf(h, s) ==
  /\ h \in [0 .. Len(s) -> Time]
  /\ h[0] = NoTime
  /\ \A k \in 1 .. Len(s) : h[k] = AddFirst(h[k - 1], s[k])

\* Heads yields the last of the heads.
LEMMA HeadsExist ==
  ASSUME ptm \in Instances, NEW s \in Seq(Job)
  PROVE  \E h : HeadsOf(h, s) /\ Heads(s) = h[Len(s)]
<1> DEFINE n == Len(s)
           g == [x \in (1 .. n) \X Time |-> AddFirst(x[2], s[x[1]])]
           step(h) == [k \in 0 .. n |-> IF k = 0 THEN NoTime ELSE AddFirst(h[k - 1], s[k])]
<1>0. n \in Nat /\ \A k \in 1 .. n : s[k] \in Job
  OBVIOUS
<1>1. \A x \in Time : \A k \in 1 .. n : AddFirst(x, s[k]) \in Time
  BY <1>0, AddFirstOf DEF Started
<1>2. g \in [(1 .. n) \X Time -> Time]
  <2> HIDE DEF n
  <2> QED BY <1>1
<1>3. NoTime \in Time
  BY DEF NoTime, Time
<1>4. PICK f \in [0 .. n -> Time] : Recurs(f, n, NoTime, g)
  <2> HIDE DEF g, n
  <2> QED BY <1>0, <1>2, <1>3, Recursive
<1>5. f = step(f)
  <2>1. ASSUME NEW k \in 0 .. n, k # 0
        PROVE  g[<<k, f[k - 1]>>] = AddFirst(f[k - 1], s[k])
    <3>1. k \in 1 .. n /\ f[k - 1] \in Time
      <4> HIDE DEF n
      <4> QED BY <1>0, <2>1
    <3> HIDE DEF n
    <3> QED BY <3>1
  <2>2. step(f) = [k \in 0 .. n |-> IF k = 0 THEN NoTime ELSE g[<<k, f[k - 1]>>]]
    <3> HIDE DEF g, n
    <3> QED BY <2>1
  <2> QED BY <1>4, <2>2 DEF Recurs
<1>6. PICK h : h = step(h) /\ Heads(s) = h[n]
  BY <1>5 DEF Heads
<1>7. \A k \in 0 .. n : h[k] = IF k = 0 THEN NoTime ELSE AddFirst(h[k - 1], s[k])
  <2> HIDE DEF n
  <2> QED BY <1>6
<1>8. \A k \in 0 .. n : k \in {i \in 0 .. n : h[i] \in Time}
  <2> DEFINE S == {i \in 0 .. n : h[i] \in Time}
  <2>1. 0 \in S
    <3> HIDE DEF n
    <3> QED BY <1>0, <1>3, <1>7
  <2>2. ASSUME NEW k \in 0 .. n - 1, k \in S PROVE k + 1 \in S
    <3>1. k + 1 \in 1 .. n /\ k + 1 \in 0 .. n /\ (k + 1) - 1 = k /\ k + 1 # 0
      BY <1>0
    <3>2. h[k + 1] = AddFirst(h[k], s[k + 1])
      <4> HIDE DEF n
      <4> QED BY <1>7, <3>1
    <3>3. h[k] \in Time
      BY <2>2
    <3> HIDE DEF n
    <3> QED BY <1>1, <3>1, <3>2, <3>3
  <2> HIDE DEF S, n
  <2> QED BY <1>0, <2>1, <2>2, UpTo DEF S
<1>9. HeadsOf(h, s)
  <2>1. h \in [0 .. n -> Time]
    <3> HIDE DEF n
    <3> QED BY <1>6, <1>8
  <2>2. h[0] = NoTime
    BY <1>0, <1>7
  <2>3. ASSUME NEW k \in 1 .. n PROVE h[k] = AddFirst(h[k - 1], s[k])
    BY <1>0, <1>7
  <2> QED BY <2>1, <2>2, <2>3 DEF HeadsOf
<1> QED BY <1>6, <1>9

\* The heads of a beginning are the heads of the whole list up to there.
LEMMA HeadsOfBeginning ==
  ASSUME ptm \in Instances, NEW s \in Seq(Job), NEW h, HeadsOf(h, s),
         NEW r \in Seq(Job), Len(r) <= Len(s), \A k \in 1 .. Len(r) : r[k] = s[k]
  PROVE  Heads(r) = h[Len(r)]
<1> DEFINE n == Len(r)
<1>0. n \in Nat /\ Len(s) \in Nat /\ n <= Len(s)
  OBVIOUS
<1>1. PICK g : HeadsOf(g, r) /\ Heads(r) = g[n]
  BY HeadsExist
<1> DEFINE S == {k \in 0 .. n : g[k] = h[k]}
<1>2. 0 \in S
  BY <1>1 DEF HeadsOf
<1>3. ASSUME NEW k \in 0 .. n - 1, k \in S PROVE k + 1 \in S
  <2>1. k + 1 \in 1 .. n /\ k + 1 \in 1 .. Len(s) /\ (k + 1) - 1 = k
    BY <1>0
  <2>2. g[k + 1] = AddFirst(g[k], r[k + 1]) /\ h[k + 1] = AddFirst(h[k], s[k + 1])
    BY <1>1, <2>1 DEF HeadsOf
  <2> QED BY <1>3, <2>1, <2>2
<1>4. n \in S
  <2> HIDE DEF S, n
  <2>1. \A k \in 0 .. n : k \in S
    BY <1>0, <1>2, <1>3, UpTo
  <2> QED BY <1>0, <2>1
<1> QED BY <1>1, <1>4

\* The tails of all the ends of a list of jobs.
TailsOf(t, s) ==
  /\ t \in [1 .. Len(s) + 1 -> Time]
  /\ t[Len(s) + 1] = NoTime
  /\ \A k \in 1 .. Len(s) : t[k] = AddLast(t[k + 1], s[k])

\* Tails yields the first of the tails.
LEMMA TailsExist ==
  ASSUME ptm \in Instances, NEW s \in Seq(Job)
  PROVE  \E t : TailsOf(t, s) /\ Tails(s) = t[1]
<1> DEFINE n == Len(s)
           at(k) == n + 1 - k
           g == [x \in (1 .. n) \X Time |-> AddLast(x[2], s[at(x[1])])]
           step(t) == [k \in 1 .. n + 1 |-> IF k > n THEN NoTime ELSE AddLast(t[k + 1], s[k])]
<1>0. n \in Nat /\ \A k \in 1 .. n : s[k] \in Job
  OBVIOUS
<1>1. \A x \in Time : \A k \in 1 .. n : AddLast(x, s[k]) \in Time
  BY <1>0, AddLastOf DEF Ended
<1>2. g \in [(1 .. n) \X Time -> Time]
  <2>1. \A k \in 1 .. n : at(k) \in 1 .. n
    BY <1>0
  <2> HIDE DEF n, at
  <2> QED BY <1>1, <2>1
<1>3. NoTime \in Time
  BY DEF NoTime, Time
<1>4. PICK e \in [0 .. n -> Time] : Recurs(e, n, NoTime, g)
  <2> HIDE DEF g, n
  <2> QED BY <1>0, <1>2, <1>3, Recursive
<1> DEFINE f == [k \in 1 .. n + 1 |-> e[at(k)]]
<1>5. f = step(f)
  <2>1. ASSUME NEW k \in 1 .. n + 1
        PROVE  f[k] = IF k > n THEN NoTime ELSE AddLast(f[k + 1], s[k])
    <3>1. CASE k > n
      <4>1. at(k) = 0
        BY <1>0, <3>1
      <4>2. e[0] = NoTime
        BY <1>0, <1>4 DEF Recurs
      <4> QED BY <3>1, <4>1, <4>2
    <3>2. CASE ~(k > n)
      <4>1. at(k) \in 1 .. n /\ at(k) \in 0 .. n /\ at(k) # 0 /\ at(k + 1) = at(k) - 1 /\ at(at(k)) = k
            /\ at(k) - 1 \in 0 .. n /\ k + 1 \in 1 .. n + 1
        BY <1>0, <3>2
      <4>2. e[at(k)] = g[<<at(k), e[at(k) - 1]>>] /\ e[at(k) - 1] \in Time
        <5> HIDE DEF g, n, at
        <5> QED BY <1>4, <4>1 DEF Recurs
      <4>3. \A i \in 1 .. n : \A x \in Time : g[<<i, x>>] = AddLast(x, s[at(i)])
        OBVIOUS
      <4> HIDE DEF g, n, at
      <4> QED BY <3>2, <4>1, <4>2, <4>3
    <3> QED BY <3>1, <3>2
  <2>2. f = [k \in 1 .. n + 1 |-> f[k]]
    OBVIOUS
  <2> HIDE DEF f, n
  <2> QED BY <2>1, <2>2
<1> HIDE DEF f
<1>6. PICK t : t = step(t) /\ Tails(s) = t[1]
  BY <1>5 DEF Tails
<1>7. \A k \in 1 .. n + 1 : t[k] = IF k > n THEN NoTime ELSE AddLast(t[k + 1], s[k])
  <2> HIDE DEF n
  <2> QED BY <1>6
<1>8. \A k \in 0 .. n : k \in {i \in 0 .. n : t[i + 1] \in Time}
  <2> DEFINE S == {i \in 0 .. n : t[i + 1] \in Time}
  <2>1. n \in S
    <3> HIDE DEF n
    <3> QED BY <1>0, <1>3, <1>7
  <2>2. ASSUME NEW k \in 1 .. n, k \in S PROVE k - 1 \in S
    <3>1. k \in 1 .. n + 1 /\ ~(k > n) /\ (k - 1) + 1 = k /\ k - 1 \in 0 .. n
      BY <1>0
    <3>2. t[k] = AddLast(t[k + 1], s[k]) /\ t[k + 1] \in Time
      <4> HIDE DEF n
      <4> QED BY <1>7, <2>2, <3>1
    <3>3. t[k] \in Time
      BY <1>1, <3>2
    <3> QED BY <3>1, <3>3
  <2> HIDE DEF S, n
  <2> QED BY <1>0, <2>1, <2>2, DownTo DEF S
<1>9. TailsOf(t, s)
  <2>1. ASSUME NEW k \in 1 .. n + 1 PROVE t[k] \in Time
    <3>1. k - 1 \in 0 .. n /\ (k - 1) + 1 = k
      BY <1>0
    <3> QED BY <1>8, <3>1
  <2>2. t \in [1 .. n + 1 -> Time]
    <3> HIDE DEF n
    <3> QED BY <1>6, <2>1
  <2>3. t[n + 1] = NoTime
    BY <1>0, <1>7
  <2>4. ASSUME NEW k \in 1 .. n PROVE t[k] = AddLast(t[k + 1], s[k])
    BY <1>0, <1>7
  <2> QED BY <2>2, <2>3, <2>4 DEF TailsOf
<1> QED BY <1>6, <1>9

\* The tails of an end are the tails of the whole list from there.
LEMMA TailsOfEnd ==
  ASSUME ptm \in Instances, NEW s \in Seq(Job), NEW t, TailsOf(t, s),
         NEW d \in Nat, NEW r \in Seq(Job), Len(s) = d + Len(r),
         \A k \in 1 .. Len(r) : r[k] = s[d + k]
  PROVE  Tails(r) = t[d + 1]
<1> DEFINE n == Len(r)
<1>0. n \in Nat /\ Len(s) = d + n
  OBVIOUS
<1>1. PICK g : TailsOf(g, r) /\ Tails(r) = g[1]
  BY TailsExist
<1> DEFINE S == {k \in 0 .. n : g[k + 1] = t[d + k + 1]}
<1>2. n \in S
  BY <1>0, <1>1 DEF TailsOf
<1>3. ASSUME NEW k \in 1 .. n, k \in S PROVE k - 1 \in S
  <2>1. k - 1 \in 0 .. n /\ d + k \in 1 .. Len(s) /\ (k - 1) + 1 = k /\ d + (k - 1) + 1 = d + k
    BY <1>0
  <2>2. g[k] = AddLast(g[k + 1], r[k]) /\ t[d + k] = AddLast(t[d + k + 1], s[d + k])
    BY <1>1, <2>1 DEF TailsOf
  <2> QED BY <1>3, <2>1, <2>2
<1>4. 0 \in S
  <2> HIDE DEF S, n
  <2>1. \A k \in 0 .. n : k \in S
    BY <1>0, <1>2, <1>3, DownTo
  <2> QED BY <1>0, <2>1
<1>5. g[1] = t[d + 1]
  BY <1>4
<1> QED BY <1>1, <1>5

\* Completion times grow along the list and along the machines.
LEMMA HeadsGrow ==
  ASSUME ptm \in Instances, NEW s \in Seq(Job), NEW h, HeadsOf(h, s)
  PROVE  /\ \A k \in 0 .. Len(s) : \A m \in Machine : h[k][m] \in Nat
         /\ \A k \in 1 .. Len(s) : \A m \in Machine :
              /\ h[k - 1][m] + ptm[m][s[k]] <= h[k][m]
              /\ m >= 2 => h[k][m - 1] + ptm[m][s[k]] <= h[k][m]
              /\ h[k][m] = (IF m = 1 THEN h[k - 1][1] ELSE Larger(h[k - 1][m], h[k][m - 1]))
                             + ptm[m][s[k]]
<1>1. \A k \in 0 .. Len(s) : \A m \in Machine : h[k][m] \in Nat
  BY DEF HeadsOf, Time
<1>2. ASSUME NEW k \in 1 .. Len(s), NEW m \in Machine
      PROVE  /\ h[k - 1][m] + ptm[m][s[k]] <= h[k][m]
             /\ m >= 2 => h[k][m - 1] + ptm[m][s[k]] <= h[k][m]
             /\ h[k][m] = (IF m = 1 THEN h[k - 1][1] ELSE Larger(h[k - 1][m], h[k][m - 1]))
                            + ptm[m][s[k]]
  <2>1. k \in 0 .. Len(s) /\ k - 1 \in 0 .. Len(s) /\ s[k] \in Job /\ h[k - 1] \in Time
    BY DEF HeadsOf
  <2>2. Started(h[k], h[k - 1], s[k])
    BY <2>1, AddFirstOf DEF HeadsOf
  <2>3. h[k - 1][m] \in Nat /\ h[k][m] \in Nat /\ ptm[m][s[k]] \in Nat
    BY <1>1, <2>1, Durations
  <2>4. CASE m = 1
    <3>1. h[k][1] = h[k - 1][1] + ptm[1][s[k]]
      BY <2>2 DEF Started
    <3> QED BY <2>3, <2>4, <3>1
  <2>5. CASE m # 1
    <3>1. m \in 2 .. nbMachines /\ m - 1 \in Machine
      BY <2>5, Sizes
    <3>2. h[k][m] = Larger(h[k - 1][m], h[k][m - 1]) + ptm[m][s[k]]
      BY <2>2, <3>1 DEF Started
    <3>3. h[k][m - 1] \in Nat
      BY <1>1, <2>1, <3>1
    <3> QED BY <2>3, <2>5, <3>2, <3>3 DEF Larger
  <2> QED BY <2>4, <2>5
<1> QED BY <1>1, <1>2

\* So do the times that remain, towards the beginning.
LEMMA TailsGrow ==
  ASSUME ptm \in Instances, NEW s \in Seq(Job), NEW t, TailsOf(t, s)
  PROVE  /\ \A k \in 1 .. Len(s) + 1 : \A m \in Machine : t[k][m] \in Nat
         /\ \A k \in 1 .. Len(s) : \A m \in Machine :
              /\ t[k + 1][m] + ptm[m][s[k]] <= t[k][m]
              /\ m < nbMachines => t[k][m + 1] + ptm[m][s[k]] <= t[k][m]
              /\ t[k][m] = (IF m = nbMachines THEN t[k + 1][m]
                                              ELSE Larger(t[k + 1][m], t[k][m + 1]))
                             + ptm[m][s[k]]
<1>1. \A k \in 1 .. Len(s) + 1 : \A m \in Machine : t[k][m] \in Nat
  BY DEF TailsOf, Time
<1>2. ASSUME NEW k \in 1 .. Len(s), NEW m \in Machine
      PROVE  /\ t[k + 1][m] + ptm[m][s[k]] <= t[k][m]
             /\ m < nbMachines => t[k][m + 1] + ptm[m][s[k]] <= t[k][m]
             /\ t[k][m] = (IF m = nbMachines THEN t[k + 1][m]
                                             ELSE Larger(t[k + 1][m], t[k][m + 1]))
                            + ptm[m][s[k]]
  <2>1. k \in 1 .. Len(s) + 1 /\ k + 1 \in 1 .. Len(s) + 1 /\ s[k] \in Job /\ t[k + 1] \in Time
    BY DEF TailsOf
  <2>2. Ended(t[k], t[k + 1], s[k])
    BY <2>1, AddLastOf DEF TailsOf
  <2>3. t[k + 1][m] \in Nat /\ t[k][m] \in Nat /\ ptm[m][s[k]] \in Nat
    BY <1>1, <2>1, Durations
  <2>4. CASE m = nbMachines
    <3>1. t[k][m] = t[k + 1][m] + ptm[m][s[k]]
      BY <2>2, <2>4 DEF Ended
    <3>2. ~(m < nbMachines)
      BY <2>4, Sizes
    <3> QED BY <2>3, <2>4, <3>1, <3>2
  <2>5. CASE m # nbMachines
    <3>1. m \in 1 .. nbMachines - 1 /\ m + 1 \in Machine
      BY <2>5, Sizes
    <3>2. t[k][m] = Larger(t[k + 1][m], t[k][m + 1]) + ptm[m][s[k]]
      BY <2>2, <3>1 DEF Ended
    <3>3. t[k][m + 1] \in Nat
      BY <1>1, <2>1, <3>1
    <3> QED BY <2>3, <2>5, <3>2, <3>3 DEF Larger
  <2> QED BY <2>4, <2>5
<1> QED BY <1>1, <1>2

\* What is done by the end of a job on a machine, the job itself, and what comes
\* after it: no more than the makespan.
LEMMA HeadAndTail ==
  ASSUME ptm \in Instances, NEW s \in Seq(Job), NEW h, HeadsOf(h, s), NEW t, TailsOf(t, s)
  PROVE  \A k \in 1 .. Len(s) : \A m \in Machine :
           h[k][m] + t[k][m] <= h[Len(s)][nbMachines] + ptm[m][s[k]]
<1> DEFINE n == Len(s)
           M == nbMachines
           E == h[n][M]
           Fits(k, m) == h[k][m] + t[k][m] <= E + ptm[m][s[k]]
           S == {k \in 0 .. n : k >= 1 => \A m \in Machine : Fits(k, m)}
<1>0. n \in Nat /\ M \in Nat /\ M >= 2 /\ Machine = 1 .. M
  BY Sizes
<1>1. \A k \in 1 .. n : \A m \in Machine :
        /\ h[k][m] \in Nat /\ t[k][m] \in Nat /\ ptm[m][s[k]] \in Nat /\ t[k + 1][m] \in Nat
        /\ h[k][m] + ptm[m][s[k]] \in Nat
  <2>1. \A k \in 1 .. n : k \in 0 .. n /\ k \in 1 .. n + 1 /\ k + 1 \in 1 .. n + 1 /\ s[k] \in Job
    OBVIOUS
  <2>2. \A k \in 1 .. n : \A m \in Machine : ptm[m][s[k]] \in Nat
    BY <2>1, Durations
  <2>3. \A k \in 0 .. n : \A m \in Machine : h[k][m] \in Nat
    BY HeadsGrow
  <2>4. \A k \in 1 .. n + 1 : \A m \in Machine : t[k][m] \in Nat
    BY TailsGrow
  <2> HIDE DEF n
  <2> QED BY <2>1, <2>2, <2>3, <2>4
<1>2. E \in Nat
  <2>1. n \in 0 .. n /\ M \in Machine
    BY <1>0
  <2> QED BY <2>1, HeadsGrow
\* One row, from the last machine on.
<1>3. ASSUME NEW k \in 1 .. n, \A m \in Machine : h[k][m] + t[k + 1][m] <= E
      PROVE  \A m \in Machine : Fits(k, m)
  <2> DEFINE Q == {i \in 0 .. M - 1 : Fits(k, i + 1)}
  <2>1. M - 1 \in Q
    <3>1. M \in Machine /\ t[k][M] = t[k + 1][M] + ptm[M][s[k]]
      BY <1>0, TailsGrow
    <3>2. h[k][M] + t[k + 1][M] <= E
      BY <1>3, <3>1
    <3>3. h[k][M] \in Nat /\ t[k + 1][M] \in Nat /\ ptm[M][s[k]] \in Nat /\ E \in Nat
      <4> HIDE DEF E, n
      <4> QED BY <1>0, <1>1, <1>2, <3>1
    <3>4. Fits(k, M)
      <4> HIDE DEF M, E
      <4> QED BY <3>1, <3>2, <3>3
    <3>5. (M - 1) + 1 = M /\ M - 1 \in 0 .. M - 1
      BY <1>0
    <3> HIDE DEF Fits, M
    <3> QED BY <3>4, <3>5
  <2>2. ASSUME NEW i \in 1 .. M - 1, i \in Q PROVE i - 1 \in Q
    <3>1. i \in Machine /\ i + 1 \in Machine /\ i < M /\ i # M /\ i + 1 >= 2 /\ (i + 1) - 1 = i
          /\ (i - 1) + 1 = i /\ i - 1 \in 0 .. M - 1 /\ i + 1 # 1 /\ i \in Nat
      BY <1>0
    <3>2. t[k][i] = Larger(t[k + 1][i], t[k][i + 1]) + ptm[i][s[k]]
      BY <3>1, TailsGrow
    <3>3. h[k][i] + ptm[i + 1][s[k]] <= h[k][i + 1]
      <4>1. \A m \in Machine : m >= 2 => h[k][m - 1] + ptm[m][s[k]] <= h[k][m]
        BY HeadsGrow
      <4>2. h[k][(i + 1) - 1] + ptm[i + 1][s[k]] <= h[k][i + 1]
        BY <3>1, <4>1
      <4> QED BY <3>1, <4>2
    <3>4. h[k][i + 1] + t[k][i + 1] <= E + ptm[i + 1][s[k]]
      BY <2>2
    <3>5. h[k][i] + t[k + 1][i] <= E
      BY <1>3, <3>1
    <3>6. /\ h[k][i] \in Nat /\ t[k][i] \in Nat /\ t[k + 1][i] \in Nat /\ ptm[i][s[k]] \in Nat
          /\ h[k][i + 1] \in Nat /\ t[k][i + 1] \in Nat /\ ptm[i + 1][s[k]] \in Nat /\ E \in Nat
      BY <1>0, <1>1, <1>2, <3>1
    <3>7. Fits(k, i)
      <4>1. CASE t[k][i] = t[k + 1][i] + ptm[i][s[k]]
        <5>0. \A a, b, c, e \in Nat : a + b <= e => a + (b + c) <= e + c
          OBVIOUS
        <5>1. h[k][i] + (t[k + 1][i] + ptm[i][s[k]]) <= E + ptm[i][s[k]]
          <6> HIDE DEF E
          <6> QED BY <3>5, <3>6, <5>0
        <5> QED BY <4>1, <5>1
      <4>2. CASE t[k][i] = t[k][i + 1] + ptm[i][s[k]]
        <5>0. \A a, b, c, d, e, x \in Nat :
                a + d <= b /\ b + x <= e + d => a + (x + c) <= e + c
          OBVIOUS
        <5>1. h[k][i] + (t[k][i + 1] + ptm[i][s[k]]) <= E + ptm[i][s[k]]
          <6> HIDE DEF E
          <6> QED BY <3>3, <3>4, <3>6, <5>0
        <5> QED BY <4>2, <5>1
      <4> QED BY <3>2, <4>1, <4>2 DEF Larger
    <3> HIDE DEF Fits, M
    <3> QED BY <3>1, <3>7
  <2>3. \A i \in 0 .. M - 1 : i \in Q
    <3>1. M - 1 \in Nat
      BY <1>0
    <3> HIDE DEF Q, M
    <3> QED BY <2>1, <2>2, <3>1, DownTo
  <2>4. ASSUME NEW m \in Machine PROVE Fits(k, m)
    <3>1. m - 1 \in 0 .. M - 1 /\ (m - 1) + 1 = m
      BY <1>0
    <3>2. Fits(k, (m - 1) + 1)
      <4> HIDE DEF Fits, M
      <4> QED BY <2>3, <3>1
    <3> HIDE DEF Fits
    <3> QED BY <3>1, <3>2
  <2> HIDE DEF Fits
  <2> QED BY <2>4
<1>4. \A m \in Machine : t[n + 1][m] = 0
  BY DEF TailsOf, NoTime
<1>5. n \in S
  <2> SUFFICES ASSUME n >= 1 PROVE \A m \in Machine : Fits(n, m)
    BY <1>0
  <2>1. ASSUME NEW m \in Machine PROVE h[n][m] <= E
    <3> DEFINE Q == {i \in 0 .. M - 1 : h[n][i + 1] <= E}
    <3>0. n \in 1 .. n
      BY <1>0
    <3>1. M - 1 \in Q
      BY <1>0, <1>2, <3>0
    <3>2. ASSUME NEW i \in 1 .. M - 1, i \in Q PROVE i - 1 \in Q
      <4>1. i \in Machine /\ i + 1 \in Machine /\ i + 1 >= 2 /\ (i + 1) - 1 = i
            /\ (i - 1) + 1 = i /\ i - 1 \in 0 .. M - 1
        BY <1>0
      <4>2. \A mm \in Machine : mm >= 2 => h[n][mm - 1] + ptm[mm][s[n]] <= h[n][mm]
        BY <3>0, HeadsGrow
      <4>3. h[n][i] + ptm[i + 1][s[n]] <= h[n][i + 1]
        BY <4>1, <4>2
      <4>4. h[n][i] \in Nat /\ h[n][i + 1] \in Nat /\ ptm[i + 1][s[n]] \in Nat /\ E \in Nat
            /\ h[n][i + 1] <= E
        BY <1>0, <1>1, <1>2, <3>0, <3>2, <4>1
      <4>5. h[n][i] <= E
        <5> HIDE DEF E
        <5> QED BY <4>3, <4>4
      <4> QED BY <4>1, <4>5
    <3>3. \A i \in 0 .. M - 1 : i \in Q
      <4>1. M - 1 \in Nat
        BY <1>0
      <4> HIDE DEF Q, M
      <4> QED BY <3>1, <3>2, <4>1, DownTo
    <3>4. m - 1 \in 0 .. M - 1 /\ (m - 1) + 1 = m
      BY <1>0
    <3> QED BY <3>3, <3>4
  <2>2. ASSUME NEW m \in Machine PROVE h[n][m] + t[n + 1][m] <= E
    BY <1>1, <1>4, <2>1
  <2> HIDE DEF Fits
  <2> QED BY <1>0, <1>3, <2>2
<1>6. ASSUME NEW k \in 1 .. n, k \in S PROVE k - 1 \in S
  <2> SUFFICES ASSUME k - 1 >= 1 PROVE \A m \in Machine : Fits(k - 1, m)
    BY <1>0
  <2>1. k - 1 \in 1 .. n /\ (k - 1) + 1 = k
    BY <1>0
  <2>2. ASSUME NEW m \in Machine PROVE h[k - 1][m] + t[k][m] <= E
    <3>1. h[k - 1][m] + ptm[m][s[k]] <= h[k][m]
      BY HeadsGrow
    <3>2. h[k][m] + t[k][m] <= E + ptm[m][s[k]]
      BY <1>6
    <3>3. h[k - 1][m] \in Nat /\ h[k][m] \in Nat /\ t[k][m] \in Nat /\ ptm[m][s[k]] \in Nat /\ E \in Nat
      <4>1. k - 1 \in 0 .. Len(s) /\ m \in Machine
        BY <2>1
      <4>2. h[k - 1][m] \in Nat
        BY <4>1, HeadsGrow
      <4> HIDE DEF E, n
      <4> QED BY <1>1, <1>2, <4>2
    <3> HIDE DEF E
    <3> QED BY <3>1, <3>2, <3>3
  <2> HIDE DEF Fits
  <2> QED BY <1>3, <2>1, <2>2
<1>7. \A k \in 0 .. n : k \in S
  <2> HIDE DEF S, n
  <2> QED BY <1>0, <1>5, <1>6, UpTo, DownTo
<1>8. ASSUME NEW k \in 1 .. n PROVE \A m \in Machine : Fits(k, m)
  <2>1. k \in 0 .. n /\ k >= 1
    OBVIOUS
  <2> HIDE DEF Fits, n
  <2> QED BY <1>7, <2>1
<1> QED BY <1>8

-----------------------------------------------------------------------------
(* Sums over jobs *)

\* The sum of w over a set of jobs.
Total(w, S) ==
  LET u[k \in 0 .. nbJob] ==
        IF k = 0 THEN 0 ELSE u[k - 1] + (IF k - 1 \in S THEN w[k - 1] ELSE 0)
  IN u[nbJob]

\* u has the sums over the jobs below k.
Adds(u, w, S) ==
  /\ u \in [0 .. nbJob -> Nat]
  /\ u[0] = 0
  /\ \A k \in 1 .. nbJob : u[k] = u[k - 1] + (IF k - 1 \in S THEN w[k - 1] ELSE 0)

\* Total adds up the jobs one by one.
LEMMA TotalOf ==
  ASSUME NEW w, \A j \in Job : w[j] \in Nat, NEW S
  PROVE  \E u : Adds(u, w, S) /\ Total(w, S) = u[nbJob]
<1> DEFINE n == nbJob
           zero == 0
           add(k) == IF k - 1 \in S THEN w[k - 1] ELSE 0
           g == [x \in (1 .. n) \X Nat |-> x[2] + add(x[1])]
           step(u) == [k \in 0 .. n |-> IF k = 0 THEN 0
                                        ELSE u[k - 1] + (IF k - 1 \in S THEN w[k - 1] ELSE 0)]
<1>0. n \in Nat
  BY Sizes
<1>1. \A k \in 1 .. n : add(k) \in Nat
  BY Sizes
<1>2. g \in [(1 .. n) \X Nat -> Nat]
  <2> HIDE DEF add
  <2> QED BY <1>1
<1>3. PICK f \in [0 .. n -> Nat] : f = [k \in 0 .. n |-> IF k = 0 THEN zero ELSE g[<<k, f[k - 1]>>]]
  <2> DEFINE D == Nat
  <2>1. zero \in D /\ n \in Nat /\ g \in [(1 .. n) \X D -> D]
    BY <1>0, <1>2
  <2> HIDE DEF g, zero, n, D
  <2>2. \E f \in [0 .. n -> D] : Recurs(f, n, zero, g)
    BY <2>1, Recursive
  <2> QED BY <2>2 DEF D, Recurs
<1>4. f = step(f)
  <2>1. ASSUME NEW k \in 0 .. n, k # 0
        PROVE  g[<<k, f[k - 1]>>] = f[k - 1] + add(k)
    <3>1. k \in 1 .. n /\ f[k - 1] \in Nat
      BY <1>0, <2>1
    <3> HIDE DEF add
    <3> QED BY <3>1
  <2>2. step(f) = [k \in 0 .. n |-> IF k = 0 THEN zero ELSE g[<<k, f[k - 1]>>]]
    <3> HIDE DEF g
    <3> QED BY <2>1
  <2> QED BY <1>3, <2>2
<1>5. PICK u : u = step(u) /\ Total(w, S) = u[n]
  BY <1>4 DEF Total
<1>6. \A k \in 0 .. n : u[k] = IF k = 0 THEN 0 ELSE u[k - 1] + add(k)
  BY <1>5
<1>7. \A k \in 0 .. n : k \in {i \in 0 .. n : u[i] \in Nat}
  <2> DEFINE T == {i \in 0 .. n : u[i] \in Nat}
  <2>1. 0 \in T
    BY <1>0, <1>6
  <2>2. ASSUME NEW k \in 0 .. n - 1, k \in T PROVE k + 1 \in T
    <3>1. k + 1 \in 1 .. n /\ k + 1 \in 0 .. n /\ (k + 1) - 1 = k /\ k + 1 # 0
      BY <1>0
    <3>2. u[k + 1] = u[k] + add(k + 1) /\ u[k] \in Nat /\ add(k + 1) \in Nat
      <4> HIDE DEF add
      <4> QED BY <1>1, <1>6, <2>2, <3>1
    <3> HIDE DEF add
    <3> QED BY <3>1, <3>2
  <2> HIDE DEF T
  <2> QED BY <1>0, <2>1, <2>2, UpTo DEF T
<1>8. u \in [0 .. n -> Nat]
  BY <1>5, <1>7
<1>9. Adds(u, w, S)
  BY <1>0, <1>6, <1>8 DEF Adds
<1> QED BY <1>5, <1>9

\* A sum of natural numbers is one.
LEMMA TotalType ==
  ASSUME NEW w, \A j \in Job : w[j] \in Nat, NEW S
  PROVE  Total(w, S) \in Nat
<1>1. PICK u : Adds(u, w, S) /\ Total(w, S) = u[nbJob]
  BY TotalOf
<1>2. nbJob \in 0 .. nbJob
  BY Sizes
<1> QED BY <1>1, <1>2 DEF Adds

\* There is nothing to add up for no jobs.
LEMMA TotalEmpty ==
  ASSUME NEW w, \A j \in Job : w[j] \in Nat
  PROVE  Total(w, {}) = 0
<1>1. PICK u : Adds(u, w, {}) /\ Total(w, {}) = u[nbJob]
  BY TotalOf
<1> DEFINE T == {k \in 0 .. nbJob : u[k] = 0}
<1>2. 0 \in T
  BY <1>1, Sizes DEF Adds
<1>3. ASSUME NEW k \in 0 .. nbJob - 1, k \in T PROVE k + 1 \in T
  <2>1. k + 1 \in 1 .. nbJob /\ (k + 1) - 1 = k
    BY Sizes
  <2>2. u[k + 1] = u[k] + (IF k \in {} THEN w[k] ELSE 0)
    BY <1>1, <2>1 DEF Adds
  <2> QED BY <1>3, <2>1, <2>2
<1>4. nbJob \in T
  <2> HIDE DEF T
  <2>1. nbJob \in Nat
    BY Sizes
  <2>2. \A k \in 0 .. nbJob : k \in T
    BY <1>2, <1>3, <2>1, UpTo
  <2> QED BY <2>1, <2>2
<1> QED BY <1>1, <1>4

\* The sums over two sets of jobs that share none.
LEMMA TotalUnion ==
  ASSUME NEW w, \A j \in Job : w[j] \in Nat, NEW S, NEW R, S \cap R = {}
  PROVE  Total(w, S \cup R) = Total(w, S) + Total(w, R)
<1>1. PICK u : Adds(u, w, S) /\ Total(w, S) = u[nbJob]
  BY TotalOf
<1>2. PICK v : Adds(v, w, R) /\ Total(w, R) = v[nbJob]
  BY TotalOf
<1>3. PICK x : Adds(x, w, S \cup R) /\ Total(w, S \cup R) = x[nbJob]
  <2> DEFINE Q == S \cup R
  <2> HIDE DEF Q
  <2>1. \E x : Adds(x, w, Q) /\ Total(w, Q) = x[nbJob]
    BY TotalOf
  <2> QED BY <2>1 DEF Q
<1> DEFINE T == {k \in 0 .. nbJob : x[k] = u[k] + v[k]}
<1>4. 0 \in T
  BY <1>1, <1>2, <1>3, Sizes DEF Adds
<1>5. ASSUME NEW k \in 0 .. nbJob - 1, k \in T PROVE k + 1 \in T
  <2>1. k + 1 \in 1 .. nbJob /\ k + 1 \in 0 .. nbJob /\ (k + 1) - 1 = k /\ k \in Job /\ k \in 0 .. nbJob
    BY Sizes
  <2>2. u[k + 1] = u[k] + (IF k \in S THEN w[k] ELSE 0)
    BY <1>1, <2>1 DEF Adds
  <2>3. v[k + 1] = v[k] + (IF k \in R THEN w[k] ELSE 0)
    BY <1>2, <2>1 DEF Adds
  <2>4. x[k + 1] = x[k] + (IF k \in S \cup R THEN w[k] ELSE 0)
    BY <1>3, <2>1 DEF Adds
  <2>5. u[k] \in Nat /\ v[k] \in Nat /\ w[k] \in Nat /\ x[k] = u[k] + v[k]
    BY <1>1, <1>2, <1>5, <2>1 DEF Adds
  <2>6. x[k + 1] = u[k + 1] + v[k + 1]
    <3>1. CASE k \in S
      <4>1. k \notin R
        BY <3>1
      <4> QED BY <2>2, <2>3, <2>4, <2>5, <3>1, <4>1
    <3>2. CASE k \notin S /\ k \in R
      BY <2>2, <2>3, <2>4, <2>5, <3>2
    <3>3. CASE k \notin S /\ k \notin R
      BY <2>2, <2>3, <2>4, <2>5, <3>3
    <3> QED BY <3>1, <3>2, <3>3
  <2> QED BY <2>1, <2>6
<1>6. nbJob \in T
  <2> HIDE DEF T
  <2>1. nbJob \in Nat
    BY Sizes
  <2>2. \A k \in 0 .. nbJob : k \in T
    BY <1>4, <1>5, <2>1, UpTo
  <2> QED BY <2>1, <2>2
<1> QED BY <1>1, <1>2, <1>3, <1>6

\* The sum over a single job.
LEMMA TotalOne ==
  ASSUME NEW w, \A j \in Job : w[j] \in Nat, NEW j \in Job
  PROVE  Total(w, {j}) = w[j]
<1>1. PICK u : Adds(u, w, {j}) /\ Total(w, {j}) = u[nbJob]
  BY TotalOf
<1> DEFINE T == {k \in 0 .. nbJob : u[k] = IF k > j THEN w[j] ELSE 0}
<1>0. nbJob \in Nat /\ j \in Nat /\ j < nbJob /\ w[j] \in Nat
  BY Sizes
<1>2. 0 \in T
  BY <1>0, <1>1 DEF Adds
<1>3. ASSUME NEW k \in 0 .. nbJob - 1, k \in T PROVE k + 1 \in T
  <2>1. k + 1 \in 1 .. nbJob /\ (k + 1) - 1 = k
    BY <1>0
  <2>2. u[k + 1] = u[k] + (IF k \in {j} THEN w[k] ELSE 0)
    BY <1>1, <2>1 DEF Adds
  <2>3. u[k] = IF k > j THEN w[j] ELSE 0
    BY <1>3
  <2>4. u[k + 1] = IF k + 1 > j THEN w[j] ELSE 0
    <3>1. CASE k = j
      BY <1>0, <2>2, <2>3, <3>1
    <3>2. CASE k > j
      BY <1>0, <2>2, <2>3, <3>2
    <3>3. CASE k < j
      BY <1>0, <2>2, <2>3, <3>3
    <3> QED BY <1>0, <3>1, <3>2, <3>3
  <2> QED BY <2>1, <2>4
<1>4. nbJob \in T
  <2> HIDE DEF T
  <2>2. \A k \in 0 .. nbJob : k \in T
    BY <1>0, <1>2, <1>3, UpTo
  <2> QED BY <1>0, <2>2
<1> QED BY <1>0, <1>1, <1>4

\* Smaller numbers have a smaller sum.
LEMMA TotalAtMost ==
  ASSUME NEW v, NEW w, \A j \in Job : v[j] \in Nat /\ w[j] \in Nat, NEW S,
         \A j \in Job : j \in S => v[j] <= w[j]
  PROVE  Total(v, S) <= Total(w, S)
<1>1. PICK u : Adds(u, w, S) /\ Total(w, S) = u[nbJob]
  BY TotalOf
<1>2. PICK x : Adds(x, v, S) /\ Total(v, S) = x[nbJob]
  BY TotalOf
<1> DEFINE T == {k \in 0 .. nbJob : x[k] <= u[k]}
<1>4. 0 \in T
  BY <1>1, <1>2, Sizes DEF Adds
<1>5. ASSUME NEW k \in 0 .. nbJob - 1, k \in T PROVE k + 1 \in T
  <2>1. k + 1 \in 1 .. nbJob /\ k + 1 \in 0 .. nbJob /\ (k + 1) - 1 = k /\ k \in Job /\ k \in 0 .. nbJob
    BY Sizes
  <2>2. u[k + 1] = u[k] + (IF k \in S THEN w[k] ELSE 0)
    BY <1>1, <2>1 DEF Adds
  <2>3. x[k + 1] = x[k] + (IF k \in S THEN v[k] ELSE 0)
    BY <1>2, <2>1 DEF Adds
  <2>4. u[k] \in Nat /\ x[k] \in Nat /\ w[k] \in Nat /\ v[k] \in Nat /\ x[k] <= u[k]
    BY <1>1, <1>2, <1>5, <2>1 DEF Adds
  <2>5. x[k + 1] <= u[k + 1]
    BY <2>1, <2>2, <2>3, <2>4
  <2> QED BY <2>1, <2>5
<1>6. nbJob \in T
  <2> HIDE DEF T
  <2>1. nbJob \in Nat
    BY Sizes
  <2>2. \A k \in 0 .. nbJob : k \in T
    BY <1>4, <1>5, <2>1, UpTo
  <2> QED BY <2>1, <2>2
<1> QED BY <1>1, <1>2, <1>6

\* One job more ...
LEMMA TotalAdd ==
  ASSUME NEW w, \A j \in Job : w[j] \in Nat, NEW S, NEW j \in Job, j \notin S
  PROVE  Total(w, S \cup {j}) = Total(w, S) + w[j]
<1>1. S \cap {j} = {}
  OBVIOUS
<1>2. Total(w, S \cup {j}) = Total(w, S) + Total(w, {j})
  BY <1>1, TotalUnion
<1> QED BY <1>2, TotalOne

\* ... and one job less.
LEMMA TotalRemove ==
  ASSUME NEW w, \A j \in Job : w[j] \in Nat, NEW S, NEW j \in S, j \in Job
  PROVE  Total(w, S) = Total(w, S \ {j}) + w[j]
<1>1. S = (S \ {j}) \cup {j} /\ j \notin S \ {j}
  OBVIOUS
<1>2. Total(w, (S \ {j}) \cup {j}) = Total(w, S \ {j}) + w[j]
  BY <1>1, TotalAdd
<1> QED BY <1>1, <1>2

\* The jobs at the positions from a to b of a list.
Between(s, a, b) == {s[i] : i \in a .. b}

\* A list without repetitions, as functions of its positions.
Distinct(s) == s \in Seq(Job) /\ \A i, j \in 1 .. Len(s) : s[i] = s[j] => i = j

\* The first or the last one of them apart.
LEMMA BetweenGrows ==
  ASSUME NEW s, Distinct(s), NEW a \in 1 .. Len(s), NEW b \in a .. Len(s)
  PROVE  /\ Between(s, a, b) = Between(s, a + 1, b) \cup {s[a]} /\ s[a] \notin Between(s, a + 1, b)
         /\ Between(s, a, b) = Between(s, a, b - 1) \cup {s[b]} /\ s[b] \notin Between(s, a, b - 1)
         /\ s[a] \in Job /\ s[b] \in Job
<1>1. s \in Seq(Job) /\ Len(s) \in Nat /\ a \in Nat /\ b \in Nat /\ a <= b
      /\ a \in 1 .. Len(s) /\ b \in 1 .. Len(s)
  BY DEF Distinct
<1>2. s[a] \in Job /\ s[b] \in Job
  BY <1>1
<1>3. Between(s, a, b) = Between(s, a + 1, b) \cup {s[a]}
  <2>1. a .. b = (a + 1 .. b) \cup {a}
    BY <1>1
  <2> QED BY <2>1 DEF Between
<1>4. Between(s, a, b) = Between(s, a, b - 1) \cup {s[b]}
  <2>1. a .. b = (a .. b - 1) \cup {b}
    BY <1>1
  <2> QED BY <2>1 DEF Between
<1>5. s[a] \notin Between(s, a + 1, b)
  <2> SUFFICES ASSUME NEW i \in a + 1 .. b, s[i] = s[a] PROVE FALSE
    BY DEF Between
  <2>1. i \in 1 .. Len(s) /\ i # a
    BY <1>1
  <2> QED BY <1>1, <2>1 DEF Distinct
<1>6. s[b] \notin Between(s, a, b - 1)
  <2> SUFFICES ASSUME NEW i \in a .. b - 1, s[i] = s[b] PROVE FALSE
    BY DEF Between
  <2>1. i \in 1 .. Len(s) /\ i # b
    BY <1>1
  <2> QED BY <1>1, <2>1 DEF Distinct
<1> QED BY <1>2, <1>3, <1>4, <1>5, <1>6

\* Between two jobs of the list, a machine does all the work there is.
LEMMA WorkBetween ==
  ASSUME ptm \in Instances, NEW s, Distinct(s), NEW h, HeadsOf(h, s),
         NEW m \in Machine, NEW a \in 0 .. Len(s), NEW b \in a .. Len(s)
  PROVE  h[a][m] + Total(ptm[m], Between(s, a + 1, b)) <= h[b][m]
<1> DEFINE n == b - a
           W(k) == Total(ptm[m], Between(s, a + 1, a + k))
           T == {k \in 0 .. n : h[a][m] + W(k) <= h[a + k][m]}
<1>0. n \in Nat /\ Len(s) \in Nat /\ a \in Nat /\ b \in Nat /\ b <= Len(s) /\ s \in Seq(Job)
  BY DEF Distinct
<1>1. \A j \in Job : ptm[m][j] \in Nat
  BY Durations
<1>2. \A k \in 0 .. Len(s) : h[k][m] \in Nat
  BY <1>0, HeadsGrow
<1>3. 0 \in T
  <2>1. Between(s, a + 1, a + 0) = {}
    BY <1>0 DEF Between
  <2>2. W(0) = 0
    BY <1>1, <2>1, TotalEmpty
  <2>3. h[a][m] \in Nat
    BY <1>2
  <2> HIDE DEF W
  <2> QED BY <1>0, <2>2, <2>3
<1>4. ASSUME NEW k \in 0 .. n - 1, k \in T PROVE k + 1 \in T
  <2>0. k \in Nat /\ a + k \in Nat /\ (a + k) + 1 = a + (k + 1) /\ k + 1 \in 0 .. n
        /\ a + k \in 0 .. Len(s) /\ a + (k + 1) \in 1 .. Len(s) /\ a + (k + 1) \in 0 .. Len(s) /\ (a + (k + 1)) - 1 = a + k
        /\ a + 1 \in 1 .. Len(s) /\ a + (k + 1) \in a + 1 .. Len(s)
    BY <1>0
  <2> DEFINE e == a + (k + 1)
             j == s[e]
             S == Between(s, a + 1, e - 1)
  <2>1. Between(s, a + 1, e) = S \cup {j} /\ j \notin S /\ j \in Job
    <3> HIDE DEF e
    <3> QED BY <2>0, BetweenGrows DEF e
  <2>2. Total(ptm[m], S \cup {j}) = Total(ptm[m], S) + ptm[m][j]
    <3> HIDE DEF S, j
    <3> QED BY <1>1, <2>1, TotalAdd
  <2>3. e - 1 = a + k
    BY <2>0
  <2>4. W(k + 1) = W(k) + ptm[m][j]
    BY <2>0, <2>1, <2>2, <2>3
  <2>5. h[a + k][m] + ptm[m][j] <= h[e][m]
    <3>1. h[e - 1][m] + ptm[m][s[e]] <= h[e][m]
      <4> HIDE DEF e
      <4> QED BY <1>0, <2>0, HeadsGrow DEF e
    <3> QED BY <2>3, <3>1
  <2>6. h[a][m] + W(k) <= h[a + k][m]
    BY <1>4
  <2>7. W(k) \in Nat
    BY <1>1, TotalType
  <2>8. h[a][m] \in Nat /\ h[a + k][m] \in Nat /\ h[e][m] \in Nat /\ ptm[m][j] \in Nat
    BY <1>0, <1>1, <1>2, <2>0, <2>1
  <2>9. \A x, y, z, u, v \in Nat : x + y <= z /\ z + u <= v => x + (y + u) <= v
    OBVIOUS
  <2>10. h[a][m] + W(k + 1) <= h[a + (k + 1)][m]
    <3>1. h[a][m] + (W(k) + ptm[m][j]) <= h[e][m]
      <4> HIDE DEF W, j, e
      <4> QED BY <2>5, <2>6, <2>7, <2>8, <2>9
    <3> HIDE DEF W, j
    <3> QED BY <2>4, <3>1
  <2> HIDE DEF W
  <2> QED BY <2>0, <2>10
<1>5. n \in T
  <2> HIDE DEF T, n
  <2>1. \A k \in 0 .. n : k \in T
    BY <1>0, <1>3, <1>4, UpTo
  <2> QED BY <1>0, <2>1
<1>6. a + n = b
  BY <1>0
<1> QED BY <1>5, <1>6

\* sumUnscheduled
LEMMA SumUnscheduledOf ==
  ASSUME ptm \in Instances, NEW s, Distinct(s), NEW m \in Machine
  PROVE  sumUnscheduled(s)[m] = Total(ptm[m], Range(s))
<1> DEFINE n == Len(s)
           zero == 0
           D == Nat
           g == [x \in (1 .. n) \X D |-> x[2] + ptm[m][s[x[1]]]]
           step(w) == [k \in 0 .. n |-> IF k = 0 THEN 0 ELSE w[k - 1] + ptm[m][s[k]]]
<1>0. n \in Nat /\ s \in Seq(Job) /\ \A k \in 1 .. n : s[k] \in Job
  BY DEF Distinct
<1>1. \A j \in Job : ptm[m][j] \in Nat
  BY Durations
<1>2. g \in [(1 .. n) \X D -> D]
  <2> HIDE DEF n
  <2> QED BY <1>0, <1>1
<1>3. PICK f \in [0 .. n -> D] : Recurs(f, n, zero, g)
  <2>1. zero \in D
    OBVIOUS
  <2> HIDE DEF g, zero, n, D
  <2> QED BY <1>0, <1>2, <2>1, Recursive
<1>4. f = step(f)
  <2>1. ASSUME NEW k \in 0 .. n, k # 0
        PROVE  g[<<k, f[k - 1]>>] = f[k - 1] + ptm[m][s[k]]
    <3>1. k \in 1 .. n /\ f[k - 1] \in D
      <4> HIDE DEF n
      <4> QED BY <1>0, <2>1
    <3> HIDE DEF n
    <3> QED BY <3>1
  <2>2. step(f) = [k \in 0 .. n |-> IF k = 0 THEN zero ELSE g[<<k, f[k - 1]>>]]
    <3> HIDE DEF g, n
    <3> QED BY <2>1
  <2> QED BY <1>3, <2>2 DEF Recurs
<1>5. PICK w : w = step(w) /\ sumUnscheduled(s)[m] = w[n]
  BY <1>4 DEF sumUnscheduled
<1>6. \A k \in 0 .. n : w[k] = IF k = 0 THEN 0 ELSE w[k - 1] + ptm[m][s[k]]
  <2> HIDE DEF n
  <2> QED BY <1>5
<1> DEFINE T == {k \in 0 .. n : w[k] = Total(ptm[m], Between(s, 1, k))}
<1>7. 0 \in T
  <2>1. Between(s, 1, 0) = {}
    BY DEF Between
  <2>2. w[0] = 0
    BY <1>0, <1>6
  <2>3. Total(ptm[m], {}) = 0
    BY <1>1, TotalEmpty
  <2>4. w[0] = Total(ptm[m], Between(s, 1, 0))
    BY <2>1, <2>2, <2>3
  <2>5. 0 \in 0 .. n
    BY <1>0
  <2> HIDE DEF n
  <2> QED BY <2>4, <2>5
<1>8. ASSUME NEW k \in 0 .. n - 1, k \in T PROVE k + 1 \in T
  <2>1. k + 1 \in 1 .. n /\ k + 1 \in 0 .. n /\ (k + 1) - 1 = k /\ k + 1 # 0 /\ 1 \in 1 .. n
    BY <1>0
  <2> DEFINE S == Between(s, 1, k)
             e == k + 1
             j == s[e]
  <2>2. Between(s, 1, e) = Between(s, 1, e - 1) \cup {j} /\ j \notin Between(s, 1, e - 1) /\ j \in Job
    <3>1. e \in 1 .. Len(s) /\ 1 \in 1 .. Len(s)
      BY <2>1
    <3> HIDE DEF e
    <3> QED BY <3>1, BetweenGrows
  <2>3. Total(ptm[m], S \cup {j}) = Total(ptm[m], S) + ptm[m][j] /\ Between(s, 1, k + 1) = S \cup {j}
    <3>1. j \notin S /\ j \in Job /\ Between(s, 1, k + 1) = S \cup {j}
      BY <2>1, <2>2
    <3> HIDE DEF S, j
    <3> QED BY <1>1, <3>1, TotalAdd
  <2>4. w[k + 1] = w[k] + ptm[m][s[k + 1]]
    <3> HIDE DEF n
    <3> QED BY <1>6, <2>1
  <2>5. w[k] = Total(ptm[m], S)
    BY <1>8
  <2> HIDE DEF S
  <2> QED BY <2>1, <2>3, <2>4, <2>5
<1>9. n \in T
  <2> HIDE DEF T, n
  <2>1. \A k \in 0 .. n : k \in T
    BY <1>0, <1>7, <1>8, UpTo
  <2> QED BY <1>0, <2>1
<1>10. Range(s) = Between(s, 1, n)
  <2>1. DOMAIN s = 1 .. n
    BY <1>0
  <2> QED BY <2>1 DEF Range, Between
<1> QED BY <1>5, <1>9, <1>10

-----------------------------------------------------------------------------
(* The times before and after a job *)

\* The time that a job spends on the machines from a to b, one by one.
LEMMA ThroughOf ==
  ASSUME ptm \in Instances, NEW j \in Job, NEW a \in 1 .. nbMachines + 1,
         NEW b \in a - 1 .. nbMachines
  PROVE  \E w \in [a - 1 .. b -> Nat] :
           /\ w[a - 1] = 0
           /\ \A m \in a .. b : w[m] = w[m - 1] + ptm[m][j]
           /\ Through(ptm, j, a, b) = w[b]
<1> DEFINE n == b - (a - 1)
           zero == 0
           D == Nat
           g == [x \in (1 .. n) \X D |-> x[2] + ptm[(a - 1) + x[1]][j]]
           step(w) == [m \in a - 1 .. b |-> IF m < a THEN 0 ELSE w[m - 1] + ptm[m][j]]
<1>0. /\ n \in Nat /\ a \in Nat /\ b \in Int /\ a - 1 \in Nat /\ a - 1 <= b /\ b <= nbMachines
      /\ nbMachines \in Nat /\ 1 <= a
  BY Sizes
<1>1. \A m \in a .. b : ptm[m][j] \in Nat
  BY <1>0, Durations, Sizes
<1>2. g \in [(1 .. n) \X D -> D]
  <2>1. \A k \in 1 .. n : (a - 1) + k \in a .. b
    BY <1>0
  <2> QED BY <1>1, <2>1
<1>3. PICK f \in [0 .. n -> D] : Recurs(f, n, zero, g)
  <2>1. zero \in D
    OBVIOUS
  <2> HIDE DEF g, zero, n, D
  <2> QED BY <1>0, <1>2, <2>1, Recursive
<1> DEFINE e == [m \in a - 1 .. b |-> f[m - (a - 1)]]
<1>4. e = step(e)
  <2>1. ASSUME NEW m \in a - 1 .. b
        PROVE  e[m] = IF m < a THEN 0 ELSE e[m - 1] + ptm[m][j]
    <3>1. CASE m < a
      <4>1. m - (a - 1) = 0
        BY <1>0, <3>1
      <4>2. f[0] = 0
        BY <1>0, <1>3 DEF Recurs
      <4> QED BY <3>1, <4>1, <4>2
    <3>2. CASE ~(m < a)
      <4> DEFINE k == m - (a - 1)
      <4>1. k \in 1 .. n /\ k \in 0 .. n /\ k # 0 /\ (m - 1) - (a - 1) = k - 1 /\ (a - 1) + k = m
            /\ m - 1 \in a - 1 .. b /\ k - 1 \in 0 .. n
        BY <1>0, <3>2
      <4>2. f[k] = g[<<k, f[k - 1]>>] /\ f[k - 1] \in D
        <5> HIDE DEF g, n, k
        <5> QED BY <1>3, <4>1 DEF Recurs
      <4>3. \A i \in 1 .. n : \A x \in D : g[<<i, x>>] = x + ptm[(a - 1) + i][j]
        OBVIOUS
      <4>4. f[k] = f[k - 1] + ptm[m][j]
        <5> HIDE DEF g, n, k
        <5> QED BY <4>1, <4>2, <4>3
      <4>5. e[m] = f[k] /\ e[m - 1] = f[k - 1]
        <5> HIDE DEF n
        <5> QED BY <4>1
      <4> HIDE DEF e, k
      <4> QED BY <3>2, <4>4, <4>5
    <3> QED BY <3>1, <3>2
  <2>2. e = [m \in a - 1 .. b |-> e[m]]
    OBVIOUS
  <2> HIDE DEF e
  <2> QED BY <2>1, <2>2
<1> HIDE DEF e
<1>5. PICK w : w = step(w) /\ Through(ptm, j, a, b) = (IF b < a THEN 0 ELSE w[b])
  BY <1>4 DEF Through
<1>6. \A m \in a - 1 .. b : w[m] = IF m < a THEN 0 ELSE w[m - 1] + ptm[m][j]
  BY <1>5
<1>7. w[a - 1] = 0
  BY <1>0, <1>6
<1>8. \A m \in a .. b : w[m] = w[m - 1] + ptm[m][j]
  BY <1>0, <1>6
<1>9. \A k \in 0 .. n : k \in {i \in 0 .. n : w[(a - 1) + i] \in Nat}
  <2> DEFINE T == {i \in 0 .. n : w[(a - 1) + i] \in Nat}
  <2>1. 0 \in T
    BY <1>0, <1>7
  <2>2. ASSUME NEW k \in 0 .. n - 1, k \in T PROVE k + 1 \in T
    <3>1. (a - 1) + (k + 1) \in a .. b /\ ((a - 1) + (k + 1)) - 1 = (a - 1) + k /\ k + 1 \in 0 .. n
      BY <1>0
    <3>2. w[(a - 1) + (k + 1)] = w[(a - 1) + k] + ptm[(a - 1) + (k + 1)][j]
      BY <1>8, <3>1
    <3>3. w[(a - 1) + k] \in Nat /\ ptm[(a - 1) + (k + 1)][j] \in Nat
      BY <1>1, <2>2, <3>1
    <3>4. w[(a - 1) + (k + 1)] \in Nat
      BY <3>2, <3>3
    <3> QED BY <3>1, <3>4
  <2> HIDE DEF T, n
  <2> QED BY <1>0, <2>1, <2>2, UpTo DEF T
<1>10. w \in [a - 1 .. b -> Nat]
  <2>1. ASSUME NEW m \in a - 1 .. b PROVE w[m] \in Nat
    <3>1. m - (a - 1) \in 0 .. n /\ (a - 1) + (m - (a - 1)) = m
      BY <1>0
    <3>2. w[(a - 1) + (m - (a - 1))] \in Nat
      <4> HIDE DEF n
      <4> QED BY <1>9, <3>1
    <3> QED BY <3>1, <3>2
  <2> QED BY <1>5, <2>1
<1>11. Through(ptm, j, a, b) = w[b]
  <2>1. CASE b < a
    <3>1. b = a - 1
      BY <1>0, <2>1
    <3> QED BY <1>5, <1>7, <2>1, <3>1
  <2>2. CASE ~(b < a)
    BY <1>5, <2>2
  <2> QED BY <2>1, <2>2
<1> QED BY <1>7, <1>8, <1>10, <1>11

\* It is a natural number.
LEMMA ThroughType ==
  ASSUME ptm \in Instances, NEW j \in Job, NEW a \in 1 .. nbMachines + 1,
         NEW b \in a - 1 .. nbMachines
  PROVE  Through(ptm, j, a, b) \in Nat
<1>1. PICK w \in [a - 1 .. b -> Nat] : Through(ptm, j, a, b) = w[b]
  BY ThroughOf
<1>2. b \in a - 1 .. b
  BY Sizes
<1> QED BY <1>1, <1>2

\* What grows with the time of each machine grows with the time on all of them.
LEMMA ThroughAtMost ==
  ASSUME ptm \in Instances, NEW j \in Job, NEW a \in 1 .. nbMachines + 1,
         NEW b \in a - 1 .. nbMachines,
         NEW y \in [a - 1 .. b -> Int], \A m \in a .. b : y[m - 1] + ptm[m][j] <= y[m]
  PROVE  y[a - 1] + Through(ptm, j, a, b) <= y[b]
<1>1. PICK w \in [a - 1 .. b -> Nat] :
        /\ w[a - 1] = 0
        /\ \A m \in a .. b : w[m] = w[m - 1] + ptm[m][j]
        /\ Through(ptm, j, a, b) = w[b]
  BY ThroughOf
<1> DEFINE n == b - (a - 1)
           T == {i \in 0 .. n : y[a - 1] + w[(a - 1) + i] <= y[(a - 1) + i]}
<1>0. /\ n \in Nat /\ a \in Nat /\ b \in Int /\ a - 1 \in Nat /\ a - 1 <= b /\ b <= nbMachines
      /\ nbMachines \in Nat /\ 1 <= a
  BY Sizes
<1>2. 0 \in T
  BY <1>0, <1>1
<1>3. ASSUME NEW k \in 0 .. n - 1, k \in T PROVE k + 1 \in T
  <2> DEFINE m == (a - 1) + (k + 1)
  <2>1. m \in a .. b /\ m - 1 = (a - 1) + k /\ k + 1 \in 0 .. n /\ m \in a - 1 .. b
        /\ m - 1 \in a - 1 .. b /\ a - 1 \in a - 1 .. b /\ m \in Machine
    BY <1>0, Sizes
  <2>2. w[m] = w[m - 1] + ptm[m][j] /\ y[m - 1] + ptm[m][j] <= y[m]
    <3> HIDE DEF m
    <3> QED BY <1>1, <2>1
  <2>3. y[a - 1] + w[m - 1] <= y[m - 1]
    BY <1>3, <2>1
  <2>4. w[m] \in Nat /\ w[m - 1] \in Nat /\ ptm[m][j] \in Nat /\ y[m] \in Int /\ y[m - 1] \in Int
        /\ y[a - 1] \in Int
    <3> HIDE DEF m
    <3> QED BY <2>1, Durations
  <2>5. \A x, u, v, c, d \in Int : x + u <= v /\ v + c <= d => x + (u + c) <= d
    OBVIOUS
  <2>6. y[a - 1] + (w[m - 1] + ptm[m][j]) <= y[m]
    <3>1. w[m - 1] \in Int /\ ptm[m][j] \in Int /\ y[m] \in Int /\ y[m - 1] \in Int
          /\ y[a - 1] \in Int
      <4> HIDE DEF m
      <4> QED BY <2>4
    <3> HIDE DEF m
    <3> QED BY <2>2, <2>3, <2>5, <3>1, Zenon
  <2>7. y[a - 1] + w[m] <= y[m]
    <3>1. w[m] = w[m - 1] + ptm[m][j]
      BY <2>2
    <3> HIDE DEF m
    <3> QED BY <2>6, <3>1, Zenon
  <2> QED BY <2>1, <2>7
<1>4. n \in T
  <2> HIDE DEF T, n
  <2>1. \A k \in 0 .. n : k \in T
    BY <1>0, <1>2, <1>3, UpTo
  <2> QED BY <1>0, <2>1
<1>5. (a - 1) + n = b
  BY <1>0
<1> QED BY <1>1, <1>4, <1>5

\* The time that passes on a machine pair, for one job in a list.
LEMMA HeadThrough ==
  ASSUME ptm \in Instances, NEW s \in Seq(Job), NEW h, HeadsOf(h, s), NEW k \in 1 .. Len(s),
         NEW a \in Machine, NEW b \in a .. nbMachines
  PROVE  h[k][a] + Through(ptm, s[k], a + 1, b) <= h[k][b]
<1> DEFINE y == [m \in a .. b |-> h[k][m]]
<1>0. a \in Nat /\ b \in Nat /\ a >= 1 /\ b \in Machine /\ (a + 1) - 1 = a /\ a + 1 \in 1 .. nbMachines + 1
      /\ b \in (a + 1) - 1 .. nbMachines /\ a \in a .. b /\ b \in a .. b /\ s[k] \in Job
      /\ k \in 0 .. Len(s) /\ \A m \in a .. b : m \in Machine
  BY Sizes
<1>1. y \in [a .. b -> Int]
  <2>1. \A m \in a .. b : h[k][m] \in Nat
    BY <1>0, HeadsGrow
  <2>2. \A m \in a .. b : h[k][m] \in Int
    BY <2>1
  <2> QED BY <2>2
<1>2. ASSUME NEW m \in a + 1 .. b PROVE y[m - 1] + ptm[m][s[k]] <= y[m]
  <2>1. m \in Machine /\ m >= 2 /\ m - 1 \in a .. b /\ m \in a .. b
    BY <1>0, Sizes
  <2>2. h[k][m - 1] + ptm[m][s[k]] <= h[k][m]
    BY <2>1, HeadsGrow
  <2> QED BY <2>1, <2>2
<1>3. y[(a + 1) - 1] + Through(ptm, s[k], a + 1, b) <= y[b]
  <2> HIDE DEF y
  <2>1. y \in [(a + 1) - 1 .. b -> Int]
    BY <1>0, <1>1
  <2> QED BY <1>0, <1>2, <2>1, ThroughAtMost
<1> QED BY <1>0, <1>3

\* The times of a front are early enough for the job that follows it, those of a
\* back late enough for the job ahead of it.
Early(f, h, s, k) == f \in Time /\ \A m \in Machine : f[m] + ptm[m][s[k]] <= h[k][m]
Late(b, t, s, k)  == b \in Time /\ \A m \in Machine : b[m] + ptm[m][s[k]] <= t[k][m]

\* minTempsArr and minTempsDep have a time for each machine.
LEMMA ArrivalType ==
  ASSUME ptm \in Instances
  PROVE  /\ minTempsArr[ptm] \in Time /\ minTempsDep[ptm] \in Time
         /\ \A m \in Machine : \A j \in Job :
              /\ minTempsArr[ptm][m] <= Through(ptm, j, 1, m - 1)
              /\ minTempsDep[ptm][m] <= Through(ptm, j, m + 1, nbMachines)
<1>1. ASSUME NEW m \in Machine
      PROVE  /\ minTempsArr[ptm][m] \in Nat /\ minTempsDep[ptm][m] \in Nat
             /\ \A j \in Job : /\ minTempsArr[ptm][m] <= Through(ptm, j, 1, m - 1)
                               /\ minTempsDep[ptm][m] <= Through(ptm, j, m + 1, nbMachines)
  <2> DEFINE A == {Through(ptm, j, 1, m - 1) : j \in Job}
             B == {Through(ptm, j, m + 1, nbMachines) : j \in Job}
  <2>0. m - 1 \in 1 - 1 .. nbMachines /\ 1 \in 1 .. nbMachines + 1
        /\ m + 1 \in 1 .. nbMachines + 1 /\ nbMachines \in (m + 1) - 1 .. nbMachines /\ 0 \in Job
    BY Sizes
  <2>1. A \in SUBSET Nat /\ B \in SUBSET Nat
    BY <2>0, ThroughType
  <2>2. minTempsArr[ptm][m] = Min(A) /\ minTempsDep[ptm][m] = Min(B)
    BY DEF minTempsArr, minTempsDep
  <2>3. Through(ptm, 0, 1, m - 1) \in A /\ Through(ptm, 0, m + 1, nbMachines) \in B
    BY <2>0
  <2>4. Min(A) \in A /\ Min(B) \in B /\ (\A x \in A : Min(A) <= x) /\ \A x \in B : Min(B) <= x
    <3> HIDE DEF A, B
    <3> QED BY <2>1, <2>3, LeastNumber
  <2>5. \A j \in Job : Min(A) <= Through(ptm, j, 1, m - 1) /\ Min(B) <= Through(ptm, j, m + 1, nbMachines)
    BY <2>4
  <2> HIDE DEF A, B
  <2> QED BY <2>1, <2>2, <2>4, <2>5
<1>2. minTempsArr[ptm] = [m \in Machine |-> minTempsArr[ptm][m]]
      /\ minTempsDep[ptm] = [m \in Machine |-> minTempsDep[ptm][m]]
  BY DEF minTempsArr, minTempsDep
<1>3. minTempsArr[ptm] \in Time /\ minTempsDep[ptm] \in Time
  BY <1>1, <1>2 DEF Time
<1> QED BY <1>1, <1>3

\* No job starts earlier than minTempsArr ...
LEMMA EarlyArrival ==
  ASSUME ptm \in Instances, NEW s \in Seq(Job), Len(s) >= 1, NEW h, HeadsOf(h, s)
  PROVE  Early(minTempsArr[ptm], h, s, 1)
<1>0. 1 \in 1 .. Len(s) /\ 0 \in 0 .. Len(s) /\ s[1] \in Job
  OBVIOUS
<1>1. ASSUME NEW m \in Machine PROVE minTempsArr[ptm][m] + ptm[m][s[1]] <= h[1][m]
  <2> DEFINE y == [i \in 0 .. m - 1 |-> IF i = 0 THEN 0 ELSE h[1][i]]
  <2>0. m \in Nat /\ m >= 1 /\ m - 1 \in 1 - 1 .. nbMachines /\ 1 \in 1 .. nbMachines + 1
        /\ (\A i \in 1 .. m - 1 : i \in Machine) /\ m - 1 \in 0 .. m - 1 /\ 0 \in 0 .. m - 1 /\ 1 - 1 = 0
    BY Sizes
  <2>1. \A i \in Machine : h[1][i] \in Nat /\ h[0][i] \in Nat /\ ptm[i][s[1]] \in Nat
    <3>1. 1 \in 0 .. Len(s)
      BY <1>0
    <3> QED BY <1>0, <3>1, HeadsGrow, Durations
  <2>2. y \in [0 .. m - 1 -> Int]
    BY <2>0, <2>1
  <2>3. ASSUME NEW i \in 1 .. m - 1 PROVE y[i - 1] + ptm[i][s[1]] <= y[i]
    <3>1. i \in Machine /\ i - 1 \in 0 .. m - 1 /\ i \in 0 .. m - 1 /\ i # 0
      BY <2>0
    <3>2. CASE i = 1
      <4>1. h[1][1] = h[0][1] + ptm[1][s[1]]
        <5>1. 1 - 1 = 0 /\ 1 \in Machine
          BY Sizes
        <5> QED BY <1>0, <5>1, HeadsGrow
      <4>2. y[i - 1] = 0 /\ y[i] = h[1][1]
        BY <3>1, <3>2
      <4>3. h[1][1] \in Nat /\ h[0][1] \in Nat /\ ptm[1][s[1]] \in Nat
        BY <2>1, <3>1, <3>2
      <4> HIDE DEF y
      <4> QED BY <3>2, <4>1, <4>2, <4>3
    <3>3. CASE i # 1
      <4>1. i >= 2 /\ i - 1 # 0
        BY <3>1, <3>3
      <4>2. h[1][i - 1] + ptm[i][s[1]] <= h[1][i]
        BY <1>0, <3>1, <4>1, HeadsGrow
      <4> QED BY <3>1, <4>1, <4>2
    <3> QED BY <3>2, <3>3
  <2>4. y[1 - 1] + Through(ptm, s[1], 1, m - 1) <= y[m - 1]
    <3> HIDE DEF y
    <3>1. y \in [1 - 1 .. m - 1 -> Int]
      BY <2>0, <2>2
    <3> QED BY <1>0, <2>0, <2>3, <3>1, ThroughAtMost
  <2>5. Through(ptm, s[1], 1, m - 1) <= y[m - 1]
    <3>1. y[1 - 1] = 0
      BY <2>0
    <3>2. Through(ptm, s[1], 1, m - 1) \in Nat /\ y[m - 1] \in Int
      <4> HIDE DEF y
      <4> QED BY <1>0, <2>0, <2>2, ThroughType
    <3> HIDE DEF y
    <3> QED BY <2>4, <3>1, <3>2
  <2>6. minTempsArr[ptm][m] <= Through(ptm, s[1], 1, m - 1) /\ minTempsArr[ptm][m] \in Nat
        /\ Through(ptm, s[1], 1, m - 1) \in Nat
    BY <1>0, <2>0, ArrivalType, ThroughType DEF Time
  <2>7. y[m - 1] + ptm[m][s[1]] <= h[1][m]
    <3>1. CASE m = 1
      <4>1. y[m - 1] = 0
        BY <2>0, <3>1
      <4>2. h[0][m] + ptm[m][s[1]] <= h[1][m]
        <5>1. 1 - 1 = 0
          OBVIOUS
        <5> QED BY <1>0, <5>1, HeadsGrow
      <4>3. h[0][m] \in Nat /\ ptm[m][s[1]] \in Nat /\ h[1][m] \in Nat
        BY <2>1
      <4> HIDE DEF y
      <4> QED BY <4>1, <4>2, <4>3
    <3>2. CASE m # 1
      <4>1. m >= 2 /\ m - 1 # 0
        BY <2>0, <3>2
      <4>2. h[1][m - 1] + ptm[m][s[1]] <= h[1][m]
        BY <1>0, <4>1, HeadsGrow
      <4> QED BY <2>0, <4>1, <4>2
    <3> QED BY <3>1, <3>2
  <2>8. y[m - 1] \in Int /\ ptm[m][s[1]] \in Nat /\ h[1][m] \in Nat
    <3> HIDE DEF y
    <3> QED BY <2>0, <2>1, <2>2
  <2> HIDE DEF y
  <2> QED BY <2>5, <2>6, <2>7, <2>8
<1> QED BY <1>1, ArrivalType DEF Early

\* ... and none leaves less than minTempsDep after it.
LEMMA LateDeparture ==
  ASSUME ptm \in Instances, NEW s \in Seq(Job), Len(s) >= 1, NEW t, TailsOf(t, s)
  PROVE  Late(minTempsDep[ptm], t, s, Len(s))
<1> DEFINE n == Len(s)
           M == nbMachines
<1>0. n \in 1 .. n /\ n + 1 \in 1 .. n + 1 /\ n \in 1 .. n + 1 /\ s[n] \in Job /\ n \in Nat
  OBVIOUS
<1>1. ASSUME NEW m \in Machine PROVE minTempsDep[ptm][m] + ptm[m][s[n]] <= t[n][m]
  <2> DEFINE z(i) == IF i > M THEN 0 ELSE t[n][i]
             y == [i \in m .. M |-> z(m + 1) - z(i + 1)]
  <2>0. m \in Nat /\ m >= 1 /\ m + 1 \in 1 .. M + 1 /\ (m + 1) - 1 = m /\ M \in Nat
        /\ M \in (m + 1) - 1 .. M /\ M \in m .. M /\ m \in m .. M /\ \A i \in m .. M : i \in Machine
    BY Sizes
  <2>1. \A i \in Machine : t[n][i] \in Nat /\ t[n + 1][i] \in Nat /\ ptm[i][s[n]] \in Nat
    <3> HIDE DEF n
    <3> QED BY <1>0, TailsGrow, Durations DEF n
  <2>2. \A i \in m .. M + 1 : z(i) \in Nat
    <3>1. \A i \in m .. M + 1 : i > M \/ i \in Machine
      BY <2>0, Sizes
    <3> QED BY <2>1, <3>1
  <2>3. y \in [m .. M -> Int]
    <3>1. \A i \in m .. M : i + 1 \in m .. M + 1
      BY <2>0
    <3>2. m + 1 \in m .. M + 1
      BY <2>0
    <3>3. \A i \in m .. M : z(i + 1) \in Nat /\ z(m + 1) \in Nat
      <4> HIDE DEF z
      <4> QED BY <2>2, <3>1, <3>2
    <3>4. \A i \in m .. M : z(m + 1) - z(i + 1) \in Int
      <4> HIDE DEF z
      <4> QED BY <3>3
    <3> HIDE DEF z
    <3> QED BY <3>4
  <2>4. ASSUME NEW i \in m .. M PROVE z(i + 1) + ptm[i][s[n]] <= z(i)
    <3>1. i \in Machine /\ ~(i > M) /\ i \in Nat
      BY <2>0, Sizes
    <3>2. CASE i = M
      <4>1. t[n + 1][i] + ptm[i][s[n]] <= t[n][i]
        BY <1>0, <3>1, TailsGrow
      <4>2. z(i + 1) = 0 /\ z(i) = t[n][i]
        BY <2>0, <3>1, <3>2
      <4>3. t[n][i] \in Nat /\ t[n + 1][i] \in Nat /\ ptm[i][s[n]] \in Nat
        BY <2>1, <3>1
      <4> HIDE DEF z
      <4> QED BY <4>1, <4>2, <4>3
    <3>3. CASE i # M
      <4>1. i < M
        BY <2>0, <3>1, <3>3
      <4>2. t[n][i + 1] + ptm[i][s[n]] <= t[n][i]
        BY <1>0, <3>1, <4>1, TailsGrow
      <4> QED BY <2>0, <3>1, <4>1, <4>2
    <3> QED BY <3>2, <3>3
  <2>5. ASSUME NEW i \in m + 1 .. M PROVE y[i - 1] + ptm[i][s[n]] <= y[i]
    <3>1. i \in m .. M /\ i - 1 \in m .. M /\ (i - 1) + 1 = i /\ i \in m .. M + 1 /\ i + 1 \in m .. M + 1
          /\ m + 1 \in m .. M + 1 /\ i \in Machine
      BY <2>0
    <3>2. y[i] = z(m + 1) - z(i + 1) /\ y[i - 1] = z(m + 1) - z(i)
      <4> HIDE DEF z
      <4> QED BY <3>1
    <3>3. z(i + 1) + ptm[i][s[n]] <= z(i)
      <4> HIDE DEF z
      <4> QED BY <2>4, <3>1
    <3>4. z(i) \in Nat /\ z(i + 1) \in Nat /\ z(m + 1) \in Nat /\ ptm[i][s[n]] \in Nat
      <4> HIDE DEF z
      <4> QED BY <2>1, <2>2, <3>1
    <3>5. \A u, v, x, p \in Nat : v + p <= x => (u - x) + p <= u - v
      OBVIOUS
    <3>6. (z(m + 1) - z(i)) + ptm[i][s[n]] <= z(m + 1) - z(i + 1)
      <4> HIDE DEF z
      <4> QED BY <3>3, <3>4, <3>5
    <3> HIDE DEF z, y
    <3> QED BY <3>2, <3>6
  <2> DEFINE th == Through(ptm, s[n], m + 1, M)
  <2>6. y[m] + th <= y[M]
    <3>1. y[(m + 1) - 1] + Through(ptm, s[n], m + 1, M) <= y[M]
      <4> HIDE DEF y
      <4>1. y \in [(m + 1) - 1 .. M -> Int]
        BY <2>0, <2>3
      <4> QED BY <1>0, <2>0, <2>5, <4>1, ThroughAtMost
    <3> HIDE DEF y
    <3> QED BY <2>0, <3>1
  <2>7. y[m] = z(m + 1) - z(m + 1) /\ y[M] = z(m + 1) - z(M + 1) /\ z(M + 1) = 0
    BY <2>0
  <2>8. minTempsDep[ptm][m] <= th /\ minTempsDep[ptm][m] \in Nat /\ th \in Nat
    BY <1>0, <2>0, ArrivalType, ThroughType DEF Time
  <2>9. z(m + 1) + ptm[m][s[n]] <= z(m) /\ z(m) = t[n][m]
    <3>1. z(m) = t[n][m]
      BY <2>0, Sizes
    <3> HIDE DEF z
    <3> QED BY <2>0, <2>4, <3>1
  <2>10. z(m + 1) \in Nat /\ t[n][m] \in Nat /\ ptm[m][s[n]] \in Nat
    <3>1. m + 1 \in m .. M + 1
      BY <2>0
    <3> HIDE DEF z
    <3> QED BY <2>1, <2>2, <3>1
  <2>11. th <= z(m + 1)
    <3> HIDE DEF z, y, th
    <3> QED BY <2>6, <2>7, <2>8, <2>10
  <2> HIDE DEF z, y, th
  <2> QED BY <2>8, <2>9, <2>10, <2>11
<1> QED BY <1>1, ArrivalType DEF Late

\* c extends a node: it begins with the front, ends with the back, and has the
\* open jobs, one at least, between them.
Completes(c, front, O, back) ==
  /\ Distinct(c) /\ front \in Seq(Job) /\ back \in Seq(Job)
  /\ Len(front) + Len(back) < Len(c)
  /\ \A k \in 1 .. Len(front) : front[k] = c[k]
  /\ \A k \in 1 .. Len(back) : back[k] = c[(Len(c) - Len(back)) + k]
  /\ O = Between(c, Len(front) + 1, Len(c) - Len(back))

\* The first and the last position in between.
FirstOpen(c, front) == Len(front) + 1
LastOpen(c, back)   == Len(c) - Len(back)

\* They are positions of the list.
LEMMA Places ==
  ASSUME NEW c, NEW front, NEW O, NEW back, Completes(c, front, O, back)
  PROVE  /\ c \in Seq(Job) /\ Len(c) \in Nat /\ Len(c) >= 1 /\ Distinct(c)
         /\ FirstOpen(c, front) \in 1 .. Len(c) /\ LastOpen(c, back) \in FirstOpen(c, front) .. Len(c)
         /\ LastOpen(c, back) \in 1 .. Len(c)
         /\ O = Between(c, FirstOpen(c, front), LastOpen(c, back)) /\ O \in SUBSET Job
         /\ c[FirstOpen(c, front)] \in O /\ c[LastOpen(c, back)] \in O
<1>1. c \in Seq(Job) /\ Len(c) \in Nat /\ Len(front) \in Nat /\ Len(back) \in Nat
  BY DEF Completes, Distinct
<1>2. /\ FirstOpen(c, front) \in 1 .. Len(c) /\ LastOpen(c, back) \in FirstOpen(c, front) .. Len(c)
      /\ LastOpen(c, back) \in 1 .. Len(c) /\ Len(c) >= 1
  BY <1>1 DEF Completes, FirstOpen, LastOpen
<1>3. O = Between(c, FirstOpen(c, front), LastOpen(c, back)) /\ Distinct(c)
  BY DEF Completes, FirstOpen, LastOpen
<1>4. O \in SUBSET Job
  BY <1>1, <1>2, <1>3 DEF Between
<1>5. c[FirstOpen(c, front)] \in O /\ c[LastOpen(c, back)] \in O
  <2>1. FirstOpen(c, front) \in FirstOpen(c, front) .. LastOpen(c, back)
        /\ LastOpen(c, back) \in FirstOpen(c, front) .. LastOpen(c, back)
    BY <1>1, <1>2
  <2> QED BY <1>3, <2>1 DEF Between
<1> QED BY <1>1, <1>2, <1>3, <1>4, <1>5

\* scheduleFront is early enough for the first open job ...
LEMMA EarlyFront ==
  ASSUME ptm \in Instances, NEW c, NEW front, NEW O, NEW back, Completes(c, front, O, back),
         NEW h, HeadsOf(h, c)
  PROVE  Early(scheduleFront(front), h, c, FirstOpen(c, front))
<1> DEFINE k == FirstOpen(c, front)
<1>1. c \in Seq(Job) /\ Len(c) >= 1 /\ k \in 1 .. Len(c)
  BY Places
<1>2. CASE front = <<>>
  <2>1. k = 1
    BY <1>2 DEF FirstOpen
  <2> QED BY <1>1, <1>2, <2>1, EarlyArrival DEF scheduleFront
<1>3. CASE front # <<>>
  <2>1. Len(front) \in Nat /\ front \in Seq(Job) /\ Len(front) <= Len(c) /\ k = Len(front) + 1
        /\ k - 1 = Len(front) /\ Len(front) \in 0 .. Len(c)
    BY <1>1 DEF Completes, FirstOpen
  <2>2. Heads(front) = h[Len(front)]
    <3>1. \A i \in 1 .. Len(front) : front[i] = c[i]
      BY DEF Completes
    <3> QED BY <1>1, <2>1, <3>1, HeadsOfBeginning
  <2>3. h[k - 1] \in Time
    BY <2>1 DEF HeadsOf
  <2>4. \A m \in Machine : h[k - 1][m] + ptm[m][c[k]] <= h[k][m]
    BY <1>1, HeadsGrow
  <2>5. scheduleFront(front) = h[k - 1]
    BY <1>3, <2>1, <2>2 DEF scheduleFront
  <2> HIDE DEF k
  <2> QED BY <2>3, <2>4, <2>5 DEF Early, k
<1> QED BY <1>2, <1>3

\* ... and scheduleBack late enough for the last one.
LEMMA LateBack ==
  ASSUME ptm \in Instances, NEW c, NEW front, NEW O, NEW back, Completes(c, front, O, back),
         NEW t, TailsOf(t, c)
  PROVE  Late(scheduleBack(back), t, c, LastOpen(c, back))
<1> DEFINE k == LastOpen(c, back)
<1>1. c \in Seq(Job) /\ Len(c) >= 1 /\ k \in 1 .. Len(c) /\ Len(c) \in Nat
  BY Places
<1>2. CASE back = <<>>
  <2>1. k = Len(c)
    BY <1>1, <1>2 DEF LastOpen
  <2> QED BY <1>1, <1>2, <2>1, LateDeparture DEF scheduleBack
<1>3. CASE back # <<>>
  <2>1. Len(back) \in Nat /\ back \in Seq(Job) /\ k \in Nat /\ Len(c) = k + Len(back)
        /\ k + 1 \in 1 .. Len(c) + 1
    BY <1>1 DEF Completes, LastOpen
  <2>2. Tails(back) = t[k + 1]
    <3>1. \A i \in 1 .. Len(back) : back[i] = c[k + i]
      BY DEF Completes, LastOpen
    <3> HIDE DEF k
    <3> QED BY <1>1, <2>1, <3>1, TailsOfEnd
  <2>3. t[k + 1] \in Time
    BY <2>1 DEF TailsOf
  <2>4. \A m \in Machine : t[k + 1][m] + ptm[m][c[k]] <= t[k][m]
    BY <1>1, TailsGrow
  <2>5. scheduleBack(back) = t[k + 1]
    BY <1>3, <2>2 DEF scheduleBack
  <2> HIDE DEF k
  <2> QED BY <2>3, <2>4, <2>5 DEF Late, k
<1> QED BY <1>2, <1>3

\* The next job delays the machines no more than it does in the schedule.
LEMMA EarlyNext ==
  ASSUME ptm \in Instances, NEW s \in Seq(Job), NEW h, HeadsOf(h, s), NEW k \in 1 .. Len(s),
         NEW f, Early(f, h, s, k)
  PROVE  /\ AddFirst(f, s[k]) \in Time
         /\ \A m \in Machine :
              /\ AddFirst(f, s[k])[m] <= h[k][m]
              /\ AddFirst(f, s[k])[m] =
                   (IF m = 1 THEN f[1] ELSE Larger(f[m], AddFirst(f, s[k])[m - 1])) + ptm[m][s[k]]
         /\ k < Len(s) => Early(AddFirst(f, s[k]), h, s, k + 1)
<1> DEFINE c == AddFirst(f, s[k])
           M == nbMachines
           T == {i \in 0 .. M - 1 : c[i + 1] <= h[k][i + 1]}
<1>0. s[k] \in Job /\ f \in Time /\ M \in Nat /\ M - 1 \in Nat /\ 1 \in Machine
  BY Sizes DEF Early
<1>1. Started(c, f, s[k])
  BY <1>0, AddFirstOf
<1>2. c \in Time /\ c[1] = f[1] + ptm[1][s[k]]
      /\ \A m \in 2 .. M : c[m] = Larger(f[m], c[m - 1]) + ptm[m][s[k]]
  BY <1>1 DEF Started
<1> HIDE DEF c
<1>3. \A m \in Machine : c[m] \in Nat /\ f[m] \in Nat /\ h[k][m] \in Nat /\ ptm[m][s[k]] \in Nat
  <2>1. k \in 0 .. Len(s)
    OBVIOUS
  <2> QED BY <1>0, <1>2, <2>1, HeadsGrow, Durations DEF Time
<1>4. 0 \in T
  BY <1>0, <1>2 DEF Early
<1>5. ASSUME NEW i \in 0 .. (M - 1) - 1, i \in T PROVE i + 1 \in T
  <2> DEFINE m == i + 2
  <2>1. m \in 2 .. M /\ m - 1 = i + 1 /\ m \in Machine /\ m - 1 \in Machine /\ (i + 1) + 1 = m
        /\ m >= 2 /\ i + 1 \in 0 .. M - 1
    BY <1>0, Sizes
  <2>2. c[m] = Larger(f[m], c[m - 1]) + ptm[m][s[k]]
    <3> HIDE DEF m
    <3> QED BY <1>2, <2>1
  <2>3. h[k][m - 1] + ptm[m][s[k]] <= h[k][m]
    <3> HIDE DEF m
    <3> QED BY <2>1, HeadsGrow
  <2>4. f[m] + ptm[m][s[k]] <= h[k][m]
    <3> HIDE DEF m
    <3> QED BY <2>1 DEF Early
  <2>5. c[m - 1] <= h[k][m - 1]
    BY <1>5, <2>1
  <2>6. c[m - 1] \in Nat /\ f[m] \in Nat /\ h[k][m] \in Nat /\ h[k][m - 1] \in Nat /\ ptm[m][s[k]] \in Nat
        /\ c[m] \in Nat
    <3> HIDE DEF m
    <3> QED BY <1>3, <2>1
  <2>7. \A x, y, p, z, u \in Nat : x + p <= z /\ y <= u /\ u + p <= z => Larger(x, y) + p <= z
    BY DEF Larger
  <2>8. Larger(f[m], c[m - 1]) + ptm[m][s[k]] <= h[k][m]
    <3> HIDE DEF m
    <3> QED BY <2>3, <2>4, <2>5, <2>6, <2>7, Zenon
  <2>9. c[m] <= h[k][m]
    <3> HIDE DEF m
    <3> QED BY <2>2, <2>8, Zenon
  <2> QED BY <2>1, <2>9
<1>6. \A i \in 0 .. M - 1 : i \in T
  <2> HIDE DEF T, M
  <2> QED BY <1>0, <1>4, <1>5, UpTo
<1>7. ASSUME NEW m \in Machine PROVE c[m] <= h[k][m]
  <2>1. m - 1 \in 0 .. M - 1 /\ (m - 1) + 1 = m
    BY Sizes
  <2> QED BY <1>6, <2>1
<1>8. ASSUME NEW m \in Machine
      PROVE  c[m] = (IF m = 1 THEN f[1] ELSE Larger(f[m], c[m - 1])) + ptm[m][s[k]]
  <2>1. m = 1 \/ m \in 2 .. M
    BY Sizes
  <2> QED BY <1>2, <2>1
<1>9. ASSUME k < Len(s) PROVE Early(c, h, s, k + 1)
  <2>1. ASSUME NEW m \in Machine PROVE c[m] + ptm[m][s[k + 1]] <= h[k + 1][m]
    <3>1. k + 1 \in 1 .. Len(s) /\ (k + 1) - 1 = k /\ k + 1 \in 0 .. Len(s) /\ s[k + 1] \in Job
      BY <1>9
    <3>2. h[k][m] + ptm[m][s[k + 1]] <= h[k + 1][m]
      BY <3>1, HeadsGrow
    <3>3. h[k + 1][m] \in Nat /\ ptm[m][s[k + 1]] \in Nat
      BY <3>1, HeadsGrow, Durations
    <3>4. c[m] <= h[k][m] /\ c[m] \in Nat /\ h[k][m] \in Nat
      BY <1>3, <1>7
    <3> QED BY <3>2, <3>3, <3>4
  <2> QED BY <1>2, <2>1 DEF Early
<1> QED BY <1>2, <1>7, <1>8, <1>9 DEF c

\* Neither does the previous one, seen from the end.
LEMMA LateNext ==
  ASSUME ptm \in Instances, NEW s \in Seq(Job), NEW t, TailsOf(t, s), NEW k \in 1 .. Len(s),
         NEW b, Late(b, t, s, k)
  PROVE  /\ AddLast(b, s[k]) \in Time
         /\ \A m \in Machine :
              /\ AddLast(b, s[k])[m] <= t[k][m]
              /\ AddLast(b, s[k])[m] =
                   (IF m = nbMachines THEN b[m] ELSE Larger(b[m], AddLast(b, s[k])[m + 1]))
                     + ptm[m][s[k]]
         /\ k > 1 => Late(AddLast(b, s[k]), t, s, k - 1)
<1> DEFINE c == AddLast(b, s[k])
           M == nbMachines
           T == {i \in 0 .. M - 1 : c[i + 1] <= t[k][i + 1]}
<1>0. s[k] \in Job /\ b \in Time /\ M \in Nat /\ M - 1 \in Nat /\ M \in Machine /\ (M - 1) + 1 = M
  BY Sizes DEF Late
<1>1. Ended(c, b, s[k])
  BY <1>0, AddLastOf
<1>2. c \in Time /\ c[M] = b[M] + ptm[M][s[k]]
      /\ \A m \in 1 .. M - 1 : c[m] = Larger(b[m], c[m + 1]) + ptm[m][s[k]]
  BY <1>1 DEF Ended
<1> HIDE DEF c
<1>3. \A m \in Machine : c[m] \in Nat /\ b[m] \in Nat /\ t[k][m] \in Nat /\ ptm[m][s[k]] \in Nat
  <2>1. k \in 1 .. Len(s) + 1
    OBVIOUS
  <2> QED BY <1>0, <1>2, <2>1, TailsGrow, Durations DEF Time
<1>4. M - 1 \in T
  BY <1>0, <1>2 DEF Late
<1>5. ASSUME NEW m \in 1 .. M - 1, m \in T PROVE m - 1 \in T
  <2>1. m \in Machine /\ m + 1 \in Machine /\ (m - 1) + 1 = m /\ m - 1 \in 0 .. M - 1 /\ m < M
    BY <1>0, Sizes
  <2>2. c[m] = Larger(b[m], c[m + 1]) + ptm[m][s[k]]
    BY <1>2
  <2>3. t[k][m + 1] + ptm[m][s[k]] <= t[k][m]
    BY <2>1, TailsGrow
  <2>4. b[m] + ptm[m][s[k]] <= t[k][m]
    BY <2>1 DEF Late
  <2>5. c[m + 1] <= t[k][m + 1]
    BY <1>5
  <2>6. c[m + 1] \in Nat /\ b[m] \in Nat /\ t[k][m] \in Nat /\ t[k][m + 1] \in Nat /\ ptm[m][s[k]] \in Nat
    BY <1>3, <2>1
  <2>7. \A x, y, p, z, u \in Nat : x + p <= z /\ y <= u /\ u + p <= z => Larger(x, y) + p <= z
    BY DEF Larger
  <2>8. Larger(b[m], c[m + 1]) + ptm[m][s[k]] <= t[k][m]
    BY <2>3, <2>4, <2>5, <2>6, <2>7, Zenon
  <2>9. c[m] <= t[k][m]
    BY <2>2, <2>8, Zenon
  <2> QED BY <2>1, <2>9
<1>6. \A i \in 0 .. M - 1 : i \in T
  <2> HIDE DEF T, M
  <2> QED BY <1>0, <1>4, <1>5, DownTo
<1>7. ASSUME NEW m \in Machine PROVE c[m] <= t[k][m]
  <2>1. m - 1 \in 0 .. M - 1 /\ (m - 1) + 1 = m
    BY Sizes
  <2> QED BY <1>6, <2>1
<1>8. ASSUME NEW m \in Machine
      PROVE  c[m] = (IF m = M THEN b[m] ELSE Larger(b[m], c[m + 1])) + ptm[m][s[k]]
  <2>1. m = M \/ m \in 1 .. M - 1
    BY Sizes
  <2> QED BY <1>0, <1>2, <2>1
<1>9. ASSUME k > 1 PROVE Late(c, t, s, k - 1)
  <2>1. ASSUME NEW m \in Machine PROVE c[m] + ptm[m][s[k - 1]] <= t[k - 1][m]
    <3>1. k - 1 \in 1 .. Len(s) /\ (k - 1) + 1 = k /\ k - 1 \in 1 .. Len(s) + 1 /\ s[k - 1] \in Job
      BY <1>9
    <3>2. t[k][m] + ptm[m][s[k - 1]] <= t[k - 1][m]
      BY <3>1, TailsGrow
    <3>3. t[k - 1][m] \in Nat /\ ptm[m][s[k - 1]] \in Nat
      BY <3>1, TailsGrow, Durations
    <3>4. c[m] <= t[k][m] /\ c[m] \in Nat /\ t[k][m] \in Nat
      BY <1>3, <1>7
    <3> QED BY <3>2, <3>3, <3>4
  <2> QED BY <1>2, <2>1 DEF Late
<1> QED BY <1>2, <1>7, <1>8, <1>9 DEF c

\* The largest value on all the machines.
LEMMA LargestTime ==
  ASSUME NEW x \in Time, NEW e \in Nat, \A m \in Machine : x[m] <= e
  PROVE  Max({x[m] : m \in Machine}) \in Nat /\ Max({x[m] : m \in Machine}) <= e
<1> DEFINE n == nbMachines
<1>1. n \in Nat \ {0} /\ Machine = 1 .. n /\ x \in [1 .. n -> Nat]
  BY Sizes DEF Time
<1>2. Max({x[m] : m \in 1 .. n}) \in Nat /\ \E k \in 1 .. n : Max({x[i] : i \in 1 .. n}) = x[k]
  <2> HIDE DEF n
  <2> QED BY <1>1, LargestValue
<1>3. Max({x[m] : m \in 1 .. n}) <= e
  <2> HIDE DEF n
  <2> QED BY <1>1, <1>2
<1> QED BY <1>1, <1>2, <1>3

\* Between a job that starts no earlier than x and one after which y remains, all
\* of the work on a machine: no more than the makespan.
LEMMA Squeezed ==
  ASSUME ptm \in Instances, NEW s, Distinct(s), NEW h, HeadsOf(h, s), NEW t, TailsOf(t, s),
         NEW m \in Machine, NEW k \in 1 .. Len(s), NEW l \in k .. Len(s),
         NEW x \in Nat, NEW y \in Nat,
         x + ptm[m][s[k]] <= h[k][m], y + ptm[m][s[l]] <= t[l][m]
  PROVE  x + Total(ptm[m], Between(s, k, l)) + y <= h[Len(s)][nbMachines]
<1> DEFINE E == h[Len(s)][nbMachines]
           S == Between(s, k + 1, l)
           u == s[k]
           v == s[l]
           w == ptm[m]
<1>0. s \in Seq(Job) /\ Len(s) \in Nat /\ k \in Nat /\ l \in Nat /\ k <= l /\ l \in 1 .. Len(s)
      /\ k \in 0 .. Len(s) /\ l \in 0 .. Len(s) /\ l \in 1 .. Len(s) + 1 /\ u \in Job /\ v \in Job
      /\ Len(s) \in 0 .. Len(s) /\ nbMachines \in Machine
  BY Sizes DEF Distinct
<1>1. Total(w, Between(s, k, l)) = Total(w, S) + w[u]
  <2>1. Between(s, k, l) = S \cup {u} /\ u \notin S
    BY BetweenGrows
  <2>2. \A j \in Job : w[j] \in Nat
    BY Durations
  <2> HIDE DEF S, u, w
  <2> QED BY <1>0, <2>1, <2>2, TotalAdd
<1>2. h[k][m] + Total(w, S) <= h[l][m]
  BY <1>0, WorkBetween
<1>3. h[l][m] + t[l][m] <= E + w[v]
  BY <1>0, HeadAndTail
<1>4. Total(w, S) \in Nat /\ w[u] \in Nat /\ w[v] \in Nat
  <2>1. \A j \in Job : w[j] \in Nat
    BY Durations
  <2> HIDE DEF w, S
  <2> QED BY <1>0, <2>1, TotalType
<1>5. h[k][m] \in Nat /\ h[l][m] \in Nat /\ t[l][m] \in Nat /\ E \in Nat
  BY <1>0, HeadsGrow, TailsGrow
<1>6. x + w[u] <= h[k][m] /\ y + w[v] <= t[l][m]
  OBVIOUS
<1>7. x + (Total(w, S) + w[u]) <= h[l][m] /\ x + (Total(w, S) + w[u]) \in Nat
  <2>1. \A a, b, c, d, e \in Nat : a + b <= c /\ c + d <= e => a + (d + b) <= e /\ a + (d + b) \in Nat
    OBVIOUS
  <2> HIDE DEF S, u, v, w, E
  <2> QED BY <1>2, <1>4, <1>5, <1>6, <2>1, Zenon
<1>8. x + (Total(w, S) + w[u]) + y <= E
  <2>1. \A a, b, c, d, e, f \in Nat : a <= b /\ c + d <= e /\ b + e <= f + d => a + c <= f
    OBVIOUS
  <2> HIDE DEF S, u, v, w, E
  <2> QED BY <1>3, <1>4, <1>5, <1>6, <1>7, <2>1, Zenon
<1> QED BY <1>1, <1>8, Zenon

\* The makespan of a list is a head of it.
LEMMA EvalOf ==
  ASSUME ptm \in Instances, NEW s, Distinct(s)
  PROVE  \E h : \E t : HeadsOf(h, s) /\ TailsOf(t, s)
                       /\ evalSolution(s) = h[Len(s)][nbMachines] /\ evalSolution(s) \in Nat
<1>1. s \in Seq(Job) /\ Len(s) \in 0 .. Len(s) /\ nbMachines \in Machine
  BY Sizes DEF Distinct
<1>2. PICK h : HeadsOf(h, s) /\ Heads(s) = h[Len(s)]
  BY <1>1, HeadsExist
<1>3. PICK t : TailsOf(t, s)
  BY <1>1, TailsExist
<1>4. evalSolution(s) \in Nat
  <2>1. h[Len(s)][nbMachines] \in Nat
    BY <1>1, <1>2, HeadsGrow
  <2> QED BY <1>2, <2>1 DEF evalSolution
<1>5. evalSolution(s) = h[Len(s)][nbMachines]
  BY <1>2 DEF evalSolution
<1> QED BY <1>2, <1>3, <1>4, <1>5

-----------------------------------------------------------------------------
(* The bound of one machine *)

\* addFrontAndBound, addBackAndBound: no child gets a bound above the makespan of
\* a schedule that extends it.
LEMMA ChildrenBounded ==
  ASSUME ptm \in Instances, NEW c, NEW front, NEW O, NEW back, Completes(c, front, O, back),
         NEW r \in Time, \A m \in Machine : r[m] = Total(ptm[m], O)
  PROVE  /\ addFrontAndBound(scheduleFront(front), r, scheduleBack(back), c[FirstOpen(c, front)])
              <= evalSolution(c)
         /\ addBackAndBound(scheduleFront(front), r, scheduleBack(back), c[LastOpen(c, back)])
              <= evalSolution(c)
<1> DEFINE k == FirstOpen(c, front)
           l == LastOpen(c, back)
           f == scheduleFront(front)
           b == scheduleBack(back)
           M == nbMachines
<1>1. /\ c \in Seq(Job) /\ Distinct(c) /\ k \in 1 .. Len(c) /\ l \in k .. Len(c) /\ l \in 1 .. Len(c)
      /\ O = Between(c, k, l)
  BY Places
<1>2. PICK h, t : HeadsOf(h, c) /\ TailsOf(t, c) /\ evalSolution(c) = h[Len(c)][M]
                  /\ evalSolution(c) \in Nat
  BY <1>1, EvalOf
<1>3. Early(f, h, c, k) /\ Late(b, t, c, l)
  BY <1>2, EarlyFront, LateBack
<1> HIDE DEF k, l, f, b
<1>4. f \in Time /\ b \in Time
  BY <1>3 DEF Early, Late
<1> DEFINE n == AddFirst(f, c[k])
           z == AddLast(b, c[l])
           x == [m \in Machine |-> IF m = 1 THEN f[1] ELSE Larger(f[m], n[m - 1])]
           y == [m \in Machine |-> IF m = M THEN b[m] ELSE Larger(b[m], z[m + 1])]
<1>5. n \in Time /\ \A m \in Machine : n[m] <= h[k][m] /\ n[m] = x[m] + ptm[m][c[k]]
  BY <1>1, <1>2, <1>3, EarlyNext
<1>6. z \in Time /\ \A m \in Machine : z[m] <= t[l][m] /\ z[m] = y[m] + ptm[m][c[l]]
  BY <1>1, <1>2, <1>3, LateNext
<1>7. x \in Time /\ y \in Time
  <2>1. ASSUME NEW m \in Machine PROVE x[m] \in Nat /\ y[m] \in Nat
    <3>1. m # 1 => m - 1 \in Machine
      BY Sizes
    <3>2. m # M => m + 1 \in Machine
      BY Sizes
    <3>3. f[m] \in Nat /\ b[m] \in Nat /\ f[1] \in Nat
      BY <1>4, Sizes DEF Time
    <3>4. m # 1 => n[m - 1] \in Nat
      <4> HIDE DEF n
      <4> QED BY <1>5, <3>1 DEF Time
    <3>5. m # M => z[m + 1] \in Nat
      <4> HIDE DEF z
      <4> QED BY <1>6, <3>2 DEF Time
    <3> HIDE DEF n, z
    <3> QED BY <3>3, <3>4, <3>5 DEF Larger
  <2> HIDE DEF n, z
  <2> QED BY <2>1 DEF Time
<1>8. \A m \in Machine : x[m] \in Nat /\ y[m] \in Nat /\ f[m] \in Nat /\ b[m] \in Nat /\ r[m] \in Nat
  <2> HIDE DEF x, y
  <2> QED BY <1>4, <1>7 DEF Time
<1>9. ASSUME NEW m \in Machine
      PROVE  x[m] + r[m] + b[m] <= evalSolution(c) /\ f[m] + r[m] + y[m] <= evalSolution(c)
  <2>1. x[m] + ptm[m][c[k]] <= h[k][m]
    <3> HIDE DEF x, n
    <3> QED BY <1>5
  <2>2. y[m] + ptm[m][c[l]] <= t[l][m]
    <3> HIDE DEF y, z
    <3> QED BY <1>6
  <2>3. f[m] + ptm[m][c[k]] <= h[k][m] /\ b[m] + ptm[m][c[l]] <= t[l][m]
    BY <1>3 DEF Early, Late
  <2>4. x[m] + Total(ptm[m], Between(c, k, l)) + b[m] <= h[Len(c)][nbMachines]
    <3> HIDE DEF x
    <3> QED BY <1>1, <1>2, <1>8, <2>1, <2>3, Squeezed
  <2>5. f[m] + Total(ptm[m], Between(c, k, l)) + y[m] <= h[Len(c)][nbMachines]
    <3> HIDE DEF y
    <3> QED BY <1>1, <1>2, <1>8, <2>2, <2>3, Squeezed
  <2> HIDE DEF x, y
  <2> QED BY <1>1, <1>2, <2>4, <2>5
<1> DEFINE p == [m \in Machine |-> x[m] + r[m] + b[m]]
           q == [m \in Machine |-> f[m] + r[m] + y[m]]
<1>10. p \in Time /\ q \in Time
  <2> HIDE DEF x, y
  <2>1. \A m \in Machine : x[m] + r[m] + b[m] \in Nat /\ f[m] + r[m] + y[m] \in Nat
    BY <1>8
  <2> QED BY <2>1 DEF Time
<1>11. \A m \in Machine : p[m] <= evalSolution(c) /\ q[m] <= evalSolution(c)
  <2> HIDE DEF x, y
  <2> QED BY <1>9
<1>12. Max({p[m] : m \in Machine}) <= evalSolution(c) /\ Max({q[m] : m \in Machine}) <= evalSolution(c)
  <2> HIDE DEF p, q
  <2> QED BY <1>2, <1>10, <1>11, LargestTime
<1>13. addFrontAndBound(f, r, b, c[k]) = Max({p[m] : m \in Machine})
  BY DEF addFrontAndBound
<1>14. addBackAndBound(f, r, b, c[l]) = Max({q[m] : m \in Machine})
  BY DEF addBackAndBound
<1> QED BY <1>12, <1>13, <1>14 DEF k, l, f, b

\* bornes_calculer of bound_fsp_weak: the same for the node itself.
LEMMA WeakBounded ==
  ASSUME ptm \in Instances, NEW c, NEW front, NEW O, NEW back, Completes(c, front, O, back),
         NEW open, Distinct(open), Range(open) = O
  PROVE  bornes_calculer(front, open, back) <= evalSolution(c)
<1> DEFINE k == FirstOpen(c, front)
           l == LastOpen(c, back)
           f == scheduleFront(front)
           b == scheduleBack(back)
           r == sumUnscheduled(open)
           M == nbMachines
           zero == 0
           D == Nat
           g == [x \in (1 .. M) \X D |-> Larger(x[2], f[x[1]] + r[x[1]])]
           step(x) == [m \in 0 .. M |-> IF m = 0 THEN 0 ELSE Larger(x[m - 1], f[m] + r[m])]
<1>1. /\ c \in Seq(Job) /\ Distinct(c) /\ k \in 1 .. Len(c) /\ l \in k .. Len(c) /\ l \in 1 .. Len(c)
      /\ O = Between(c, k, l)
  BY Places
<1>2. PICK h, t : HeadsOf(h, c) /\ TailsOf(t, c) /\ evalSolution(c) = h[Len(c)][M]
                  /\ evalSolution(c) \in Nat
  BY <1>1, EvalOf
<1>3. Early(f, h, c, k) /\ Late(b, t, c, l)
  BY <1>2, EarlyFront, LateBack
<1>4. ASSUME NEW m \in Machine
      PROVE  f[m] \in Nat /\ b[m] \in Nat /\ r[m] \in Nat /\ r[m] = Total(ptm[m], O)
  <2>1. r[m] = Total(ptm[m], O)
    BY SumUnscheduledOf
  <2>2. \A j \in Job : ptm[m][j] \in Nat
    BY Durations
  <2>3. Total(ptm[m], O) \in Nat
    BY <2>2, TotalType
  <2> HIDE DEF f, b
  <2> QED BY <1>3, <2>1, <2>3 DEF Early, Late, Time
<1> HIDE DEF k, l, f, b, r
<1>5. g \in [(1 .. M) \X D -> D]
  <2>1. \A m \in 1 .. M : f[m] + r[m] \in Nat
    BY <1>4, Sizes
  <2> QED BY <2>1 DEF Larger
<1>6. PICK e \in [0 .. M -> D] : Recurs(e, M, zero, g)
  <2>1. zero \in D /\ M \in Nat
    BY Sizes
  <2> HIDE DEF g, zero, M, D
  <2> QED BY <1>5, <2>1, Recursive
<1>7. e = step(e)
  <2>1. ASSUME NEW m \in 0 .. M, m # 0
        PROVE  g[<<m, e[m - 1]>>] = Larger(e[m - 1], f[m] + r[m])
    <3>1. m \in 1 .. M /\ e[m - 1] \in D
      BY <2>1, Sizes
    <3> QED BY <3>1
  <2>2. step(e) = [m \in 0 .. M |-> IF m = 0 THEN zero ELSE g[<<m, e[m - 1]>>]]
    <3> HIDE DEF g
    <3> QED BY <2>1
  <2> QED BY <1>6, <2>2 DEF Recurs
<1>8. PICK x : x = step(x) /\ bornes_calculer(front, open, back) = Max({x[m] + b[m] : m \in Machine})
  BY <1>7 DEF bornes_calculer, f, b, r
<1>9. \A m \in 0 .. M : x[m] = IF m = 0 THEN 0 ELSE Larger(x[m - 1], f[m] + r[m])
  BY <1>8
\* On each machine the work ends by the head of the last open job.
<1>10. \A m \in Machine : f[m] + r[m] <= h[l][m] /\ h[l][m] \in Nat
  <2> TAKE m \in Machine
  <2>0. k \in Nat /\ l \in Nat /\ k <= l /\ c[k] \in Job /\ k \in 0 .. Len(c) /\ l \in 0 .. Len(c)
    BY <1>1
  <2>1. Between(c, k, l) = Between(c, k + 1, l) \cup {c[k]} /\ c[k] \notin Between(c, k + 1, l)
    BY <1>1, BetweenGrows
  <2> DEFINE S == Between(c, k + 1, l)
             w == ptm[m]
             j == c[k]
  <2>2. \A i \in Job : w[i] \in Nat
    BY Durations
  <2>3. Total(w, S \cup {j}) = Total(w, S) + w[j]
    <3> HIDE DEF S, w, j
    <3> QED BY <2>0, <2>1, <2>2, TotalAdd DEF S, j
  <2>4. r[m] = Total(w, S) + w[j]
    BY <1>1, <1>4, <2>1, <2>3
  <2>5. h[k][m] + Total(w, S) <= h[l][m]
    BY <1>1, <1>2, <2>0, WorkBetween
  <2>6. f[m] + w[j] <= h[k][m]
    BY <1>3 DEF Early
  <2>7. Total(w, S) \in Nat /\ w[j] \in Nat /\ f[m] \in Nat
    <3> HIDE DEF w, S, j
    <3> QED BY <1>4, <2>0, <2>2, TotalType DEF j
  <2>8. h[k][m] \in Nat /\ h[l][m] \in Nat
    BY <1>1, <1>2, <2>0, HeadsGrow
  <2>9. \A a, p, d, g1, i \in Nat : a + p <= d /\ d + g1 <= i => a + (g1 + p) <= i
    OBVIOUS
  <2>10. f[m] + (Total(w, S) + w[j]) <= h[l][m]
    <3> HIDE DEF w, S, j
    <3> QED BY <2>5, <2>6, <2>7, <2>8, <2>9, Zenon
  <2>11. f[m] + r[m] <= h[l][m]
    <3> HIDE DEF w, S, j
    <3> QED BY <2>4, <2>10, Zenon
  <2> QED BY <2>8, <2>11
<1> DEFINE T == {i \in 0 .. M : x[i] \in Nat /\ (i > 0 => x[i] <= h[l][i])}
<1>11. \A i \in 0 .. M : i \in T
  <2>0. M \in Nat
    BY Sizes
  <2>1. 0 \in T
    BY <1>9, <2>0
  <2>2. ASSUME NEW i \in 0 .. M - 1, i \in T PROVE i + 1 \in T
    <3>1. i + 1 \in 0 .. M /\ i + 1 # 0 /\ (i + 1) - 1 = i /\ i + 1 \in Machine
      BY <2>0, Sizes
    <3>2. x[i + 1] = Larger(x[i], f[i + 1] + r[i + 1])
      BY <1>9, <3>1
    <3>3. f[i + 1] + r[i + 1] <= h[l][i + 1] /\ h[l][i + 1] \in Nat /\ f[i + 1] + r[i + 1] \in Nat
      BY <1>4, <1>10, <3>1
    <3>4. x[i] \in Nat /\ x[i] <= h[l][i + 1]
      <4>1. CASE i = 0
        BY <1>9, <2>2, <3>3, <4>1
      <4>2. CASE i # 0
        <5>1. i \in Machine /\ i + 1 >= 2 /\ i > 0
          BY <2>0, <4>2, Sizes
        <5>2. h[l][(i + 1) - 1] + ptm[i + 1][c[l]] <= h[l][i + 1]
          BY <1>1, <1>2, <3>1, <5>1, HeadsGrow
        <5>3. h[l][i] \in Nat /\ ptm[i + 1][c[l]] \in Nat /\ x[i] <= h[l][i] /\ x[i] \in Nat
          <6>1. c[l] \in Job
            BY <1>1
          <6> QED BY <1>10, <2>2, <3>1, <5>1, <6>1, Durations
        <5>4. h[l][i] + ptm[i + 1][c[l]] <= h[l][i + 1]
          BY <3>1, <5>2
        <5> QED BY <3>3, <5>3, <5>4
      <4> QED BY <4>1, <4>2
    <3>5. x[i + 1] \in Nat /\ x[i + 1] <= h[l][i + 1]
      BY <3>2, <3>3, <3>4 DEF Larger
    <3> QED BY <3>1, <3>5
  <2> HIDE DEF T, M
  <2> QED BY <2>0, <2>1, <2>2, UpTo
<1> DEFINE z == [m \in Machine |-> x[m] + b[m]]
<1>12. ASSUME NEW m \in Machine PROVE z[m] \in Nat /\ z[m] <= evalSolution(c)
  <2>1. m \in 0 .. M /\ m > 0
    BY Sizes
  <2>2. x[m] \in Nat /\ x[m] <= h[l][m] /\ b[m] \in Nat /\ h[l][m] \in Nat
    BY <1>4, <1>10, <1>11, <2>1
  <2>3. h[l][m] + t[l][m] <= evalSolution(c) + ptm[m][c[l]]
    BY <1>1, <1>2, HeadAndTail
  <2>4. b[m] + ptm[m][c[l]] <= t[l][m]
    BY <1>3 DEF Late
  <2>5. t[l][m] \in Nat /\ ptm[m][c[l]] \in Nat
    <3>1. l \in 1 .. Len(c) + 1 /\ c[l] \in Job
      BY <1>1
    <3> QED BY <1>1, <1>2, <3>1, TailsGrow, Durations
  <2>6. \A a, p, d, g1, i, j \in Nat : a <= d /\ d + g1 <= i + p /\ j + p <= g1 => a + j <= i
    OBVIOUS
  <2>7. x[m] + b[m] <= evalSolution(c)
    BY <1>2, <2>2, <2>3, <2>4, <2>5, <2>6, Zenon
  <2> QED BY <2>2, <2>7
<1>13. z \in Time
  BY <1>12 DEF Time
<1>14. Max({z[m] : m \in Machine}) <= evalSolution(c)
  <2> HIDE DEF z
  <2> QED BY <1>2, <1>12, <1>13, LargestTime
<1>15. {z[m] : m \in Machine} = {x[m] + b[m] : m \in Machine}
  OBVIOUS
<1> QED BY <1>8, <1>14, <1>15

-----------------------------------------------------------------------------
(* The bound of two machines: Johnson's order *)

\* The classes and keys by which Johnson's order sorts the jobs for a pair of
\* machines.
Short(q, j) == ptm[q[1]][j] < ptm[q[2]][j]
KeyOf(q, j) == (IF Short(q, j) THEN ptm[q[1]][j] ELSE ptm[q[2]][j]) + tempsLag(ptm, q, j)
Ahead(q, i, j) == estInf(ptm, q, i, j)

\* Johnson's order by class and key.
LEMMA AheadOf ==
  ASSUME NEW q, NEW i, NEW j
  PROVE  Ahead(q, i, j) <=>
           (IF ~(Short(q, i) <=> Short(q, j)) THEN Short(q, i)
            ELSE IF KeyOf(q, i) = KeyOf(q, j) THEN i < j
            ELSE IF Short(q, i) THEN KeyOf(q, i) < KeyOf(q, j) ELSE KeyOf(q, i) > KeyOf(q, j))
<1> DEFINE class(k) == IF ptm[q[1]][k] < ptm[q[2]][k] THEN 1 ELSE 2
           key(k) == ptm[q[class(k)]][k] + tempsLag(ptm, q, k)
<1>1. Ahead(q, i, j) <=> (IF class(i) # class(j) THEN class(i) = 1
                        ELSE IF key(i) = key(j) THEN i < j
                        ELSE IF class(i) = 1 THEN key(i) < key(j) ELSE key(i) > key(j))
  BY DEF Ahead, estInf
<1>2. \A k : class(k) = (IF Short(q, k) THEN 1 ELSE 2)
  BY DEF Short
<1>3. \A k : key(k) = KeyOf(q, k)
  <2> TAKE k
  <2>1. CASE Short(q, k)
    <3>1. class(k) = 1
      BY <1>2, <2>1
    <3> HIDE DEF class
    <3> QED BY <2>1, <3>1 DEF KeyOf
  <2>2. CASE ~Short(q, k)
    <3>1. class(k) = 2
      BY <1>2, <2>2
    <3> HIDE DEF class
    <3> QED BY <2>2, <3>1 DEF KeyOf
  <2> QED BY <2>1, <2>2
<1> HIDE DEF class, key
<1>4. (class(i) = 1 <=> Short(q, i)) /\ (class(i) # class(j) <=> ~(Short(q, i) <=> Short(q, j)))
  <2>1. class(i) = (IF Short(q, i) THEN 1 ELSE 2) /\ class(j) = (IF Short(q, j) THEN 1 ELSE 2)
    BY <1>2
  <2> QED BY <2>1
<1>5. key(i) = KeyOf(q, i) /\ key(j) = KeyOf(q, j)
  BY <1>3
<1> QED BY <1>1, <1>4, <1>5

\* A pair of machines: the first one is ahead of the second one.
LEMMA PairOf ==
  ASSUME NEW q \in machine
  PROVE  /\ q[1] \in Machine /\ q[2] \in Machine /\ q[1] < q[2] /\ q[1] \in Nat /\ q[2] \in Nat
         /\ q[1] + 1 \in 1 .. nbMachines + 1 /\ q[2] - 1 \in (q[1] + 1) - 1 .. nbMachines
         /\ q[2] - 1 \in q[1] .. nbMachines /\ q[2] - 1 \in Machine /\ q[2] >= 2
<1>1. q[1] \in Machine /\ q[2] \in Machine /\ q[1] < q[2]
  BY DEF machine
<1> QED BY <1>1, Sizes

\* Keys are natural numbers.
LEMMA KeyType ==
  ASSUME ptm \in Instances, NEW q \in machine, NEW j \in Job
  PROVE  /\ tempsLag(ptm, q, j) \in Nat /\ ptm[q[1]][j] \in Nat /\ ptm[q[2]][j] \in Nat
         /\ KeyOf(q, j) \in Nat
<1>1. tempsLag(ptm, q, j) \in Nat
  BY PairOf, ThroughType DEF tempsLag
<1>2. ptm[q[1]][j] \in Nat /\ ptm[q[2]][j] \in Nat
  BY PairOf, Durations
<1> QED BY <1>1, <1>2 DEF KeyOf

\* Johnson's order of all jobs for a pair of machines ...
JohnsonOrder(q) == {e \in Job \X Job : Ahead(q, e[1], e[2])}

\* ... is a strict and total one.
LEMMA JohnsonOrders ==
  ASSUME ptm \in Instances, NEW q \in machine
  PROVE  StrictOrder(JohnsonOrder(q), Job)
<1> DEFINE R == JohnsonOrder(q)
           In(i, j) == IF ~(Short(q, i) <=> Short(q, j)) THEN Short(q, i)
                       ELSE IF KeyOf(q, i) = KeyOf(q, j) THEN i < j
                       ELSE IF Short(q, i) THEN KeyOf(q, i) < KeyOf(q, j)
                                           ELSE KeyOf(q, i) > KeyOf(q, j)
<1>1. \A i, j \in Job : <<i, j>> \in R <=> In(i, j)
  <2> TAKE i \in Job, j \in Job
  <2>1. <<i, j>> \in R <=> Ahead(q, i, j)
    BY DEF JohnsonOrder
  <2> QED BY <2>1, AheadOf
<1>2. \A i \in Job : KeyOf(q, i) \in Nat /\ i \in Nat
  BY KeyType, Sizes
<1>3. \A i \in Job : ~In(i, i)
  BY <1>2
<1>4. ASSUME NEW x \in Job, NEW y \in Job, NEW z \in Job, In(x, y), In(y, z) PROVE In(x, z)
  <2>1. KeyOf(q, x) \in Nat /\ KeyOf(q, y) \in Nat /\ KeyOf(q, z) \in Nat /\ x \in Nat /\ y \in Nat /\ z \in Nat
    BY <1>2
  <2> QED BY <1>4, <2>1
<1>5. ASSUME NEW x \in Job, NEW y \in Job, x # y PROVE In(x, y) \/ In(y, x)
  <2>1. KeyOf(q, x) \in Nat /\ KeyOf(q, y) \in Nat /\ x \in Nat /\ y \in Nat
    BY <1>2
  <2> QED BY <1>5, <2>1
<1> HIDE DEF R, In
<1>6. StrictOrder(R, Job)
  BY <1>1, <1>3, <1>4, <1>5 DEF StrictOrder
<1> QED BY <1>6 DEF R

\* tabJohnson has each job once, in Johnson's order.
LEMMA JohnsonList ==
  ASSUME ptm \in Instances, NEW q \in machine
  PROVE  /\ tabJohnson[ptm][q] \in [1 .. nbJob -> Job]
         /\ \A j \in Job : \E n \in 1 .. nbJob : tabJohnson[ptm][q][n] = j
         /\ \A i, j \in 1 .. nbJob :
              i < j => Ahead(q, tabJohnson[ptm][q][i], tabJohnson[ptm][q][j])
<1> DEFINE R == JohnsonOrder(q)
           L == InOrder(Job, R)
<1>1. IsFiniteSet(Job) /\ Cardinality(Job) = nbJob
  <2>1. 0 \in Int /\ nbJob - 1 \in Int
    BY Sizes
  <2>2. IsFiniteSet(0 .. nbJob - 1)
        /\ Cardinality(0 .. nbJob - 1) = IF 0 > nbJob - 1 THEN 0 ELSE (nbJob - 1) - 0 + 1
    BY <2>1, FS_Interval
  <2> QED BY <2>2, Sizes
<1>2. StrictOrder(R, Job)
  BY JohnsonOrders
<1>3. /\ L \in [1 .. nbJob -> Job]
      /\ \A x \in Job : \E n \in 1 .. nbJob : L[n] = x
      /\ \A i, j \in 1 .. nbJob : i < j => <<L[i], L[j]>> \in R
  <2> HIDE DEF R
  <2> QED BY <1>1, <1>2, InOrderElements
<1>4. tabJohnson[ptm][q] = L
  <2>1. \A j \in Job : {i \in Job : estInf(ptm, q, i, j)} = {y \in Job : <<y, j>> \in R}
    BY DEF JohnsonOrder, Ahead
  <2>2. tabJohnson[ptm][q] =
          [k \in 1 .. nbJob |->
             CHOOSE j \in Job : Cardinality({i \in Job : estInf(ptm, q, i, j)}) = k - 1]
    BY DEF tabJohnson
  <2>3. L = [n \in 1 .. nbJob |->
               CHOOSE x \in Job : Cardinality({y \in Job : <<y, x>> \in R}) = n - 1]
    BY <1>1 DEF InOrder
  <2> HIDE DEF R, L
  <2> QED BY <2>1, <2>2, <2>3
<1>5. \A i, j \in Job : <<i, j>> \in R => Ahead(q, i, j)
  BY DEF JohnsonOrder
<1> HIDE DEF R, L
<1> QED BY <1>3, <1>4, <1>5

\* Moving jobs over to the side where they take longer does not shorten the two
\* sides together.
LEMMA Swap ==
  ASSUME NEW v, NEW w, \A j \in Job : v[j] \in Nat /\ w[j] \in Nat,
         NEW O \in SUBSET Job, NEW A \in SUBSET O, NEW B \in SUBSET O,
         \A j \in A \ B : v[j] <= w[j], \A j \in B \ A : w[j] <= v[j]
  PROVE  Total(v, A) + Total(w, O \ A) <= Total(v, B) + Total(w, O \ B)
<1> DEFINE X == A \cap B
           P == A \ B
           Q == B \ A
           R == O \ (A \cup B)
<1>1. A = X \cup P /\ X \cap P = {} /\ B = X \cup Q /\ X \cap Q = {}
      /\ O \ A = Q \cup R /\ Q \cap R = {} /\ O \ B = P \cup R /\ P \cap R = {}
  OBVIOUS
<1> HIDE DEF X, P, Q, R
<1>2. Total(v, X \cup P) = Total(v, X) + Total(v, P) /\ Total(v, X \cup Q) = Total(v, X) + Total(v, Q)
  BY <1>1, TotalUnion
<1>3. Total(w, Q \cup R) = Total(w, Q) + Total(w, R) /\ Total(w, P \cup R) = Total(w, P) + Total(w, R)
  BY <1>1, TotalUnion
<1>4. Total(v, P) <= Total(w, P) /\ Total(w, Q) <= Total(v, Q)
  <2>1. \A j \in Job : j \in P => v[j] <= w[j]
    BY DEF P
  <2>2. \A j \in Job : j \in Q => w[j] <= v[j]
    BY DEF Q
  <2> QED BY <2>1, <2>2, TotalAtMost
<1>5. /\ Total(v, X) \in Nat /\ Total(v, P) \in Nat /\ Total(v, Q) \in Nat
      /\ Total(w, P) \in Nat /\ Total(w, Q) \in Nat /\ Total(w, R) \in Nat
  BY TotalType
<1>6. (Total(v, X) + Total(v, P)) + (Total(w, Q) + Total(w, R))
        <= (Total(v, X) + Total(v, Q)) + (Total(w, P) + Total(w, R))
  BY <1>4, <1>5
<1> QED BY <1>1, <1>2, <1>3, <1>6

\* The work of a pair of machines along a path: the first machine does the jobs
\* of A and job j, j goes over, and the second machine does j and the rest.
PathTime(q, O, A, j) ==
  Total(ptm[q[1]], A \cup {j}) + tempsLag(ptm, q, j) + Total(ptm[q[2]], O \ A)

\* In any schedule some path is as long as a given one of Johnson's order.
LEMMA Exchange ==
  ASSUME ptm \in Instances, NEW q \in machine, NEW c, Distinct(c),
         NEW k \in 1 .. Len(c), NEW l \in k .. Len(c), NEW j \in Between(c, k, l)
  PROVE  \E i \in k .. l :
           PathTime(q, Between(c, k, l), {x \in Between(c, k, l) : Ahead(q, x, j)}, j)
             <= PathTime(q, Between(c, k, l), Between(c, k, i - 1), c[i])
<1> DEFINE O == Between(c, k, l)
           A == {x \in O : Ahead(q, x, j)}
           v == ptm[q[1]]
           w == ptm[q[2]]
           lag(x) == tempsLag(ptm, q, x)
<1>0. c \in Seq(Job) /\ k \in Nat /\ l \in Nat /\ Len(c) \in Nat /\ O \in SUBSET Job /\ j \in Job
      /\ \A i \in k .. l : i \in 1 .. Len(c) /\ i \in k .. Len(c) /\ c[i] \in O /\ c[i] \in Job
  BY DEF Between, Distinct
<1>1. \A x \in Job : v[x] \in Nat /\ w[x] \in Nat /\ lag(x) \in Nat /\ KeyOf(q, x) \in Nat
  BY KeyType
<1>2. /\ \A x, y \in Job : Ahead(q, x, y) <=>
           (IF ~(Short(q, x) <=> Short(q, y)) THEN Short(q, x)
            ELSE IF KeyOf(q, x) = KeyOf(q, y) THEN x < y
            ELSE IF Short(q, x) THEN KeyOf(q, x) < KeyOf(q, y) ELSE KeyOf(q, x) > KeyOf(q, y))
      /\ \A x \in Job : Short(q, x) <=> v[x] < w[x]
      /\ \A x \in Job : KeyOf(q, x) = (IF Short(q, x) THEN v[x] ELSE w[x]) + lag(x)
  BY AheadOf DEF Short, KeyOf
<1>3. ~Ahead(q, j, j) /\ j \in Nat
  BY <1>0, <1>2, Sizes
<1>4. \A i \in k .. l : /\ Between(c, k, i) = Between(c, k, i - 1) \cup {c[i]}
                        /\ c[i] \notin Between(c, k, i - 1)
                        /\ Between(c, k, i - 1) \in SUBSET O /\ Between(c, k, i) \in SUBSET O
  <2> TAKE i \in k .. l
  <2>1. Between(c, k, i) = Between(c, k, i - 1) \cup {c[i]} /\ c[i] \notin Between(c, k, i - 1)
    BY <1>0, BetweenGrows
  <2>2. Between(c, k, i) \in SUBSET O
    <3>1. \A x \in k .. i : x \in k .. l
      BY <1>0
    <3> QED BY <3>1 DEF Between
  <2> QED BY <2>1, <2>2
\* The time of a path, job j being counted on one side or on the other.
<1>5. \A B \in SUBSET O : \A x \in O \ B :
        /\ PathTime(q, O, B, x) = (Total(v, B) + Total(w, O \ B)) + (v[x] + lag(x))
        /\ PathTime(q, O, B, x) = (Total(v, B \cup {x}) + Total(w, O \ (B \cup {x}))) + (w[x] + lag(x))
        /\ Total(v, B) + Total(w, O \ B) \in Nat
        /\ Total(v, B \cup {x}) + Total(w, O \ (B \cup {x})) \in Nat
  <2> TAKE B \in SUBSET O
  <2> TAKE x \in O \ B
  <2> DEFINE Rest == O \ (B \cup {x})
  <2>0. x \in Job /\ x \notin B /\ x \notin Rest /\ O \ B = Rest \cup {x}
    BY <1>0
  <2> HIDE DEF Rest, v, w, lag, O
  <2>1. Total(v, B \cup {x}) = Total(v, B) + v[x]
    BY <1>1, <2>0, TotalAdd
  <2>2. Total(w, Rest \cup {x}) = Total(w, Rest) + w[x]
    BY <1>1, <2>0, TotalAdd
  <2>3. Total(v, B) \in Nat /\ Total(w, Rest) \in Nat /\ v[x] \in Nat /\ w[x] \in Nat /\ lag(x) \in Nat
    BY <1>1, <2>0, TotalType
  <2>4. PathTime(q, O, B, x) = Total(v, B \cup {x}) + lag(x) + Total(w, O \ B)
    BY DEF PathTime, v, w, lag
  <2>5. PathTime(q, O, B, x) = (Total(v, B) + v[x]) + lag(x) + (Total(w, Rest) + w[x])
    BY <2>0, <2>1, <2>2, <2>4
  <2>6. Total(w, O \ B) = Total(w, Rest) + w[x]
    BY <2>0, <2>2
  <2>7. O \ (B \cup {x}) = Rest
    BY DEF Rest
  <2>8. /\ PathTime(q, O, B, x) = (Total(v, B) + (Total(w, Rest) + w[x])) + (v[x] + lag(x))
        /\ PathTime(q, O, B, x) = ((Total(v, B) + v[x]) + Total(w, Rest)) + (w[x] + lag(x))
        /\ Total(v, B) + (Total(w, Rest) + w[x]) \in Nat
        /\ (Total(v, B) + v[x]) + Total(w, Rest) \in Nat
    <3> DEFINE t1 == Total(v, B)
               t2 == Total(w, Rest)
               v1 == v[x]
               w1 == w[x]
               g1 == lag(x)
    <3>1. t1 \in Nat /\ t2 \in Nat /\ v1 \in Nat /\ w1 \in Nat /\ g1 \in Nat
      BY <2>3
    <3>2. PathTime(q, O, B, x) = (t1 + v1) + g1 + (t2 + w1)
      BY <2>5
    <3> HIDE DEF t1, t2, v1, w1, g1
    <3>3. /\ PathTime(q, O, B, x) = (t1 + (t2 + w1)) + (v1 + g1)
          /\ PathTime(q, O, B, x) = ((t1 + v1) + t2) + (w1 + g1)
          /\ t1 + (t2 + w1) \in Nat /\ (t1 + v1) + t2 \in Nat
      BY <3>1, <3>2
    <3> QED BY <3>3 DEF t1, t2, v1, w1, g1
  <2> QED BY <2>1, <2>6, <2>7, <2>8
<1>6. A \in SUBSET O /\ j \in O \ A
  BY <1>3
<1>7. CASE Short(q, j)
  <2> DEFINE U == {i \in k .. l : Short(q, c[i]) /\ ~Ahead(q, c[i], j)}
  <2>1. PICK i0 \in k .. l : c[i0] = j
    BY DEF Between
  <2>2. U \in SUBSET Nat /\ i0 \in U
    BY <1>0, <1>3, <1>7, <2>1
  <2> DEFINE i == Min(U)
  <2>3. i \in U /\ \A x \in U : i <= x
    <3> HIDE DEF U
    <3> QED BY <2>2, LeastNumber
  <2>4. i \in k .. l /\ Short(q, c[i]) /\ ~Ahead(q, c[i], j) /\ i \in Nat
    BY <1>0, <2>3
  <2>5. \A x \in k .. i - 1 : ~Short(q, c[x]) \/ Ahead(q, c[x], j)
    <3> TAKE x \in k .. i - 1
    <3>1. x \in k .. l /\ ~(i <= x)
      BY <1>0, <2>4
    <3> QED BY <2>3, <3>1
  <2> HIDE DEF i, U
  <2> DEFINE B == Between(c, k, i - 1)
             y == c[i]
  <2>6. B \in SUBSET O /\ y \in O \ B /\ y \in Job
    BY <1>0, <1>4, <2>4
  <2>7. \A x \in A \ B : v[x] <= w[x]
    <3> TAKE x \in A \ B
    <3>1. x \in Job /\ Ahead(q, x, j)
      BY <1>0
    <3>2. Short(q, x)
      BY <1>0, <1>2, <1>7, <3>1
    <3>3. v[x] < w[x] /\ v[x] \in Nat /\ w[x] \in Nat
      <4> HIDE DEF v, w, lag
      <4> QED BY <1>1, <1>2, <3>1, <3>2
    <3> QED BY <3>3
  <2>8. \A x \in B \ A : w[x] <= v[x]
    <3> TAKE x \in B \ A
    <3>1. PICK e \in k .. i - 1 : x = c[e]
      BY DEF Between
    <3>2. x \in Job /\ x \in O /\ ~Ahead(q, x, j)
      BY <1>0, <2>6
    <3>3. ~Short(q, x)
      BY <2>5, <3>1, <3>2
    <3>4. ~(v[x] < w[x]) /\ v[x] \in Nat /\ w[x] \in Nat
      <4> HIDE DEF v, w, lag
      <4> QED BY <1>1, <1>2, <3>2, <3>3
    <3> HIDE DEF v, w
    <3> QED BY <3>4
  <2>9. Total(v, A) + Total(w, O \ A) <= Total(v, B) + Total(w, O \ B)
    <3> HIDE DEF v, w, A, B, O
    <3> QED BY <1>0, <1>1, <1>6, <2>6, <2>7, <2>8, Swap
  <2>10. v[j] + lag(j) <= v[y] + lag(y)
    <3>1. KeyOf(q, j) = v[j] + lag(j) /\ KeyOf(q, y) = v[y] + lag(y)
      <4> HIDE DEF v, w, lag, y
      <4> QED BY <1>0, <1>2, <1>7, <2>4, <2>6 DEF y
    <3>2. ~(KeyOf(q, y) < KeyOf(q, j))
      <4>1. ~Ahead(q, y, j) /\ Short(q, y)
        BY <2>4
      <4>2. KeyOf(q, y) \in Nat /\ KeyOf(q, j) \in Nat
        <5> HIDE DEF v, w, lag, y
        <5> QED BY <1>0, <1>1, <2>6
      <4> HIDE DEF y
      <4> QED BY <1>0, <1>2, <1>7, <2>6, <4>1, <4>2
    <3>3. KeyOf(q, y) \in Nat /\ KeyOf(q, j) \in Nat
      <4> HIDE DEF v, w, lag, y
      <4> QED BY <1>0, <1>1, <2>6
    <3> HIDE DEF v, lag, y
    <3> QED BY <3>1, <3>2, <3>3
  <2>11. PathTime(q, O, A, j) <= PathTime(q, O, B, y)
    <3> HIDE DEF v, w, lag, A, B, O, y
    <3>1. v[j] + lag(j) \in Nat /\ v[y] + lag(y) \in Nat
      <4>1. j \in Job /\ y \in Job
        BY <1>0, <2>6
      <4>2. v[j] \in Nat /\ lag(j) \in Nat /\ v[y] \in Nat /\ lag(y) \in Nat
        BY <1>1, <4>1, Zenon
      <4> QED BY <4>2
    <3>2. \A a, b, d, e \in Nat : a <= b /\ d <= e => a + d <= b + e
      OBVIOUS
    <3>3. (Total(v, A) + Total(w, O \ A)) + (v[j] + lag(j)) <= (Total(v, B) + Total(w, O \ B)) + (v[y] + lag(y))
      BY <1>5, <1>6, <2>6, <2>9, <2>10, <3>1, <3>2
    <3> QED BY <1>5, <1>6, <2>6, <3>3
  <2> QED BY <2>4, <2>11
<1>8. CASE ~Short(q, j)
  <2> DEFINE U == {i \in k .. l : ~Short(q, c[i]) /\ ~Ahead(q, j, c[i])}
  <2>1. PICK i0 \in k .. l : c[i0] = j
    BY DEF Between
  <2>2. U \in SUBSET Nat /\ i0 \in U
    BY <1>0, <1>3, <1>8, <2>1
  <2>2a. IsFiniteSet(U)
    <3>1. IsFiniteSet(k .. l) /\ U \subseteq k .. l
      BY <1>0, FS_Interval
    <3> HIDE DEF U
    <3> QED BY <3>1, FS_Subset
  <2> DEFINE i == Max(U)
  <2>3. i \in U /\ \A x \in U : x <= i
    <3> HIDE DEF U
    <3> QED BY <2>2, <2>2a, LargestNumber
  <2>4. i \in k .. l /\ ~Short(q, c[i]) /\ ~Ahead(q, j, c[i]) /\ i \in Nat
    BY <1>0, <2>3
  <2>5. \A x \in i + 1 .. l : Short(q, c[x]) \/ Ahead(q, j, c[x])
    <3> TAKE x \in i + 1 .. l
    <3>1. x \in k .. l /\ ~(x <= i)
      BY <1>0, <2>4
    <3> QED BY <2>3, <3>1
  <2> HIDE DEF i, U
  <2> DEFINE B == Between(c, k, i - 1)
             y == c[i]
             A1 == A \cup {j}
             B1 == B \cup {y}
  <2>6. B \in SUBSET O /\ y \in O \ B /\ y \in Job /\ B1 = Between(c, k, i)
    BY <1>0, <1>4, <2>4
  <2>6a. \A x \in O : x \in A1 <=> ~Ahead(q, j, x)
    <3> TAKE x \in O
    <3>1. x \in Job /\ x \in Nat /\ KeyOf(q, x) \in Nat /\ KeyOf(q, j) \in Nat
      BY <1>0, <1>1, Sizes
    <3>2. x # j => (Ahead(q, x, j) <=> ~Ahead(q, j, x))
      BY <1>0, <1>2, <1>3, <3>1
    <3> QED BY <1>3, <3>2
  <2>7. \A x \in A1 \ B1 : v[x] <= w[x]
    <3> TAKE x \in A1 \ B1
    <3>1. x \in O /\ x \in Job
      BY <1>0
    <3>1a. ~Ahead(q, j, x)
      BY <2>6a, <3>1
    <3>2. PICK e \in k .. l : x = c[e]
      BY <3>1 DEF Between
    <3>3. e \in i + 1 .. l
      <4>1. e \notin k .. i
        BY <2>6, <3>2 DEF Between
      <4> QED BY <1>0, <2>4, <4>1
    <3>4. Short(q, x)
      BY <2>5, <3>1a, <3>2, <3>3
    <3>5. v[x] < w[x] /\ v[x] \in Nat /\ w[x] \in Nat
      <4> HIDE DEF v, w, lag
      <4> QED BY <1>1, <1>2, <3>1, <3>4
    <3> QED BY <3>5
  <2>8. \A x \in B1 \ A1 : w[x] <= v[x]
    <3> TAKE x \in B1 \ A1
    <3>1. x \in O /\ x \in Job
      BY <1>0, <2>6
    <3>1a. Ahead(q, j, x)
      BY <2>6a, <3>1
    <3>2. ~Short(q, x)
      BY <1>0, <1>2, <1>8, <3>1, <3>1a
    <3>3. ~(v[x] < w[x]) /\ v[x] \in Nat /\ w[x] \in Nat
      <4> HIDE DEF v, w, lag
      <4> QED BY <1>1, <1>2, <3>1, <3>2
    <3> HIDE DEF v, w
    <3> QED BY <3>3
  <2>9. Total(v, A1) + Total(w, O \ A1) <= Total(v, B1) + Total(w, O \ B1)
    <3>1. A1 \in SUBSET O /\ B1 \in SUBSET O
      BY <1>6, <2>6
    <3> HIDE DEF v, w, A1, B1, O
    <3> QED BY <1>0, <1>1, <2>7, <2>8, <3>1, Swap
  <2>10. w[j] + lag(j) <= w[y] + lag(y)
    <3>1. KeyOf(q, j) = w[j] + lag(j) /\ KeyOf(q, y) = w[y] + lag(y)
      <4> HIDE DEF v, w, lag, y
      <4> QED BY <1>0, <1>2, <1>8, <2>4, <2>6 DEF y
    <3>2. ~(KeyOf(q, j) > KeyOf(q, y))
      <4>1. ~Ahead(q, j, y) /\ ~Short(q, y)
        BY <2>4
      <4>2. KeyOf(q, y) \in Nat /\ KeyOf(q, j) \in Nat
        <5> HIDE DEF v, w, lag, y
        <5> QED BY <1>0, <1>1, <2>6
      <4> HIDE DEF y
      <4> QED BY <1>0, <1>2, <1>8, <2>6, <4>1, <4>2
    <3>3. KeyOf(q, y) \in Nat /\ KeyOf(q, j) \in Nat
      <4> HIDE DEF v, w, lag, y
      <4> QED BY <1>0, <1>1, <2>6
    <3> HIDE DEF w, lag, y
    <3> QED BY <3>1, <3>2, <3>3
  <2>11. PathTime(q, O, A, j) <= PathTime(q, O, B, y)
    <3> HIDE DEF v, w, lag, A, B, O, y
    <3>1. w[j] + lag(j) \in Nat /\ w[y] + lag(y) \in Nat
      <4>1. j \in Job /\ y \in Job
        BY <1>0, <2>6
      <4>2. w[j] \in Nat /\ lag(j) \in Nat /\ w[y] \in Nat /\ lag(y) \in Nat
        BY <1>1, <4>1, Zenon
      <4> QED BY <4>2
    <3>2. \A a, b, d, e \in Nat : a <= b /\ d <= e => a + d <= b + e
      OBVIOUS
    <3>3. (Total(v, A1) + Total(w, O \ A1)) + (w[j] + lag(j)) <= (Total(v, B1) + Total(w, O \ B1)) + (w[y] + lag(y))
      BY <1>5, <1>6, <2>6, <2>9, <2>10, <3>1, <3>2
    <3> QED BY <1>5, <1>6, <2>6, <3>3
  <2> QED BY <2>4, <2>11
<1> QED BY <1>7, <1>8

\* The times of a path in a schedule: no more than its makespan.
LEMMA PathBounded ==
  ASSUME ptm \in Instances, NEW q \in machine, NEW c, Distinct(c),
         NEW h, HeadsOf(h, c), NEW t, TailsOf(t, c),
         NEW k \in 1 .. Len(c), NEW l \in k .. Len(c), NEW i \in k .. l,
         NEW f, Early(f, h, c, k), NEW b, Late(b, t, c, l)
  PROVE  f[q[1]] + PathTime(q, Between(c, k, l), Between(c, k, i - 1), c[i]) + b[q[2]]
           <= h[Len(c)][nbMachines]
<1> DEFINE E == h[Len(c)][nbMachines]
           O == Between(c, k, l)
           B == Between(c, k, i - 1)
           j == c[i]
           v == ptm[q[1]]
           w == ptm[q[2]]
           lag == tempsLag(ptm, q, j)
           S == Between(c, k + 1, i)
           R == Between(c, i + 1, l)
           x == f[q[1]]
           y == b[q[2]]
<1>0. /\ c \in Seq(Job) /\ k \in Nat /\ l \in Nat /\ Len(c) \in Nat /\ i \in Nat
      /\ l \in 1 .. Len(c) /\ i \in 1 .. Len(c) /\ i \in k .. Len(c) /\ l \in i .. Len(c)
      /\ j \in Job /\ c[k] \in Job /\ c[l] \in Job /\ k \in 0 .. Len(c) /\ i \in 0 .. Len(c)
      /\ l \in 0 .. Len(c) /\ Len(c) \in 0 .. Len(c) /\ l \in 1 .. Len(c) + 1
      /\ k <= i /\ i <= l
  BY DEF Distinct
<1>1. \A z \in Job : v[z] \in Nat /\ w[z] \in Nat
  BY KeyType
<1>2. /\ B \cup {j} = S \cup {c[k]} /\ c[k] \notin S
      /\ O \ B = R \cup {j} /\ j \notin R
  <2>1. Between(c, k, i) = B \cup {j}
    BY <1>0, BetweenGrows
  <2>2. Between(c, k, i) = S \cup {c[k]} /\ c[k] \notin S
    BY <1>0, BetweenGrows
  <2>3. Between(c, i, l) = R \cup {j} /\ j \notin R
    BY <1>0, BetweenGrows
  <2>4. O \ B = Between(c, i, l)
    <3>1. ASSUME NEW z \in i .. l PROVE c[z] \in O \ B
      <4>1. c[z] \in O
        BY <1>0 DEF Between
      <4>2. c[z] \notin B
        <5> SUFFICES ASSUME NEW e \in k .. i - 1, c[e] = c[z] PROVE FALSE
          BY DEF Between
        <5>1. e \in 1 .. Len(c) /\ z \in 1 .. Len(c) /\ e # z
          BY <1>0
        <5> QED BY <5>1 DEF Distinct
      <4> QED BY <4>1, <4>2
    <3>2. ASSUME NEW z \in k .. l, c[z] \notin B PROVE c[z] \in Between(c, i, l)
      <4>1. z \notin k .. i - 1
        BY <3>2 DEF Between
      <4>2. z \in i .. l
        BY <1>0, <4>1
      <4> QED BY <4>2 DEF Between
    <3> QED BY <3>1, <3>2 DEF Between
  <2> QED BY <2>1, <2>2, <2>3, <2>4
<1>3. Total(v, B \cup {j}) = Total(v, S) + v[c[k]] /\ Total(w, O \ B) = Total(w, R) + w[j]
  <2> HIDE DEF v, w, B, O, S, R, j
  <2>1. Total(v, S \cup {c[k]}) = Total(v, S) + v[c[k]]
    BY <1>0, <1>1, <1>2, TotalAdd
  <2>2. Total(w, R \cup {j}) = Total(w, R) + w[j]
    BY <1>0, <1>1, <1>2, TotalAdd
  <2> QED BY <1>2, <2>1, <2>2
<1>4. x + v[c[k]] <= h[k][q[1]] /\ y + w[c[l]] <= t[l][q[2]] /\ x \in Nat /\ y \in Nat
  BY PairOf DEF Early, Late, Time
<1>5. h[k][q[1]] + Total(v, S) <= h[i][q[1]]
  BY <1>0, PairOf, WorkBetween
<1>6. h[i][q[1]] + lag <= h[i][q[2] - 1]
  BY <1>0, PairOf, HeadThrough DEF tempsLag
<1>7. h[i][q[2] - 1] + w[j] <= h[i][q[2]]
  BY <1>0, PairOf, HeadsGrow
<1>8. h[i][q[2]] + Total(w, R) <= h[l][q[2]]
  BY <1>0, PairOf, WorkBetween
<1>9. h[l][q[2]] + t[l][q[2]] <= E + w[c[l]]
  BY <1>0, PairOf, HeadAndTail
<1>10. /\ h[k][q[1]] \in Nat /\ h[i][q[1]] \in Nat /\ h[i][q[2] - 1] \in Nat /\ h[i][q[2]] \in Nat
       /\ h[l][q[2]] \in Nat /\ t[l][q[2]] \in Nat /\ E \in Nat
  <2>1. nbMachines \in Machine
    BY Sizes
  <2> QED BY <1>0, <2>1, PairOf, HeadsGrow, TailsGrow
<1>11. Total(v, S) \in Nat /\ Total(w, R) \in Nat
  <2> HIDE DEF v, w, S, R
  <2> QED BY <1>1, TotalType
<1>12. v[c[k]] \in Nat /\ w[c[l]] \in Nat /\ w[j] \in Nat /\ lag \in Nat
  BY <1>0, <1>1, KeyType
<1>13. PathTime(q, O, B, j) = (Total(v, S) + v[c[k]]) + lag + (Total(w, R) + w[j])
  BY <1>3 DEF PathTime
<1> DEFINE a1 == h[k][q[1]]
           a2 == h[i][q[1]]
           a3 == h[i][q[2] - 1]
           a4 == h[i][q[2]]
           a5 == h[l][q[2]]
           t5 == t[l][q[2]]
           d1 == Total(v, S)
           d2 == Total(w, R)
           p1 == v[c[k]]
           p2 == w[c[l]]
           p3 == w[j]
<1>14. x + ((d1 + p1) + lag + (d2 + p3)) + y <= E
  <2>1. x + p1 <= a1 /\ a1 + d1 <= a2 /\ a2 + lag <= a3 /\ a3 + p3 <= a4 /\ a4 + d2 <= a5
        /\ y + p2 <= t5 /\ a5 + t5 <= E + p2
    BY <1>4, <1>5, <1>6, <1>7, <1>8, <1>9
  <2>2. /\ a1 \in Nat /\ a2 \in Nat /\ a3 \in Nat /\ a4 \in Nat /\ a5 \in Nat /\ t5 \in Nat /\ E \in Nat
        /\ d1 \in Nat /\ d2 \in Nat /\ p1 \in Nat /\ p2 \in Nat /\ p3 \in Nat /\ lag \in Nat
        /\ x \in Nat /\ y \in Nat
    BY <1>4, <1>10, <1>11, <1>12
  <2> HIDE DEF a1, a2, a3, a4, a5, t5, d1, d2, p1, p2, p3, lag, x, y, E
  <2> QED BY <2>1, <2>2
<1>15. PathTime(q, O, B, j) = (d1 + p1) + lag + (d2 + p3)
  BY <1>13
<1>16. x + PathTime(q, O, B, j) + y <= E
  <2> HIDE DEF d1, p1, lag, d2, p3, x, y, E, O, B, j
  <2> QED BY <1>14, <1>15
<1> QED BY <1>16

\* heuristiqueCmax: the first machine does all the work; the second one all of it
\* too, or it waits for some job of Johnson's order.
LEMMA CmaxOf ==
  ASSUME ptm \in Instances, NEW q \in machine, NEW f \in Time, NEW O \in SUBSET Job
  PROVE  LET t == heuristiqueCmax(f, O, q) IN
         /\ t \in Nat \X Nat
         /\ t[1] = f[q[1]] + Total(ptm[q[1]], O)
         /\ \/ t[2] = f[q[2]] + Total(ptm[q[2]], O)
            \/ \E j \in O : t[2] = f[q[1]] + PathTime(q, O, {x \in O : Ahead(q, x, j)}, j)
<1> DEFINE n == nbJob
           D == Nat \X Nat
           order == tabJohnson[ptm][q]
           v == ptm[q[1]]
           w == ptm[q[2]]
           lag(j) == tempsLag(ptm, q, j)
           zero == <<f[q[1]], f[q[2]]>>
           next(u, j) == IF j \notin O THEN u
                         ELSE <<u[1] + v[j], Larger(u[2], (u[1] + v[j]) + lag(j)) + w[j]>>
           g == [x \in (1 .. n) \X D |-> next(x[2], order[x[1]])]
           step(after) == [k \in 0 .. n |->
             IF k = 0 THEN <<f[q[1]], f[q[2]]>>
             ELSE LET j == order[k]
                      x == after[k - 1][1] + ptm[q[1]][j]
                  IN IF j \notin O THEN after[k - 1]
                     ELSE <<x, Larger(after[k - 1][2], x + tempsLag(ptm, q, j))
                                     + ptm[q[2]][j]>>]
<1>0. /\ n \in Nat /\ \A k \in 1 .. n : order[k] \in Job
      /\ (\A j \in Job : \E k \in 1 .. n : order[k] = j)
      /\ \A i, j \in 1 .. n : i < j => Ahead(q, order[i], order[j])
  BY JohnsonList, Sizes
<1>1. /\ \A j \in Job : v[j] \in Nat /\ w[j] \in Nat /\ lag(j) \in Nat
      /\ f[q[1]] \in Nat /\ f[q[2]] \in Nat
  <2>1. \A j \in Job : v[j] \in Nat /\ w[j] \in Nat /\ lag(j) \in Nat
    BY KeyType
  <2>2. f[q[1]] \in Nat /\ f[q[2]] \in Nat
    BY PairOf DEF Time
  <2> HIDE DEF v, w, lag
  <2> QED BY <2>1, <2>2
<1>2. zero \in D
  <2> HIDE DEF n, order, v, w, lag, next, g, step
  <2>1. f[q[1]] \in Nat /\ f[q[2]] \in Nat
    BY <1>1
  <2> QED BY <2>1
<1>3. \A u \in D : \A j \in Job : next(u, j) \in D
  <2> TAKE u \in D
  <2> TAKE j \in Job
  <2>1. u[1] \in Nat /\ u[2] \in Nat /\ v[j] \in Nat /\ w[j] \in Nat /\ lag(j) \in Nat
    BY <1>1
  <2> HIDE DEF v, w, lag
  <2>2. u[1] + v[j] \in Nat /\ Larger(u[2], (u[1] + v[j]) + lag(j)) + w[j] \in Nat
    BY <2>1 DEF Larger
  <2> QED BY <2>2
<1>4. g \in [(1 .. n) \X D -> D]
  <2> HIDE DEF next, D, order, n
  <2> QED BY <1>0, <1>3
<1>5. PICK e \in [0 .. n -> D] : Recurs(e, n, zero, g)
  <2> HIDE DEF g, zero, n, D
  <2> QED BY <1>0, <1>2, <1>4, Recursive
<1>6. \A k \in 0 .. n : e[k] = IF k = 0 THEN zero ELSE next(e[k - 1], order[k])
  <2> TAKE k \in 0 .. n
  <2>1. CASE k = 0
    <3> HIDE DEF g, zero
    <3> QED BY <1>5, <2>1 DEF Recurs
  <2>2. CASE k # 0
    <3>1. k \in 1 .. n /\ k - 1 \in 0 .. n
      BY <1>0, <2>2
    <3>2. e[k] = g[<<k, e[k - 1]>>] /\ e[k - 1] \in D
      <4> HIDE DEF g, zero, D, n
      <4> QED BY <1>5, <2>2, <3>1 DEF Recurs
    <3>3. g[<<k, e[k - 1]>>] = next(e[k - 1], order[k])
      <4> HIDE DEF next, D, order, n
      <4> QED BY <3>1, <3>2
    <3> HIDE DEF g, next
    <3> QED BY <2>2, <3>2, <3>3
  <2> QED BY <2>1, <2>2
<1>7. e = step(e)
  <2>1. e = [k \in 0 .. n |-> IF k = 0 THEN zero ELSE next(e[k - 1], order[k])]
    <3> HIDE DEF next, zero, D, order, n
    <3>1. e = [k \in 0 .. n |-> e[k]]
      OBVIOUS
    <3> QED BY <1>6, <3>1
  <2>2. step(e) = [k \in 0 .. n |-> IF k = 0 THEN zero ELSE next(e[k - 1], order[k])]
    OBVIOUS
  <2> HIDE DEF step, next, zero
  <2> QED BY <2>1, <2>2
<1>8. PICK after : after = step(after) /\ heuristiqueCmax(f, O, q) = after[n]
  BY <1>7 DEF heuristiqueCmax
<1>9. \A k \in 0 .. n : after[k] = IF k = 0 THEN zero ELSE next(after[k - 1], order[k])
  <2>1. step(after) = [k \in 0 .. n |-> IF k = 0 THEN zero ELSE next(after[k - 1], order[k])]
    OBVIOUS
  <2> HIDE DEF step, next, zero
  <2> QED BY <1>8, <2>1
\* The jobs that come up to a place of the order.
<1> DEFINE Done(k) == {order[i] : i \in 1 .. k} \cap O
           Waits(k, i) == f[q[1]] + (Total(v, Done(i)) + lag(order[i]))
                            + Total(w, Done(k) \ Done(i - 1))
           Fine(k) == /\ after[k] \in D
                      /\ after[k][1] = f[q[1]] + Total(v, Done(k))
                      /\ \/ after[k][2] = f[q[2]] + Total(w, Done(k))
                         \/ \E i \in 1 .. k : order[i] \in O /\ after[k][2] = Waits(k, i)
           T == {k \in 0 .. n : Fine(k)}
<1>10. 0 \in T
  <2>1. Done(0) = {}
    OBVIOUS
  <2>2. Total(v, {}) = 0 /\ Total(w, {}) = 0
    <3> HIDE DEF v, w
    <3> QED BY <1>1, TotalEmpty
  <2>3. after[0] = zero
    <3>1. 0 \in 0 .. n
      BY <1>0
    <3> HIDE DEF next, zero, n, order
    <3> QED BY <1>9, <3>1
  <2>4. after[0][1] = f[q[1]] + Total(v, Done(0)) /\ after[0][2] = f[q[2]] + Total(w, Done(0))
    <3>1. after[0][1] = f[q[1]] /\ after[0][2] = f[q[2]]
      BY <2>3
    <3>2. Total(v, Done(0)) = 0 /\ Total(w, Done(0)) = 0
      <4> HIDE DEF v, w, Done
      <4> QED BY <2>1, <2>2
    <3>3. f[q[1]] \in Nat /\ f[q[2]] \in Nat
      BY <1>1
    <3> HIDE DEF v, w, Done
    <3> QED BY <3>1, <3>2, <3>3
  <2>5. Fine(0)
    <3> HIDE DEF v, w, Done, Waits, zero, D
    <3> QED BY <1>2, <2>3, <2>4
  <2> HIDE DEF Fine
  <2> QED BY <1>0, <2>5
<1>11. ASSUME NEW k \in 0 .. n - 1, k \in T PROVE k + 1 \in T
  <2>0. k + 1 \in 0 .. n /\ k + 1 \in 1 .. n /\ (k + 1) - 1 = k /\ k + 1 # 0 /\ k \in Nat
        /\ 1 .. k + 1 = (1 .. k) \cup {k + 1} /\ \A i \in 1 .. k : i \in 1 .. n /\ i \in 1 .. k + 1
    BY <1>0
  <2> DEFINE j == order[k + 1]
             u == after[k]
             A == Done(k)
  <2>1. after[k + 1] = next(u, j)
    <3> HIDE DEF next, zero, order, n
    <3> QED BY <1>9, <2>0
  <2>2. Fine(k) /\ j \in Job
    BY <1>0, <1>11, <2>0
  <2>3. u \in D /\ u[1] = f[q[1]] + Total(v, A)
    BY <2>2
  <2>4. Done(k + 1) = IF j \in O THEN A \cup {j} ELSE A
    <3> HIDE DEF order
    <3>1. {order[i] : i \in 1 .. k + 1} = {order[i] : i \in 1 .. k} \cup {order[k + 1]}
      BY <2>0
    <3> QED BY <3>1 DEF order
  <2>5. CASE j \notin O
    <3>1. after[k + 1] = u /\ Done(k + 1) = A
      <4> HIDE DEF Done, order
      <4> QED BY <2>1, <2>4, <2>5 DEF order
    <3>2. \A i \in 1 .. k : Waits(k + 1, i) = Waits(k, i)
      BY <3>1
    <3>3. Fine(k + 1)
      <4> HIDE DEF Waits, Done, D, v, w
      <4> QED BY <2>0, <2>2, <3>1, <3>2
    <3> HIDE DEF Fine
    <3> QED BY <2>0, <3>3
  <2>6. CASE j \in O
    <3>1. j \notin A
      <4> SUFFICES ASSUME NEW i \in 1 .. k, order[i] = j PROVE FALSE
        OBVIOUS
      <4>0. order[i] = j
        OBVIOUS
      <4>1. i \in 1 .. n /\ i < k + 1
        BY <2>0
      <4>2. Ahead(q, j, j)
        <5> HIDE DEF order, n, j
        <5>1. Ahead(q, order[i], order[k + 1])
          BY <1>0, <2>0, <4>1
        <5>2. order[i] = j /\ order[k + 1] = j
          BY <4>0 DEF j
        <5> QED BY <5>1, <5>2
      <4>4. j < j
        <5> HIDE DEF j
        <5> QED BY <4>2, AheadOf
      <4>5. j \in Nat
        BY <2>2, Sizes
      <4> HIDE DEF j
      <4> QED BY <4>4, <4>5
    <3>2. Done(k + 1) = A \cup {j}
      <4> HIDE DEF Done, j
      <4> QED BY <2>4, <2>6
    <3>3. Total(v, Done(k + 1)) = Total(v, A) + v[j] /\ Total(w, Done(k + 1)) = Total(w, A) + w[j]
      <4> HIDE DEF v, w, Done, A, j
      <4> QED BY <1>1, <2>2, <3>1, <3>2, TotalAdd
    <3>4. /\ v[j] \in Nat /\ w[j] \in Nat /\ lag(j) \in Nat /\ f[q[1]] \in Nat /\ f[q[2]] \in Nat
          /\ u[1] \in Nat /\ u[2] \in Nat
      <4>1. u[1] \in Nat /\ u[2] \in Nat
        <5> HIDE DEF u
        <5> QED BY <2>3
      <4> HIDE DEF v, w, lag, j, u
      <4> QED BY <1>1, <2>2, <4>1
    <3>5. Total(v, A) \in Nat /\ Total(w, A) \in Nat
      <4> HIDE DEF v, w, A
      <4> QED BY <1>1, TotalType
    <3>6. after[k + 1] = <<u[1] + v[j], Larger(u[2], (u[1] + v[j]) + lag(j)) + w[j]>>
      <4> HIDE DEF v, w, lag, u, j
      <4> QED BY <2>1, <2>6
    <3>7. after[k + 1] \in D
      <4> HIDE DEF next, D, n
      <4> QED BY <1>3, <2>1, <2>2, <2>3
    <3>8. after[k + 1][1] = f[q[1]] + Total(v, Done(k + 1))
      <4>1. after[k + 1][1] = u[1] + v[j]
        BY <3>6
      <4> HIDE DEF v, w, lag, u, j, Done, A
      <4> QED BY <2>3, <3>3, <3>4, <3>5, <4>1
    <3>9. after[k + 1][2] = Larger(u[2], (u[1] + v[j]) + lag(j)) + w[j]
      BY <3>6
    \* The second machine waits for this job.
    <3>10. CASE ~(u[2] >= (u[1] + v[j]) + lag(j))
      <4>1. after[k + 1][2] = ((u[1] + v[j]) + lag(j)) + w[j]
        <5> HIDE DEF u, v, j, lag, w
        <5> QED BY <3>9, <3>10 DEF Larger
      <4>2. Waits(k + 1, k + 1) = f[q[1]] + (Total(v, Done(k + 1)) + lag(j)) + Total(w, Done(k + 1) \ A)
        <5> HIDE DEF Done, lag, v, w
        <5> QED BY <2>0
      <4>3. Done(k + 1) \ A = {j}
        <5> HIDE DEF Done, A, j
        <5> QED BY <3>1, <3>2
      <4>4. Total(w, {j}) = w[j]
        <5> HIDE DEF w, j
        <5> QED BY <1>1, <2>2, TotalOne
      <4>5. Waits(k + 1, k + 1) = f[q[1]] + ((Total(v, A) + v[j]) + lag(j)) + w[j]
        <5> HIDE DEF Waits, Done, A, lag, v, w, j
        <5> QED BY <3>3, <4>2, <4>3, <4>4
      <4>6. ((u[1] + v[j]) + lag(j)) + w[j] = f[q[1]] + ((Total(v, A) + v[j]) + lag(j)) + w[j]
        <5> DEFINE x1 == u[1]
                   x2 == f[q[1]]
                   x3 == Total(v, A)
                   x4 == v[j]
                   x5 == lag(j)
                   x6 == w[j]
        <5>1. /\ x1 = x2 + x3 /\ x1 \in Nat /\ x2 \in Nat /\ x3 \in Nat /\ x4 \in Nat /\ x5 \in Nat
              /\ x6 \in Nat
          BY <2>3, <3>4, <3>5
        <5> HIDE DEF x1, x2, x3, x4, x5, x6
        <5>2. ((x1 + x4) + x5) + x6 = x2 + ((x3 + x4) + x5) + x6
          BY <5>1
        <5> QED BY <5>2 DEF x1, x2, x3, x4, x5, x6
      <4>7. after[k + 1][2] = Waits(k + 1, k + 1)
        <5> HIDE DEF Waits, A, lag, v, w, j, u
        <5> QED BY <4>1, <4>5, <4>6
      <4>8. Fine(k + 1)
        <5>1. k + 1 \in 1 .. k + 1 /\ order[k + 1] \in O
          BY <2>0, <2>6
        <5> HIDE DEF Waits, D, v, w, Done, order
        <5> QED BY <3>7, <3>8, <4>7, <5>1
      <4> HIDE DEF Fine
      <4> QED BY <2>0, <4>8
    \* It is busy as before.
    <3>11. CASE u[2] >= (u[1] + v[j]) + lag(j)
      <4>1. after[k + 1][2] = u[2] + w[j]
        <5> HIDE DEF u, v, j, lag, w
        <5> QED BY <3>9, <3>11 DEF Larger
      <4>2. CASE u[2] = f[q[2]] + Total(w, A)
        <5>1. after[k + 1][2] = f[q[2]] + Total(w, Done(k + 1))
          <6> HIDE DEF u, v, j, lag, w, Done, A
          <6> QED BY <3>3, <3>4, <3>5, <4>1, <4>2
        <5>2. Fine(k + 1)
          <6> HIDE DEF Waits, D, v, w, Done, order
          <6> QED BY <3>7, <3>8, <5>1
        <5> HIDE DEF Fine
        <5> QED BY <2>0, <5>2
      <4>3. ASSUME NEW i \in 1 .. k, order[i] \in O, u[2] = Waits(k, i) PROVE Fine(k + 1)
        <5>1. Done(i - 1) \subseteq A
          <6>1. \A x \in 1 .. i - 1 : x \in 1 .. k
            BY <2>0
          <6> QED BY <6>1
        <5> DEFINE R == A \ Done(i - 1)
        <5>2. Done(k + 1) \ Done(i - 1) = R \cup {j} /\ j \notin R
          <6> HIDE DEF Done, A, j
          <6> QED BY <3>1, <3>2, <5>1
        <5>3. Total(w, R \cup {j}) = Total(w, R) + w[j] /\ Total(w, R) \in Nat
          <6> HIDE DEF w, R, j
          <6> QED BY <1>1, <2>2, <5>2, TotalAdd, TotalType
        <5> DEFINE z == f[q[1]] + (Total(v, Done(i)) + lag(order[i]))
        <5>4. z \in Nat
          <6>1. order[i] \in Job
            BY <4>3
          <6>2. Total(v, Done(i)) \in Nat
            <7> HIDE DEF v, Done
            <7> QED BY <1>1, TotalType
          <6>3. lag(order[i]) \in Nat
            <7> HIDE DEF lag, order
            <7> QED BY <1>1, <6>1
          <6> HIDE DEF v, Done, lag, order
          <6> QED BY <1>1, <6>2, <6>3
        <5>5. Waits(k, i) = z + Total(w, R) /\ Waits(k + 1, i) = z + Total(w, R \cup {j})
          <6>1. Waits(k + 1, i) = z + Total(w, Done(k + 1) \ Done(i - 1))
            OBVIOUS
          <6> HIDE DEF R, j
          <6>2. Done(k + 1) \ Done(i - 1) = R \cup {j}
            BY <5>2
          <6> QED BY <6>1, <6>2 DEF R
        <5>6. after[k + 1][2] = Waits(k + 1, i)
          <6> HIDE DEF Waits, z, R, w, u, j
          <6> QED BY <3>4, <4>1, <4>3, <5>3, <5>4, <5>5
        <5>7. i \in 1 .. k + 1
          BY <2>0
        <5> HIDE DEF Waits, D, v, w, Done, order
        <5> QED BY <3>7, <3>8, <4>3, <5>6, <5>7
      <4>4. Fine(k + 1)
        <5> HIDE DEF Waits, D, v, w, Done, order
        <5> QED BY <2>2, <4>2, <4>3
      <4> HIDE DEF Fine
      <4> QED BY <2>0, <4>4
    <3> QED BY <3>10, <3>11
  <2> QED BY <2>5, <2>6
<1>12. Fine(n)
  <2> HIDE DEF T, n
  <2>1. \A k \in 0 .. n : k \in T
    BY <1>0, <1>10, <1>11, UpTo
  <2>2. n \in T
    BY <1>0, <2>1
  <2> HIDE DEF Fine
  <2> QED BY <2>2 DEF T
<1>13. Done(n) = O
  <2> HIDE DEF order
  <2>1. \A j \in O : \E k \in 1 .. n : order[k] = j
    BY <1>0
  <2> QED BY <2>1
<1>14. ASSUME NEW i \in 1 .. n, order[i] \in O
       PROVE  /\ Done(i - 1) = {x \in O : Ahead(q, x, order[i])}
              /\ Done(i) = Done(i - 1) \cup {order[i]}
  <2>1. 1 .. i = (1 .. i - 1) \cup {i} /\ i \in Nat
    BY <1>0
  <2>2. Done(i) = Done(i - 1) \cup {order[i]}
    <3>1. {order[x] : x \in 1 .. i} = {order[x] : x \in 1 .. i - 1} \cup {order[i]}
      <4> HIDE DEF order
      <4> QED BY <2>1
    <3> HIDE DEF order
    <3> QED BY <1>14, <3>1
  <2>3. ASSUME NEW x \in Done(i - 1) PROVE x \in O /\ Ahead(q, x, order[i])
    <3>1. PICK d \in 1 .. i - 1 : x = order[d]
      OBVIOUS
    <3>2. d \in 1 .. n /\ d < i
      BY <1>0
    <3> HIDE DEF order, n
    <3> QED BY <1>0, <2>3, <3>1, <3>2
  <2>4. ASSUME NEW x \in O, Ahead(q, x, order[i]) PROVE x \in Done(i - 1)
    <3>1. PICK d \in 1 .. n : order[d] = x
      <4> HIDE DEF order, n
      <4> QED BY <1>0
    <3>2. d < i
      <4> SUFFICES ASSUME ~(d < i) PROVE FALSE
        OBVIOUS
      <4>1. d = i \/ i < d
        BY <1>0
      <4>2. Ahead(q, order[i], order[i]) \/ (Ahead(q, order[d], order[i]) /\ Ahead(q, order[i], order[d]))
        <5> HIDE DEF order, n
        <5> QED BY <1>0, <2>4, <3>1, <4>1
      <4>3. order[i] \in Job /\ order[d] \in Job
        BY <1>0
      <4>4. StrictOrder(JohnsonOrder(q), Job)
        BY JohnsonOrders
      <4>5. /\ ~Ahead(q, order[i], order[i])
            /\ Ahead(q, order[d], order[i]) /\ Ahead(q, order[i], order[d]) => Ahead(q, order[d], order[d])
            /\ ~Ahead(q, order[d], order[d])
        <5>1. \A x1, y1 \in Job : <<x1, y1>> \in JohnsonOrder(q) <=> Ahead(q, x1, y1)
          BY DEF JohnsonOrder
        <5> HIDE DEF order
        <5> QED BY <4>3, <4>4, <5>1 DEF StrictOrder
      <4> HIDE DEF order
      <4> QED BY <4>2, <4>5
    <3>3. d \in 1 .. i - 1
      BY <1>0, <3>2
    <3> HIDE DEF order
    <3> QED BY <3>1, <3>3
  <2> HIDE DEF Done, order
  <2>5. Done(i - 1) \subseteq {x \in O : Ahead(q, x, order[i])}
    BY <2>3
  <2>6. {x \in O : Ahead(q, x, order[i])} \subseteq Done(i - 1)
    BY <2>4
  <2> QED BY <2>2, <2>5, <2>6
<1>15. after[n][2] = f[q[2]] + Total(w, O)
       \/ \E j \in O : after[n][2] = f[q[1]] + PathTime(q, O, {x \in O : Ahead(q, x, j)}, j)
  <2>1. CASE after[n][2] = f[q[2]] + Total(w, Done(n))
    <3> HIDE DEF Done
    <3> QED BY <1>13, <2>1
  <2>2. ASSUME NEW i \in 1 .. n, order[i] \in O, after[n][2] = Waits(n, i)
        PROVE  \E j \in O : after[n][2] = f[q[1]] + PathTime(q, O, {x \in O : Ahead(q, x, j)}, j)
    <3> DEFINE j == order[i]
               A == {x \in O : Ahead(q, x, j)}
    <3>1. Done(i - 1) = A /\ Done(i) = A \cup {j}
      <4> HIDE DEF Done, order
      <4> QED BY <1>14, <2>2 DEF order
    <3>2. Waits(n, i) = f[q[1]] + (Total(v, A \cup {j}) + lag(j)) + Total(w, O \ A)
      <4> HIDE DEF Done, v, w, lag, A
      <4> QED BY <1>13, <3>1
    <3>3. PathTime(q, O, A, j) = (Total(v, A \cup {j}) + lag(j)) + Total(w, O \ A)
      BY DEF PathTime
    <3>4. f[q[1]] \in Nat /\ Total(v, A \cup {j}) + lag(j) \in Nat /\ Total(w, O \ A) \in Nat
      <4>1. j \in Job
        BY <2>2
      <4>2. lag(j) \in Nat
        <5> HIDE DEF lag, j
        <5> QED BY <1>1, <4>1
      <4>3. Total(v, A \cup {j}) \in Nat /\ Total(w, O \ A) \in Nat
        <5> HIDE DEF v, w, A, j
        <5> QED BY <1>1, TotalType
      <4> HIDE DEF v, w, A, j, lag
      <4> QED BY <1>1, <4>2, <4>3
    <3>5. Waits(n, i) = f[q[1]] + PathTime(q, O, A, j)
      <4> DEFINE x1 == f[q[1]]
                 x2 == Total(v, A \cup {j}) + lag(j)
                 x3 == Total(w, O \ A)
      <4>1. x1 + x2 + x3 = x1 + (x2 + x3)
        <5>1. x1 \in Nat /\ x2 \in Nat /\ x3 \in Nat
          BY <3>4
        <5> HIDE DEF x1, x2, x3
        <5> QED BY <5>1
      <4> HIDE DEF Waits, v, w, A, j, lag
      <4> QED BY <3>2, <3>3, <4>1
    <3> HIDE DEF Waits
    <3> QED BY <2>2, <3>5
  <2> HIDE DEF Waits, D, v, w, Done, order
  <2> QED BY <1>12, <2>1, <2>2
<1>16. after[n] \in D /\ after[n][1] = f[q[1]] + Total(v, O)
  <2> HIDE DEF Waits, D, v, w, Done, order
  <2> QED BY <1>12, <1>13
<1> QED BY <1>8, <1>15, <1>16

\* The largest of some numbers below a bound.
LEMMA LargestBelow ==
  ASSUME NEW S, S # {}, NEW x \in [S -> Nat], NEW e \in Nat, \A q \in S : x[q] <= e
  PROVE  Max({x[q] : q \in S}) \in Nat /\ Max({x[q] : q \in S}) <= e
<1> DEFINE T == {x[q] : q \in S}
<1>1. T \in SUBSET Nat /\ T # {} /\ \A z \in T : z <= e
  OBVIOUS
<1>2. IsFiniteSet(T)
  BY <1>1, FS_BoundedSetOfNaturals
<1>3. Max(T) \in T
  <2> HIDE DEF T
  <2> QED BY <1>1, <1>2, LargestNumber
<1> HIDE DEF T
<1>4. Max(T) \in Nat /\ Max(T) <= e
  BY <1>1, <1>3
<1> QED BY <1>4 DEF T

\* The two-machine bound of one pair: neither machine ends later than in a
\* schedule that completes the node.
LEMMA TwoMachines ==
  ASSUME ptm \in Instances, NEW q \in machine, NEW c, Distinct(c),
         NEW h, HeadsOf(h, c), NEW t, TailsOf(t, c),
         NEW k \in 1 .. Len(c), NEW l \in k .. Len(c),
         NEW f, Early(f, h, c, k), NEW b, Late(b, t, c, l)
  PROVE  LET u == heuristiqueCmax(f, Between(c, k, l), q) IN
         /\ u[1] + b[q[1]] <= h[Len(c)][nbMachines]
         /\ u[2] + b[q[2]] <= h[Len(c)][nbMachines]
         /\ u[1] \in Nat /\ u[2] \in Nat /\ b[q[1]] \in Nat /\ b[q[2]] \in Nat
<1> DEFINE E == h[Len(c)][nbMachines]
           O == Between(c, k, l)
           u == heuristiqueCmax(f, O, q)
           x == f[q[1]]
           y == b[q[2]]
<1>0. /\ O \in SUBSET Job /\ f \in Time /\ b \in Time /\ q[1] \in Machine /\ q[2] \in Machine
      /\ E \in Nat /\ c \in Seq(Job) /\ \A z \in O : \A i \in k .. l : z \in Job
  <2>1. c \in Seq(Job) /\ Len(c) \in Nat /\ \A i \in k .. l : c[i] \in Job
    BY DEF Distinct
  <2>2. nbMachines \in Machine /\ Len(c) \in 0 .. Len(c)
    BY <2>1, Sizes
  <2>3. E \in Nat
    BY <2>1, <2>2, HeadsGrow
  <2> QED BY <2>1, <2>3, PairOf DEF Early, Late, Between
<1>1. /\ u \in Nat \X Nat
      /\ u[1] = x + Total(ptm[q[1]], O)
      /\ \/ u[2] = f[q[2]] + Total(ptm[q[2]], O)
         \/ \E j \in O : u[2] = x + PathTime(q, O, {z \in O : Ahead(q, z, j)}, j)
  <2> HIDE DEF O, E
  <2> QED BY <1>0, CmaxOf
<1>2. /\ x \in Nat /\ y \in Nat /\ b[q[1]] \in Nat /\ f[q[2]] \in Nat
  BY <1>0 DEF Time
<1>3. \A m \in Machine : f[m] + Total(ptm[m], O) + b[m] <= E
  <2> TAKE m \in Machine
  <2>1. f[m] + ptm[m][c[k]] <= h[k][m] /\ b[m] + ptm[m][c[l]] <= t[l][m]
        /\ f[m] \in Nat /\ b[m] \in Nat
    BY DEF Early, Late, Time
  <2> QED BY <2>1, Squeezed
<1>4. u[1] + b[q[1]] <= E
  <2>1. x + Total(ptm[q[1]], O) + b[q[1]] <= E
    BY <1>0, <1>3
  <2> HIDE DEF x, E, O, u
  <2> QED BY <1>1, <2>1
<1>5. u[2] + y <= E
  <2>1. CASE u[2] = f[q[2]] + Total(ptm[q[2]], O)
    <3>1. f[q[2]] + Total(ptm[q[2]], O) + y <= E
      BY <1>0, <1>3
    <3> HIDE DEF E, O, u, y
    <3> QED BY <2>1, <3>1
  <2>2. ASSUME NEW j \in O, u[2] = x + PathTime(q, O, {z \in O : Ahead(q, z, j)}, j)
        PROVE  u[2] + y <= E
    <3> DEFINE d == PathTime(q, O, {z \in O : Ahead(q, z, j)}, j)
    <3>1. PICK i \in k .. l : d <= PathTime(q, O, Between(c, k, i - 1), c[i])
      BY Exchange
    <3> DEFINE s == PathTime(q, O, Between(c, k, i - 1), c[i])
    <3>2. x + s + y <= E
      BY PathBounded
    <3>3. d \in Nat /\ s \in Nat
      <4> DEFINE v == ptm[q[1]]
                 w == ptm[q[2]]
      <4>1. \A z \in Job : v[z] \in Nat /\ w[z] \in Nat
        BY KeyType
      <4>2. \A R : Total(v, R) \in Nat /\ Total(w, R) \in Nat
        <5> TAKE R
        <5> HIDE DEF v, w
        <5> QED BY <4>1, TotalType
      <4>3. tempsLag(ptm, q, j) \in Nat /\ tempsLag(ptm, q, c[i]) \in Nat
        <5>1. j \in Job /\ c[i] \in Job
          BY <1>0 DEF Distinct
        <5> QED BY <5>1, KeyType
      <4> HIDE DEF v, w, O
      <4>4. \A z, R, Q : tempsLag(ptm, q, z) \in Nat =>
              Total(v, R) + tempsLag(ptm, q, z) + Total(w, Q) \in Nat
        BY <4>2
      <4> QED BY <4>3, <4>4 DEF PathTime, v, w
    <3>4. u[2] = x + d
      BY <2>2
    <3>5. d <= s
      BY <3>1
    <3> HIDE DEF E, O, u, x, y, d, s
    <3>6. E \in Nat /\ x \in Nat /\ y \in Nat
      BY <1>0, <1>2
    <3> QED BY <3>2, <3>3, <3>4, <3>5, <3>6
  <2> QED BY <1>1, <2>1, <2>2
<1>6. u[1] \in Nat /\ u[2] \in Nat
  <2> HIDE DEF u
  <2> QED BY <1>1
<1> QED BY <1>2, <1>4, <1>5, <1>6

-----------------------------------------------------------------------------
(* The warp *)

\* The completion times of the jobs of s, machine by machine, with the times p.
TimesOf(C, p, s) ==
  /\ \A k \in 0 .. Len(s) : \A m \in Machine : C[k][m] \in Nat
  /\ \A m \in Machine : C[0][m] = 0
  /\ \A k \in 1 .. Len(s) : \A m \in Machine :
       C[k][m] = (IF m = 1 THEN C[k - 1][1] ELSE Larger(C[k - 1][m], C[k][m - 1])) + p[m][s[k]]

\* The smaller one of two numbers of lanes.
LEMMA Smaller ==
  ASSUME NEW a \in Nat, NEW b \in Nat
  PROVE  Min({a, b}) = IF a <= b THEN a ELSE b
<1> DEFINE x == Min({a, b})
<1>1. x \in {a, b} /\ \A y \in {a, b} : x <= y
  BY LeastNumber
<1> HIDE DEF x
<1>2. x = IF a <= b THEN a ELSE b
  BY <1>1
<1> QED BY <1>2 DEF x

\* tile_scheduleFront, tile_evalSolution: the warp computes the completion times
\* of the last job.
LEMMA WavefrontOf ==
  ASSUME NEW p, \A m \in Machine : \A j \in Job : p[m][j] \in Nat,
         NEW s \in Seq(Job), s # <<>>, NEW C, TimesOf(C, p, s)
  PROVE  wavefront(p, s) = [m \in Machine |-> C[Len(s)][m]]
<1> DEFINE n == Len(s)
           M == nbMachines
           W == Min({n, M})
           lanes == 0 .. W - 1
           A(i) == [l \in lanes |-> IF l < i THEN C[i - l][l + 1] ELSE 0]
           stepA(f) == [i \in 0 .. n |->
             IF i = 0 THEN [l \in lanes |-> 0]
             ELSE [l \in lanes |->
                IF l < i THEN Larger(f[i - 1][l], f[i - 1][Larger(l - 1, 0)]) + p[l + 1][s[i - l]]
                         ELSE f[i - 1][l]]]
           fill == CHOOSE f : f = stepA(f)
           B(i) == [l \in lanes |-> IF l < M - i THEN C[n - l][l + 1 + i] ELSE C[n - l][M]]
           stepB(f) == [i \in 0 .. nbMachines - 1 |->
             IF i = 0 THEN fill[n]
             ELSE [l \in lanes |->
                IF l < nbMachines - i
                THEN Larger(f[i - 1][l], IF l + 1 \in lanes THEN f[i - 1][l + 1] ELSE 0)
                       + p[l + 1 + i][s[n - l]]
                ELSE f[i - 1][l]]]
           drain == CHOOSE f : f = stepB(f)
<1>1. wavefront(p, s) = [m \in Machine |-> drain[m - 1][0]]
  BY DEF wavefront
<1>2. /\ n \in Nat /\ M \in Nat /\ n >= 1 /\ M >= 1 /\ Machine = 1 .. M
      /\ W \in Nat /\ W >= 1 /\ W <= n /\ W <= M /\ (W = n \/ W = M)
      /\ \A k \in 1 .. n : s[k] \in Job
  <2>1. /\ n \in Nat /\ M \in Nat /\ n >= 1 /\ M >= 1 /\ Machine = 1 .. M
        /\ \A k \in 1 .. n : s[k] \in Job
    BY Sizes
  <2>2. W = IF n <= M THEN n ELSE M
    BY <2>1, Smaller
  <2> HIDE DEF n, W, M
  <2> QED BY <2>1, <2>2
<1>3. /\ \A k \in 0 .. n : \A m \in 1 .. M : C[k][m] \in Nat
      /\ \A m \in 1 .. M : C[0][m] = 0
      /\ \A k \in 1 .. n : \A m \in 1 .. M :
           C[k][m] = (IF m = 1 THEN C[k - 1][1] ELSE Larger(C[k - 1][m], C[k][m - 1]))
                       + p[m][s[k]]
  BY <1>2 DEF TimesOf
\* The first phase.
<1>4. ASSUME NEW i \in 1 .. n, NEW f, f[i - 1] = A(i - 1), NEW l \in lanes
      PROVE  A(i)[l] = IF l < i THEN Larger(f[i - 1][l], f[i - 1][Larger(l - 1, 0)]) + p[l + 1][s[i - l]]
                                ELSE f[i - 1][l]
  <2> HIDE DEF n, M, W
  <2>1. /\ l \in Nat /\ l + 1 \in 1 .. M /\ i \in 1 .. n /\ l < W /\ l < n
    BY <1>2
  <2>2. f[i - 1][l] = IF l < i - 1 THEN C[(i - 1) - l][l + 1] ELSE 0
    BY <1>4
  <2>3. CASE ~(l < i)
    <3>1. A(i)[l] = 0 /\ f[i - 1][l] = 0
      BY <1>2, <2>1, <2>2, <2>3
    <3> HIDE DEF A
    <3> QED BY <2>3, <3>1
  <2>4. CASE l < i
    <3>0. i - l \in 1 .. n /\ (i - l) - 1 = (i - 1) - l /\ (i - l) - 1 \in 0 .. n
      BY <1>2, <2>1, <2>4
    <3>1. A(i)[l] = C[i - l][l + 1]
      BY <2>4
    <3>2. f[i - 1][l] = C[(i - l) - 1][l + 1]
      <4>1. CASE l = i - 1
        <5>1. f[i - 1][l] = 0 /\ (i - l) - 1 = 0
          BY <1>2, <2>1, <2>2, <4>1
        <5> HIDE DEF A
        <5> QED BY <1>3, <2>1, <5>1
      <4>2. CASE l # i - 1
        <5>1. l < i - 1
          BY <1>2, <2>1, <2>4, <4>2
        <5> HIDE DEF A
        <5> QED BY <2>2, <3>0, <5>1
      <4> QED BY <4>1, <4>2
    <3>3. CASE l = 0
      <4>1. Larger(l - 1, 0) = 0
        BY <3>3 DEF Larger
      <4>2. f[i - 1][0] = C[i - 1][1] /\ f[i - 1][0] \in Nat
        <5> HIDE DEF A
        <5> QED BY <1>2, <1>3, <2>1, <3>0, <3>2, <3>3
      <4>3. Larger(f[i - 1][0], f[i - 1][0]) = f[i - 1][0]
        BY <4>2 DEF Larger
      <4>4. C[i][1] = C[i - 1][1] + p[1][s[i]]
        BY <1>2, <1>3
      <4>5. C[i - l][l + 1] = C[i][1] /\ p[l + 1][s[i - l]] = p[1][s[i]]
        BY <1>2, <3>3
      <4> HIDE DEF A, lanes
      <4> QED BY <2>4, <3>1, <3>3, <4>1, <4>2, <4>3, <4>4, <4>5
    <3>4. CASE l # 0
      <4>1. Larger(l - 1, 0) = l - 1 /\ l - 1 \in lanes /\ l - 1 < i - 1 /\ (i - 1) - (l - 1) = i - l
        BY <1>2, <2>1, <2>4, <3>4 DEF Larger
      <4>2. f[i - 1][l - 1] = C[i - l][l]
        <5>1. f[i - 1][l - 1] = C[(i - 1) - (l - 1)][(l - 1) + 1]
          BY <1>4, <4>1
        <5>2. (l - 1) + 1 = l
          BY <2>1
        <5> HIDE DEF A, lanes
        <5> QED BY <4>1, <5>1, <5>2
      <4>3. C[i - l][l + 1] = Larger(C[(i - l) - 1][l + 1], C[i - l][l]) + p[l + 1][s[i - l]]
        <5>1. l + 1 # 1 /\ (l + 1) - 1 = l
          BY <2>1, <3>4
        <5> HIDE DEF A, lanes
        <5> QED BY <1>3, <2>1, <3>0, <5>1
      <4> HIDE DEF A, lanes
      <4> QED BY <2>4, <3>1, <3>2, <4>1, <4>2, <4>3
    <3> QED BY <3>3, <3>4
  <2> QED BY <2>3, <2>4
<1>5. ASSUME NEW i \in 1 .. n, NEW f, f[i - 1] = A(i - 1)
      PROVE  A(i) = [l \in lanes |->
               IF l < i THEN Larger(f[i - 1][l], f[i - 1][Larger(l - 1, 0)]) + p[l + 1][s[i - l]]
                        ELSE f[i - 1][l]]
  <2>1. A(i) = [l \in lanes |-> A(i)[l]]
    OBVIOUS
  <2> HIDE DEF A, lanes, n
  <2>2. \A l \in lanes : A(i)[l] = IF l < i
          THEN Larger(f[i - 1][l], f[i - 1][Larger(l - 1, 0)]) + p[l + 1][s[i - l]]
          ELSE f[i - 1][l]
    BY <1>4, <1>5
  <2> QED BY <2>1, <2>2
<1>6. A(0) = [l \in lanes |-> 0]
  BY <1>2
<1>7. \A i \in 0 .. n : fill[i] = A(i)
  <2> DEFINE F == [i \in 0 .. n |-> A(i)]
  <2>1. F = stepA(F)
    <3>1. ASSUME NEW i \in 0 .. n PROVE F[i] = stepA(F)[i]
      <4>1. CASE i = 0
        BY <1>6, <4>1
      <4>2. CASE i # 0
        <5>1. i \in 1 .. n /\ F[i - 1] = A(i - 1) /\ F[i] = A(i)
          <6> HIDE DEF n, A
          <6> QED BY <1>2, <4>2
        <5>2. stepA(F)[i] = [l \in lanes |->
               IF l < i THEN Larger(F[i - 1][l], F[i - 1][Larger(l - 1, 0)]) + p[l + 1][s[i - l]]
                        ELSE F[i - 1][l]]
          <6> HIDE DEF n, A, lanes, F
          <6> QED BY <4>2
        <5> HIDE DEF n, A, lanes, F, stepA
        <5> QED BY <1>5, <5>1, <5>2
      <4> QED BY <4>1, <4>2
    <3>2. F = [i \in 0 .. n |-> F[i]] /\ stepA(F) = [i \in 0 .. n |-> stepA(F)[i]]
      <4> HIDE DEF n, A, lanes
      <4> QED OBVIOUS
    <3> HIDE DEF n, A, lanes, F, stepA
    <3> QED BY <3>1, <3>2
  <2>2. fill = stepA(fill)
    <3> HIDE DEF F, stepA
    <3> QED BY <2>1
  <2> DEFINE T == {i \in 0 .. n : fill[i] = A(i)}
  <2>3. 0 \in T
    <3>1. stepA(fill)[0] = [l \in lanes |-> 0]
      <4> HIDE DEF fill, lanes, n
      <4> QED BY <1>2
    <3> HIDE DEF fill, stepA, lanes, n, A
    <3> QED BY <1>2, <1>6, <2>2, <3>1
  <2>4. ASSUME NEW i \in 0 .. n - 1, i \in T PROVE i + 1 \in T
    <3>1. i + 1 \in 1 .. n /\ (i + 1) - 1 = i /\ i + 1 \in 0 .. n /\ i + 1 # 0
      BY <1>2
    <3>2. stepA(fill)[i + 1] = [l \in lanes |->
            IF l < i + 1
            THEN Larger(fill[(i + 1) - 1][l], fill[(i + 1) - 1][Larger(l - 1, 0)])
                   + p[l + 1][s[(i + 1) - l]]
            ELSE fill[(i + 1) - 1][l]]
      <4> HIDE DEF fill, lanes, n
      <4> QED BY <3>1
    <3>3. fill[(i + 1) - 1] = A((i + 1) - 1)
      <4> HIDE DEF fill, lanes, n, A
      <4> QED BY <2>4, <3>1
    <3>4. A(i + 1) = stepA(fill)[i + 1]
      <4> HIDE DEF fill, stepA, lanes, n, A
      <4> QED BY <1>5, <3>1, <3>2, <3>3
    <3> HIDE DEF fill, stepA, lanes, n, A
    <3> QED BY <2>2, <3>1, <3>4
  <2>5. \A i \in 0 .. n : i \in T
    <3> HIDE DEF T, n
    <3> QED BY <1>2, <2>3, <2>4, UpTo
  <2> HIDE DEF fill, A
  <2> QED BY <2>5
\* The second phase.
<1> HIDE DEF fill
<1>8. ASSUME NEW i \in 1 .. M - 1, NEW f, f[i - 1] = B(i - 1), NEW l \in lanes
      PROVE  B(i)[l] = IF l < nbMachines - i
                       THEN Larger(f[i - 1][l], IF l + 1 \in lanes THEN f[i - 1][l + 1] ELSE 0)
                              + p[l + 1 + i][s[n - l]]
                       ELSE f[i - 1][l]
  <2>0. M = nbMachines
    OBVIOUS
  <2> HIDE DEF n, M, W
  <2>1. /\ l \in Nat /\ i \in Nat /\ l < W /\ l < n /\ l < M /\ n - l \in 1 .. n
        /\ (n - l) - 1 = n - (l + 1) /\ n - (l + 1) \in 0 .. n
    BY <1>2
  <2>2. f[i - 1][l] = IF l < M - (i - 1) THEN C[n - l][l + 1 + (i - 1)] ELSE C[n - l][M]
    BY <1>8
  <2>3. B(i)[l] = IF l < M - i THEN C[n - l][l + 1 + i] ELSE C[n - l][M]
    OBVIOUS
  <2>4. CASE ~(l < M - i)
    <3>1. l = M - i \/ ~(l < M - (i - 1))
      BY <1>2, <2>1, <2>4
    <3>2. l = M - i => l + 1 + (i - 1) = M
      BY <1>2, <2>1
    <3> HIDE DEF B, lanes
    <3> QED BY <2>0, <2>2, <2>3, <2>4, <3>1, <3>2
  <2>5. CASE l < M - i
    <3>1. l + 1 + i \in 1 .. M /\ l + 1 + i # 1 /\ l < M - (i - 1)
          /\ (l + 1 + i) - 1 = l + 1 + (i - 1) /\ l + 1 + (i - 1) \in 1 .. M
      BY <1>2, <2>1, <2>5
    <3>2. C[n - l][l + 1 + i] = Larger(C[(n - l) - 1][l + 1 + i], C[n - l][l + 1 + (i - 1)])
                                  + p[l + 1 + i][s[n - l]]
      <4> HIDE DEF B, lanes
      <4> QED BY <1>3, <2>1, <3>1
    <3>3. (IF l + 1 \in lanes THEN f[i - 1][l + 1] ELSE 0) = C[(n - l) - 1][l + 1 + i]
      <4>1. CASE l + 1 \in lanes
        <5>1. f[i - 1][l + 1] = IF l + 1 < M - (i - 1) THEN C[n - (l + 1)][(l + 1) + 1 + (i - 1)]
                                                       ELSE C[n - (l + 1)][M]
          <6>1. B(i - 1)[l + 1] = IF l + 1 < M - (i - 1) THEN C[n - (l + 1)][(l + 1) + 1 + (i - 1)]
                                                       ELSE C[n - (l + 1)][M]
            BY <4>1
          <6> HIDE DEF B, lanes
          <6> QED BY <1>8, <6>1
        <5>2. l + 1 < M - (i - 1) /\ (l + 1) + 1 + (i - 1) = l + 1 + i
          BY <1>2, <2>1, <2>5
        <5> HIDE DEF B, lanes
        <5> QED BY <2>1, <4>1, <5>1, <5>2
      <4>2. CASE l + 1 \notin lanes
        <5>1. (n - l) - 1 = 0
          BY <1>2, <2>1, <2>5, <4>2
        <5> HIDE DEF B, lanes
        <5> QED BY <1>3, <3>1, <4>2, <5>1
      <4> QED BY <4>1, <4>2
    <3>4. Larger(C[(n - l) - 1][l + 1 + i], C[n - l][l + 1 + (i - 1)])
            = Larger(C[n - l][l + 1 + (i - 1)], C[(n - l) - 1][l + 1 + i])
      <4>1. C[(n - l) - 1][l + 1 + i] \in Nat /\ C[n - l][l + 1 + (i - 1)] \in Nat
        <5> HIDE DEF B, lanes
        <5> QED BY <1>3, <2>1, <3>1
      <4>2. \A x, y \in Nat : Larger(x, y) = Larger(y, x)
        BY DEF Larger
      <4> QED BY <4>1, <4>2
    <3> HIDE DEF B, lanes
    <3> QED BY <2>0, <2>2, <2>3, <2>5, <3>1, <3>2, <3>3, <3>4
  <2> QED BY <2>4, <2>5
<1>9. ASSUME NEW i \in 1 .. M - 1, NEW f, f[i - 1] = B(i - 1)
      PROVE  B(i) = [l \in lanes |->
               IF l < nbMachines - i
               THEN Larger(f[i - 1][l], IF l + 1 \in lanes THEN f[i - 1][l + 1] ELSE 0)
                      + p[l + 1 + i][s[n - l]]
               ELSE f[i - 1][l]]
  <2>1. B(i) = [l \in lanes |-> B(i)[l]]
    OBVIOUS
  <2> HIDE DEF B, lanes, n, M
  <2>2. \A l \in lanes : B(i)[l] = IF l < nbMachines - i
          THEN Larger(f[i - 1][l], IF l + 1 \in lanes THEN f[i - 1][l + 1] ELSE 0)
                 + p[l + 1 + i][s[n - l]]
          ELSE f[i - 1][l]
    BY <1>8, <1>9
  <2> QED BY <2>1, <2>2
<1>10. B(0) = fill[n]
  <2>1. fill[n] = A(n)
    <3> HIDE DEF n, A
    <3> QED BY <1>2, <1>7
  <2>2. \A l \in lanes : l < n /\ l < M - 0 /\ l + 1 + 0 = l + 1
    <3> HIDE DEF n, M, W
    <3> QED BY <1>2
  <2>3. \A l \in lanes : B(0)[l] = C[n - l][l + 1]
    <3> HIDE DEF n, M, W
    <3> QED BY <2>2
  <2>4. \A l \in lanes : A(n)[l] = C[n - l][l + 1]
    <3> HIDE DEF n, M, W
    <3> QED BY <2>2
  <2>5. A(n) = [l \in lanes |-> A(n)[l]] /\ B(0) = [l \in lanes |-> B(0)[l]]
    <3> HIDE DEF n, M, W
    <3> QED OBVIOUS
  <2> HIDE DEF A, B, lanes, n, M
  <2> QED BY <2>1, <2>3, <2>4, <2>5
<1>11. \A i \in 0 .. M - 1 : drain[i] = B(i)
  <2> DEFINE F == [i \in 0 .. M - 1 |-> B(i)]
  <2>1. F = stepB(F)
    <3>1. ASSUME NEW i \in 0 .. M - 1 PROVE F[i] = stepB(F)[i]
      <4>1. CASE i = 0
        <5>1. stepB(F)[0] = fill[n] /\ F[0] = B(0)
          <6> HIDE DEF B, F, lanes
          <6> QED BY <1>2, <4>1 DEF F
        <5> HIDE DEF B, F, stepB
        <5> QED BY <1>10, <4>1, <5>1
      <4>2. CASE i # 0
        <5>1. i \in 1 .. M - 1 /\ F[i - 1] = B(i - 1) /\ F[i] = B(i)
          <6> HIDE DEF M, B
          <6> QED BY <1>2, <4>2
        <5>2. stepB(F)[i] = [l \in lanes |->
               IF l < nbMachines - i
               THEN Larger(F[i - 1][l], IF l + 1 \in lanes THEN F[i - 1][l + 1] ELSE 0)
                      + p[l + 1 + i][s[n - l]]
               ELSE F[i - 1][l]]
          <6> HIDE DEF n, B, lanes, F
          <6> QED BY <4>2
        <5> HIDE DEF n, B, lanes, F, stepB
        <5> QED BY <1>9, <5>1, <5>2
      <4> QED BY <4>1, <4>2
    <3>2. F = [i \in 0 .. M - 1 |-> F[i]] /\ stepB(F) = [i \in 0 .. M - 1 |-> stepB(F)[i]]
      <4> HIDE DEF n, B, lanes
      <4> QED OBVIOUS
    <3> HIDE DEF n, B, lanes, F, stepB
    <3> QED BY <3>1, <3>2
  <2>2. drain = stepB(drain)
    <3> HIDE DEF F, stepB
    <3> QED BY <2>1
  <2> DEFINE T == {i \in 0 .. M - 1 : drain[i] = B(i)}
  <2>3. 0 \in T
    <3>1. stepB(drain)[0] = fill[n]
      <4> HIDE DEF drain, lanes, n
      <4> QED BY <1>2
    <3> HIDE DEF drain, stepB, lanes, n, B
    <3> QED BY <1>2, <1>10, <2>2, <3>1
  <2>4. ASSUME NEW i \in 0 .. (M - 1) - 1, i \in T PROVE i + 1 \in T
    <3>1. i + 1 \in 1 .. M - 1 /\ (i + 1) - 1 = i /\ i + 1 \in 0 .. M - 1 /\ i + 1 # 0
      BY <1>2
    <3>2. stepB(drain)[i + 1] = [l \in lanes |->
            IF l < nbMachines - (i + 1)
            THEN Larger(drain[(i + 1) - 1][l],
                        IF l + 1 \in lanes THEN drain[(i + 1) - 1][l + 1] ELSE 0)
                   + p[l + 1 + (i + 1)][s[n - l]]
            ELSE drain[(i + 1) - 1][l]]
      <4> HIDE DEF drain, lanes, n
      <4> QED BY <3>1
    <3>3. drain[(i + 1) - 1] = B((i + 1) - 1)
      <4> HIDE DEF drain, lanes, n, B
      <4> QED BY <2>4, <3>1
    <3>4. B(i + 1) = stepB(drain)[i + 1]
      <4> HIDE DEF drain, stepB, lanes, n, B
      <4> QED BY <1>9, <3>1, <3>2, <3>3
    <3> HIDE DEF drain, stepB, lanes, n, B
    <3> QED BY <2>2, <3>1, <3>4
  <2>5. \A i \in 0 .. M - 1 : i \in T
    <3>1. M - 1 \in Nat
      BY <1>2
    <3> HIDE DEF T, M
    <3> QED BY <2>3, <2>4, <3>1, UpTo
  <2> HIDE DEF drain, B
  <2> QED BY <2>5
<1> HIDE DEF drain
<1>12. ASSUME NEW m \in 1 .. M PROVE drain[m - 1][0] = C[n][m]
  <2>1. m - 1 \in 0 .. M - 1 /\ 0 \in lanes /\ 0 < M - (m - 1) /\ n - 0 = n /\ 0 + 1 + (m - 1) = m
    <3> HIDE DEF n, M, W
    <3> QED BY <1>2
  <2>2. B(m - 1)[0] = C[n][m]
    <3>1. B(m - 1)[0] = C[n - 0][0 + 1 + (m - 1)]
      <4> HIDE DEF n, M, W, lanes
      <4> QED BY <2>1
    <3> HIDE DEF B, n, M, lanes
    <3> QED BY <2>1, <3>1
  <2> HIDE DEF B, lanes, n, M
  <2> QED BY <1>11, <2>1, <2>2
<1>13. [m \in Machine |-> drain[m - 1][0]] = [m \in Machine |-> C[n][m]]
  <2> HIDE DEF n, M
  <2> QED BY <1>2, <1>12
<1> HIDE DEF n
<1>14. wavefront(p, s) = [m \in Machine |-> C[n][m]]
  BY <1>1, <1>13
<1> QED BY <1>14 DEF n

\* The times before a part and after it are the same on the host and on the device.
LEMMA TileFront ==
  ASSUME ptm \in Instances, NEW s \in Seq(Job)
  PROVE  tile_scheduleFront(s) = scheduleFront(s)
<1>1. CASE s = <<>>
  BY <1>1 DEF tile_scheduleFront, scheduleFront
<1>2. CASE s # <<>>
  <2>1. PICK h : HeadsOf(h, s) /\ Heads(s) = h[Len(s)]
    BY HeadsExist
  <2>2. TimesOf(h, ptm, s)
    <3>1. \A m \in Machine : h[0][m] = 0
      BY <2>1 DEF HeadsOf, NoTime
    <3> QED BY <2>1, <3>1, HeadsGrow DEF TimesOf
  <2>3. wavefront(ptm, s) = [m \in Machine |-> h[Len(s)][m]]
    BY <1>2, <2>2, Durations, WavefrontOf
  <2>4. h[Len(s)] \in Time
    BY <2>1 DEF HeadsOf
  <2>5. h[Len(s)] = [m \in Machine |-> h[Len(s)][m]]
    BY <2>4 DEF Time
  <2> QED BY <1>2, <2>1, <2>3, <2>5 DEF tile_scheduleFront, scheduleFront
<1> QED BY <1>1, <1>2

\* The same for the part at the end.
LEMMA TileBack ==
  ASSUME ptm \in Instances, NEW s \in Seq(Job)
  PROVE  tile_scheduleBack(s) = scheduleBack(s)
<1>1. CASE s = <<>>
  BY <1>1 DEF tile_scheduleBack, scheduleBack
<1>2. CASE s # <<>>
  <2>1. PICK t : TailsOf(t, s) /\ Tails(s) = t[1]
    BY TailsExist
  <2> DEFINE n == Len(s)
             M == nbMachines
             p == [m \in Machine |-> ptm[nbMachines + 1 - m]]
             r == Reverse(s)
             C == [k \in 0 .. n |-> [m \in Machine |-> t[n + 1 - k][M + 1 - m]]]
  <2>2. /\ n \in Nat /\ n >= 1 /\ M \in Nat /\ M >= 1 /\ Machine = 1 .. M
        /\ \A m \in 1 .. M : M + 1 - m \in 1 .. M /\ M + 1 - (M + 1 - m) = m
        /\ \A k \in 0 .. n : n + 1 - k \in 1 .. n + 1
        /\ \A k \in 1 .. n : n + 1 - k \in 1 .. n /\ (n + 1 - k) + 1 = n + 1 - (k - 1)
                             /\ k - 1 \in 0 .. n
    BY <1>2, Sizes
  <2>3. r \in Seq(Job) /\ Len(r) = n /\ r # <<>> /\ \A k \in 1 .. n : r[k] = s[n + 1 - k]
    <3>1. \A k \in 1 .. n : (n - k) + 1 = n + 1 - k
      BY <2>2
    <3>2. r = [k \in 1 .. n |-> s[(n - k) + 1]]
      BY DEF Reverse
    <3>3. r \in [1 .. n -> Job]
      <4>1. \A k \in 1 .. n : s[(n - k) + 1] \in Job
        BY <2>2
      <4> HIDE DEF n, r
      <4> QED BY <3>2, <4>1
    <3> HIDE DEF n, r
    <3>4. r \in Seq(Job) /\ Len(r) = n
      BY <2>2, <3>3
    <3>5. r # <<>>
      BY <2>2, <3>4
    <3>6. \A k \in 1 .. n : r[k] = s[(n - k) + 1]
      <4> HIDE DEF n, r
      <4> QED BY <3>2
    <3>7. ASSUME NEW k \in 1 .. n PROVE r[k] = s[n + 1 - k]
      <4>1. (n - k) + 1 = n + 1 - k
        BY <3>1
      <4> HIDE DEF n, r
      <4> QED BY <3>6, <4>1
    <3> HIDE DEF n, r
    <3> QED BY <3>4, <3>5, <3>7
  <2>4. \A m \in Machine : \A j \in Job : p[m][j] \in Nat
    BY <2>2, Durations
  <2>5. TimesOf(C, p, r)
    <3>1. \A k \in 0 .. n : \A m \in 1 .. M : C[k][m] = t[n + 1 - k][M + 1 - m]
      BY <2>2
    <3>2. /\ \A k \in 1 .. n + 1 : \A m \in 1 .. M : t[k][m] \in Nat
          /\ \A k \in 1 .. n : \A m \in 1 .. M :
               t[k][m] = (IF m = M THEN t[k + 1][m] ELSE Larger(t[k + 1][m], t[k][m + 1]))
                           + ptm[m][s[k]]
      BY <2>1, <2>2, TailsGrow
    <3>3. ASSUME NEW k \in 0 .. n, NEW m \in 1 .. M PROVE C[k][m] \in Nat
      <4> DEFINE e == n + 1 - k
                 d == M + 1 - m
      <4>1. e \in 1 .. n + 1 /\ d \in 1 .. M
        BY <2>2
      <4>2. C[k][m] = t[e][d]
        BY <3>1
      <4> HIDE DEF C, n, M, e, d
      <4> QED BY <3>2, <4>1, <4>2
    <3>4. \A m \in 1 .. M : C[0][m] = 0
      <4>1. t[n + 1] = NoTime
        BY <2>1 DEF TailsOf
      <4>2. \A m \in 1 .. M : t[n + 1][m] = 0
        BY <2>2, <4>1 DEF NoTime
      <4>3. n + 1 - 0 = n + 1 /\ 0 \in 0 .. n
        BY <2>2
      <4> TAKE m \in 1 .. M
      <4>4. M + 1 - m \in 1 .. M
        BY <2>2
      <4>5. C[0][m] = t[n + 1 - 0][M + 1 - m]
        BY <3>1, <4>3
      <4> HIDE DEF C, n, M
      <4> QED BY <4>2, <4>3, <4>4, <4>5
    <3>5. ASSUME NEW k \in 1 .. n, NEW m \in 1 .. M
          PROVE  C[k][m] = (IF m = 1 THEN C[k - 1][1] ELSE Larger(C[k - 1][m], C[k][m - 1]))
                             + p[m][r[k]]
      <4> DEFINE e == n + 1 - k
                 d == M + 1 - m
      <4>1. e \in 1 .. n /\ d \in 1 .. M /\ e + 1 = n + 1 - (k - 1) /\ k - 1 \in 0 .. n /\ k \in 0 .. n
            /\ (d = M <=> m = 1) /\ (m # 1 => m - 1 \in 1 .. M /\ d + 1 = M + 1 - (m - 1))
            /\ M + 1 - 1 = M /\ 1 \in 1 .. M
        BY <2>2
      <4>2. C[k][m] = t[e][d] /\ C[k - 1][m] = t[e + 1][d]
            /\ C[k - 1][1] = t[e + 1][M] /\ (m # 1 => C[k][m - 1] = t[e][d + 1])
        <5>1. C[k][m] = t[e][d]
          <6>1. C[k][m] = t[n + 1 - k][M + 1 - m]
            BY <3>1, <4>1
          <6> HIDE DEF C, n, M
          <6> QED BY <6>1
        <5>2. C[k - 1][m] = t[e + 1][d]
          <6>1. C[k - 1][m] = t[n + 1 - (k - 1)][M + 1 - m]
            BY <3>1, <4>1
          <6> HIDE DEF C, n, M
          <6> QED BY <4>1, <6>1
        <5>3. C[k - 1][1] = t[e + 1][M]
          <6>1. C[k - 1][1] = t[n + 1 - (k - 1)][M + 1 - 1]
            BY <3>1, <4>1
          <6> HIDE DEF C, n, M
          <6> QED BY <4>1, <6>1
        <5>4. m # 1 => C[k][m - 1] = t[e][d + 1]
          <6>1. m # 1 => C[k][m - 1] = t[n + 1 - k][M + 1 - (m - 1)]
            BY <3>1, <4>1
          <6> HIDE DEF C, n, M
          <6> QED BY <4>1, <6>1
        <5> QED BY <5>1, <5>2, <5>3, <5>4
      <4>3. p[m][r[k]] = ptm[d][s[e]]
        <5>1. p[m] = ptm[d]
          BY <2>2
        <5> HIDE DEF p, r
        <5> QED BY <2>3, <5>1
      <4>4. t[e][d] = (IF d = M THEN t[e + 1][d] ELSE Larger(t[e + 1][d], t[e][d + 1])) + ptm[d][s[e]]
        BY <3>2, <4>1
      <4> HIDE DEF C, p, r, e, d, n, M
      <4> QED BY <4>1, <4>2, <4>3, <4>4
    <3> HIDE DEF C, p, r, n, M
    <3> QED BY <2>2, <2>3, <3>3, <3>4, <3>5 DEF TimesOf
  <2>6. wavefront(p, r) = [m \in Machine |-> C[n][m]]
    <3>1. wavefront(p, r) = [m \in Machine |-> C[Len(r)][m]]
      <4> HIDE DEF C, p, r, n
      <4> QED BY <2>3, <2>4, <2>5, WavefrontOf
    <3> HIDE DEF C, p, r, n
    <3> QED BY <2>3, <3>1
  <2>7. tile_scheduleBack(s) = [m \in Machine |-> wavefront(p, r)[nbMachines + 1 - m]]
    BY <1>2 DEF tile_scheduleBack
  <2>8. \A m \in 1 .. M : wavefront(p, r)[nbMachines + 1 - m] = t[1][m]
    <3> TAKE m \in 1 .. M
    <3>1. wavefront(p, r)[M + 1 - m] = C[n][M + 1 - m]
      <4> HIDE DEF C, p, r, n, M
      <4> QED BY <2>2, <2>6
    <3>2. C[n][M + 1 - m] = t[n + 1 - n][M + 1 - (M + 1 - m)]
      BY <2>2
    <3>3. n + 1 - n = 1 /\ M + 1 - (M + 1 - m) = m
      BY <2>2
    <3> HIDE DEF C, p, r, n
    <3> QED BY <3>1, <3>2, <3>3
  <2>9. t[1] = [m \in Machine |-> t[1][m]]
    BY <2>1, <2>2 DEF TailsOf, Time
  <2>10. tile_scheduleBack(s) = t[1]
    <3> HIDE DEF p, r
    <3> QED BY <2>2, <2>7, <2>8, <2>9
  <2> QED BY <1>2, <2>1, <2>10 DEF scheduleBack
<1> QED BY <1>1, <1>2

\* Folding the work of a set of jobs on a machine adds it up.
LEMMA FoldOf ==
  ASSUME ptm \in Instances, NEW m \in Machine, NEW S \in SUBSET Job
  PROVE  FoldSet(LAMBDA j, w : w + ptm[m][j], 0, S) = Total(ptm[m], S)
<1> DEFINE w == ptm[m]
           step(f) == [s \in SUBSET S |-> IF s = {} THEN 0
                        ELSE LET x == CHOOSE x \in s : TRUE IN f[s \ {x}] + ptm[m][x]]
           iter == CHOOSE f : f = step(f)
           F == [s \in SUBSET S |-> Total(w, s)]
<1>1. FoldSet(LAMBDA j, a : a + ptm[m][j], 0, S) = iter[S]
  BY DEF FoldSet, MapThenFoldSet
<1>2. \A j \in Job : w[j] \in Nat
  BY Durations
<1>3. \A s \in SUBSET S : IsFiniteSet(s)
  <2>1. IsFiniteSet(Job)
    BY Sizes, FS_Interval
  <2> QED BY <2>1, FS_Subset
<1>4. ASSUME NEW s \in SUBSET S, s # {}, NEW x, x = CHOOSE y \in s : TRUE
      PROVE  x \in s /\ s \ {x} \in SUBSET S /\ Total(w, s) = Total(w, s \ {x}) + w[x]
  <2>1. x \in s /\ x \in Job
    BY <1>4
  <2> HIDE DEF w
  <2> QED BY <1>2, <2>1, TotalRemove
<1>5. Total(w, {}) = 0
  <2> HIDE DEF w
  <2> QED BY <1>2, TotalEmpty
<1>6. F = step(F)
  <2>1. ASSUME NEW s \in SUBSET S PROVE F[s] = step(F)[s]
    <3>1. CASE s = {}
      <4>1. step(F)[s] = 0
        <5> HIDE DEF F
        <5> QED BY <3>1
      <4>2. F[s] = 0
        <5> HIDE DEF w
        <5> QED BY <1>5, <3>1
      <4> HIDE DEF F, step
      <4> QED BY <4>1, <4>2
    <3>2. CASE s # {}
      <4> DEFINE x == CHOOSE y \in s : TRUE
      <4>1. step(F)[s] = F[s \ {x}] + w[x]
        <5> HIDE DEF F
        <5> QED BY <3>2
      <4>2. s \ {x} \in SUBSET S /\ Total(w, s) = Total(w, s \ {x}) + w[x]
        <5> HIDE DEF w
        <5> QED BY <1>4, <3>2
      <4>3. F[s \ {x}] = Total(w, s \ {x}) /\ F[s] = Total(w, s)
        <5> HIDE DEF w, x
        <5> QED BY <4>2
      <4> HIDE DEF F, step, w, x
      <4> QED BY <4>1, <4>2, <4>3
    <3> QED BY <3>1, <3>2
  <2>2. F = [s \in SUBSET S |-> F[s]] /\ step(F) = [s \in SUBSET S |-> step(F)[s]]
    <3> HIDE DEF w
    <3> QED OBVIOUS
  <2> HIDE DEF F, step
  <2> QED BY <2>1, <2>2
<1>7. iter = step(iter)
  <2> HIDE DEF F, step
  <2> QED BY <1>6
<1> HIDE DEF iter
<1>8. \A s \in SUBSET S : iter[s] = IF s = {} THEN 0
        ELSE iter[s \ {CHOOSE x \in s : TRUE}] + w[CHOOSE x \in s : TRUE]
  <2> TAKE s \in SUBSET S
  <2>1. iter[s] = step(iter)[s]
    <3> HIDE DEF step
    <3> QED BY <1>7
  <2> QED BY <2>1
<1> DEFINE T == {n \in Nat : \A s \in SUBSET S : Cardinality(s) = n => iter[s] = Total(w, s)}
<1>9. 0 \in T
  <2> SUFFICES ASSUME NEW s \in SUBSET S, Cardinality(s) = 0 PROVE iter[s] = Total(w, s)
    OBVIOUS
  <2>1. s = {}
    BY <1>3, FS_EmptySet
  <2> HIDE DEF w
  <2> QED BY <1>5, <1>8, <2>1
<1>10. ASSUME NEW n \in T PROVE n + 1 \in T
  <2> SUFFICES ASSUME NEW s \in SUBSET S, Cardinality(s) = n + 1 PROVE iter[s] = Total(w, s)
    OBVIOUS
  <2> DEFINE x == CHOOSE y \in s : TRUE
  <2>0. n \in Nat
    OBVIOUS
  <2>1. s # {}
    BY <2>0, FS_EmptySet
  <2>2. x \in s /\ s \ {x} \in SUBSET S /\ Total(w, s) = Total(w, s \ {x}) + w[x]
    <3> HIDE DEF w
    <3> QED BY <1>4, <2>1
  <2>3. iter[s] = iter[s \ {x}] + w[x]
    <3> HIDE DEF w
    <3> QED BY <1>8, <2>1
  <2> HIDE DEF x, w
  <2>4. Cardinality(s \ {x}) = n
    <3>1. Cardinality(s \ {x}) = Cardinality(s) - 1
      BY <1>3, <2>2, FS_RemoveElement
    <3> QED BY <2>0, <3>1
  <2> QED BY <2>2, <2>3, <2>4
<1>11. T = Nat
  <2>1. T \in SUBSET Nat
    OBVIOUS
  <2> HIDE DEF T
  <2> QED BY <1>9, <1>10, <2>1, AllNaturals
<1>12. iter[S] = Total(w, S)
  <2>1. Cardinality(S) \in T /\ S \in SUBSET S
    <3> HIDE DEF T
    <3> QED BY <1>3, <1>11, FS_CardinalityType
  <2> HIDE DEF w
  <2> QED BY <2>1
<1> HIDE DEF iter
<1> QED BY <1>1, <1>12

\* Some lane works on each machine and place in the list.
LEMMA TouchedAll ==
  ASSUME NEW n \in Nat, NEW m \in Machine, NEW k \in 1 .. n
  PROVE  <<m, k>> \in touched(n)
<1> DEFINE M == nbMachines
           W == Min({n, M})
           lanes == 0 .. W - 1
           A == {<<l + 1, i - l>> : l \in lanes, i \in 1 .. n}
           B == {<<l + 1 + i, n - l>> : l \in lanes, i \in 1 .. M - 1}
<1>1. touched(n) = (A \cup B) \cap (Machine \X (1 .. n))
  BY DEF touched
<1>2. /\ M \in Nat /\ m \in 1 .. M /\ n >= 1 /\ k \in Nat
      /\ W = IF n <= M THEN n ELSE M
  BY Sizes, Smaller
<1>3. CASE m + k - 1 <= n
  <2> DEFINE l == m - 1
             i == m + k - 1
  <2>1. l \in lanes /\ i \in 1 .. n /\ l + 1 = m /\ i - l = k
    <3> HIDE DEF W, M
    <3> QED BY <1>2, <1>3
  <2>2. <<l + 1, i - l>> \in A
    <3> HIDE DEF l, i, lanes
    <3> QED BY <2>1
  <2> HIDE DEF A, B, l, i
  <2> QED BY <1>1, <2>1, <2>2
<1>4. CASE ~(m + k - 1 <= n)
  <2> DEFINE l == n - k
             i == m - 1 - (n - k)
  <2>1. l \in lanes /\ i \in 1 .. M - 1 /\ l + 1 + i = m /\ n - l = k
    <3> HIDE DEF W, M
    <3> QED BY <1>2, <1>4
  <2>2. <<l + 1 + i, n - l>> \in B
    <3> HIDE DEF l, i, lanes, M
    <3> QED BY <2>1
  <2> HIDE DEF A, B, l, i
  <2> QED BY <1>1, <2>1, <2>2
<1> QED BY <1>3, <1>4

\* remain: what the lanes do not take off is the work of the open jobs.
LEMMA RemainOf ==
  ASSUME ptm \in Instances, NEW front \in Seq(Job), NEW back \in Seq(Job),
         Range(front) \cap Range(back) = {}, NEW m \in Machine
  PROVE  remain(front, back)[m] = Total(ptm[m], Job \ (Range(front) \cup Range(back)))
<1> DEFINE work(js) == FoldSet(LAMBDA j, w : w + ptm[m][j], 0, js)
           taken(s, k) == {s[c[2]] : c \in {d \in touched(Len(s)) : d[1] = k}}
           O == Job \ (Range(front) \cup Range(back))
           F == Range(front)
           B == Range(back)
           w == ptm[m]
<1>1. remain(front, back)[m]
        = work(Job) - work(taken(front, m)) - work(taken(Reverse(back), nbMachines + 1 - m))
  BY DEF remain
<1>2. ASSUME NEW s \in Seq(Job), NEW k \in Machine PROVE taken(s, k) = Range(s)
  <2>1. Range(s) = {s[i] : i \in 1 .. Len(s)} /\ Len(s) \in Nat
    BY DEF Range
  <2>2. ASSUME NEW i \in 1 .. Len(s) PROVE s[i] \in taken(s, k)
    <3> DEFINE c == <<k, i>>
    <3>1. c \in touched(Len(s)) /\ c[1] = k /\ c[2] = i
      BY <2>1, TouchedAll
    <3> HIDE DEF c
    <3> QED BY <3>1
  <2>3. ASSUME NEW c \in touched(Len(s)) PROVE c[2] \in 1 .. Len(s)
    BY DEF touched
  <2> QED BY <2>1, <2>2, <2>3
<1>3. Reverse(back) \in Seq(Job) /\ Range(Reverse(back)) = B
  <2> DEFINE n == Len(back)
             r == Reverse(back)
  <2>1. /\ n \in Nat
        /\ \A k \in 1 .. n : (n - k) + 1 \in 1 .. n /\ (n - ((n - k) + 1)) + 1 = k
        /\ \A k \in 1 .. n : back[k] \in Job
    OBVIOUS
  <2>2. r = [k \in 1 .. n |-> back[(n - k) + 1]]
    BY DEF Reverse
  <2>3. r \in [1 .. n -> Job]
    <3> HIDE DEF r, n
    <3> QED BY <2>1, <2>2
  <2>4. r \in Seq(Job) /\ DOMAIN r = 1 .. n
    <3> HIDE DEF r, n
    <3> QED BY <2>1, <2>3
  <2>5. Range(r) = {r[k] : k \in 1 .. n} /\ B = {back[k] : k \in 1 .. n}
    BY <2>4 DEF Range
  <2>6. ASSUME NEW k \in 1 .. n PROVE r[k] \in B
    <3>1. r[k] = back[(n - k) + 1] /\ (n - k) + 1 \in 1 .. n
      <4> HIDE DEF r, n
      <4> QED BY <2>1, <2>2
    <3> HIDE DEF r, n, B
    <3> QED BY <2>5, <3>1
  <2>7. ASSUME NEW k \in 1 .. n PROVE back[k] \in Range(r)
    <3> DEFINE e == (n - k) + 1
    <3>1. e \in 1 .. n /\ (n - e) + 1 = k
      BY <2>1
    <3>2. r[e] = back[(n - e) + 1]
      <4> HIDE DEF r, n, e
      <4> QED BY <2>2, <3>1
    <3> HIDE DEF r, n, B, e
    <3> QED BY <2>5, <3>1, <3>2
  <2> HIDE DEF r, B, n
  <2>8. Range(r) = B
    BY <2>5, <2>6, <2>7
  <2> QED BY <2>4, <2>8 DEF r
<1>4. F \in SUBSET Job /\ B \in SUBSET Job
  BY DEF Range
<1>5. /\ work(Job) = Total(w, Job)
      /\ work(taken(front, m)) = Total(w, F)
      /\ work(taken(Reverse(back), nbMachines + 1 - m)) = Total(w, B)
  <2>1. nbMachines + 1 - m \in Machine
    BY Sizes
  <2>2. taken(front, m) = F /\ taken(Reverse(back), nbMachines + 1 - m) = B
    <3> HIDE DEF taken, B
    <3> QED BY <1>2, <1>3, <2>1
  <2>3. \A S \in SUBSET Job : work(S) = Total(ptm[m], S)
    BY FoldOf
  <2> HIDE DEF taken, F, B, work
  <2>4. Job \in SUBSET Job
    OBVIOUS
  <2> QED BY <1>4, <2>2, <2>3, <2>4 DEF w
<1>6. /\ \A j \in Job : w[j] \in Nat
  BY Durations
<1>7. Total(w, Job) = Total(w, O) + (Total(w, F) + Total(w, B))
      /\ Total(w, O) \in Nat /\ Total(w, F) \in Nat /\ Total(w, B) \in Nat
  <2> HIDE DEF w
  <2>1. Total(w, O \cup (F \cup B)) = Total(w, O) + Total(w, F \cup B)
    <3>1. O \cap (F \cup B) = {}
      OBVIOUS
    <3> HIDE DEF O, F, B
    <3> QED BY <1>6, <3>1, TotalUnion
  <2>2. Total(w, F \cup B) = Total(w, F) + Total(w, B)
    <3> HIDE DEF O
    <3> QED BY <1>6, TotalUnion
  <2>3. O \cup (F \cup B) = Job
    BY <1>4
  <2>4. Total(w, O) \in Nat /\ Total(w, F) \in Nat /\ Total(w, B) \in Nat
    <3> HIDE DEF O, F, B
    <3> QED BY <1>6, TotalType
  <2> HIDE DEF O, F, B
  <2> QED BY <2>1, <2>2, <2>3, <2>4
<1>8. remain(front, back)[m] = Total(w, O)
  <2> HIDE DEF work, taken, w, O, F, B
  <2> QED BY <1>1, <1>5, <1>7
<1> QED BY <1>8

\* The sequences of a set of jobs: each job once.
LEMMA SequencesOf ==
  ASSUME NEW O \in SUBSET Job
  PROVE  /\ \A s \in SetToSeqs(O) : /\ Distinct(s) /\ Range(s) = O /\ Len(s) = Cardinality(O)
                                    /\ s \in Seq(Job) /\ Range(s) = {s[i] : i \in 1 .. Len(s)}
         /\ SetToSeq(O) \in SetToSeqs(O)
         /\ Cardinality(O) \in Nat
<1> DEFINE n == Cardinality(O)
<1>1. IsFiniteSet(O) /\ n \in Nat /\ ExistsBijection(1 .. n, O)
  <2>1. IsFiniteSet(Job)
    BY Sizes, FS_Interval
  <2>2. IsFiniteSet(O)
    BY <2>1, FS_Subset
  <2> QED BY <2>2, FS_CardinalityType
<1>2. ASSUME NEW s \in SetToSeqs(O)
      PROVE  /\ Distinct(s) /\ Range(s) = O /\ Len(s) = n
             /\ s \in Seq(Job) /\ Range(s) = {s[i] : i \in 1 .. Len(s)}
  <2>1. s \in [1 .. n -> O] /\ \A i, j \in 1 .. n : i # j => s[i] # s[j]
    BY DEF SetToSeqs
  <2> HIDE DEF n
  <2>2. s \in Seq(Job) /\ Len(s) = n /\ DOMAIN s = 1 .. n
    BY <1>1, <2>1
  <2>3. Range(s) = {s[i] : i \in 1 .. Len(s)}
    BY <2>2 DEF Range
  <2>4. Range(s) \in SUBSET O
    BY <2>1, <2>2, <2>3
  <2>5. s \in Bijection(1 .. n, Range(s))
    <3>1. s \in [1 .. n -> Range(s)] /\ IsInjective(s)
      BY <2>1, <2>2, <2>3 DEF IsInjective
    <3>2. \A y \in Range(s) : \E i \in 1 .. n : s[i] = y
      BY <2>2, <2>3
    <3> QED BY <3>1, <3>2 DEF Bijection, Injection, Surjection
  <2>6. Cardinality(Range(s)) = n
    <3>1. IsFiniteSet(1 .. n) /\ Cardinality(1 .. n) = n
      <4>1. 1 \in Int /\ n \in Int /\ (IF 1 > n THEN 0 ELSE n - 1 + 1) = n
        BY <1>1
      <4> QED BY <4>1, FS_Interval
    <3>2. ExistsBijection(1 .. n, Range(s))
      BY <2>5 DEF ExistsBijection
    <3> QED BY <3>1, <3>2, FS_Bijection
  <2>7. Range(s) = O
    BY <1>1, <2>4, <2>6, FS_Subset DEF n
  <2>8. Distinct(s)
    BY <2>1, <2>2 DEF Distinct
  <2> QED BY <2>2, <2>3, <2>7, <2>8
<1>3. SetToSeq(O) \in SetToSeqs(O)
  <2> HIDE DEF n
  <2>1. PICK f \in [1 .. n -> O] : IsInjective(f)
    BY <1>1 DEF ExistsBijection, Bijection, Injection
  <2>2. SetToSeq(O) \in [1 .. n -> O] /\ IsInjective(SetToSeq(O))
    BY <2>1 DEF SetToSeq, n
  <2>3. \A i, j \in 1 .. n : i # j => SetToSeq(O)[i] # SetToSeq(O)[j]
    BY <2>2 DEF IsInjective
  <2> QED BY <2>2, <2>3 DEF SetToSeqs, n
<1> QED BY <1>1, <1>2, <1>3

-----------------------------------------------------------------------------
(* Nodes and their children *)

\* A node: a front part, a set of open jobs and a back part.
Splits(front, O, back) ==
  /\ Distinct(front) /\ Distinct(back) /\ Range(front) \cap Range(back) = {}
  /\ O = Job \ (Range(front) \cup Range(back))

\* The open jobs in any order complete a node.
LEMMA CompletesNode ==
  ASSUME NEW front, NEW O, NEW back, Splits(front, O, back), O # {}, NEW s \in SetToSeqs(O)
  PROVE  Completes(front \o s \o back, front, O, back)
<1> DEFINE a == Len(front)
           d == Len(s)
           e == Len(back)
           c == front \o s \o back
<1>1. O \in SUBSET Job
  BY DEF Splits
<1>2. /\ Distinct(s) /\ Range(s) = O /\ s \in Seq(Job) /\ Range(s) = {s[i] : i \in 1 .. d}
      /\ front \in Seq(Job) /\ back \in Seq(Job) /\ a \in Nat /\ d \in Nat /\ e \in Nat
      /\ Range(front) = {front[i] : i \in 1 .. a} /\ Range(back) = {back[i] : i \in 1 .. e}
      /\ d > 0
  <2>1. /\ Distinct(s) /\ Range(s) = O /\ s \in Seq(Job) /\ Range(s) = {s[i] : i \in 1 .. d}
    BY <1>1, SequencesOf
  <2>2. /\ front \in Seq(Job) /\ back \in Seq(Job)
    BY DEF Splits, Distinct
  <2>3. d # 0
    BY <2>1
  <2> QED BY <2>1, <2>2, <2>3 DEF Range
<1>3. /\ c \in Seq(Job) /\ Len(c) = a + d + e
      /\ \A k \in 1 .. a : c[k] = front[k]
      /\ \A k \in 1 .. d : c[a + k] = s[k]
      /\ \A k \in 1 .. e : c[a + d + k] = back[k]
  <2>1. /\ front \o s \in Seq(Job) /\ Len(front \o s) = a + d
        /\ \A k \in 1 .. a : (front \o s)[k] = front[k]
        /\ \A k \in 1 .. d : (front \o s)[a + k] = s[k]
    BY <1>2
  <2> DEFINE z == front \o s
  <2>2. c = z \o back
    OBVIOUS
  <2>3. \A k \in 1 .. a : k \in 1 .. a + d
    BY <1>2
  <2>4. \A k \in 1 .. d : a + k \in 1 .. a + d
    BY <1>2
  <2> HIDE DEF z
  <2>5. c \in Seq(Job) /\ Len(c) = Len(z) + e /\ (\A k \in 1 .. Len(z) : c[k] = z[k])
        /\ \A k \in 1 .. e : c[Len(z) + k] = back[k]
    BY <1>2, <2>1, <2>2 DEF z
  <2>6. /\ Len(z) = a + d
        /\ \A k \in 1 .. a : z[k] = front[k]
        /\ \A k \in 1 .. d : z[a + k] = s[k]
    BY <2>1 DEF z
  <2> HIDE DEF a, d, e, c
  <2>7. c \in Seq(Job) /\ Len(c) = a + d + e
    BY <2>5, <2>6
  <2>8. \A k \in 1 .. a : c[k] = front[k]
    <3> TAKE k \in 1 .. a
    <3>1. k \in 1 .. Len(z)
      BY <2>3, <2>6
    <3> QED BY <2>5, <2>6, <3>1
  <2>9. \A k \in 1 .. d : c[a + k] = s[k]
    <3> TAKE k \in 1 .. d
    <3>1. a + k \in 1 .. Len(z)
      BY <2>4, <2>6
    <3>2. c[a + k] = z[a + k]
      BY <2>5, <3>1
    <3>3. z[a + k] = s[k]
      BY <2>6
    <3> QED BY <3>2, <3>3
  <2>10. \A k \in 1 .. e : c[(a + d) + k] = back[k]
    <3> TAKE k \in 1 .. e
    <3>1. c[Len(z) + k] = back[k]
      BY <2>5
    <3> QED BY <2>6, <3>1
  <2> QED BY <2>7, <2>8, <2>9, <2>10
<1>4. /\ \A k \in 1 .. a : front[k] \in Range(front)
      /\ \A k \in 1 .. d : s[k] \in O
      /\ \A k \in 1 .. e : back[k] \in Range(back)
      /\ Range(front) \cap Range(back) = {} /\ O \cap Range(front) = {} /\ O \cap Range(back) = {}
  <2>1. Range(front) \cap Range(back) = {} /\ O \cap Range(front) = {} /\ O \cap Range(back) = {}
    BY DEF Splits
  <2> HIDE DEF a, d, e
  <2>2. /\ \A k \in 1 .. a : front[k] \in Range(front)
        /\ \A k \in 1 .. d : s[k] \in O
        /\ \A k \in 1 .. e : back[k] \in Range(back)
    BY <1>2
  <2> QED BY <2>1, <2>2
<1>5. /\ \A i, j \in 1 .. a : front[i] = front[j] => i = j
      /\ \A i, j \in 1 .. d : s[i] = s[j] => i = j
      /\ \A i, j \in 1 .. e : back[i] = back[j] => i = j
  BY <1>2 DEF Splits, Distinct
<1> HIDE DEF a, d, e, c
<1>6. ASSUME NEW i \in 1 .. Len(c)
      PROVE  \/ i \in 1 .. a /\ c[i] = front[i] /\ c[i] \in Range(front)
             \/ i - a \in 1 .. d /\ c[i] = s[i - a] /\ c[i] \in O
             \/ i - (a + d) \in 1 .. e /\ c[i] = back[i - (a + d)] /\ c[i] \in Range(back)
  <2>1. CASE i <= a
    <3>1. i \in 1 .. a
      BY <1>2, <1>3, <2>1
    <3> QED BY <1>3, <1>4, <3>1
  <2>2. CASE i > a /\ i <= a + d
    <3>1. i - a \in 1 .. d /\ a + (i - a) = i
      BY <1>2, <1>3, <2>2
    <3>2. c[a + (i - a)] = s[i - a] /\ s[i - a] \in O
      BY <1>3, <1>4, <3>1
    <3> QED BY <3>1, <3>2
  <2>3. CASE i > a + d
    <3>1. i - (a + d) \in 1 .. e /\ (a + d) + (i - (a + d)) = i
      BY <1>2, <1>3, <2>3
    <3>2. c[(a + d) + (i - (a + d))] = back[i - (a + d)] /\ back[i - (a + d)] \in Range(back)
      BY <1>3, <1>4, <3>1
    <3> QED BY <3>1, <3>2
  <2> QED BY <1>2, <1>3, <2>1, <2>2, <2>3
<1>7. Distinct(c)
  <2>1. ASSUME NEW i \in 1 .. Len(c), NEW j \in 1 .. Len(c), c[i] = c[j] PROVE i = j
    <3>1. i \in Int /\ j \in Int /\ a \in Nat /\ d \in Nat
      BY <1>2
    <3>2. CASE c[i] \in Range(front)
      <4>1. /\ i \in 1 .. a /\ c[i] = front[i]
            /\ j \in 1 .. a /\ c[j] = front[j]
        BY <1>4, <1>6, <2>1, <3>2
      <4> QED BY <1>5, <2>1, <4>1
    <3>3. CASE c[i] \in O
      <4>1. /\ i - a \in 1 .. d /\ c[i] = s[i - a]
            /\ j - a \in 1 .. d /\ c[j] = s[j - a]
        BY <1>4, <1>6, <2>1, <3>3
      <4>2. i - a = j - a
        BY <1>5, <2>1, <4>1
      <4> QED BY <3>1, <4>2
    <3>4. CASE c[i] \in Range(back)
      <4>1. /\ i - (a + d) \in 1 .. e /\ c[i] = back[i - (a + d)]
            /\ j - (a + d) \in 1 .. e /\ c[j] = back[j - (a + d)]
        BY <1>4, <1>6, <2>1, <3>4
      <4>2. i - (a + d) = j - (a + d)
        BY <1>5, <2>1, <4>1
      <4> QED BY <3>1, <4>2
    <3> QED BY <1>6, <3>2, <3>3, <3>4
  <2> QED BY <1>3, <2>1 DEF Distinct
<1>8. O = Between(c, a + 1, Len(c) - e)
  <2>1. ASSUME NEW x \in O PROVE x \in Between(c, a + 1, Len(c) - e)
    <3>1. PICK i \in 1 .. d : x = s[i]
      BY <1>2
    <3>2. x = c[a + i] /\ a + i \in a + 1 .. Len(c) - e
      BY <1>2, <1>3, <3>1
    <3> QED BY <3>2 DEF Between
  <2>2. ASSUME NEW i \in a + 1 .. Len(c) - e PROVE c[i] \in O
    <3>1. i - a \in 1 .. d /\ a + (i - a) = i
      BY <1>2, <1>3
    <3>2. c[a + (i - a)] = s[i - a] /\ s[i - a] \in O
      BY <1>3, <1>4, <3>1
    <3> QED BY <3>1, <3>2
  <2> QED BY <2>1, <2>2 DEF Between
<1>9. /\ a + e < Len(c)
      /\ \A k \in 1 .. a : front[k] = c[k]
      /\ \A k \in 1 .. e : back[k] = c[(Len(c) - e) + k]
  <2>1. Len(c) - e = a + d /\ a + e < Len(c)
    BY <1>2, <1>3
  <2> QED BY <1>3, <2>1
<1>10. /\ Len(front) + Len(back) < Len(c)
       /\ \A k \in 1 .. Len(front) : front[k] = c[k]
       /\ \A k \in 1 .. Len(back) : back[k] = c[(Len(c) - Len(back)) + k]
       /\ O = Between(c, Len(front) + 1, Len(c) - Len(back))
  BY <1>8, <1>9 DEF a, e
<1> QED BY <1>2, <1>7, <1>10 DEF Completes, c

\* The cheapest completion of a node.
LEMMA CheapestOf ==
  ASSUME ptm \in Instances, NEW front, NEW O, NEW back, Splits(front, O, back), O # {},
         NEW x, \A c : c \in Completions(front, O, back) => x <= evalSolution(c)
  PROVE  x <= Min({evalSolution(s) : s \in Completions(front, O, back)})
<1> DEFINE C == Completions(front, O, back)
           T == {evalSolution(s) : s \in C}
<1>1. O \in SUBSET Job
  BY DEF Splits
<1>2. ASSUME NEW c \in C PROVE evalSolution(c) \in Nat
  <2>1. Distinct(c)
    BY CompletesNode DEF Completions, Completes
  <2> QED BY <2>1, EvalOf
<1>3. front \o SetToSeq(O) \o back \in C
  BY <1>1, SequencesOf DEF Completions
<1> HIDE DEF C
<1>4. T \in SUBSET Nat /\ evalSolution(front \o SetToSeq(O) \o back) \in T
  BY <1>2, <1>3
<1>5. Min(T) \in T
  <2> HIDE DEF T
  <2> QED BY <1>4, LeastNumber
<1>6. PICK c \in C : Min(T) = evalSolution(c)
  BY <1>5
<1>7. x <= Min(T)
  <2> HIDE DEF T
  <2> QED BY <1>6 DEF C
<1> QED BY <1>7 DEF T, C

\* A node with one more job in front, or at the end.
LEMMA ChildSplits ==
  ASSUME NEW front, NEW O, NEW back, Splits(front, O, back), NEW j \in O
  PROVE  Splits(Append(front, j), O \ {j}, back) /\ Splits(front, O \ {j}, <<j>> \o back)
<1>1. /\ Distinct(front) /\ Distinct(back) /\ Range(front) \cap Range(back) = {}
      /\ O = Job \ (Range(front) \cup Range(back)) /\ j \in Job
      /\ front \in Seq(Job) /\ back \in Seq(Job)
  BY DEF Splits, Distinct
<1>2. Distinct(Append(front, j)) /\ Range(Append(front, j)) = Range(front) \cup {j}
  <2> DEFINE n == Len(front)
             s == Append(front, j)
  <2>1. /\ s \in Seq(Job) /\ Len(s) = n + 1 /\ s[n + 1] = j /\ n \in Nat
        /\ \A k \in 1 .. n : s[k] = front[k]
    BY <1>1
  <2>2. /\ Range(front) = {front[k] : k \in 1 .. n} /\ Range(s) = {s[k] : k \in 1 .. n + 1}
    BY <1>1, <2>1 DEF Range
  <2>3. 1 .. n + 1 = (1 .. n) \cup {n + 1}
    BY <2>1
  <2> HIDE DEF s, n
  <2>4. Range(s) = Range(front) \cup {j}
    BY <2>1, <2>2, <2>3
  <2>5. j \notin Range(front)
    BY <1>1
  <2>6. ASSUME NEW i \in 1 .. n + 1, NEW k \in 1 .. n + 1, s[i] = s[k] PROVE i = k
    <3>1. CASE i \in 1 .. n /\ k \in 1 .. n
      BY <1>1, <2>1, <2>6, <3>1 DEF Distinct, n
    <3>2. i \in 1 .. n => s[i] \in Range(front)
      BY <2>1, <2>2
    <3>3. k \in 1 .. n => s[k] \in Range(front)
      BY <2>1, <2>2
    <3> QED BY <2>1, <2>3, <2>5, <2>6, <3>1, <3>2, <3>3
  <2> QED BY <2>1, <2>4, <2>6 DEF Distinct, s
<1>3. Distinct(<<j>> \o back) /\ Range(<<j>> \o back) = Range(back) \cup {j}
  <2> DEFINE n == Len(back)
             s == <<j>> \o back
  <2>1. /\ s \in Seq(Job) /\ Len(s) = n + 1 /\ s[1] = j /\ n \in Nat
        /\ \A k \in 1 .. n : s[k + 1] = back[k]
    BY <1>1
  <2>2. /\ Range(back) = {back[k] : k \in 1 .. n} /\ Range(s) = {s[k] : k \in 1 .. n + 1}
    BY <1>1, <2>1 DEF Range
  <2>3. /\ \A k \in 1 .. n + 1 : k = 1 \/ (k - 1 \in 1 .. n /\ (k - 1) + 1 = k)
        /\ \A k \in 1 .. n : k + 1 \in 1 .. n + 1
        /\ 1 \in 1 .. n + 1
    BY <2>1
  <2> HIDE DEF s, n
  <2>4. \A k \in 1 .. n + 1 : k # 1 => s[k] = back[k - 1] /\ k - 1 \in 1 .. n
    <3> TAKE k \in 1 .. n + 1
    <3> SUFFICES ASSUME k # 1 PROVE s[k] = back[k - 1] /\ k - 1 \in 1 .. n
      OBVIOUS
    <3>1. k - 1 \in 1 .. n /\ (k - 1) + 1 = k
      BY <2>3
    <3>2. s[(k - 1) + 1] = back[k - 1]
      BY <2>1, <3>1
    <3> QED BY <3>1, <3>2
  <2>5. Range(s) = Range(back) \cup {j}
    <3>1. ASSUME NEW k \in 1 .. n + 1 PROVE s[k] \in Range(back) \cup {j}
      BY <2>1, <2>2, <2>4
    <3>2. ASSUME NEW k \in 1 .. n PROVE back[k] \in Range(s)
      BY <2>1, <2>2, <2>3
    <3>3. j \in Range(s)
      BY <2>1, <2>2, <2>3
    <3> QED BY <2>2, <3>1, <3>2, <3>3
  <2>6. j \notin Range(back)
    BY <1>1
  <2>7. ASSUME NEW i \in 1 .. n + 1, NEW k \in 1 .. n + 1, s[i] = s[k] PROVE i = k
    <3>1. i # 1 => s[i] \in Range(back)
      BY <2>2, <2>4
    <3>2. k # 1 => s[k] \in Range(back)
      BY <2>2, <2>4
    <3>3. CASE i # 1 /\ k # 1
      <4>1. i - 1 = k - 1
        <5>1. back[i - 1] = back[k - 1] /\ i - 1 \in 1 .. n /\ k - 1 \in 1 .. n
          BY <2>4, <2>7, <3>3
        <5> QED BY <1>1, <5>1 DEF Distinct, n
      <4> QED BY <2>1, <4>1
    <3> QED BY <2>1, <2>6, <2>7, <3>1, <3>2, <3>3
  <2> QED BY <2>1, <2>5, <2>7 DEF Distinct, s
<1> QED BY <1>1, <1>2, <1>3 DEF Splits

\* The jobs that are open when job j is taken.
Child(O, j, R) == j \in O /\ R = O \ {j}

\* What completes the child that takes j to the front completes its parent ...
LEMMA CompletesFront ==
  ASSUME NEW c, NEW front, NEW O, NEW back, NEW j, NEW R, Child(O, j, R), front \in Seq(Job),
         Completes(c, Append(front, j), R, back)
  PROVE  /\ Completes(c, front, O, back) /\ c[FirstOpen(c, front)] = j
         /\ FirstOpen(c, front) + 1 \in 1 .. LastOpen(c, back) /\ FirstOpen(c, front) \in 1 .. Len(c)
         /\ FirstOpen(c, Append(front, j)) = FirstOpen(c, front) + 1
         /\ R = Between(c, FirstOpen(c, front) + 1, LastOpen(c, back))
<1> DEFINE n == Len(front)
           s == Append(front, j)
           e == Len(back)
<1>0. j \in Job /\ R \in SUBSET Job
  BY DEF Completes, Distinct, Child, Between
<1>1. /\ Distinct(c) /\ s \in Seq(Job) /\ back \in Seq(Job) /\ c \in Seq(Job)
      /\ (n + 1) + e < Len(c)
      /\ \A k \in 1 .. n + 1 : s[k] = c[k]
      /\ \A k \in 1 .. e : back[k] = c[(Len(c) - e) + k]
      /\ R = Between(c, (n + 1) + 1, Len(c) - e)
      /\ n \in Nat /\ e \in Nat /\ Len(c) \in Nat /\ Len(s) = n + 1
      /\ s[n + 1] = j /\ \A k \in 1 .. n : s[k] = front[k]
  <2>1. Len(s) = n + 1 /\ n \in Nat /\ s[n + 1] = j /\ \A k \in 1 .. n : s[k] = front[k]
    OBVIOUS
  <2>2. /\ Distinct(c) /\ s \in Seq(Job) /\ back \in Seq(Job)
        /\ Len(s) + e < Len(c)
        /\ \A k \in 1 .. Len(s) : s[k] = c[k]
        /\ \A k \in 1 .. e : back[k] = c[(Len(c) - e) + k]
        /\ R = Between(c, Len(s) + 1, Len(c) - e)
    BY DEF Completes
  <2>3. c \in Seq(Job) /\ e \in Nat /\ Len(c) \in Nat
    BY <2>2 DEF Distinct
  <2> HIDE DEF n, s, e
  <2> QED BY <2>1, <2>2, <2>3
<1>2. FirstOpen(c, front) = n + 1 /\ LastOpen(c, back) = Len(c) - e /\ FirstOpen(c, s) = (n + 1) + 1
  <2>1. Len(s) = n + 1
    BY <1>1
  <2> HIDE DEF s
  <2> QED BY <2>1 DEF FirstOpen, LastOpen
<1> HIDE DEF n, s, e
<1>3. /\ n + 1 \in 1 .. Len(c) /\ Len(c) - e \in n + 1 .. Len(c) /\ (n + 1) + 1 \in 1 .. Len(c) - e
      /\ n + e < Len(c) /\ n + 1 \in 1 .. n + 1 /\ \A k \in 1 .. n : k \in 1 .. n + 1
  BY <1>1
<1>4. c[n + 1] = j
  BY <1>1, <1>3
<1>5. Between(c, n + 1, Len(c) - e) = Between(c, (n + 1) + 1, Len(c) - e) \cup {c[n + 1]}
  <2> DEFINE a == n + 1
             b == Len(c) - e
  <2>1. a \in 1 .. Len(c) /\ b \in a .. Len(c)
    BY <1>3
  <2> HIDE DEF a, b
  <2>2. Between(c, a, b) = Between(c, a + 1, b) \cup {c[a]}
    BY <1>1, <2>1, BetweenGrows
  <2> QED BY <2>2 DEF a, b
<1>6. O = Between(c, n + 1, Len(c) - e)
  <2>1. O = R \cup {j}
    BY DEF Child
  <2>2. R = Between(c, (n + 1) + 1, Len(c) - e)
    BY <1>1
  <2> QED BY <1>4, <1>5, <2>1, <2>2
<1>7. \A k \in 1 .. n : front[k] = c[k]
  BY <1>1, <1>3
<1>8. Completes(c, front, O, back)
  BY <1>1, <1>3, <1>6, <1>7 DEF Completes, n, e
<1>9. R = Between(c, (n + 1) + 1, Len(c) - e)
  BY <1>1
<1> QED BY <1>2, <1>3, <1>4, <1>8, <1>9 DEF s

\* ... and so does what completes the one that takes it to the back.
LEMMA CompletesBack ==
  ASSUME NEW c, NEW front, NEW O, NEW back, NEW j, NEW R, Child(O, j, R), back \in Seq(Job), j \in Job,
         NEW s, s = <<j>> \o back, Completes(c, front, R, s)
  PROVE  /\ Completes(c, front, O, back) /\ c[LastOpen(c, back)] = j
         /\ LastOpen(c, back) - 1 \in FirstOpen(c, front) .. Len(c) /\ LastOpen(c, back) \in 1 .. Len(c)
         /\ LastOpen(c, back) > 1 /\ FirstOpen(c, front) \in 1 .. Len(c)
         /\ R = Between(c, FirstOpen(c, front), LastOpen(c, back) - 1)
<1> DEFINE n == Len(front)
           e == Len(back)
           L == Len(c)
<1>1. /\ Distinct(c) /\ s \in Seq(Job) /\ front \in Seq(Job) /\ c \in Seq(Job)
      /\ n + (e + 1) < L
      /\ \A k \in 1 .. n : front[k] = c[k]
      /\ \A k \in 1 .. e + 1 : s[k] = c[(L - (e + 1)) + k]
      /\ R = Between(c, n + 1, L - (e + 1))
      /\ n \in Nat /\ e \in Nat /\ L \in Nat /\ Len(s) = e + 1
      /\ s[1] = j
      /\ \A k \in 1 .. e : s[k + 1] = back[k]
  <2>1. /\ Len(s) = e + 1 /\ e \in Nat /\ s[1] = j
        /\ \A k \in 1 .. e : s[k + 1] = back[k]
    OBVIOUS
  <2>2. /\ Distinct(c) /\ s \in Seq(Job) /\ front \in Seq(Job)
        /\ n + Len(s) < L
        /\ \A k \in 1 .. n : front[k] = c[k]
        /\ \A k \in 1 .. Len(s) : s[k] = c[(L - Len(s)) + k]
        /\ R = Between(c, n + 1, L - Len(s))
    BY DEF Completes
  <2>3. c \in Seq(Job) /\ n \in Nat /\ L \in Nat
    BY <2>2 DEF Distinct
  <2> HIDE DEF n, e, L
  <2> QED BY <2>1, <2>2, <2>3
<1>2. FirstOpen(c, front) = n + 1 /\ LastOpen(c, back) = L - e
  BY DEF FirstOpen, LastOpen
<1> HIDE DEF n, e, L
<1>3. /\ n + 1 \in 1 .. L /\ L - e \in n + 1 .. L /\ (L - e) - 1 \in n + 1 .. L /\ L - e > 1
      /\ n + e < L /\ (L - (e + 1)) + 1 = L - e /\ (L - e) - 1 = L - (e + 1) /\ 1 \in 1 .. e + 1
      /\ L - e \in 1 .. L
      /\ \A k \in 1 .. e : k + 1 \in 1 .. e + 1 /\ (L - (e + 1)) + (k + 1) = (L - e) + k
  <2>1. n + (e + 1) < L /\ n \in Nat /\ e \in Nat /\ L \in Nat
    BY <1>1
  <2> QED BY <2>1
<1>4. c[L - e] = j
  <2>1. s[1] = c[(L - (e + 1)) + 1]
    BY <1>1, <1>3
  <2> QED BY <1>1, <1>3, <2>1
<1>5. Between(c, n + 1, L - e) = Between(c, n + 1, (L - e) - 1) \cup {c[L - e]}
  <2> DEFINE a == n + 1
             b == L - e
  <2>1. a \in 1 .. Len(c) /\ b \in a .. Len(c)
    BY <1>3 DEF L
  <2> HIDE DEF a, b
  <2>2. Between(c, a, b) = Between(c, a, b - 1) \cup {c[b]}
    BY <1>1, <2>1, BetweenGrows
  <2> QED BY <2>2 DEF a, b
<1>6. O = Between(c, n + 1, L - e)
  <2>1. O = R \cup {j}
    BY DEF Child
  <2>2. R = Between(c, n + 1, (L - e) - 1)
    BY <1>1, <1>3
  <2> QED BY <1>4, <1>5, <2>1, <2>2
<1>7. ASSUME NEW k \in 1 .. e PROVE back[k] = c[(L - e) + k]
  <2>1. s[k + 1] = c[(L - (e + 1)) + (k + 1)]
    BY <1>1, <1>3
  <2> QED BY <1>1, <1>3, <2>1
<1>8. back \in Seq(Job)
  OBVIOUS
<1>9. Completes(c, front, O, back)
  BY <1>1, <1>3, <1>6, <1>7, <1>8 DEF Completes, n, e, L
<1>10. R = Between(c, n + 1, (L - e) - 1)
  BY <1>1, <1>3
<1> QED BY <1>2, <1>3, <1>4, <1>9, <1>10 DEF L

\* The two-machine bound over a set of pairs of machines, with the time to leave
\* the first machine of a pair and without it.
BothMachines(f, O, b, S) == Max({cmaxFin(heuristiqueCmax(f, O, q), b, q) : q \in S})
SecondMachine(f, O, b, S) == Max({heuristiqueCmax(f, O, q)[2] + b[q[2]] : q \in S})

\* The largest bound of some pairs.
LEMMA PairsBounded ==
  ASSUME ptm \in Instances, NEW S \in SUBSET machine, S # {}, NEW c, Distinct(c),
         NEW h, HeadsOf(h, c), NEW t, TailsOf(t, c),
         NEW k \in 1 .. Len(c), NEW l \in k .. Len(c),
         NEW f, Early(f, h, c, k), NEW b, Late(b, t, c, l), NEW O, O = Between(c, k, l)
  PROVE  /\ BothMachines(f, O, b, S) <= h[Len(c)][nbMachines]
         /\ SecondMachine(f, O, b, S) <= h[Len(c)][nbMachines]
<1> DEFINE E == h[Len(c)][nbMachines]
           u(q) == heuristiqueCmax(f, O, q)
           x == [q \in S |-> cmaxFin(u(q), b, q)]
           y == [q \in S |-> u(q)[2] + b[q[2]]]
<1>1. E \in Nat
  <2>1. Len(c) \in 0 .. Len(c) /\ c \in Seq(Job) /\ nbMachines \in Machine
    BY Sizes DEF Distinct
  <2> QED BY <2>1, HeadsGrow
<1>2. ASSUME NEW q \in S
      PROVE  /\ u(q)[1] + b[q[1]] <= E /\ u(q)[2] + b[q[2]] <= E
             /\ u(q)[1] \in Nat /\ u(q)[2] \in Nat /\ b[q[1]] \in Nat /\ b[q[2]] \in Nat
  BY TwoMachines
<1>3. ASSUME NEW q \in S
      PROVE  x[q] \in Nat /\ x[q] <= E /\ y[q] \in Nat /\ y[q] <= E
  <2> DEFINE v1 == u(q)[1]
             v2 == u(q)[2]
             b1 == b[q[1]]
             b2 == b[q[2]]
  <2>1. /\ v1 + b1 <= E /\ v2 + b2 <= E
        /\ v1 \in Nat /\ v2 \in Nat /\ b1 \in Nat /\ b2 \in Nat
    BY <1>2
  <2>2. x[q] = Larger(v2 + b2, v1 + b1) /\ y[q] = v2 + b2
    <3>1. x[q] = cmaxFin(u(q), b, q)
      OBVIOUS
    <3>2. y[q] = v2 + b2
      OBVIOUS
    <3> HIDE DEF x, u
    <3> QED BY <3>1, <3>2 DEF cmaxFin
  <2> HIDE DEF v1, v2, b1, b2, x, y, E
  <2> QED BY <1>1, <2>1, <2>2 DEF Larger
<1>4. x \in [S -> Nat] /\ y \in [S -> Nat]
  <2> HIDE DEF u, E
  <2>1. /\ x = [q \in S |-> x[q]] /\ y = [q \in S |-> y[q]]
    OBVIOUS
  <2> HIDE DEF x, y
  <2> QED BY <1>3, <2>1
<1>5. Max({x[q] : q \in S}) <= E /\ Max({y[q] : q \in S}) <= E
  <2> HIDE DEF x, y, E
  <2> QED BY <1>1, <1>3, <1>4, LargestBelow
<1>6. /\ {x[q] : q \in S} = {cmaxFin(u(q), b, q) : q \in S}
      /\ {y[q] : q \in S} = {u(q)[2] + b[q[2]] : q \in S}
  <2> HIDE DEF u, E
  <2> QED OBVIOUS
<1> HIDE DEF x, y
<1>7. Max({cmaxFin(u(q), b, q) : q \in S}) <= E /\ Max({u(q)[2] + b[q[2]] : q \in S}) <= E
  BY <1>5, <1>6
<1> QED BY <1>7 DEF BothMachines, SecondMachine

\* The pairs of machines that are compared.
LEMMA SomePairs ==
  ASSUME NEW mp
  PROVE  pairs(mp) \in SUBSET machine /\ pairs(mp) # {} /\ machine # {}
<1>1. /\ <<1, nbMachines>> \in machine /\ <<1, nbMachines>>[2] = nbMachines
      /\ <<1, 2>> \in machine /\ <<1, 2>>[2] = <<1, 2>>[1] + 1
  BY Sizes DEF machine
<1>2. CASE mp = 1
  <2>1. pairs(mp) = {q \in machine : q[2] = nbMachines}
    BY <1>2 DEF pairs
  <2> QED BY <1>1, <2>1
<1>3. CASE mp = 2
  <2>1. pairs(mp) = {q \in machine : q[2] = q[1] + 1}
    BY <1>3 DEF pairs
  <2> QED BY <1>1, <2>1
<1>4. CASE mp # 1 /\ mp # 2
  <2>1. pairs(mp) = machine
    BY <1>4 DEF pairs
  <2> QED BY <1>1, <2>1
<1> QED BY <1>2, <1>3, <1>4

\* The bounds of a node itself.
LEMMA NodeBounded ==
  ASSUME ptm \in Instances, NEW f, NEW O, NEW b, Splits(f, O, b), Cardinality(O) >= 2,
         NEW c \in Completions(f, O, b), NEW mp
  PROVE  /\ bornes_calculer(f, SetToSeq(O), b) <= evalSolution(c)
         /\ StrongBound(f, SetToSeq(O), b, mp) <= evalSolution(c)
<1> DEFINE open == SetToSeq(O)
<1>1. O \in SUBSET Job /\ O # {}
  BY FS_EmptySet DEF Splits
<1>2. Distinct(open) /\ Range(open) = O /\ Len(open) = Cardinality(O) /\ Len(open) \in Nat
  BY <1>1, SequencesOf
<1>3. Completes(c, f, O, b)
  BY <1>1, CompletesNode DEF Completions
<1>4. bornes_calculer(f, open, b) <= evalSolution(c)
  <2> HIDE DEF open
  <2> QED BY <1>2, <1>3, WeakBounded
<1>5. StrongBound(f, open, b, mp) <= evalSolution(c)
  <2>1. Distinct(c)
    BY <1>3 DEF Completes
  <2>2. PICK h, t : HeadsOf(h, c) /\ TailsOf(t, c) /\ evalSolution(c) = h[Len(c)][nbMachines]
    BY <2>1, EvalOf
  <2> DEFINE k == FirstOpen(c, f)
             l == LastOpen(c, b)
             x == scheduleFront(f)
             y == scheduleBack(b)
  <2>3. k \in 1 .. Len(c) /\ l \in k .. Len(c) /\ O = Between(c, k, l)
    BY <1>3, Places
  <2>4. Early(x, h, c, k) /\ Late(y, t, c, l)
    BY <1>3, <2>2, EarlyFront, LateBack
  <2>5. ~(Len(open) <= 1)
    <3> HIDE DEF open
    <3> QED BY <1>2
  <2>6. StrongBound(f, open, b, mp)
          = Max({cmaxFin(heuristiqueCmax(x, O, q), y, q) : q \in pairs(mp)})
    <3> HIDE DEF open
    <3> QED BY <1>2, <2>5 DEF StrongBound, borneInfMakespan
  <2> DEFINE S == pairs(mp)
  <2>7. S \in SUBSET machine /\ S # {}
    BY SomePairs
  <2> HIDE DEF open, k, l, x, y, S
  <2>8. BothMachines(x, O, y, S) <= h[Len(c)][nbMachines]
    BY <2>1, <2>2, <2>3, <2>4, <2>7, PairsBounded
  <2> QED BY <2>2, <2>6, <2>8 DEF S, BothMachines
<1> QED BY <1>4, <1>5

\* The sums that the bounds of the children start from, on the host and on the device.
LEMMA RemainingWork ==
  ASSUME ptm \in Instances, NEW f, NEW O, NEW b, Splits(f, O, b)
  PROVE  /\ sumUnscheduled(SetToSeq(O)) \in Time /\ remain(f, b) \in Time
         /\ \A m \in Machine : sumUnscheduled(SetToSeq(O))[m] = Total(ptm[m], O)
                               /\ remain(f, b)[m] = Total(ptm[m], O)
<1> DEFINE s == SetToSeq(O)
<1>1. O \in SUBSET Job /\ f \in Seq(Job) /\ b \in Seq(Job) /\ Range(f) \cap Range(b) = {}
      /\ O = Job \ (Range(f) \cup Range(b))
  BY DEF Splits, Distinct
<1>2. Distinct(s) /\ Range(s) = O
  BY <1>1, SequencesOf
<1>3. \A m \in Machine : sumUnscheduled(s)[m] = Total(ptm[m], O)
  <2> HIDE DEF s
  <2> QED BY <1>2, SumUnscheduledOf
<1>4. \A m \in Machine : remain(f, b)[m] = Total(ptm[m], O)
  BY <1>1, RemainOf
<1>5. \A m \in Machine : Total(ptm[m], O) \in Nat
  <2> TAKE m \in Machine
  <2>1. \A j \in Job : ptm[m][j] \in Nat
    BY Durations
  <2> QED BY <2>1, TotalType
<1>6. /\ sumUnscheduled(s) = [m \in Machine |-> sumUnscheduled(s)[m]]
      /\ remain(f, b) = [m \in Machine |-> remain(f, b)[m]]
  <2>1. sumUnscheduled(s) = [m \in Machine |-> sumUnscheduled(s)[m]]
    <3> HIDE DEF s
    <3> QED BY DEF sumUnscheduled
  <2>2. remain(f, b) = [m \in Machine |-> remain(f, b)[m]]
    BY DEF remain
  <2> QED BY <2>1, <2>2
<1> HIDE DEF s
<1>7. sumUnscheduled(s) \in Time /\ remain(f, b) \in Time
  BY <1>3, <1>4, <1>5, <1>6 DEF Time
<1> QED BY <1>3, <1>4, <1>7 DEF s

\* The bounds of a child that takes job j to the front, below a completion of it.
LEMMA FrontChildBounded ==
  ASSUME ptm \in Instances, NEW f, NEW O, NEW b, Splits(f, O, b), Cardinality(O) >= 2,
         NEW j \in O, NEW c \in Completions(Append(f, j), O \ {j}, b)
  PROVE  /\ boundChildren(f, SetToSeq(O), b)[j][1] <= evalSolution(c)
         /\ boundWeak(f, O, b)[j][1] <= evalSolution(c)
         /\ computeCostFast(f, O, b, FRONT, j) <= evalSolution(c)
<1> DEFINE rest == O \ {j}
           s == Append(f, j)
<1>1. O \in SUBSET Job /\ f \in Seq(Job) /\ b \in Seq(Job) /\ rest \in SUBSET Job /\ j \in Job
  BY DEF Splits, Distinct
<1>2. Cardinality(rest) \in Nat /\ Cardinality(rest) >= 1 /\ rest # {}
  <2>1. IsFiniteSet(Job)
    BY Sizes, FS_Interval
  <2>2. IsFiniteSet(O)
    BY <1>1, <2>1, FS_Subset
  <2>3. Cardinality(rest) = Cardinality(O) - 1 /\ IsFiniteSet(rest) /\ Cardinality(O) \in Nat
    BY <2>2, FS_RemoveElement, FS_CardinalityType
  <2> QED BY <2>3, FS_EmptySet
<1>3. Splits(s, rest, b)
  BY ChildSplits
<1>4. Completes(c, s, rest, b)
  BY <1>2, <1>3, CompletesNode DEF Completions
<1>5. /\ Completes(c, f, O, b) /\ c[FirstOpen(c, f)] = j
      /\ FirstOpen(c, f) + 1 \in 1 .. LastOpen(c, b) /\ FirstOpen(c, f) \in 1 .. Len(c)
      /\ rest = Between(c, FirstOpen(c, f) + 1, LastOpen(c, b))
  <2>1. Completes(c, Append(f, j), rest, b) /\ Child(O, j, rest)
    BY <1>4 DEF Child
  <2> HIDE DEF s, rest
  <2> QED BY <1>1, <2>1, CompletesFront
<1>6. /\ sumUnscheduled(SetToSeq(O)) \in Time /\ remain(f, b) \in Time
      /\ \A m \in Machine : sumUnscheduled(SetToSeq(O))[m] = Total(ptm[m], O)
                            /\ remain(f, b)[m] = Total(ptm[m], O)
  BY RemainingWork
<1>7. /\ addFrontAndBound(scheduleFront(f), sumUnscheduled(SetToSeq(O)), scheduleBack(b), j)
           <= evalSolution(c)
      /\ addFrontAndBound(scheduleFront(f), remain(f, b), scheduleBack(b), j) <= evalSolution(c)
  BY <1>5, <1>6, ChildrenBounded
<1>8. boundChildren(f, SetToSeq(O), b)[j][1] <= evalSolution(c)
  <2> DEFINE open == SetToSeq(O)
  <2>1. j \in Range(open)
    BY <1>1, SequencesOf
  <2> HIDE DEF open
  <2>2. boundChildren(f, open, b)[j][1]
          = addFrontAndBound(scheduleFront(f), sumUnscheduled(open), scheduleBack(b), j)
    BY <2>1 DEF boundChildren
  <2> QED BY <1>7, <2>2 DEF open
<1>9. boundWeak(f, O, b)[j][1] <= evalSolution(c)
  <2>1. boundWeak(f, O, b)[j][1]
          = addFrontAndBound(scheduleFront(f), remain(f, b), scheduleBack(b), j)
    BY <1>1, TileFront, TileBack DEF boundWeak
  <2> QED BY <1>7, <2>1
<1>10. computeCostFast(f, O, b, FRONT, j) <= evalSolution(c)
  <2> DEFINE other == SetToSeq(rest)
  <2>1. CASE Cardinality(rest) = 1
    <3>1. computeCostFast(f, O, b, FRONT, j) = evalSolution(f \o (<<j>> \o other) \o b)
      BY <2>1 DEF computeCostFast
    <3>2. PICK z \in SetToSeqs(rest) : c = s \o z \o b
      BY DEF Completions
    <3>3. z = other
      <4>1. /\ Range(z) = rest /\ Len(z) = 1 /\ z \in Seq(Job)
            /\ Range(other) = rest /\ Len(other) = 1 /\ other \in Seq(Job)
        BY <1>1, <2>1, SequencesOf
      <4>2. \E x : rest = {x}
        <5>1. IsFiniteSet(rest)
          <6>1. IsFiniteSet(Job)
            BY Sizes, FS_Interval
          <6> QED BY <1>1, <6>1, FS_Subset
        <5> QED BY <2>1, <5>1, FS_Singleton
      <4>3. z[1] \in Range(z) /\ other[1] \in Range(other)
        <5> HIDE DEF other
        <5> QED BY <4>1 DEF Range
      <4>4. z[1] = other[1]
        BY <4>1, <4>2, <4>3
      <4> HIDE DEF other, rest
      <4> QED BY <4>1, <4>4
    <3>4. other \in Seq(Job)
      BY <1>1, SequencesOf
    <3>5. s \o other = f \o (<<j>> \o other)
      <4> HIDE DEF other, rest
      <4> QED BY <1>1, <3>4
    <3>6. c = f \o (<<j>> \o other) \o b
      BY <3>2, <3>3, <3>5
    <3>7. Distinct(c)
      BY <1>4 DEF Completes
    <3>8. evalSolution(c) \in Nat
      BY <3>7, EvalOf
    <3>9. computeCostFast(f, O, b, FRONT, j) = evalSolution(c)
      <4> HIDE DEF other, rest, s
      <4> QED BY <3>1, <3>6
    <3> QED BY <3>8, <3>9
  <2>2. CASE Cardinality(rest) # 1
    <3> DEFINE x == AddFirst(scheduleFront(f), j)
               y == scheduleBack(b)
               E == evalSolution(c)
    <3>1. computeCostFast(f, O, b, FRONT, j) = borneInfMakespan_d(x, rest, y, b # <<>>)
      <4>1. (FRONT = BACK) = FALSE
        BY DEF FRONT, BACK
      <4> QED BY <1>1, <2>2, <4>1, TileFront, TileBack DEF computeCostFast
    <3>2. Distinct(c) /\ c \in Seq(Job) /\ Len(c) \in Nat
      BY <1>4 DEF Completes, Distinct
    <3>3. PICK h, t : HeadsOf(h, c) /\ TailsOf(t, c) /\ E = h[Len(c)][nbMachines]
      BY <3>2, EvalOf
    <3> DEFINE k == FirstOpen(c, f)
               l == LastOpen(c, b)
    <3>4. /\ k \in 1 .. Len(c) /\ k + 1 \in 1 .. l /\ l \in 1 .. Len(c) /\ k < Len(c)
          /\ k + 1 \in 1 .. Len(c) /\ l \in k + 1 .. Len(c)
      <4>1. k \in 1 .. Len(c) /\ l \in k .. Len(c) /\ k + 1 \in 1 .. l
        BY <1>5, Places
      <4> HIDE DEF k, l
      <4> QED BY <3>2, <4>1
    <3>5. Early(scheduleFront(f), h, c, k) /\ Late(y, t, c, l)
      BY <1>5, <3>3, EarlyFront, LateBack
    <3>6. Early(x, h, c, k + 1)
      <4>1. Early(AddFirst(scheduleFront(f), c[k]), h, c, k + 1)
        <5> HIDE DEF k
        <5> QED BY <3>2, <3>3, <3>4, <3>5, EarlyNext
      <4> QED BY <1>5, <4>1
    <3>7. rest = Between(c, k + 1, l)
      BY <1>5
    <3>8. BothMachines(x, rest, y, machine) <= E /\ SecondMachine(x, rest, y, machine) <= E
      <4> DEFINE k1 == k + 1
                 M == machine
      <4>1. M \in SUBSET machine /\ M # {}
        BY SomePairs
      <4>2. k1 \in 1 .. Len(c) /\ l \in k1 .. Len(c) /\ Early(x, h, c, k1) /\ rest = Between(c, k1, l)
        BY <3>4, <3>6, <3>7
      <4> HIDE DEF k1, M, l, x, y, rest, E
      <4>3. /\ BothMachines(x, rest, y, M) <= h[Len(c)][nbMachines]
            /\ SecondMachine(x, rest, y, M) <= h[Len(c)][nbMachines]
        BY <3>2, <3>3, <3>5, <4>1, <4>2, PairsBounded
      <4> QED BY <3>3, <4>3 DEF M
    <3>9. CASE b # <<>>
      <4>1. borneInfMakespan_d(x, rest, y, b # <<>>) = BothMachines(x, rest, y, machine)
        <5> HIDE DEF x, y, rest
        <5> QED BY <3>9 DEF borneInfMakespan_d, BothMachines
      <4> HIDE DEF x, y, rest, E
      <4>2. computeCostFast(f, O, b, FRONT, j) <= E
        BY <3>1, <3>8, <4>1
      <4> QED BY <4>2 DEF E
    <3>10. CASE b = <<>>
      <4>1. y = minTempsDep[ptm]
        BY <3>10 DEF scheduleBack
      <4>2. borneInfMakespan_d(x, rest, y, b # <<>>) = SecondMachine(x, rest, y, machine)
        <5> HIDE DEF x, y, rest
        <5> QED BY <3>10, <4>1 DEF borneInfMakespan_d, SecondMachine
      <4> HIDE DEF x, y, rest, E
      <4>3. computeCostFast(f, O, b, FRONT, j) <= E
        BY <3>1, <3>8, <4>1, <4>2
      <4> QED BY <4>3 DEF E
    <3> QED BY <3>9, <3>10
  <2> QED BY <2>1, <2>2
<1> QED BY <1>8, <1>9, <1>10

\* The bounds of a child that takes job j to the back, below a completion of it.
LEMMA BackChildBounded ==
  ASSUME ptm \in Instances, NEW f, NEW O, NEW b, Splits(f, O, b), Cardinality(O) >= 2,
         NEW j \in O, NEW c \in Completions(f, O \ {j}, <<j>> \o b)
  PROVE  /\ boundChildren(f, SetToSeq(O), b)[j][2] <= evalSolution(c)
         /\ boundWeak(f, O, b)[j][2] <= evalSolution(c)
         /\ computeCostFast(f, O, b, BACK, j) <= evalSolution(c)
<1> DEFINE rest == O \ {j}
           s == <<j>> \o b
<1>1. O \in SUBSET Job /\ f \in Seq(Job) /\ b \in Seq(Job) /\ rest \in SUBSET Job /\ j \in Job
  BY DEF Splits, Distinct
<1>2. Cardinality(rest) \in Nat /\ Cardinality(rest) >= 1 /\ rest # {}
  <2>1. IsFiniteSet(Job)
    BY Sizes, FS_Interval
  <2>2. IsFiniteSet(O)
    BY <1>1, <2>1, FS_Subset
  <2>3. Cardinality(rest) = Cardinality(O) - 1 /\ IsFiniteSet(rest) /\ Cardinality(O) \in Nat
    BY <2>2, FS_RemoveElement, FS_CardinalityType
  <2> QED BY <2>3, FS_EmptySet
<1>3. Splits(f, rest, s)
  BY ChildSplits
<1>4. Completes(c, f, rest, s)
  BY <1>2, <1>3, CompletesNode DEF Completions
<1>5. /\ Completes(c, f, O, b) /\ c[LastOpen(c, b)] = j
      /\ LastOpen(c, b) - 1 \in FirstOpen(c, f) .. Len(c) /\ LastOpen(c, b) \in 1 .. Len(c)
      /\ LastOpen(c, b) > 1 /\ FirstOpen(c, f) \in 1 .. Len(c)
      /\ rest = Between(c, FirstOpen(c, f), LastOpen(c, b) - 1)
  <2>1. Completes(c, f, rest, s) /\ Child(O, j, rest) /\ b \in Seq(Job) /\ s = <<j>> \o b
        /\ j \in Job
    BY <1>1, <1>4 DEF Child
  <2> HIDE DEF s, rest
  <2>2. /\ Completes(c, f, O, b) /\ c[LastOpen(c, b)] = j
        /\ LastOpen(c, b) - 1 \in FirstOpen(c, f) .. Len(c) /\ LastOpen(c, b) \in 1 .. Len(c)
        /\ LastOpen(c, b) > 1 /\ FirstOpen(c, f) \in 1 .. Len(c)
        /\ rest = Between(c, FirstOpen(c, f), LastOpen(c, b) - 1)
    BY <2>1, CompletesBack
  <2> QED BY <2>2
<1>6. /\ sumUnscheduled(SetToSeq(O)) \in Time /\ remain(f, b) \in Time
      /\ \A m \in Machine : sumUnscheduled(SetToSeq(O))[m] = Total(ptm[m], O)
                            /\ remain(f, b)[m] = Total(ptm[m], O)
  BY RemainingWork
<1>7. /\ addBackAndBound(scheduleFront(f), sumUnscheduled(SetToSeq(O)), scheduleBack(b), j)
           <= evalSolution(c)
      /\ addBackAndBound(scheduleFront(f), remain(f, b), scheduleBack(b), j) <= evalSolution(c)
  BY <1>5, <1>6, ChildrenBounded
<1>8. boundChildren(f, SetToSeq(O), b)[j][2] <= evalSolution(c)
  <2> DEFINE open == SetToSeq(O)
  <2>1. j \in Range(open)
    BY <1>1, SequencesOf
  <2> HIDE DEF open
  <2>2. boundChildren(f, open, b)[j][2]
          = addBackAndBound(scheduleFront(f), sumUnscheduled(open), scheduleBack(b), j)
    BY <2>1 DEF boundChildren
  <2> QED BY <1>7, <2>2 DEF open
<1>9. boundWeak(f, O, b)[j][2] <= evalSolution(c)
  <2>1. boundWeak(f, O, b)[j][2]
          = addBackAndBound(scheduleFront(f), remain(f, b), scheduleBack(b), j)
    BY <1>1, TileFront, TileBack DEF boundWeak
  <2> QED BY <1>7, <2>1
<1>10. computeCostFast(f, O, b, BACK, j) <= evalSolution(c)
  <2> DEFINE other == SetToSeq(rest)
  <2>0. (BACK = FRONT) = FALSE /\ (BACK = BACK) = TRUE
    BY DEF FRONT, BACK
  <2>1. CASE Cardinality(rest) = 1
    <3>1. computeCostFast(f, O, b, BACK, j) = evalSolution(f \o (other \o <<j>>) \o b)
      BY <2>0, <2>1 DEF computeCostFast
    <3>2. PICK z \in SetToSeqs(rest) : c = f \o z \o s
      BY DEF Completions
    <3>3. z = other
      <4>1. /\ Range(z) = rest /\ Len(z) = 1 /\ z \in Seq(Job)
            /\ Range(other) = rest /\ Len(other) = 1 /\ other \in Seq(Job)
        BY <1>1, <2>1, SequencesOf
      <4>2. \E x : rest = {x}
        <5>1. IsFiniteSet(rest)
          <6>1. IsFiniteSet(Job)
            BY Sizes, FS_Interval
          <6> QED BY <1>1, <6>1, FS_Subset
        <5> QED BY <2>1, <5>1, FS_Singleton
      <4>3. z[1] \in Range(z) /\ other[1] \in Range(other)
        <5> HIDE DEF other
        <5> QED BY <4>1 DEF Range
      <4>4. z[1] = other[1]
        BY <4>1, <4>2, <4>3
      <4> HIDE DEF other, rest
      <4> QED BY <4>1, <4>4
    <3>4. other \in Seq(Job)
      BY <1>1, SequencesOf
    <3>5. f \o other \o s = f \o (other \o <<j>>) \o b
      <4> HIDE DEF other, rest
      <4> QED BY <1>1, <3>4
    <3>6. c = f \o (other \o <<j>>) \o b
      <4> HIDE DEF s, other
      <4> QED BY <3>2, <3>3, <3>5
    <3>7. Distinct(c)
      BY <1>4 DEF Completes
    <3>8. evalSolution(c) \in Nat
      BY <3>7, EvalOf
    <3>9. computeCostFast(f, O, b, BACK, j) = evalSolution(c)
      <4> HIDE DEF other, rest, s
      <4> QED BY <3>1, <3>6
    <3> QED BY <3>8, <3>9
  <2>2. CASE Cardinality(rest) # 1
    <3> DEFINE x == scheduleFront(f)
               y == AddLast(scheduleBack(b), j)
               E == evalSolution(c)
    <3>1. computeCostFast(f, O, b, BACK, j) = borneInfMakespan_d(x, rest, y, TRUE)
      BY <1>1, <2>0, <2>2, TileFront, TileBack DEF computeCostFast
    <3>2. Distinct(c) /\ c \in Seq(Job) /\ Len(c) \in Nat
      BY <1>4 DEF Completes, Distinct
    <3>3. PICK h, t : HeadsOf(h, c) /\ TailsOf(t, c) /\ E = h[Len(c)][nbMachines]
      BY <3>2, EvalOf
    <3> DEFINE k == FirstOpen(c, f)
               l == LastOpen(c, b)
    <3>4. /\ k \in 1 .. Len(c) /\ l \in 1 .. Len(c) /\ l > 1 /\ l - 1 \in k .. Len(c)
      <4>1. k \in 1 .. Len(c) /\ l \in k .. Len(c) /\ l - 1 \in k .. Len(c) /\ l > 1
        BY <1>5, Places
      <4> HIDE DEF k, l
      <4> QED BY <3>2, <4>1
    <3>5. Early(x, h, c, k) /\ Late(scheduleBack(b), t, c, l)
      BY <1>5, <3>3, EarlyFront, LateBack
    <3>6. Late(y, t, c, l - 1)
      <4>1. Late(AddLast(scheduleBack(b), c[l]), t, c, l - 1)
        <5> HIDE DEF l
        <5> QED BY <3>2, <3>3, <3>4, <3>5, LateNext
      <4> QED BY <1>5, <4>1
    <3>7. rest = Between(c, k, l - 1)
      BY <1>5
    <3>8. BothMachines(x, rest, y, machine) <= E
      <4> DEFINE l1 == l - 1
                 M == machine
      <4>1. M \in SUBSET machine /\ M # {}
        BY SomePairs
      <4>2. l1 \in k .. Len(c) /\ Late(y, t, c, l1) /\ rest = Between(c, k, l1)
        BY <3>4, <3>6, <3>7
      <4> HIDE DEF k, l1, M, x, y, rest, E
      <4>3. BothMachines(x, rest, y, M) <= h[Len(c)][nbMachines]
        BY <3>2, <3>3, <3>4, <3>5, <4>1, <4>2, PairsBounded
      <4> QED BY <3>3, <4>3 DEF M
    <3>9. borneInfMakespan_d(x, rest, y, TRUE) = BothMachines(x, rest, y, machine)
      <4> HIDE DEF x, y, rest
      <4> QED BY DEF borneInfMakespan_d, BothMachines
    <3> HIDE DEF x, y, rest, E
    <3>10. computeCostFast(f, O, b, BACK, j) <= E
      BY <3>1, <3>8, <3>9
    <3> QED BY <3>10 DEF E
  <2> QED BY <2>1, <2>2
<1> QED BY <1>8, <1>9, <1>10

\* The bounds of a node and of its children on either side: none is above the
\* makespan of the cheapest completion.
THEOREM NodeAdmissible ==
  ASSUME ptm \in Instances, NEW f, NEW O, NEW b, Splits(f, O, b), Cardinality(O) >= 2, NEW mp
  PROVE  LET cheapest(ff, jobs, bb) == Min({evalSolution(s) : s \in Completions(ff, jobs, bb)})
             open == SetToSeq(O)
         IN /\ bornes_calculer(f, open, b) <= cheapest(f, O, b)
            /\ StrongBound(f, open, b, mp) <= cheapest(f, O, b)
            /\ \A j \in O : \A dir \in {FRONT, BACK} :
                 LET least == IF dir = FRONT THEN cheapest(Append(f, j), O \ {j}, b)
                                             ELSE cheapest(f, O \ {j}, <<j>> \o b)
                 IN /\ boundChildren(f, open, b)[j][dir + 1] <= least
                    /\ boundWeak(f, O, b)[j][dir + 1] <= least
                    /\ computeCostFast(f, O, b, dir, j) <= least
<1> DEFINE cheapest(ff, jobs, bb) == Min({evalSolution(s) : s \in Completions(ff, jobs, bb)})
           open == SetToSeq(O)
<1>1. O # {}
  <2>1. IsFiniteSet(O) /\ Cardinality({}) = 0
    <3>1. O \in SUBSET Job
      BY DEF Splits
    <3>2. IsFiniteSet(Job)
      BY Sizes, FS_Interval
    <3> QED BY <3>1, <3>2, FS_Subset, FS_EmptySet
  <2> QED BY <2>1
<1>2. ASSUME NEW j \in O PROVE O \ {j} # {}
  <2>1. IsFiniteSet(O)
    <3>1. O \in SUBSET Job
      BY DEF Splits
    <3>2. IsFiniteSet(Job)
      BY Sizes, FS_Interval
    <3> QED BY <3>1, <3>2, FS_Subset
  <2>2. Cardinality(O \ {j}) = Cardinality(O) - 1 /\ Cardinality(O) \in Nat
    BY <2>1, FS_RemoveElement, FS_CardinalityType
  <2>3. Cardinality({}) = 0
    BY FS_EmptySet
  <2> QED BY <2>2, <2>3
<1>3. bornes_calculer(f, open, b) <= cheapest(f, O, b)
  <2> DEFINE x == bornes_calculer(f, open, b)
  <2>1. \A c : c \in Completions(f, O, b) => x <= evalSolution(c)
    BY NodeBounded
  <2> HIDE DEF x, open
  <2>2. x <= Min({evalSolution(s) : s \in Completions(f, O, b)})
    BY <1>1, <2>1, CheapestOf
  <2> QED BY <2>2 DEF x
<1>4. StrongBound(f, open, b, mp) <= cheapest(f, O, b)
  <2> DEFINE x == StrongBound(f, open, b, mp)
  <2>1. \A c : c \in Completions(f, O, b) => x <= evalSolution(c)
    BY NodeBounded
  <2> HIDE DEF x, open
  <2>2. x <= Min({evalSolution(s) : s \in Completions(f, O, b)})
    BY <1>1, <2>1, CheapestOf
  <2> QED BY <2>2 DEF x
<1>5. ASSUME NEW j \in O
      PROVE  LET least == cheapest(Append(f, j), O \ {j}, b)
             IN /\ boundChildren(f, open, b)[j][1] <= least
                /\ boundWeak(f, O, b)[j][1] <= least
                /\ computeCostFast(f, O, b, FRONT, j) <= least
  <2> DEFINE C == Completions(Append(f, j), O \ {j}, b)
             x == boundChildren(f, open, b)[j][1]
             y == boundWeak(f, O, b)[j][1]
             z == computeCostFast(f, O, b, FRONT, j)
             s == Append(f, j)
             R == O \ {j}
  <2>1. \A c : c \in C => x <= evalSolution(c) /\ y <= evalSolution(c) /\ z <= evalSolution(c)
    BY FrontChildBounded
  <2>2. Splits(s, R, b) /\ R # {}
    BY <1>2, ChildSplits
  <2>3. \A c : c \in Completions(s, R, b) => x <= evalSolution(c)
    BY <2>1
  <2>4. \A c : c \in Completions(s, R, b) => y <= evalSolution(c)
    BY <2>1
  <2>5. \A c : c \in Completions(s, R, b) => z <= evalSolution(c)
    BY <2>1
  <2> HIDE DEF x, y, z, s, R
  <2>6. x <= Min({evalSolution(t) : t \in Completions(s, R, b)})
    BY <2>2, <2>3, CheapestOf
  <2>7. y <= Min({evalSolution(t) : t \in Completions(s, R, b)})
    BY <2>2, <2>4, CheapestOf
  <2>8. z <= Min({evalSolution(t) : t \in Completions(s, R, b)})
    BY <2>2, <2>5, CheapestOf
  <2> QED BY <2>6, <2>7, <2>8 DEF x, y, z, s, R
<1>6. ASSUME NEW j \in O
      PROVE  LET least == cheapest(f, O \ {j}, <<j>> \o b)
             IN /\ boundChildren(f, open, b)[j][2] <= least
                /\ boundWeak(f, O, b)[j][2] <= least
                /\ computeCostFast(f, O, b, BACK, j) <= least
  <2> DEFINE C == Completions(f, O \ {j}, <<j>> \o b)
             x == boundChildren(f, open, b)[j][2]
             y == boundWeak(f, O, b)[j][2]
             z == computeCostFast(f, O, b, BACK, j)
             s == <<j>> \o b
             R == O \ {j}
  <2>1. \A c : c \in C => x <= evalSolution(c) /\ y <= evalSolution(c) /\ z <= evalSolution(c)
    BY BackChildBounded
  <2>2. Splits(f, R, s) /\ R # {}
    BY <1>2, ChildSplits
  <2>3. \A c : c \in Completions(f, R, s) => x <= evalSolution(c)
    BY <2>1
  <2>4. \A c : c \in Completions(f, R, s) => y <= evalSolution(c)
    BY <2>1
  <2>5. \A c : c \in Completions(f, R, s) => z <= evalSolution(c)
    BY <2>1
  <2> HIDE DEF x, y, z, s, R
  <2>6. x <= Min({evalSolution(t) : t \in Completions(f, R, s)})
    BY <2>2, <2>3, CheapestOf
  <2>7. y <= Min({evalSolution(t) : t \in Completions(f, R, s)})
    BY <2>2, <2>4, CheapestOf
  <2>8. z <= Min({evalSolution(t) : t \in Completions(f, R, s)})
    BY <2>2, <2>5, CheapestOf
  <2> QED BY <2>6, <2>7, <2>8 DEF x, y, z, s, R
<1> HIDE DEF open, cheapest
<1>7. ASSUME NEW j \in O, NEW dir \in {FRONT, BACK}
      PROVE  LET least == IF dir = FRONT THEN cheapest(Append(f, j), O \ {j}, b)
                                         ELSE cheapest(f, O \ {j}, <<j>> \o b)
             IN /\ boundChildren(f, open, b)[j][dir + 1] <= least
                /\ boundWeak(f, O, b)[j][dir + 1] <= least
                /\ computeCostFast(f, O, b, dir, j) <= least
  <2>1. CASE dir = FRONT
    <3>1. dir + 1 = 1 /\ dir = FRONT
      BY <2>1 DEF FRONT
    <3> QED BY <1>5, <3>1
  <2>2. CASE dir = BACK
    <3>1. dir + 1 = 2 /\ dir # FRONT /\ dir = BACK
      BY <2>2 DEF FRONT, BACK
    <3> QED BY <1>6, <3>1
  <2> QED BY <2>1, <2>2
<1> QED BY <1>3, <1>4, <1>7 DEF open, cheapest
=============================================================================
