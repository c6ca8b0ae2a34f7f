# TLA+ for PBBPerm

Specifications of the parallel branch-and-bound of this repository, the TLC
instances that check them, and theorems that TLAPS proves about them. Paths are
relative to the root of the repository.

## 1. The system

PBBPerm solves permutation problems (flow shop, n-queens) exactly. A search tree
over partial permutations is explored depth first on *Integer-Vector-Matrix*
structures: a matrix whose row `l` lists the jobs that can be scheduled at depth
`l`, a position vector (the node being explored) and an end vector (the last leaf
of the interval). An interval of leaves, in the factorial number system, is the
unit of work that threads, GPUs and processes exchange.

| Component | State | Operations | Talks to |
|---|---|---|---|
| IVM (`multicore/src/ivm.cpp`) | `jobMat`, `dirVect`, `posVect`, `endVect`, `line` | `goUp`, `goDown`, `goRight`, `beforeEnd`, `cuttingPosition` | called by sequentialbb and bbthread |
| IVM bounding (`ivm_bound.cpp`) | `local_best`, decoded node, static root row | `boundRoot`, `boundLeaf`, `*BoundPrune`, `chooseChildrenSet` | bounds, solution |
| sequentialbb | one IVM | `setRoot`, `initAtInterval`, `unfold`, `next` | IVM, ivm_bound |
| bbthread | request queue, `got_work`, `receivedWork`, condition variable | `shareWork`, `has_request`, `set_workState` | other threads |
| matrix_controller | `end_counter`, `allEnd`, `victim_list`, barrier | `explore_multicore`, `request_work`, `try_answer_request`, `next` | its M threads, worker |
| solution | best cost and permutation, mutex | `getBest`, `update` | everybody |
| interval, work, fact_work (`distributed/`) | sets of intervals of big integers | intersection, `divide`, `split`, conversion | works, worker |
| works, master | active and unassigned work units, checkpoint file | `acquireNewWork`, `steal`, `_adopt`, `processRequest`, `save` | MPI messages with workers |
| worker, worker_mc, worker_gpu | buffers and four flags with three mutexes | main loop, communication thread, heuristic threads | master, matrix_controller, gpubb |
| multicoreLL | pool of tree nodes per thread | the older linked-list B&B with its own request protocol | its threads |
| bounds | tables of processing times | LB1 (one machine), LB2 (Johnson), n-queens | ivm_bound, gpu |
| heuristic | schedules | iterated greedy, NEH, insertion | initial bound, worker |
| gpu | thousands of IVMs in device memory | kernels for navigation, bounding, sharing | worker_gpu |

Not looked at further: the vendored INI parser, parsing of options and
instances, timers, logging.

### What is hard here

* **Interleavings.** A thread's request may be answered by a victim with work,
  cancelled by a victim that just ran out of it, or overtaken by the end of the
  search. Three mutexes per thread and a condition variable are involved; the
  counter that detects termination is updated by the victim on behalf of the
  thief.
* **Work in flight.** An interval is handed over before the thief is taken out of
  the counter.
* **Stale state.** `got_work` is read without a lock, the best cost is read once
  per node, and a worker enters the team again with the flags of the last round.
* **Boundaries.** Intervals are cut in the middle of a line with flagged and
  unflagged columns; one column too many or too few loses or repeats leaves.
* **Liveness.** Idle threads cancel one another's requests.
* **Distribution.** Work units are divided while a worker explores them, single
  leaves are dropped by conversions and intersections, checkpoints are written by
  a running master.
* **Claims in two steps.** A thread of a worker asks in one critical section
  whether the communication thread is free and claims it in another.
* **Values nothing set.** `foundNew` of a worker, the update count (`nb_updates`) of a work
  that was read from a file and the tail behind the last position of a schedule are read
  before they are written.

`PROJECT.json` lists each hazard at its line, with the properties that cover it.

### What makes each component correct

* Exploration: the final best cost is the minimum (of the initial solution and
  all schedules); no schedule is evaluated twice; every row is a permutation of
  the free jobs; with `findAll` every optimal schedule is seen.
* Thread team: no leaf is lost or owned twice; the team stops only when nothing
  is left; it does stop; no error exit is reachable; no sleeper is forgotten.
* Interval algebra and pool of works: the union of the leaves of all work units
  and of the explored ones is constant; a checkpoint holds all that is left.
* Worker: every report is sent once and every update applied before the buffer
  is used again; the end reaches every worker.
* Pool of works and master: no two workers report to one copy; the end is
  declared when the optimum is known, and it reaches everybody.
* Bounds: the bound of a node is at most the cost of every completion, on the host
  and on the device.
* Heuristics: a cost is never below the makespan of its schedule, so that the
  initial upper bound cannot cut off what was not reached.
* GPU: the same as for the exploration, with thousands of IVMs in step.

## 2. Plan and state

Composition: `WorkPool` is the promise of any team of explorers; `WorkStealing`,
`LinkedTeam` and `Ivm` each implement it. `Dist` uses the algebra of `Intervals`;
`Worker` is one worker of `Dist` with its threads. `GpuBB` uses the bounds of
`GpuBounds` (on top of `FlowShop`) and starts from the upper bound of `Heuristics`.

| Part | Modules | Model-checked | Proved |
|---|---|---|---|
| Thread team | `WorkPool`, `WorkStealing` | yes | safety, refinement |
| Tree on IVMs | `Ivm` | yes | safety, exactness, refinement |
| Linked lists | `LinkedTeam` | yes | safety, refinement |
| Worker | `Worker` | yes | safety |
| Master, pool, messages | `Intervals`, `Dist` | yes | ownership, last message, the optimum, sorted copies |
| Bounds | `FlowShop`, `GpuBounds` | yes | admissibility |
| Heuristics, device | `Heuristics`, `GpuBB` | yes | upper bound, bounds at the nodes reached |

Left for later: that a search on the device is exact and evaluates nothing twice for every
instance, which needs the argument of `Ivm` for IVMs that move in step; the second way to
bound on the device (`boundMode` 1); the limits of the tree heuristics.

## 3. Modules

### WorkPool

What any team of explorers promises: disjoint sets of leaves; a leaf leaves the
pool only through its owner; a thief that is given leaves has none; an exhaustive
team stops only when the pool is empty; a team that is not exhaustive may be
restarted, with the remaining leaves dealt out anew. `WorkStealing`, `Ivm` and
`LinkedTeam` implement it, each with its own refinement mapping.

### WorkStealing

`multicore/src/matrix_controller.cpp` and the queue and flags of `bbthread`. The
program counter `pc[t]` names the places between critical sections of
`explore_multicore`:

| Location | The thread is about to |
|---|---|
| `start`, `atStart` | clear its queue; wait at the first barrier |
| `next`, `working` | call `next()`; store `got_work` |
| `serve`, `share`, `uncount`, `wake` | pull a request; `work_share`; `counter_decrement`; signal (try_answer_request) |
| `idle`, `count`, `drain` | clear `got_work`; `counter_increment`; look for requests to cancel (request_work) |
| `cancel`, `release` | take a cancelled thief out of the counter; signal it |
| `select`, `uncountSelf` | choose a victim; undo the count when it chose itself |
| `clear`, `push`, `check`, `asleep` | clear `receivedWork`; queue its request; test the predicate; wait for a signal |
| `loopTest` | decide whether the loop goes on |
| `stop`, `unlock`, `atEnd`, `done` | store `allEnd`; signal everybody; wait at the last barrier; joined |
| `fatal` | `exit(-1)` |

Everything that is done under one lock is one step, and so is each unlocked
access to shared data. A request queue is only shortened by its owner, so that
the test `has_request` and `pull_request` are one step. A call of `next()`
explores any number of leaves from the left of the interval: the leaves are
numbers, and `todo[t]` is what remains. `work_share` may share nothing, or any
part at the right of the interval, all of it included when what is in front of
it has been pruned.

`got_work` and `receivedWork` have no initialiser in the code; where they are
read before they are written, `Init` gives them any value. `initFromFac` moves
the owners of intervals to the front of `victim_list`, hence `ListsFor`. A
worker (`singleNode = FALSE`) may leave its loop at any time (balancing period,
better solution) and is then restarted by `NextRound`, either with its intervals
as they are or with the remaining leaves dealt out anew. A work unit that brings
other leaves is another instance of the model.

`counted` and `explored` are history variables: the threads `end_counter` stands
for, and the leaves that were explored.

### Ivm

`ivm.cpp`, `ivm_bound.cpp`, `sequentialbb.cpp` and `bbthread::shareWork`, for a set
of explorers. `rows[e]` holds the rows of the matrix down to the current line,
with flagged cells as `-job-1`; everything below is regenerated before it is
read. One action is one turn of the loops of `next` and `unfold`; a decision to
branch includes decoding, bounding and sorting of the new row. Each row fills one
place of the schedule (`Slot`), the next one at the front or at the back as its direction
says; `prepareSchedule` puts the job a row points at in the place of that row.

Data that is abstracted:

* the bound: a child may be cut when no completion improves on the best cost the
  explorer knows, and may be kept all the same. Every admissible bound, the
  mixed and the strong mode included, does something in between;
* the direction of a row: fixed for the modes -3, -2, -1, free for the three
  heuristics;
* the order of siblings: the order of `prune` for `sortNodes = 0`, any for the
  sorted modes;
* the mutex of an IVM: `shareWork` runs between two calls of `next` of the victim,
  by the victim itself, and while the thief waits (`WorkStealing` shows this), so
  the model lets it run in these states only.

`Margin` stands for the 10 in `l < size - 10`: instances of TLC have three or four
jobs, and 1 or 2 there lets the cut move below the first line as it does on an
instance of more than ten jobs.

### LinkedTeam

`multicoreLL`: threads with deques of nodes. One action is one critical section or
one unlocked access:

| Location | The thread is about to |
|---|---|
| `Loop`, `Test` | look at `continuer` and `allEnd`; test the loop |
| `Next` | take a step of the search (`Tree::next`) |
| `Count` | `counter_increment` (demander) |
| `Cancel`, `CancelCount`, `CancelWake` | pull a request, take its thread out of the counter, wake it; with no request left choose a victim and push its own |
| `SetWaiting`, `Wait` | set `waiting`; sleep |
| `Alone` | undo the count when it chose itself |
| `Answer`, `Share`, `AnswerCount`, `AnswerWake` | pull a request, move nodes, take the thief out of the counter, wake it (try_repondre) |
| `Stop`, `Barrier`, `Done` | set `allEnd` and wake all; meet; leave |

A node is the set of the leaves below it, and a branching splits it in two. One leaf
is optimal; what a bound may cut off is any node without it, and everything once it
was found. `overtaken` (history) has the threads that were answered between the push of their
request and `waiting = true`: the answer is forgotten, and the thread may sleep on the
nodes it was given. `Stopped` lets the model rest in this case, as the program does.

### Intervals and Dist

`Intervals` has the work units of `distributed/` as sequences of intervals `[b, e]` and
what is done to them: the factorial weights, both conversions, `intersection`,
`divide`, `split`, `split2`, `take`. An interval has the id of the IVM it is for: a report
carries the numbers of the IVMs that have work, `take`, `divide` and `split` number the
intervals anew, and `intersection` keeps those of the report. The text format is left out.

`Dist` is the master with its pool, all workers, and the channels. A channel holds
one message since a worker waits for the answer to each. One action of the master is
one turn of `master::run`: `MasterWork` (with `Keep`, `Shutdown`, `adopt`, `adoptPart`,
`steal`, `duplicate` and `StealFails` as the branches of `processRequest` and
`acquireNewWork`), `MasterBest`, `MasterEnd`. A worker explores one leaf (`Explore`), moves
part of an interval to an idle thread (`Share`), reports (`tryLaunchCommWork`), sends its
best solution (`tryLaunchCommBest`), and takes an answer. It starts every interval it is
sent on the IVM of its id, and exits (`exited`) when it has no such IVM; `duplicate` sends
the ids of another worker. `Restart` is a crash of all processes and the start from the
file that was written at that moment; a crash that comes later undoes the steps in
between, which is the same state. A first start may read a file too (`initial_work` 2,
`Files`).

A copy remembers whether it counts as reported (`nb_updates > 0`), since `steal` takes
the largest of those. The constructor for a work from a file does not set `nb_updates`,
so `adopt` gives such a copy either value (`ReadCopy`) and marks it `unset`; each report
counts one up from the unknown number, and once it is positive the mark goes (`Keep`).

What the search must not lose is one leaf, `opt`, any of the tree. The code does lose it
in some places at the border of an interval or of a crash; `lost` (history) names
those that were met, and the properties say that there are no others:

| Gap | Where |
|---|---|
| `single` | an interval of one leaf is dropped by `fact2dec` (`fact_work.cpp:113`) |
| `touch` | a leaf that ends an interval of the copy and begins one of the report is dropped by the intersection (`work.cpp:189`) |
| `cut` | `split2` stops before a part that would be too short and does not record it (`work.cpp:378`); the works of the start lack its leaves |
| `unassigned` | works nobody has yet are written to the checkpoint but not read (`works.cpp:561`) |
| `unset` | a copy read from a file, in the reverse order that `take` left it in, counts as reported (`work.cpp:36`) and is divided or duplicated; the scan of `intersection` then stops at an interval behind those it has not looked at (`work.cpp:182`) |
| `unsent` | at a crash, a solution the master has not got, whose leaf it was told is explored |

### Worker

One worker with the three kinds of threads that share `work_buf` and five flags: the
main loop (`pcM`), the communication thread (`pcC`) and heuristic threads (`pcH`), one
action per critical section. The master is any that answers each request once. Work
units are numbers, so that it can be told which one a report is about. `overlap` and
`withdrawn` (history) record the two hazards of the claim in two steps and of the flag that
`doWork` overwrites; `foundNew`, which nothing initialises, has any value.

### FlowShop, Heuristics, GpuBounds, GpuBB

`FlowShop`: heads, tails, the one-machine bound for a node and for all its children, and
the two-machine bound with Johnson's order and lags. `GpuBounds`: the same on the device,
where a warp fills the table along anti-diagonals, a lane per machine (`wavefront`).
`Heuristics`: NEH insertion and iterated greedy search as a state machine, one action
per phase of an iteration. A makespan behind the last position comes from a tail that was
not computed, hence `stale` and the choice in `runNEH`.

`GpuBB`: all IVMs take each kernel together, so that one action is one kernel or host
step of `gpubb::next`: `steal_in_device`, `selectAndBranch` (goToNext2), `weakBound`,
`boundLeaves`, `strongBound`; `Reload` reads the intervals back and starts from them
again. Thieves that race for one victim are ordered by `flag`, as the kernel does it for
each offset. `strongBound` bounds any of `StrongChoices`, since the mapping of
`prepareBound` loses some entries. `dropped` (history) has the leaves an IVM gives up because
position and end are equal above them.

### Modules of the proofs

`WorkStealingProofs` (types, invariant, safety, refinement, and that no sleeper is
forgotten); `LinkedTeamProofs`; `WorkerProofs`; `IvmProofs` (matrices, cuts, intervals,
refinement, then schedules and costs); `DistProofs` (ids and owners, the algebra of work
units, the distributed search); `BoundsProofs` (admissibility, on `GpuBounds`) and on top of
it `GpuProofs` (heuristic and device); `DataLemmas` (least elements, recursion on numbers,
division, orders and lists, parts of sequences), which the last four share.
`MCWorkStealing`, `MCIvm`, `MCLinkedTeam`, `MCWorker`, `MCDist` and `MCGpu` hold the values
of the TLC instances.

## 4. Runs

| Run | Instance | What it shows |
|---|---|---|
| `ws` | 3 threads, 2 leaves, `o`, standalone | `TypeOK`, `NoFatalExit`, `WorkConserved`, `TerminationSound`, `CounterExact`, `RequestPending`, refinement of `WorkPool` |
| `ws_worker` | 2 threads, 3 leaves, `r`, worker | `ShutdownCompletes`, `WaitEnds` over all rounds |
| `ws_pair` | 2 threads, 3 leaves, left neighbour, standalone | `TerminationDetected` |
| `ws_livelock` | 3 threads, 2 leaves, `o`, standalone | `TerminationDetected` is violated (section 6) |
| `ivm` | 3 jobs, 2 explorers, sorted siblings, alternating directions | `TypeOK`, `Exact`, `RowsArePermutations`, refinement of `WorkPool`, `Termination` |
| `ivm_share` | 4 jobs, 2 explorers, free directions, `findAll`, all schedules equal or all but one | cuts below the first line, equality at the bound: `AllOptimaVisited`, `VisitedOnce` |
| `ll` | 3 threads, 4 leaves, `o` | `TypeOK`, `CounterExact`, `SleeperKnown`, `ExploredOrOvertaken`, refinement of `WorkPool` |
| `worker` | 1 heuristic thread, 2 work units, 2 improvements | `TypeOK`, `BufferSafe`, `ReportsCurrent`, `KeepsReporting`, `EndConfirmed` |
| `dist` | 2 workers with 1 and 2 IVMs, 3 jobs, `initial_work` 1, one crash | `TypeOK`, `OptimumSafe`, `OneOwner` |
| `dist_file` | 2 workers with 2 IVMs each, 3 jobs, start from a file (`initial_work` 2) and one crash more | `OptimumSafe`, `SortedCopies` |
| `dist_end` | as `dist` with `initial_work` 3 and 4, solutions sent, no crash | `EndSound`, `Delivered`, `OnlySmallerExit`, `AllEnd` |
| `gpu` | 5 jobs, 3 machines, 4 IVMs, two instances, all branching modes | `UpperBoundAttained`, `BoundsAdmissible`, `Exact`, `EvaluatedOnce` |

Bounds. Three threads are the least with a thief, a victim and a third that
cancels, and with cycles of requests among idle threads; two leaves allow one
steal that succeeds and one that finds nothing. Random selection with two threads
includes the selection of oneself. The proofs cover all numbers of threads and
leaves. Three jobs have a root, one inner level and leaves; with four jobs an
interval is cut on an inner line. `Graded` has one optimum that is neither the
first nor the last leaf. With `Flat` and `findAll` nothing is pruned but one leaf, so that
every other one must be reached across every cut, also when the first cost that is found is
not the best. In `ivm` the initial bound ranges over every cost and infinity.

Six leaves (three jobs) let a work unit be divided, divided again and duplicated, give
intervals of one leaf and of none, and have a worker hold two intervals that must stay
sorted; `lar = 2` and `SmallestPart = 2` put the thresholds of `divide` and `split2`, which
are hundreds of thousands of leaves, inside this tree. In `dist_file` the file holds one
work of four intervals (`Quarters`), which two earlier runs can leave: a worker with two
IVMs adopts the whole tree, which is split in halves, and is saved; in the next run a worker
with four adopts these, which are split in quarters, and is saved before it reports. Workers
with two IVMs must take such a work in part, so that its order is reversed; it takes a
second file to read the reversed work back, hence two reads (`Crashes = 2` counts the first
start). Its intervals are too short to be divided much, which is what `dist` is for, with one read.
The workers of `dist_file` are interchangeable, hence the symmetry. In `dist` and `dist_end` they
are not: the one with a single IVM meets interval ids that are too large for it. Nothing sets
the flags by which an exploration notifies its worker (`foundNew`, `localFoundNew`): in
`dist_end` both workers send the solutions they find (`Notifies`), elsewhere neither does.

Four leaves among three linked lists allow two sharings in a row, one of them to a thread that was overtaken. In
`worker` two improvements are what it takes to claim the communication thread twice,
and two units to report an old one. On the device nbJob must be a multiple of 5; with
five jobs there are three inner levels, and `Margin = 3` lets a cut fall on each of two
lines; four IVMs have victims that are thieves' neighbours at several offsets. `Mixed` has
several directions of branching, `LastBest` its only optimum in the very last leaf. `Cold`
runs without heuristic (`init_mode` 3), `Again` reads intervals back once, `Warm` starts
from iterated greedy.

Deadlock is checked in all runs; the end of a standalone run is a step of its own
(`Terminated`, `Finished`).

Fairness. `WorkStealing`: every thread that can take a step is scheduled (weak
fairness per thread), the barriers open, and `next()` cannot be called for ever
without consuming its interval (strong fairness of a call that explores
something, as the tree is finite). Spurious wake-ups, the decision to leave the
loop and the restart of a worker are not fair. `Ivm`: weak fairness of each
explorer; sharing is not fair. `LinkedTeam`: weak fairness of each thread and of the
barrier. `Worker`: weak fairness of the main loop, the communication thread, each heuristic
thread and the master, each of which runs by itself. `Dist`: for each worker, its
threads explore, and its messages are sent, served and received; sharing among its
threads and crashes are not fair. `GpuBB` has no liveness property.

## 5. Proofs

No theorem rests on more than the named assumptions about constants, which TLC
evaluates in every run. For the thread team: at least one thread, leaves are integers,
`mc_ws_select` is one of the three choices, `singleNode` a Boolean. For the others: at
least two jobs, an explorer 0 that starts with the root, modes and flags in their ranges,
and makespans that are not negative and less than `Infinity`, the initial cost (`Ivm`); two threads and one
leaf (`LinkedTeam`); finitely many workers with one IVM each or more, and files whose works
have intervals that lie apart, but for those of one leaf, which count as read once
(`Dist`); bounds
that are numbers (`Worker`); positive weights (`Intervals`). For bounds, heuristics and
device: two jobs and two machines at least, processing times that are not negative
(`FlowShopAssumption`), a number of jobs that is a multiple of 5, the step in
which the device walks through Johnson's order (`StepAssumption`), shuffles that are schedules of all jobs and makespans that fit an `int`
(`HeuristicsAssumption`: INT_MAX stands for no cost, so that with the longest operation
on every step of a path a makespan stays below it), and one or four IVMs, the
sizes that `setHypercubeConfig` sets up with a single dimension (`IvmAssumption`).

| Module | Theorems |
|---|---|
| `WorkStealingProofs` | `TypeCorrect`, `Invariant`, `NeverFatal`, `WorkIsConserved`, `TerminationIsSound`, `CounterIsExact`, `Refinement`, `NobodyIsForgotten` |
| `LinkedTeamProofs` | `TypeCorrect`, `Invariant`, `CounterIsExact`, `SleepersAreKnown`, `Refinement` |
| `WorkerProofs` | `TypeCorrect`, `Invariant`, `BufferIsSafe`, `ReportsAreCurrent`, `AloneNeverOverlaps` |
| `DistProofs` | `Invariant`, `CopiesHaveOneOwner`, `MasterLeavesLast`, `SearchKept`, `OptimumIsSafe`, `EndIsSound`, `CopiesAreSorted`, `ReportsFitCopies` |
| `IvmProofs` | `Invariant`, `PermutationsKept`, `CutsInside`, `IntervalsKept`, `Refinement`, `SearchKept`, `TypesKept`, `EvaluatedOnce`, `BestIsOptimal`, `OptimaEvaluated` |
| `BoundsProofs` | `NodeAdmissible` |
| `GpuProofs` | `InvariantHolds`, `UpperBoundAttainedHolds`, `BoundsAdmissibleHolds` |

### Thread team

None of the four properties is inductive. A victim can hand out work safely only
if the thief is idle, which depends on where its request came from; so `IInv`
follows the request:

* `QueueInv`: an entry of a queue stands for one thread that waits, named this
  thread its victim, is marked idle and is counted; no thread is in a queue
  twice. As no thread is in its own queue, a queue is shorter than M
  (`QueueShort`, by the pigeon-hole principle), and the error exits are out of
  reach;
* `HeldInv`: the same for the one request a thread has pulled, and whether the
  thief is still counted tells how far the answer has come. By `HeldOnce` and
  `HeldNotQueued` a thief is with one thread only, so that it is taken out of the
  counter exactly once;
* `CountInv`: who is counted, by location, and the counter is the size of that
  set;
* `IdleInv`, `HandedInv`: a counted thread has no work, except between
  `work_share` and `counter_decrement`, when the victim, which is not counted,
  vouches for it. Hence when all are counted nobody has work;
* `VictimInv`, `EndInv`: no request to oneself, no signal left over when a request
  is made, and who has left the loop knows that the search is over.

After `allEnd` is set most of this is relaxed: threads leave with requests
pending, and what is in the queues is cleared at the next start. Each action has
one lemma, with one step per conjunct.

`NobodyIsForgotten` is the converse of `QueueInv`: not only does every request
stand for a waiting thread, every waiting thread has its request with its victim
(`PendingInv`). A request leaves its queue only for the hands of the victim
(`PullPending`), and the victim lets go of it only after it has signalled. What
could still lose a request is `reset_requestQueue` at the start of a round; by
`PhaseInv` nobody waits then, because the first barrier lets the threads pass
together.

### Linked lists

The argument is that of the thread team with another protocol. `RequestInv` and
`OnceInv`: an entry of a queue stands for one thread that waits for the owner of the
queue, and no thread is in two places. The counter is the size of `Counted`, the threads
between their increment and the answer. A counted thread has no nodes, so that when the
last one counts itself nobody has any, and `allEnd` is right. `NodeInv` (deques hold
disjoint nodes, all of them unexplored) gives the refinement of `WorkPool`. `SleepInv`
says where the request of a sleeper is; its escape is `overtaken`, the order of steps in
which the code forgets the answer.

### Worker

`MessageInv`: a request and its answer alternate. `ClaimInv`: the communication thread
is claimed when no exchange is under way. `UnitInv`: threads, buffer and messages agree
on the work unit. The claim in two steps breaks all three, hence the escape `overlap` of
`BufferSafe` and `ReportsCurrent`. `AloneNeverOverlaps` shows that the escape is needed
for heuristic threads (or a `foundNew` that happens to be true) only: without them
exchanges never overlap.

### Master and workers

`OneOwner` needs to know where an id is: held by a worker, in an answer to it, or in
its report (`Channels`). A new id is fresh because the ids in use are finitely many;
that there is a least number outside a finite set is in `DataLemmas`. Merging, division and
duplication keep the owners apart, a restart forgets all of them.
`MasterLeavesLast`: `count_out` is the number of workers that confirmed the end, one that
confirmed sends nothing more, so that the master leaves when all have left. Neither
looks into the intervals.

**The search.** `OptimumSafe` says that some copy of the master, or a work nobody has
yet, contains the optimal leaf until somebody knows it. A report may take leaves away from a
copy, so that this is inductive only together with what connects the three versions of
a work unit: the copy, the report under way, and what the worker has by now or is
being sent. `SearchInv` speaks of `Wanted`, the optimal leaf as long as nobody knows it and it
is in no gap, and says:

* `CopyInv`: a wanted leaf of a copy is also in the work of its owner, in the answer on
  its way and in the report on its way (`Covers`); therefore the intersection with a
  report keeps it, and what a worker adopts has it;
* `ReportInv`: a report ascends, has no interval of a single leaf, and a wanted
  leaf in it is still with its sender;
* `UnitInv`, `AnswerInv`, `GoodCopy`: intervals lie apart, and a copy ascends once it was
  reported for certain (`Settled`), that is, counts as reported by a number that was set;
* `Fits` (in `Covers`, for such copies): an interval of a report that meets or touches one
  of the copy lies behind those before that one and before those behind it. `Scan`
  counts on it: it stops after the first interval that meets;
* `PoolInv`, `EndInv`: a wanted leaf is in some copy or unassigned work, and after
  the end there is none.

A copy whose count was never set may be intersected in any order, and a wanted leaf that the
scan misses there is the gap `unset`; that leaf is not `Wanted` any more. `CopiesAreSorted`
and `ReportsFitCopies` say what holds of all other copies. The invariant bounds the number
of crashes by nothing, and the file a run starts from is any that the assumption admits.

Each action has a lemma (`ExploreStep`, `ShareStep`, `ReportStep`, `MasterWorkStep`,
`UpdateStep`, `RestartStep`, ...), and each way to find new work has one (`AdoptSupplies`,
`StealSupplies`, `DuplicateSupplies`, ...). A worker that is not part of the step is a
`Bystander`: its copy may lose leaves when it is divided, never change its owner. That the
report of another worker does not touch it is `OneOwner`, so that this invariant rests
on the one of the ids.

The middle part of `DistProofs` has what each operation does to leaves, for every
work unit, whatever its number of intervals: sorting and picking permute
(`sortIntervals`), numbers and vectors convert into each other without loss (from the
factorial weights), `take`, `divide` and sharing distribute the leaves, `split` and `split2`
keep them except for the cut of section 3, and `intersection` keeps exactly the leaves
of both if the copy is sorted and no interval meets two. The operations are functions
and sets rather than recursive operators, and the arguments that would be inductions go by
a least counterexample: `DataLemmas` has `AllNaturals` (a set with 0 that is closed under
successor has all numbers) and `Recursion` (a recursive function satisfies its equation), both
for sets instead of the operators the library's theorems take. An inverted interval, which a
worker may send when a thread stopped behind its end, has no leaf, but has a
negative length; `Quotient` truncates as `mpz_class` does, and re-splitting one may create a part
with a single leaf, which the lemmas allow.

### IVM

`StackOK`: the row of a line holds the jobs that the pointed cells above it leave free
and holds each once (`RowOK`). Branching keeps this because `generateLine` drops the pointed
cell, and because bounding, sorting and flagging rearrange a row or change its flags
only; `goUp` clears a flag. `shareWork` hands the thief the rows down to the cut, a prefix
of the victim's stack. For `CutInside` the column is searched between position and end,
where the number of unflagged cells grows by one at most from cell to cell: a
discrete intermediate value, with its first cell from `DataLemmas`. No run checks `CutInside`: it is
proved, and a cut without a column would be an error of the runs that share.

**Intervals.** The refinement needs to know what an interval looks like in the middle of
the search (`IntervalInv`): below the current line the position is the first column,
above it the position does not pass the end, and the end of a line is its last column
wherever position and end differ on a line above (`Fits`). The last part is what a cut
makes true for the victim (`VictimEnd` is aligned right) and what `beforeEnd` relies on: when
the search leaves a line, either the interval has more leaves to the right or it is
exhausted. Each turn of the loop is one of three moves on the stack, `Up`, `Right` and
`Down`, and only these are compared with the order of leaves (`LexLeq`): `RemainingUp`,
`RemainingRight`, `RemainingDown`. A cut divides the leaves that remain: those before
the column of the cut and those from it on (`RemainingShared`), because the lines above
the cut are the same in position and end. So every step is a step of `WorkPool` or
leaves the pool as it is.

**Schedules.** Leaves are numbered by columns, and a column means another job after the
siblings were sorted; so exactness is about schedules. `Ahead` is the set of schedules a stack
and an interval will reach: those that follow the path of the stack to some row and
leave it there at an open job which is still to come (`LeavesAt`). It does not mention the
rows that are yet to be made, therefore reordering a new row does not change it.
That rows fill different places (`SlotsApart`), whatever their directions, makes the
alternatives exclusive, and with `StackOK` a schedule that follows the path finds its
next job in the next row (`RowCells`). Again one lemma for each move: `Right` and `Up` change
nothing (`AheadRight`, `AheadUp`: the flag that `goUp` sets says what the position already
says), `Down` takes the schedules of the flagged jobs (`AheadDown`), a leaf takes
exactly the schedule that is evaluated (`AheadLeaf`, `Decoded`), and a cut divides
the set (`AheadShared`).

`SearchInv` puts this together: what is ahead of two explorers is disjoint (`Apart`); what
was evaluated is ahead of nobody and was evaluated once (`Once`); what is ahead of nobody
is settled, that is, not better than the best cost and, with `findAll`, evaluated or
worse (`Covered`); and nobody knows a better cost than the shared one (`BestKnown`). The last
part is why a bound that was compared with the best cost of an earlier moment
(`EnterNext` reads it once per node) cuts off no optimum. When all are done nothing
is ahead of anybody, hence `Exact` and `AllOptimaVisited`. TLC checked each of these sets
of conjuncts as invariants of the three runs before they were proved.

### Bounds

`NodeAdmissible` is about a node with any front part, any set of two or more open jobs and
any back part, and compares it with the cheapest of its completions. Heads and tails
are recursive functions; that they grow along a schedule and that what leads through a job on
one machine, its head and what follows it, is at most the makespan (`HeadAndTail`) goes by a
least counterexample, as in the algebra of work units. From there:

* one machine: what is before the open jobs takes at least the front (`EarlyFront`) and what
  is behind them at least the back (`LateBack`), and in between a machine works on each of
  them (`WorkBetween`, `WeakBounded`). A child moves one job to a side (`ChildrenBounded`);
* two machines: the makespan is at least the length of every path that changes from
  the first machine of the pair to the second one at some job (`PathBounded`). The bound
  computes the longest such path for Johnson's order (`CmaxOf`). To the job `j` where
  that path changes every schedule has a path that is as long (`Exchange`): it changes at the
  first job (the last one, if `j` belongs to the second class) that Johnson's order puts in
  the class of `j` and not before (behind) it; the sets of jobs that the two paths do on
  either machine differ in jobs on the side where they take longer (`Swap`). So no pair of
  machines needs an induction over exchanges (`TwoMachines`);
* the warp: the lanes of `wavefront` hold, after each step along the anti-diagonals, the times of
  `FlowShop` (`WavefrontOf`), so that front and back on the device are those of the host
  (`TileFront`, `TileBack`); the remaining work that lanes gather is that of the open jobs
  (`TouchedAll`, `RemainOf`).

### Heuristic and device

`IInv` of `GpuProofs` has two halves. `SearchInv` and `CostInv`: the schedules of the
heuristic are permutations of all jobs, and each cost kept with one is at least its
makespan. The lemma it turns on is `StaleInsertions`: whatever the tail behind the last
position holds, the value for this position is at least the makespan there, because
the last operation ends with its head; hence `FirstBest` and the chain of moves
(`MoveOf`, `kImoveOf`) may choose a worse position than the code means to, never claim
a cost that is too low. Destruction and construction take jobs out and put them back
(`TakenOut`, `constructionOf`), NEH inserts one after the other (`runNEHOf`).

`IvmInv`: the matrix of an IVM with work stands for a node, that is, row `l` has the jobs of
the row above it without the one pointed at (`StackOK`), positions and ends are cells of
their lines, and outside the bounding step the cell of a leaf is flagged (`LeafClosed`).
Navigation (`Walked`, `Explored`, `Prepared`), branching (`Chosen`, `RowAdded`), flagging and
turning a row (`FlaggedOf`, `PrunedNode`), a cut (`CutNodes`: the line of a cut exists, the column
lies between position and end), all the thefts of one kernel at once (`SharedNodes`) and the way through the
host (`ReloadKeeps`) keep this. The front, the open jobs and the back that are decoded from
such a matrix split the set of jobs (`SplitsOf`), which is what `NodeAdmissible` asks for; so
`BoundsAdmissible` follows for every node that a search reaches. TLC checked the
conjuncts of `IInv` as invariants of the run `gpu` before they were proved.

### Only model-checked

`TypeOK` of `Dist`: it bounds the ends of intervals by the tree, which holds on the instances
but not for all constants. When a work has about as few leaves as a worker has IVMs, `split` makes
an interval that begins behind the last leaf; if it is in the file of a restart it may be split
once more, and a part then begins two leaves behind. The proofs need less: bounds are
numbers, and intervals lie apart. `Exact` and `EvaluatedOnce` of `GpuBB`: their invariant has
to say, for IVMs whose kernels act on all of them at once, which schedules each has ahead of it, as
`SearchInv` of `IvmProofs` does. All liveness, `ExploredOrOvertaken` included, which is
out of the prover's reach.

## 6. What the models show of the code

### Finding

`ws_livelock`: with three standalone threads that select victims by age (`o`),
the search may never end although nothing is left. Each thread without work
counts itself, cancels the requests it finds, which takes their owners out of
the counter and wakes them, and asks a neighbour. If the three take turns, the
counter stays below M for ever while every thread runs
(`multicore/src/matrix_controller.cpp:251`). The header of the file promises
"termination detection (local)". In practice the cycle is broken by timing. The
same is possible with two threads and random victims; it is not with two threads
and the left neighbour (`ws_pair`).

### Exceptions the properties name

Where the code departs from a property that holds otherwise, a variable records
the case and the property exempts it, so that the run shows that there is no other:

* `LinkedTeam.overtaken`: a thread sets `waiting` after it pushed its request; an answer
  in between is forgotten, and the thread sleeps with the nodes it was given until
  the end (`SleeperKnown`, `ExploredOrOvertaken`);
* `Worker.overlap`: a second thread claims the communication thread between the test
  and the claim of the first (`BufferSafe`, `ReportsCurrent`); `Worker.withdrawn`: `doWork`
  stores a flag over a claim (`KeepsReporting`);
* `Dist.lost`: the six gaps of section 3 (`OptimumSafe`, `EndSound`);
* `unset` of a copy: the constructor for a work from a file does not set `nb_updates`
  (`distributed/src/work.cpp:36`), so that `sizes_big` may choose a work that nobody has reported
  since it was read. What `take` leaves in reverse order can be saved like that, read again,
  divided or duplicated, and intersected with a report although it is not sorted
  (`SortedCopies`). The run `dist_file` reaches states where the optimum is lost for no other reason;
* `exited` of a worker: a work that is too small to be divided is handed out again with the
  interval ids of its owner (`distributed/src/works.cpp:427`). A worker with fewer IVMs finds an id
  that it has no IVM for and exits ("ID > nbIVMs!", `multicore/src/matrix_controller.cpp:132`; the
  device has the same check, `gpu/src/gpubb.cu:1292`), after which the others wait for ever. It
  happens in `dist_end`, hence the exception in `AllEnd`; `OnlySmallerExit` says that it takes
  workers of different sizes;
* `news` of a worker that left: it confirms the end with a number only
  (`distributed/src/worker.cpp:600`), although a comment of the master has it receive a candidate
  solution there (`distributed/src/master.cpp:309`). A solution that was still to be sent does
  not reach the master (`Delivered`);
* `GpuBB.dropped`: an IVM stops when position and end are equal above the last line,
  and with it the leaf below (`Exact`);

`Heuristics` keeps in `stale` the tail that an earlier evaluation left behind: the makespan
of an insertion behind the last position is computed from it.

`NoFatalExit` is about the error exits of the work stealing. The exits of `initFromFac` on the
numbers a worker is sent (`matrix_controller.cpp:115-134`) are a matter of `Dist`: `OnlySmallerExit`
for an interval id that is too large, `TypeOK` for more intervals than there are IVMs.

## 7. Not modelled

See `components` in `PROJECT.json` for what is left out of each component. On the whole:

* the second way to bound on the device (`boundMode` 1: Johnson bounds, with its own
  preparation and pruning) and `findAll` there; the triggered mode of the device, which
  nothing switches on; kernels of n-queens;
* the conflicts that bound n-queens; learning and early exit of LB2, which only leave
  machine pairs out;
* neighbourhoods of the local search other than insertion, `runIG` from a guide, beam and
  tree heuristics, and the pool of subproblems a worker keeps for its heuristic threads;
* a checkpoint that is torn by a crash: the input of the restart is undefined then;
* an order of siblings that differs between processes (node priority 4);
* data races on `got_work`, taken as atomic reads of a Boolean; `interruptExploration`
  of the team, and `getSubproblem`, which copies schedules for heuristic threads;
* parsing and printing, statistics and timers, reading and generating instances, the
  vendored INI parser: input and output without state the search depends on.
