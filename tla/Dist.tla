------------------------------- MODULE Dist ---------------------------------
(***************************************************************************)
(* The distributed search: the master (distributed/src/master.cpp) with    *)
(* its pool of works (works.cpp), the workers and the messages between     *)
(* them (communicator.cpp, worker.cpp).                                    *)
(*                                                                         *)
(* The master keeps a copy of every work unit it has handed out, under the *)
(* id it gave to it.  A worker reports what is left of its work unit; the  *)
(* master intersects that with its copy, which may have been divided in    *)
(* between, and gives the worker another unit when nothing is left.        *)
(*                                                                         *)
(* What must not get lost is the one optimal leaf: opt may be any leaf of  *)
(* the tree, and knows and sltn say who has evaluated it.  The code does   *)
(* lose it in six places, at the border of an interval, at a crash or in a *)
(* work read from a file; lost names those that were met.                  *)
(*                                                                         *)
(* A worker has at most one request under way and gets one answer to it    *)
(* (module Worker), so a channel holds at most one message.  Ids are reused*)
(* here once nobody holds them: the code only compares them.               *)
(***************************************************************************)
EXTENDS Intervals

CONSTANTS
  Workers,     \* the worker processes
  M,           \* M[w]: number of IVMs of worker w
  InitModes,   \* arguments::initial_work: subset of {1, 2, 3, 4}
  Files,       \* what the file of a former run may hold (initial_work 2)
  Notifies,    \* workers whose exploration reports improved solutions
  Crashes      \* bound: how often works are read from a file

ASSUME DistAssumption ==
  /\ IsFiniteSet(Workers) /\ Workers # {}
  /\ M \in [Workers -> Nat \ {0}]
  /\ InitModes \subseteq {1, 2, 3, 4} /\ (2 \in InitModes => Crashes > 0)
  /\ Files \subseteq Seq(Seq([b : Nat, e : Nat, id : Nat]))
  /\ \A f \in Files : \A k \in DOMAIN f : f[k] # <<>> /\ LongApart(f[k])
  /\ Notifies \subseteq Workers
  /\ Crashes \in Nat

VARIABLES
  ids,         \* works::ids, the copies of the works that workers have
  unassigned,  \* works::unassigned, works nobody has yet
  end,         \* master::end
  count_out,   \* workers that confirmed the end
  sltn,        \* does the master know the optimum?
  unit,        \* unit[w]: id and intervals (vectors) of worker w
  st,          \* st[w]: "ready" to send, "waiting" for an answer, "out" of its
               \* loop, or "exited" with an error
  worked,      \* worked[w]: has w explored since it got its work unit?
  knows,       \* knows[w]: does w know the optimum?
  news,        \* news[w]: has w still to send it?
  req,         \* req[w]: message from w to the master
  rep,         \* rep[w]: message from the master to w
  crashes,     \* how often works were read from a file
  opt,         \* the optimal leaf (never changes)
  lost         \* the gaps of the code that the optimal leaf fell into

pool == <<ids, unassigned>>
worker == <<unit, st, worked, knows, news>>
vars == <<ids, unassigned, end, count_out, sltn, unit, st, worked, knows, news,
          req, rep, crashes, opt, lost>>

None == [tag |-> "none"]
WORK(k, max, u) == [tag |-> "WORK", id |-> k, max |-> max, u |-> u]
BEST(b) == [tag |-> "BEST", best |-> b]
NIL(b)  == [tag |-> "NIL", best |-> b]
END == [tag |-> "END"]

Gaps == {"cut", "single", "touch", "unset", "unassigned", "unsent"}

-----------------------------------------------------------------------------
(* works.cpp: the pool *)

UsedIds == DOMAIN ids \cup {unit[w].id : w \in Workers}
           \cup {rep[w].id : w \in {v \in Workers : rep[v].tag = "WORK"}}
set_id == Min((1 .. Cardinality(UsedIds) + 1) \ UsedIds)

\* A copy of the work unit u; updated says whether its nb_updates is positive,
\* unset that this is so by chance if at all: the constructor for a work from a
\* file leaves nb_updates as it is.
Copy(u) == [u |-> u, size |-> set_size(u),
            updated |-> FALSE, unset |-> FALSE, end_updated |-> FALSE]
ReadCopy(u, chance) == [Copy(u) EXCEPT !.updated = chance, !.unset = TRUE]
id_insert(p, k, c) == [j \in DOMAIN p \cup {k} |-> IF j = k THEN c ELSE p[j]]
id_delete(p, k) == [j \in DOMAIN p \ {k} |-> p[j]]

\* The largest works among those that count as reported at least once.
sizes_big(p) ==
  LET seen == {k \in DOMAIN p : p[k].updated}
  IN {k \in seen : \A j \in seen : p[j].size <= p[k].size}

PoolLeaves == (UNION {Leaves(ids[k].u) : k \in DOMAIN ids})
              \cup (UNION {Leaves(unassigned[k]) : k \in DOMAIN unassigned})

-----------------------------------------------------------------------------
(* works::save and works::operator<<, operator>> *)

\* The file announces as many works as are active, and as many are read.
FileWorks ==
  LET active == At(ids, Places(DOMAIN ids))
  IN [k \in DOMAIN active |-> active[k].u] \o unassigned
ReadWorks == SubSeq(FileWorks, 1, Cardinality(DOMAIN ids))

-----------------------------------------------------------------------------
(* Init: master::initWorks and the workers before their first request *)

Whole == <<[b |-> FirstLeaf, e |-> LastLeaf, id |-> 0]>>
init_complete == <<Whole>>
init_complete_split ==
  LET u == split(Whole, Cardinality(Workers)) IN [k \in DOMAIN u |-> <<u[k]>>]
init_complete_split_lop ==
  LET u == split2(Whole, 100 * Cardinality(Workers))
  IN Reverse([k \in DOMAIN u |-> <<u[k]>>])
initWorks(mode) ==
  CASE mode = 1 -> init_complete
    [] mode = 3 -> init_complete_split
    [] mode = 4 -> init_complete_split_lop

FreshUnit == [w \in Workers |-> [id |-> 0, vs |-> <<>>]]
FreshSt == [w \in Workers |-> "ready"]
Nobody == [w \in Workers |-> FALSE]
Empty == [w \in Workers |-> None]

Init ==
  /\ ids = << >>
  /\ \E mode \in InitModes :
       IF mode = 2 THEN unassigned \in Files /\ crashes = 1
                   ELSE unassigned = initWorks(mode) /\ crashes = 0
  /\ opt \in Tree
  /\ lost = IF opt \in PoolLeaves THEN {} ELSE {"cut"}
  /\ end = FALSE /\ count_out = 0 /\ sltn = FALSE
  /\ unit = FreshUnit /\ st = FreshSt
  /\ worked = Nobody /\ knows = Nobody /\ news = Nobody
  /\ req = Empty /\ rep = Empty

-----------------------------------------------------------------------------
(* The workers *)

\* The IVMs of a worker with the intervals vs that have one.
Busy(vs) == {vs[k].id : k \in DOMAIN vs}

\* The intervals that threads work on; an inverted one is over at once.
Active(u) == At(u, Places({k \in DOMAIN u : u[k].b <= u[k].e}))

Alive(w) == st[w] \in {"ready", "waiting"}

\* Worker w evaluates the next leaf of one of its intervals (or its bound
\* says that it is not optimal).
Explore(w) ==
  /\ Alive(w)
  /\ \E k \in DOMAIN unit[w].vs :
       \E leaf \in {Weigh(unit[w].vs[k].pos)} :
          /\ unit' = [unit EXCEPT ![w].vs =
                        IF @[k].pos = @[k].end
                        THEN SubSeq(@, 1, k - 1) \o SubSeq(@, k + 1, Len(@))
                        ELSE [@ EXCEPT ![k].pos = Expand(leaf + 1)]]
          /\ knows' = [knows EXCEPT ![w] = @ \/ leaf = opt]
          /\ news' = [news EXCEPT ![w] = @ \/ (leaf = opt /\ w \in Notifies /\ ~knows[w])]
  /\ worked' = [worked EXCEPT ![w] = TRUE]
  /\ UNCHANGED <<pool, end, count_out, sltn, st, req, rep, crashes, opt, lost>>

\* A thread of w whose IVM has no interval takes the end of the interval of
\* another one.
Share(w) ==
  /\ Alive(w)
  /\ \E k \in DOMAIN unit[w].vs, thief \in (0 .. M[w] - 1) \ Busy(unit[w].vs) :
       LET i == VectToBigint(unit[w].vs[k])
       IN \E c \in i.b .. i.e - 1 :
            unit' = [unit EXCEPT ![w].vs =
                       Append([@ EXCEPT ![k].end = Expand(c)],
                              [pos |-> Expand(c + 1), end |-> Expand(i.e), id |-> thief])]
  /\ UNCHANGED <<pool, end, count_out, sltn, st, worked, knows, news, req, rep,
                 crashes, opt, lost>>

\* Worker w reports its intervals, after at least one round of work on them.
tryLaunchCommWork(w) ==
  /\ st[w] = "ready"
  /\ worked[w] \/ unit[w].vs = <<>>
  /\ req' = [req EXCEPT ![w] = WORK(unit[w].id, M[w], fact2dec(unit[w].vs))]
  /\ st' = [st EXCEPT ![w] = "waiting"]
  /\ lost' = IF Single(Decimals(unit[w].vs), opt) THEN lost \cup {"single"} ELSE lost
  /\ UNCHANGED <<pool, end, count_out, sltn, unit, worked, knows, news, rep,
                 crashes, opt>>

\* Worker w sends the best solution it knows.
tryLaunchCommBest(w) ==
  /\ st[w] = "ready" /\ news[w]
  /\ req' = [req EXCEPT ![w] = BEST(knows[w])]
  /\ st' = [st EXCEPT ![w] = "waiting"]
  /\ news' = [news EXCEPT ![w] = FALSE]
  /\ UNCHANGED <<pool, end, count_out, sltn, unit, worked, knows, rep,
                 crashes, opt, lost>>

\* Worker w replaces its work unit by the one it was sent, every interval on the
\* IVM of its id; it exits if it has no such IVM.
IdsFit(w, u) == \A k \in DOMAIN u : u[k].id < M[w]
updateWorkUnit(w) ==
  /\ rep[w].tag = "WORK"
  /\ unit' = [unit EXCEPT ![w] = [id |-> rep[w].id, vs |-> dec2fact(Active(rep[w].u))]]
  /\ worked' = [worked EXCEPT ![w] = FALSE]
  /\ rep' = [rep EXCEPT ![w] = None]
  /\ st' = [st EXCEPT ![w] = IF IdsFit(w, rep[w].u) THEN "ready" ELSE "exited"]
  /\ UNCHANGED <<pool, end, count_out, sltn, knows, news, req, crashes, opt, lost>>

\* Worker w takes over the best solution of the master.
ReceiveSolution(w) ==
  /\ rep[w].tag \in {"NIL", "BEST"}
  /\ knows' = [knows EXCEPT ![w] = @ \/ rep[w].best]
  /\ rep' = [rep EXCEPT ![w] = None]
  /\ st' = [st EXCEPT ![w] = "ready"]
  /\ UNCHANGED <<pool, end, count_out, sltn, unit, worked, news, req,
                 crashes, opt, lost>>

\* Worker w is told to stop, leaves its loop and confirms.
ReceiveEnd(w) ==
  /\ rep[w].tag = "END"
  /\ rep' = [rep EXCEPT ![w] = None]
  /\ req' = [req EXCEPT ![w] = END]
  /\ st' = [st EXCEPT ![w] = "out"]
  /\ UNCHANGED <<pool, end, count_out, sltn, unit, worked, knows, news,
                 crashes, opt, lost>>

-----------------------------------------------------------------------------
(* master::processRequest for the request m of worker w; p are the copies  *)
(* that are left after its report was taken into account.                  *)

Answer(w, m) == rep' = [rep EXCEPT ![w] = m]

\* Mutant: a copy nobody divided is left as it was.
ReportedStale(m) ==
  IF m.u = <<>> THEN <<>>
  ELSE IF ~ids[m.id].end_updated THEN ids[m.id].u
  ELSE intersection(ids[m.id].u, m.u)
\* The copy of m after the report m, without or with intersection.
Reported(m) ==
  IF m.u = <<>> THEN <<>>
  ELSE IF ~ids[m.id].end_updated THEN m.u
  ELSE intersection(ids[m.id].u, m.u)

\* A leaf that ends an interval of the copy and begins one of the report.
Touching(s, r) ==
  {x \in Tree : \E i \in ToSet(s), j \in ToSet(r) :
                  (x = i.e /\ x = j.b) \/ (x = i.b /\ x = j.e)}

\* A leaf of both that the intersection misses, for a copy that was divided or given
\* away as it was read, in any order.
Skipped(c, r) == IF ~c.unset THEN {}
                 ELSE (Leaves(c.u) \cap Leaves(r)) \ Leaves(intersection(c.u, r))
\* The gaps the optimum falls into when a worker reports r to the copy c.
MissedBy(c, r) ==
  IF ~c.end_updated THEN {}
  ELSE (IF opt \in Touching(c.u, r) THEN {"touch"} ELSE {})
       \cup (IF opt \in Skipped(c, r) \ Touching(c.u, r) THEN {"unset"} ELSE {})

\* Mutant: the recorded size is not updated.
KeepSize(w, m, u) ==
  /\ u # <<>>
  /\ ids' = [ids EXCEPT ![m.id] = [@ EXCEPT !.u = u, !.updated = TRUE, !.end_updated = FALSE]]
  /\ Answer(w, IF ids[m.id].end_updated THEN WORK(m.id, m.max, u) ELSE NIL(sltn))
  /\ UNCHANGED <<unassigned, end>>
\* Worker w keeps its work unit; it is told only if somebody divided it.  Counting
\* from a number that was never set, nb_updates may become positive or not.
Keep(w, m, u) ==
  /\ u # <<>>
  /\ \E positive \in {TRUE, ~ids[m.id].unset} :
       ids' = [ids EXCEPT ![m.id] = [Copy(u) EXCEPT !.updated = positive, !.unset = ~positive]]
  /\ Answer(w, IF ids[m.id].end_updated THEN WORK(m.id, m.max, u) ELSE NIL(sltn))
  /\ UNCHANGED <<unassigned, end>>

\* Mutant: works nobody has yet are forgotten.
ShutdownIdle(w, p) ==
  /\ DOMAIN p = {}
  /\ end' = TRUE
  /\ Answer(w, END)
  /\ ids' = p
  /\ UNCHANGED unassigned
\* Mutant: the worker that asks is not told.
ShutdownQuiet(w, p) ==
  /\ DOMAIN p = {} /\ unassigned = <<>>
  /\ end' = TRUE
  /\ Answer(w, NIL(sltn))
  /\ ids' = p
  /\ UNCHANGED unassigned
\* Nothing is left anywhere.
Shutdown(w, p) ==
  /\ DOMAIN p = {} /\ unassigned = <<>>
  /\ end' = TRUE
  /\ Answer(w, END)
  /\ ids' = p
  /\ UNCHANGED unassigned

\* The first unassigned work is handed out under id new, whole and split ...
adopt(w, m, p, new) ==
  /\ unassigned # <<>>
  /\ Len(Head(unassigned)) <= m.max
  /\ \E u \in {split(Head(unassigned), m.max)} :
       /\ Answer(w, WORK(new, m.max, u))
       /\ \E c \in IF crashes = 0 THEN {Copy(u)} ELSE {ReadCopy(u, b) : b \in BOOLEAN} :
            ids' = id_insert(p, new, c)
  /\ unassigned' = Tail(unassigned)
  /\ UNCHANGED end

\* Mutant: the rest of the work is dropped.
adoptRest(w, m, p, new) ==
  /\ unassigned # <<>>
  /\ Len(Head(unassigned)) > m.max
  /\ \E t \in {take(Head(unassigned), m.max)} :
       /\ Answer(w, WORK(new, m.max, t.given))
       /\ ids' = id_insert(p, new, Copy(t.given))
       /\ unassigned' = Tail(unassigned)
  /\ UNCHANGED end
\* ... or, if it has more intervals than w can hold, in part.
adoptPart(w, m, p, new) ==
  /\ unassigned # <<>>
  /\ Len(Head(unassigned)) > m.max
  /\ \E t \in {take(Head(unassigned), m.max)} :
       /\ Answer(w, WORK(new, m.max, t.given))
       /\ ids' = id_insert(p, new, Copy(t.given))
       /\ unassigned' = <<t.kept>> \o Tail(unassigned)
  /\ UNCHANGED end

\* The largest work is divided, its second halves go to w under id new.
steal(w, m, p, new) ==
  /\ unassigned = <<>>
  /\ \E k \in sizes_big(p) : \E d \in {divide(p[k].u, m.max)} :
       /\ d.given # <<>>
       /\ ids' = id_insert([p EXCEPT ![k] = [Copy(d.kept) EXCEPT !.updated = TRUE,
                                                              !.unset = p[k].unset,
                                                              !.end_updated = TRUE]],
                           new, Copy(d.given))
       /\ Answer(w, WORK(new, m.max, d.given))
  /\ UNCHANGED <<unassigned, end>>

\* Mutant: the copy goes out under the id of the original.
duplicateId(w, m, p, new) ==
  /\ unassigned = <<>>
  /\ \E k \in sizes_big(p) :
       /\ DividedIndices(p[k].u, m.max) = {}
       /\ ids' = [p EXCEPT ![k].end_updated = @ \/ Len(p[k].u) <= m.max]
       /\ Answer(w, WORK(k, m.max, IF Len(p[k].u) <= m.max THEN p[k].u ELSE <<>>))
  /\ UNCHANGED <<unassigned, end>>
\* The largest work is too small for that: w gets all of it, with the interval ids
\* of its owner, or nothing if it has too many intervals, under an id that the
\* pool does not know.
duplicate(w, m, p, new) ==
  /\ unassigned = <<>>
  /\ \E k \in sizes_big(p) :
       /\ DividedIndices(p[k].u, m.max) = {}
       /\ ids' = [p EXCEPT ![k].end_updated = @ \/ Len(p[k].u) <= m.max]
       /\ Answer(w, WORK(new, m.max, IF Len(p[k].u) <= m.max THEN p[k].u ELSE <<>>))
  /\ UNCHANGED <<unassigned, end>>

\* No work unit has been reported yet.
StealFails(w, p) ==
  /\ unassigned = <<>> /\ DOMAIN p # {} /\ sizes_big(p) = {}
  /\ Answer(w, NIL(sltn))
  /\ ids' = p
  /\ UNCHANGED <<unassigned, end>>

NewWork(w, m, p) ==
  \/ Shutdown(w, p)
  \/ StealFails(w, p)
  \/ \E new \in {set_id} : \/ adopt(w, m, p, new) \/ adoptPart(w, m, p, new)
                            \/ steal(w, m, p, new) \/ duplicate(w, m, p, new)

processRequest(w, m) ==
  \/ m.id \notin DOMAIN ids /\ NewWork(w, m, ids)
  \/ /\ m.id \in DOMAIN ids
     /\ \E u \in {Reported(m)} :
          \/ Keep(w, m, u)
          \/ u = <<>> /\ NewWork(w, m, id_delete(ids, m.id))

-----------------------------------------------------------------------------
(* master::run, one iteration per message *)

Running == count_out < Cardinality(Workers)

MasterWork(w) ==
  /\ Running
  /\ req[w].tag = "WORK"
  /\ processRequest(w, req[w])
  /\ req' = [req EXCEPT ![w] = None]
  /\ lost' = lost \cup UNION {MissedBy(ids[k], req[w].u) : k \in {req[w].id} \cap DOMAIN ids}
  /\ UNCHANGED <<count_out, sltn, worker, crashes, opt>>

\* Mutant: after the end a solution is ignored.
MasterBestEarly(w) ==
  /\ Running
  /\ req[w].tag = "BEST"
  /\ sltn' = (sltn \/ (~end /\ req[w].best))
  /\ Answer(w, IF end THEN END ELSE BEST(sltn'))
  /\ req' = [req EXCEPT ![w] = None]
  /\ UNCHANGED <<pool, end, count_out, worker, crashes, opt, lost>>
\* The master takes the better solution and returns the best one, or the end.
MasterBest(w) ==
  /\ Running
  /\ req[w].tag = "BEST"
  /\ sltn' = (sltn \/ req[w].best)
  /\ Answer(w, IF end THEN END ELSE BEST(sltn'))
  /\ req' = [req EXCEPT ![w] = None]
  /\ UNCHANGED <<pool, end, count_out, worker, crashes, opt, lost>>

MasterEnd(w) ==
  /\ Running
  /\ req[w].tag = "END"
  /\ count_out' = count_out + 1
  /\ req' = [req EXCEPT ![w] = None]
  /\ UNCHANGED <<pool, end, sltn, worker, rep, crashes, opt, lost>>

\* The master saves its works and its best solution, which it may do after any
\* message, and later all processes die and are started on the file.  The
\* crash undoes every step since the save, so that both are one step here.
Restart ==
  /\ Running
  /\ crashes < Crashes /\ DOMAIN ids # {}
  /\ crashes' = crashes + 1
  /\ ids' = << >>
  /\ unassigned' = ReadWorks
  /\ end' = FALSE /\ count_out' = 0
  /\ unit' = FreshUnit /\ st' = FreshSt
  /\ worked' = Nobody /\ knows' = Nobody /\ news' = Nobody
  /\ req' = Empty /\ rep' = Empty
  /\ lost' = lost \cup (IF \E k \in DOMAIN unassigned : opt \in Leaves(unassigned[k])
                        THEN {"unassigned"} ELSE {})
                  \cup (IF ~sltn /\ \E w \in Workers : knows[w] THEN {"unsent"} ELSE {})
  /\ UNCHANGED <<sltn, opt>>

\* Without a worker that exited the others wait for ever.
Terminated == (~Running \/ \E w \in Workers : st[w] = "exited") /\ UNCHANGED vars

Send(w) == tryLaunchCommWork(w) \/ tryLaunchCommBest(w)
Receive(w) == updateWorkUnit(w) \/ ReceiveSolution(w) \/ ReceiveEnd(w)
Serve(w) == MasterWork(w) \/ MasterBest(w) \/ MasterEnd(w)

Next ==
  \/ \E w \in Workers :
       Explore(w) \/ Share(w) \/ Send(w) \/ Receive(w) \/ Serve(w)
  \/ Restart
  \/ Terminated

\* The threads of every worker explore, its main loop and communication thread
\* go on and the master serves every message; for one worker these alternate.
Fairness ==
  \A w \in Workers :
    WF_vars(Explore(w)) /\ WF_vars(Send(w) \/ Serve(w) \/ Receive(w))

Spec == Init /\ [][Next]_vars /\ Fairness

-----------------------------------------------------------------------------
(* Properties *)

\* An interval may be empty, then it ends before it begins.
Interval == [b : 0 .. LastLeaf + 1, e : Tree \cup {-1}, id : Nat]
Work == Seq(Interval)
IsMessage(m, tags) ==
  /\ m.tag \in tags
  /\ CASE m.tag = "WORK" -> m \in [tag : {"WORK"}, id : Nat, max : Nat, u : Work]
       [] m.tag \in {"BEST", "NIL"} -> m.best \in BOOLEAN
       [] OTHER -> m = [tag |-> m.tag]

TypeOK ==
  /\ \A k \in DOMAIN ids :
       /\ k \in Nat \ {0}
       /\ ids[k] \in [u : Work, size : Nat,
                      updated : BOOLEAN, unset : BOOLEAN, end_updated : BOOLEAN]
       /\ ids[k].size = set_size(ids[k].u)
       /\ ids[k].u # <<>>
  /\ unassigned \in Seq(Work)
  /\ end \in BOOLEAN /\ sltn \in BOOLEAN /\ count_out \in 0 .. Cardinality(Workers)
  /\ \A w \in Workers :
       /\ unit[w] \in [id : Nat, vs : Seq([pos : Digits, end : Digits, id : Nat])]
       /\ Len(unit[w].vs) <= M[w]
       /\ \A k \in DOMAIN unit[w].vs : VectToBigint(unit[w].vs[k]) \in [b : Tree, e : Tree, id : Nat]
       /\ st[w] \in {"ready", "waiting", "out", "exited"}
       /\ IsMessage(req[w], {"none", "WORK", "BEST", "END"})
       /\ IsMessage(rep[w], {"none", "WORK", "BEST", "NIL", "END"})
  /\ {worked, knows, news} \subseteq [Workers -> BOOLEAN]
  /\ crashes \in 0 .. Crashes /\ opt \in Tree /\ lost \subseteq Gaps

\* The optimal leaf is evaluated, or still in the pool of the master, or it
\* fell into one of the known gaps: neither dividing, merging, duplicating
\* and adopting works nor a restart loses it anywhere else.
OptimumSafe ==
  sltn \/ lost # {} \/ opt \in PoolLeaves \/ \E w \in Workers : knows[w]

\* The master tells workers to stop only when the optimum was found (or lost
\* in a gap), also when works were handed out twice.
EndSound == end => sltn \/ lost # {} \/ \E w \in Workers : knows[w]

\* work::intersection "assumes that both interval collections are SORTED" and
\* that one interval of the copy at most meets one of the report: copies that
\* will be intersected are sorted and disjoint, unless the update count of the
\* copy was never set, so that it may have been divided or given away as it was
\* read from the file.
SortedCopies ==
  \A k \in DOMAIN ids : ids[k].end_updated /\ ~ids[k].unset => Ordered(ids[k].u)

\* Two workers never report to the same copy, also when a work was given to
\* both: the copy would be cut down to what both have left.
Held(w) == IF rep[w].tag = "WORK" THEN rep[w].id ELSE unit[w].id
OneOwner ==
  \A v, w \in Workers : v # w /\ Held(v) = Held(w) => Held(v) \notin DOMAIN ids

\* A worker that is sent an interval for an IVM it does not have prints "ID > nbIVMs!"
\* and exits: only one with fewer IVMs than another, which may be sent ids of its.
OnlySmallerExit ==
  \A w \in Workers : st[w] = "exited" => \E v \in Workers : M[w] < M[v]

\* When the master leaves, it knows the optimum if a worker does that notifies it,
\* unless this worker still had it to send when it was told to stop.
Delivered == ~Running => \A w \in Notifies : knows[w] => sltn \/ news[w]

\* The search comes to an end: every worker confirms, unless one exits.
AllEnd == <>[](~Running \/ \E w \in Workers : st[w] = "exited")
=============================================================================
