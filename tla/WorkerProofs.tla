---------------------------- MODULE WorkerProofs ----------------------------
(***************************************************************************)
(* Proofs about Worker: as long as exchanges do not overlap, the buffer is *)
(* used by one thread at a time and reports are about the work unit that   *)
(* was handed out last; without heuristic threads they do not overlap.     *)
(***************************************************************************)
EXTENDS Worker, TLAPS

-----------------------------------------------------------------------------
(* Types *)

\* The members of the sets of TypeOK that are used, so that the sets can stay
\* folded.
LEMMA Steps ==
  /\ "Top" \in MainSteps /\ "Update?" \in MainSteps /\ "Update" \in MainSteps
  /\ "Updated" \in MainSteps /\ "Work" \in MainSteps /\ "Best?" \in MainSteps
  /\ "BestReady?" \in MainSteps /\ "ClaimBest" \in MainSteps /\ "WorkReady?" \in MainSteps
  /\ "getIntervals" \in MainSteps /\ "ClaimWork" \in MainSteps /\ "Join" \in MainSteps
  /\ "Done" \in MainSteps
  /\ "Top" \in CommSteps /\ "Trigger" \in CommSteps /\ "Asleep" \in CommSteps
  /\ "Work" \in CommSteps /\ "fact2dec" \in CommSteps /\ "Best" \in CommSteps
  /\ "SendBest" \in CommSteps /\ "Receive" \in CommSteps /\ "Offer" \in CommSteps
  /\ "AwaitUpdate" \in CommSteps /\ "Ready" \in CommSteps /\ "Exit" \in CommSteps
  /\ "Search" \in HeuSteps /\ "BestReady?" \in HeuSteps /\ "ClaimBest" \in HeuSteps
  /\ "Done" \in HeuSteps
BY DEF MainSteps, CommSteps, HeuSteps

LEMMA Messages ==
  /\ Msg("none") \in Message /\ Msg("BEST") \in Message /\ Msg("NIL") \in Message
  /\ Msg("END") \in Message
  /\ \A k \in Units : Work(k) \in Message
  /\ \A m \in Message : m.u \in Units
BY WorkerAssumption DEF Msg, Work, Message, Units

LEMMA Buffers ==
  /\ \A k \in Units : [tag |-> "report", u |-> k] \in Buffer
  /\ \A k \in Units : [tag |-> "update", u |-> k] \in Buffer
  /\ \A b \in Buffer : b.u \in Units
BY DEF Buffer

\* The threads start with values of the types.
LEMMA TypeInit ==
  ASSUME Init PROVE TypeOK
<1>1. 0 \in Units
  BY WorkerAssumption DEF Units
<1>2. pcH \in [Heuristics -> HeuSteps]
  BY Steps DEF Init
<1>3. found \in 0 .. MaxFound
  BY WorkerAssumption DEF Init
<1> QED BY <1>1, <1>2, <1>3, Steps, Messages, Buffers DEF Init, TypeOK

\* Every step of every thread and of the master keeps the types.
LEMMA TypeStep ==
  ASSUME TypeOK, [Next]_vars PROVE TypeOK'
<1> USE Steps DEF TypeOK
<1>1. CASE Main
  <2>1. CASE MainTop \/ checkUpdate \/ UpdateApplied \/ doWork
             \/ foundNewBest \/ MainBestReady \/ MainWorkReady
    BY <1>1, <2>1 DEF Main, MainTop, checkUpdate, UpdateApplied, MainWorkReady,
       doWork, foundNewBest, MainBestReady, flags, history, Confirm
  <2>2. CASE MainClaimBest \/ MainClaimWork
    BY <1>1, <2>2 DEF Main, MainClaimBest, 
       MainClaimWork, ClaimBest, Signal, flags, history, Confirm
  <2>3. CASE Confirm \/ getIntervals \/ updateWorkUnit
    BY <1>1, <2>3, Messages, Buffers
       DEF Main, Confirm, getIntervals, updateWorkUnit, flags, history
  <2> QED BY <1>1, <2>1, <2>2, <2>3 DEF Main
<1>2. CASE Comm
  <2>1. CASE CommTop \/ wait_for_trigger \/ ClearRequest \/ ClearBest \/ Offer
             \/ AwaitUpdate \/ SetReady
    BY <1>2, <2>1 DEF Comm, CommTop, wait_for_trigger, ClearRequest, ClearBest,
       Offer, AwaitUpdate, SetReady, flags, history
  <2>2. CASE SendWork \/ SendBest \/ ReceiveWork \/ ReceiveOther
    BY <1>2, <2>2, Messages, Buffers
       DEF Comm, SendWork, SendBest, ReceiveWork, ReceiveOther, flags, history
  <2> QED BY <1>2, <2>1, <2>2 DEF Comm
<1>3. CASE \E h \in Heuristics : Heuristic(h)
  <2>0. PICK h \in Heuristics : Heuristic(h)
    BY <1>3
  <2>1. UNCHANGED <<pcM, work_buf, unit, foundNew, req, rep, granted>>
    BY <2>0 DEF Heuristic
  <2>2. CASE HeuStop(h) \/ HeuFound(h) \/ HeuBestReady(h)
    BY <2>1, <2>2, WorkerAssumption
       DEF HeuStop, HeuFound, HeuBestReady, flags, history
  <2>3. CASE HeuClaimBest(h)
    BY <2>1, <2>3 DEF HeuClaimBest, ClaimBest, Signal
  <2> QED BY <2>0, <2>2, <2>3 DEF Heuristic
<1>4. CASE Master
  <2>1. granted' \in Units
    BY <1>4, WorkerAssumption DEF Master, Grant, Refuse, Units
  <2> QED BY <1>4, <2>1, Messages DEF Master, Grant, Refuse, flags, history
<1>5. CASE UNCHANGED vars
  BY <1>5 DEF vars, flags, history
<1> QED BY <1>1, <1>2, <1>3, <1>4, <1>5 DEF Next, Stopped

\* The flags, the buffer and the messages keep their types (worker.cpp).
THEOREM TypeCorrect == Spec => []TypeOK
<1> QED BY TypeInit, TypeStep, PTL DEF Spec

-----------------------------------------------------------------------------
(* The inductive invariant *)

\* The steps of the communication thread from its trigger to "Ready".
Exchange == {"Work", "fact2dec", "Best", "SendBest", "Receive", "Offer",
             "AwaitUpdate", "Ready"}
\* Those in which it reads a report from the buffer or has an update in it.
UsesBuffer == {"Work", "fact2dec", "Offer", "AwaitUpdate"}
\* The steps in which the main loop fills the buffer.
Fills == {"getIntervals", "ClaimWork"}

\* One request is under way while the communication thread is at "Receive",
\* and an update is applied only while it waits for that.
MessageInv ==
  /\ pcC # "Receive" => rep.tag = "none" /\ req.tag \in {"none", "END"}
  /\ pcC = "Receive" =>
       \/ req.tag \in {"WORK", "BEST"} /\ rep.tag = "none"
       \/ req.tag = "none" /\ rep.tag \in {"WORK", "BEST", "NIL", "END"}
  /\ rep.tag = "WORK" => rep.u = granted
  /\ updateAvailable => pcC = "AwaitUpdate"
  /\ pcM \in {"Update", "Updated"} => updateAvailable

\* The flag is down during an exchange and from a claim on; while the main
\* loop fills the buffer at most a best solution is exchanged.
ClaimInv ==
  /\ pcC \in Exchange \/ sendRequest => ~sendRequestReady
  /\ pcC \in Exchange \ {"Work"} => ~sendRequest
  /\ pcM \in Fills =>
       /\ ~sendRequest /\ pcC \notin UsesBuffer
       /\ pcC = "Receive" => req.tag = "BEST" \/ rep.tag \in {"BEST", "END"}

\* The threads explore the work unit that was handed out last, except while the
\* communication thread has it; a report in the buffer is about that unit.
UnitInv ==
  /\ pcC \notin {"Offer", "AwaitUpdate"} /\ rep.tag # "WORK" => unit = granted
  /\ pcC \in {"Offer", "AwaitUpdate"} => work_buf.u = granted
  /\ pcC = "AwaitUpdate" /\ ~updateAvailable => unit = granted
  /\ pcM = "Updated" => unit = granted
  /\ sendRequest \/ pcC \in {"Work", "fact2dec"} \/ pcM = "ClaimWork" => work_buf.u = unit
  /\ req.tag = "WORK" => req.u = granted

IInv == TypeOK /\ MessageInv /\ (~overlap => ClaimInv /\ UnitInv)

\* Without heuristic threads, and if the flag of doWork is not set, nothing
\* overlaps: the main loop is the only one that claims the communication thread.
AloneInv ==
  Heuristics = {} /\ ~foundNew =>
    /\ ~overlap /\ ~newBest
    /\ pcM \notin {"BestReady?", "ClaimBest"}
    /\ pcC \notin {"Best", "SendBest"}
    /\ pcM \in Fills => sendRequestReady

\* A message is under way only while the communication thread waits for it.
LEMMA MessageStep ==
  ASSUME TypeOK, MessageInv, [Next]_vars PROVE MessageInv'
<1> USE DEF MessageInv, TypeOK
<1>1. CASE Main
  <2>0. UNCHANGED <<pcH, foundNew, found>>
    BY <1>1 DEF Main
  <2>1. CASE MainTop /\ UNCHANGED <<req, rep, granted>>
    BY <2>0, <2>1 DEF MainTop, flags, history
  <2>2. CASE checkUpdate /\ UNCHANGED <<req, rep, granted>>
    BY <2>0, <2>2 DEF checkUpdate, flags, history
  <2>3. CASE updateWorkUnit /\ UNCHANGED <<req, rep, granted>>
    BY <2>0, <2>3 DEF updateWorkUnit, flags, history
  <2>4. CASE UpdateApplied /\ UNCHANGED <<req, rep, granted>>
    BY <2>0, <2>4 DEF UpdateApplied, flags, history
  <2>5. CASE doWork /\ UNCHANGED <<req, rep, granted>>
    BY <2>0, <2>5 DEF doWork, flags, history
  <2>6. CASE foundNewBest /\ UNCHANGED <<req, rep, granted>>
    BY <2>0, <2>6 DEF foundNewBest, flags, history
  <2>7. CASE MainBestReady /\ UNCHANGED <<req, rep, granted>>
    BY <2>0, <2>7 DEF MainBestReady, flags, history
  <2>8. CASE MainClaimBest /\ UNCHANGED <<req, rep, granted>>
    BY <2>0, <2>8 DEF MainClaimBest, ClaimBest, Signal, flags, history
  <2>9. CASE MainWorkReady /\ UNCHANGED <<req, rep, granted>>
    BY <2>0, <2>9 DEF MainWorkReady, flags, history
  <2>10. CASE getIntervals /\ UNCHANGED <<req, rep, granted>>
    BY <2>0, <2>10 DEF getIntervals, flags, history
  <2>11. CASE MainClaimWork /\ UNCHANGED <<req, rep, granted>>
    BY <2>0, <2>11 DEF MainClaimWork, Signal, flags, history
  <2>12. CASE Confirm
    BY <2>0, <2>12 DEF Confirm, Msg, flags, history
  <2> QED BY <1>1, <2>1, <2>2, <2>3, <2>4, <2>5, <2>6, <2>7, <2>8, <2>9, <2>10, <2>11, <2>12 DEF Main
<1>2. CASE Comm
  <2>0. UNCHANGED <<pcM, pcH, unit, foundNew, found, granted>>
    BY <1>2 DEF Comm
  <2>1. CASE CommTop
    BY <2>0, <2>1 DEF CommTop, flags, history
  <2>2. CASE wait_for_trigger
    BY <2>0, <2>2 DEF wait_for_trigger, flags, history
  <2>3. CASE ClearRequest
    BY <2>0, <2>3 DEF ClearRequest, flags, history
  <2>4. CASE SendWork
    BY <2>0, <2>4 DEF SendWork, Work, flags, history
  <2>5. CASE ClearBest
    BY <2>0, <2>5 DEF ClearBest, flags, history
  <2>6. CASE SendBest
    BY <2>0, <2>6 DEF SendBest, Msg, flags, history
  <2>7. CASE ReceiveWork
    BY <2>0, <2>7 DEF ReceiveWork, Msg, flags, history
  <2>8. CASE ReceiveOther
    BY <2>0, <2>8 DEF ReceiveOther, Msg, flags, history
  <2>9. CASE Offer
    BY <2>0, <2>9 DEF Offer, flags, history
  <2>10. CASE AwaitUpdate
    BY <2>0, <2>10 DEF AwaitUpdate, flags, history
  <2>11. CASE SetReady
    BY <2>0, <2>11 DEF SetReady, flags, history
  <2> QED BY <1>2, <2>1, <2>2, <2>3, <2>4, <2>5, <2>6, <2>7, <2>8, <2>9, <2>10, <2>11 DEF Comm
<1>3. CASE \E h \in Heuristics : Heuristic(h)
  <2>0. PICK h \in Heuristics : Heuristic(h)
    BY <1>3
  <2>1. UNCHANGED <<pcM, work_buf, unit, foundNew, req, rep, granted>>
    BY <2>0 DEF Heuristic
  <2>2. CASE HeuStop(h) \/ HeuFound(h) \/ HeuBestReady(h)
    BY <2>1, <2>2 DEF HeuStop, HeuFound, HeuBestReady, flags, history
  <2>3. CASE HeuClaimBest(h)
    BY <2>1, <2>3 DEF HeuClaimBest, ClaimBest, Signal
  <2> QED BY <2>0, <2>2, <2>3 DEF Heuristic
<1>4. CASE Master
  BY <1>4 DEF Master, Grant, Refuse, Msg, Work, flags, history
<1>5. CASE UNCHANGED vars
  BY <1>5 DEF vars, flags, history
<1> QED BY <1>1, <1>2, <1>3, <1>4, <1>5 DEF Next, Stopped

\* A claim is made when nothing else goes on.
LEMMA ClaimStep ==
  ASSUME IInv, ~overlap', [Next]_vars PROVE ClaimInv'
<1> USE DEF IInv, TypeOK, MessageInv, ClaimInv, Exchange, UsesBuffer, Fills
<1>1. CASE Main
  <2>0. UNCHANGED <<pcH, foundNew, found>>
    BY <1>1 DEF Main
  <2>1. CASE MainTop /\ UNCHANGED <<req, rep, granted>>
    BY <2>0, <2>1 DEF MainTop, flags, history
  <2>2. CASE checkUpdate /\ UNCHANGED <<req, rep, granted>>
    BY <2>0, <2>2 DEF checkUpdate, flags, history
  <2>3. CASE updateWorkUnit /\ UNCHANGED <<req, rep, granted>>
    BY <2>0, <2>3 DEF updateWorkUnit, flags, history
  <2>4. CASE UpdateApplied /\ UNCHANGED <<req, rep, granted>>
    BY <2>0, <2>4 DEF UpdateApplied, flags, history
  <2>5. CASE doWork /\ UNCHANGED <<req, rep, granted>>
    BY <2>0, <2>5 DEF doWork, flags, history
  <2>6. CASE foundNewBest /\ UNCHANGED <<req, rep, granted>>
    BY <2>0, <2>6 DEF foundNewBest, flags, history
  <2>7. CASE MainBestReady /\ UNCHANGED <<req, rep, granted>>
    BY <2>0, <2>7 DEF MainBestReady, flags, history
  <2>8. CASE MainClaimBest /\ UNCHANGED <<req, rep, granted>>
    BY <2>0, <2>8 DEF MainClaimBest, ClaimBest, Signal, flags, history
  <2>9. CASE MainWorkReady /\ UNCHANGED <<req, rep, granted>>
    BY <2>0, <2>9 DEF MainWorkReady, flags, history
  <2>10. CASE getIntervals /\ UNCHANGED <<req, rep, granted>>
    BY <2>0, <2>10 DEF getIntervals, flags, history
  <2>11. CASE MainClaimWork /\ UNCHANGED <<req, rep, granted>>
    BY <2>0, <2>11 DEF MainClaimWork, Signal, flags, history
  <2>12. CASE Confirm
    BY <2>0, <2>12 DEF Confirm, Msg, flags, history
  <2> QED BY <1>1, <2>1, <2>2, <2>3, <2>4, <2>5, <2>6, <2>7, <2>8, <2>9, <2>10, <2>11, <2>12 DEF Main
<1>2. CASE Comm
  <2>0. UNCHANGED <<pcM, pcH, unit, foundNew, found, granted>>
    BY <1>2 DEF Comm
  <2>1. CASE CommTop
    BY <2>0, <2>1 DEF CommTop, flags, history
  <2>2. CASE wait_for_trigger
    BY <2>0, <2>2 DEF wait_for_trigger, flags, history
  <2>3. CASE ClearRequest
    BY <2>0, <2>3 DEF ClearRequest, flags, history
  <2>4. CASE SendWork
    BY <2>0, <2>4 DEF SendWork, Work, flags, history
  <2>5. CASE ClearBest
    BY <2>0, <2>5 DEF ClearBest, flags, history
  <2>6. CASE SendBest
    BY <2>0, <2>6 DEF SendBest, Msg, flags, history
  <2>7. CASE ReceiveWork
    BY <2>0, <2>7 DEF ReceiveWork, Msg, flags, history
  <2>8. CASE ReceiveOther
    BY <2>0, <2>8 DEF ReceiveOther, Msg, flags, history
  <2>9. CASE Offer
    BY <2>0, <2>9 DEF Offer, flags, history
  <2>10. CASE AwaitUpdate
    BY <2>0, <2>10 DEF AwaitUpdate, flags, history
  <2>11. CASE SetReady
    BY <2>0, <2>11 DEF SetReady, flags, history
  <2> QED BY <1>2, <2>1, <2>2, <2>3, <2>4, <2>5, <2>6, <2>7, <2>8, <2>9, <2>10, <2>11 DEF Comm
<1>3. CASE \E h \in Heuristics : Heuristic(h)
  <2>0. PICK h \in Heuristics : Heuristic(h)
    BY <1>3
  <2>1. UNCHANGED <<pcM, work_buf, unit, foundNew, req, rep, granted>>
    BY <2>0 DEF Heuristic
  <2>2. CASE HeuStop(h) \/ HeuFound(h) \/ HeuBestReady(h)
    BY <2>1, <2>2 DEF HeuStop, HeuFound, HeuBestReady, flags, history
  <2>3. CASE HeuClaimBest(h)
    BY <2>1, <2>3 DEF HeuClaimBest, ClaimBest, Signal
  <2> QED BY <2>0, <2>2, <2>3 DEF Heuristic
<1>4. CASE Master
  BY <1>4 DEF Master, Grant, Refuse, Msg, Work, flags, history
<1>5. CASE UNCHANGED vars
  BY <1>5 DEF vars, flags, history
<1> QED BY <1>1, <1>2, <1>3, <1>4, <1>5 DEF Next, Stopped

\* The report in the buffer stays that of the current work unit.
LEMMA UnitStep ==
  ASSUME IInv, ~overlap', [Next]_vars PROVE UnitInv'
<1> USE DEF IInv, TypeOK, MessageInv, ClaimInv, UnitInv, Exchange, UsesBuffer, Fills
<1>1. CASE Main
  <2>0. UNCHANGED <<pcH, foundNew, found>>
    BY <1>1 DEF Main
  <2>1. CASE MainTop /\ UNCHANGED <<req, rep, granted>>
    BY <2>0, <2>1 DEF MainTop, flags, history
  <2>2. CASE checkUpdate /\ UNCHANGED <<req, rep, granted>>
    BY <2>0, <2>2 DEF checkUpdate, flags, history
  <2>3. CASE updateWorkUnit /\ UNCHANGED <<req, rep, granted>>
    BY <2>0, <2>3 DEF updateWorkUnit, flags, history
  <2>4. CASE UpdateApplied /\ UNCHANGED <<req, rep, granted>>
    BY <2>0, <2>4 DEF UpdateApplied, flags, history
  <2>5. CASE doWork /\ UNCHANGED <<req, rep, granted>>
    BY <2>0, <2>5 DEF doWork, flags, history
  <2>6. CASE foundNewBest /\ UNCHANGED <<req, rep, granted>>
    BY <2>0, <2>6 DEF foundNewBest, flags, history
  <2>7. CASE MainBestReady /\ UNCHANGED <<req, rep, granted>>
    BY <2>0, <2>7 DEF MainBestReady, flags, history
  <2>8. CASE MainClaimBest /\ UNCHANGED <<req, rep, granted>>
    BY <2>0, <2>8 DEF MainClaimBest, ClaimBest, Signal, flags, history
  <2>9. CASE MainWorkReady /\ UNCHANGED <<req, rep, granted>>
    BY <2>0, <2>9 DEF MainWorkReady, flags, history
  <2>10. CASE getIntervals /\ UNCHANGED <<req, rep, granted>>
    BY <2>0, <2>10 DEF getIntervals, flags, history
  <2>11. CASE MainClaimWork /\ UNCHANGED <<req, rep, granted>>
    BY <2>0, <2>11 DEF MainClaimWork, Signal, flags, history
  <2>12. CASE Confirm
    BY <2>0, <2>12 DEF Confirm, Msg, flags, history
  <2> QED BY <1>1, <2>1, <2>2, <2>3, <2>4, <2>5, <2>6, <2>7, <2>8, <2>9, <2>10, <2>11, <2>12 DEF Main
<1>2. CASE Comm
  <2>0. UNCHANGED <<pcM, pcH, unit, foundNew, found, granted>>
    BY <1>2 DEF Comm
  <2>1. CASE CommTop
    BY <2>0, <2>1 DEF CommTop, flags, history
  <2>2. CASE wait_for_trigger
    BY <2>0, <2>2 DEF wait_for_trigger, flags, history
  <2>3. CASE ClearRequest
    BY <2>0, <2>3 DEF ClearRequest, flags, history
  <2>4. CASE SendWork
    BY <2>0, <2>4 DEF SendWork, Work, flags, history
  <2>5. CASE ClearBest
    BY <2>0, <2>5 DEF ClearBest, flags, history
  <2>6. CASE SendBest
    BY <2>0, <2>6 DEF SendBest, Msg, flags, history
  <2>7. CASE ReceiveWork
    BY <2>0, <2>7 DEF ReceiveWork, Msg, flags, history
  <2>8. CASE ReceiveOther
    BY <2>0, <2>8 DEF ReceiveOther, Msg, flags, history
  <2>9. CASE Offer
    BY <2>0, <2>9 DEF Offer, flags, history
  <2>10. CASE AwaitUpdate
    BY <2>0, <2>10 DEF AwaitUpdate, flags, history
  <2>11. CASE SetReady
    BY <2>0, <2>11 DEF SetReady, flags, history
  <2> QED BY <1>2, <2>1, <2>2, <2>3, <2>4, <2>5, <2>6, <2>7, <2>8, <2>9, <2>10, <2>11 DEF Comm
<1>3. CASE \E h \in Heuristics : Heuristic(h)
  <2>0. PICK h \in Heuristics : Heuristic(h)
    BY <1>3
  <2>1. UNCHANGED <<pcM, work_buf, unit, foundNew, req, rep, granted>>
    BY <2>0 DEF Heuristic
  <2>2. CASE HeuStop(h) \/ HeuFound(h) \/ HeuBestReady(h)
    BY <2>1, <2>2 DEF HeuStop, HeuFound, HeuBestReady, flags, history
  <2>3. CASE HeuClaimBest(h)
    BY <2>1, <2>3 DEF HeuClaimBest, ClaimBest, Signal
  <2> QED BY <2>0, <2>2, <2>3 DEF Heuristic
<1>4. CASE Master
  BY <1>4 DEF Master, Grant, Refuse, Msg, Work, flags, history
<1>5. CASE UNCHANGED vars
  BY <1>5 DEF vars, flags, history
<1> QED BY <1>1, <1>2, <1>3, <1>4, <1>5 DEF Next, Stopped

-----------------------------------------------------------------------------
(* The invariant holds, and what follows from it *)

\* IInv holds when the threads start.
LEMMA InvInit ==
  ASSUME Init PROVE IInv
BY TypeInit DEF Init, IInv, MessageInv, ClaimInv, UnitInv, Exchange, UsesBuffer, Fills, Msg

\* An overlap is never forgotten.
LEMMA OverlapStays ==
  ASSUME TypeOK, [Next]_vars, overlap PROVE overlap'
<1>1. CASE Main
  BY <1>1 DEF Main, MainTop, checkUpdate, updateWorkUnit, UpdateApplied, doWork,
     foundNewBest, MainBestReady, MainClaimBest, ClaimBest, MainWorkReady,
     getIntervals, MainClaimWork, Confirm, history
<1>2. CASE Comm
  BY <1>2 DEF Comm, CommTop, wait_for_trigger, ClearRequest, SendWork, ClearBest,
     SendBest, ReceiveWork, ReceiveOther, Offer, AwaitUpdate, SetReady, history
<1>3. CASE \E h \in Heuristics : Heuristic(h)
  BY <1>3 DEF Heuristic, HeuStop, HeuFound, HeuBestReady, HeuClaimBest, ClaimBest,
     history
<1>4. CASE Master \/ UNCHANGED vars
  BY <1>4 DEF Master, vars, history
<1> QED BY <1>1, <1>2, <1>3, <1>4 DEF Next, Stopped

\* The three lemmas together: IInv is inductive.
LEMMA InvStep ==
  ASSUME IInv, [Next]_vars PROVE IInv'
<1>1. TypeOK' /\ MessageInv'
  BY TypeStep, MessageStep DEF IInv
<1>2. ~overlap' => ClaimInv' /\ UnitInv'
  BY ClaimStep, UnitStep
<1> QED BY <1>1, <1>2 DEF IInv

\* The inductive invariant holds in every state of the worker.
THEOREM Invariant == Spec => []IInv
<1> QED BY InvInit, InvStep, PTL DEF Spec

\* The main loop never fills work_buf while the communication thread uses it,
\* unless exchanges overlapped (tryLaunchCommWork and comm_thread, worker.cpp).
THEOREM BufferIsSafe == Spec => []BufferSafe
<1>1. IInv => BufferSafe
  BY DEF IInv, TypeOK, ClaimInv, BufferSafe, Fills, UsesBuffer
<1> QED BY <1>1, Invariant, PTL

\* Every report that reaches the master is about the work unit it handed out
\* last, unless exchanges overlapped (sendWork and wait_for_update_complete).
THEOREM ReportsAreCurrent == Spec => []ReportsCurrent
<1>1. IInv => ReportsCurrent
  BY DEF IInv, TypeOK, UnitInv, ReportsCurrent
<1> QED BY <1>1, Invariant, PTL

-----------------------------------------------------------------------------
(* A worker without heuristic threads *)

\* Without heuristic threads the communication thread, once seen free, stays
\* so until the main loop claims it.
LEMMA AloneStep ==
  ASSUME IInv, AloneInv, [Next]_vars PROVE AloneInv'
<1> SUFFICES ASSUME Heuristics = {}, ~foundNew'
             PROVE  /\ ~overlap' /\ ~newBest'
                    /\ pcM' \notin {"BestReady?", "ClaimBest"}
                    /\ pcC' \notin {"Best", "SendBest"}
                    /\ pcM' \in Fills => sendRequestReady'
  BY DEF AloneInv
<1>0. foundNew' = foundNew
  BY DEF Next, Main, Comm, Heuristic, Master, Stopped, vars
<1> USE <1>0 DEF AloneInv, IInv, TypeOK, ClaimInv, Fills
<1>1. CASE Main
  <2>1. CASE MainTop \/ checkUpdate \/ updateWorkUnit \/ UpdateApplied \/ doWork
             \/ foundNewBest \/ getIntervals \/ Confirm
    BY <2>1 DEF MainTop, checkUpdate, updateWorkUnit, UpdateApplied, doWork,
       foundNewBest, getIntervals, Confirm, flags, history
  <2>2. CASE MainBestReady \/ MainClaimBest
    BY <2>2 DEF MainBestReady, MainClaimBest
  <2>3. CASE MainWorkReady
    <3>1. UNCHANGED <<pcC, newBest, sendRequestReady, overlap>>
      BY <2>3 DEF MainWorkReady, flags, history
    <3>2. pcM' = IF sendRequestReady THEN "getIntervals" ELSE "Top"
      BY <2>3 DEF MainWorkReady
    <3> QED BY <3>1, <3>2
  <2>4. CASE MainClaimWork
    BY <2>4 DEF MainClaimWork, Signal, flags, history
  <2> QED BY <1>1, <2>1, <2>2, <2>3, <2>4 DEF Main
<1>2. CASE Comm
  <2>0. UNCHANGED pcM
    BY <1>2 DEF Comm
  <2>1. CASE CommTop \/ wait_for_trigger \/ ClearRequest \/ SendWork
    BY <2>0, <2>1 DEF CommTop, wait_for_trigger, ClearRequest, SendWork, flags, history
  <2>2. CASE ClearBest \/ SendBest \/ ReceiveWork \/ ReceiveOther
    BY <2>0, <2>2 DEF ClearBest, SendBest, ReceiveWork, ReceiveOther, flags, history
  <2>3. CASE Offer \/ AwaitUpdate \/ SetReady
    BY <2>0, <2>3 DEF Offer, AwaitUpdate, SetReady, flags, history
  <2> QED BY <1>2, <2>1, <2>2, <2>3 DEF Comm
<1>3. CASE Master \/ UNCHANGED vars
  BY <1>3 DEF Master, vars, flags, history
<1> QED BY <1>1, <1>2, <1>3 DEF Next, Stopped

\* Without heuristic threads, and if the flag that nothing initialises is not
\* set (matrix_controller::foundNew), the exchanges of a worker never overlap:
\* for it the two properties above hold without their escape.
THEOREM AloneNeverOverlaps ==
  Spec => [](Heuristics = {} /\ ~foundNew =>
               ~overlap
               /\ (pcM \in Fills => pcC \notin UsesBuffer)
               /\ (req.tag = "WORK" => req.u = granted))
<1> DEFINE Safe == Heuristics = {} /\ ~foundNew =>
                     ~overlap
                     /\ (pcM \in Fills => pcC \notin UsesBuffer)
                     /\ (req.tag = "WORK" => req.u = granted)
<1>1. Init => AloneInv
  BY DEF Init, AloneInv, Fills
<1>2. IInv /\ AloneInv => Safe
  BY DEF IInv, AloneInv, ClaimInv, UnitInv
<1> HIDE DEF Safe
<1>3. IInv /\ AloneInv /\ [Next]_vars => AloneInv'
  BY AloneStep
<1>4. Spec => []Safe
  BY <1>1, <1>2, <1>3, Invariant, PTL DEF Spec
<1> QED BY <1>4 DEF Safe
=============================================================================
