------------------------------- MODULE Worker -------------------------------
(***************************************************************************)
(* One worker of the distributed search (distributed/src/worker.cpp): its  *)
(* main loop, its communication thread and its heuristic threads, which    *)
(* share one buffer for work units (work_buf) and five flags.              *)
(*                                                                         *)
(* A thread that wants an exchange with the master asks whether the        *)
(* communication thread is free and in a second critical section claims it.*)
(* overlap and withdrawn record the two ways in which this goes wrong; the *)
(* properties say that nothing else does.                                  *)
(*                                                                         *)
(* Work units are numbers, the master being any that hands out new ones,   *)
(* says that nothing changed or stops the worker (module Dist has the      *)
(* pool). A race on the buffer leaves the one or the other value.          *)
(***************************************************************************)
EXTENDS Naturals

CONSTANTS
  Heuristics,  \* the heuristic threads
  MaxUnits,    \* bound: work units the master hands out
  MaxFound     \* bound: improvements that heuristic threads find

ASSUME WorkerAssumption == MaxUnits \in Nat /\ MaxFound \in Nat

VARIABLES
  pcM, pcC, pcH,    \* next step of main loop, communication and heuristics
  sendRequest,      \* worker::sendRequest
  sendRequestReady, \* worker::sendRequestReady
  newBest,          \* worker::newBest
  updateAvailable,  \* worker::updateAvailable
  end,              \* worker::end
  work_buf,         \* worker::work_buf
  unit,             \* the work unit that the threads explore
  foundNew,         \* matrix_controller::foundNew, which nothing initialises
  found,            \* improvements found so far
  req, rep,         \* messages to and from the master
  granted,          \* the last work unit handed out
  overlap,          \* an exchange was begun without being claimed, or twice
  withdrawn         \* a claim was taken back before its exchange

flags == <<sendRequest, sendRequestReady, newBest, updateAvailable, end>>
history == <<overlap, withdrawn>>
vars == <<pcM, pcC, pcH, flags, work_buf, unit, foundNew, found, req, rep,
          granted, history>>

Units == 0 .. MaxUnits
Buffer == [tag : {"report", "update"}, u : Units]
Message == [tag : {"none", "WORK", "BEST", "NIL", "END"}, u : Units]
Msg(tag) == [tag |-> tag, u |-> 0]
Work(k) == [tag |-> "WORK", u |-> k]

\* After the barrier of run; the worker has no work unit (number 0).
Init ==
  /\ pcM = "Top" /\ pcC = "Top" /\ pcH = [h \in Heuristics |-> "Search"]
  /\ sendRequest = FALSE /\ sendRequestReady = TRUE /\ newBest = FALSE
  /\ updateAvailable = FALSE /\ end = FALSE
  /\ work_buf = [tag |-> "report", u |-> 0]
  /\ unit = 0 /\ granted = 0 /\ found = 0
  /\ foundNew \in BOOLEAN
  /\ req = Msg("none") /\ rep = Msg("none")
  /\ overlap = FALSE /\ withdrawn = FALSE

-----------------------------------------------------------------------------
(* Critical sections that several threads run *)

\* pthread_cond_signal(&cond_trigger)
Signal == pcC' = IF pcC = "Asleep" THEN "Trigger" ELSE pcC

\* tryLaunchCommBest, second part
ClaimBest ==
  /\ sendRequestReady' = FALSE
  /\ newBest' = TRUE
  /\ overlap' = (overlap \/ ~sendRequestReady)
  /\ Signal
  /\ UNCHANGED <<sendRequest, updateAvailable, end, withdrawn>>

-----------------------------------------------------------------------------
(* worker::run, the main loop *)

\* Mutant: the end is not looked at.
MainTopAlways ==
  /\ pcM = "Top"
  /\ pcM' = "Update?"
  /\ UNCHANGED <<pcC, flags, work_buf, unit, history>>
MainTop ==
  /\ pcM = "Top"
  /\ pcM' = IF end THEN "Join" ELSE "Update?"
  /\ UNCHANGED <<pcC, flags, work_buf, unit, history>>

checkUpdate ==
  /\ pcM = "Update?"
  /\ pcM' = IF updateAvailable THEN "Update" ELSE "Work"
  /\ UNCHANGED <<pcC, flags, work_buf, unit, history>>

\* Mutant: the number of the work unit is off by one.
updateNextUnit ==
  /\ pcM = "Update"
  /\ unit' = work_buf.u + 1
  /\ pcM' = "Updated"
  /\ UNCHANGED <<pcC, flags, work_buf, history>>
\* The threads are given what the buffer holds by now ...
updateWorkUnit ==
  /\ pcM = "Update"
  /\ unit' = work_buf.u
  /\ pcM' = "Updated"
  /\ UNCHANGED <<pcC, flags, work_buf, history>>

\* ... and the communication thread goes on.
UpdateApplied ==
  /\ pcM = "Updated"
  /\ updateAvailable' = FALSE
  /\ pcM' = "Work"
  /\ UNCHANGED <<pcC, sendRequest, sendRequestReady, newBest, end, work_buf,
                 unit, history>>

\* One round of exploration, after which newBest is overwritten.
doWork ==
  /\ pcM = "Work"
  /\ newBest' = foundNew
  /\ withdrawn' = (withdrawn \/ (newBest /\ ~foundNew))
  /\ pcM' = "Best?"
  /\ UNCHANGED <<pcC, sendRequest, sendRequestReady, updateAvailable, end,
                 work_buf, unit, overlap>>

foundNewBest ==
  /\ pcM = "Best?"
  /\ pcM' = IF newBest THEN "BestReady?" ELSE "WorkReady?"
  /\ UNCHANGED <<pcC, flags, work_buf, unit, history>>

MainBestReady ==
  /\ pcM = "BestReady?"
  /\ pcM' = IF sendRequestReady THEN "ClaimBest" ELSE "WorkReady?"
  /\ UNCHANGED <<pcC, flags, work_buf, unit, history>>

MainClaimBest ==
  /\ pcM = "ClaimBest"
  /\ ClaimBest
  /\ pcM' = "WorkReady?"
  /\ UNCHANGED <<work_buf, unit>>

\* Mutant: the buffer is filled whoever uses it.
MainWorkUnasked ==
  /\ pcM = "WorkReady?"
  /\ pcM' = "getIntervals"
  /\ UNCHANGED <<pcC, flags, work_buf, unit, history>>
\* tryLaunchCommWork: if the communication thread is free, fill the buffer
\* and claim the thread.  allEnd is always set: every round ends with it.
MainWorkReady ==
  /\ pcM = "WorkReady?"
  /\ pcM' = IF sendRequestReady THEN "getIntervals" ELSE "Top"
  /\ UNCHANGED <<pcC, flags, work_buf, unit, history>>

getIntervals ==
  /\ pcM = "getIntervals"
  /\ work_buf' = [tag |-> "report", u |-> unit]
  /\ pcM' = "ClaimWork"
  /\ UNCHANGED <<pcC, flags, unit, history>>

MainClaimWork ==
  /\ pcM = "ClaimWork"
  /\ sendRequestReady' = FALSE
  /\ sendRequest' = TRUE
  /\ overlap' = (overlap \/ ~sendRequestReady)
  /\ Signal
  /\ pcM' = "Top"
  /\ UNCHANGED <<newBest, updateAvailable, end, work_buf, unit, withdrawn>>

\* The communication thread is joined and the end confirmed.
Confirm ==
  /\ pcM = "Join" /\ pcC = "Exit"
  /\ pcM' = "Done"
  /\ req' = Msg("END")
  /\ UNCHANGED <<pcC, flags, work_buf, unit, history, rep, granted>>

Main ==
  /\ \/ /\ \/ MainTop \/ checkUpdate \/ updateWorkUnit \/ UpdateApplied \/ doWork
           \/ foundNewBest \/ MainBestReady \/ MainClaimBest
           \/ MainWorkReady \/ getIntervals \/ MainClaimWork
        /\ UNCHANGED <<req, rep, granted>>
     \/ Confirm
  /\ UNCHANGED <<pcH, foundNew, found>>

-----------------------------------------------------------------------------
(* comm_thread *)

CommTop ==
  /\ pcC = "Top"
  /\ pcC' = IF end THEN "Exit" ELSE "Trigger"
  /\ UNCHANGED <<flags, work_buf, req, rep, history>>

\* wait_for_trigger: a work unit goes first; setNewBest wakes nobody.
wait_for_trigger ==
  /\ pcC = "Trigger"
  /\ pcC' = IF sendRequest THEN "Work" ELSE IF newBest THEN "Best" ELSE "Asleep"
  /\ overlap' = (overlap \/ ((sendRequest \/ newBest) /\ sendRequestReady))
  /\ UNCHANGED <<flags, work_buf, req, rep, withdrawn>>

ClearRequest ==
  /\ pcC = "Work"
  /\ sendRequest' = FALSE
  /\ pcC' = "fact2dec"
  /\ UNCHANGED <<sendRequestReady, newBest, updateAvailable, end, work_buf, req,
                 rep, history>>

\* The report is made from the buffer and sent.
SendWork ==
  /\ pcC = "fact2dec"
  /\ req' = Work(work_buf.u)
  /\ pcC' = "Receive"
  /\ UNCHANGED <<flags, work_buf, rep, history>>

ClearBest ==
  /\ pcC = "Best"
  /\ newBest' = FALSE
  /\ pcC' = "SendBest"
  /\ UNCHANGED <<sendRequest, sendRequestReady, updateAvailable, end, work_buf,
                 req, rep, history>>

SendBest ==
  /\ pcC = "SendBest"
  /\ req' = Msg("BEST")
  /\ pcC' = "Receive"
  /\ UNCHANGED <<flags, work_buf, rep, history>>

ReceiveWork ==
  /\ pcC = "Receive" /\ rep.tag = "WORK"
  /\ work_buf' = [tag |-> "update", u |-> rep.u]
  /\ rep' = Msg("none")
  /\ pcC' = "Offer"
  /\ UNCHANGED <<flags, req, history>>

\* NIL and BEST only bring the best solution of the master.
ReceiveOther ==
  /\ pcC = "Receive" /\ rep.tag \in {"NIL", "BEST", "END"}
  /\ end' = (end \/ rep.tag = "END")
  /\ rep' = Msg("none")
  /\ pcC' = "Ready"
  /\ UNCHANGED <<sendRequest, sendRequestReady, newBest, updateAvailable,
                 work_buf, req, history>>

\* Mutant: it is not waited for.
OfferOnly ==
  /\ pcC = "Offer"
  /\ updateAvailable' = TRUE
  /\ pcC' = "Ready"
  /\ UNCHANGED <<sendRequest, sendRequestReady, newBest, end, work_buf, req, rep,
                 history>>
\* wait_for_update_complete
Offer ==
  /\ pcC = "Offer"
  /\ updateAvailable' = TRUE
  /\ pcC' = "AwaitUpdate"
  /\ UNCHANGED <<sendRequest, sendRequestReady, newBest, end, work_buf, req, rep,
                 history>>

AwaitUpdate ==
  /\ pcC = "AwaitUpdate" /\ ~updateAvailable
  /\ pcC' = "Ready"
  /\ UNCHANGED <<flags, work_buf, req, rep, history>>

\* Mutant: the flag is set only after a work unit.
SetReadySometimes ==
  /\ pcC = "Ready"
  /\ sendRequestReady' = (work_buf.tag = "update")
  /\ pcC' = "Top"
  /\ UNCHANGED <<sendRequest, newBest, updateAvailable, end, work_buf, req, rep,
                 history>>
\* "can handle new request now... work buffer can be reused!!!"
SetReady ==
  /\ pcC = "Ready"
  /\ sendRequestReady' = TRUE
  /\ pcC' = "Top"
  /\ UNCHANGED <<sendRequest, newBest, updateAvailable, end, work_buf, req, rep,
                 history>>

Comm ==
  /\ \/ CommTop \/ wait_for_trigger \/ ClearRequest \/ SendWork \/ ClearBest
     \/ SendBest \/ ReceiveWork \/ ReceiveOther \/ Offer \/ AwaitUpdate \/ SetReady
  /\ UNCHANGED <<pcM, pcH, unit, foundNew, found, granted>>

-----------------------------------------------------------------------------
(* heu_thread2 *)

HeuStop(h) ==
  /\ pcH[h] = "Search" /\ end
  /\ pcH' = [pcH EXCEPT ![h] = "Done"]
  /\ UNCHANGED <<pcC, flags, found, history>>

\* A search that finds something better than the best solution.
HeuFound(h) ==
  /\ pcH[h] = "Search" /\ ~end
  /\ found < MaxFound
  /\ found' = found + 1
  /\ pcH' = [pcH EXCEPT ![h] = "BestReady?"]
  /\ UNCHANGED <<pcC, flags, history>>

\* If the communication thread is busy the improvement stays here.
HeuBestReady(h) ==
  /\ pcH[h] = "BestReady?"
  /\ pcH' = [pcH EXCEPT ![h] = IF sendRequestReady THEN "ClaimBest" ELSE "Search"]
  /\ UNCHANGED <<pcC, flags, found, history>>

HeuClaimBest(h) ==
  /\ pcH[h] = "ClaimBest"
  /\ ClaimBest
  /\ pcH' = [pcH EXCEPT ![h] = "Search"]
  /\ UNCHANGED found

Heuristic(h) ==
  /\ HeuStop(h) \/ HeuFound(h) \/ HeuBestReady(h) \/ HeuClaimBest(h)
  /\ UNCHANGED <<pcM, work_buf, unit, foundNew, req, rep, granted>>

-----------------------------------------------------------------------------
(* The master, seen from here: one answer for every request *)

Grant ==
  /\ req.tag = "WORK" /\ granted < MaxUnits
  /\ granted' = granted + 1
  /\ rep' = Work(granted')

Refuse ==
  /\ \/ req.tag = "WORK" /\ rep' \in {Msg("NIL"), Msg("END")}
     \/ req.tag = "BEST" /\ rep' \in {Msg("BEST"), Msg("END")}
  /\ UNCHANGED granted

Master ==
  /\ Grant \/ Refuse
  /\ req' = Msg("none")
  /\ UNCHANGED <<pcM, pcC, pcH, flags, work_buf, unit, foundNew, found, history>>

\* Main and communication thread are gone; the heuristic ones are detached.
Stopped == pcM = "Done" /\ UNCHANGED vars

Next == Main \/ Comm \/ (\E h \in Heuristics : Heuristic(h)) \/ Master \/ Stopped

\* Every thread is scheduled and the master answers.
Fairness ==
  /\ WF_vars(Main) /\ WF_vars(Comm) /\ WF_vars(Master)
  /\ \A h \in Heuristics : WF_vars(Heuristic(h))

Spec == Init /\ [][Next]_vars /\ Fairness

-----------------------------------------------------------------------------
(* Properties *)

MainSteps == {"Top", "Update?", "Update", "Updated", "Work", "Best?", "BestReady?",
              "ClaimBest", "WorkReady?", "getIntervals", "ClaimWork", "Join", "Done"}
CommSteps == {"Top", "Trigger", "Asleep", "Work", "fact2dec", "Best", "SendBest",
              "Receive", "Offer", "AwaitUpdate", "Ready", "Exit"}
HeuSteps == {"Search", "BestReady?", "ClaimBest", "Done"}

\* The type of the flags, of the buffer and of the messages.
TypeOK ==
  /\ pcM \in MainSteps /\ pcC \in CommSteps
  /\ pcH \in [Heuristics -> HeuSteps]
  /\ sendRequest \in BOOLEAN /\ sendRequestReady \in BOOLEAN /\ newBest \in BOOLEAN
  /\ updateAvailable \in BOOLEAN /\ end \in BOOLEAN /\ foundNew \in BOOLEAN
  /\ overlap \in BOOLEAN /\ withdrawn \in BOOLEAN
  /\ work_buf \in Buffer /\ unit \in Units /\ granted \in Units
  /\ found \in 0 .. MaxFound
  /\ req \in Message /\ rep \in Message

\* The main loop fills the buffer only while the communication thread neither
\* reads a report from it nor has an update in it that was not applied, unless
\* exchanges overlapped: worker.cpp says at line 241 that "work buffer can be
\* reused" when the flag is set.
BufferSafe ==
  pcM \in {"getIntervals", "ClaimWork"} =>
    overlap \/ ~(pcC \in {"Work", "fact2dec", "Offer", "AwaitUpdate"})

\* The communication thread reports what the master handed out last: no report
\* of an old work unit reaches the master after a new one, which it would take
\* for what is left of the new one, and no unit is dropped.
ReportsCurrent == req.tag = "WORK" => overlap \/ req.u = granted

\* The worker goes on reporting, unless it was stopped or an improvement of a
\* heuristic thread was overwritten by doWork before the communication thread
\* saw it (then it sleeps and nobody claims it again), if doWork finds no new
\* best itself (if it does, reports can be starved by best solutions).
KeepsReporting ==
  foundNew \/ []<>(req.tag = "WORK" \/ withdrawn \/ pcM = "Done")

\* A worker that received END leaves its loop and confirms.
EndConfirmed == end ~> pcM = "Done"
=============================================================================
