------------------------- MODULE JobLifecycleBaseProofs -------------------------
(***************************************************************************)
(* What JobLifecycle does for every set of jobs, workers and handlers,     *)
(* every timeout and poll interval and every combination of faults:        *)
(* the types, the bounds on the wait, that a cancel flagged in time keeps  *)
(* a job from running, that runs advance, and that the callback of a run   *)
(* is the one Delivery describes.  JobLifecycleProofs builds on this.      *)
(***************************************************************************)
EXTENDS JobLifecycle, TLAPS

--------------------------------------------------------------------------------
(* The inductive invariant. *)

BeforeWait == {"idle", "begin", "refused", "claim", "launch"}

(* A run is one that RQ handed out; until it is launched it has no container. *)
StageInv(j) ==
  /\ (rq[j] \in {"started", "finished"}) <=> (pc[j] # "idle")
  /\ pc[j] \in BeforeWait => container[j] = "none"

(* A payload was read by a run that came to send it, and the verdict is the  *)
(* last of it.                                                              *)
SendInv(j) ==
  /\ payload[j] # Blank => /\ pc[j] \in {"post", "prune", "done", "dead"}
                           /\ callback_status[j] # "blocked"
  /\ callback_status[j] # "none" => pc[j] \in {"prune", "done", "dead"}

(* The wait. *)
WaitInv(j) ==
  /\ elapsed[j] < Timeout + PollInterval
  /\ pc[j] \in BeforeWait => elapsed[j] = 0
  /\ pc[j] \in {"wait", "recheck"} => elapsed[j] < Timeout
  /\ cancel_requested[j] => elapsed[j] <= flaggedAt[j] + PollInterval
  /\ cancel_requested[j] /\ pc[j] \in BeforeWait \cup {"wait"} => elapsed[j] <= flaggedAt[j]

BInv == TypeOK /\ \A j \in Job : StageInv(j) /\ SendInv(j) /\ WaitInv(j)

(* The invariant holds at the start. *)
LEMMA BaseInit == Init => BInv
<1>. SUFFICES ASSUME Init PROVE BInv
  OBVIOUS
<1>1. TypeOK
  BY MembersAssumption DEF Init, TypeOK, Status, Payload, Blank, Idle
<1>2. ASSUME NEW j \in Job PROVE StageInv(j) /\ SendInv(j) /\ WaitInv(j)
  BY TimeAssumption DEF Init, StageInv, SendInv, WaitInv, BeforeWait
<1>. QED BY <1>1, <1>2 DEF BInv

--------------------------------------------------------------------------------
(* One lemma per action: it keeps the invariant. *)

(* Record. *)
LEMMA RecordBase == ASSUME BInv, NEW j \in Job, Record(j) PROVE BInv'
<1>1. TypeOK'
  BY DEF BInv, TypeOK, Status, TERMINAL_STATUSES, Record, SetStatus, marks, run, sandbox,
         post, api
<1>2. \A i \in Job : StageInv(i)' /\ SendInv(i)' /\ WaitInv(i)'
  BY TimeAssumption DEF BInv, TypeOK, StageInv, SendInv, WaitInv, BeforeWait, Record, SetStatus,
         marks, run, sandbox, post, api
<1>. QED BY <1>1, <1>2 DEF BInv

(* Enqueue. *)
LEMMA EnqueueBase == ASSUME BInv, NEW j \in Job, Enqueue(j) PROVE BInv'
<1>1. TypeOK'
  BY DEF BInv, TypeOK, Enqueue, record, marks, run, sandbox, post, api
<1>2. \A i \in Job : StageInv(i)' /\ SendInv(i)' /\ WaitInv(i)'
  BY TimeAssumption DEF BInv, TypeOK, StageInv, SendInv, WaitInv, BeforeWait, Enqueue, record,
         marks, run, sandbox, post, api
<1>. QED BY <1>1, <1>2 DEF BInv

(* ApiDies. *)
LEMMA ApiDiesBase == ASSUME BInv, NEW j \in Job, ApiDies(j) PROVE BInv'
<1>1. TypeOK'
  BY DEF BInv, TypeOK, ApiDies, record, marks, run, sandbox, post, api
<1>2. \A i \in Job : StageInv(i)' /\ SendInv(i)' /\ WaitInv(i)'
  BY TimeAssumption DEF BInv, TypeOK, StageInv, SendInv, WaitInv, BeforeWait, ApiDies, record,
         marks, run, sandbox, post, api
<1>. QED BY <1>1, <1>2 DEF BInv

(* CancelLoad. *)
LEMMA CancelLoadBase == ASSUME BInv, NEW h \in Handler, NEW j \in Job, CancelLoad(h, j) PROVE BInv'
<1>1. TypeOK'
  BY DEF BInv, TypeOK, Status, CancelLoad, record, marks, queue, run, sandbox, post
<1>2. \A i \in Job : StageInv(i)' /\ SendInv(i)' /\ WaitInv(i)'
  BY TimeAssumption DEF BInv, TypeOK, StageInv, SendInv, WaitInv, BeforeWait, CancelLoad, record,
         marks, queue, run, sandbox, post
<1>. QED BY <1>1, <1>2 DEF BInv

(* CancelFlag. *)
LEMMA CancelFlagBase == ASSUME BInv, NEW h \in Handler, NEW j \in Job, CancelFlag(h, j) PROVE BInv'
<1>1. TypeOK'
  BY DEF BInv, TypeOK, Status, CancelFlag, Idle, queue, run, sandbox, post
<1>2. \A i \in Job : StageInv(i)' /\ SendInv(i)' /\ WaitInv(i)'
  BY TimeAssumption DEF BInv, TypeOK, StageInv, SendInv, WaitInv, BeforeWait, CancelFlag, Idle,
         queue, run, sandbox, post
<1>. QED BY <1>1, <1>2 DEF BInv

(* RqCancel. *)
LEMMA RqCancelBase == ASSUME BInv, NEW h \in Handler, NEW j \in Job, RqCancel(h, j) PROVE BInv'
<1>1. TypeOK'
  BY DEF BInv, TypeOK, RqCancel, RqCancels, record, marks, run, sandbox, post
<1>2. \A i \in Job : StageInv(i)' /\ SendInv(i)' /\ WaitInv(i)'
  BY TimeAssumption DEF BInv, TypeOK, StageInv, SendInv, WaitInv, BeforeWait, RqCancel, RqCancels,
         record, marks, run, sandbox, post
<1>. QED BY <1>1, <1>2 DEF BInv

(* RqRefuses. *)
LEMMA RqRefusesBase == ASSUME BInv, NEW h \in Handler, NEW j \in Job, RqRefuses(h, j) PROVE BInv'
<1>1. TypeOK'
  BY DEF BInv, TypeOK, Status, RqRefuses, Idle, record, marks, queue, run, sandbox, post
<1>2. \A i \in Job : StageInv(i)' /\ SendInv(i)' /\ WaitInv(i)'
  BY TimeAssumption DEF BInv, TypeOK, StageInv, SendInv, WaitInv, BeforeWait, RqRefuses, Idle,
         record, marks, queue, run, sandbox, post
<1>. QED BY <1>1, <1>2 DEF BInv

(* CancelWrite. *)
LEMMA CancelWriteBase ==
  ASSUME BInv, NEW h \in Handler, NEW j \in Job, CancelWrite(h, j) PROVE BInv'
<1>1. TypeOK'
  BY DEF BInv, TypeOK, Status, TERMINAL_STATUSES, CancelWrite, SetStatus, Idle, marks,
         queue, run, sandbox, post
<1>2. \A i \in Job : StageInv(i)' /\ SendInv(i)' /\ WaitInv(i)'
  BY TimeAssumption DEF BInv, TypeOK, StageInv, SendInv, WaitInv, BeforeWait, CancelWrite,
         SetStatus, Idle, marks, queue, run, sandbox, post
<1>. QED BY <1>1, <1>2 DEF BInv

(* CancelDies. *)
LEMMA CancelDiesBase == ASSUME BInv, NEW h \in Handler, CancelDies(h) PROVE BInv'
<1>1. TypeOK'
  BY DEF BInv, TypeOK, Status, CancelDies, Idle, record, marks, queue, run, sandbox, post
<1>2. \A i \in Job : StageInv(i)' /\ SendInv(i)' /\ WaitInv(i)'
  BY TimeAssumption DEF BInv, TypeOK, StageInv, SendInv, WaitInv, BeforeWait, CancelDies, Idle,
         record, marks, queue, run, sandbox, post
<1>. QED BY <1>1, <1>2 DEF BInv

(* Take. *)
LEMMA TakeBase == ASSUME BInv, NEW w \in Worker, NEW j \in Job, Take(w, j) PROVE BInv'
<1>1. TypeOK'
  BY DEF BInv, TypeOK, Take, Goto, Drains, record, marks, run, sandbox, post, api
<1>2. \A i \in Job : StageInv(i)' /\ SendInv(i)' /\ WaitInv(i)'
  BY TimeAssumption DEF BInv, TypeOK, StageInv, SendInv, WaitInv, BeforeWait, Take, Goto, Drains,
         record, marks, run, sandbox, post, api
<1>. QED BY <1>1, <1>2 DEF BInv

(* Begin. *)
LEMMA BeginBase == ASSUME BInv, NEW w \in Worker, NEW j \in Job, Begin(w, j) PROVE BInv'
<1>1. TypeOK'
  BY DEF BInv, TypeOK, Status, TERMINAL_STATUSES, Begin, SetStatus, Goto, PreRunCheck,
         marks, queue, run, sandbox, post, api
<1>2. \A i \in Job : StageInv(i)' /\ SendInv(i)' /\ WaitInv(i)'
  BY TimeAssumption DEF BInv, TypeOK, StageInv, SendInv, WaitInv, BeforeWait, Begin, SetStatus,
         Goto, PreRunCheck, marks, queue, run, sandbox, post, api
<1>. QED BY <1>1, <1>2 DEF BInv

(* Refuse. *)
LEMMA RefuseBase == ASSUME BInv, NEW j \in Job, Refuse(j) PROVE BInv'
<1>1. TypeOK'
  BY DEF BInv, TypeOK, Status, TERMINAL_STATUSES, Refuse, SetStatus, Goto, marks, queue,
         run, sandbox, post, api
<1>2. \A i \in Job : StageInv(i)' /\ SendInv(i)' /\ WaitInv(i)'
  BY TimeAssumption DEF BInv, TypeOK, StageInv, SendInv, WaitInv, BeforeWait, Refuse, SetStatus,
         Goto, marks, queue, run, sandbox, post, api
<1>. QED BY <1>1, <1>2 DEF BInv

(* Claim. *)
LEMMA ClaimBase == ASSUME BInv, NEW j \in Job, Claim(j) PROVE BInv'
<1>1. TypeOK'
  BY DEF BInv, TypeOK, Status, TERMINAL_STATUSES, Claim, SetStatus, Goto, marks, queue,
         run, sandbox, post, api
<1>2. \A i \in Job : StageInv(i)' /\ SendInv(i)' /\ WaitInv(i)'
  BY TimeAssumption DEF BInv, TypeOK, StageInv, SendInv, WaitInv, BeforeWait, Claim, SetStatus,
         Goto, marks, queue, run, sandbox, post, api
<1>. QED BY <1>1, <1>2 DEF BInv

(* Launch. *)
LEMMA LaunchBase == ASSUME BInv, NEW j \in Job, Launch(j) PROVE BInv'
<1>1. TypeOK'
  BY DEF BInv, TypeOK, Launch, Goto, record, marks, queue, run, post, api
<1>2. \A i \in Job : StageInv(i)' /\ SendInv(i)' /\ WaitInv(i)'
  BY TimeAssumption DEF BInv, TypeOK, StageInv, SendInv, WaitInv, BeforeWait, Launch, Goto,
         record, marks, queue, run, post, api
<1>. QED BY <1>1, <1>2 DEF BInv

(* ImageMissing. *)
LEMMA ImageMissingBase == ASSUME BInv, NEW j \in Job, ImageMissing(j) PROVE BInv'
<1>1. TypeOK'
  BY DEF BInv, TypeOK, Status, TERMINAL_STATUSES, ImageMissing, SetStatus, Goto, marks,
         queue, run, sandbox, post, api
<1>2. \A i \in Job : StageInv(i)' /\ SendInv(i)' /\ WaitInv(i)'
  BY TimeAssumption DEF BInv, TypeOK, StageInv, SendInv, WaitInv, BeforeWait, ImageMissing,
         SetStatus, Goto, marks, queue, run, sandbox, post, api
<1>. QED BY <1>1, <1>2 DEF BInv

(* LaunchFails. *)
LEMMA LaunchFailsBase == ASSUME BInv, NEW j \in Job, LaunchFails(j) PROVE BInv'
<1>1. TypeOK'
  BY DEF BInv, TypeOK, LaunchFails, Raise, Goto, EndsBy, record, marks, queue, post, api
<1>2. \A i \in Job : StageInv(i)' /\ SendInv(i)' /\ WaitInv(i)'
  BY TimeAssumption DEF BInv, TypeOK, StageInv, SendInv, WaitInv, BeforeWait, LaunchFails, Raise,
         Goto, EndsBy, record, marks, queue, post, api
<1>. QED BY <1>1, <1>2 DEF BInv

(* ContainerExits. *)
LEMMA ContainerExitsBase == ASSUME BInv, NEW j \in Job, ContainerExits(j) PROVE BInv'
<1>1. TypeOK'
  BY DEF BInv, TypeOK, ContainerExits, record, marks, queue, run, post, api
<1>2. \A i \in Job : StageInv(i)' /\ SendInv(i)' /\ WaitInv(i)'
  BY TimeAssumption DEF BInv, TypeOK, StageInv, SendInv, WaitInv, BeforeWait, ContainerExits,
         record, marks, queue, run, post, api
<1>. QED BY <1>1, <1>2 DEF BInv

(* WaitReturns. *)
LEMMA WaitReturnsBase == ASSUME BInv, NEW j \in Job, WaitReturns(j) PROVE BInv'
<1>1. TypeOK'
  BY DEF BInv, TypeOK, WaitReturns, Goto, EndsBy, record, marks, queue, sandbox, post, api
<1>2. \A i \in Job : StageInv(i)' /\ SendInv(i)' /\ WaitInv(i)'
  BY TimeAssumption DEF BInv, TypeOK, StageInv, SendInv, WaitInv, BeforeWait, WaitReturns, Goto,
         EndsBy, record, marks, queue, sandbox, post, api
<1>. QED BY <1>1, <1>2 DEF BInv

(* WaitTimesOut. *)
LEMMA WaitTimesOutBase == ASSUME BInv, NEW j \in Job, WaitTimesOut(j) PROVE BInv'
<1>1. TypeOK'
  BY TimeAssumption DEF BInv, TypeOK, WaitTimesOut, Goto, EndsBy, NextElapsed, TimedOut,
         record, marks, queue, sandbox, post, api
<1>2. \A i \in Job : StageInv(i)' /\ SendInv(i)' /\ WaitInv(i)'
  BY TimeAssumption DEF BInv, TypeOK, StageInv, SendInv, WaitInv, BeforeWait, WaitTimesOut, Goto,
         EndsBy, NextElapsed, TimedOut, record, marks, queue, sandbox, post, api
<1>. QED BY <1>1, <1>2 DEF BInv

(* WaitFails. *)
LEMMA WaitFailsBase == ASSUME BInv, NEW j \in Job, WaitFails(j) PROVE BInv'
<1>1. TypeOK'
  BY DEF BInv, TypeOK, WaitFails, Raise, Goto, EndsBy, record, marks, queue, sandbox,
         post, api
<1>2. \A i \in Job : StageInv(i)' /\ SendInv(i)' /\ WaitInv(i)'
  BY TimeAssumption DEF BInv, TypeOK, StageInv, SendInv, WaitInv, BeforeWait, WaitFails, Raise,
         Goto, EndsBy, record, marks, queue, sandbox, post, api
<1>. QED BY <1>1, <1>2 DEF BInv

(* Recheck. *)
LEMMA RecheckBase == ASSUME BInv, NEW j \in Job, Recheck(j) PROVE BInv'
<1>1. TypeOK'
  <2>. TypeOK
    BY DEF BInv
  <2>1. \/ pc' = [pc EXCEPT ![j] = "kill"] /\ ending' = [ending EXCEPT ![j] = "cancel"]
        \/ pc' = [pc EXCEPT ![j] = "wait"] /\ ending' = ending
    BY DEF Recheck, Goto, EndsBy
  <2>2. UNCHANGED <<record, queue, elapsed, sandbox, zip, post, api>>
    BY DEF Recheck
  <2>. QED BY <2>1, <2>2 DEF TypeOK, record, marks, queue, sandbox, post, api
<1>2. \A i \in Job : StageInv(i)' /\ SendInv(i)' /\ WaitInv(i)'
  BY TimeAssumption DEF BInv, TypeOK, StageInv, SendInv, WaitInv, BeforeWait, Recheck, Goto,
         EndsBy, CancelSeen, record, marks, queue, sandbox, post, api
<1>. QED BY <1>1, <1>2 DEF BInv

(* Kill. *)
LEMMA KillBase == ASSUME BInv, NEW j \in Job, Kill(j) PROVE BInv'
<1>1. TypeOK'
  BY DEF BInv, TypeOK, Kill, Goto, record, marks, queue, run, post, api
<1>2. \A i \in Job : StageInv(i)' /\ SendInv(i)' /\ WaitInv(i)'
  BY TimeAssumption DEF BInv, TypeOK, StageInv, SendInv, WaitInv, BeforeWait, Kill, Goto, record,
         marks, queue, run, post, api
<1>. QED BY <1>1, <1>2 DEF BInv

(* KillRaises. *)
LEMMA KillRaisesBase == ASSUME BInv, NEW j \in Job, KillRaises(j) PROVE BInv'
<1>1. TypeOK'
  BY DEF BInv, TypeOK, KillRaises, Raise, Goto, EndsBy, record, marks, queue, sandbox,
         post, api
<1>2. \A i \in Job : StageInv(i)' /\ SendInv(i)' /\ WaitInv(i)'
  BY TimeAssumption DEF BInv, TypeOK, StageInv, SendInv, WaitInv, BeforeWait, KillRaises, Raise,
         Goto, EndsBy, record, marks, queue, sandbox, post, api
<1>. QED BY <1>1, <1>2 DEF BInv

(* Killed. *)
LEMMA KilledBase == ASSUME BInv, NEW j \in Job, Killed(j) PROVE BInv'
<1>1. TypeOK'
  BY DEF BInv, TypeOK, Status, TERMINAL_STATUSES, Killed, SetStatus, Goto, KilledStatus,
         marks, queue, run, sandbox, post, api
<1>2. \A i \in Job : StageInv(i)' /\ SendInv(i)' /\ WaitInv(i)'
  BY TimeAssumption DEF BInv, TypeOK, StageInv, SendInv, WaitInv, BeforeWait, Killed, SetStatus,
         Goto, KilledStatus, marks, queue, run, sandbox, post, api
<1>. QED BY <1>1, <1>2 DEF BInv

(* Logs. *)
LEMMA LogsBase == ASSUME BInv, NEW j \in Job, Logs(j) PROVE BInv'
<1>1. TypeOK'
  BY DEF BInv, TypeOK, Logs, Goto, record, marks, queue, run, sandbox, post, api
<1>2. \A i \in Job : StageInv(i)' /\ SendInv(i)' /\ WaitInv(i)'
  BY TimeAssumption DEF BInv, TypeOK, StageInv, SendInv, WaitInv, BeforeWait, Logs, Goto, record,
         marks, queue, run, sandbox, post, api
<1>. QED BY <1>1, <1>2 DEF BInv

(* LogsRaise. *)
LEMMA LogsRaiseBase == ASSUME BInv, NEW j \in Job, LogsRaise(j) PROVE BInv'
<1>1. TypeOK'
  BY DEF BInv, TypeOK, LogsRaise, Raise, Goto, EndsBy, record, marks, queue, sandbox,
         post, api
<1>2. \A i \in Job : StageInv(i)' /\ SendInv(i)' /\ WaitInv(i)'
  BY TimeAssumption DEF BInv, TypeOK, StageInv, SendInv, WaitInv, BeforeWait, LogsRaise, Raise,
         Goto, EndsBy, record, marks, queue, sandbox, post, api
<1>. QED BY <1>1, <1>2 DEF BInv

(* Remove. *)
LEMMA RemoveBase == ASSUME BInv, NEW j \in Job, Remove(j) PROVE BInv'
<1>1. TypeOK'
  BY DEF BInv, TypeOK, Remove, Goto, AfterRemove, record, marks, queue, run, post, api
<1>2. \A i \in Job : StageInv(i)' /\ SendInv(i)' /\ WaitInv(i)'
  BY TimeAssumption DEF BInv, TypeOK, StageInv, SendInv, WaitInv, BeforeWait, Remove, Goto,
         AfterRemove, record, marks, queue, run, post, api
<1>. QED BY <1>1, <1>2 DEF BInv

(* RemoveFails. *)
LEMMA RemoveFailsBase == ASSUME BInv, NEW j \in Job, RemoveFails(j) PROVE BInv'
<1>1. TypeOK'
  BY DEF BInv, TypeOK, RemoveFails, Goto, Raise, EndsBy, AfterRemove, record, marks,
         queue, sandbox, post, api
<1>2. \A i \in Job : StageInv(i)' /\ SendInv(i)' /\ WaitInv(i)'
  BY TimeAssumption DEF BInv, TypeOK, StageInv, SendInv, WaitInv, BeforeWait, RemoveFails, Goto,
         Raise, EndsBy, AfterRemove, record, marks, queue, sandbox, post, api
<1>. QED BY <1>1, <1>2 DEF BInv

(* PackStart. *)
LEMMA PackStartBase == ASSUME BInv, NEW j \in Job, PackStart(j) PROVE BInv'
<1>1. TypeOK'
  BY DEF BInv, TypeOK, PackStart, Goto, record, marks, queue, run, sandbox, post, api
<1>2. \A i \in Job : StageInv(i)' /\ SendInv(i)' /\ WaitInv(i)'
  BY TimeAssumption DEF BInv, TypeOK, StageInv, SendInv, WaitInv, BeforeWait, PackStart, Goto,
         record, marks, queue, run, sandbox, post, api
<1>. QED BY <1>1, <1>2 DEF BInv

(* NoOutput. *)
LEMMA NoOutputBase == ASSUME BInv, NEW j \in Job, NoOutput(j) PROVE BInv'
<1>1. TypeOK'
  BY DEF BInv, TypeOK, NoOutput, Goto, record, marks, queue, run, sandbox, post, api
<1>2. \A i \in Job : StageInv(i)' /\ SendInv(i)' /\ WaitInv(i)'
  BY TimeAssumption DEF BInv, TypeOK, StageInv, SendInv, WaitInv, BeforeWait, NoOutput, Goto,
         record, marks, queue, run, sandbox, post, api
<1>. QED BY <1>1, <1>2 DEF BInv

(* PackDone. *)
LEMMA PackDoneBase == ASSUME BInv, NEW j \in Job, PackDone(j) PROVE BInv'
<1>1. TypeOK'
  BY DEF BInv, TypeOK, PackDone, Goto, record, marks, queue, run, sandbox, post, api
<1>2. \A i \in Job : StageInv(i)' /\ SendInv(i)' /\ WaitInv(i)'
  BY TimeAssumption DEF BInv, TypeOK, StageInv, SendInv, WaitInv, BeforeWait, PackDone, Goto,
         record, marks, queue, run, sandbox, post, api
<1>. QED BY <1>1, <1>2 DEF BInv

(* PackFails. *)
LEMMA PackFailsBase == ASSUME BInv, NEW j \in Job, PackFails(j) PROVE BInv'
<1>1. TypeOK'
  BY DEF BInv, TypeOK, PackFails, Raise, Goto, EndsBy, record, marks, queue, sandbox,
         post, api
<1>2. \A i \in Job : StageInv(i)' /\ SendInv(i)' /\ WaitInv(i)'
  BY TimeAssumption DEF BInv, TypeOK, StageInv, SendInv, WaitInv, BeforeWait, PackFails, Raise,
         Goto, EndsBy, record, marks, queue, sandbox, post, api
<1>. QED BY <1>1, <1>2 DEF BInv

(* Finish. *)
LEMMA FinishBase == ASSUME BInv, NEW j \in Job, Finish(j) PROVE BInv'
<1>1. TypeOK'
  BY DEF BInv, TypeOK, Status, TERMINAL_STATUSES, Finish, SetStatus, Goto, queue, run,
         sandbox, post, api
<1>2. \A i \in Job : StageInv(i)' /\ SendInv(i)' /\ WaitInv(i)'
  BY TimeAssumption DEF BInv, TypeOK, StageInv, SendInv, WaitInv, BeforeWait, Finish, SetStatus,
         Goto, queue, run, sandbox, post, api
<1>. QED BY <1>1, <1>2 DEF BInv

(* Report. *)
LEMMA ReportBase == ASSUME BInv, NEW j \in Job, Report(j) PROVE BInv'
<1>1. TypeOK'
  <2>. TypeOK
    BY DEF BInv
  <2>0. [status |-> status[j], artifact_url |-> zip[j]] \in Payload
    BY DEF TypeOK, Payload
  <2>1. payload' \in [Job -> Payload]
    BY <2>0 DEF TypeOK, Report
  <2>2. pc' = [pc EXCEPT ![j] = "post"] \/ pc' = [pc EXCEPT ![j] = "prune"]
    BY DEF Report, Goto
  <2>3. UNCHANGED <<record, queue, run, sandbox, zip, told, api>>
    BY DEF Report
  <2>. QED BY <2>1, <2>2, <2>3 DEF TypeOK, record, marks, queue, run, sandbox, api
<1>2. \A i \in Job : StageInv(i)' /\ SendInv(i)' /\ WaitInv(i)'
  <2>1. pc[j] = "report" /\ callback_status[j] = "none" /\ UNCHANGED <<record, queue, run, sandbox>>
    BY DEF Report, BInv, TypeOK, SendInv
  <2>2. CASE j \in WithCallback
    <3>1. pc' = [pc EXCEPT ![j] = "post"] /\ \A i \in Job \ {j} : payload'[i] = payload[i]
      BY <2>2 DEF Report, Goto, BInv, TypeOK
    <3>. QED BY <2>1, <3>1, TimeAssumption DEF BInv, TypeOK, StageInv, SendInv, WaitInv,
                BeforeWait, record, marks, queue, run, sandbox, api, Report
  <2>3. CASE j \notin WithCallback
    BY <2>1, <2>3, TimeAssumption DEF BInv, TypeOK, StageInv, SendInv, WaitInv, BeforeWait,
       Report, Goto, record, marks, queue, run, sandbox, api
  <2>. QED BY <2>2, <2>3
<1>. QED BY <1>1, <1>2 DEF BInv

(* Blocked. *)
LEMMA BlockedBase == ASSUME BInv, NEW j \in Job, Blocked(j) PROVE BInv'
<1>1. TypeOK'
  BY DEF BInv, TypeOK, Blocked, Goto, queue, run, sandbox, post, api
<1>2. \A i \in Job : StageInv(i)' /\ SendInv(i)' /\ WaitInv(i)'
  BY TimeAssumption DEF BInv, TypeOK, StageInv, SendInv, WaitInv, BeforeWait, Blocked, Goto,
         queue, run, sandbox, post, api
<1>. QED BY <1>1, <1>2 DEF BInv

(* Arrives. *)
LEMMA ArrivesBase == ASSUME BInv, NEW j \in Job, Arrives(j) PROVE BInv'
<1>1. TypeOK'
  BY DEF BInv, TypeOK, Payload, Status, TERMINAL_STATUSES, Arrives, Blank, record, marks,
         queue, run, sandbox, api
<1>2. \A i \in Job : StageInv(i)' /\ SendInv(i)' /\ WaitInv(i)'
  BY TimeAssumption DEF BInv, TypeOK, StageInv, SendInv, WaitInv, BeforeWait, Arrives, Blank,
         record, marks, queue, run, sandbox, api
<1>. QED BY <1>1, <1>2 DEF BInv

(* Post. *)
LEMMA PostBase == ASSUME BInv, NEW j \in Job, Post(j) PROVE BInv'
<1>1. TypeOK'
  BY DEF BInv, TypeOK, Payload, Status, TERMINAL_STATUSES, Post, Goto, queue, run,
         sandbox, post, api
<1>2. \A i \in Job : StageInv(i)' /\ SendInv(i)' /\ WaitInv(i)'
  BY TimeAssumption DEF BInv, TypeOK, StageInv, SendInv, WaitInv, BeforeWait, Post, Goto, queue,
         run, sandbox, post, api
<1>. QED BY <1>1, <1>2 DEF BInv

(* Return. *)
LEMMA ReturnBase == ASSUME BInv, NEW w \in Worker, NEW j \in Job, Return(w, j) PROVE BInv'
<1>1. TypeOK'
  BY DEF BInv, TypeOK, Return, Goto, record, marks, run, sandbox, post, api
<1>2. \A i \in Job : StageInv(i)' /\ SendInv(i)' /\ WaitInv(i)'
  BY TimeAssumption DEF BInv, TypeOK, StageInv, SendInv, WaitInv, BeforeWait, Return, Goto,
         record, marks, run, sandbox, post, api
<1>. QED BY <1>1, <1>2 DEF BInv

(* Crash. *)
LEMMA CrashBase == ASSUME BInv, NEW w \in Worker, NEW j \in Job, Crash(w, j) PROVE BInv'
<1>1. TypeOK'
  BY DEF BInv, TypeOK, Crash, Goto, record, marks, run, sandbox, post, api
<1>2. \A i \in Job : StageInv(i)' /\ SendInv(i)' /\ WaitInv(i)'
  BY TimeAssumption DEF BInv, TypeOK, StageInv, SendInv, WaitInv, BeforeWait, Crash, Goto, record,
         marks, run, sandbox, post, api
<1>. QED BY <1>1, <1>2 DEF BInv

(* Stutter. *)
LEMMA StutterBase == ASSUME BInv, UNCHANGED vars PROVE BInv'
<1>1. TypeOK'
  BY DEF BInv, TypeOK, vars, record, marks, queue, run, sandbox, post, api
<1>2. \A i \in Job : StageInv(i)' /\ SendInv(i)' /\ WaitInv(i)'
  BY TimeAssumption DEF BInv, TypeOK, StageInv, SendInv, WaitInv, BeforeWait, vars, record, marks,
         queue, run, sandbox, post, api
<1>. QED BY <1>1, <1>2 DEF BInv

--------------------------------------------------------------------------------
(* Every step keeps the invariant. *)
LEMMA BaseInductive == ASSUME BInv, [Next]_vars PROVE BInv'
<1>1. ASSUME NEW j \in Job, Submission(j) PROVE BInv'
  BY <1>1, RecordBase, EnqueueBase, ApiDiesBase DEF Submission
<1>2. ASSUME NEW j \in Job, ContainerExits(j) \/ Arrives(j) PROVE BInv'
  BY <1>2, ContainerExitsBase, ArrivesBase
<1>3. ASSUME NEW j \in Job, RunStep(j) PROVE BInv'
  <2>1. CASE \E w \in Worker : Begin(w, j) \/ Return(w, j)
    BY <2>1, BeginBase, ReturnBase
  <2>2. CASE Refuse(j) \/ Claim(j) \/ Launch(j) \/ ImageMissing(j) \/ LaunchFails(j)
    BY <2>2, RefuseBase, ClaimBase, LaunchBase, ImageMissingBase, LaunchFailsBase
  <2>3. CASE Waiting(j)
    BY <2>3, WaitReturnsBase, WaitTimesOutBase, WaitFailsBase, RecheckBase, KillBase,
       KillRaisesBase, KilledBase, LogsBase, LogsRaiseBase, RemoveBase, RemoveFailsBase DEF Waiting
  <2>4. CASE Ending(j)
    BY <2>4, PackStartBase, NoOutputBase, PackDoneBase, PackFailsBase, FinishBase,
       ReportBase, BlockedBase, PostBase DEF Ending
  <2>. QED BY <1>3, <2>1, <2>2, <2>3, <2>4 DEF RunStep
<1>4. ASSUME NEW h \in Handler, NEW j \in Job, CancelLoad(h, j) \/ Cancelling(h, j) PROVE BInv'
  BY <1>4, CancelLoadBase, CancelFlagBase, RqCancelBase, RqRefusesBase, CancelWriteBase
     DEF Cancelling
<1>5. ASSUME NEW h \in Handler, CancelDies(h) PROVE BInv'
  BY <1>5, CancelDiesBase
<1>6. ASSUME NEW w \in Worker, NEW j \in Job, Take(w, j) \/ Crash(w, j) PROVE BInv'
  BY <1>6, TakeBase, CrashBase
<1>7. CASE UNCHANGED vars
  BY <1>7, StutterBase
<1>. QED BY <1>1, <1>2, <1>3, <1>4, <1>5, <1>6, <1>7 DEF Next

(* The invariant holds in every reachable state. *)
LEMMA BaseInvariant == Spec => []BInv
<1>1. BInv /\ [Next]_vars => BInv'
  BY BaseInductive
<1>. QED BY BaseInit, <1>1, PTL DEF Spec

--------------------------------------------------------------------------------
(* What follows from the invariant. *)

(* The variables always have the values their comments say.                *)
THEOREM TypeCorrect == Spec => []TypeOK
<1>1. BInv => TypeOK
  BY DEF BInv
<1>. QED BY BaseInvariant, <1>1, PTL

(* A wait is shorter than the timeout and one poll                        *)
(* (_wait_for_container, build.py).                                        *)
THEOREM WaitCorrect == Spec => []WaitIsBounded
<1>1. BInv => WaitIsBounded
  BY DEF BInv, WaitInv, WaitIsBounded
<1>. QED BY BaseInvariant, <1>1, PTL

(* ... and one poll from the moment a cancel was flagged, whoever flagged it *)
(* and at which point of the loop.                                         *)
THEOREM CancelNoticedCorrect == Spec => []CancelNoticedInOnePoll
<1>1. BInv => CancelNoticedInOnePoll
  BY DEF BInv, WaitInv, CancelNoticedInOnePoll
<1>. QED BY BaseInvariant, <1>1, PTL

--------------------------------------------------------------------------------
(* A cancel flagged before the pre-run check. *)

(* It keeps the job from having a container: from then on the run can only  *)
(* be refused, and then reported.                                           *)
EarlyInv(j) ==
  /\ cancel_requested[j]
  /\ pc[j] \in {"idle", "begin", "refused", "report", "post", "prune", "done", "dead"}
  /\ container[j] = "none"

(* What each step of a run does with it. *)
LEMMA EarlyRun ==
  ASSUME TypeOK, NEW i \in Job, EarlyInv(i), NEW j \in Job, RunStep(j) PROVE EarlyInv(i)'
<1>1. CASE \E w \in Worker : Begin(w, j) \/ Return(w, j)
  BY <1>1 DEF TypeOK, EarlyInv, Begin, Return, PreRunCheck, Goto, SetStatus, marks, queue, run,
         sandbox, post, api, record
<1>2. CASE Refuse(j) \/ Claim(j) \/ Launch(j) \/ ImageMissing(j) \/ LaunchFails(j)
  BY <1>2 DEF TypeOK, EarlyInv, Refuse, Claim, Launch, ImageMissing, LaunchFails, Raise, EndsBy,
         Goto, SetStatus, marks, queue, run, sandbox, post, api, record
<1>3. CASE Waiting(j)
  BY <1>3 DEF TypeOK, EarlyInv, Waiting, WaitReturns, WaitTimesOut, WaitFails, Recheck, Kill,
         KillRaises, Killed, Logs, LogsRaise, Remove, RemoveFails, Raise, EndsBy, Goto,
         SetStatus, marks, queue, run, sandbox, post, api, record
<1>4. CASE Ending(j)
  BY <1>4 DEF TypeOK, EarlyInv, Ending, PackStart, NoOutput, PackDone, PackFails, Finish, Report,
         Blocked, Post, Raise, EndsBy, Goto, SetStatus, marks, queue, run, sandbox, post, api,
         record
<1>. QED BY <1>1, <1>2, <1>3, <1>4 DEF RunStep

(* What every step does with it. *)
LEMMA EarlyStep ==
  ASSUME TypeOK, NEW i \in Job, EarlyInv(i), [Next]_vars PROVE EarlyInv(i)'
<1>1. ASSUME NEW j \in Job, Submission(j) \/ ContainerExits(j) \/ Arrives(j) PROVE EarlyInv(i)'
  BY <1>1 DEF TypeOK, EarlyInv, Submission, Record, Enqueue, ApiDies, ContainerExits, Arrives,
         SetStatus, marks, queue, run, sandbox, post, api, record
<1>2. ASSUME NEW h \in Handler, NEW j \in Job, CancelLoad(h, j) \/ Cancelling(h, j)
      PROVE  EarlyInv(i)'
  BY <1>2 DEF TypeOK, EarlyInv, CancelLoad, Cancelling, CancelFlag, RqCancel, RqRefuses,
         CancelWrite, SetStatus, marks, queue, run, sandbox, post, api, record
<1>3. ASSUME NEW h \in Handler, CancelDies(h) PROVE EarlyInv(i)'
  BY <1>3 DEF EarlyInv, CancelDies, marks, queue, run, sandbox, post, api, record
<1>4. ASSUME NEW w \in Worker, NEW j \in Job, Take(w, j) \/ Crash(w, j) PROVE EarlyInv(i)'
  BY <1>4 DEF TypeOK, EarlyInv, Take, Crash, Goto, marks, run, sandbox, post, api, record
<1>5. CASE UNCHANGED vars
  BY <1>5 DEF EarlyInv, vars, marks, run, sandbox, record
<1>. QED BY <1>1, <1>2, <1>3, <1>4, <1>5, EarlyRun DEF Next

(* For one job ... *)
LEMMA EarlyCancelOfOne ==
  ASSUME NEW j \in Job
  PROVE  Spec => [](cancel_requested[j] /\ pc[j] \in {"idle", "begin", "refused"}
                     => [](container[j] = "none"))
<1>1. BInv /\ cancel_requested[j] /\ pc[j] \in {"idle", "begin", "refused"} => EarlyInv(j)
  BY DEF BInv, StageInv, BeforeWait, EarlyInv
<1>2. BInv /\ EarlyInv(j) /\ [Next]_vars => EarlyInv(j)'
  BY EarlyStep DEF BInv
<1>3. EarlyInv(j) => container[j] = "none"
  BY DEF EarlyInv
<1>. QED BY BaseInvariant, <1>1, <1>2, <1>3, PTL DEF Spec

(* ... and for all: a cancel flagged before the run's pre-run check keeps   *)
(* the job from ever having a container, whoever took it off the queue and  *)
(* whatever the fast path does meanwhile (api.py:182-187).                  *)
THEOREM EarlyCancelCorrect == Spec => EarlyCancelNeverRuns
BY EarlyCancelOfOne DEF EarlyCancelNeverRuns

--------------------------------------------------------------------------------
(* Runs end: each of their steps leaves fewer. *)

(* What is ahead of a step is a number. *)
LEMMA AheadNat ==
  ASSUME BInv, NEW j \in Job
  PROVE  /\ Ahead[pc[j]] \in 0 .. 15
         /\ elapsed[j] \in Nat /\ Timeout \in Nat /\ PollInterval \in Nat
BY TimeAssumption DEF BInv, TypeOK, Ahead

(* A step of a run that leaves the time it has waited alone, to one that has *)
(* less ahead.                                                               *)
LEMMA Onward ==
  ASSUME BInv, BInv', NEW j \in Job, elapsed'[j] = elapsed[j], Ahead[pc'[j]] < Ahead[pc[j]]
  PROVE  StepsLeft(j)' < StepsLeft(j)
<1>1. Ahead[pc[j]] \in Int /\ Ahead[pc'[j]] \in Int
  BY DEF BInv, TypeOK, Ahead
<1>. QED BY <1>1, AheadNat DEF StepsLeft

(* A step of the run of j leaves fewer to make. *)
LEMMA RunAdvances ==
  ASSUME BInv, BInv', NEW j \in Job, RunStep(j) PROVE StepsLeft(j)' < StepsLeft(j)
<1>. TypeOK
  BY DEF BInv
<1>1. CASE \E w \in Worker : Begin(w, j) \/ Return(w, j)
  <2>1. elapsed'[j] = elapsed[j] /\ Ahead[pc'[j]] < Ahead[pc[j]]
    BY <1>1 DEF TypeOK, Ahead, Begin, Return, PreRunCheck, Goto, SetStatus, run
  <2>. QED BY <2>1, Onward
<1>2. CASE Refuse(j) \/ Claim(j) \/ Launch(j) \/ ImageMissing(j) \/ LaunchFails(j)
  <2>1. elapsed'[j] = elapsed[j] /\ Ahead[pc'[j]] < Ahead[pc[j]]
    BY <1>2 DEF TypeOK, Ahead, Refuse, Claim, Launch, ImageMissing, LaunchFails, Raise, Goto, run
  <2>. QED BY <2>1, Onward
<1>3. CASE WaitTimesOut(j)
  <2>1. /\ elapsed'[j] = elapsed[j] + PollInterval
        /\ pc[j] = "wait" /\ pc'[j] \in {"kill", "recheck"}
    BY <1>3 DEF TypeOK, WaitTimesOut, NextElapsed, Goto
  <2>2. Ahead[pc[j]] = 10 /\ Ahead[pc'[j]] \in {9, 11}
    BY <2>1 DEF Ahead
  <2>. QED BY <2>1, <2>2, AheadNat, TimeAssumption DEF StepsLeft
<1>4. CASE Waiting(j) /\ ~WaitTimesOut(j)
  <2>1. elapsed'[j] = elapsed[j] /\ Ahead[pc'[j]] < Ahead[pc[j]]
    BY <1>4 DEF TypeOK, Ahead, Waiting, WaitReturns, WaitFails, Recheck, Kill, KillRaises,
           Killed, Logs, LogsRaise, Remove, RemoveFails, AfterRemove, Raise, Goto, run
  <2>. QED BY <2>1, Onward
<1>5. CASE Ending(j)
  <2>1. elapsed'[j] = elapsed[j] /\ Ahead[pc'[j]] < Ahead[pc[j]]
    BY <1>5 DEF TypeOK, Ahead, Ending, PackStart, NoOutput, PackDone, PackFails, Finish, Report,
           Blocked, Post, Raise, Goto, run
  <2>. QED BY <2>1, Onward
<1>. QED BY <1>1, <1>2, <1>3, <1>4, <1>5 DEF RunStep

(* Any other step leaves the run of j where it is, hands it out or ends it. *)
LEMMA OthersLeaveRun ==
  ASSUME BInv, NEW j \in Job, [Next]_vars, ~RunStep(j)
  PROVE  elapsed'[j] = elapsed[j]
         /\ (pc'[j] = pc[j] \/ (pc[j] = "idle" /\ pc'[j] = "begin") \/ pc'[j] = "dead")
<1>. TypeOK
  BY DEF BInv
<1>1. ASSUME NEW i \in Job, Submission(i) \/ ContainerExits(i) \/ Arrives(i)
      PROVE  pc'[j] = pc[j] /\ elapsed'[j] = elapsed[j]
  BY <1>1 DEF Submission, Record, Enqueue, ApiDies, ContainerExits, Arrives, run
<1>2. ASSUME NEW i \in Job, i # j, RunStep(i)
      PROVE  pc'[j] = pc[j] /\ elapsed'[j] = elapsed[j]
  <2>1. CASE \E w \in Worker : Begin(w, i) \/ Return(w, i)
    BY <2>1, <1>2 DEF TypeOK, Begin, Return, Goto, run
  <2>2. CASE Refuse(i) \/ Claim(i) \/ Launch(i) \/ ImageMissing(i) \/ LaunchFails(i)
    BY <2>2, <1>2 DEF TypeOK, Refuse, Claim, Launch, ImageMissing, LaunchFails, Raise, Goto, run
  <2>3. CASE Waiting(i)
    BY <2>3, <1>2 DEF TypeOK, Waiting, WaitReturns, WaitTimesOut, WaitFails, Recheck, Kill,
           KillRaises, Killed, Logs, LogsRaise, Remove, RemoveFails, Raise, Goto, run
  <2>4. CASE Ending(i)
    BY <2>4, <1>2 DEF TypeOK, Ending, PackStart, NoOutput, PackDone, PackFails, Finish, Report,
           Blocked, Post, Raise, Goto, run
  <2>. QED BY <1>2, <2>1, <2>2, <2>3, <2>4 DEF RunStep
<1>3. ASSUME NEW h \in Handler, NEW i \in Job, CancelLoad(h, i) \/ Cancelling(h, i)
      PROVE  pc'[j] = pc[j] /\ elapsed'[j] = elapsed[j]
  BY <1>3 DEF CancelLoad, Cancelling, CancelFlag, RqCancel, RqRefuses, CancelWrite, run
<1>4. ASSUME NEW h \in Handler, CancelDies(h) PROVE pc'[j] = pc[j] /\ elapsed'[j] = elapsed[j]
  BY <1>4 DEF CancelDies, run
<1>5. ASSUME NEW w \in Worker, NEW i \in Job, Take(w, i)
      PROVE  elapsed'[j] = elapsed[j] /\ (pc'[j] = pc[j] \/ (pc[j] = "idle" /\ pc'[j] = "begin"))
  BY <1>5 DEF BInv, TypeOK, StageInv, Take, Goto, run
<1>6. ASSUME NEW w \in Worker, NEW i \in Job, Crash(w, i)
      PROVE  elapsed'[j] = elapsed[j] /\ (pc'[j] = pc[j] \/ pc'[j] = "dead")
  BY <1>6 DEF TypeOK, Crash, Goto, run
<1>7. CASE UNCHANGED vars
  BY <1>7 DEF vars, run
<1>. QED BY <1>1, <1>2, <1>3, <1>4, <1>5, <1>6, <1>7 DEF Next

(* No run goes on for ever (the poll loop of _wait_for_container included):  *)
(* each step of one leaves it fewer to make and no other step leaves it more. *)
THEOREM AdvanceCorrect == Spec => RunsAdvance
<1>1. ASSUME BInv, BInv', [Next]_vars, NEW j \in Job
      PROVE  /\ StepsLeft(j)' <= StepsLeft(j)
             /\ RunStep(j) => StepsLeft(j)' < StepsLeft(j)
  <2>1. StepsLeft(j) \in Int /\ StepsLeft(j)' \in Int
    BY <1>1, TimeAssumption DEF StepsLeft, BInv, TypeOK, Ahead
  <2>2. CASE RunStep(j)
    BY <1>1, <2>1, <2>2, RunAdvances
  <2>3. CASE ~RunStep(j)
    <3>1. Ahead["idle"] = 15 /\ Ahead["begin"] = 14 /\ Ahead["dead"] = 0
      BY DEF Ahead
    <3>. QED BY <1>1, <2>3, <3>1, AheadNat, OthersLeaveRun DEF StepsLeft
  <2>. QED BY <2>2, <2>3
<1>2. BInv /\ BInv' /\ [Next]_vars =>
        [\A j \in Job : /\ StepsLeft(j)' <= StepsLeft(j)
                        /\ RunStep(j) => StepsLeft(j)' < StepsLeft(j)]_vars
  BY <1>1
<1>. QED BY BaseInvariant, <1>2, PTL DEF Spec, RunsAdvance

--------------------------------------------------------------------------------
(* The callback of a run is the one Delivery describes. *)

(* A step that leaves the callback of j as it is. *)
Quiet(j) ==
  /\ CallbackPhase(j)' = CallbackPhase(j)
  /\ told'[j] = told[j] /\ callback_status'[j] = callback_status[j]

(* A quiet step is a stuttering one of Delivery. *)
LEMMA QuietStutters ==
  ASSUME NEW j \in Job, Quiet(j) PROVE UNCHANGED Reporting(j)!dvars
BY DEF Quiet, Reporting!dvars

(* The steps of the run of another job are quiet. *)
LEMMA OtherRunQuiet ==
  ASSUME TypeOK, NEW j \in Job, NEW i \in Job, i # j, RunStep(i) PROVE Quiet(j)
<1>1. pc'[j] = pc[j] /\ told'[j] = told[j] /\ callback_status'[j] = callback_status[j]
  <2>1. CASE \E w \in Worker : Begin(w, i) \/ Return(w, i)
    BY <2>1 DEF TypeOK, Begin, Return, Goto, marks, record, post
  <2>2. CASE Refuse(i) \/ Claim(i) \/ Launch(i) \/ ImageMissing(i) \/ LaunchFails(i)
    BY <2>2 DEF TypeOK, Refuse, Claim, Launch, ImageMissing, LaunchFails, Raise, Goto, marks,
           record, post
  <2>3. CASE Waiting(i)
    BY <2>3 DEF TypeOK, Waiting, WaitReturns, WaitTimesOut, WaitFails, Recheck, Kill,
           KillRaises, Killed, Logs, LogsRaise, Remove, RemoveFails, Raise, Goto, marks, record,
           post
  <2>4. CASE Ending(i)
    BY <2>4 DEF TypeOK, Ending, PackStart, NoOutput, PackDone, PackFails, Finish, Report, Blocked,
           Post, Raise, Goto, marks, record, post
  <2>. QED BY <2>1, <2>2, <2>3, <2>4 DEF RunStep
<1>. QED BY <1>1 DEF Quiet, CallbackPhase

(* What the run of j itself does. *)
LEMMA RunDelivers ==
  ASSUME BInv, NEW j \in WithCallback, j \in Job, RunStep(j)
  PROVE  Reporting(j)!Next \/ Quiet(j)
<1>. TypeOK
  BY DEF BInv
<1>1. CASE \E w \in Worker : Begin(w, j) \/ Return(w, j)
  BY <1>1 DEF TypeOK, Quiet, CallbackPhase, Begin, Return, PreRunCheck, Goto, marks, record, post
<1>2. CASE Refuse(j) \/ Claim(j) \/ Launch(j) \/ ImageMissing(j) \/ LaunchFails(j)
  BY <1>2 DEF TypeOK, Quiet, CallbackPhase, Refuse, Claim, Launch, ImageMissing, LaunchFails,
         Raise, Goto, marks, record, post
<1>3. CASE Waiting(j)
  BY <1>3 DEF TypeOK, Quiet, CallbackPhase, Waiting, WaitReturns, WaitTimesOut, WaitFails,
         Recheck, Kill, KillRaises, Killed, Logs, LogsRaise, Remove, RemoveFails, AfterRemove,
         Raise, Goto, marks, record, post
<1>4. CASE PackStart(j) \/ NoOutput(j) \/ PackDone(j) \/ PackFails(j) \/ Finish(j)
  BY <1>4 DEF TypeOK, Quiet, CallbackPhase, PackStart, NoOutput, PackDone, PackFails, Finish,
         Raise, Goto, marks, record, post
<1>5. CASE Report(j)
  <2>1. pc[j] = "report" /\ pc'[j] = "post"
    BY <1>5 DEF TypeOK, Report, Goto
  <2>2. CallbackPhase(j) = "reading" /\ CallbackPhase(j)' = "posting"
    BY <2>1 DEF CallbackPhase
  <2>3. told'[j] = told[j] /\ callback_status'[j] = callback_status[j]
    BY <1>5 DEF Report, record, marks
  <2>. QED BY <2>2, <2>3 DEF Reporting!Next, Reporting!Read
<1>6. CASE Blocked(j)
  <2>1. pc[j] = "report" /\ pc'[j] = "prune"
    BY <1>6 DEF TypeOK, Blocked, Goto
  <2>2. CallbackPhase(j) = "reading" /\ CallbackPhase(j)' = "over"
    BY <2>1 DEF CallbackPhase
  <2>3. told'[j] = told[j] /\ callback_status'[j] = "blocked"
    BY <1>6 DEF TypeOK, Blocked, post
  <2>. QED BY <2>2, <2>3 DEF Reporting!Next, Reporting!Block
<1>7. CASE Post(j)
  <2>1. pc[j] = "post" /\ pc'[j] = "prune"
    BY <1>7 DEF TypeOK, Post, Goto
  <2>2. CallbackPhase(j) = "posting" /\ CallbackPhase(j)' = "over"
    BY <2>1 DEF CallbackPhase
  <2>3. /\ told'[j] = told[j] /\ callback_status'[j] \in {"delivered", "failed"}
        /\ callback_status'[j] = "delivered" => told[j] # {}
    BY <1>7 DEF TypeOK, Post, post
  <2>. QED BY <2>2, <2>3 DEF Reporting!Next, Reporting!Settle
<1>. QED BY <1>1, <1>2, <1>3, <1>4, <1>5, <1>6, <1>7 DEF RunStep, Ending

(* What every step does. *)
LEMMA StepDelivers ==
  ASSUME BInv, NEW j \in WithCallback, j \in Job, [Next]_vars
  PROVE  [Reporting(j)!Next]_(Reporting(j)!dvars)
<1>. TypeOK
  BY DEF BInv
<1>1. ASSUME NEW i \in Job, Submission(i) \/ ContainerExits(i) PROVE Quiet(j)
  BY <1>1 DEF Submission, Record, Enqueue, ApiDies, ContainerExits, Quiet, CallbackPhase, marks,
         record, post
<1>2. ASSUME NEW i \in Job, Arrives(i) PROVE Reporting(j)!Next \/ Quiet(j)
  <2>1. CallbackPhase(j)' = CallbackPhase(j) /\ callback_status'[j] = callback_status[j]
    BY <1>2 DEF Arrives, CallbackPhase, record, marks
  <2>2. CASE i = j
    <3>1. CallbackPhase(j) # "reading" /\ callback_status[j] # "blocked"
      BY <1>2, <2>2 DEF Arrives, BInv, SendInv, CallbackPhase
    <3>2. told'[j] # {}
      BY <1>2, <2>2 DEF Arrives, TypeOK
    <3>. QED BY <2>1, <3>1, <3>2 DEF Reporting!Next, Reporting!Arrive
  <2>3. CASE i # j
    BY <1>2, <2>1, <2>3 DEF Arrives, TypeOK, Quiet
  <2>. QED BY <2>2, <2>3
<1>3. ASSUME NEW i \in Job, RunStep(i) PROVE Reporting(j)!Next \/ Quiet(j)
  BY <1>3, RunDelivers, OtherRunQuiet
<1>4. ASSUME NEW h \in Handler, NEW i \in Job, CancelLoad(h, i) \/ Cancelling(h, i) PROVE Quiet(j)
  BY <1>4 DEF CancelLoad, Cancelling, CancelFlag, RqCancel, RqRefuses, CancelWrite, Quiet,
         CallbackPhase, marks, record, post
<1>5. ASSUME NEW h \in Handler, CancelDies(h) PROVE Quiet(j)
  BY <1>5 DEF CancelDies, Quiet, CallbackPhase, marks, record, post
<1>6. ASSUME NEW w \in Worker, NEW i \in Job, Take(w, i) PROVE Quiet(j)
  BY <1>6 DEF BInv, TypeOK, StageInv, Take, Goto, Quiet, CallbackPhase, marks, record, post
<1>7. ASSUME NEW w \in Worker, NEW i \in Job, Crash(w, i) PROVE Reporting(j)!Next \/ Quiet(j)
  <2>1. told'[j] = told[j] /\ callback_status'[j] = callback_status[j]
    BY <1>7 DEF Crash, record, marks, post
  <2>2. CallbackPhase(j)' = CallbackPhase(j) \/ CallbackPhase(j)' = "over"
    BY <1>7 DEF Crash, Goto, TypeOK, CallbackPhase
  <2>. QED BY <2>1, <2>2 DEF Quiet, Reporting!Next, Reporting!Die
<1>8. ASSUME UNCHANGED vars PROVE Quiet(j)
  <2>1. pc' = pc /\ told' = told /\ callback_status' = callback_status
    BY <1>8 DEF vars, record, marks, post
  <2>. QED BY <2>1 DEF Quiet, CallbackPhase
<1>. QED BY <1>1, <1>2, <1>3, <1>4, <1>5, <1>6, <1>7, <1>8, QuietStutters DEF Next

(* For every job with a callback_url the run, the arrivals and the verdict    *)
(* do what Delivery allows, which is what the attempts of send_callback,     *)
(* their network and their host come to (CallbackProofs).                    *)
THEOREM CallbackIsDelivery == Spec => ImplementsDelivery
<1>1. Init => \A j \in WithCallback : Reporting(j)!Init
  <2>1. ASSUME Init, NEW j \in WithCallback PROVE Reporting(j)!Init
    <3>1. pc[j] = "idle" /\ told[j] = {} /\ callback_status[j] = "none"
      BY <2>1, MembersAssumption DEF Init
    <3>2. CallbackPhase(j) = "reading"
      BY <3>1 DEF CallbackPhase
    <3>. QED BY <3>1, <3>2 DEF Reporting!Init
  <2>. QED BY <2>1
<1>2. ASSUME BInv, [Next]_vars
      PROVE  \A j \in WithCallback : [Reporting(j)!Next]_(Reporting(j)!dvars)
  BY <1>2, StepDelivers, MembersAssumption
<1>3. BInv /\ [Next]_vars =>
        [\A j \in WithCallback : [Reporting(j)!Next]_(Reporting(j)!dvars)]_vars
  BY <1>2
<1>. QED BY BaseInvariant, <1>1, <1>3, PTL DEF Spec, ImplementsDelivery

================================================================================
