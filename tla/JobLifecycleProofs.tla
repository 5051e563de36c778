--------------------------- MODULE JobLifecycleProofs ---------------------------
(***************************************************************************)
(* What JobLifecycle does for every set of jobs, workers and handlers,     *)
(* every timeout and poll interval and every combination of faults,       *)
(* whether rq.Job.cancel() succeeds on a job that a worker took or raises: *)
(* the invariant says of each job what its run said, but for the word that *)
(* a cancel handler may have written over it (Says).                       *)
(***************************************************************************)
EXTENDS JobLifecycleBaseProofs

--------------------------------------------------------------------------------
(* The inductive invariant, by what its parts tie together. *)

BeforeStart == {"begin", "refused", "claim"}
Running == {"launch", "wait", "recheck", "kill", "killed", "logs", "pack", "packing", "finish"}
AfterRun == {"report", "post", "prune", "done"}

(* Where RQ has the job, and what the record then says. *)
QueueInv(j) ==
  /\ (rq[j] = "none") <=> (status[j] = "absent")
  /\ rq[j] \in {"recorded", "lost", "queued"} => status[j] = "queued"
  /\ rq[j] = "canceled" => status[j] \in {"queued", "cancelled"} /\ cancel_requested[j]
  /\ promised[j] => rq[j] \in {"canceled", "started", "finished"} /\ cancel_requested[j]

(* The step of the run, what it then said, and how it ended. *)
RunInv(j) ==
  /\ pc[j] \in BeforeStart => Says(j, "queued")
  /\ pc[j] \in Running => Says(j, "running")
  /\ pc[j] = "remove" /\ ending[j] \in {"exited", "raised"} => Says(j, "running")
  /\ pc[j] = "remove" /\ ending[j] \in {"cancel", "timeout"} => Ended(j)
  /\ pc[j] = "remove" => ending[j] # "none"
  /\ pc[j] \in AfterRun => Ended(j) \/ (status[j] = "running" /\ ending[j] = "raised")
  /\ pc[j] = "refused" => cancel_requested[j]
  /\ pc[j] \in BeforeWait \cup {"wait", "recheck"} => ending[j] = "none"
  /\ pc[j] \in {"kill", "killed"} => ending[j] \in {"cancel", "timeout"}
  /\ pc[j] \in {"logs", "pack", "packing", "finish"} => ending[j] = "exited"
  /\ ending[j] = "cancel" => cancel_requested[j]

(* The container. *)
ContainerInv(j) ==
  /\ container[j] = "running" => Says(j, "running")
  /\ pc[j] \in {"killed", "logs", "pack", "packing", "finish"} => container[j] # "running"
  /\ pc[j] = "remove" /\ ending[j] # "raised" => container[j] # "running"
  /\ Settled(j) => container[j] # "running"

(* output.zip, and the list of what it holds. *)
ArtifactInv(j) ==
  /\ pc[j] \in BeforeWait \cup {"wait", "recheck", "kill", "killed", "logs", "remove", "pack"}
       => zip[j] = "none"
  /\ pc[j] = "finish" => zip[j] # "partial"
  /\ zip[j] = "partial" => Says(j, "running")
  /\ Settled(j) => zip[j] # "partial"
  /\ status[j] = "success" \/ files[j] => zip[j] = "complete"
  /\ files[j] => Ended(j) /\ pc[j] \in AfterRun \cup {"dead"}

(* The callback: what is sent, and so what arrives, is the outcome. *)
CallbackInv(j) ==
  /\ pc[j] = "post" => payload[j] # Blank
  /\ payload[j] # Blank => /\ Says(j, payload[j].status) /\ payload[j].artifact_url = zip[j]
                           /\ payload[j].status \in {"running"} \cup TERMINAL_STATUSES
                           /\ \/ payload[j].status \in TERMINAL_STATUSES
                              \/ ending[j] = "raised"
  /\ told[j] # {} => payload[j] # Blank
  /\ \A p \in told[j] : p = payload[j]

(* The cancel requests being served. *)
HandlerInv(h) ==
  LET j == handler[h].job
  IN  /\ handler[h].at # "idle" => j \in Job /\ rq[j] # "none"
      /\ handler[h].at \in {"dequeue", "write"} => cancel_requested[j]
      /\ handler[h].at = "write" => rq[j] \in {"canceled", "started", "finished"}

(* The workers. *)
WorkerInv(w) == worker[w] \in Job => rq[worker[w]] \in {"started", "finished"}

JobInv(j) ==
  QueueInv(j) /\ RunInv(j) /\ ContainerInv(j) /\ ArtifactInv(j) /\ CallbackInv(j)

IInv == /\ BInv
        /\ \A j \in Job : JobInv(j)
        /\ \A h \in Handler : HandlerInv(h)
        /\ \A w \in Worker : WorkerInv(w)

--------------------------------------------------------------------------------
(* A step disturbs the invariant of one job: the others look the same. *)

Same(i) ==
  /\ status'[i] = status[i] /\ cancel_requested'[i] = cancel_requested[i]
  /\ files'[i] = files[i] /\ rq'[i] = rq[i]
  /\ pc'[i] = pc[i] /\ ending'[i] = ending[i] /\ elapsed'[i] = elapsed[i]
  /\ container'[i] = container[i] /\ zip'[i] = zip[i]
  /\ payload'[i] = payload[i] /\ told'[i] = told[i]
  /\ promised'[i] = promised[i] /\ flaggedAt'[i] = flaggedAt[i]

(* The invariant of a job that looks the same still holds. *)
LEMMA Frame == ASSUME NEW i \in Job, JobInv(i), Same(i) PROVE JobInv(i)'
  BY DEF Same, JobInv, QueueInv, RunInv, ContainerInv, ArtifactInv, CallbackInv, Overruled, Says,
         Settled, Ended, Blank

(* The invariant holds at the start. *)
LEMMA InitInv == Init => IInv
<1>. SUFFICES ASSUME Init PROVE IInv
  OBVIOUS
<1>1. BInv
  BY BaseInit
<1>2. ASSUME NEW j \in Job PROVE JobInv(j)
  BY DEF Init, JobInv, Says, Settled, Overruled, QueueInv, RunInv, ContainerInv, ArtifactInv,
         CallbackInv, BeforeStart, BeforeWait, Running, AfterRun, Ended, TERMINAL_STATUSES,
         Blank
<1>3. ASSUME NEW h \in Handler PROVE HandlerInv(h)
  BY DEF Init, HandlerInv, Idle
<1>4. ASSUME NEW w \in Worker PROVE WorkerInv(w)
  BY MembersAssumption DEF Init, WorkerInv
<1>. QED BY <1>1, <1>2, <1>3, <1>4 DEF IInv

(* Record keeps the invariant. *)
LEMMA RecordStep == ASSUME IInv, NEW j \in Job, Record(j) PROVE IInv'
<1>1. BInv'
  BY RecordBase DEF IInv
<1>2. \A i \in Job \ {j} : Same(i)
  BY DEF IInv, BInv, TypeOK, Same, Record, SetStatus, marks, run, sandbox, post, api
<1>3. JobInv(j)'
  BY DEF IInv, BInv, TypeOK, StageInv, SendInv, JobInv, QueueInv, RunInv, ContainerInv,
         ArtifactInv, CallbackInv, Overruled, Says, Settled, Blank, BeforeStart, BeforeWait,
         Running, AfterRun, Ended, TERMINAL_STATUSES, Record, SetStatus, marks, run, sandbox,
         post, api
<1>4. \A g \in Handler : HandlerInv(g)'
  BY DEF IInv, BInv, TypeOK, HandlerInv, JobInv, QueueInv, Record, SetStatus, marks, run,
         sandbox, post, api
<1>5. \A v \in Worker : WorkerInv(v)'
  BY DEF IInv, BInv, TypeOK, WorkerInv, Record, SetStatus, marks, run, sandbox, post, api
<1>. QED BY <1>1, <1>2, <1>3, <1>4, <1>5, Frame DEF IInv

(* Enqueue keeps the invariant. *)
LEMMA EnqueueStep == ASSUME IInv, NEW j \in Job, Enqueue(j) PROVE IInv'
<1>1. BInv'
  BY EnqueueBase DEF IInv
<1>2. \A i \in Job \ {j} : Same(i)
  BY DEF IInv, BInv, TypeOK, Same, Enqueue, record, marks, run, sandbox, post, api
<1>3. JobInv(j)'
  BY DEF IInv, BInv, TypeOK, StageInv, SendInv, JobInv, QueueInv, RunInv, ContainerInv,
         ArtifactInv, CallbackInv, Overruled, Says, Settled, Blank, BeforeStart, BeforeWait,
         Running, AfterRun, Ended, TERMINAL_STATUSES, Enqueue, record, marks, run, sandbox,
         post, api
<1>4. \A g \in Handler : HandlerInv(g)'
  BY DEF IInv, BInv, TypeOK, HandlerInv, JobInv, QueueInv, Enqueue, record, marks, run, sandbox,
         post, api
<1>5. \A v \in Worker : WorkerInv(v)'
  BY DEF IInv, BInv, TypeOK, WorkerInv, Enqueue, record, marks, run, sandbox, post, api
<1>. QED BY <1>1, <1>2, <1>3, <1>4, <1>5, Frame DEF IInv

(* ApiDies keeps the invariant. *)
LEMMA ApiDiesStep == ASSUME IInv, NEW j \in Job, ApiDies(j) PROVE IInv'
<1>1. BInv'
  BY ApiDiesBase DEF IInv
<1>2. \A i \in Job \ {j} : Same(i)
  BY DEF IInv, BInv, TypeOK, Same, ApiDies, record, marks, run, sandbox, post, api
<1>3. JobInv(j)'
  BY DEF IInv, BInv, TypeOK, StageInv, SendInv, JobInv, QueueInv, RunInv, ContainerInv,
         ArtifactInv, CallbackInv, Overruled, Says, Settled, Blank, BeforeStart, BeforeWait,
         Running, AfterRun, Ended, TERMINAL_STATUSES, ApiDies, record, marks, run, sandbox,
         post, api
<1>4. \A g \in Handler : HandlerInv(g)'
  BY DEF IInv, BInv, TypeOK, HandlerInv, JobInv, QueueInv, ApiDies, record, marks, run, sandbox,
         post, api
<1>5. \A v \in Worker : WorkerInv(v)'
  BY DEF IInv, BInv, TypeOK, WorkerInv, ApiDies, record, marks, run, sandbox, post, api
<1>. QED BY <1>1, <1>2, <1>3, <1>4, <1>5, Frame DEF IInv

(* CancelLoad keeps the invariant. *)
LEMMA CancelLoadStep == ASSUME IInv, NEW h \in Handler, NEW j \in Job, CancelLoad(h, j) PROVE IInv'
<1>1. BInv'
  BY CancelLoadBase DEF IInv
<1>2. \A i \in Job \ {j} : Same(i)
  BY DEF IInv, BInv, TypeOK, Same, CancelLoad, record, marks, queue, run, sandbox, post
<1>3. JobInv(j)'
  BY DEF IInv, BInv, TypeOK, StageInv, SendInv, HandlerInv, JobInv, QueueInv, RunInv,
         ContainerInv, ArtifactInv, CallbackInv, Overruled, Says, Settled, Blank, BeforeStart,
         BeforeWait, Running, AfterRun, Ended, TERMINAL_STATUSES, CancelLoad, record, marks,
         queue, run, sandbox, post
<1>4. \A g \in Handler : HandlerInv(g)'
  BY DEF IInv, BInv, TypeOK, HandlerInv, JobInv, QueueInv, CancelLoad, record, marks, queue,
         run, sandbox, post
<1>5. \A v \in Worker : WorkerInv(v)'
  BY DEF IInv, BInv, TypeOK, WorkerInv, CancelLoad, record, marks, queue, run, sandbox, post
<1>. QED BY <1>1, <1>2, <1>3, <1>4, <1>5, Frame DEF IInv

(* CancelFlag keeps the invariant. *)
LEMMA CancelFlagStep == ASSUME IInv, NEW h \in Handler, NEW j \in Job, CancelFlag(h, j) PROVE IInv'
<1>1. BInv'
  BY CancelFlagBase DEF IInv
<1>2. \A i \in Job \ {j} : Same(i)
  BY DEF IInv, BInv, TypeOK, Same, CancelFlag, Idle, queue, run, sandbox, post
<1>3. JobInv(j)'
  BY DEF IInv, BInv, TypeOK, StageInv, SendInv, HandlerInv, JobInv, QueueInv, RunInv,
         ContainerInv, ArtifactInv, CallbackInv, Overruled, Says, Settled, Blank, BeforeStart,
         BeforeWait, Running, AfterRun, Ended, TERMINAL_STATUSES, CancelFlag, Idle, queue, run,
         sandbox, post
<1>4. \A g \in Handler : HandlerInv(g)'
  BY DEF IInv, BInv, TypeOK, HandlerInv, CancelFlag, Idle, queue, run, sandbox, post
<1>5. \A v \in Worker : WorkerInv(v)'
  BY DEF IInv, BInv, TypeOK, WorkerInv, CancelFlag, Idle, queue, run, sandbox, post
<1>. QED BY <1>1, <1>2, <1>3, <1>4, <1>5, Frame DEF IInv

(* RqCancel keeps the invariant. *)
LEMMA RqCancelStep == ASSUME IInv, NEW h \in Handler, NEW j \in Job, RqCancel(h, j) PROVE IInv'
<1>1. BInv'
  BY RqCancelBase DEF IInv
<1>2. UNCHANGED <<record, pc, run, sandbox, zip, post, promised, flaggedAt>>
  BY DEF RqCancel
<1>3. \A i \in Job : rq'[i] = IF i = j /\ rq[j] = "queued" THEN "canceled" ELSE rq[i]
  BY DEF IInv, BInv, TypeOK, RqCancel
<1>4. JobInv(j)'
  <2>1. CASE rq[j] = "queued"
    <3>1. pc[j] = "idle" /\ status[j] = "queued" /\ cancel_requested[j] /\ ~promised[j] /\ JobInv(j)
      BY <2>1 DEF IInv, BInv, StageInv, JobInv, QueueInv, HandlerInv, RqCancel
    <3>2. rq'[j] = "canceled"
      BY <1>3, <2>1
    <3>. QED BY <1>2, <3>1, <3>2 DEF JobInv, QueueInv, RunInv, ContainerInv, ArtifactInv,
           CallbackInv, Overruled, Says, Settled, Blank, BeforeStart, BeforeWait, Running,
           AfterRun, Ended, record, marks, run, sandbox, post
  <2>2. CASE rq[j] # "queued"
    <3>1. Same(j)
      BY <1>2, <1>3, <2>2 DEF Same, record, marks, run, sandbox, post
    <3>. QED BY <3>1, Frame DEF IInv
  <2>. QED BY <2>1, <2>2
<1>5. \A i \in Job \ {j} : Same(i)
  BY <1>2, <1>3 DEF Same, record, marks, run, sandbox, post
<1>6. \A g \in Handler : HandlerInv(g)'
  <2>1. rq'[j] \in {"canceled", "started", "finished"}
    BY <1>3 DEF RqCancel, RqCancels
  <2>2. ASSUME NEW g \in Handler PROVE HandlerInv(g)'
    BY <1>2, <1>3, <2>1 DEF IInv, BInv, TypeOK, HandlerInv, RqCancel, record, marks
  <2>. QED BY <2>2
<1>7. \A v \in Worker : WorkerInv(v)'
  BY <1>3 DEF IInv, BInv, TypeOK, WorkerInv, RqCancel
<1>. QED BY <1>1, <1>4, <1>5, <1>6, <1>7, Frame DEF IInv

(* RqRefuses keeps the invariant. *)
LEMMA RqRefusesStep == ASSUME IInv, NEW h \in Handler, NEW j \in Job, RqRefuses(h, j) PROVE IInv'
<1>1. BInv'
  BY RqRefusesBase DEF IInv
<1>2. \A i \in Job \ {j} : Same(i)
  BY DEF IInv, BInv, TypeOK, Same, RqRefuses, Idle, record, marks, queue, run, sandbox, post
<1>3. JobInv(j)'
  BY DEF IInv, BInv, TypeOK, StageInv, SendInv, HandlerInv, JobInv, QueueInv, RunInv,
         ContainerInv, ArtifactInv, CallbackInv, Overruled, Says, Settled, Blank, BeforeStart,
         BeforeWait, Running, AfterRun, Ended, TERMINAL_STATUSES, RqRefuses, Idle, record,
         marks, queue, run, sandbox, post
<1>4. \A g \in Handler : HandlerInv(g)'
  BY DEF IInv, BInv, TypeOK, HandlerInv, RqRefuses, Idle, record, marks, queue, run, sandbox,
         post
<1>5. \A v \in Worker : WorkerInv(v)'
  BY DEF IInv, BInv, TypeOK, WorkerInv, RqRefuses, Idle, record, marks, queue, run, sandbox,
         post
<1>. QED BY <1>1, <1>2, <1>3, <1>4, <1>5, Frame DEF IInv

(* CancelWrite keeps the invariant. *)
LEMMA CancelWriteStep ==
  ASSUME IInv, NEW h \in Handler, NEW j \in Job, CancelWrite(h, j) PROVE IInv'
<1>1. BInv'
  BY CancelWriteBase DEF IInv
<1>2. \A i \in Job \ {j} : Same(i)
  BY DEF IInv, BInv, TypeOK, Same, CancelWrite, SetStatus, Idle, marks, queue, run, sandbox,
         post
<1>3. JobInv(j)'
  <2>1. /\ rq[j] \in {"canceled", "started", "finished"} /\ status'[j] = "cancelled"
        /\ promised'[j] = TRUE /\ cancel_requested[j]
        /\ UNCHANGED <<marks, queue, pc, run, sandbox, zip, post>>
    BY DEF IInv, BInv, TypeOK, HandlerInv, CancelWrite, SetStatus
  <2>2. CASE rq[j] = "canceled"
    <3>1. pc[j] = "idle" /\ JobInv(j) /\ SendInv(j)
      BY <2>2 DEF IInv, BInv, StageInv
    <3>2. container[j] = "none" /\ payload[j] = Blank
      BY <3>1 DEF IInv, BInv, StageInv, SendInv, BeforeWait
    <3>. QED BY <2>1, <2>2, <3>1, <3>2 DEF JobInv, QueueInv, RunInv, ContainerInv, ArtifactInv,
           CallbackInv, Overruled, Says, Settled, BeforeStart, BeforeWait, Running, AfterRun,
           Ended, TERMINAL_STATUSES, marks, queue, run, sandbox, post
  <2>3. CASE rq[j] # "canceled"
    <3>1. pc[j] # "idle" /\ JobInv(j)
      BY <2>1, <2>3 DEF IInv, BInv, StageInv
    <3>2. Ended(j)' /\ \A x : Says(j, x)'
      BY <2>1, <3>1 DEF Ended, TERMINAL_STATUSES, Says, Overruled
    <3>. QED BY <2>1, <2>3, <3>1, <3>2 DEF JobInv, QueueInv, RunInv, ContainerInv, ArtifactInv,
           CallbackInv, Settled, BeforeStart, BeforeWait, Running, AfterRun, TERMINAL_STATUSES,
           marks, queue, run, sandbox, post
  <2>. QED BY <2>2, <2>3
<1>4. \A g \in Handler : HandlerInv(g)'
  BY DEF IInv, BInv, TypeOK, HandlerInv, CancelWrite, SetStatus, Idle, marks, queue, run,
         sandbox, post
<1>5. \A v \in Worker : WorkerInv(v)'
  BY DEF IInv, BInv, TypeOK, WorkerInv, CancelWrite, SetStatus, Idle, marks, queue, run,
         sandbox, post
<1>. QED BY <1>1, <1>2, <1>3, <1>4, <1>5, Frame DEF IInv

(* CancelDies keeps the invariant. *)
LEMMA CancelDiesStep == ASSUME IInv, NEW h \in Handler, CancelDies(h) PROVE IInv'
<1>1. BInv'
  BY CancelDiesBase DEF IInv
<1>2. \A i \in Job : Same(i)
  BY DEF Same, CancelDies, Idle, record, marks, queue, run, sandbox, post
<1>3. \A g \in Handler : HandlerInv(g)'
  BY DEF IInv, BInv, TypeOK, HandlerInv, CancelDies, Idle, record, marks, queue, run, sandbox,
         post
<1>4. \A v \in Worker : WorkerInv(v)'
  BY DEF IInv, BInv, TypeOK, WorkerInv, CancelDies, Idle, record, marks, queue, run, sandbox,
         post
<1>. QED BY <1>1, <1>2, <1>3, <1>4, Frame DEF IInv

(* Take keeps the invariant. *)
LEMMA TakeStep == ASSUME IInv, NEW w \in Worker, NEW j \in Job, Take(w, j) PROVE IInv'
<1>1. BInv'
  BY TakeBase DEF IInv
<1>2. \A i \in Job \ {j} : Same(i)
  BY DEF IInv, BInv, TypeOK, Same, Take, Goto, Drains, record, marks, run, sandbox, post, api
<1>3. JobInv(j)'
  BY DEF IInv, BInv, TypeOK, StageInv, SendInv, WorkerInv, JobInv, QueueInv, RunInv,
         ContainerInv, ArtifactInv, CallbackInv, Overruled, Says, Settled, Blank, BeforeStart,
         BeforeWait, Running, AfterRun, Ended, TERMINAL_STATUSES, Take, Goto, Drains, record,
         marks, run, sandbox, post, api
<1>4. \A g \in Handler : HandlerInv(g)'
  BY DEF IInv, BInv, TypeOK, HandlerInv, JobInv, QueueInv, Take, Goto, Drains, record, marks,
         run, sandbox, post, api
<1>5. \A v \in Worker : WorkerInv(v)'
  BY DEF IInv, BInv, TypeOK, WorkerInv, Take, Goto, Drains, record, marks, run, sandbox, post,
         api
<1>. QED BY <1>1, <1>2, <1>3, <1>4, <1>5, Frame DEF IInv

(* Begin keeps the invariant. *)
LEMMA BeginStep == ASSUME IInv, NEW w \in Worker, NEW j \in Job, Begin(w, j) PROVE IInv'
<1>1. BInv'
  BY BeginBase DEF IInv
<1>2. \A i \in Job \ {j} : Same(i)
  BY DEF IInv, BInv, TypeOK, Same, Begin, SetStatus, Goto, PreRunCheck, marks, queue, run,
         sandbox, post, api
<1>3. JobInv(j)'
  BY DEF IInv, BInv, TypeOK, StageInv, SendInv, WorkerInv, JobInv, QueueInv, RunInv,
         ContainerInv, ArtifactInv, CallbackInv, Overruled, Says, Settled, Blank, BeforeStart,
         BeforeWait, Running, AfterRun, Ended, TERMINAL_STATUSES, Begin, SetStatus, Goto,
         PreRunCheck, marks, queue, run, sandbox, post, api
<1>4. \A g \in Handler : HandlerInv(g)'
  BY DEF IInv, BInv, TypeOK, HandlerInv, Begin, SetStatus, Goto, PreRunCheck, marks, queue, run,
         sandbox, post, api
<1>5. \A v \in Worker : WorkerInv(v)'
  BY DEF IInv, BInv, TypeOK, WorkerInv, Begin, SetStatus, Goto, PreRunCheck, marks, queue, run,
         sandbox, post, api
<1>. QED BY <1>1, <1>2, <1>3, <1>4, <1>5, Frame DEF IInv

(* Refuse keeps the invariant. *)
LEMMA RefuseStep == ASSUME IInv, NEW j \in Job, Refuse(j) PROVE IInv'
<1>1. BInv'
  BY RefuseBase DEF IInv
<1>2. \A i \in Job \ {j} : Same(i)
  BY DEF IInv, BInv, TypeOK, Same, Refuse, SetStatus, Goto, marks, queue, run, sandbox, post,
         api
<1>3. JobInv(j)'
  BY DEF IInv, BInv, TypeOK, StageInv, SendInv, JobInv, QueueInv, RunInv, ContainerInv,
         ArtifactInv, CallbackInv, Overruled, Says, Settled, Blank, BeforeStart, BeforeWait,
         Running, AfterRun, Ended, TERMINAL_STATUSES, Refuse, SetStatus, Goto, marks, queue,
         run, sandbox, post, api
<1>4. \A g \in Handler : HandlerInv(g)'
  BY DEF IInv, BInv, TypeOK, HandlerInv, Refuse, SetStatus, Goto, marks, queue, run, sandbox,
         post, api
<1>5. \A v \in Worker : WorkerInv(v)'
  BY DEF IInv, BInv, TypeOK, WorkerInv, Refuse, SetStatus, Goto, marks, queue, run, sandbox,
         post, api
<1>. QED BY <1>1, <1>2, <1>3, <1>4, <1>5, Frame DEF IInv

(* Claim keeps the invariant. *)
LEMMA ClaimStep == ASSUME IInv, NEW j \in Job, Claim(j) PROVE IInv'
<1>1. BInv'
  BY ClaimBase DEF IInv
<1>2. \A i \in Job \ {j} : Same(i)
  BY DEF IInv, BInv, TypeOK, Same, Claim, SetStatus, Goto, marks, queue, run, sandbox, post, api
<1>3. JobInv(j)'
  BY DEF IInv, BInv, TypeOK, StageInv, SendInv, JobInv, QueueInv, RunInv, ContainerInv,
         ArtifactInv, CallbackInv, Overruled, Says, Settled, Blank, BeforeStart, BeforeWait,
         Running, AfterRun, Ended, TERMINAL_STATUSES, Claim, SetStatus, Goto, marks, queue, run,
         sandbox, post, api
<1>4. \A g \in Handler : HandlerInv(g)'
  BY DEF IInv, BInv, TypeOK, HandlerInv, Claim, SetStatus, Goto, marks, queue, run, sandbox,
         post, api
<1>5. \A v \in Worker : WorkerInv(v)'
  BY DEF IInv, BInv, TypeOK, WorkerInv, Claim, SetStatus, Goto, marks, queue, run, sandbox,
         post, api
<1>. QED BY <1>1, <1>2, <1>3, <1>4, <1>5, Frame DEF IInv

(* Launch keeps the invariant. *)
LEMMA LaunchStep == ASSUME IInv, NEW j \in Job, Launch(j) PROVE IInv'
<1>1. BInv'
  BY LaunchBase DEF IInv
<1>2. \A i \in Job \ {j} : Same(i)
  BY DEF IInv, BInv, TypeOK, Same, Launch, Goto, record, marks, queue, run, post, api
<1>3. JobInv(j)'
  BY DEF IInv, BInv, TypeOK, StageInv, SendInv, JobInv, QueueInv, RunInv, ContainerInv,
         ArtifactInv, CallbackInv, Overruled, Says, Settled, Blank, BeforeStart, BeforeWait,
         Running, AfterRun, Ended, TERMINAL_STATUSES, Launch, Goto, record, marks, queue, run,
         post, api
<1>4. \A g \in Handler : HandlerInv(g)'
  BY DEF IInv, BInv, TypeOK, HandlerInv, Launch, Goto, record, marks, queue, run, post, api
<1>5. \A v \in Worker : WorkerInv(v)'
  BY DEF IInv, BInv, TypeOK, WorkerInv, Launch, Goto, record, marks, queue, run, post, api
<1>. QED BY <1>1, <1>2, <1>3, <1>4, <1>5, Frame DEF IInv

(* ImageMissing keeps the invariant. *)
LEMMA ImageMissingStep == ASSUME IInv, NEW j \in Job, ImageMissing(j) PROVE IInv'
<1>1. BInv'
  BY ImageMissingBase DEF IInv
<1>2. \A i \in Job \ {j} : Same(i)
  BY DEF IInv, BInv, TypeOK, Same, ImageMissing, SetStatus, Goto, marks, queue, run, sandbox,
         post, api
<1>3. JobInv(j)'
  BY DEF IInv, BInv, TypeOK, StageInv, SendInv, JobInv, QueueInv, RunInv, ContainerInv,
         ArtifactInv, CallbackInv, Overruled, Says, Settled, Blank, BeforeStart, BeforeWait,
         Running, AfterRun, Ended, TERMINAL_STATUSES, ImageMissing, SetStatus, Goto, marks,
         queue, run, sandbox, post, api
<1>4. \A g \in Handler : HandlerInv(g)'
  BY DEF IInv, BInv, TypeOK, HandlerInv, ImageMissing, SetStatus, Goto, marks, queue, run,
         sandbox, post, api
<1>5. \A v \in Worker : WorkerInv(v)'
  BY DEF IInv, BInv, TypeOK, WorkerInv, ImageMissing, SetStatus, Goto, marks, queue, run,
         sandbox, post, api
<1>. QED BY <1>1, <1>2, <1>3, <1>4, <1>5, Frame DEF IInv

(* LaunchFails keeps the invariant. *)
LEMMA LaunchFailsStep == ASSUME IInv, NEW j \in Job, LaunchFails(j) PROVE IInv'
<1>1. BInv'
  BY LaunchFailsBase DEF IInv
<1>2. \A i \in Job \ {j} : Same(i)
  BY DEF IInv, BInv, TypeOK, Same, LaunchFails, Raise, Goto, EndsBy, record, marks, queue, post,
         api
<1>3. JobInv(j)'
  BY DEF IInv, BInv, TypeOK, StageInv, SendInv, JobInv, QueueInv, RunInv, ContainerInv,
         ArtifactInv, CallbackInv, Overruled, Says, Settled, Blank, BeforeStart, BeforeWait,
         Running, AfterRun, Ended, TERMINAL_STATUSES, LaunchFails, Raise, Goto, EndsBy, record,
         marks, queue, post, api
<1>4. \A g \in Handler : HandlerInv(g)'
  BY DEF IInv, BInv, TypeOK, HandlerInv, LaunchFails, Raise, Goto, EndsBy, record, marks, queue,
         post, api
<1>5. \A v \in Worker : WorkerInv(v)'
  BY DEF IInv, BInv, TypeOK, WorkerInv, LaunchFails, Raise, Goto, EndsBy, record, marks, queue,
         post, api
<1>. QED BY <1>1, <1>2, <1>3, <1>4, <1>5, Frame DEF IInv

(* ContainerExits keeps the invariant. *)
LEMMA ContainerExitsStep == ASSUME IInv, NEW j \in Job, ContainerExits(j) PROVE IInv'
<1>1. BInv'
  BY ContainerExitsBase DEF IInv
<1>2. \A i \in Job \ {j} : Same(i)
  BY DEF IInv, BInv, TypeOK, Same, ContainerExits, record, marks, queue, run, post, api
<1>3. JobInv(j)'
  BY DEF IInv, BInv, TypeOK, StageInv, SendInv, JobInv, QueueInv, RunInv, ContainerInv,
         ArtifactInv, CallbackInv, Overruled, Says, Settled, Blank, BeforeStart, BeforeWait,
         Running, AfterRun, Ended, TERMINAL_STATUSES, ContainerExits, record, marks, queue, run,
         post, api
<1>4. \A g \in Handler : HandlerInv(g)'
  BY DEF IInv, BInv, TypeOK, HandlerInv, ContainerExits, record, marks, queue, run, post, api
<1>5. \A v \in Worker : WorkerInv(v)'
  BY DEF IInv, BInv, TypeOK, WorkerInv, ContainerExits, record, marks, queue, run, post, api
<1>. QED BY <1>1, <1>2, <1>3, <1>4, <1>5, Frame DEF IInv

(* WaitReturns keeps the invariant. *)
LEMMA WaitReturnsStep == ASSUME IInv, NEW j \in Job, WaitReturns(j) PROVE IInv'
<1>1. BInv'
  BY WaitReturnsBase DEF IInv
<1>2. \A i \in Job \ {j} : Same(i)
  BY DEF IInv, BInv, TypeOK, Same, WaitReturns, Goto, EndsBy, record, marks, queue, sandbox,
         post, api
<1>3. JobInv(j)'
  BY DEF IInv, BInv, TypeOK, StageInv, SendInv, JobInv, QueueInv, RunInv, ContainerInv,
         ArtifactInv, CallbackInv, Overruled, Says, Settled, Blank, BeforeStart, BeforeWait,
         Running, AfterRun, Ended, TERMINAL_STATUSES, WaitReturns, Goto, EndsBy, record, marks,
         queue, sandbox, post, api
<1>4. \A g \in Handler : HandlerInv(g)'
  BY DEF IInv, BInv, TypeOK, HandlerInv, WaitReturns, Goto, EndsBy, record, marks, queue,
         sandbox, post, api
<1>5. \A v \in Worker : WorkerInv(v)'
  BY DEF IInv, BInv, TypeOK, WorkerInv, WaitReturns, Goto, EndsBy, record, marks, queue,
         sandbox, post, api
<1>. QED BY <1>1, <1>2, <1>3, <1>4, <1>5, Frame DEF IInv

(* WaitTimesOut keeps the invariant. *)
LEMMA WaitTimesOutStep == ASSUME IInv, NEW j \in Job, WaitTimesOut(j) PROVE IInv'
<1>1. BInv'
  BY WaitTimesOutBase DEF IInv
<1>2. \A i \in Job \ {j} : Same(i)
  BY DEF IInv, BInv, TypeOK, Same, WaitTimesOut, Goto, EndsBy, NextElapsed, TimedOut, record,
         marks, queue, sandbox, post, api
<1>3. JobInv(j)'
  BY DEF IInv, BInv, TypeOK, StageInv, SendInv, JobInv, QueueInv, RunInv, ContainerInv,
         ArtifactInv, CallbackInv, Overruled, Says, Settled, Blank, BeforeStart, BeforeWait,
         Running, AfterRun, Ended, TERMINAL_STATUSES, WaitTimesOut, Goto, EndsBy, NextElapsed,
         TimedOut, record, marks, queue, sandbox, post, api
<1>4. \A g \in Handler : HandlerInv(g)'
  BY DEF IInv, BInv, TypeOK, HandlerInv, WaitTimesOut, Goto, EndsBy, NextElapsed, TimedOut,
         record, marks, queue, sandbox, post, api
<1>5. \A v \in Worker : WorkerInv(v)'
  BY DEF IInv, BInv, TypeOK, WorkerInv, WaitTimesOut, Goto, EndsBy, NextElapsed, TimedOut,
         record, marks, queue, sandbox, post, api
<1>. QED BY <1>1, <1>2, <1>3, <1>4, <1>5, Frame DEF IInv

(* WaitFails keeps the invariant. *)
LEMMA WaitFailsStep == ASSUME IInv, NEW j \in Job, WaitFails(j) PROVE IInv'
<1>1. BInv'
  BY WaitFailsBase DEF IInv
<1>2. \A i \in Job \ {j} : Same(i)
  BY DEF IInv, BInv, TypeOK, Same, WaitFails, Raise, Goto, EndsBy, record, marks, queue,
         sandbox, post, api
<1>3. JobInv(j)'
  BY DEF IInv, BInv, TypeOK, StageInv, SendInv, JobInv, QueueInv, RunInv, ContainerInv,
         ArtifactInv, CallbackInv, Overruled, Says, Settled, Blank, BeforeStart, BeforeWait,
         Running, AfterRun, Ended, TERMINAL_STATUSES, WaitFails, Raise, Goto, EndsBy, record,
         marks, queue, sandbox, post, api
<1>4. \A g \in Handler : HandlerInv(g)'
  BY DEF IInv, BInv, TypeOK, HandlerInv, WaitFails, Raise, Goto, EndsBy, record, marks, queue,
         sandbox, post, api
<1>5. \A v \in Worker : WorkerInv(v)'
  BY DEF IInv, BInv, TypeOK, WorkerInv, WaitFails, Raise, Goto, EndsBy, record, marks, queue,
         sandbox, post, api
<1>. QED BY <1>1, <1>2, <1>3, <1>4, <1>5, Frame DEF IInv

(* Recheck keeps the invariant. *)
LEMMA RecheckStep == ASSUME IInv, NEW j \in Job, Recheck(j) PROVE IInv'
<1>1. BInv'
  BY RecheckBase DEF IInv
<1>2. \A i \in Job \ {j} : Same(i)
  BY DEF IInv, BInv, TypeOK, Same, Recheck, Goto, EndsBy, CancelSeen, record, marks, queue,
         sandbox, post, api
<1>3. JobInv(j)'
  BY DEF IInv, BInv, TypeOK, StageInv, SendInv, JobInv, QueueInv, RunInv, ContainerInv,
         ArtifactInv, CallbackInv, Overruled, Says, Settled, Blank, BeforeStart, BeforeWait,
         Running, AfterRun, Ended, TERMINAL_STATUSES, Recheck, Goto, EndsBy, CancelSeen, record,
         marks, queue, sandbox, post, api
<1>4. \A g \in Handler : HandlerInv(g)'
  BY DEF IInv, BInv, TypeOK, HandlerInv, Recheck, Goto, EndsBy, CancelSeen, record, marks,
         queue, sandbox, post, api
<1>5. \A v \in Worker : WorkerInv(v)'
  BY DEF IInv, BInv, TypeOK, WorkerInv, Recheck, Goto, EndsBy, CancelSeen, record, marks, queue,
         sandbox, post, api
<1>. QED BY <1>1, <1>2, <1>3, <1>4, <1>5, Frame DEF IInv

(* Kill keeps the invariant. *)
LEMMA KillStep == ASSUME IInv, NEW j \in Job, Kill(j) PROVE IInv'
<1>1. BInv'
  BY KillBase DEF IInv
<1>2. \A i \in Job \ {j} : Same(i)
  BY DEF IInv, BInv, TypeOK, Same, Kill, Goto, record, marks, queue, run, post, api
<1>3. JobInv(j)'
  BY DEF IInv, BInv, TypeOK, StageInv, SendInv, JobInv, QueueInv, RunInv, ContainerInv,
         ArtifactInv, CallbackInv, Overruled, Says, Settled, Blank, BeforeStart, BeforeWait,
         Running, AfterRun, Ended, TERMINAL_STATUSES, Kill, Goto, record, marks, queue, run,
         post, api
<1>4. \A g \in Handler : HandlerInv(g)'
  BY DEF IInv, BInv, TypeOK, HandlerInv, Kill, Goto, record, marks, queue, run, post, api
<1>5. \A v \in Worker : WorkerInv(v)'
  BY DEF IInv, BInv, TypeOK, WorkerInv, Kill, Goto, record, marks, queue, run, post, api
<1>. QED BY <1>1, <1>2, <1>3, <1>4, <1>5, Frame DEF IInv

(* KillRaises keeps the invariant. *)
LEMMA KillRaisesStep == ASSUME IInv, NEW j \in Job, KillRaises(j) PROVE IInv'
<1>1. BInv'
  BY KillRaisesBase DEF IInv
<1>2. \A i \in Job \ {j} : Same(i)
  BY DEF IInv, BInv, TypeOK, Same, KillRaises, Raise, Goto, EndsBy, record, marks, queue,
         sandbox, post, api
<1>3. JobInv(j)'
  BY DEF IInv, BInv, TypeOK, StageInv, SendInv, JobInv, QueueInv, RunInv, ContainerInv,
         ArtifactInv, CallbackInv, Overruled, Says, Settled, Blank, BeforeStart, BeforeWait,
         Running, AfterRun, Ended, TERMINAL_STATUSES, KillRaises, Raise, Goto, EndsBy, record,
         marks, queue, sandbox, post, api
<1>4. \A g \in Handler : HandlerInv(g)'
  BY DEF IInv, BInv, TypeOK, HandlerInv, KillRaises, Raise, Goto, EndsBy, record, marks, queue,
         sandbox, post, api
<1>5. \A v \in Worker : WorkerInv(v)'
  BY DEF IInv, BInv, TypeOK, WorkerInv, KillRaises, Raise, Goto, EndsBy, record, marks, queue,
         sandbox, post, api
<1>. QED BY <1>1, <1>2, <1>3, <1>4, <1>5, Frame DEF IInv

(* Killed keeps the invariant. *)
LEMMA KilledStep == ASSUME IInv, NEW j \in Job, Killed(j) PROVE IInv'
<1>1. BInv'
  BY KilledBase DEF IInv
<1>2. \A i \in Job \ {j} : Same(i)
  BY DEF IInv, BInv, TypeOK, Same, Killed, SetStatus, Goto, KilledStatus, marks, queue, run,
         sandbox, post, api
<1>3. JobInv(j)'
  BY DEF IInv, BInv, TypeOK, StageInv, SendInv, JobInv, QueueInv, RunInv, ContainerInv,
         ArtifactInv, CallbackInv, Overruled, Says, Settled, Blank, BeforeStart, BeforeWait,
         Running, AfterRun, Ended, TERMINAL_STATUSES, Killed, SetStatus, Goto, KilledStatus,
         marks, queue, run, sandbox, post, api
<1>4. \A g \in Handler : HandlerInv(g)'
  BY DEF IInv, BInv, TypeOK, HandlerInv, Killed, SetStatus, Goto, KilledStatus, marks, queue,
         run, sandbox, post, api
<1>5. \A v \in Worker : WorkerInv(v)'
  BY DEF IInv, BInv, TypeOK, WorkerInv, Killed, SetStatus, Goto, KilledStatus, marks, queue,
         run, sandbox, post, api
<1>. QED BY <1>1, <1>2, <1>3, <1>4, <1>5, Frame DEF IInv

(* Logs keeps the invariant. *)
LEMMA LogsStep == ASSUME IInv, NEW j \in Job, Logs(j) PROVE IInv'
<1>1. BInv'
  BY LogsBase DEF IInv
<1>2. \A i \in Job \ {j} : Same(i)
  BY DEF IInv, BInv, TypeOK, Same, Logs, Goto, record, marks, queue, run, sandbox, post, api
<1>3. JobInv(j)'
  BY DEF IInv, BInv, TypeOK, StageInv, SendInv, JobInv, QueueInv, RunInv, ContainerInv,
         ArtifactInv, CallbackInv, Overruled, Says, Settled, Blank, BeforeStart, BeforeWait,
         Running, AfterRun, Ended, TERMINAL_STATUSES, Logs, Goto, record, marks, queue, run,
         sandbox, post, api
<1>4. \A g \in Handler : HandlerInv(g)'
  BY DEF IInv, BInv, TypeOK, HandlerInv, Logs, Goto, record, marks, queue, run, sandbox, post,
         api
<1>5. \A v \in Worker : WorkerInv(v)'
  BY DEF IInv, BInv, TypeOK, WorkerInv, Logs, Goto, record, marks, queue, run, sandbox, post,
         api
<1>. QED BY <1>1, <1>2, <1>3, <1>4, <1>5, Frame DEF IInv

(* LogsRaise keeps the invariant. *)
LEMMA LogsRaiseStep == ASSUME IInv, NEW j \in Job, LogsRaise(j) PROVE IInv'
<1>1. BInv'
  BY LogsRaiseBase DEF IInv
<1>2. \A i \in Job \ {j} : Same(i)
  BY DEF IInv, BInv, TypeOK, Same, LogsRaise, Raise, Goto, EndsBy, record, marks, queue,
         sandbox, post, api
<1>3. JobInv(j)'
  BY DEF IInv, BInv, TypeOK, StageInv, SendInv, JobInv, QueueInv, RunInv, ContainerInv,
         ArtifactInv, CallbackInv, Overruled, Says, Settled, Blank, BeforeStart, BeforeWait,
         Running, AfterRun, Ended, TERMINAL_STATUSES, LogsRaise, Raise, Goto, EndsBy, record,
         marks, queue, sandbox, post, api
<1>4. \A g \in Handler : HandlerInv(g)'
  BY DEF IInv, BInv, TypeOK, HandlerInv, LogsRaise, Raise, Goto, EndsBy, record, marks, queue,
         sandbox, post, api
<1>5. \A v \in Worker : WorkerInv(v)'
  BY DEF IInv, BInv, TypeOK, WorkerInv, LogsRaise, Raise, Goto, EndsBy, record, marks, queue,
         sandbox, post, api
<1>. QED BY <1>1, <1>2, <1>3, <1>4, <1>5, Frame DEF IInv

(* Remove keeps the invariant. *)
LEMMA RemoveStep == ASSUME IInv, NEW j \in Job, Remove(j) PROVE IInv'
<1>1. BInv'
  BY RemoveBase DEF IInv
<1>2. \A i \in Job \ {j} : Same(i)
  BY DEF IInv, BInv, TypeOK, Same, Remove, Goto, AfterRemove, record, marks, queue, run, post,
         api
<1>3. JobInv(j)'
  BY DEF IInv, BInv, TypeOK, StageInv, SendInv, JobInv, QueueInv, RunInv, ContainerInv,
         ArtifactInv, CallbackInv, Overruled, Says, Settled, Blank, BeforeStart, BeforeWait,
         Running, AfterRun, Ended, TERMINAL_STATUSES, Remove, Goto, AfterRemove, record, marks,
         queue, run, post, api
<1>4. \A g \in Handler : HandlerInv(g)'
  BY DEF IInv, BInv, TypeOK, HandlerInv, Remove, Goto, AfterRemove, record, marks, queue, run,
         post, api
<1>5. \A v \in Worker : WorkerInv(v)'
  BY DEF IInv, BInv, TypeOK, WorkerInv, Remove, Goto, AfterRemove, record, marks, queue, run,
         post, api
<1>. QED BY <1>1, <1>2, <1>3, <1>4, <1>5, Frame DEF IInv

(* RemoveFails keeps the invariant. *)
LEMMA RemoveFailsStep == ASSUME IInv, NEW j \in Job, RemoveFails(j) PROVE IInv'
<1>1. BInv'
  BY RemoveFailsBase DEF IInv
<1>2. \A i \in Job \ {j} : Same(i)
  BY DEF IInv, BInv, TypeOK, Same, RemoveFails, Goto, Raise, EndsBy, AfterRemove, record, marks,
         queue, sandbox, post, api
<1>3. JobInv(j)'
  BY DEF IInv, BInv, TypeOK, StageInv, SendInv, JobInv, QueueInv, RunInv, ContainerInv,
         ArtifactInv, CallbackInv, Overruled, Says, Settled, Blank, BeforeStart, BeforeWait,
         Running, AfterRun, Ended, TERMINAL_STATUSES, RemoveFails, Goto, Raise, EndsBy,
         AfterRemove, record, marks, queue, sandbox, post, api
<1>4. \A g \in Handler : HandlerInv(g)'
  BY DEF IInv, BInv, TypeOK, HandlerInv, RemoveFails, Goto, Raise, EndsBy, AfterRemove, record,
         marks, queue, sandbox, post, api
<1>5. \A v \in Worker : WorkerInv(v)'
  BY DEF IInv, BInv, TypeOK, WorkerInv, RemoveFails, Goto, Raise, EndsBy, AfterRemove, record,
         marks, queue, sandbox, post, api
<1>. QED BY <1>1, <1>2, <1>3, <1>4, <1>5, Frame DEF IInv

(* PackStart keeps the invariant. *)
LEMMA PackStartStep == ASSUME IInv, NEW j \in Job, PackStart(j) PROVE IInv'
<1>1. BInv'
  BY PackStartBase DEF IInv
<1>2. \A i \in Job \ {j} : Same(i)
  BY DEF IInv, BInv, TypeOK, Same, PackStart, Goto, record, marks, queue, run, sandbox, post,
         api
<1>3. JobInv(j)'
  BY DEF IInv, BInv, TypeOK, StageInv, SendInv, JobInv, QueueInv, RunInv, ContainerInv,
         ArtifactInv, CallbackInv, Overruled, Says, Settled, Blank, BeforeStart, BeforeWait,
         Running, AfterRun, Ended, TERMINAL_STATUSES, PackStart, Goto, record, marks, queue,
         run, sandbox, post, api
<1>4. \A g \in Handler : HandlerInv(g)'
  BY DEF IInv, BInv, TypeOK, HandlerInv, PackStart, Goto, record, marks, queue, run, sandbox,
         post, api
<1>5. \A v \in Worker : WorkerInv(v)'
  BY DEF IInv, BInv, TypeOK, WorkerInv, PackStart, Goto, record, marks, queue, run, sandbox,
         post, api
<1>. QED BY <1>1, <1>2, <1>3, <1>4, <1>5, Frame DEF IInv

(* NoOutput keeps the invariant. *)
LEMMA NoOutputStep == ASSUME IInv, NEW j \in Job, NoOutput(j) PROVE IInv'
<1>1. BInv'
  BY NoOutputBase DEF IInv
<1>2. \A i \in Job \ {j} : Same(i)
  BY DEF IInv, BInv, TypeOK, Same, NoOutput, Goto, record, marks, queue, run, sandbox, post, api
<1>3. JobInv(j)'
  BY DEF IInv, BInv, TypeOK, StageInv, SendInv, JobInv, QueueInv, RunInv, ContainerInv,
         ArtifactInv, CallbackInv, Overruled, Says, Settled, Blank, BeforeStart, BeforeWait,
         Running, AfterRun, Ended, TERMINAL_STATUSES, NoOutput, Goto, record, marks, queue, run,
         sandbox, post, api
<1>4. \A g \in Handler : HandlerInv(g)'
  BY DEF IInv, BInv, TypeOK, HandlerInv, NoOutput, Goto, record, marks, queue, run, sandbox,
         post, api
<1>5. \A v \in Worker : WorkerInv(v)'
  BY DEF IInv, BInv, TypeOK, WorkerInv, NoOutput, Goto, record, marks, queue, run, sandbox,
         post, api
<1>. QED BY <1>1, <1>2, <1>3, <1>4, <1>5, Frame DEF IInv

(* PackDone keeps the invariant. *)
LEMMA PackDoneStep == ASSUME IInv, NEW j \in Job, PackDone(j) PROVE IInv'
<1>1. BInv'
  BY PackDoneBase DEF IInv
<1>2. \A i \in Job \ {j} : Same(i)
  BY DEF IInv, BInv, TypeOK, Same, PackDone, Goto, record, marks, queue, run, sandbox, post, api
<1>3. JobInv(j)'
  BY DEF IInv, BInv, TypeOK, StageInv, SendInv, JobInv, QueueInv, RunInv, ContainerInv,
         ArtifactInv, CallbackInv, Overruled, Says, Settled, Blank, BeforeStart, BeforeWait,
         Running, AfterRun, Ended, TERMINAL_STATUSES, PackDone, Goto, record, marks, queue, run,
         sandbox, post, api
<1>4. \A g \in Handler : HandlerInv(g)'
  BY DEF IInv, BInv, TypeOK, HandlerInv, PackDone, Goto, record, marks, queue, run, sandbox,
         post, api
<1>5. \A v \in Worker : WorkerInv(v)'
  BY DEF IInv, BInv, TypeOK, WorkerInv, PackDone, Goto, record, marks, queue, run, sandbox,
         post, api
<1>. QED BY <1>1, <1>2, <1>3, <1>4, <1>5, Frame DEF IInv

(* PackFails keeps the invariant. *)
LEMMA PackFailsStep == ASSUME IInv, NEW j \in Job, PackFails(j) PROVE IInv'
<1>1. BInv'
  BY PackFailsBase DEF IInv
<1>2. \A i \in Job \ {j} : Same(i)
  BY DEF IInv, BInv, TypeOK, Same, PackFails, Raise, Goto, EndsBy, record, marks, queue,
         sandbox, post, api
<1>3. JobInv(j)'
  BY DEF IInv, BInv, TypeOK, StageInv, SendInv, JobInv, QueueInv, RunInv, ContainerInv,
         ArtifactInv, CallbackInv, Overruled, Says, Settled, Blank, BeforeStart, BeforeWait,
         Running, AfterRun, Ended, TERMINAL_STATUSES, PackFails, Raise, Goto, EndsBy, record,
         marks, queue, sandbox, post, api
<1>4. \A g \in Handler : HandlerInv(g)'
  BY DEF IInv, BInv, TypeOK, HandlerInv, PackFails, Raise, Goto, EndsBy, record, marks, queue,
         sandbox, post, api
<1>5. \A v \in Worker : WorkerInv(v)'
  BY DEF IInv, BInv, TypeOK, WorkerInv, PackFails, Raise, Goto, EndsBy, record, marks, queue,
         sandbox, post, api
<1>. QED BY <1>1, <1>2, <1>3, <1>4, <1>5, Frame DEF IInv

(* Finish keeps the invariant. *)
LEMMA FinishStep == ASSUME IInv, NEW j \in Job, Finish(j) PROVE IInv'
<1>1. BInv'
  BY FinishBase DEF IInv
<1>2. \A i \in Job \ {j} : Same(i)
  BY DEF IInv, BInv, TypeOK, Same, Finish, SetStatus, Goto, queue, run, sandbox, post, api
<1>3. JobInv(j)'
  <2>1. /\ status'[j] \in {"success", "failed"} /\ pc'[j] = "report"
        /\ status'[j] = "success" \/ files'[j] => zip[j] # "none"
    <3>1. /\ status \in [Job -> Status] /\ files \in [Job -> BOOLEAN]
          /\ pc' = [pc EXCEPT ![j] = "report"] /\ j \in DOMAIN pc
      BY DEF IInv, BInv, TypeOK, Finish, Goto
    <3>2. /\ status'[j] \in {"success", "failed"}
          /\ status'[j] = "success" => zip[j] # "none"
      BY <3>1 DEF Finish, SetStatus
    <3>3. files'[j] => zip[j] # "none"
      BY <3>1 DEF Finish
    <3>. QED BY <3>1, <3>2, <3>3
  <2>2. /\ UNCHANGED <<cancel_requested, callback_status, rq, worker, ending, elapsed>>
        /\ UNCHANGED <<container, StatusCode, zip, payload, told, promised>>
    BY DEF Finish, queue, run, sandbox, post, api
  <2>3. /\ payload[j] = Blank /\ told[j] = {} /\ zip[j] # "partial"
        /\ rq[j] \notin {"none", "recorded", "lost", "queued", "canceled"}
        /\ ending[j] = "exited" /\ container[j] # "running" /\ pc[j] = "finish"
    BY DEF IInv, BInv, StageInv, SendInv, JobInv, QueueInv, RunInv, ContainerInv, ArtifactInv,
           CallbackInv, BeforeStart, BeforeWait, AfterRun, Running, Finish
  <2>4. JobInv(j)
    BY DEF IInv
  <2>5. QueueInv(j)'
    BY <2>1, <2>2, <2>3, <2>4 DEF JobInv, QueueInv
  <2>6. zip[j] \in {"none", "complete"}
    BY <2>3 DEF IInv, BInv, TypeOK
  <2>. QED
    BY <2>1, <2>2, <2>3, <2>5, <2>6 DEF JobInv, RunInv, ContainerInv, ArtifactInv, CallbackInv,
       Overruled, Says, Settled, BeforeStart, BeforeWait, Running, AfterRun, Ended,
       TERMINAL_STATUSES
<1>4. \A g \in Handler : HandlerInv(g)'
  BY DEF IInv, BInv, TypeOK, HandlerInv, Finish, SetStatus, Goto, queue, run, sandbox, post, api
<1>5. \A v \in Worker : WorkerInv(v)'
  BY DEF IInv, BInv, TypeOK, WorkerInv, Finish, SetStatus, Goto, queue, run, sandbox, post, api
<1>. QED BY <1>1, <1>2, <1>3, <1>4, <1>5, Frame DEF IInv

(* Report keeps the invariant. *)
LEMMA ReportStep == ASSUME IInv, NEW j \in Job, Report(j) PROVE IInv'
<1>1. BInv'
  BY ReportBase DEF IInv
<1>2. \A i \in Job \ {j} : Same(i)
  BY DEF IInv, BInv, TypeOK, Same, Report, Goto, record, marks, queue, run, sandbox, api
<1>3. JobInv(j)'
  <2>1. CASE j \in WithCallback
    <3>1. /\ payload' = [payload EXCEPT ![j] = [status |-> status[j], artifact_url |-> zip[j]]]
          /\ pc' = [pc EXCEPT ![j] = "post"]
      BY <2>1 DEF Report, Goto
    <3>. QED
      BY <3>1 DEF IInv, BInv, TypeOK, StageInv, SendInv, JobInv, QueueInv, RunInv, ContainerInv,
             ArtifactInv, CallbackInv, Overruled, Says, Settled, Blank, BeforeStart, BeforeWait,
             Running, AfterRun, Ended, TERMINAL_STATUSES, Report, record, marks, queue, run,
             sandbox, api
  <2>2. CASE j \notin WithCallback
    <3>1. payload' = payload /\ pc' = [pc EXCEPT ![j] = "prune"]
      BY <2>2 DEF Report, Goto
    <3>. QED
      BY <3>1 DEF IInv, BInv, TypeOK, StageInv, SendInv, JobInv, QueueInv, RunInv, ContainerInv,
             ArtifactInv, CallbackInv, Overruled, Says, Settled, Blank, BeforeStart, BeforeWait,
             Running, AfterRun, Ended, TERMINAL_STATUSES, Report, record, marks, queue, run,
             sandbox, api
  <2>. QED BY <2>1, <2>2
<1>4. \A g \in Handler : HandlerInv(g)'
  BY DEF IInv, BInv, TypeOK, HandlerInv, Report, Goto, record, marks, queue, run, sandbox, api
<1>5. \A v \in Worker : WorkerInv(v)'
  BY DEF IInv, BInv, TypeOK, WorkerInv, Report, Goto, record, marks, queue, run, sandbox, api
<1>. QED BY <1>1, <1>2, <1>3, <1>4, <1>5, Frame DEF IInv

(* Blocked keeps the invariant. *)
LEMMA BlockedStep == ASSUME IInv, NEW j \in Job, Blocked(j) PROVE IInv'
<1>1. BInv'
  BY BlockedBase DEF IInv
<1>2. \A i \in Job \ {j} : Same(i)
  BY DEF IInv, BInv, TypeOK, Same, Blocked, Goto, queue, run, sandbox, post, api
<1>3. JobInv(j)'
  BY DEF IInv, BInv, TypeOK, StageInv, SendInv, JobInv, QueueInv, RunInv, ContainerInv,
         ArtifactInv, CallbackInv, Overruled, Says, Settled, Blank, BeforeStart, BeforeWait,
         Running, AfterRun, Ended, TERMINAL_STATUSES, Blocked, Goto, queue, run, sandbox, post,
         api
<1>4. \A g \in Handler : HandlerInv(g)'
  BY DEF IInv, BInv, TypeOK, HandlerInv, Blocked, Goto, queue, run, sandbox, post, api
<1>5. \A v \in Worker : WorkerInv(v)'
  BY DEF IInv, BInv, TypeOK, WorkerInv, Blocked, Goto, queue, run, sandbox, post, api
<1>. QED BY <1>1, <1>2, <1>3, <1>4, <1>5, Frame DEF IInv

(* Arrives keeps the invariant. *)
LEMMA ArrivesStep == ASSUME IInv, NEW j \in Job, Arrives(j) PROVE IInv'
<1>1. BInv'
  BY ArrivesBase DEF IInv
<1>2. \A i \in Job \ {j} : Same(i)
  BY DEF IInv, BInv, TypeOK, Same, Arrives, Blank, record, marks, queue, run, sandbox, api
<1>3. JobInv(j)'
  BY DEF IInv, BInv, TypeOK, StageInv, SendInv, JobInv, QueueInv, RunInv, ContainerInv,
         ArtifactInv, CallbackInv, Overruled, Says, Settled, Blank, BeforeStart, BeforeWait,
         Running, AfterRun, Ended, TERMINAL_STATUSES, Arrives, Blank, record, marks, queue, run,
         sandbox, api
<1>4. \A g \in Handler : HandlerInv(g)'
  BY DEF IInv, BInv, TypeOK, HandlerInv, Arrives, Blank, record, marks, queue, run, sandbox, api
<1>5. \A v \in Worker : WorkerInv(v)'
  BY DEF IInv, BInv, TypeOK, WorkerInv, Arrives, Blank, record, marks, queue, run, sandbox, api
<1>. QED BY <1>1, <1>2, <1>3, <1>4, <1>5, Frame DEF IInv

(* Post keeps the invariant. *)
LEMMA PostStep == ASSUME IInv, NEW j \in Job, Post(j) PROVE IInv'
<1>1. BInv'
  BY PostBase DEF IInv
<1>2. \A i \in Job \ {j} : Same(i)
  BY DEF IInv, BInv, TypeOK, Same, Post, Goto, queue, run, sandbox, post, api
<1>3. JobInv(j)'
  BY DEF IInv, BInv, TypeOK, StageInv, SendInv, JobInv, QueueInv, RunInv, ContainerInv,
         ArtifactInv, CallbackInv, Overruled, Says, Settled, Blank, BeforeStart, BeforeWait,
         Running, AfterRun, Ended, TERMINAL_STATUSES, Post, Goto, queue, run, sandbox, post, api
<1>4. \A g \in Handler : HandlerInv(g)'
  BY DEF IInv, BInv, TypeOK, HandlerInv, Post, Goto, queue, run, sandbox, post, api
<1>5. \A v \in Worker : WorkerInv(v)'
  BY DEF IInv, BInv, TypeOK, WorkerInv, Post, Goto, queue, run, sandbox, post, api
<1>. QED BY <1>1, <1>2, <1>3, <1>4, <1>5, Frame DEF IInv

(* Return keeps the invariant. *)
LEMMA ReturnStep == ASSUME IInv, NEW w \in Worker, NEW j \in Job, Return(w, j) PROVE IInv'
<1>1. BInv'
  BY ReturnBase DEF IInv
<1>2. \A i \in Job \ {j} : Same(i)
  BY DEF IInv, BInv, TypeOK, Same, Return, Goto, record, marks, run, sandbox, post, api
<1>3. JobInv(j)'
  BY DEF IInv, BInv, TypeOK, StageInv, SendInv, WorkerInv, JobInv, QueueInv, RunInv,
         ContainerInv, ArtifactInv, CallbackInv, Overruled, Says, Settled, Blank, BeforeStart,
         BeforeWait, Running, AfterRun, Ended, TERMINAL_STATUSES, Return, Goto, record, marks,
         run, sandbox, post, api
<1>4. \A g \in Handler : HandlerInv(g)'
  BY DEF IInv, BInv, TypeOK, HandlerInv, JobInv, QueueInv, WorkerInv, Return, Goto, record,
         marks, run, sandbox, post, api
<1>5. \A v \in Worker : WorkerInv(v)'
  BY MembersAssumption DEF IInv, BInv, TypeOK, WorkerInv, Return, Goto, record, marks, run,
         sandbox, post, api
<1>. QED BY <1>1, <1>2, <1>3, <1>4, <1>5, Frame DEF IInv

(* Crash keeps the invariant. *)
LEMMA CrashStep == ASSUME IInv, NEW w \in Worker, NEW j \in Job, Crash(w, j) PROVE IInv'
<1>1. BInv'
  BY CrashBase DEF IInv
<1>2. \A i \in Job \ {j} : Same(i)
  BY DEF IInv, BInv, TypeOK, Same, Crash, Goto, record, marks, run, sandbox, post, api
<1>3. JobInv(j)'
  BY DEF IInv, BInv, TypeOK, StageInv, SendInv, WorkerInv, JobInv, QueueInv, RunInv,
         ContainerInv, ArtifactInv, CallbackInv, Overruled, Says, Settled, Blank, BeforeStart,
         BeforeWait, Running, AfterRun, Ended, TERMINAL_STATUSES, Crash, Goto, record, marks,
         run, sandbox, post, api
<1>4. \A g \in Handler : HandlerInv(g)'
  BY DEF IInv, BInv, TypeOK, HandlerInv, JobInv, QueueInv, WorkerInv, Crash, Goto, record,
         marks, run, sandbox, post, api
<1>5. \A v \in Worker : WorkerInv(v)'
  BY MembersAssumption DEF IInv, BInv, TypeOK, WorkerInv, Crash, Goto, record, marks, run,
         sandbox, post, api
<1>. QED BY <1>1, <1>2, <1>3, <1>4, <1>5, Frame DEF IInv

--------------------------------------------------------------------------------
(* The invariant holds: one step lemma per action. *)

(* A step that changes nothing keeps the invariant. *)
LEMMA StutterStep == ASSUME IInv, UNCHANGED vars PROVE IInv'
<1>1. BInv'
  BY StutterBase DEF IInv
<1>2. \A i \in Job : Same(i)
  BY DEF Same, vars, record, marks, queue, run, sandbox, post, api
<1>3. \A g \in Handler : HandlerInv(g)'
  BY DEF IInv, HandlerInv, vars, record, marks, queue, api
<1>4. \A v \in Worker : WorkerInv(v)'
  BY DEF IInv, WorkerInv, vars, queue
<1>. QED BY <1>1, <1>2, <1>3, <1>4, Frame DEF IInv

(* Every step keeps the invariant. *)
LEMMA Inductive == ASSUME IInv, [Next]_vars PROVE IInv'
<1>1. ASSUME NEW j \in Job, Submission(j) PROVE IInv'
  BY <1>1, RecordStep, EnqueueStep, ApiDiesStep DEF Submission
<1>2. ASSUME NEW j \in Job, ContainerExits(j) \/ Arrives(j) PROVE IInv'
  BY <1>2, ContainerExitsStep, ArrivesStep
<1>3. ASSUME NEW j \in Job, RunStep(j) PROVE IInv'
  <2>1. CASE \E w \in Worker : Begin(w, j) \/ Return(w, j)
    BY <2>1, BeginStep, ReturnStep
  <2>2. CASE Refuse(j) \/ Claim(j) \/ Launch(j) \/ ImageMissing(j) \/ LaunchFails(j)
    BY <2>2, RefuseStep, ClaimStep, LaunchStep, ImageMissingStep, LaunchFailsStep
  <2>3. CASE Waiting(j)
    BY <2>3, WaitReturnsStep, WaitTimesOutStep, WaitFailsStep, RecheckStep, KillStep,
       KillRaisesStep, KilledStep, LogsStep, LogsRaiseStep, RemoveStep, RemoveFailsStep DEF Waiting
  <2>4. CASE Ending(j)
    BY <2>4, PackStartStep, NoOutputStep, PackDoneStep, PackFailsStep, FinishStep,
       ReportStep, BlockedStep, PostStep DEF Ending
  <2>. QED BY <1>3, <2>1, <2>2, <2>3, <2>4 DEF RunStep
<1>4. ASSUME NEW h \in Handler, NEW j \in Job, CancelLoad(h, j) \/ Cancelling(h, j) PROVE IInv'
  BY <1>4, CancelLoadStep, CancelFlagStep, RqCancelStep, RqRefusesStep, CancelWriteStep
     DEF Cancelling
<1>5. ASSUME NEW h \in Handler, CancelDies(h) PROVE IInv'
  BY <1>5, CancelDiesStep
<1>6. ASSUME NEW w \in Worker, NEW j \in Job, Take(w, j) \/ Crash(w, j) PROVE IInv'
  BY <1>6, TakeStep, CrashStep
<1>7. CASE UNCHANGED vars
  BY <1>7, StutterStep
<1>. QED BY <1>1, <1>2, <1>3, <1>4, <1>5, <1>6, <1>7 DEF Next

(* The invariant holds in every reachable state. *)
LEMMA Invariant == Spec => []IInv
<1>1. IInv /\ [Next]_vars => IInv'
  BY Inductive
<1>. QED BY InitInv, <1>1, PTL DEF Spec

--------------------------------------------------------------------------------
(* What follows from the invariant. *)

(* The record says how a job ended only when its container is stopped,     *)
(* except while a run that a handler overruled goes on (_run_sandboxed).   *)
THEOREM ContainerStopsFirstCorrect == Spec => []ContainerStopsFirst
<1>1. IInv => ContainerStopsFirst
  BY DEF IInv, JobInv, ContainerInv, ContainerStopsFirst, Says, Ended, TERMINAL_STATUSES
<1>. QED BY Invariant, <1>1, PTL

(* Nobody is served half an artifact, or misses one that was promised      *)
(* (_artifact and get_generated_file, api.py; _zip_dir, build.py).         *)
THEOREM ServedArtifactCorrect == Spec => []ServedArtifactIsComplete
<1>1. IInv => ServedArtifactIsComplete
  BY DEF IInv, BInv, TypeOK, JobInv, ArtifactInv, ServedArtifactIsComplete, ArtifactServed,
         FilesServed, Says, Ended, TERMINAL_STATUSES
<1>. QED BY Invariant, <1>1, PTL

(* A callback tells what the record says from then on, but for a           *)
(* "cancelled" written over it, and the outcome unless an exception escaped *)
(* (send_callback, notify.py).                                             *)
THEOREM CallbackCorrect == Spec => []CallbackReportsOutcome
<1>1. ASSUME IInv PROVE CallbackReportsOutcome
  <2>1. SUFFICES ASSUME NEW j \in Job, NEW p \in told[j]
                 PROVE  /\ Says(j, p.status) /\ p.artifact_url = zip[j]
                        /\ p.status \in TERMINAL_STATUSES \/ ending[j] = "raised"
    BY DEF CallbackReportsOutcome
  <2>2. CallbackInv(j) /\ told[j] # {}
    BY <1>1, <2>1 DEF IInv, JobInv
  <2>3. p = payload[j] /\ payload[j] # Blank
    BY <2>2 DEF CallbackInv
  <2>. QED BY <2>2, <2>3 DEF CallbackInv
<1>. QED BY Invariant, <1>1, PTL

--------------------------------------------------------------------------------
(* The contract.  Most steps change nothing a client is promised. *)

(* A step leaves it as it is which jobs are overruled. *)
OverruledKept == \A i \in Job : Overruled(i)' = Overruled(i)

(* The run of a job, or of another one, does so ... *)
LEMMA RunKeeps == ASSUME TypeOK, NEW j \in Job, RunStep(j) PROVE OverruledKept
<1>. SUFFICES ASSUME NEW i \in Job PROVE Overruled(i)' = Overruled(i)
  BY DEF OverruledKept
<1>1. promised'[i] = promised[i] /\ (pc'[i] = "idle" <=> pc[i] = "idle")
  <2>1. CASE \E w \in Worker : Begin(w, j) \/ Return(w, j)
    BY <2>1 DEF TypeOK, Begin, Return, PreRunCheck, Goto, api
  <2>2. CASE Refuse(j) \/ Claim(j) \/ Launch(j) \/ ImageMissing(j) \/ LaunchFails(j)
    BY <2>2 DEF TypeOK, Refuse, Claim, Launch, ImageMissing, LaunchFails, Raise, Goto, api
  <2>3. CASE Waiting(j)
    BY <2>3 DEF TypeOK, Waiting, WaitReturns, WaitTimesOut, WaitFails, Recheck, Kill, KillRaises,
           Killed, Logs, LogsRaise, Remove, RemoveFails, AfterRemove, Raise, Goto, api
  <2>4. CASE Ending(j)
    BY <2>4 DEF TypeOK, Ending, PackStart, NoOutput, PackDone, PackFails, Finish, Report, Blocked,
           Post, Raise, Goto, api
  <2>. QED BY <2>1, <2>2, <2>3, <2>4 DEF RunStep
<1>. QED BY <1>1 DEF Overruled

(* ... and so does every step but the write of a cancel handler. *)
LEMMA StepKeeps ==
  ASSUME IInv, [Next]_vars, ~\E h \in Handler, j \in Job : CancelWrite(h, j)
  PROVE  OverruledKept
<1>. TypeOK
  BY DEF IInv, BInv
<1>1. ASSUME NEW j \in Job, Submission(j) \/ ContainerExits(j) \/ Arrives(j) PROVE OverruledKept
  BY <1>1 DEF OverruledKept, Overruled, Submission, Record, Enqueue, ApiDies, ContainerExits,
         Arrives, api
<1>2. ASSUME NEW j \in Job, RunStep(j) PROVE OverruledKept
  BY <1>2, RunKeeps
<1>3. ASSUME NEW h \in Handler, NEW j \in Job, CancelLoad(h, j) \/ Cancelling(h, j)
      PROVE  OverruledKept
  BY <1>3 DEF OverruledKept, Overruled, CancelLoad, Cancelling, CancelFlag, RqCancel, RqRefuses
<1>4. ASSUME NEW h \in Handler, CancelDies(h) PROVE OverruledKept
  BY <1>4 DEF OverruledKept, Overruled, CancelDies
<1>5. ASSUME NEW w \in Worker, NEW j \in Job, Take(w, j) PROVE OverruledKept
  <2>1. ~promised[j] /\ pc' = [pc EXCEPT ![j] = "begin"] /\ promised' = promised
    BY <1>5 DEF IInv, JobInv, QueueInv, Take, Goto, api
  <2>. QED BY <2>1 DEF OverruledKept, Overruled, TypeOK
<1>6. ASSUME NEW w \in Worker, NEW j \in Job, Crash(w, j) PROVE OverruledKept
  <2>1. pc[j] # "idle" /\ pc' = [pc EXCEPT ![j] = "dead"] /\ promised' = promised
    BY <1>6 DEF IInv, BInv, StageInv, WorkerInv, Crash, Goto, api
  <2>. QED BY <2>1 DEF OverruledKept, Overruled, TypeOK
<1>7. CASE UNCHANGED vars
  BY <1>7 DEF OverruledKept, Overruled, vars, api
<1>. QED BY <1>1, <1>2, <1>3, <1>4, <1>5, <1>6, <1>7 DEF Next

(* The steps that leave the status, the flag and what was told alone. *)
LEMMA QuietSteps ==
  ASSUME NEW j \in Job, NEW h, NEW w,
         \/ Enqueue(j) \/ ApiDies(j) \/ ContainerExits(j)
         \/ CancelLoad(h, j) \/ RqCancel(h, j) \/ RqRefuses(h, j) \/ CancelDies(h)
         \/ Take(w, j) \/ Crash(w, j) \/ Return(w, j)
         \/ Launch(j) \/ LaunchFails(j)
         \/ WaitReturns(j) \/ WaitTimesOut(j) \/ WaitFails(j) \/ Recheck(j)
         \/ Kill(j) \/ KillRaises(j)
         \/ Logs(j) \/ LogsRaise(j) \/ Remove(j) \/ RemoveFails(j)
         \/ PackStart(j) \/ NoOutput(j) \/ PackDone(j) \/ PackFails(j)
         \/ Report(j) \/ Blocked(j) \/ Post(j)
  PROVE  UNCHANGED <<status, cancel_requested, told>>
  BY DEF Enqueue, ApiDies, ContainerExits, CancelLoad, RqCancel, RqRefuses, CancelDies,
         Take, Crash, Return, Launch, LaunchFails, WaitReturns, WaitTimesOut, WaitFails, Recheck,
         Kill, KillRaises, Logs, LogsRaise, Remove, RemoveFails, PackStart, NoOutput, PackDone,
         PackFails, Report, Blocked, Post, record, marks, post

(* Such a step is a stutter of the contract. *)
LEMMA QuietMaps ==
  ASSUME UNCHANGED <<status, cancel_requested, told>>, OverruledKept
  PROVE  UNCHANGED Contract!cvars
  BY DEF OverruledKept, Contract!cvars

(* A submission is accepted. *)
LEMMA RecordMaps ==
  ASSUME IInv, OverruledKept, NEW j \in Job, Record(j) PROVE Contract!Accept(j)
  BY DEF IInv, BInv, TypeOK, JobInv, QueueInv, OverruledKept, Record, SetStatus, marks, post,
         Contract!Accept

(* The flag is the request the contract hears of. *)
LEMMA CancelFlagMaps ==
  ASSUME IInv, OverruledKept, NEW h \in Handler, NEW j \in Job, CancelFlag(h, j)
  PROVE  Contract!Ask(j)
  BY DEF IInv, BInv, TypeOK, HandlerInv, JobInv, QueueInv, OverruledKept, CancelFlag, post,
         Contract!Ask

(* The job starts. *)
LEMMA ClaimMaps ==
  ASSUME IInv, OverruledKept, NEW j \in Job, Claim(j) PROVE Contract!Start(j)
<1>1. Says(j, "queued") /\ told[j] = {}
  BY DEF IInv, BInv, SendInv, JobInv, RunInv, CallbackInv, BeforeStart, Claim
<1>. QED BY <1>1 DEF OverruledKept, Says, Claim, SetStatus, marks, post, Contract!Start,
         Contract!StillRuns

(* The writes of a final status. *)
LEMMA EndMaps ==
  ASSUME OverruledKept, NEW j \in Job, NEW s \in TERMINAL_STATUSES,
         Says(j, "queued") \/ Says(j, "running"), told[j] = {},
         s = "success" => Says(j, "running"),
         s = "cancelled" => cancel_requested[j],
         SetStatus(j, s), UNCHANGED <<cancel_requested, told>>
  PROVE  Contract!End(j, s) /\ s \in Contract!Ended
  BY DEF OverruledKept, Says, SetStatus, TERMINAL_STATUSES, Contract!End, Contract!Ended,
         Contract!StillRuns

(* Each final write of a run ends the job as the contract allows. *)
LEMMA FinalWritesMap ==
  ASSUME IInv, OverruledKept, NEW j \in Job,
         Refuse(j) \/ ImageMissing(j) \/ Killed(j) \/ Finish(j)
  PROVE  \E s \in Contract!Ended : Contract!End(j, s)
<1>. JobInv(j) /\ SendInv(j)
  BY DEF IInv, BInv
<1>. USE DEF JobInv, SendInv, RunInv, CallbackInv, BeforeStart, Running, marks, post, record
<1>1. CASE Refuse(j)
  <2>. /\ SetStatus(j, "cancelled") /\ UNCHANGED <<cancel_requested, told>>
       /\ Says(j, "queued") /\ cancel_requested[j] /\ told[j] = {}
    BY <1>1 DEF Refuse
  <2>. QED BY EndMaps DEF TERMINAL_STATUSES
<1>2. CASE ImageMissing(j)
  <2>. /\ SetStatus(j, "failed") /\ UNCHANGED <<cancel_requested, told>>
       /\ Says(j, "running") /\ told[j] = {}
    BY <1>2 DEF ImageMissing
  <2>. QED BY EndMaps DEF TERMINAL_STATUSES
<1>3. CASE Killed(j)
  <2>. DEFINE s == KilledStatus(ending[j])
  <2>. /\ SetStatus(j, s) /\ UNCHANGED <<cancel_requested, told>>
       /\ Says(j, "running") /\ told[j] = {}
    BY <1>3 DEF Killed
  <2>. s \in TERMINAL_STATUSES /\ s # "success" /\ (s = "cancelled" => cancel_requested[j])
    BY DEF KilledStatus, TERMINAL_STATUSES
  <2>. QED BY EndMaps
<1>4. CASE Finish(j)
  <2>. DEFINE s == IF StatusCode[j] = "zero" /\ zip[j] # "none" THEN "success" ELSE "failed"
  <2>. /\ SetStatus(j, s) /\ UNCHANGED <<cancel_requested, told>>
       /\ Says(j, "running") /\ told[j] = {}
    BY <1>4 DEF Finish
  <2>. s \in TERMINAL_STATUSES /\ s # "cancelled"
    BY DEF TERMINAL_STATUSES
  <2>. QED BY EndMaps
<1>. QED BY <1>1, <1>2, <1>3, <1>4

(* A misconfigured worker fails the job; another decides nothing yet. *)
LEMMA BeginMaps ==
  ASSUME IInv, OverruledKept, NEW w \in Worker, NEW j \in Job, Begin(w, j)
  PROVE  Contract!End(j, "failed") \/ UNCHANGED Contract!cvars
<1>1. CASE w \in Misconfigured
  <2>. /\ SetStatus(j, "failed") /\ UNCHANGED <<cancel_requested, told>>
       /\ Says(j, "queued") /\ told[j] = {}
    BY <1>1 DEF IInv, BInv, SendInv, JobInv, RunInv, CallbackInv, BeforeStart, Begin, marks, post
  <2>. QED BY EndMaps DEF TERMINAL_STATUSES
<1>2. CASE w \notin Misconfigured
  BY <1>2, QuietMaps DEF Begin, marks, post
<1>. QED BY <1>1, <1>2

(* The handler writes "cancelled" for a job it took off the queue, or once  *)
(* more, or overrules the worker that has the job.                          *)
LEMMA CancelWriteMaps ==
  ASSUME IInv, NEW h \in Handler, NEW j \in Job, CancelWrite(h, j)
  PROVE  [Contract!Next]_(Contract!cvars)
<1>1. /\ cancel_requested[j] /\ SetStatus(j, "cancelled") /\ rq[j] # "none"
      /\ promised' = [promised EXCEPT ![j] = TRUE]
      /\ UNCHANGED <<cancel_requested, told, pc>>
  BY DEF IInv, HandlerInv, CancelWrite, marks, post
<1>2. CASE pc[j] = "idle"
  <2>1. OverruledKept
    BY <1>1, <1>2 DEF IInv, BInv, TypeOK, OverruledKept, Overruled
  <2>2. status[j] \in {"queued", "cancelled"} /\ told[j] = {}
    BY <1>2 DEF IInv, BInv, StageInv, SendInv, HandlerInv, JobInv, QueueInv, CallbackInv,
           CancelWrite
  <2>3. CASE status[j] = "queued"
    BY <1>1, <2>1, <2>2, <2>3, EndMaps DEF Says, TERMINAL_STATUSES, Contract!Next
  <2>4. CASE status[j] = "cancelled"
    BY <1>1, <2>1, <2>4, QuietMaps DEF IInv, BInv, TypeOK, SetStatus
  <2>. QED BY <2>2, <2>3, <2>4
<1>3. CASE pc[j] # "idle"
  <2>1. [i \in Job |-> Overruled(i)]' = [[i \in Job |-> Overruled(i)] EXCEPT ![j] = TRUE]
    BY <1>1, <1>3 DEF IInv, BInv, TypeOK, Overruled
  <2>2. status[j] # "absent"
    BY <1>1 DEF IInv, JobInv, QueueInv
  <2>3. Contract!Overrule(j)
    BY <1>1, <2>1, <2>2 DEF SetStatus, Contract!Overrule
  <2>. QED BY <2>3 DEF Contract!Next
<1>. QED BY <1>2, <1>3

(* What arrives is what the record says, or said when the payload was read. *)
LEMMA ArrivesMaps ==
  ASSUME IInv, OverruledKept, NEW j \in Job, Arrives(j)
  PROVE  Contract!Next
<1>. PICK s : s = payload[j].status
  OBVIOUS
<1>1. Says(j, s) /\ s \in {"running"} \cup Contract!Ended
  BY DEF IInv, JobInv, CallbackInv, Arrives, TERMINAL_STATUSES, Contract!Ended
<1>2. told' = [told EXCEPT ![j] = @ \cup {payload[j]}]
  BY DEF Arrives
<1>3. UNCHANGED <<status, cancel_requested>>
  BY DEF Arrives, record, marks
<1>4. {p.status : p \in told'[j]} = {p.status : p \in told[j]} \cup {s}
  BY <1>2 DEF IInv, BInv, TypeOK
<1>5. \A i \in Job \ {j} : told'[i] = told[i]
  BY <1>2 DEF IInv, BInv, TypeOK
<1>6. Contract!Tell(j, s)
  BY <1>1, <1>3, <1>4, <1>5 DEF OverruledKept, Says, Contract!Tell, Contract!StillRuns
<1>. QED BY <1>1, <1>6 DEF Contract!Next

(* Every step is a step or a stutter of the contract. *)
LEMMA ContractStep == ASSUME IInv, [Next]_vars PROVE [Contract!Next]_(Contract!cvars)
<1>. CASE \E h \in Handler, j \in Job : CancelWrite(h, j)
  BY CancelWriteMaps
<1>. SUFFICES ASSUME ~\E h \in Handler, j \in Job : CancelWrite(h, j)
              PROVE  [Contract!Next]_(Contract!cvars)
  OBVIOUS
<1>. OverruledKept
  BY StepKeeps
<1>1. ASSUME NEW j \in Job, Submission(j) PROVE [Contract!Next]_(Contract!cvars)
  BY <1>1, RecordMaps, QuietSteps, QuietMaps DEF Submission, Contract!Next
<1>2. ASSUME NEW j \in Job, ContainerExits(j) \/ Arrives(j)
      PROVE  [Contract!Next]_(Contract!cvars)
  <2>1. CASE Arrives(j)
    BY <2>1, ArrivesMaps
  <2>2. CASE ContainerExits(j)
    BY <2>2, QuietSteps, QuietMaps
  <2>. QED BY <1>2, <2>1, <2>2
<1>3. ASSUME NEW j \in Job, RunStep(j) PROVE [Contract!Next]_(Contract!cvars)
  <2>1. ASSUME NEW w \in Worker, Begin(w, j) \/ Return(w, j)
        PROVE  [Contract!Next]_(Contract!cvars)
    <3>1. CASE Begin(w, j)
      BY <3>1, BeginMaps DEF Contract!Next, Contract!Ended
    <3>2. CASE Return(w, j)
      BY <3>2, QuietSteps, QuietMaps
    <3>. QED BY <2>1, <3>1, <3>2
  <2>2. CASE Claim(j)
    BY <2>2, ClaimMaps DEF Contract!Next
  <2>3. CASE Refuse(j) \/ ImageMissing(j) \/ Killed(j) \/ Finish(j)
    BY <2>3, FinalWritesMap DEF Contract!Next
  <2>4. CASE Launch(j) \/ LaunchFails(j)
    BY <2>4, QuietSteps, QuietMaps
  <2>5. CASE Waiting(j) /\ ~Killed(j)
    BY <2>5, QuietSteps, QuietMaps DEF Waiting
  <2>6. CASE Ending(j) /\ ~Finish(j)
    BY <2>6, QuietSteps, QuietMaps DEF Ending
  <2>. QED BY <1>3, <2>1, <2>2, <2>3, <2>4, <2>5, <2>6 DEF RunStep
<1>4. ASSUME NEW h \in Handler, NEW j \in Job, CancelLoad(h, j) \/ Cancelling(h, j)
      PROVE  [Contract!Next]_(Contract!cvars)
  <2>1. CASE CancelFlag(h, j)
    BY <2>1, CancelFlagMaps DEF Contract!Next
  <2>2. CASE CancelLoad(h, j) \/ RqCancel(h, j) \/ RqRefuses(h, j)
    BY <2>2, QuietSteps, QuietMaps
  <2>. QED BY <1>4, <2>1, <2>2 DEF Cancelling
<1>5. ASSUME NEW h \in Handler, CancelDies(h) PROVE UNCHANGED Contract!cvars
  BY <1>5, QuietMaps DEF CancelDies, record, marks, post
<1>6. ASSUME NEW w \in Worker, NEW j \in Job, Take(w, j) \/ Crash(w, j)
      PROVE  UNCHANGED Contract!cvars
  BY <1>6, QuietSteps, QuietMaps
<1>7. CASE UNCHANGED vars
  BY <1>7, QuietMaps DEF vars, record, marks, post
<1>. QED BY <1>1, <1>2, <1>3, <1>4, <1>5, <1>6, <1>7 DEF Next

(* Record, flag and callbacks behave as the contract says (JobContract),     *)
(* whatever RQ's cancel() does with a job that a worker took.              *)
THEOREM ContractCorrect == Spec => ImplementsContract
<1>1. Init => Contract!Init
  <2>. SUFFICES ASSUME Init PROVE Contract!Init
    OBVIOUS
  <2>1. [j \in Job |-> Overruled(j)] = [j \in Job |-> FALSE]
    BY DEF Init, Overruled
  <2>2. \A j \in Job : {p.status : p \in told[j]} = {}
    BY DEF Init
  <2>3. [j \in Job |-> {p.status : p \in told[j]}] = [j \in Job |-> {}]
    BY <2>2
  <2>. QED BY <2>1, <2>3 DEF Init, Contract!Init
<1>2. IInv /\ [Next]_vars => [Contract!Next]_(Contract!cvars)
  BY ContractStep
<1>. QED BY <1>1, <1>2, Invariant, PTL DEF Spec, Contract!Spec, ImplementsContract

--------------------------------------------------------------------------------
(* Outcomes are final. *)

(* The steps that leave the status, the files and the artifact alone. *)
LEMMA OutcomeUntouched ==
  ASSUME NEW j \in Job, NEW h, NEW w,
         \/ Enqueue(j) \/ ApiDies(j) \/ ContainerExits(j)
         \/ CancelLoad(h, j) \/ CancelFlag(h, j) \/ RqCancel(h, j) \/ RqRefuses(h, j)
         \/ CancelDies(h) \/ Take(w, j) \/ Crash(w, j) \/ Return(w, j)
         \/ Launch(j) \/ LaunchFails(j)
         \/ WaitReturns(j) \/ WaitTimesOut(j) \/ WaitFails(j) \/ Recheck(j)
         \/ Kill(j) \/ KillRaises(j)
         \/ Logs(j) \/ LogsRaise(j) \/ Remove(j) \/ RemoveFails(j)
         \/ NoOutput(j) \/ PackFails(j) \/ Report(j) \/ Blocked(j) \/ Post(j) \/ Arrives(j)
  PROVE  UNCHANGED <<status, files, zip>>
  BY DEF Enqueue, ApiDies, ContainerExits, CancelLoad, CancelFlag, RqCancel, RqRefuses,
         CancelDies, Take, Crash, Return, Launch, LaunchFails, WaitReturns, WaitTimesOut,
         WaitFails, Recheck, Kill, KillRaises, Logs, LogsRaise, Remove, RemoveFails, NoOutput,
         PackFails, Report, Blocked, Post, Arrives, record, marks

Kept(i) == status'[i] = status[i] /\ files'[i] = files[i] /\ zip'[i] = zip[i]

(* A handler wrote "cancelled" for a job whose run goes on. *)
Reopened(i) == Overruled(i) /\ status[i] = "cancelled" /\ ~Settled(i)

(* The others act on a job that has not ended, unless it was overruled, and *)
(* on no other job.                                                         *)
LEMMA RunOutcome ==
  ASSUME IInv, NEW j \in Job,
         \/ Record(j) \/ Refuse(j) \/ Claim(j) \/ ImageMissing(j) \/ Killed(j)
         \/ PackStart(j) \/ PackDone(j) \/ Finish(j),
         NEW i \in Job, Ended(i)
  PROVE  Kept(i) \/ Reopened(i)
<1>1. CASE i = j
  <2>1. rq[j] # "none"
    BY <1>1 DEF IInv, JobInv, QueueInv, Ended, TERMINAL_STATUSES
  <2>2. pc[j] \in BeforeStart \cup Running
    BY <2>1 DEF BeforeStart, Running, Record, Refuse, Claim, ImageMissing, Killed, PackStart,
           PackDone, Finish
  <2>. QED BY <1>1, <2>2 DEF IInv, JobInv, RunInv, Says, Reopened, Settled, BeforeStart, Running,
         Ended, TERMINAL_STATUSES
<1>2. CASE i # j
  <2>1. status'[i] = status[i]
    BY <1>2 DEF IInv, BInv, TypeOK, SetStatus, record, marks,
           Record, Refuse, Claim, ImageMissing, Killed, PackStart, PackDone, Finish
  <2>2. files'[i] = files[i] /\ zip'[i] = zip[i]
    BY <1>2 DEF IInv, BInv, TypeOK, record, marks,
           Record, Refuse, Claim, ImageMissing, Killed, PackStart, PackDone, Finish
  <2>. QED BY <2>1, <2>2 DEF Kept
<1>. QED BY <1>1, <1>2

(* So does the worker that takes a job. *)
LEMMA BeginOutcome ==
  ASSUME IInv, NEW w \in Worker, NEW j \in Job, Begin(w, j), NEW i \in Job, Ended(i)
  PROVE  Kept(i) \/ Reopened(i)
<1>1. CASE i = j
  BY <1>1 DEF IInv, JobInv, RunInv, Says, Reopened, Settled, BeforeStart, Ended,
         TERMINAL_STATUSES, Begin
<1>2. CASE i # j
  BY <1>2 DEF IInv, BInv, TypeOK, Begin, SetStatus, marks, Kept
<1>. QED BY <1>1, <1>2

(* A cancel handler writes "cancelled", over nothing else unless a worker  *)
(* has the job, and then over the status only.                             *)
LEMMA CancelWriteOutcome ==
  ASSUME IInv, NEW h \in Handler, NEW j \in Job, CancelWrite(h, j), NEW i \in Job, Ended(i)
  PROVE  Kept(i) \/ (Overruled(i)' /\ Shown(i)' = [Shown(i) EXCEPT !.status = "cancelled"])
<1>1. /\ status' = [status EXCEPT ![j] = "cancelled"] /\ promised' = [promised EXCEPT ![j] = TRUE]
      /\ UNCHANGED <<files, zip, pc>>
  BY DEF CancelWrite, SetStatus, marks
<1>2. CASE i # j
  BY <1>1, <1>2 DEF IInv, BInv, TypeOK, Kept
<1>3. CASE i = j /\ pc[j] = "idle"
  <2>1. rq[j] = "canceled"
    BY <1>3 DEF IInv, BInv, StageInv, HandlerInv, CancelWrite
  <2>2. status[j] = "cancelled"
    BY <1>3, <2>1 DEF IInv, JobInv, QueueInv, Ended, TERMINAL_STATUSES
  <2>. QED BY <1>1, <1>3, <2>2 DEF IInv, BInv, TypeOK, Kept
<1>4. CASE i = j /\ pc[j] # "idle"
  <2>1. Overruled(i)'
    BY <1>1, <1>4 DEF IInv, BInv, TypeOK, Overruled
  <2>2. status'[i] = "cancelled"
    BY <1>1, <1>4 DEF IInv, BInv, TypeOK
  <2>. QED BY <1>1, <2>1, <2>2 DEF Shown
<1>. QED BY <1>2, <1>3, <1>4

(* What every step may do to an outcome. *)
OutcomeChange(i) ==
  \/ Kept(i)
  \/ Overruled(i)' /\ Shown(i)' = [Shown(i) EXCEPT !.status = "cancelled"]
  \/ Reopened(i)

(* No step does anything else. *)
LEMMA OutcomeStep ==
  ASSUME IInv, [Next]_vars, NEW i \in Job, Ended(i) PROVE OutcomeChange(i)
<1>. USE DEF OutcomeChange
<1>1. ASSUME NEW j \in Job, Submission(j) \/ ContainerExits(j) \/ Arrives(j)
      PROVE  OutcomeChange(i)
  BY <1>1, RunOutcome, OutcomeUntouched DEF Submission, Kept
<1>2. ASSUME NEW j \in Job, RunStep(j) PROVE OutcomeChange(i)
  <2>1. ASSUME NEW w \in Worker, Begin(w, j) \/ Return(w, j) PROVE OutcomeChange(i)
    BY <2>1, BeginOutcome, OutcomeUntouched DEF Kept
  <2>2. CASE Refuse(j) \/ Claim(j) \/ Launch(j) \/ ImageMissing(j) \/ LaunchFails(j)
    BY <2>2, RunOutcome, OutcomeUntouched DEF Kept
  <2>3. CASE Waiting(j)
    BY <2>3, RunOutcome, OutcomeUntouched DEF Waiting, Kept
  <2>4. CASE Ending(j)
    BY <2>4, RunOutcome, OutcomeUntouched DEF Ending, Kept
  <2>. QED BY <1>2, <2>1, <2>2, <2>3, <2>4 DEF RunStep
<1>3. ASSUME NEW h \in Handler, NEW j \in Job, CancelLoad(h, j) \/ Cancelling(h, j)
      PROVE  OutcomeChange(i)
  BY <1>3, CancelWriteOutcome, OutcomeUntouched DEF Cancelling, Kept
<1>4. ASSUME NEW h \in Handler, CancelDies(h) PROVE OutcomeChange(i)
  BY <1>4, OutcomeUntouched DEF Kept
<1>5. ASSUME NEW w \in Worker, NEW j \in Job, Take(w, j) \/ Crash(w, j) PROVE OutcomeChange(i)
  BY <1>5, OutcomeUntouched DEF Kept
<1>6. CASE UNCHANGED vars
  BY <1>6 DEF Kept, vars, record, marks
<1>. QED BY <1>1, <1>2, <1>3, <1>4, <1>5, <1>6 DEF Next

(* What a client has seen finished changes only if a cancel handler has      *)
(* overruled the run, and then in no other way than these (_cancel, api.py,  *)
(* against _run_sandboxed, build.py).                                       *)
THEOREM OutcomeStandsCorrect == Spec => OutcomeStands
<1>1. ASSUME IInv, [Next]_vars, NEW j \in Job, Ended(j)
      PROVE  \/ Shown(j)' = Shown(j)
             \/ Overruled(j)' /\ Shown(j)' = [Shown(j) EXCEPT !.status = "cancelled"]
             \/ Overruled(j) /\ status[j] = "cancelled" /\ ~Settled(j)
  BY <1>1, OutcomeStep DEF OutcomeChange, Kept, Reopened, Shown
<1>2. IInv /\ [Next]_vars =>
        [\A j \in Job : Ended(j) =>
           \/ Shown(j)' = Shown(j)
           \/ Overruled(j)' /\ Shown(j)' = [Shown(j) EXCEPT !.status = "cancelled"]
           \/ Overruled(j) /\ status[j] = "cancelled" /\ ~Settled(j)]_vars
  BY <1>1
<1>. QED BY <1>2, Invariant, PTL DEF Spec, OutcomeStands
================================================================================
