------------------------------ MODULE JobLifecycle ------------------------------
(***************************************************************************)
(* One job from POST /builds or /generate to its completion callback: the  *)
(* Redis record (Store), the RQ queues, the worker that runs the job in a  *)
(* sibling container (build.py), the cancel handlers of the API (api.py)   *)
(* and the callback (notify.py), all interleaved.                          *)
(*                                                                         *)
(* A step is what happens between two points where another process can be  *)
(* seen or can see: one read or write of the record, one call to RQ or to  *)
(* the Docker daemon, one POST.  The record never expires here (Retention  *)
(* is about that), and the queue is a set: nothing below depends on the    *)
(* order in which a worker takes the jobs of its queue.                    *)
(***************************************************************************)
EXTENDS Integers

CONSTANTS
  Job,            \* the jobs that may be submitted
  KindOf,         \* KindOf[j]: "build" or "generate", the endpoint it comes by
  Worker,         \* the RQ worker processes
  Serves,         \* Serves[w]: the kind of jobs in the queue worker w drains
  Misconfigured,  \* the workers whose HOST_DATA_DIR is unset
  WithCallback,   \* the jobs submitted with a callback_url
  Handler,        \* the API threads that serve cancel requests
  NoJob,          \* what an idle worker or handler works on
  Timeout,        \* sandbox.timeout
  PollInterval,   \* settings.build_poll_interval
  Faults          \* what else may go wrong: see FaultKinds

Kind == {"build", "generate"}

(* "api": the API process dies inside a request.  "crash": a worker dies.   *)
(* "docker": any call to the Docker daemon fails.  "disk": a job dir cannot *)
(* be written.                                                              *)
FaultKinds == {"api", "crash", "docker", "disk"}

ASSUME KindAssumption == KindOf \in [Job -> Kind] /\ Serves \in [Worker -> Kind]
ASSUME MembersAssumption ==
  NoJob \notin Job /\ Misconfigured \subseteq Worker /\ WithCallback \subseteq Job
ASSUME TimeAssumption == Timeout \in Nat \ {0} /\ PollInterval \in Nat \ {0}
ASSUME FaultsAssumption == Faults \subseteq FaultKinds

VARIABLES
  status,            \* the record: its "status", "absent" before store.create
  cancel_requested,  \* the record: "cancel_requested" is "1"
  files,             \* the record: "files" lists what the artifact holds
  callback_status,   \* the record: "callback_status"
  rq,                \* where RQ has the job
  worker,            \* worker[w]: the job worker w executes
  pc,                \* the next step of the job's _run_job
  ending,            \* how the container's part of the run ended
  elapsed,           \* elapsed of _wait_for_container
  container,         \* the job's container, as the Docker daemon has it
  StatusCode,        \* the exit code the container left
  zip,               \* jobs/<id>/output.zip
  payload,           \* the callback body the run is sending
  told,              \* the bodies the initiating host has received
  handler,           \* the cancel requests being served
  promised,          \* history: a cancel was answered with "cancelled"
  flaggedAt          \* history: elapsed when cancel_requested was first set

marks   == <<cancel_requested, files, callback_status>>
record  == <<status, marks>>
queue   == <<rq, worker>>
run     == <<ending, elapsed>>
sandbox == <<container, StatusCode>>
post    == <<payload, told>>
api     == <<handler, promised, flaggedAt>>
vars    == <<record, queue, pc, run, sandbox, zip, post, api>>

TERMINAL_STATUSES == {"success", "failed", "cancelled"}
Status == {"absent", "queued", "running"} \cup TERMINAL_STATUSES
Payload == [status : Status, artifact_url : {"none", "partial", "complete"}]

Blank == [status |-> "absent", artifact_url |-> "none"]
Idle == [at |-> "idle", job |-> NoJob, seen |-> "absent"]

Init ==
  /\ status = [j \in Job |-> "absent"]
  /\ cancel_requested = [j \in Job |-> FALSE]
  /\ files = [j \in Job |-> FALSE]
  /\ callback_status = [j \in Job |-> "none"]
  /\ rq = [j \in Job |-> "none"]
  /\ worker = [w \in Worker |-> NoJob]
  /\ pc = [j \in Job |-> "idle"]
  /\ ending = [j \in Job |-> "none"]
  /\ elapsed = [j \in Job |-> 0]
  /\ container = [j \in Job |-> "none"]
  /\ StatusCode = [j \in Job |-> "none"]
  /\ zip = [j \in Job |-> "none"]
  /\ payload = [j \in Job |-> Blank]
  /\ told = [j \in Job |-> {}]
  /\ handler = [h \in Handler |-> Idle]
  /\ promised = [j \in Job |-> FALSE]
  /\ flaggedAt = [j \in Job |-> 0]

SetStatus(j, s) == status' = [status EXCEPT ![j] = s]
Goto(j, p) == pc' = [pc EXCEPT ![j] = p]
EndsBy(j, e) == ending' = [ending EXCEPT ![j] = e]

(* Mutant: the exception leaves _run_job at once. *)
RaiseOut(j, p) == EndsBy(j, "raised") /\ Goto(j, "done")

(* An exception that nothing in _run_sandboxed catches: a finally is next. *)
Raise(j, p) == EndsBy(j, "raised") /\ Goto(j, p)

--------------------------------------------------------------------------------
(* The API: submission, and the cancel handler. *)

(* _intake: store.create. *)
Record(j) ==
  /\ rq[j] = "none"
  /\ SetStatus(j, "queued")
  /\ rq' = [rq EXCEPT ![j] = "recorded"]
  /\ UNCHANGED <<marks, worker, pc, run, sandbox, zip, post, api>>

(* create_build, create_generate: the enqueue, then the 202 with the id. *)
Enqueue(j) ==
  /\ rq[j] = "recorded"
  /\ rq' = [rq EXCEPT ![j] = "queued"]
  /\ UNCHANGED <<record, worker, pc, run, sandbox, zip, post, api>>

(* The API dies between the two: a record, and no job. *)
ApiDies(j) ==
  /\ "api" \in Faults
  /\ rq[j] = "recorded"
  /\ rq' = [rq EXCEPT ![j] = "lost"]
  /\ UNCHANGED <<record, worker, pc, run, sandbox, zip, post, api>>

(* _cancel: _load and the 409 of a finished job.  A client has the id only *)
(* from a 202, so from a job that was enqueued.                            *)
CancelLoad(h, j) ==
  /\ handler[h].at = "idle"
  /\ rq[j] \notin {"none", "recorded", "lost"}
  /\ status[j] \notin TERMINAL_STATUSES
  /\ handler' = [handler EXCEPT ![h] = [at |-> "flag", job |-> j, seen |-> status[j]]]
  /\ UNCHANGED <<record, queue, pc, run, sandbox, zip, post, promised, flaggedAt>>

(* _cancel: store.update(cancel_requested="1"), whatever the job does now. *)
CancelFlag(h, j) ==
  /\ handler[h].at = "flag" /\ handler[h].job = j
  /\ cancel_requested' = [cancel_requested EXCEPT ![j] = TRUE]
  /\ flaggedAt' = IF cancel_requested[j] THEN flaggedAt
                  ELSE [flaggedAt EXCEPT ![j] = elapsed[j]]
  /\ handler' = [handler EXCEPT ![h] = IF @.seen = "queued" THEN [@ EXCEPT !.at = "dequeue"]
                                       ELSE Idle]
  /\ UNCHANGED <<status, files, callback_status, queue, pc, run, sandbox, zip, post,
                 promised>>

(* rq.Job.cancel() does not raise: of a job that a worker took it may, as    *)
(* api.py:196-197 expects, or may not (RqRefuses is the other case; the      *)
(* version of RQ is not pinned).  A worker that has the job keeps it.        *)
RqCancels(j) == rq[j] \in {"queued", "started", "finished"}

(* _cancel: rq.Job.cancel(), on the status read before the flag. *)
RqCancel(h, j) ==
  /\ handler[h].at = "dequeue" /\ handler[h].job = j
  /\ RqCancels(j)
  /\ rq' = IF rq[j] = "queued" THEN [rq EXCEPT ![j] = "canceled"] ELSE rq
  /\ handler' = [handler EXCEPT ![h].at = "write"]
  /\ UNCHANGED <<record, worker, pc, run, sandbox, zip, post, promised, flaggedAt>>

(* ... and its NoSuchJobError or InvalidJobOperation: answer "cancel_requested". *)
RqRefuses(h, j) ==
  /\ handler[h].at = "dequeue" /\ handler[h].job = j
  /\ rq[j] # "queued"
  /\ handler' = [handler EXCEPT ![h] = Idle]
  /\ UNCHANGED <<record, queue, pc, run, sandbox, zip, post, promised, flaggedAt>>

(* _cancel: store.update(status="cancelled"), and the answer "cancelled". *)
CancelWrite(h, j) ==
  /\ handler[h].at = "write" /\ handler[h].job = j
  /\ SetStatus(j, "cancelled")
  /\ promised' = [promised EXCEPT ![j] = TRUE]
  /\ handler' = [handler EXCEPT ![h] = Idle]
  /\ UNCHANGED <<marks, queue, pc, run, sandbox, zip, post, flaggedAt>>

(* The API dies while it serves a cancel request. *)
CancelDies(h) ==
  /\ "api" \in Faults
  /\ handler[h].at # "idle"
  /\ handler' = [handler EXCEPT ![h] = Idle]
  /\ UNCHANGED <<record, queue, pc, run, sandbox, zip, post, promised, flaggedAt>>

--------------------------------------------------------------------------------
(* The worker: _run_job, up to the container. *)

(* Mutant: one queue for both kinds. *)
DrainsAny(w, j) == TRUE

(* build_queue and generate_queue each have a worker service of their own. *)
Drains(w, j) == Serves[w] = KindOf[j]

(* RQ hands the job to a worker of its queue: run_build or run_generate. *)
Take(w, j) ==
  /\ worker[w] = NoJob
  /\ Drains(w, j)
  /\ rq[j] = "queued"
  /\ worker' = [worker EXCEPT ![w] = j]
  /\ rq' = [rq EXCEPT ![j] = "started"]
  /\ Goto(j, "begin")
  /\ UNCHANGED <<record, run, sandbox, zip, post, api>>

(* Mutant: there is no pre-run check. *)
NoPreRunCheck(j) == "claim"

(* The pre-run check of the flag. *)
PreRunCheck(j) == IF cancel_requested[j] THEN "refused" ELSE "claim"

(* _run_sandboxed: the HOST_DATA_DIR check, and the read for the pre-run check. *)
Begin(w, j) ==
  /\ worker[w] = j /\ pc[j] = "begin"
  /\ IF w \in Misconfigured
     THEN SetStatus(j, "failed") /\ Goto(j, "report")
     ELSE /\ Goto(j, PreRunCheck(j))
          /\ UNCHANGED status
  /\ UNCHANGED <<marks, queue, run, sandbox, zip, post, api>>

(* The pre-run check found the flag. *)
Refuse(j) ==
  /\ pc[j] = "refused"
  /\ SetStatus(j, "cancelled")
  /\ Goto(j, "report")
  /\ UNCHANGED <<marks, queue, run, sandbox, zip, post, api>>

(* store.update(status="running"). *)
Claim(j) ==
  /\ pc[j] = "claim"
  /\ SetStatus(j, "running")
  /\ Goto(j, "launch")
  /\ UNCHANGED <<marks, queue, run, sandbox, zip, post, api>>

(* client.containers.run. *)
Launch(j) ==
  /\ pc[j] = "launch"
  /\ container' = [container EXCEPT ![j] = "running"]
  /\ Goto(j, "wait")
  /\ UNCHANGED <<record, queue, run, StatusCode, zip, post, api>>

(* except ImageNotFound. *)
ImageMissing(j) ==
  /\ pc[j] = "launch"
  /\ SetStatus(j, "failed")
  /\ Goto(j, "report")
  /\ UNCHANGED <<marks, queue, run, sandbox, zip, post, api>>

(* The job dir (chmod) or the daemon fails.  containers.run may have created *)
(* the container, or even started it, when it raises (the answer to the start *)
(* may be what is lost): nothing refers to that container any more.          *)
LaunchFails(j) ==
  /\ pc[j] = "launch"
  /\ \/ Faults \cap {"docker", "disk"} # {} /\ UNCHANGED container
     \/ /\ "docker" \in Faults
        /\ \E c \in {"created", "running"} : container' = [container EXCEPT ![j] = c]
  /\ Raise(j, "report")
  /\ UNCHANGED <<record, queue, elapsed, StatusCode, zip, post, api>>

(* The job's own command ends in the container, at any time or never. *)
ContainerExits(j) ==
  /\ container[j] = "running"
  /\ container' = [container EXCEPT ![j] = "exited"]
  /\ \E c \in {"zero", "nonzero"} : StatusCode' = [StatusCode EXCEPT ![j] = c]
  /\ UNCHANGED <<record, queue, pc, run, zip, post, api>>

--------------------------------------------------------------------------------
(* The worker: _wait_for_container, and the end of the container. *)

(* container.wait returns. *)
WaitReturns(j) ==
  /\ pc[j] = "wait" /\ container[j] = "exited"
  /\ EndsBy(j, "exited")
  /\ Goto(j, "logs")
  /\ UNCHANGED <<record, queue, elapsed, sandbox, zip, post, api>>

(* Mutant: elapsed does not advance. *)
NoPoll(e) == e

NextElapsed(e) == e + PollInterval

(* Mutant: the timeout is noticed one poll late. *)
TimedOutLate(e) == e >= Timeout + PollInterval

TimedOut(e) == e >= Timeout

(* container.wait raises ReadTimeout, or ConnectionError: a whole poll passed. *)
WaitTimesOut(j) ==
  /\ pc[j] = "wait"
  /\ container[j] = "running" \/ "docker" \in Faults
  /\ elapsed' = [elapsed EXCEPT ![j] = NextElapsed(@)]
  /\ IF TimedOut(elapsed'[j])
     THEN EndsBy(j, "timeout") /\ Goto(j, "kill")
     ELSE Goto(j, "recheck") /\ UNCHANGED ending
  /\ UNCHANGED <<record, queue, sandbox, zip, post, api>>

(* container.wait raises APIError, which nothing in _run_sandboxed catches. *)
WaitFails(j) ==
  /\ pc[j] = "wait"
  /\ "docker" \in Faults
  /\ Raise(j, "remove")
  /\ UNCHANGED <<record, queue, elapsed, sandbox, zip, post, api>>

(* Mutant: the poll loop does not read the record. *)
CancelUnseen(j) == FALSE

CancelSeen(j) == cancel_requested[j]

(* The poll loop reads cancel_requested. *)
Recheck(j) ==
  /\ pc[j] = "recheck"
  /\ IF CancelSeen(j)
     THEN EndsBy(j, "cancel") /\ Goto(j, "kill")
     ELSE Goto(j, "wait") /\ UNCHANGED ending
  /\ UNCHANGED <<record, queue, elapsed, sandbox, zip, post, api>>

(* Mutant: the container is left to remove(). *)
KillLater(j) ==
  /\ pc[j] = "kill" /\ container[j] = "running"
  /\ Goto(j, "killed")
  /\ UNCHANGED <<record, queue, run, sandbox, zip, post, api>>

(* container.kill(), for a cancel or for the timeout. *)
Kill(j) ==
  /\ pc[j] = "kill" /\ container[j] = "running"
  /\ container' = [container EXCEPT ![j] = "exited"]
  /\ Goto(j, "killed")
  /\ UNCHANGED <<record, queue, run, StatusCode, zip, post, api>>

(* container.kill() raises APIError: Docker refuses to kill a container that *)
(* is no longer running.  No handler of _run_sandboxed catches that.         *)
KillRaises(j) ==
  /\ pc[j] = "kill"
  /\ container[j] = "exited" \/ "docker" \in Faults
  /\ Raise(j, "remove")
  /\ UNCHANGED <<record, queue, elapsed, sandbox, zip, post, api>>

(* Mutants: the reason as the status, and one status for both reasons. *)
KilledStatusReason(e) == e
KilledStatusAlike(e) == "cancelled"

KilledStatus(e) == IF e = "cancel" THEN "cancelled" ELSE "failed"

(* container.logs(), and the update that says why it was killed. *)
Killed(j) ==
  /\ pc[j] = "killed"
  /\ SetStatus(j, KilledStatus(ending[j]))
  /\ Goto(j, "remove")
  /\ UNCHANGED <<marks, queue, run, sandbox, zip, post, api>>

(* container.logs() of a container that ended by itself. *)
Logs(j) ==
  /\ pc[j] = "logs"
  /\ Goto(j, "remove")
  /\ UNCHANGED <<record, queue, run, sandbox, zip, post, api>>

LogsRaise(j) ==
  /\ pc[j] \in {"killed", "logs"}
  /\ "docker" \in Faults
  /\ Raise(j, "remove")
  /\ UNCHANGED <<record, queue, elapsed, sandbox, zip, post, api>>

(* Mutants: every run takes the return of the killed ones, and none does. *)
AfterRemoveReturn(j) == "report"
AfterRemovePack(j) == "pack"

(* On to the output, unless the run returned or raised before the finally. *)
AfterRemove(j) == IF ending[j] = "exited" THEN "pack" ELSE "report"

(* The finally: remove(force=True), which also kills. *)
Remove(j) ==
  /\ pc[j] = "remove"
  /\ container' = [container EXCEPT ![j] = "gone"]
  /\ Goto(j, AfterRemove(j))
  /\ UNCHANGED <<record, queue, run, StatusCode, zip, post, api>>

(* remove raises APIError, which is swallowed, or something else, which is not. *)
RemoveFails(j) ==
  /\ pc[j] = "remove"
  /\ "docker" \in Faults
  /\ \/ Goto(j, AfterRemove(j)) /\ UNCHANGED ending
     \/ Raise(j, "report")
  /\ UNCHANGED <<record, queue, elapsed, sandbox, zip, post, api>>

--------------------------------------------------------------------------------
(* The worker: the output, the final status, the callback. *)

(* has_output, and _zip_dir opens output.zip at its final place. *)
PackStart(j) ==
  /\ pc[j] = "pack"
  /\ zip' = [zip EXCEPT ![j] = "partial"]
  /\ Goto(j, "packing")
  /\ UNCHANGED <<record, queue, run, sandbox, post, api>>

(* There is no output directory. *)
NoOutput(j) ==
  /\ pc[j] = "pack"
  /\ Goto(j, "finish")
  /\ UNCHANGED <<record, queue, run, sandbox, zip, post, api>>

PackDone(j) ==
  /\ pc[j] = "packing"
  /\ zip' = [zip EXCEPT ![j] = "complete"]
  /\ Goto(j, "finish")
  /\ UNCHANGED <<record, queue, run, sandbox, post, api>>

(* Mutant: a failing _zip_dir is logged and the run goes on. *)
PackFailsSilently(j) ==
  /\ pc[j] \in {"pack", "packing"}
  /\ "disk" \in Faults
  /\ Goto(j, "finish")
  /\ UNCHANGED <<record, queue, run, sandbox, zip, post, api>>

(* _zip_dir raises. *)
PackFails(j) ==
  /\ pc[j] \in {"pack", "packing"}
  /\ "disk" \in Faults
  /\ Raise(j, "report")
  /\ UNCHANGED <<record, queue, elapsed, sandbox, zip, post, api>>

(* The update that ends a run whose container ended by itself.  Only a     *)
(* generate job lists its files (and not when it made none).               *)
Finish(j) ==
  /\ pc[j] = "finish"
  /\ SetStatus(j, IF StatusCode[j] = "zero" /\ zip[j] # "none" THEN "success" ELSE "failed")
  /\ files' = [files EXCEPT ![j] = KindOf[j] = "generate" /\ zip[j] # "none"]
  /\ Goto(j, "report")
  /\ UNCHANGED <<cancel_requested, callback_status, queue, run, sandbox, zip, post, api>>

(* send_callback: read the record and look for output.zip, once, or skip. *)
Report(j) ==
  /\ pc[j] = "report"
  /\ IF j \in WithCallback
     THEN /\ payload' = [payload EXCEPT ![j] = [status |-> status[j], artifact_url |-> zip[j]]]
          /\ Goto(j, "post")
     ELSE Goto(j, "prune") /\ UNCHANGED payload
  /\ UNCHANGED <<record, queue, run, sandbox, zip, told, api>>

(* Mutant: the return is missing, and the payload is sent all the same. *)
BlockedGoesOn(j) ==
  /\ pc[j] = "report" /\ j \in WithCallback
  /\ callback_status' = [callback_status EXCEPT ![j] = "blocked"]
  /\ payload' = [payload EXCEPT ![j] = [status |-> status[j], artifact_url |-> zip[j]]]
  /\ Goto(j, "post")
  /\ UNCHANGED <<status, cancel_requested, files, queue, run, sandbox, zip, told, api>>

(* send_callback: the callback_url no longer passes is_allowed_callback_url. *)
Blocked(j) ==
  /\ pc[j] = "report" /\ j \in WithCallback
  /\ callback_status' = [callback_status EXCEPT ![j] = "blocked"]
  /\ Goto(j, "prune")
  /\ UNCHANGED <<status, cancel_requested, files, queue, run, sandbox, zip, post, api>>

(* A POST of the payload reaches the initiating host: while the worker waits *)
(* for the answer, or after it gave up on it or died (see Callback).         *)
Arrives(j) ==
  /\ payload[j] # Blank
  /\ told' = [told EXCEPT ![j] = @ \cup {payload[j]}]
  /\ UNCHANGED <<record, queue, pc, run, sandbox, zip, payload, api>>

(* send_callback: the attempts are over.  An answer can only follow an       *)
(* arrival, but no answer says nothing of what the host received.            *)
Post(j) ==
  /\ pc[j] = "post"
  /\ \E acked \in BOOLEAN :
       /\ acked => payload[j] \in told[j]
       /\ callback_status' = [callback_status EXCEPT ![j] = IF acked THEN "delivered" ELSE "failed"]
  /\ Goto(j, "prune")
  /\ UNCHANGED <<status, cancel_requested, files, queue, run, sandbox, zip, post, api>>

(* The prunings are done and _run_job is left: RQ is done with the job. *)
Return(w, j) ==
  /\ worker[w] = j /\ pc[j] = "prune"
  /\ worker' = [worker EXCEPT ![w] = NoJob]
  /\ rq' = [rq EXCEPT ![j] = "finished"]
  /\ Goto(j, "done")
  /\ UNCHANGED <<record, run, sandbox, zip, post, api>>

(* The worker process dies and is restarted: nobody resumes its job. *)
Crash(w, j) ==
  /\ "crash" \in Faults
  /\ worker[w] = j
  /\ worker' = [worker EXCEPT ![w] = NoJob]
  /\ rq' = [rq EXCEPT ![j] = "finished"]
  /\ Goto(j, "dead")
  /\ UNCHANGED <<record, run, sandbox, zip, post, api>>

--------------------------------------------------------------------------------
Submission(j) == Record(j) \/ Enqueue(j) \/ ApiDies(j)

Cancelling(h, j) ==
  CancelFlag(h, j) \/ RqCancel(h, j) \/ RqRefuses(h, j) \/ CancelWrite(h, j)

Waiting(j) ==
  \/ WaitReturns(j) \/ WaitTimesOut(j) \/ WaitFails(j) \/ Recheck(j)
  \/ Kill(j) \/ KillRaises(j) \/ Killed(j) \/ Logs(j) \/ LogsRaise(j)
  \/ Remove(j) \/ RemoveFails(j)

Ending(j) ==
  \/ PackStart(j) \/ NoOutput(j) \/ PackDone(j) \/ PackFails(j)
  \/ Finish(j) \/ Report(j) \/ Blocked(j) \/ Post(j)

(* Every step of _run_job(j), whoever runs it. *)
RunStep(j) ==
  \/ \E w \in Worker : Begin(w, j) \/ Return(w, j)
  \/ Refuse(j) \/ Claim(j) \/ Launch(j) \/ ImageMissing(j) \/ LaunchFails(j)
  \/ Waiting(j) \/ Ending(j)

Next ==
  \/ \E j \in Job : Submission(j) \/ ContainerExits(j) \/ RunStep(j) \/ Arrives(j)
  \/ \E h \in Handler, j \in Job : CancelLoad(h, j) \/ Cancelling(h, j)
  \/ \E h \in Handler : CancelDies(h)
  \/ \E w \in Worker, j \in Job : Take(w, j) \/ Crash(w, j)

Spec == Init /\ [][Next]_vars

--------------------------------------------------------------------------------
(* Fairness. *)

(* The API's threads are scheduled: a cancel that was loaded is served. *)
ApiFairness == \A h \in Handler : WF_vars(\E j \in Job : Cancelling(h, j))

(* The workers that drain the queues of these kinds are up and scheduled.   *)
(* Nothing makes the job's own command end, nor the API's clients do more.  *)
LaneFairness(kinds) ==
  /\ \A w \in {v \in Worker : Serves[v] \in kinds} : WF_vars(\E j \in Job : Take(w, j))
  /\ \A j \in {i \in Job : KindOf[i] \in kinds} : WF_vars(RunStep(j))

FairSpec == Spec /\ ApiFairness /\ LaneFairness(Kind)

(* The build workers may all be stuck. *)
GenerateLaneSpec == Spec /\ ApiFairness /\ LaneFairness({"generate"})

--------------------------------------------------------------------------------
(* The read endpoints. *)

Ended(j) == status[j] \in TERMINAL_STATUSES

(* What _status shows of how the job ended.  Its artifact_url is there with   *)
(* the zip, whatever the status, and stands for what it names.               *)
Shown(j) == [status |-> status[j], files |-> files[j], artifact_url |-> zip[j]]

(* _artifact answers with the zip, if there is one, once the job is over ... *)
ArtifactServed(j) == Ended(j) /\ zip[j] # "none"

(* ... and get_generated_file with any file of it that the record lists. *)
FilesServed(j) == Ended(j) /\ files[j] /\ zip[j] # "none"

--------------------------------------------------------------------------------
(* What is checked. *)

TypeOK ==
  /\ status \in [Job -> Status]
  /\ cancel_requested \in [Job -> BOOLEAN]
  /\ files \in [Job -> BOOLEAN]
  /\ callback_status \in [Job -> {"none", "delivered", "failed", "blocked"}]
  /\ rq \in [Job -> {"none", "recorded", "lost", "queued", "started", "finished", "canceled"}]
  /\ worker \in [Worker -> Job \cup {NoJob}]
  /\ pc \in [Job -> {"idle", "begin", "refused", "claim", "launch", "wait", "recheck",
                     "kill", "killed", "logs", "remove", "pack", "packing", "finish",
                     "report", "post", "prune", "done", "dead"}]
  /\ ending \in [Job -> {"none", "exited", "cancel", "timeout", "raised"}]
  /\ elapsed \in [Job -> Nat]
  /\ container \in [Job -> {"none", "created", "running", "exited", "gone"}]
  /\ StatusCode \in [Job -> {"none", "zero", "nonzero"}]
  /\ zip \in [Job -> {"none", "partial", "complete"}]
  /\ payload \in [Job -> Payload]
  /\ told \in [Job -> SUBSET Payload]
  /\ handler \in [Handler -> [at : {"idle", "flag", "dequeue", "write"},
                              job : Job \cup {NoJob}, seen : Status]]
  /\ promised \in [Job -> BOOLEAN]
  /\ flaggedAt \in [Job -> Nat]

(* A worker has the job although a client was told that it is cancelled,    *)
(* which api.py:195-198 expects RQ to rule out: the handler has written      *)
(* "cancelled" over what the run said, and the run goes on.                  *)
Overruled(j) == promised[j] /\ pc[j] # "idle"

(* The run has written its last status and comes to its callback. *)
Settled(j) == pc[j] \in {"report", "post", "prune", "done"} /\ ending[j] # "raised"

(* The status stands for what the run of j said, but for the one word that a *)
(* cancel handler writes over it.                                            *)
Says(j, s) == status[j] = s \/ (Overruled(j) /\ status[j] = "cancelled")

(* What a client has seen finished, it sees the same for ever: status, list *)
(* of files and artifact (_cancel against _run_sandboxed).  RQ's cancel of  *)
(* a taken job leaves two ways to change it, and no other: the handler      *)
(* writes "cancelled" over the status and over nothing else (api.py:193),   *)
(* and a run that was so cancelled before its last write still ends.        *)
OutcomeStands ==
  [][\A j \in Job : Ended(j) =>
       \/ Shown(j)' = Shown(j)
       \/ Overruled(j)' /\ Shown(j)' = [Shown(j) EXCEPT !.status = "cancelled"]
       \/ Overruled(j) /\ status[j] = "cancelled" /\ ~Settled(j)]_vars

(* A job answered with "cancelled" was "pulled off the queue" (README): it  *)
(* never gets a container.  It fails: RQ's cancel() may succeed on a job    *)
(* that a worker already took.                                             *)
CancelledJobNeverRuns == \A j \in Job : promised[j] => container[j] = "none"

(* A record says how a job ended only when the job's container no longer   *)
(* runs: nothing writes into the job dir behind the reader's back.  Only a *)
(* run that a handler overruled can still have one, and only until it ends *)
(* (for good, if it dies or raises first).                                 *)
ContainerStopsFirst ==
  \A j \in Job : Ended(j) => container[j] # "running" \/ (Overruled(j) /\ ~Settled(j))

(* What _artifact serves is never a half-written zip, although it is        *)
(* written under its final name and the status is all they look at (unless *)
(* a handler overruled the run that is writing it); a success always has   *)
(* its zip, and so has a list of files, which get_generated_file serves.   *)
ServedArtifactIsComplete ==
  \A j \in Job :
    /\ ArtifactServed(j) => zip[j] = "complete" \/ (Overruled(j) /\ ~Settled(j))
    /\ status[j] = "success" => ArtifactServed(j) /\ zip[j] = "complete"
    /\ files[j] => FilesServed(j) /\ zip[j] = "complete"

(* Whatever a callback told the initiating host, however often, is still   *)
(* what the record (but for a "cancelled" written over it) and the job dir *)
(* say, and it is the job's outcome unless an exception escaped from the   *)
(* run (the payload is read before the POST, notify.py).                   *)
CallbackReportsOutcome ==
  \A j \in Job : \A p \in told[j] :
    /\ Says(j, p.status)
    /\ p.artifact_url = zip[j]
    /\ p.status \in TERMINAL_STATUSES \/ ending[j] = "raised"

(* From the moment a cancel is flagged, the run waits for its container    *)
(* for at most one more poll (_wait_for_container).                        *)
CancelNoticedInOnePoll ==
  \A j \in Job : cancel_requested[j] => elapsed[j] <= flaggedAt[j] + PollInterval

(* The wait overshoots the timeout by less than one poll.  Of the 120 s of *)
(* slack that RQ's default_timeout leaves (jobs.py:18-21) the wait so uses  *)
(* at most a poll; the launch, the logs, the zip, the callback and the      *)
(* prunings, which share it, are not timed here.                           *)
WaitIsBounded == \A j \in Job : elapsed[j] < Timeout + PollInterval

(* How many steps a run has still to make, at most: what is ahead of each  *)
(* step outside of the poll loop, and two steps for each poll.             *)
Ahead ==
  [idle |-> 15, begin |-> 14, claim |-> 13, launch |-> 12, recheck |-> 11, wait |-> 10,
   kill |-> 9, killed |-> 8, logs |-> 8, remove |-> 7, pack |-> 6, packing |-> 5,
   finish |-> 4, refused |-> 4, report |-> 3, post |-> 2, prune |-> 1, done |-> 0, dead |-> 0]

StepsLeft(j) == Ahead[pc[j]] + 2 * (Timeout + PollInterval - elapsed[j])

(* No run goes on for ever: each step of one leaves it fewer to make, and no *)
(* cancel request, other run or failure of Docker ever leaves it more        *)
(* (_wait_for_container is the loop).                                        *)
RunsAdvance ==
  [][\A j \in Job : /\ StepsLeft(j)' <= StepsLeft(j)
                    /\ RunStep(j) => StepsLeft(j)' < StepsLeft(j)]_vars

(* What a run makes of its callback is what Callback implements: the two    *)
(* meet in Delivery.                                                        *)
CallbackPhase(j) ==
  CASE pc[j] = "post" -> "posting"
    [] pc[j] \in {"prune", "done", "dead"} -> "over"
    [] OTHER -> "reading"

Reporting(j) == INSTANCE Delivery WITH
  phase <- CallbackPhase(j),
  arrived <- told[j] # {},
  verdict <- callback_status[j]

(* The run, the reading of its payload, the verdict and the arrivals do for  *)
(* every job what Delivery allows (send_callback): its Spec, with one box.   *)
ImplementsDelivery ==
  /\ \A j \in WithCallback : Reporting(j)!Init
  /\ [][\A j \in WithCallback : [Reporting(j)!Next]_(Reporting(j)!dvars)]_vars

(* The record, the cancel flag and the callbacks behave as the API's       *)
(* contract says, whatever RQ's cancel() does: what it does to a job that a *)
(* worker has is the contract's Overrule.                                  *)
Contract == INSTANCE JobContract WITH
  phase <- status,
  asked <- cancel_requested,
  overruled <- [j \in Job |-> Overruled(j)],
  heard <- [j \in Job |-> {p.status : p \in told[j]}]

ImplementsContract == Contract!Spec

(* What notify.py:3-5 says of the callback: it is sent "once the build      *)
(* reaches a terminal state".  It does not hold: see the README.           *)
CallbackTellsTerminal ==
  \A j \in Job : \A p \in told[j] : p.status \in TERMINAL_STATUSES

(* Nothing more is to be expected of a run that an exception left, or whose *)
(* worker died.                                                             *)
CutShort(j) == ending[j] = "raised" \/ pc[j] = "dead"

(* The API died after it had dequeued the job and before it could say so.   *)
Dropped(j) ==
  rq[j] = "canceled" /\ ~\E h \in Handler : handler[h].job = j /\ handler[h].at = "write"

(* Every job in a queue ends, however long its command runs and whoever    *)
(* cancels it, unless its run is cut short or the API's death drops it.    *)
Settles(j) == rq[j] = "queued" ~> (Ended(j) \/ CutShort(j) \/ Dropped(j))
JobsSettle == \A j \in Job : Settles(j)

(* ... and a job of the generate queue does although no build worker ever  *)
(* takes a step: it "never waits behind a multi-minute build" (jobs.py).   *)
GenerateJobsSettle == \A j \in Job : KindOf[j] = "generate" => Settles(j)

(* Every run with a callback_url gets to its callback, exception or not,   *)
(* unless its worker dies: the finally of _run_job.                        *)
RunsAreReported ==
  \A j \in WithCallback : rq[j] = "started" ~> (callback_status[j] # "none" \/ pc[j] = "dead")

(* No container is left running, however the wait for it ends, unless the  *)
(* run is cut short (after an exception remove is still tried, if the run  *)
(* has the container at all: see LaunchFails and RemoveFails).             *)
ContainersStop ==
  \A j \in Job : container[j] = "running" ~> (container[j] # "running" \/ CutShort(j))

(* A cancel flagged before the run's pre-run check keeps the job from ever *)
(* having a container, also when the fast path lost the race for the queue *)
(* (api.py:182-187 "Flag first").                                          *)
EarlyCancelNeverRuns ==
  \A j \in Job : [](cancel_requested[j] /\ pc[j] \in {"idle", "begin", "refused"}
                     => [](container[j] = "none"))
================================================================================
