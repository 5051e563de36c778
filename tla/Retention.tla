-------------------------------- MODULE Retention --------------------------------
(***************************************************************************)
(* How long a job's record (a Redis hash with a TTL, jobs.py) and its job  *)
(* dir (jobs/<id> on the host, pruned by the workers, build.py) last.  The *)
(* two are written by different processes and nothing deletes them         *)
(* together: the record goes by its TTL, the dir by its mtime.             *)
(*                                                                         *)
(* Time is a clock that ticks between the steps.  Only what decides who    *)
(* outlives whom is here: of the run there is its first update, its output *)
(* and its last updates (JobLifecycle has the rest).                       *)
(***************************************************************************)
EXTENDS Integers, FiniteSets

CONSTANTS
  Job,         \* the jobs that may be submitted
  KindOf,      \* KindOf[j]: "build" or "generate"
  TTL,         \* settings.job_ttl
  MaxTime,     \* bound: when the clock stops
  MaxCancels,  \* bound: how many cancel handlers there are at a time
  Prompt       \* the jobs that are over within TTL of their submission, and whose
               \* cancel handlers are, when the record they loaded expires

Kind == {"build", "generate"}

ASSUME KindAssumption == KindOf \in [Job -> Kind]
ASSUME TimeAssumption == TTL \in Nat \ {0} /\ MaxTime \in Nat /\ MaxCancels \in Nat
ASSUME PromptAssumption == Prompt \subseteq Job

VARIABLES
  clock,       \* time.time(), which Redis shares
  step,        \* where job j is in its life
  record,      \* job:<id>, as it was last written
  expires,     \* when Redis drops it, or Never
  dir,         \* jobs/<id>: "none", "work" or, with an output.zip, "zip"
  mtime,       \* the mtime of jobs/<id>
  born,        \* history: when the archive of a prompt job was unpacked
  cancelling   \* where the cancel handlers of j are (two at one point are one)

vars == <<clock, step, record, expires, dir, mtime, born, cancelling>>

(* A hash without a TTL. *)
Never == MaxTime + TTL + 1

(* A handler sets the flag, of a job it saw queued or of another; takes the  *)
(* job from RQ; writes its status.                                           *)
CancelPoint == {"flag", "flag queued", "dequeue", "write"}

(* A submission that came to nothing: rejected, or cut short by the end of *)
(* the API's process before the HSET, the EXPIRE or the enqueue.           *)
Lost == {"lost", "orphan", "stranded"}

Step == {"new", "unpacked", "created", "enqueuing", "queued", "claimed", "running",
         "packed", "ending", "reporting", "calling", "pruning", "over", "canceled"} \cup Lost

(* "terminal" is any of TERMINAL_STATUSES, which nothing here tells apart. *)
Status == {"absent", "none", "queued", "running", "terminal"}
Record == [status : Status, kind : Kind \cup {"none"}]
NoRecord == [status |-> "absent", kind |-> "none"]

(* store.get finds it. *)
Visible(j) == record[j] # NoRecord /\ clock < expires[j]

(* _load with this prefix finds it.  A record without a kind is a build's. *)
Loads(j, kind) ==
  Visible(j) /\ kind = IF record[j].kind = "none" THEN "build" ELSE record[j].kind

Init ==
  /\ clock = 0
  /\ step = [j \in Job |-> "new"]
  /\ record = [j \in Job |-> NoRecord]
  /\ expires = [j \in Job |-> Never]
  /\ dir = [j \in Job |-> "none"]
  /\ mtime = [j \in Job |-> 0]
  /\ born = [j \in Job |-> 0]
  /\ cancelling = [j \in Job |-> {}]

(* Mutant: the hash is replaced by the new fields, and its TTL goes with it. *)
UpdateReplaces(j, s) ==
  /\ record' = [record EXCEPT ![j] = [status |-> s, kind |-> "none"]]
  /\ expires' = [expires EXCEPT ![j] = Never]

(* Store.update: HSET of some fields.  A hash that expired comes back with *)
(* these fields only, and without a TTL.                                   *)
Update(j, s) ==
  IF Visible(j)
  THEN record' = [record EXCEPT ![j].status = s] /\ UNCHANGED expires
  ELSE /\ record' = [record EXCEPT ![j] = [status |-> s, kind |-> "none"]]
       /\ expires' = [expires EXCEPT ![j] = Never]

StepTo(j, from, to) == step[j] = from /\ step' = [step EXCEPT ![j] = to]

--------------------------------------------------------------------------------
(* The API. *)

(* _intake: the job dir, the upload unpacked into it and removed again. *)
Unpack(j) ==
  /\ StepTo(j, "new", "unpacked")
  /\ dir' = [dir EXCEPT ![j] = "work"]
  /\ mtime' = [mtime EXCEPT ![j] = clock]
  /\ born' = IF j \in Prompt THEN [born EXCEPT ![j] = clock] ELSE born
  /\ UNCHANGED <<clock, record, expires, cancelling>>

(* _intake: the archive does not unpack, and the job dir is deleted; or what *)
(* is there of it stays: the deletion or the upload failed, or the API died. *)
IntakeFails(j) ==
  /\ StepTo(j, "new", "lost")
  /\ \E left \in {"none", "work"} : dir' = [dir EXCEPT ![j] = left]
  /\ mtime' = [mtime EXCEPT ![j] = clock]
  /\ UNCHANGED <<clock, record, expires, born, cancelling>>

(* The API dies between two of the steps below.  Nobody has the id. *)
ApiDies(j) ==
  /\ \/ StepTo(j, "unpacked", "lost")
     \/ StepTo(j, "created", "orphan")
     \/ StepTo(j, "enqueuing", "stranded")
  /\ UNCHANGED <<clock, record, expires, dir, mtime, born, cancelling>>

(* Store.create: the HSET ... *)
CreateHash(j) ==
  /\ StepTo(j, "unpacked", "created")
  /\ record' = [record EXCEPT ![j] = [status |-> "queued", kind |-> KindOf[j]]]
  /\ UNCHANGED <<clock, expires, dir, mtime, born, cancelling>>

(* ... and the EXPIRE. *)
CreateExpire(j) ==
  /\ StepTo(j, "created", "enqueuing")
  /\ expires' = [expires EXCEPT ![j] = clock + TTL]
  /\ UNCHANGED <<clock, record, dir, mtime, born, cancelling>>

(* The enqueue.  A 202 gives the client the id. *)
Enqueue(j) ==
  /\ StepTo(j, "enqueuing", "queued")
  /\ UNCHANGED <<clock, record, expires, dir, mtime, born, cancelling>>

(* The handler of j at point p goes on to the points in next. *)
Handles(j, p, next) ==
  p \in cancelling[j] /\ cancelling' = [cancelling EXCEPT ![j] = (@ \ {p}) \cup next]

(* _cancel: the record is loaded, and not finished. *)
CancelLoad(j) ==
  /\ step[j] \notin {"new", "unpacked", "created", "enqueuing"} \cup Lost
  /\ \E kind \in Kind : Loads(j, kind)
  /\ record[j].status # "terminal"
  /\ Cardinality({h \in Job \X CancelPoint : h[2] \in cancelling[h[1]]}) < MaxCancels
  /\ cancelling' = [cancelling EXCEPT ![j] =
                      @ \cup {IF record[j].status = "queued" THEN "flag queued" ELSE "flag"}]
  /\ UNCHANGED <<clock, step, record, expires, dir, mtime, born>>

(* _cancel: cancel_requested is set, which leaves the status it finds. *)
CancelFlag(j) ==
  /\ Handles(j, "flag", {}) \/ Handles(j, "flag queued", {"dequeue"})
  /\ Update(j, IF Visible(j) THEN record[j].status ELSE "none")
  /\ UNCHANGED <<clock, step, dir, mtime, born>>

(* rq.Job.cancel() of a job in the queue, which leaves it, or (see           *)
(* JobLifecycle) of one that a worker took.                                  *)
RqCancel(j) ==
  /\ Handles(j, "dequeue", {"write"})
  /\ StepTo(j, "queued", "canceled") \/ (step[j] \notin {"queued", "canceled"} /\ UNCHANGED step)
  /\ UNCHANGED <<clock, record, expires, dir, mtime, born>>

(* It raises. *)
RqRefuses(j) ==
  /\ Handles(j, "dequeue", {})
  /\ step[j] # "queued"
  /\ UNCHANGED <<clock, step, record, expires, dir, mtime, born>>

(* _cancel: the update of the status. *)
CancelWrite(j) ==
  /\ Handles(j, "write", {})
  /\ Update(j, "terminal")
  /\ UNCHANGED <<clock, step, dir, mtime, born>>

(* The API dies while it serves a cancel request. *)
CancelDies(j) ==
  /\ \E p \in CancelPoint : Handles(j, p, {})
  /\ UNCHANGED <<clock, step, record, expires, dir, mtime, born>>

--------------------------------------------------------------------------------
(* The worker. *)

(* store.update(status="running"), whatever store.get found. *)
Claim(j) ==
  /\ StepTo(j, "queued", "claimed")
  /\ Update(j, "running")
  /\ UNCHANGED <<clock, dir, mtime, born, cancelling>>

(* os.chmod finds the work dir, and the container is started on it ...     *)
Launch(j) ==
  /\ StepTo(j, "claimed", "running")
  /\ dir[j] # "none"
  /\ UNCHANGED <<clock, record, expires, dir, mtime, born, cancelling>>

(* ... or that fails, for want of the dir or of a daemon that answers: the  *)
(* exception leaves the record at "running".                               *)
LaunchFails(j) ==
  /\ StepTo(j, "claimed", "reporting")
  /\ UNCHANGED <<clock, record, expires, dir, mtime, born, cancelling>>

(* Mutant: output.zip is written below work/, which leaves jobs/<id> as it was. *)
PackBelow(j) ==
  /\ StepTo(j, "running", "packed")
  /\ dir[j] # "none"
  /\ dir' = [dir EXCEPT ![j] = "zip"]
  /\ UNCHANGED <<clock, record, expires, mtime, born, cancelling>>

(* The run made an output: output.zip appears in jobs/<id>. *)
Pack(j) ==
  /\ StepTo(j, "running", "packed")
  /\ dir[j] # "none"
  /\ dir' = [dir EXCEPT ![j] = "zip"]
  /\ mtime' = [mtime EXCEPT ![j] = clock]
  /\ UNCHANGED <<clock, record, expires, born, cancelling>>

(* It made none, was killed, or its work dir is gone. *)
NoOutput(j) ==
  /\ StepTo(j, "running", "ending")
  /\ UNCHANGED <<clock, record, expires, dir, mtime, born, cancelling>>

(* The update with the outcome, whatever it is. *)
Finish(j) ==
  /\ StepTo(j, "packed", "reporting") \/ StepTo(j, "ending", "reporting")
  /\ Update(j, "terminal")
  /\ UNCHANGED <<clock, dir, mtime, born, cancelling>>

(* An exception leaves the run, before or in _zip_dir: there is no update. *)
RunRaises(j) ==
  /\ StepTo(j, "running", "reporting") \/ StepTo(j, "packed", "reporting")
  /\ UNCHANGED <<clock, record, expires, dir, mtime, born, cancelling>>

(* send_callback: nothing to do without a record or a callback_url ... *)
NoCallback(j) ==
  /\ StepTo(j, "reporting", "pruning")
  /\ UNCHANGED <<clock, record, expires, dir, mtime, born, cancelling>>

(* ... or the attempts ... *)
Call(j) ==
  /\ StepTo(j, "reporting", "calling")
  /\ Visible(j) /\ record[j].kind # "none"
  /\ UNCHANGED <<clock, record, expires, dir, mtime, born, cancelling>>

(* Mutant: the verdict goes into the wrong field. *)
CalledStatus(j) ==
  /\ StepTo(j, "calling", "pruning")
  /\ Update(j, "delivered")
  /\ UNCHANGED <<clock, dir, mtime, born, cancelling>>

(* ... and the update of callback_status. *)
Called(j) ==
  /\ StepTo(j, "calling", "pruning")
  /\ Update(j, IF Visible(j) THEN record[j].status ELSE "none")
  /\ UNCHANGED <<clock, dir, mtime, born, cancelling>>

(* Mutant: the cutoff comes too soon. *)
ExpiredEarly(k) == mtime[k] < clock - TTL \div 2

Expired(k) == mtime[k] < clock - TTL

(* _prune_expired_jobs, which spares its own job, and any dir at which a     *)
(* failure stops it.  That a dir is looked at and deleted in one step is an  *)
(* abstraction.                                                              *)
Prune(j) ==
  /\ StepTo(j, "pruning", "over")
  /\ \E pruned \in SUBSET {k \in Job \ {j} : Expired(k)} :
       dir' = [k \in Job |-> IF k \in pruned THEN "none" ELSE dir[k]]
  /\ UNCHANGED <<clock, record, expires, mtime, born, cancelling>>

--------------------------------------------------------------------------------
(* The submission or the run of j may still write to its record. *)
Pending(j) == step[j] \notin {"new", "pruning", "over", "canceled"} \cup Lost

(* Of prompt jobs and cancel handlers none is under way at that time. *)
Outlasts(j, time) ==
  \/ Pending(j) /\ time >= born[j] + TTL
  \/ cancelling[j] # {} /\ time >= expires[j]

Tick ==
  /\ clock < MaxTime
  /\ \A j \in Prompt : ~Outlasts(j, clock + 1)
  /\ clock' = clock + 1
  /\ UNCHANGED <<step, record, expires, dir, mtime, born, cancelling>>

ApiStep(j) ==
  \/ Unpack(j) \/ IntakeFails(j) \/ ApiDies(j) \/ CreateHash(j) \/ CreateExpire(j) \/ Enqueue(j)
  \/ CancelLoad(j) \/ CancelFlag(j) \/ RqCancel(j) \/ RqRefuses(j) \/ CancelWrite(j)
  \/ CancelDies(j)

WorkerStep(j) ==
  \/ Claim(j) \/ Launch(j) \/ LaunchFails(j) \/ Pack(j) \/ NoOutput(j) \/ Finish(j) \/ RunRaises(j)
  \/ NoCallback(j) \/ Call(j) \/ Called(j) \/ Prune(j)

Next == Tick \/ \E j \in Job : ApiStep(j) \/ WorkerStep(j)

Spec == Init /\ [][Next]_vars

--------------------------------------------------------------------------------
(* What is checked. *)

TypeOK ==
  /\ clock \in 0 .. MaxTime
  /\ step \in [Job -> Step]
  /\ record \in [Job -> Record]
  /\ expires \in [Job -> 0 .. Never]
  /\ dir \in [Job -> {"none", "work", "zip"}]
  /\ mtime \in [Job -> 0 .. MaxTime]
  /\ born \in [Job -> 0 .. MaxTime]
  /\ cancelling \in [Job -> SUBSET CancelPoint]

(* The properties below are about each prompt job, however late the others   *)
(* are.                                                                      *)

(* While a client can read a prompt job's record, no other job's pruning     *)
(* deletes the artifact its artifact_url names, although the record's TTL    *)
(* started at another moment than the dir's mtime (build.py:105-109).        *)
ArtifactOutlivesRecord ==
  [][\A j \in Prompt : dir[j] = "zip" /\ Visible(j)' => dir'[j] = "zip"]_vars

(* The dir of a prompt job that waits in its queue or runs is there: no      *)
(* worker that ends another job takes it for an expired one.                 *)
LiveDirIsKept ==
  \A j \in Prompt :
    step[j] \in {"unpacked", "created", "enqueuing", "queued", "claimed", "running", "packed",
                "ending"} => dir[j] # "none"

(* The record of a prompt job goes: the updates of its run, its callback and *)
(* its cancel handlers, which set no TTL (jobs.py:45), never leave it without *)
(* one; only an API that dies between the HSET and the EXPIRE does           *)
(* (jobs.py:42-43).                                                          *)
RecordsExpire ==
  \A j \in Prompt : record[j] # NoRecord /\ expires[j] = Never => step[j] \in {"created", "orphan"}

(* An id answers under its own kind's prefix, and no other, as long as there *)
(* is a record (_load).                                                      *)
AnswersAsItsKind(j) ==
  \A kind \in Kind : Visible(j) => (Loads(j, kind) <=> kind = KindOf[j])

(* A prompt job's id does, whatever is updated after a record expired.       *)
PromptKindIsKept == \A j \in Prompt : AnswersAsItsKind(j)

(* What api.py:134-136 says of _load, of every job.  It does not hold of     *)
(* those that outlast JOB_TTL: see the README.                               *)
KindIsKept == \A j \in Job : AnswersAsItsKind(j)
================================================================================
