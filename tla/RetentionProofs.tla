---------------------------- MODULE RetentionProofs ----------------------------
(***************************************************************************)
(* Proofs about Retention, for every set of jobs, TTL and bound on the     *)
(* clock.  Types hold whatever the jobs do; the rest is about each prompt  *)
(* job, whatever the others do.                                            *)
(*                                                                         *)
(* The argument: while anybody may still write to the record of a prompt   *)
(* job the job is younger than TTL, so the record is still there, each     *)
(* update keeps its expiry and its kind, and its dir is too young for a    *)
(* pruning.  An output.zip is newer than the EXPIRE of its record, so the  *)
(* record goes first.                                                      *)
(***************************************************************************)
EXTENDS Retention, TLAPS

Unrecorded == {"new", "unpacked", "lost"}
Submitting == Unrecorded \cup {"created", "orphan"}
Live == {"unpacked", "created", "enqueuing", "queued", "claimed", "running", "packed", "ending"}
After == {"packed", "ending", "reporting", "calling", "pruning", "over"}

(* What may still be written to is young. *)
AgeInv(j) ==
  /\ Pending(j) => clock < born[j] + TTL
  /\ cancelling[j] # {} =>
       step[j] \notin Submitting \cup {"enqueuing", "stranded"} /\ clock < expires[j]

(* The record keeps the kind and the expiry that Store.create gave it. *)
RecordInv(j) ==
  /\ step[j] \in Unrecorded => record[j] = NoRecord
  /\ step[j] \notin Unrecorded => record[j].kind = KindOf[j]
  /\ step[j] \notin Unrecorded => record[j].status # "absent"
  /\ step[j] \notin Submitting =>
       born[j] + TTL <= expires[j] /\ expires[j] <= clock + TTL

(* A dir that is still needed is younger than its archive's unpacking, and *)
(* one with an artifact is younger than its record's EXPIRE.               *)
DirInv(j) ==
  /\ step[j] \in Live => dir[j] # "none" /\ born[j] <= mtime[j]
  /\ dir[j] = "zip" => step[j] \in After /\ expires[j] <= mtime[j] + TTL
  /\ mtime[j] <= clock

JobInv(j) == AgeInv(j) /\ RecordInv(j) /\ DirInv(j)

IInv == TypeOK /\ \A j \in Prompt : JobInv(j)

--------------------------------------------------------------------------------
(* The types, of every job. *)

(* What most steps need of them. *)
Typed ==
  /\ clock \in 0 .. MaxTime
  /\ step \in [Job -> Step]
  /\ record \in [Job -> Record]
  /\ expires \in [Job -> 0 .. Never]
  /\ dir \in [Job -> {"none", "work", "zip"}]
  /\ mtime \in [Job -> 0 .. MaxTime]
  /\ born \in [Job -> 0 .. MaxTime]
  /\ cancelling = [j \in Job |-> cancelling[j]]

LEMMA TypeParts ==
  /\ TypeOK => Typed
  /\ Typed /\ (\A j \in Job : cancelling[j] \subseteq CancelPoint) => TypeOK
BY DEF TypeOK, Typed

(* The points a handler may be at. *)
LEMMA PointsKept ==
  ASSUME TypeOK, NEW j \in Job, NEW points \in SUBSET CancelPoint,
         cancelling' = [cancelling EXCEPT ![j] = points]
  PROVE  cancelling' \in [Job -> SUBSET CancelPoint]
BY DEF TypeOK

(* The steps that only say where the job is now. *)
OnlyStep(j) ==
  \/ ApiDies(j) \/ Enqueue(j) \/ Launch(j) \/ LaunchFails(j) \/ NoOutput(j) \/ RunRaises(j)
  \/ NoCallback(j) \/ Call(j)

(* The steps that update the record. *)
UpdateStep(j) == Claim(j) \/ Finish(j) \/ Called(j) \/ CancelFlag(j) \/ CancelWrite(j)

(* The other steps of a cancel handler. *)
Cancels(j) == CancelLoad(j) \/ RqCancel(j) \/ RqRefuses(j) \/ CancelDies(j)

(* The submission, which makes the dir and the record. *)
Submits(j) == Unpack(j) \/ IntakeFails(j) \/ CreateHash(j) \/ CreateExpire(j)

LEMMA HandlesType ==
  ASSUME TypeOK, NEW j \in Job, NEW p \in CancelPoint, NEW next \in SUBSET CancelPoint,
         Handles(j, p, next)
  PROVE  cancelling' \in [Job -> SUBSET CancelPoint]
<1>1. cancelling[j] \subseteq CancelPoint
  BY DEF TypeOK
<1>2. (cancelling[j] \ {p}) \cup next \in SUBSET CancelPoint
  BY <1>1
<1>. QED BY <1>2, PointsKept DEF Handles

(* An update writes a record, of whatever age it finds one. *)
LEMMA UpdateType ==
  ASSUME Typed, NEW j \in Job, NEW s \in Status, Update(j, s)
  PROVE  record' \in [Job -> Record] /\ expires' \in [Job -> 0 .. Never]
<1>. USE TimeAssumption
<1>1. CASE Visible(j)
  BY <1>1 DEF Typed, Update, Record
<1>2. CASE ~Visible(j)
  BY <1>2 DEF Typed, Update, Record, Never
<1>. QED BY <1>1, <1>2

(* The steps that update a record keep the types. *)
LEMMA UpdateStepType == ASSUME TypeOK, NEW j \in Job, UpdateStep(j) PROVE TypeOK'
<1>. USE TypeParts
<1>1. step' \in [Job -> Step] /\ UNCHANGED <<clock, dir, mtime, born>>
  BY DEF UpdateStep, Claim, Finish, Called, CancelFlag, CancelWrite, StepTo, Typed, Step
<1>2. PICK s \in Status : Update(j, s)
  BY DEF UpdateStep, Claim, Finish, Called, CancelFlag, CancelWrite, Status, Typed, Record
<1>3. record' \in [Job -> Record] /\ expires' \in [Job -> 0 .. Never]
  BY <1>2, UpdateType
<1>4. cancelling' \in [Job -> SUBSET CancelPoint]
  <2>1. CASE Claim(j) \/ Finish(j) \/ Called(j)
    BY <2>1 DEF Claim, Finish, Called, TypeOK
  <2>2. CASE CancelFlag(j) \/ CancelWrite(j)
    <3>1. PICK p \in CancelPoint, next \in SUBSET CancelPoint : Handles(j, p, next)
      BY <2>2 DEF CancelFlag, CancelWrite, CancelPoint
    <3>. QED BY <3>1, HandlesType
  <2>. QED BY <2>1, <2>2 DEF UpdateStep
<1>. QED BY <1>1, <1>3, <1>4 DEF TypeOK

(* So do those of a submission. *)
LEMMA SubmitsType == ASSUME TypeOK, NEW j \in Job, Submits(j) PROVE TypeOK'
<1>. USE KindAssumption, TimeAssumption
<1>1. CASE Unpack(j)
  BY <1>1 DEF Unpack, StepTo, TypeOK, Step
<1>2. CASE IntakeFails(j)
  BY <1>2 DEF IntakeFails, StepTo, TypeOK, Step, Lost
<1>3. CASE CreateHash(j)
  BY <1>3 DEF CreateHash, StepTo, TypeOK, Step, Status, Record
<1>4. CASE CreateExpire(j)
  BY <1>4, SMTT(30) DEF CreateExpire, StepTo, TypeOK, Step, Never
<1>. QED BY <1>1, <1>2, <1>3, <1>4 DEF Submits

(* Every step keeps the types. *)
LEMMA TypeStep == ASSUME TypeOK, [Next]_vars PROVE TypeOK'
<1>1. CASE Tick
  BY <1>1, TimeAssumption DEF Tick, TypeOK
<1>2. ASSUME NEW j \in Job, OnlyStep(j) PROVE TypeOK'
  <2>1. /\ \E s \in Step : step' = [step EXCEPT ![j] = s]
        /\ UNCHANGED <<clock, record, expires, dir, mtime, born, cancelling>>
    BY <1>2 DEF OnlyStep, ApiDies, Lost, Enqueue, Launch, LaunchFails, NoOutput, RunRaises,
           NoCallback, Call, StepTo, Step
  <2>. QED BY <2>1 DEF TypeOK
<1>3. ASSUME NEW j \in Job, Cancels(j) \/ Pack(j) PROVE TypeOK'
  <2>1. CASE CancelLoad(j)
    <3>1. PICK p \in CancelPoint : cancelling' = [cancelling EXCEPT ![j] = @ \cup {p}]
      BY <2>1 DEF CancelLoad, CancelPoint
    <3>2. cancelling[j] \cup {p} \in SUBSET CancelPoint
      BY <1>3 DEF TypeOK
    <3>3. cancelling' \in [Job -> SUBSET CancelPoint]
      BY <3>1, <3>2, PointsKept
    <3>. QED BY <2>1, <3>3 DEF CancelLoad, TypeOK
  <2>2. CASE RqCancel(j) \/ RqRefuses(j) \/ CancelDies(j)
    <3>1. PICK p \in CancelPoint, next \in SUBSET CancelPoint : Handles(j, p, next)
      BY <2>2 DEF RqCancel, RqRefuses, CancelDies, CancelPoint
    <3>2. cancelling' \in [Job -> SUBSET CancelPoint]
      BY <3>1, HandlesType
    <3>3. step' \in [Job -> Step] /\ UNCHANGED <<clock, record, expires, dir, mtime, born>>
      BY <2>2, TypeParts DEF RqCancel, RqRefuses, CancelDies, StepTo, Typed, Step
    <3>. QED BY <3>2, <3>3 DEF TypeOK
  <2>3. CASE Pack(j)
    BY <2>3 DEF Pack, StepTo, TypeOK, Step
  <2>. QED BY <1>3, <2>1, <2>2, <2>3 DEF Cancels
<1>4. ASSUME NEW j \in Job, Prune(j) PROVE TypeOK'
  BY <1>4 DEF Prune, StepTo, TypeOK, Step
<1>5. CASE UNCHANGED vars
  BY <1>5 DEF vars, TypeOK
<1>6. ASSUME NEW j \in Job, ApiStep(j) \/ WorkerStep(j)
      PROVE  \/ OnlyStep(j) \/ UpdateStep(j) \/ Submits(j)
             \/ Cancels(j) \/ Pack(j) \/ Prune(j)
  BY <1>6 DEF ApiStep, WorkerStep, OnlyStep, UpdateStep, Submits, Cancels
<1>. QED BY <1>1, <1>2, <1>3, <1>4, <1>5, <1>6, UpdateStepType, SubmitsType DEF Next

(* The types hold at the start. *)
LEMMA InitType == Init => TypeOK
BY KindAssumption, TimeAssumption DEF Init, TypeOK, Step, Status, Record, NoRecord, Never, Kind

(* Every variable keeps its type, however late the jobs are. *)
THEOREM TypeCorrect == Spec => []TypeOK
<1>1. TypeOK /\ [Next]_vars => TypeOK'
  BY TypeStep
<1>. QED BY InitType, <1>1, PTL DEF Spec

--------------------------------------------------------------------------------
(* The invariant of a prompt job, under its own steps. *)

(* While somebody may write to the created record of a prompt job, Update  *)
(* finds it and keeps its expiry and kind.                                 *)
LEMMA UpdateKeeps ==
  ASSUME Typed, NEW j \in Job, JobInv(j), NEW s \in Status \ {"absent"},
         Pending(j) \/ cancelling[j] # {}, step[j] \notin Submitting,
         Update(j, s)
  PROVE  /\ expires' = expires
         /\ record'[j].kind = record[j].kind
         /\ record'[j].status = s
<1>. USE KindAssumption, TimeAssumption
<1>1. Visible(j)
  <2>1. clock < expires[j]
    BY SMTT(30) DEF JobInv, AgeInv, RecordInv, Typed, Never, Submitting, Unrecorded
  <2>2. record[j] # NoRecord
    BY DEF JobInv, RecordInv, NoRecord, Submitting, Unrecorded
  <2>. QED BY <2>1, <2>2 DEF Visible
<1>2. expires' = expires /\ record' = [record EXCEPT ![j].status = s]
  BY <1>1 DEF Update
<1>3. record \in [Job -> Record]
  BY DEF Typed
<1>. QED BY <1>2, <1>3, SMTT(30) DEF Record

(* The steps that only say where the job is now. *)
LEMMA OnlyStepKeeps == ASSUME Typed, NEW j \in Job, JobInv(j), OnlyStep(j) PROVE JobInv(j)'
BY SMTT(30) DEF OnlyStep, ApiDies, Lost, Enqueue, Launch, LaunchFails, NoOutput, RunRaises,
   NoCallback, Call, StepTo, Typed, JobInv, AgeInv, RecordInv, DirInv, Pending, Live, After,
   Submitting, Unrecorded

(* The updates. *)
LEMMA UpdateStepKeeps == ASSUME Typed, NEW j \in Job, JobInv(j), UpdateStep(j) PROVE JobInv(j)'
<1>. USE KindAssumption, TimeAssumption
<1>1. /\ UNCHANGED <<clock, dir, mtime, born>>
      /\ cancelling'[j] # {} => cancelling[j] # {}
  BY DEF Typed, UpdateStep, Claim, Finish, Called, CancelFlag, CancelWrite, Handles
<1>2. (Pending(j) \/ cancelling[j] # {}) /\ step[j] \notin Submitting
  BY DEF UpdateStep, Claim, Finish, Called, CancelFlag, CancelWrite, Handles, StepTo, Pending,
         Lost, JobInv, AgeInv, Submitting, Unrecorded
<1>3. PICK s \in Status \ {"absent"} : Update(j, s)
  <2>1. Visible(j) => record[j].status \in Status \ {"absent"}
    BY <1>2, SMTT(30) DEF JobInv, Typed, RecordInv, Record, Submitting, Unrecorded
  <2>. QED BY <2>1 DEF UpdateStep, Claim, Finish, Called, CancelFlag, CancelWrite, Handles, Status
<1>4. expires' = expires /\ record'[j].kind = record[j].kind /\ record'[j].status = s
  BY <1>2, <1>3, UpdateKeeps
<1>5. \/ step'[j] = step[j]
      \/ step[j] = "queued" /\ step'[j] = "claimed"
      \/ step[j] \in {"packed", "ending"} /\ step'[j] = "reporting"
      \/ step[j] = "calling" /\ step'[j] = "pruning"
  BY DEF UpdateStep, Claim, Finish, Called, CancelFlag, CancelWrite, StepTo, Typed
<1>6. AgeInv(j)'
  BY <1>1, <1>4, <1>5, SMTT(30) DEF JobInv, AgeInv, Pending, Lost, Submitting, Unrecorded
<1>7. RecordInv(j)'
  BY <1>1, <1>2, <1>4, <1>5, SMTT(30) DEF JobInv, RecordInv, Submitting, Unrecorded
<1>8. DirInv(j)'
  BY <1>1, <1>4, <1>5, SMTT(30) DEF JobInv, DirInv, Live, After
<1>. QED BY <1>6, <1>7, <1>8 DEF JobInv

(* The submission. *)
LEMMA SubmitsKeeps ==
  ASSUME Typed, NEW j \in Prompt, j \in Job, JobInv(j), Submits(j) PROVE JobInv(j)'
<1>. USE KindAssumption, TimeAssumption DEF StepTo, Typed, JobInv, AgeInv, RecordInv, DirInv,
         Pending, Lost, Live, After, Submitting, Unrecorded
<1>1. CASE Unpack(j)
  BY <1>1, SMTT(30) DEF Unpack
<1>2. CASE IntakeFails(j)
  BY <1>2, SMTT(30) DEF IntakeFails
<1>3. CASE CreateHash(j)
  BY <1>3, SMTT(30) DEF CreateHash, Record, NoRecord
<1>4. CASE CreateExpire(j)
  BY <1>4, SMTT(30) DEF CreateExpire
<1>. QED BY <1>1, <1>2, <1>3, <1>4 DEF Submits

(* A cancel handler loads the record of a job that is not over yet, and may *)
(* take the job out of the queue.                                           *)
LEMMA CancelsKeep == ASSUME Typed, NEW j \in Job, JobInv(j), Cancels(j) PROVE JobInv(j)'
<1>1. CASE CancelLoad(j)
  <2>1. /\ UNCHANGED <<clock, step, record, expires, dir, mtime, born>>
        /\ step[j] \notin {"new", "unpacked", "created", "enqueuing"} \cup Lost
        /\ clock < expires[j]
    BY <1>1 DEF CancelLoad, Loads, Visible
  <2>. QED BY <2>1, SMTT(30) DEF JobInv, AgeInv, RecordInv, DirInv, Pending, Lost, Submitting,
           Unrecorded
<1>2. CASE RqCancel(j) \/ RqRefuses(j) \/ CancelDies(j)
  <2>1. /\ UNCHANGED <<clock, record, expires, dir, mtime, born>>
        /\ step'[j] = step[j] \/ (step[j] = "queued" /\ step'[j] = "canceled")
        /\ cancelling[j] # {}
    BY <1>2 DEF RqCancel, RqRefuses, CancelDies, Handles, StepTo, Typed
  <2>. QED BY <2>1, SMTT(30) DEF Typed, JobInv, AgeInv, RecordInv, DirInv, Pending, Lost, Live,
           After, Submitting, Unrecorded
<1>. QED BY <1>1, <1>2 DEF Cancels

(* The artifact is newer than the EXPIRE of its record. *)
LEMMA PackKeeps == ASSUME Typed, NEW j \in Job, JobInv(j), Pack(j) PROVE JobInv(j)'
BY TimeAssumption, SMTT(30) DEF Pack, StepTo, Typed, JobInv, AgeInv, RecordInv, DirInv, Pending,
   Lost, Live, After, Submitting, Unrecorded

--------------------------------------------------------------------------------
(* ... and under the steps of the others. *)

(* What no step of another job does to j, prunings aside. *)
Elsewhere(j) ==
  /\ clock' = clock
  /\ step'[j] = step[j] /\ record'[j] = record[j] /\ expires'[j] = expires[j]
  /\ dir'[j] = dir[j] /\ mtime'[j] = mtime[j] /\ born'[j] = born[j]
  /\ cancelling'[j] = cancelling[j]

(* The invariant of a job that nobody touched still holds. *)
LEMMA Frame == ASSUME NEW j \in Job, JobInv(j), Elsewhere(j) PROVE JobInv(j)'
BY DEF Elsewhere, JobInv, AgeInv, RecordInv, DirInv, Pending

(* The steps of another job but its pruning. *)
LEMMA OthersElsewhere ==
  ASSUME Typed, NEW j \in Job, NEW k \in Job \ {j},
         OnlyStep(k) \/ UpdateStep(k) \/ Submits(k) \/ Cancels(k) \/ Pack(k)
  PROVE  Elsewhere(j)
<1>1. CASE OnlyStep(k)
  BY <1>1 DEF OnlyStep, ApiDies, Enqueue, Launch, LaunchFails, NoOutput, RunRaises, NoCallback,
         Call, StepTo, Typed, Elsewhere
<1>2. CASE UpdateStep(k)
  <2>1. \E s : Update(k, s)
    BY <1>2 DEF UpdateStep, Claim, Finish, Called, CancelFlag, CancelWrite, Handles
  <2>2. record'[j] = record[j] /\ expires'[j] = expires[j]
    BY <2>1 DEF Update, Typed
  <2>. QED BY <1>2, <2>2 DEF UpdateStep, Claim, Finish, Called, CancelFlag, CancelWrite,
         Handles, StepTo, Typed, Elsewhere
<1>3. CASE Submits(k)
  BY <1>3 DEF Submits, Unpack, IntakeFails, CreateHash, CreateExpire, StepTo, Typed, Elsewhere
<1>4. CASE Cancels(k)
  BY <1>4 DEF Cancels, CancelLoad, RqCancel, RqRefuses, CancelDies, Handles, StepTo, Typed,
         Elsewhere
<1>5. CASE Pack(k)
  BY <1>5 DEF Pack, StepTo, Typed, Elsewhere
<1>. QED BY <1>1, <1>2, <1>3, <1>4, <1>5

(* A dir that a pruning takes is not one that a prompt job still needs. *)
LEMMA PruneKeeps ==
  ASSUME Typed, NEW j \in Job, NEW k \in Job, JobInv(k), Prune(j) PROVE JobInv(k)'
<1>. USE TimeAssumption
<1>1. PICK pruned \in SUBSET {i \in Job \ {j} : Expired(i)} :
        dir' = [i \in Job |-> IF i \in pruned THEN "none" ELSE dir[i]]
  BY DEF Prune
<1>2. k \in pruned => step[k] \notin Live
  BY <1>1, SMTT(30) DEF Typed, JobInv, AgeInv, DirInv, Pending, Lost, Live, Expired
<1>. QED BY <1>1, <1>2, SMTT(30) DEF Prune, StepTo, Typed, JobInv, AgeInv, RecordInv, DirInv,
         Pending, Lost, Live, After, Submitting, Unrecorded

(* Time passes only as long as a pending prompt job is younger than TTL. *)
LEMMA TickKeeps == ASSUME Typed, NEW k \in Prompt, k \in Job, JobInv(k), Tick PROVE JobInv(k)'
BY TimeAssumption, SMTT(30) DEF Tick, Outlasts, Typed, JobInv, AgeInv, RecordInv, DirInv, Pending,
   Lost, Submitting, Unrecorded, Never

(* Every step keeps the invariant. *)
LEMMA NextKeeps == ASSUME IInv, [Next]_vars PROVE IInv'
<1>1. TypeOK /\ TypeOK' /\ Typed
  BY TypeStep, TypeParts DEF IInv
<1>2. ASSUME NEW k \in Prompt PROVE JobInv(k)'
  <2>1. k \in Job /\ JobInv(k)
    BY PromptAssumption DEF IInv
  <2>2. CASE Tick
    BY <1>1, <2>1, <2>2, TickKeeps
  <2>3. ASSUME NEW j \in Job, ApiStep(j) \/ WorkerStep(j) PROVE JobInv(k)'
    <3>1. \/ OnlyStep(j) \/ UpdateStep(j) \/ Submits(j)
          \/ Cancels(j) \/ Pack(j) \/ Prune(j)
      BY <2>3 DEF ApiStep, WorkerStep, OnlyStep, UpdateStep, Submits, Cancels
    <3>2. CASE Prune(j)
      BY <1>1, <2>1, <3>2, PruneKeeps
    <3>3. CASE j = k
      BY <1>1, <2>1, <3>1, <3>2, <3>3, OnlyStepKeeps, UpdateStepKeeps, SubmitsKeeps,
         CancelsKeep, PackKeeps
    <3>4. CASE j # k
      BY <1>1, <2>1, <3>1, <3>2, <3>4, OthersElsewhere, Frame
    <3>. QED BY <3>3, <3>4
  <2>4. CASE UNCHANGED vars
    BY <2>1, <2>4, Frame DEF vars, Elsewhere
  <2>. QED BY <2>2, <2>3, <2>4 DEF Next
<1>. QED BY <1>1, <1>2 DEF IInv

(* The invariant holds throughout. *)
LEMMA Invariance == Spec => []IInv
<1>1. ASSUME Init, NEW k \in Prompt PROVE JobInv(k)
  BY <1>1, PromptAssumption, TimeAssumption DEF Init, JobInv, AgeInv, RecordInv, DirInv, Pending,
     Lost, Live, After, Submitting, Unrecorded
<1>2. Init => IInv
  BY <1>1, InitType DEF IInv
<1>3. IInv /\ [Next]_vars => IInv'
  BY NextKeeps
<1>. QED BY <1>2, <1>3, PTL DEF Spec

--------------------------------------------------------------------------------
(* What follows from it. *)

(* No worker prunes the dir of a prompt job that waits or runs (build.py     *)
(* _prune_expired_jobs).                                                     *)
THEOREM LiveDirCorrect == Spec => []LiveDirIsKept
<1>1. IInv => LiveDirIsKept
  BY DEF IInv, JobInv, DirInv, LiveDirIsKept, Live
<1>. QED BY <1>1, Invariance, PTL

(* No prompt job's record is left without a TTL (jobs.py Store.update).      *)
THEOREM RecordsExpireCorrect == Spec => []RecordsExpire
<1>1. ASSUME IInv, NEW j \in Prompt, record[j] # NoRecord, expires[j] = Never
      PROVE  step[j] \in {"created", "orphan"}
  <2>1. j \in Job /\ RecordInv(j)
    BY <1>1, PromptAssumption DEF IInv, JobInv
  <2>. QED BY <1>1, <2>1, TimeAssumption DEF IInv, TypeOK, RecordInv, Never, Submitting,
         Unrecorded
<1>2. IInv => RecordsExpire
  BY <1>1 DEF RecordsExpire
<1>. QED BY <1>2, Invariance, PTL

(* A prompt job's id answers under its own kind's prefix only (api.py        *)
(* _load): what late jobs break.                                             *)
THEOREM KindCorrect == Spec => []PromptKindIsKept
<1>1. IInv => PromptKindIsKept
  BY PromptAssumption, KindAssumption DEF IInv, JobInv, RecordInv, PromptKindIsKept,
     AnswersAsItsKind, Visible, Loads, Kind
<1>. QED BY <1>1, Invariance, PTL

(* No prompt job's artifact is pruned while its record can be read           *)
(* (build.py:105-109).                                                       *)
THEOREM ArtifactCorrect == Spec => ArtifactOutlivesRecord
<1>1. ASSUME IInv, [Next]_vars, NEW j \in Prompt, dir[j] = "zip", Visible(j)'
      PROVE  dir'[j] = "zip"
  <2>. USE <1>1, TimeAssumption
  <2>1. j \in Job /\ TypeOK /\ step[j] \in After /\ expires[j] <= mtime[j] + TTL
    BY PromptAssumption DEF IInv, JobInv, DirInv
  <2>2. CASE UNCHANGED vars \/ Tick
    BY <2>2 DEF vars, Tick
  <2>3. ASSUME NEW k \in Job, Prune(k) PROVE dir'[j] = "zip"
    <3>1. PICK pruned \in SUBSET {i \in Job \ {k} : Expired(i)} :
            dir' = [i \in Job |-> IF i \in pruned THEN "none" ELSE dir[i]]
      BY <2>3 DEF Prune
    <3>2. clock < expires[j]
      BY <2>3 DEF Prune, Visible
    <3>3. j \notin pruned
      BY <2>1, <3>1, <3>2, SMTT(30) DEF Expired, TypeOK, Never
    <3>. QED BY <2>1, <3>1, <3>3
  <2>4. ASSUME NEW k \in Job, Unpack(k) \/ IntakeFails(k) \/ Pack(k) PROVE dir'[j] = "zip"
    BY <2>1, <2>4 DEF Unpack, IntakeFails, Pack, StepTo, After, TypeOK
  <2>5. ASSUME NEW k \in Job, ApiStep(k) \/ WorkerStep(k),
               ~Prune(k), ~Unpack(k), ~IntakeFails(k), ~Pack(k)
        PROVE  dir' = dir
    BY <2>5 DEF ApiStep, WorkerStep, ApiDies, CreateHash, CreateExpire, Enqueue, CancelLoad,
       CancelFlag, CancelWrite, CancelDies, RqCancel, RqRefuses, Claim, Launch, LaunchFails,
       NoOutput, Finish, RunRaises, NoCallback, Call, Called
  <2>. QED BY <2>2, <2>3, <2>4, <2>5 DEF Next
<1>2. IInv /\ [Next]_vars =>
        [\A j \in Prompt : dir[j] = "zip" /\ Visible(j)' => dir'[j] = "zip"]_vars
  BY <1>1
<1>. QED BY <1>2, Invariance, PTL DEF Spec, ArtifactOutlivesRecord
================================================================================
