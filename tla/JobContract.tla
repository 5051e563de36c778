------------------------------ MODULE JobContract ------------------------------
(***************************************************************************)
(* What the build server promises about one job's user-facing status, as   *)
(* the client of GET /builds/{id} and the receiver of the completion       *)
(* callback may rely on it.  There are no workers, queues, containers or   *)
(* cancel handlers here: JobLifecycle is shown to implement this module.   *)
(***************************************************************************)
CONSTANT Job

VARIABLES
  phase,      \* phase[j]: the status the record of job j shows
  asked,      \* asked[j]: somebody requested that j be cancelled
  overruled,  \* overruled[j]: a cancel was written over a job a worker had
  heard       \* heard[j]: the statuses callbacks have told the initiating host

cvars == <<phase, asked, overruled, heard>>

(* TERMINAL_STATUSES of the API. *)
Ended == {"success", "failed", "cancelled"}
Phase == {"absent", "queued", "running"} \cup Ended

ContractTypeOK ==
  /\ phase \in [Job -> Phase]
  /\ asked \in [Job -> BOOLEAN]
  /\ overruled \in [Job -> BOOLEAN]
  /\ heard \in [Job -> SUBSET Phase]

Init ==
  /\ phase = [j \in Job |-> "absent"]
  /\ asked = [j \in Job |-> FALSE]
  /\ overruled = [j \in Job |-> FALSE]
  /\ heard = [j \in Job |-> {}]

(* POST /builds or /generate answers 202. *)
Accept(j) ==
  /\ phase[j] = "absent"
  /\ phase' = [phase EXCEPT ![j] = "queued"]
  /\ UNCHANGED <<asked, overruled, heard>>

(* POST .../cancel is taken into account. *)
Ask(j) ==
  /\ phase[j] # "absent"
  /\ asked' = [asked EXCEPT ![j] = TRUE]
  /\ UNCHANGED <<phase, overruled, heard>>

(* The one way in which a job that ended changes: the cancel of a job that a *)
(* worker has is written over whatever it says, and only if asked for.       *)
Overrule(j) ==
  /\ phase[j] # "absent" /\ asked[j]
  /\ phase' = [phase EXCEPT ![j] = "cancelled"]
  /\ overruled' = [overruled EXCEPT ![j] = TRUE]
  /\ UNCHANGED <<asked, heard>>

(* The run of an overruled job still says what it does, if it comes to that. *)
StillRuns(j) == overruled[j] /\ phase[j] = "cancelled"

(* A worker starts the job, before anything is told. *)
Start(j) ==
  /\ phase[j] = "queued" \/ StillRuns(j)
  /\ heard[j] = {}
  /\ phase' = [phase EXCEPT ![j] = "running"]
  /\ UNCHANGED <<asked, overruled, heard>>

(* The job ends: once, before anything is told, as "success" only if it ran *)
(* and as "cancelled" only if somebody asked for that.                      *)
End(j, s) ==
  /\ phase[j] \in {"queued", "running"} \/ StillRuns(j)
  /\ heard[j] = {}
  /\ s = "success" => phase[j] # "queued"
  /\ s = "cancelled" => asked[j]
  /\ phase' = [phase EXCEPT ![j] = s]
  /\ UNCHANGED <<asked, overruled, heard>>

(* A callback arrives and tells what the record shows, or what it showed    *)
(* before it was overruled.                                                 *)
Tell(j, s) ==
  /\ phase[j] = s \/ StillRuns(j)
  /\ heard' = [heard EXCEPT ![j] = @ \cup {s}]
  /\ UNCHANGED <<phase, asked, overruled>>

Next ==
  \E j \in Job :
    \/ Accept(j)
    \/ Ask(j)
    \/ Overrule(j)
    \/ Start(j)
    \/ \E s \in Ended : End(j, s)
    \/ \E s \in {"running"} \cup Ended : Tell(j, s)

Spec == Init /\ [][Next]_cvars
================================================================================
