-------------------------------- MODULE WarmImage --------------------------------
(***************************************************************************)
(* scripts/update_warm_image.sh: a candidate image is built, smoke-tested  *)
(* under its tag, and promoted to the tag that the workers start their     *)
(* containers from, while jobs run; the image it replaces stays as the one *)
(* to roll back to.  The runs of the workflow are serialised by its        *)
(* concurrency group, those of `make update-warm-image` are not: two of    *)
(* them share the tags.  A run may stop at any step: a command fails under *)
(* `set -e`, or the machine does.                                          *)
(***************************************************************************)
EXTENDS Integers

CONSTANTS
  Image,    \* the images that docker build may produce
  NoImage,  \* what a tag that does not exist names
  NoRun,    \* no run
  Run,      \* the runs that may be under way at once
  NChecks   \* the checks of a candidate: its version, and each smoke test

ASSUME NoneAssumption == NoImage \notin Image /\ NoRun \notin Run
ASSUME ChecksAssumption == NChecks \in Nat \ {0}

VARIABLES
  tag,     \* tag[t]: the image that the tag t names
  images,  \* the images on the host, of those that Image has
  pc,      \* the next command of run r
  checks,  \* how many checks the candidate of run r has passed
  proved,  \* history: proved[i]: the checks that image i itself passed since
           \* the script was last started
  solo,    \* history: the run that began last, if since then it alone set tags
  before   \* history: the tags when solo began

vars == <<tag, images, pc, checks, proved, before, solo>>

Tag == {"candidate", "warm", "previous"}
Untagged == [t \in Tag |-> NoImage]
Check == 1 .. NChecks
Tested(i) == proved[i] = Check

(* make warm-image may have been run, untested, when the host was set up. *)
Init ==
  /\ \E i \in Image \cup {NoImage} :
       /\ tag = [t \in Tag |-> IF t = "warm" THEN i ELSE NoImage]
       /\ images = {i} \ {NoImage}
  /\ proved = [i \in Image |-> {}]
  /\ pc = [r \in Run |-> "idle"]
  /\ checks = [r \in Run |-> 0]
  /\ solo = NoRun
  /\ before = Untagged

StepTo(r, from, to) == pc[r] = from /\ pc' = [pc EXCEPT ![r] = to]

(* Tags whose image is not there are refused. *)
Retag(from, to) ==
  /\ tag[from] # NoImage
  /\ tag' = [tag EXCEPT ![to] = tag[from]]

--------------------------------------------------------------------------------
(* The script is started: it pulls, and builds. *)
Start(r) ==
  /\ StepTo(r, "idle", "build")
  /\ checks' = [checks EXCEPT ![r] = 0]
  /\ proved' = [i \in Image |-> {}]
  /\ IF \A q \in Run \ {r} : pc[q] = "idle"
     THEN solo' = r /\ before' = tag
     ELSE solo' = NoRun /\ before' = Untagged
  /\ UNCHANGED <<tag, images>>

(* docker build: a new image, or, if nothing changed, one it built before. *)
Build(r) ==
  \E i \in Image :
    /\ StepTo(r, "build", "check")
    /\ tag' = [tag EXCEPT !["candidate"] = i]
    /\ images' = images \cup {i}
    /\ UNCHANGED <<checks, proved, before, solo>>

(* The checks run the image that the candidate's tag names now. *)
CheckPasses(r) ==
  /\ pc[r] = "check" /\ tag["candidate"] # NoImage
  /\ checks[r] < NChecks
  /\ checks' = [checks EXCEPT ![r] = @ + 1]
  /\ proved' = [proved EXCEPT ![tag["candidate"]] = @ \cup {checks[r] + 1}]
  /\ UNCHANGED <<tag, images, pc, before, solo>>

ChecksPassed(r) ==
  /\ checks[r] = NChecks
  /\ StepTo(r, "check", "keep")
  /\ checks' = [checks EXCEPT ![r] = 0]
  /\ UNCHANGED <<tag, images, proved, before, solo>>

(* Mutant: a failed smoke test is only reported. *)
CheckFailsOn(r) ==
  /\ checks[r] < NChecks
  /\ StepTo(r, "check", "keep")
  /\ UNCHANGED <<tag, images, checks, proved, before, solo>>

(* A check fails: exit 1. *)
CheckFails(r) ==
  /\ checks[r] < NChecks
  /\ StepTo(r, "check", "idle")
  /\ UNCHANGED <<tag, images, checks, proved, before, solo>>

(* Mutant: what is kept is the candidate. *)
KeepCandidate(r) ==
  /\ StepTo(r, "keep", "promote")
  /\ Retag("candidate", "previous")
  /\ UNCHANGED <<images, checks, proved, before, solo>>

(* docker tag :warm :warm-previous, if there is a :warm. *)
Keep(r) ==
  /\ StepTo(r, "keep", "promote")
  /\ IF tag["warm"] # NoImage THEN Retag("warm", "previous") ELSE UNCHANGED tag
  /\ UNCHANGED <<images, checks, proved, before, solo>>

(* docker tag :warm-candidate :warm. *)
Promote(r) ==
  /\ StepTo(r, "promote", "untag")
  /\ Retag("candidate", "warm")
  /\ UNCHANGED <<images, checks, proved, before, solo>>

(* Mutant: the candidate's image is removed by force, whatever its tags. *)
UntagForced(r) ==
  /\ StepTo(r, "untag", "prune")
  /\ tag' = [t \in Tag |-> IF tag[t] = tag["candidate"] THEN NoImage ELSE tag[t]]
  /\ images' = images \ {tag["candidate"]}
  /\ UNCHANGED <<checks, proved, before, solo>>

(* docker rmi :warm-candidate || true: the tag goes, and the image with its *)
(* last tag; or neither, and the script goes on.                            *)
Untag(r) ==
  /\ StepTo(r, "untag", "prune")
  /\ \/ /\ tag' = [tag EXCEPT !["candidate"] = NoImage]
        /\ images' = images \ ({tag["candidate"]} \ {tag["warm"], tag["previous"]})
     \/ UNCHANGED <<tag, images>>
  /\ UNCHANGED <<checks, proved, before, solo>>

(* Mutant: docker image prune -a, which spares what containers use only. *)
PruneAll(r) ==
  /\ StepTo(r, "prune", "idle")
  /\ \E used \in SUBSET images : images' = used
  /\ UNCHANGED <<tag, checks, proved, before, solo>>

(* docker image prune: images without a tag go, but for those that some     *)
(* container uses.                                                          *)
Prune(r) ==
  /\ StepTo(r, "prune", "idle")
  /\ \E used \in SUBSET images : images' = used \cup ({tag[t] : t \in Tag} \ {NoImage})
  /\ UNCHANGED <<tag, checks, proved, before, solo>>

(* The run stops where it is. *)
Stops(r) ==
  /\ pc[r] # "idle"
  /\ pc' = [pc EXCEPT ![r] = "idle"]
  /\ UNCHANGED <<tag, images, checks, proved, before, solo>>

(* The operator rolls back, as the last line of the script says. *)
Rollback ==
  /\ Retag("previous", "warm")
  /\ solo' = NoRun /\ before' = Untagged
  /\ UNCHANGED <<images, pc, checks, proved>>

ScriptStep(r) ==
  \/ Start(r) \/ Build(r) \/ CheckPasses(r) \/ ChecksPassed(r) \/ CheckFails(r)
  \/ Keep(r) \/ Promote(r) \/ Untag(r) \/ Prune(r) \/ Stops(r)

Next == Rollback \/ \E r \in Run : ScriptStep(r)

Spec == Init /\ [][Next]_vars

--------------------------------------------------------------------------------
(* What is checked. *)

(* The types; and a tag that exists names an image that does.               *)
TypeOK ==
  /\ tag \in [Tag -> Image \cup {NoImage}]
  /\ images \subseteq Image
  /\ pc \in [Run -> {"idle", "build", "check", "keep", "promote", "untag", "prune"}]
  /\ checks \in [Run -> 0 .. NChecks]
  /\ proved \in [Image -> SUBSET Check]
  /\ solo \in Run \cup {NoRun}
  /\ before \in [Tag -> Image \cup {NoImage}]
  /\ \A t \in Tag : tag[t] \in images \cup {NoImage}

(* What a run promotes passed every check itself, if no other run or         *)
(* rollback came between: the checks go by the shared tag, not by the image  *)
(* (update_warm_image.sh:2-5).  Two runs at once can promote an untested one.*)
PromotesTested ==
  [][\A r \in Run : solo = r /\ Promote(r) => Tested(tag'["warm"])]_vars

(* A run that is alone leaves "warm" and "previous" as they were until its   *)
(* candidate passed, wherever it stops; once it promoted the candidate, the  *)
(* image that was live before is the one to roll back to                     *)
(* (update_warm_image.sh:9-16).                                              *)
PromotionIsSafe ==
  solo # NoRun /\ before["warm"] # NoImage =>
    CASE pc[solo] \in {"build", "check", "keep"} ->
           tag["warm"] = before["warm"] /\ tag["previous"] = before["previous"]
      [] pc[solo] = "promote" -> tag["warm"] = before["warm"] /\ tag["previous"] = tag["warm"]
      [] pc[solo] \in {"untag", "prune"} -> tag["previous"] = before["warm"]
      [] OTHER -> before["warm"] \in {tag["warm"], tag["previous"]}

(* Jobs always find an image: from the first on, no run takes "warm" away,   *)
(* however many runs stop or disturb each other (update_warm_image.sh:5-7).  *)
WarmStays == [][tag["warm"] # NoImage => tag'["warm"] # NoImage]_vars
================================================================================
