----------------------------- MODULE WarmImageProofs -----------------------------
(***************************************************************************)
(* Proofs about WarmImage, for every number of images, runs and checks.    *)
(*                                                                         *)
(* The argument: while solo names a run every other one is idle, so the    *)
(* candidate's tag is the one that run set, and each check it counted was  *)
(* of that very image.                                                     *)
(***************************************************************************)
EXTENDS WarmImage, TLAPS

(* The run that began last is the only one, as long as solo names it. *)
SoloInv ==
  solo # NoRun => \A q \in Run \ {solo} : pc[q] = "idle"

(* What it counted, the image it is about to promote passed. *)
CheckedInv ==
  solo # NoRun =>
    /\ pc[solo] = "build" => checks[solo] = 0
    /\ pc[solo] = "check" => 1 .. checks[solo] \subseteq proved[tag["candidate"]]
    /\ pc[solo] \in {"check", "keep", "promote"} => tag["candidate"] # NoImage
    /\ pc[solo] \in {"keep", "promote"} => Tested(tag["candidate"])

IInv == TypeOK /\ SoloInv /\ CheckedInv /\ PromotionIsSafe

(* The invariant holds at the start. *)
LEMMA InitInv == Init => IInv
<1> SUFFICES ASSUME Init PROVE IInv
  OBVIOUS
<1> USE NoneAssumption, ChecksAssumption
<1>1. TypeOK
  BY SMTT(30) DEF Init, TypeOK, Tag, Untagged, Check
<1> QED
  BY <1>1 DEF Init, IInv, SoloInv, CheckedInv, PromotionIsSafe

(* Every variable keeps its type, and no tag loses its image. *)
LEMMA TypeKept == ASSUME TypeOK, [Next]_vars PROVE TypeOK'
<1> USE NoneAssumption, ChecksAssumption DEF TypeOK, Tag, StepTo
<1>1. ASSUME NEW r \in Run, Start(r) PROVE TypeOK'
  BY <1>1, SMTT(30) DEF Start, Untagged, Check
<1>2. ASSUME NEW r \in Run, Build(r) PROVE TypeOK'
  BY <1>2, SMTT(30) DEF Build
<1>3. ASSUME NEW r \in Run, CheckPasses(r) PROVE TypeOK'
  BY <1>3, SMTT(30) DEF CheckPasses, Check
<1>4. ASSUME NEW r \in Run, ChecksPassed(r) \/ CheckFails(r) \/ Stops(r) PROVE TypeOK'
  BY <1>4, SMTT(30) DEF ChecksPassed, CheckFails, Stops
<1>5. ASSUME NEW r \in Run, Keep(r) \/ Promote(r) PROVE TypeOK'
  BY <1>5, SMTT(30) DEF Keep, Promote, Retag
<1>6. ASSUME NEW r \in Run, Untag(r) PROVE TypeOK'
  BY <1>6, SMTT(30) DEF Untag
<1>7. ASSUME NEW r \in Run, Prune(r) PROVE TypeOK'
  BY <1>7, SMTT(30) DEF Prune
<1>8. CASE Rollback
  BY <1>8, SMTT(30) DEF Rollback, Retag, Untagged
<1>9. CASE UNCHANGED vars
  BY <1>9 DEF vars
<1> QED
  BY <1>1, <1>2, <1>3, <1>4, <1>5, <1>6, <1>7, <1>8, <1>9 DEF Next, ScriptStep

(* A run that begins, or a rollback, begins a new history. *)
LEMMA BeginKeeps ==
  ASSUME IInv, Rollback \/ \E r \in Run : Start(r) PROVE SoloInv' /\ CheckedInv' /\ PromotionIsSafe'
<1> USE NoneAssumption, ChecksAssumption
<1>1. CASE Rollback
  BY <1>1 DEF Rollback, SoloInv, CheckedInv, PromotionIsSafe
<1>2. ASSUME NEW r \in Run, Start(r) PROVE SoloInv' /\ CheckedInv' /\ PromotionIsSafe'
  BY <1>2, SMTT(30) DEF Start, StepTo, IInv, TypeOK, SoloInv, CheckedInv, PromotionIsSafe
<1> QED
  BY <1>1, <1>2

(* The other steps, of the solo run or of runs that overlap. *)
Goes(r) ==
  \/ Build(r) \/ CheckPasses(r) \/ ChecksPassed(r) \/ CheckFails(r)
  \/ Keep(r) \/ Promote(r) \/ Untag(r) \/ Prune(r) \/ Stops(r)

LEMMA GoesKeeps ==
  ASSUME IInv, NEW r \in Run, Goes(r) PROVE SoloInv' /\ CheckedInv' /\ PromotionIsSafe'
<1> USE NoneAssumption, ChecksAssumption
<1>1. pc[r] # "idle" /\ UNCHANGED <<solo, before>> /\ \A q \in Run \ {r} : pc'[q] = pc[q]
  BY SMTT(30) DEF Goes, Build, CheckPasses, ChecksPassed, CheckFails, Keep, Promote, Untag, Prune, Stops,
     StepTo, IInv, TypeOK
<1>2. CASE solo = NoRun
  BY <1>1, <1>2 DEF SoloInv, CheckedInv, PromotionIsSafe
<1>3. CASE solo = r
  <2>1. SoloInv'
    BY <1>1, <1>3 DEF IInv, SoloInv
  <2>2. CheckedInv'
    <3> USE <1>1, <1>3 DEF IInv, TypeOK, CheckedInv, StepTo
    <3>1. CASE Build(r)
      <4>1. PICK i \in Image : tag' = [tag EXCEPT !["candidate"] = i]
        BY <3>1 DEF Build
      <4>2. checks'[r] = 0
        BY <3>1 DEF Build
      <4> QED
        BY <3>1, <4>1, <4>2, SMTT(30) DEF Build, Tag
    <3>2. CASE CheckPasses(r)
      BY <3>2, SMTT(30) DEF CheckPasses, Tag
    <3>3. CASE ChecksPassed(r)
      <4>1. proved[tag["candidate"]] \subseteq Check
        BY <3>3 DEF ChecksPassed, Tag
      <4>2. proved[tag["candidate"]] = Check
        BY <3>3, <4>1 DEF ChecksPassed, Check
      <4>3. pc'[r] = "keep" /\ tag' = tag /\ proved' = proved
        BY <3>3 DEF ChecksPassed
      <4> QED
        BY <3>3, <4>2, <4>3 DEF ChecksPassed, Tested
    <3>4. CASE Keep(r)
      BY <3>4, SMTT(30) DEF Keep, Retag, Tag, Tested
    <3>5. CASE Promote(r) \/ Untag(r) \/ Prune(r) \/ Stops(r) \/ CheckFails(r)
      BY <3>5, SMTT(30) DEF Promote, Untag, Prune, Stops, CheckFails
    <3> QED
      BY <3>1, <3>2, <3>3, <3>4, <3>5 DEF Goes
  <2>3. PromotionIsSafe'
    <3> USE <1>1, <1>3 DEF IInv, TypeOK, PromotionIsSafe, StepTo, Tag
    <3>1. CASE Build(r) \/ CheckPasses(r) \/ ChecksPassed(r) \/ CheckFails(r) \/ Stops(r)
      BY <3>1, SMTT(30) DEF Build, CheckPasses, ChecksPassed, CheckFails, Stops
    <3>2. CASE Keep(r) \/ Promote(r)
      BY <3>2, SMTT(30) DEF Keep, Promote, Retag
    <3>3. CASE Untag(r) \/ Prune(r)
      BY <3>3, SMTT(30) DEF Untag, Prune
    <3> QED
      BY <3>1, <3>2, <3>3 DEF Goes
  <2> QED
    BY <2>1, <2>2, <2>3
<1>4. CASE solo # NoRun /\ solo # r
  BY <1>1, <1>4 DEF IInv, TypeOK, SoloInv
<1> QED
  BY <1>2, <1>3, <1>4

(* Every step keeps the invariant. *)
LEMMA NextKeeps == ASSUME IInv, [Next]_vars PROVE IInv'
<1>1. TypeOK'
  BY TypeKept DEF IInv
<1>2. CASE Rollback \/ \E r \in Run : Start(r)
  BY <1>1, <1>2, BeginKeeps DEF IInv
<1>3. ASSUME NEW r \in Run, Goes(r) PROVE IInv'
  BY <1>1, <1>3, GoesKeeps DEF IInv
<1>4. CASE UNCHANGED vars
  BY <1>1, <1>4 DEF vars, IInv, SoloInv, CheckedInv, PromotionIsSafe, Tested
<1> QED
  BY <1>2, <1>3, <1>4 DEF Next, ScriptStep, Goes

LEMMA Invariance == Spec => []IInv
<1>1. IInv /\ [Next]_vars => IInv'
  BY NextKeeps
<1> QED
  BY <1>1, InitInv, PTL DEF Spec

--------------------------------------------------------------------------------
(* No command leaves a tag without its image, however runs overlap.         *)
THEOREM TypeCorrect == Spec => []TypeOK
<1>1. IInv => TypeOK
  BY DEF IInv
<1> QED
  BY <1>1, Invariance, PTL

(* A run that is alone leaves "warm" and "previous" alone until its candidate *)
(* passed, and then keeps the image that was live (update_warm_image.sh:9-16).*)
THEOREM PromotionCorrect == Spec => []PromotionIsSafe
<1>1. IInv => PromotionIsSafe
  BY DEF IInv
<1> QED
  BY <1>1, Invariance, PTL

(* A run that is alone promotes only the image that passed every check.     *)
THEOREM PromotesTestedCorrect == Spec => PromotesTested
<1>1. IInv /\ [Next]_vars => [\A r \in Run : solo = r /\ Promote(r) => Tested(tag'["warm"])]_vars
  BY NoneAssumption DEF IInv, CheckedInv, TypeOK, Promote, Retag, StepTo, Tag, Tested
<1> QED
  BY <1>1, Invariance, PTL DEF Spec, PromotesTested

(* Once there is an image for the jobs there always is one, however runs    *)
(* overlap or stop.                                                         *)
THEOREM WarmStaysCorrect == Spec => WarmStays
<1>1. ASSUME IInv, [Next]_vars, tag["warm"] # NoImage PROVE tag'["warm"] # NoImage
  <2> USE <1>1 DEF IInv, TypeOK, Tag
  <2>1. ASSUME NEW r \in Run, Build(r) \/ Keep(r) \/ Promote(r) \/ Untag(r)
        PROVE  tag'["warm"] # NoImage
    BY <2>1, SMTT(30) DEF Build, Keep, Promote, Untag, Retag
  <2>2. CASE Rollback
    BY <2>2, SMTT(30) DEF Rollback, Retag
  <2>3. CASE tag' = tag
    BY <2>3
  <2> QED
    BY <2>1, <2>2, <2>3 DEF Next, ScriptStep, vars, Start, CheckPasses, ChecksPassed, CheckFails, Prune, Stops
<1>2. IInv /\ [Next]_vars => [tag["warm"] # NoImage => tag'["warm"] # NoImage]_vars
  BY <1>1
<1> QED
  BY <1>2, Invariance, PTL DEF Spec, WarmStays
================================================================================
