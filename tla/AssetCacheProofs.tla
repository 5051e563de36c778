----------------------------- MODULE AssetCacheProofs -----------------------------
(***************************************************************************)
(* Proofs about AssetCache, for every number of workers, projects and      *)
(* files, every age limit and every cap.                                   *)
(*                                                                         *)
(* The argument: a container has files open only while its worker is at    *)
(* "run", and only a build's has the project's; what a harvest copies was  *)
(* shipped whole, or is left by a command that ended with all of its files *)
(* written; and a step that takes a file from a generate job's project, or *)
(* its temporary copy, is one that disturbs the job.                       *)
(***************************************************************************)
EXTENDS AssetCache, FiniteSetTheorems, TLAPS

(* Where a worker has what. *)
PlaceInv(w) ==
  /\ pc[w] \in {"touch", "mount", "harvest"} => proj[w] \in Project
  /\ pc[w] # "run" => mounted[w] = "none" /\ writing[w] = NoKey
  /\ mounted[w] # "none" \/ pc[w] = "mount" => KindOf[w] = "build"
  /\ pc[w] = "pack" => KindOf[w] = "generate"
  /\ pc[w] # "harvest" => tmp[w] = NoKey
  /\ tmp[w] # NoKey => tmp[w] \in todo[w]
  /\ pc[w] \in {"idle", "touch", "mount", "run"} \/ KindOf[w] = "build" => ~clean[w]

(* What is in the job's own .cache. *)
WorkInv(w) ==
  /\ KindOf[w] = "generate" /\ pc[w] \in {"touch", "run", "pack", "harvest"}
       => Present(work[w]) = own[w]
  /\ KindOf[w] = "generate" /\ pc[w] = "harvest" => files[w] = own[w]
  /\ KindOf[w] = "generate" /\ writing[w] # NoKey => writing[w] \in own[w]
  /\ \A k \in Key : work[w][k] = "partial" =>
       \/ KindOf[w] = "generate" /\ pc[w] = "run" /\ writing[w] = k
       \/ pc[w] \in {"pack", "prune"} /\ ~clean[w]

(* A harvest leaves behind what the cache has. *)
CachedInv(w) ==
  KindOf[w] = "generate" /\ proj[w] \in Project /\ clean[w] /\ calm[w] =>
    /\ pc[w] = "harvest" => \A k \in own[w] \ todo[w] : cache[proj[w]][k] # "absent"
    /\ pc[w] = "prune" => \A k \in own[w] : cache[proj[w]][k] # "absent"

Inv(w) == PlaceInv(w) /\ WorkInv(w) /\ CachedInv(w)

IInv == TypeOK /\ PartialIsABuilds /\ \A w \in Worker : Inv(w)

LEMMA InitInv == Init => IInv
<1> SUFFICES ASSUME Init PROVE IInv
  OBVIOUS
<1> USE NoneAssumption, LimitsAssumption
<1>1. TypeOK
  BY SMTT(30) DEF Init, TypeOK, Age, FileState, Empty, Unmeasured, Nothing, Unlisted
<1>2. PartialIsABuilds
  BY DEF Init, PartialIsABuilds, Empty
<1>3. ASSUME NEW w \in Worker PROVE Inv(w)
  BY SMTT(30) DEF Init, Inv, PlaceInv, WorkInv, CachedInv, Empty, Present
<1> QED
  BY <1>1, <1>2, <1>3 DEF IInv

(* What _dir_size finds is a number. *)
LEMMA SizeType == ASSUME TypeOK, NEW p \in Project PROVE SizeOf(p) \in Nat
<1>1. IsFiniteSet(Present(cache[p])) /\ IsFiniteSet({w \in Worker : proj[w] = p /\ tmp[w] # NoKey})
  BY FiniteAssumption, FS_Subset DEF Present
<1> QED
  BY <1>1, FS_CardinalityType, SMTT(30) DEF SizeOf

--------------------------------------------------------------------------------
(* What a step of w may do to another worker v. *)
Elsewhere(w) ==
  \A v \in Worker \ {w} :
    /\ pc'[v] = pc[v] /\ proj'[v] = proj[v] /\ work'[v] = work[v] /\ clean'[v] = clean[v]
    /\ files'[v] = files[v] /\ own'[v] = own[v]
    /\ mounted'[v] = mounted[v] \/ (mounted[v] = "live" /\ mounted'[v] = "gone")
    /\ writing'[v] = writing[v] \/ (mounted[v] = "live" /\ writing'[v] = NoKey)
    /\ \/ tmp'[v] = tmp[v] /\ todo'[v] = todo[v]
       \/ /\ tmp'[v] = NoKey /\ todo'[v] = todo[v] \ {tmp[v]}
          /\ tmp[v] # NoKey => proj[v] \in dir \ dir'

LEMMA Frame ==
  ASSUME IInv, TypeOK', NEW w \in Worker, NEW c, Calm(w, c), Elsewhere(w), NEW v \in Worker \ {w}
  PROVE  Inv(v)'
<1> USE NoneAssumption, KindAssumption
<1>1. PlaceInv(v)'
  BY DEF IInv, Inv, PlaceInv, Elsewhere, TypeOK
<1>2. WorkInv(v)'
  <2>1. KindOf[v] = "generate" => writing'[v] = writing[v]
    BY DEF IInv, Inv, PlaceInv, Elsewhere
  <2>2. WorkInv(v)
    BY DEF IInv, Inv
  <2>3. Present(work'[v]) = Present(work[v])
    BY DEF Elsewhere
  <2> QED
    BY <2>1, <2>2, <2>3 DEF WorkInv, Elsewhere
<1>3. CachedInv(v)'
  <2> SUFFICES ASSUME KindOf[v] = "generate", proj'[v] \in Project, clean'[v], calm'[v]
               PROVE  /\ pc'[v] = "harvest" => \A k \in own'[v] \ todo'[v] : cache'[proj'[v]][k] # "absent"
                      /\ pc'[v] = "prune" => \A k \in own'[v] : cache'[proj'[v]][k] # "absent"
    BY DEF CachedInv
  <2>1. calm[v] /\ ~Disturbs(v)
    BY DEF Calm
  <2>2. proj'[v] = proj[v] /\ pc'[v] = pc[v] /\ own'[v] = own[v] /\ clean'[v] = clean[v]
    BY DEF Elsewhere
  <2>3. CASE pc[v] \in {"harvest", "prune"}
    <3>1. ~(proj[v] \in dir \ dir')
      BY <2>1, <2>2, <2>3 DEF Disturbs, Pruning
    <3>2. \A k \in Key : cache[proj[v]][k] # "absent" => cache'[proj[v]][k] # "absent"
      BY <2>1, <2>2, <2>3 DEF Disturbs, Pruning
    <3>3. todo'[v] = todo[v]
      <4>1. todo[v] \ {NoKey} = todo[v]
        BY DEF IInv, TypeOK
      <4> QED
        BY <3>1, <4>1 DEF Elsewhere
    <3>4. own[v] \subseteq Key /\ CachedInv(v)
      BY DEF IInv, Inv, TypeOK
    <3> QED
      BY <2>1, <2>2, <3>2, <3>3, <3>4 DEF CachedInv
  <2> QED
    BY <2>2, <2>3
<1> QED
  BY <1>1, <1>2, <1>3 DEF Inv

(* So for a step of w it is enough to look at w, and at the cache. *)
LEMMA Local ==
  ASSUME IInv, NEW w \in Worker, NEW c, Calm(w, c), Elsewhere(w), TypeOK', PartialIsABuilds', Inv(w)'
  PROVE  IInv'
<1>1. ASSUME NEW v \in Worker \ {w} PROVE Inv(v)'
  BY <1>1, Frame
<1> QED
  BY <1>1 DEF IInv

LEMMA CalmType ==
  ASSUME TypeOK, NEW w \in Worker, NEW c \in BOOLEAN, Calm(w, c)
  PROVE  calm' \in [Worker -> BOOLEAN] /\ calm'[w] = c
  BY Zenon DEF Calm, TypeOK

--------------------------------------------------------------------------------
(* The steps that leave the files as they are, and take no mount away. *)
Quiet(w) ==
  \/ Begin(w) \/ Touch(w) \/ Mount(w) \/ Unavailable(w)
  \/ HarvestDone(w) \/ HarvestRaises(w)
  \/ \E k \in Key : HarvestSkip(w, k) \/ HarvestCopy(w, k) \/ HarvestFails(w, k)
  \/ Pack(w) \/ PruneLists(w) \/ Measure(w) \/ PruneEnds(w) \/ Crash(w)
LEMMA QuietTypes ==
  ASSUME IInv, NEW w \in Worker, NEW c \in BOOLEAN, Calm(w, c), Quiet(w)
  PROVE  TypeOK'
<1>1. calm' \in [Worker -> BOOLEAN]
  BY CalmType DEF IInv
<1>2. TypeOK /\ PlaceInv(w)
  BY DEF IInv, Inv
<1> USE <1>1, <1>2, NoneAssumption, KindAssumption, LimitsAssumption
<1> USE DEF TypeOK, PlaceInv, StepTo, disk, job, box, copy, list
<1>3. CASE Begin(w)
  <2>1. PICK p \in Project \cup {NoProject}, shipped \in SUBSET Key :
          /\ StepTo(w, "idle", IF p = NoProject THEN "run" ELSE "touch")
          /\ proj' = [proj EXCEPT ![w] = p]
          /\ work' = [work EXCEPT ![w] = [k \in Key |-> IF k \in shipped THEN "whole" ELSE "absent"]]
          /\ own' = [own EXCEPT ![w] = IF KindOf[w] = "generate" THEN shipped ELSE {}]
          /\ UNCHANGED <<disk, clean, files, made, box, copy, list>>
    BY <1>3 DEF Begin
  <2>2. work' \in [Worker -> [Key -> FileState]]
    BY <2>1, SMTT(30) DEF FileState
  <2>3. own' \in [Worker -> SUBSET Key]
    BY <2>1, SMTT(30)
  <2> QED
    BY <2>1, <2>2, <2>3, SMTT(30)
<1>4. CASE Touch(w)
  <2>1. todo' \in [Worker -> SUBSET Key]
    BY <1>4, SMTT(30) DEF Touch, Present
  <2>2. age' \in [Project -> Age]
    BY <1>4, SMTT(30) DEF Touch, Age
  <2> QED
    BY <1>4, <2>1, <2>2, SMTT(30) DEF Touch
<1>5. CASE Mount(w)
  BY <1>5, SMTT(30) DEF Mount, Empty, FileState
<1>6. CASE Unavailable(w) \/ HarvestDone(w) \/ HarvestRaises(w)
  <2>1. CASE Unavailable(w)
    <3>1. pc' = [pc EXCEPT ![w] = "run"] /\ UNCHANGED <<cache, job, box, copy, list>>
      BY <2>1, Zenon DEF Unavailable
    <3>2. pc' \in [Worker -> {"idle", "touch", "mount", "run", "pack", "harvest", "prune", "old", "fit"}]
      BY <3>1
    <3>3. \/ UNCHANGED <<dir, age>>
          \/ dir' = dir \cup {proj[w]} /\ age' = [age EXCEPT ![proj[w]] = 0]
      BY <2>1, Zenon DEF Unavailable
    <3>4. CASE UNCHANGED <<dir, age>>
      BY <3>1, <3>2, <3>4, SMTT(30)
    <3>5. CASE dir' = dir \cup {proj[w]} /\ age' = [age EXCEPT ![proj[w]] = 0]
      <4>1. proj[w] \in Project
        BY <2>1 DEF Unavailable
      <4>2. age' \in [Project -> Age] /\ dir' \subseteq Project
        BY <3>5, <4>1, SMTT(30) DEF Age
      <4> QED
        BY <3>1, <3>2, <3>5, <4>2, SMTT(30)
    <3> QED
      BY <3>3, <3>4, <3>5
  <2>2. CASE HarvestDone(w)
    BY <2>2, SMTT(30) DEF HarvestDone, AfterHarvest
  <2>3. CASE HarvestRaises(w)
    BY <2>3, SMTT(30) DEF HarvestRaises
  <2> QED
    BY <1>6, <2>1, <2>2, <2>3
<1>7. ASSUME NEW k \in Key, HarvestSkip(w, k) \/ HarvestCopy(w, k) \/ HarvestFails(w, k)
      PROVE  TypeOK'
  <2>1. CASE HarvestSkip(w, k)
    BY <2>1, SMTT(30) DEF HarvestSkip
  <2>2. CASE HarvestCopy(w, k)
    BY <2>2, SMTT(30) DEF HarvestCopy
  <2>3. CASE HarvestFails(w, k)
    BY <2>3, SMTT(30) DEF HarvestFails
  <2> QED
    BY <1>7, <2>1, <2>2, <2>3
<1>8. CASE Pack(w)
  BY <1>8, SMTT(30) DEF Pack, Present
<1>9. CASE PruneLists(w)
  BY <1>9, SMTT(30) DEF PruneLists, Forget, Empty, FileState
<1>10. CASE Measure(w)
  <2>1. [p \in Project |-> IF p \in Measured(w) THEN SizeOf(p) ELSE 0] \in [Project -> Nat]
    BY SizeType
  <2>2. size' \in [Worker -> [Project -> Nat]]
    BY <1>10, <2>1 DEF Measure
  <2> QED
    BY <1>10, <2>2, SMTT(30) DEF Measure
<1>11. CASE PruneEnds(w)
  BY <1>11, SMTT(30) DEF PruneEnds, Forget, Empty, FileState, Nothing, Unmeasured, Pruning
<1>12. CASE Crash(w)
  BY <1>12, SMTT(30) DEF Crash, Forget, Empty, FileState, Nothing, Unmeasured
<1> QED
  BY <1>3, <1>4, <1>5, <1>6, <1>7, <1>8, <1>9, <1>10, <1>11, <1>12 DEF Quiet

LEMMA QuietElsewhere ==
  ASSUME IInv, NEW w \in Worker, Quiet(w)
  PROVE  Elsewhere(w) /\ PartialIsABuilds'
<1> USE DEF StepTo, disk, job, box, copy, list
<1>1. Elsewhere(w)
  <2> USE DEF IInv, TypeOK, Elsewhere
  <2>1. ASSUME NEW k \in Key, HarvestSkip(w, k) \/ HarvestCopy(w, k) \/ HarvestFails(w, k)
        PROVE  Elsewhere(w)
    BY <2>1 DEF HarvestSkip, HarvestCopy, HarvestFails
  <2>2. CASE Begin(w) \/ Touch(w) \/ Mount(w) \/ Unavailable(w) \/ HarvestDone(w) \/ HarvestRaises(w)
    BY <2>2 DEF Begin, Touch, Mount, Unavailable, HarvestDone, HarvestRaises
  <2>3. CASE Pack(w) \/ PruneLists(w) \/ Measure(w) \/ PruneEnds(w) \/ Crash(w)
    BY <2>3 DEF Pack, PruneLists, Measure, PruneEnds, Crash, Forget
  <2> QED
    BY <2>1, <2>2, <2>3 DEF Quiet
<1>2. /\ cache' = cache /\ torn' = torn /\ writing' = writing
      /\ mounted[w] = "live" => mounted'[w] = "live" /\ proj'[w] = proj[w]
  BY DEF Quiet, Begin, Touch, Mount, Unavailable, HarvestDone, HarvestRaises, HarvestSkip, HarvestCopy,
     HarvestFails, Pack, PruneLists, Measure, PruneEnds, Crash, IInv, Inv, PlaceInv, Pruning
<1>3. \A v \in Worker : mounted[v] = "live" => proj'[v] = proj[v]
  BY <1>1, <1>2 DEF Elsewhere
<1>4. mounted' = mounted \/ mounted' = [mounted EXCEPT ![w] = "live"]
  BY DEF Quiet, Begin, Touch, Mount, Unavailable, HarvestDone, HarvestRaises, HarvestSkip, HarvestCopy,
     HarvestFails, Pack, PruneLists, Measure, PruneEnds, Crash
<1>5. \A v \in Worker : mounted[v] = "live" => mounted'[v] = "live"
  BY <1>2, <1>4 DEF IInv, TypeOK
<1>6. ASSUME NEW p \in Project, NEW k \in Key, cache'[p][k] = "partial"
      PROVE  \/ <<p, k>> \in torn'
             \/ \E v \in Worker : /\ KindOf[v] = "build" /\ mounted'[v] = "live"
                                  /\ proj'[v] = p /\ writing'[v] = k
  BY <1>2, <1>3, <1>5, <1>6 DEF IInv, PartialIsABuilds
<1> QED
  BY <1>1, <1>6 DEF PartialIsABuilds

(* What a quiet step does to its own worker.  (c is what Calm is given.) *)
LEMMA QuietInv ==
  ASSUME IInv, NEW w \in Worker, Quiet(w), TypeOK',
         calm'[w] => calm[w] \/ Begin(w) \/ PruneLists(w),
         calm'[w] => ~HarvestRaises(w) /\ \A k \in Key : ~HarvestFails(w, k)
  PROVE  Inv(w)'
<1>1. TypeOK /\ PlaceInv(w) /\ WorkInv(w) /\ CachedInv(w)
  BY DEF IInv, Inv
<1> USE <1>1, NoneAssumption, KindAssumption DEF StepTo, disk, job, box, copy, list
<1>2. CASE Begin(w)
  <2>1. PICK p \in Project \cup {NoProject}, shipped \in SUBSET Key :
          /\ StepTo(w, "idle", IF p = NoProject THEN "run" ELSE "touch")
          /\ proj' = [proj EXCEPT ![w] = p]
          /\ work' = [work EXCEPT ![w] = [k \in Key |-> IF k \in shipped THEN "whole" ELSE "absent"]]
          /\ own' = [own EXCEPT ![w] = IF KindOf[w] = "generate" THEN shipped ELSE {}]
          /\ UNCHANGED <<disk, clean, files, box, copy, list>>
    BY <1>2 DEF Begin
  <2>2. PlaceInv(w)'
    BY <2>1 DEF PlaceInv, TypeOK
  <2>3. \A k \in Key : work'[w][k] = IF k \in shipped THEN "whole" ELSE "absent"
    BY <2>1 DEF TypeOK
  <2>4. WorkInv(w)'
    <3>1. Present(work'[w]) = shipped
      BY <2>3 DEF Present
    <3>2. KindOf[w] = "generate" => own'[w] = shipped
      BY <2>1 DEF TypeOK
    <3>3. pc'[w] \in {"run", "touch"} /\ writing'[w] = NoKey
      BY <2>1 DEF TypeOK, PlaceInv
    <3> QED
      BY <2>3, <3>1, <3>2, <3>3 DEF WorkInv
  <2>5. CachedInv(w)'
    BY <2>1 DEF TypeOK, CachedInv
  <2> QED
    BY <2>2, <2>4, <2>5 DEF Inv
<1>3. CASE Touch(w) \/ Unavailable(w)
  <2>1. PlaceInv(w)'
    BY <1>3 DEF Touch, Unavailable, PlaceInv, TypeOK
  <2>2. pc'[w] \in {"run", "harvest"} /\ (KindOf[w] = "generate" => pc'[w] = "run")
    BY <1>3 DEF Touch, Unavailable, PlaceInv, TypeOK
  <2>3. pc[w] \in {"touch", "mount"} /\ UNCHANGED <<work, own, files, writing, clean>>
    BY <1>3 DEF Touch, Unavailable
  <2>4. WorkInv(w)'
    BY <2>2, <2>3 DEF WorkInv, Present, PlaceInv
  <2> QED
    BY <2>1, <2>2, <2>4, <2>3 DEF Inv, CachedInv
<1>4. CASE Mount(w)
  <2>1. PlaceInv(w)'
    BY <1>4 DEF Mount, PlaceInv, TypeOK
  <2>2. WorkInv(w)'
    BY <1>4 DEF Mount, WorkInv, Empty, TypeOK, PlaceInv
  <2> QED
    BY <1>4, <2>1, <2>2 DEF Mount, Inv, CachedInv, PlaceInv
<1>5. CASE HarvestDone(w) \/ HarvestRaises(w)
  <2>1. PlaceInv(w)'
    <3>1. /\ pc[w] = "harvest" /\ UNCHANGED <<proj, mounted, writing, clean, tmp>>
          /\ pc'[w] \in {"run", "mount", "prune"}
          /\ pc'[w] \in {"run", "mount"} => KindOf[w] = "build"
      BY <1>5 DEF HarvestDone, HarvestRaises, AfterHarvest, TypeOK
    <3>2. tmp[w] = NoKey
      BY <1>5 DEF HarvestDone, HarvestRaises, PlaceInv
    <3> QED
      BY <3>1, <3>2 DEF PlaceInv
  <2>2. WorkInv(w)'
    BY <1>5 DEF HarvestDone, HarvestRaises, AfterHarvest, WorkInv, TypeOK, Present
  <2>3. CachedInv(w)'
    BY <1>5 DEF HarvestDone, HarvestRaises, AfterHarvest, CachedInv, TypeOK, Begin, PruneLists
  <2> QED
    BY <2>1, <2>2, <2>3 DEF Inv
<1>6. ASSUME NEW k \in Key, HarvestSkip(w, k) \/ HarvestCopy(w, k) \/ HarvestFails(w, k)
      PROVE  Inv(w)'
  <2>1. PlaceInv(w)'
    BY <1>6 DEF HarvestSkip, HarvestCopy, HarvestFails, PlaceInv, TypeOK
  <2>2. WorkInv(w)'
    BY <1>6 DEF HarvestSkip, HarvestCopy, HarvestFails, WorkInv, TypeOK, Present
  <2>3. CachedInv(w)'
    BY <1>6 DEF HarvestSkip, HarvestCopy, HarvestFails, CachedInv, TypeOK, Begin, PruneLists
  <2> QED
    BY <2>1, <2>2, <2>3 DEF Inv
<1>7. CASE Pack(w)
  <2>1. PlaceInv(w)'
    BY <1>7 DEF Pack, Harvests, PlaceInv, TypeOK
  <2>2. WorkInv(w)'
    <3>1. /\ pc[w] = "pack" /\ work' = work /\ own' = own /\ clean' = clean /\ writing' = writing
          /\ files'[w] = Present(work[w])
          /\ pc'[w] \in {"harvest", "prune"} /\ (pc'[w] = "harvest" => clean[w])
      BY <1>7 DEF Pack, Harvests, TypeOK
    <3>2. KindOf[w] = "generate" => Present(work[w]) = own[w]
      BY <3>1 DEF WorkInv
    <3>3. \A k \in Key : work[w][k] = "partial" => ~clean[w]
      BY <3>1 DEF WorkInv
    <3> QED
      BY <3>1, <3>2, <3>3 DEF WorkInv, Present
  <2>3. CachedInv(w)'
    <3>1. KindOf[w] = "generate" /\ own'[w] = Present(work[w])
      BY <1>7 DEF Pack, PlaceInv, WorkInv, TypeOK
    <3>2. proj'[w] \in Project /\ clean'[w] => pc'[w] = "harvest" /\ todo'[w] = Present(work[w])
      BY <1>7 DEF Pack, Harvests, TypeOK
    <3> QED
      BY <3>1, <3>2 DEF CachedInv
  <2> QED
    BY <2>1, <2>2, <2>3 DEF Inv
<1>8. CASE PruneLists(w) \/ PruneEnds(w) \/ Crash(w)
  <2>1. /\ pc[w] \notin {"run", "idle"} /\ pc'[w] \in {"old", "idle"}
        /\ work'[w] = Empty /\ clean'[w] = FALSE
        /\ mounted' = mounted /\ writing' = writing
        /\ tmp'[w] = NoKey
    BY <1>8 DEF PruneLists, PruneEnds, Crash, Forget, TypeOK, Pruning, PlaceInv
  <2> QED
    BY <2>1 DEF Inv, PlaceInv, WorkInv, CachedInv, Empty
<1>9. CASE Measure(w)
  <2>1. PlaceInv(w)'
    BY <1>9 DEF Measure, PlaceInv, TypeOK
  <2>2. WorkInv(w)'
    BY <1>9 DEF Measure, WorkInv, TypeOK
  <2> QED
    BY <1>9, <2>1, <2>2 DEF Measure, Inv, CachedInv, TypeOK
<1> QED
  BY <1>2, <1>3, <1>4, <1>5, <1>6, <1>7, <1>8, <1>9 DEF Quiet

--------------------------------------------------------------------------------
(* The steps that change files or end a container. *)
LEMMA ReplaceKeeps ==
  ASSUME IInv, NEW w \in Worker, NEW k \in Key, HarvestReplace(w, k), Calm(w, calm[w])
  PROVE  IInv'
<1>1. TypeOK /\ PlaceInv(w) /\ WorkInv(w) /\ CachedInv(w) /\ calm[w] \in BOOLEAN
  BY DEF IInv, Inv, TypeOK
<1>2. /\ pc[w] = "harvest" /\ tmp[w] = k /\ proj[w] \in Project /\ proj[w] \in dir
      /\ mounted[w] = "none" /\ writing[w] = NoKey /\ work[w][k] # "partial"
  BY <1>1, NoneAssumption DEF HarvestReplace, TypeOK, PlaceInv, WorkInv
<1>3. calm' \in [Worker -> BOOLEAN] /\ calm'[w] = calm[w]
  BY <1>1, CalmType
<1> USE DEF disk, job, box, copy, list
<1>4. TypeOK'
  <2>1. cache' \in [Project -> [Key -> FileState]] /\ \A p \in Project \ dir' : cache'[p] = Empty
    BY <1>1, <1>2, SMTT(30) DEF HarvestReplace, TypeOK
  <2>2. writing' \in [Worker -> Key \cup {NoKey}] /\ tmp' \in [Worker -> Key \cup {NoKey}]
    BY <1>1, SMTT(30) DEF HarvestReplace, TypeOK
  <2> QED
    BY <1>1, <1>3, <2>1, <2>2, SMTT(30) DEF HarvestReplace, TypeOK
<1>5. Elsewhere(w)
  BY <1>1 DEF HarvestReplace, Elsewhere, TypeOK
<1>6. PartialIsABuilds'
  <2> SUFFICES ASSUME NEW p \in Project, NEW j \in Key, cache'[p][j] = "partial"
               PROVE  \/ <<p, j>> \in torn'
                      \/ \E v \in Worker : /\ KindOf[v] = "build" /\ mounted'[v] = "live"
                                           /\ proj'[v] = p /\ writing'[v] = j
    BY DEF PartialIsABuilds
  <2>1. ~(p = proj[w] /\ j = k)
    BY <1>1, <1>2 DEF HarvestReplace, TypeOK
  <2>2. cache[p][j] = "partial"
    BY <1>1, <1>2, <2>1 DEF HarvestReplace, TypeOK
  <2>3. \A v \in Worker : proj[v] = p /\ writing[v] = j => writing'[v] = j
    BY <2>1 DEF HarvestReplace
  <2>4. <<p, j>> \in torn => <<p, j>> \in torn'
    BY <2>1 DEF HarvestReplace
  <2> QED
    BY <2>2, <2>3, <2>4 DEF IInv, PartialIsABuilds, HarvestReplace
<1>7. Inv(w)'
  <2>1. /\ pc' = pc /\ proj' = proj /\ mounted' = mounted /\ work' = work /\ own' = own
        /\ clean' = clean /\ files' = files /\ writing'[w] = NoKey /\ tmp'[w] = NoKey
        /\ todo'[w] = todo[w] \ {k}
    BY <1>1, <1>2 DEF HarvestReplace, TypeOK
  <2>2. PlaceInv(w)'
    BY <1>1, <2>1 DEF PlaceInv
  <2>3. WorkInv(w)'
    BY <1>1, <1>2, <2>1 DEF WorkInv, Present
  <2>4. \A j \in Key : j # k => cache'[proj[w]][j] = cache[proj[w]][j]
    BY <1>1, <1>2 DEF HarvestReplace, TypeOK
  <2>5. cache'[proj[w]][k] = work[w][k]
    BY <1>1, <1>2 DEF HarvestReplace, TypeOK
  <2>6. KindOf[w] = "generate" /\ k \in own[w] => work[w][k] # "absent"
    BY <1>1, <1>2 DEF WorkInv, Present
  <2>7. own[w] \subseteq Key
    BY <1>1 DEF TypeOK
  <2>8. CachedInv(w)'
    BY <1>1, <1>2, <1>3, <2>1, <2>4, <2>5, <2>6, <2>7 DEF CachedInv
  <2> QED
    BY <2>2, <2>3, <2>8 DEF Inv
<1> QED
  BY <1>4, <1>5, <1>6, <1>7, Local

LEMMA WriteBeginsKeeps ==
  ASSUME IInv, NEW w \in Worker, NEW k \in Key, WriteBegins(w, k), Calm(w, calm[w])
  PROVE  IInv'
<1>1. TypeOK /\ PlaceInv(w) /\ WorkInv(w) /\ calm[w] \in BOOLEAN
  BY DEF IInv, Inv, TypeOK
<1>2. calm' \in [Worker -> BOOLEAN] /\ calm'[w] = calm[w]
  BY <1>1, CalmType
<1> USE DEF disk, job, box, copy, list
<1>3. /\ pc[w] = "run" /\ pc' = pc /\ proj' = proj /\ clean' = clean /\ files' = files /\ dir' = dir
      /\ mounted' = mounted /\ torn' = torn /\ tmp' = tmp /\ todo' = todo /\ age' = age
      /\ plan' = plan /\ size' = size
      /\ writing[w] = NoKey /\ writing' = [writing EXCEPT ![w] = k]
  BY DEF WriteBegins
<1>4. CASE KindOf[w] = "generate"
  <2>1. /\ mounted[w] = "none" /\ cache' = cache /\ work' = [work EXCEPT ![w][k] = "partial"]
        /\ own' = [own EXCEPT ![w] = @ \cup {k}] /\ made' = [made EXCEPT ![w] = @ \cup {k}]
    BY <1>1, <1>4, Zenon DEF WriteBegins, SetFile, PlaceInv
  <2>2. TypeOK'
    <3>1. /\ work' \in [Worker -> [Key -> FileState]]
          /\ own' \in [Worker -> SUBSET Key] /\ made' \in [Worker -> SUBSET Key]
      BY <1>1, <2>1, SMTT(30) DEF TypeOK, FileState
    <3> QED
      BY <1>1, <1>2, <1>3, <2>1, <3>1, SMTT(30) DEF TypeOK
  <2>3. Elsewhere(w)
    BY <1>1, <1>3, <2>1 DEF Elsewhere, TypeOK
  <2>4. PartialIsABuilds'
    BY <1>1, <1>3, <1>4, <2>1 DEF IInv, PartialIsABuilds, TypeOK
  <2>5. Inv(w)'
    <3>1. PlaceInv(w)'
      BY <1>1, <1>3 DEF PlaceInv
    <3>2. /\ work'[w][k] = "partial" /\ \A j \in Key : j # k => work'[w][j] = work[w][j]
          /\ own'[w] = own[w] \cup {k} /\ writing'[w] = k
      BY <1>1, <1>3, <2>1 DEF TypeOK
    <3>3. Present(work'[w]) = own'[w]
      BY <1>1, <1>3, <1>4, <3>2 DEF WorkInv, Present
    <3>4. WorkInv(w)'
      BY <1>1, <1>3, <1>4, <3>2, <3>3, NoneAssumption DEF WorkInv
    <3> QED
      BY <1>3, <3>1, <3>4 DEF Inv, CachedInv
  <2> QED
    BY <1>1, <2>2, <2>3, <2>4, <2>5, Local
<1>5. CASE KindOf[w] # "generate"
  <2>1. /\ mounted[w] = "live" /\ cache' = [cache EXCEPT ![proj[w]][k] = "partial"] /\ work' = work
        /\ own' = own /\ made' = made
    BY <1>5, Zenon DEF WriteBegins, SetFile
  <2>2. proj[w] \in dir /\ KindOf[w] = "build"
    BY <1>1, <2>1 DEF TypeOK, PlaceInv
  <2>3. TypeOK'
    <3>1. cache' \in [Project -> [Key -> FileState]] /\ \A p \in Project \ dir' : cache'[p] = Empty
      BY <1>1, <1>3, <2>1, <2>2, SMTT(30) DEF TypeOK, FileState
    <3> QED
      BY <1>1, <1>2, <1>3, <2>1, <3>1, SMTT(30) DEF TypeOK
  <2>4. Elsewhere(w)
    BY <1>1, <1>3, <2>1 DEF Elsewhere, TypeOK
  <2>5. PartialIsABuilds'
    <3> SUFFICES ASSUME NEW p \in Project, NEW j \in Key, cache'[p][j] = "partial"
                 PROVE  \/ <<p, j>> \in torn'
                        \/ \E v \in Worker : /\ KindOf[v] = "build" /\ mounted'[v] = "live"
                                             /\ proj'[v] = p /\ writing'[v] = j
      BY DEF PartialIsABuilds
    <3>1. CASE p = proj[w] /\ j = k
      BY <1>1, <1>3, <2>1, <2>2, <3>1 DEF TypeOK
    <3>2. CASE ~(p = proj[w] /\ j = k)
      <4>1. cache[p][j] = "partial"
        BY <1>1, <2>1, <3>2 DEF TypeOK
      <4>2. \A v \in Worker : writing[v] = j => writing'[v] = j
        BY <1>1, <1>3, NoneAssumption DEF TypeOK
      <4> QED
        BY <1>3, <4>1, <4>2 DEF IInv, PartialIsABuilds
    <3> QED
      BY <3>1, <3>2
  <2>6. Inv(w)'
    BY <1>1, <1>3, <1>5, <2>1 DEF Inv, PlaceInv, WorkInv, CachedInv, Present
  <2> QED
    BY <1>1, <2>3, <2>4, <2>5, <2>6, Local
<1> QED
  BY <1>4, <1>5

LEMMA WriteEndsKeeps ==
  ASSUME IInv, NEW w \in Worker, NEW k \in Key, WriteEnds(w, k), Calm(w, calm[w])
  PROVE  IInv'
<1>1. TypeOK /\ PlaceInv(w) /\ WorkInv(w) /\ calm[w] \in BOOLEAN
  BY DEF IInv, Inv, TypeOK
<1>2. calm' \in [Worker -> BOOLEAN] /\ calm'[w] = calm[w]
  BY <1>1, CalmType
<1> USE DEF disk, job, box, copy, list
<1>3. /\ pc[w] = "run" /\ pc' = pc /\ proj' = proj /\ clean' = clean /\ files' = files /\ dir' = dir
      /\ mounted' = mounted /\ own' = own /\ made' = made /\ tmp' = tmp /\ todo' = todo
      /\ age' = age
      /\ plan' = plan /\ size' = size
      /\ writing[w] = k /\ writing' = [writing EXCEPT ![w] = NoKey]
  BY DEF WriteEnds
<1>4. PICK state \in {"partial", "whole"} :
        SetFile(w, k, state) /\ state = IF Shared(w, k) THEN "partial" ELSE "whole"
  BY DEF WriteEnds
<1>5. CASE mounted[w] = "live"
  <2>1. cache' = [cache EXCEPT ![proj[w]][k] = state] /\ work' = work
    BY <1>4, <1>5, Zenon DEF SetFile
  <2>2. proj[w] \in dir /\ KindOf[w] = "build"
    BY <1>1, <1>5 DEF TypeOK, PlaceInv
  <2>3. torn' = IF ~Shared(w, k) THEN torn \ {<<proj[w], k>>} ELSE torn
    BY <1>5, Zenon DEF WriteEnds
  <2>4. TypeOK'
    <3>1. cache' \in [Project -> [Key -> FileState]] /\ \A p \in Project \ dir' : cache'[p] = Empty
      BY <1>1, <1>3, <2>1, <2>2, SMTT(30) DEF TypeOK, FileState
    <3> QED
      BY <1>1, <1>2, <1>3, <2>1, <2>3, <3>1, SMTT(30) DEF TypeOK
  <2>5. Elsewhere(w)
    BY <1>1, <1>3, <2>1 DEF Elsewhere, TypeOK
  <2>6. PartialIsABuilds'
    <3> SUFFICES ASSUME NEW p \in Project, NEW j \in Key, cache'[p][j] = "partial"
                 PROVE  \/ <<p, j>> \in torn'
                        \/ \E v \in Worker : /\ KindOf[v] = "build" /\ mounted'[v] = "live"
                                             /\ proj'[v] = p /\ writing'[v] = j
      BY DEF PartialIsABuilds
    <3>1. CASE p = proj[w] /\ j = k
      <4>1. state = "partial"
        BY <1>1, <2>1, <2>2, <3>1 DEF TypeOK
      <4>2. PICK v \in Worker \ {w} : mounted[v] = "live" /\ proj[v] = proj[w] /\ writing[v] = k
        BY <1>4, <4>1 DEF Shared
      <4>3. KindOf[v] = "build"
        BY <4>2 DEF IInv, Inv, PlaceInv
      <4> QED
        BY <1>3, <3>1, <4>2, <4>3
    <3>2. CASE ~(p = proj[w] /\ j = k)
      <4>1. cache[p][j] = "partial"
        BY <1>1, <2>1, <3>2 DEF TypeOK
      <4>2. \A v \in Worker : proj[v] = p /\ writing[v] = j => writing'[v] = j
        BY <1>1, <1>3, <3>2 DEF TypeOK
      <4>3. <<p, j>> \in torn => <<p, j>> \in torn'
        BY <2>3, <3>2
      <4> QED
        BY <1>3, <4>1, <4>2, <4>3 DEF IInv, PartialIsABuilds
    <3> QED
      BY <3>1, <3>2
  <2>7. Inv(w)'
    BY <1>1, <1>3, <2>1, <2>2, KindAssumption DEF Inv, PlaceInv, WorkInv, CachedInv, Present, TypeOK
  <2> QED
    BY <1>1, <2>4, <2>5, <2>6, <2>7, Local
<1>6. CASE mounted[w] # "live"
  <2>1. work' = [work EXCEPT ![w][k] = "whole"] /\ cache' = cache
    BY <1>4, <1>6, Zenon DEF SetFile, Shared
  <2>2. torn' = torn
    BY <1>6, Zenon DEF WriteEnds
  <2>3. TypeOK'
    <3>1. work' \in [Worker -> [Key -> FileState]]
      BY <1>1, <2>1, SMTT(30) DEF TypeOK, FileState
    <3> QED
      BY <1>1, <1>2, <1>3, <2>1, <2>2, <3>1, SMTT(30) DEF TypeOK
  <2>4. Elsewhere(w)
    BY <1>1, <1>3, <2>1 DEF Elsewhere, TypeOK
  <2>5. PartialIsABuilds'
    <3>1. \A v \in Worker \ {w} : writing'[v] = writing[v]
      BY <1>1, <1>3 DEF TypeOK
    <3> QED
      BY <1>3, <1>6, <2>1, <2>2, <3>1 DEF IInv, PartialIsABuilds
  <2>6. Inv(w)'
    <3>1. PlaceInv(w)'
      BY <1>1, <1>3 DEF PlaceInv
    <3>2. work'[w][k] = "whole" /\ (\A j \in Key : j # k => work'[w][j] = work[w][j])
          /\ writing'[w] = NoKey
      BY <1>1, <1>3, <2>1 DEF TypeOK
    <3>3. KindOf[w] = "generate" => Present(work'[w]) = own[w]
      BY <1>1, <1>3, <3>2, NoneAssumption DEF WorkInv, Present
    <3>4. WorkInv(w)'
      BY <1>1, <1>3, <3>2, <3>3 DEF WorkInv
    <3> QED
      BY <1>3, <3>1, <3>4 DEF Inv, CachedInv
  <2> QED
    BY <1>1, <2>3, <2>4, <2>5, <2>6, Local
<1> QED
  BY <1>5, <1>6

LEMMA EndKeeps ==
  ASSUME IInv, NEW w \in Worker, Exits(w) \/ Killed(w), Calm(w, calm[w])
  PROVE  IInv'
<1>1. TypeOK /\ PlaceInv(w) /\ WorkInv(w) /\ calm[w] \in BOOLEAN
  BY DEF IInv, Inv, TypeOK
<1>2. calm' \in [Worker -> BOOLEAN] /\ calm'[w] = calm[w]
  BY <1>1, CalmType
<1> USE DEF disk, job, box, copy, list
<1>3. /\ pc[w] = "run"
      /\ UNCHANGED <<dir, cache, age, proj, work, files, own, made, todo, tmp, plan, size>>
      /\ mounted' = [mounted EXCEPT ![w] = "none"] /\ writing' = [writing EXCEPT ![w] = NoKey]
      /\ torn' = IF mounted[w] = "live" /\ writing[w] # NoKey
                 THEN torn \cup {<<proj[w], writing[w]>>} ELSE torn
  BY DEF Exits, Killed, StepTo, Interrupt
<1>4. PICK to \in {"pack", "prune"}, c \in BOOLEAN :
        /\ pc' = [pc EXCEPT ![w] = to] /\ clean' = [clean EXCEPT ![w] = c]
        /\ c => KindOf[w] = "generate" /\ to = "pack" /\ writing[w] = NoKey
        /\ to = "pack" => KindOf[w] = "generate"
  <2>1. CASE Exits(w)
    <3>1. PICK zero \in BOOLEAN :
            /\ zero => writing[w] = NoKey
            /\ StepTo(w, "run", IF KindOf[w] = "generate" THEN "pack" ELSE "prune")
            /\ clean' = [clean EXCEPT ![w] = zero /\ KindOf[w] = "generate"]
      BY <2>1, Zenon DEF Exits
    <3>2. CASE KindOf[w] = "generate"
      <4>1. /\ pc' = [pc EXCEPT ![w] = "pack"]
            /\ clean' = [clean EXCEPT ![w] = zero]
        BY <3>1, <3>2, Zenon DEF StepTo
      <4> QED
        BY <3>1, <3>2, <4>1, Zenon
    <3>3. CASE KindOf[w] # "generate"
      <4>1. /\ pc' = [pc EXCEPT ![w] = "prune"]
            /\ clean' = [clean EXCEPT ![w] = FALSE]
        BY <3>1, <3>3, Zenon DEF StepTo
      <4> QED
        BY <4>1, Zenon
    <3> QED
      BY <3>2, <3>3
  <2>2. CASE Killed(w)
    <3>1. clean' = [clean EXCEPT ![w] = FALSE]
      BY <1>1, <2>2 DEF Killed, StepTo, PlaceInv, TypeOK
    <3>2. pc' = [pc EXCEPT ![w] = "prune"]
      BY <2>2 DEF Killed, StepTo
    <3> QED
      BY <3>1, <3>2, Zenon
  <2> QED
    BY <2>1, <2>2
<1>5. /\ pc'[w] = to /\ clean'[w] = c /\ writing'[w] = NoKey /\ mounted'[w] = "none"
      /\ \A v \in Worker \ {w} : /\ pc'[v] = pc[v] /\ clean'[v] = clean[v]
                                 /\ writing'[v] = writing[v] /\ mounted'[v] = mounted[v]
  BY <1>1, <1>3, <1>4 DEF TypeOK
<1>6. TypeOK'
  <2>1. torn' \subseteq Project \X Key
    BY <1>1, <1>3 DEF TypeOK, PlaceInv
  <2>2. \A v \in Worker : tmp'[v] # NoKey \/ mounted'[v] = "live" => proj'[v] \in dir'
    BY <1>1, <1>3, <1>5 DEF TypeOK
  <2> QED
    BY <1>1, <1>2, <1>3, <1>4, <2>1, <2>2, SMTT(30) DEF TypeOK
<1>7. Elsewhere(w)
  BY <1>3, <1>5 DEF Elsewhere
<1>8. PartialIsABuilds'
  <2> SUFFICES ASSUME NEW p \in Project, NEW j \in Key, cache'[p][j] = "partial"
               PROVE  \/ <<p, j>> \in torn'
                      \/ \E v \in Worker : /\ KindOf[v] = "build" /\ mounted'[v] = "live"
                                           /\ proj'[v] = p /\ writing'[v] = j
    BY DEF PartialIsABuilds
  <2>1. CASE <<p, j>> \in torn
    BY <1>3, <2>1
  <2>2. CASE <<p, j>> \notin torn
    <3>1. PICK v \in Worker : /\ KindOf[v] = "build" /\ mounted[v] = "live"
                              /\ proj[v] = p /\ writing[v] = j
      BY <1>3, <2>2 DEF IInv, PartialIsABuilds
    <3>2. CASE v = w
      BY <1>3, <3>1, <3>2, NoneAssumption
    <3>3. CASE v # w
      BY <1>3, <1>5, <3>1, <3>3
    <3> QED
      BY <3>2, <3>3
  <2> QED
    BY <2>1, <2>2
<1>9. Inv(w)'
  <2>1. PlaceInv(w)'
    BY <1>1, <1>3, <1>4, <1>5, KindAssumption DEF PlaceInv
  <2>2. WorkInv(w)'
    BY <1>1, <1>3, <1>4, <1>5, NoneAssumption DEF WorkInv, Present
  <2>3. CachedInv(w)'
    BY <1>4, <1>5 DEF CachedInv
  <2> QED
    BY <2>1, <2>2, <2>3 DEF Inv
<1> QED
  BY <1>1, <1>6, <1>7, <1>8, <1>9, Local

(* The state that a worker at its pruning leaves, wherever that evicts. *)
LEMMA EvictKeeps ==
  ASSUME IInv, NEW w \in Worker, NEW p \in Project, EvictOld(w, p) \/ EvictOldest(w, p),
         NEW c \in BOOLEAN, Calm(w, c)
  PROVE  IInv'
<1>1. TypeOK /\ Inv(w)
  BY DEF IInv
<1>2. calm' \in [Worker -> BOOLEAN]
  BY <1>1, CalmType
<1> USE DEF job
<1>3. /\ pc[w] \in {"old", "fit"} /\ Rmtree(p)
      /\ UNCHANGED <<pc, proj, work, clean, files, own, made>>
      /\ plan' = [plan EXCEPT ![w][p] = Unlisted] /\ size' = [size EXCEPT ![w][p] = 0]
  BY DEF EvictOld, EvictOldest
<1>4. PICK gone \in SUBSET Key, all \in BOOLEAN, stamp \in {0, age[p]} :
        /\ all => gone = Key /\ stamp = 0
        /\ dir' = IF all THEN dir \ {p} ELSE dir
        /\ age' = [age EXCEPT ![p] = stamp]
        /\ cache' = [cache EXCEPT ![p] = [k \in Key |-> IF k \in gone THEN "absent" ELSE @[k]]]
        /\ torn' = {t \in torn : t[1] # p \/ t[2] \notin gone}
        /\ mounted' = [v \in Worker |-> IF (all /\ proj[v] = p) /\ mounted[v] = "live"
                                         THEN "gone" ELSE mounted[v]]
        /\ writing' = [v \in Worker |-> IF proj[v] = p /\ mounted[v] = "live" /\ writing[v] \in gone
                                         THEN NoKey ELSE writing[v]]
        /\ todo' = [v \in Worker |-> IF all /\ proj[v] = p THEN todo[v] \ {tmp[v]} ELSE todo[v]]
        /\ tmp' = [v \in Worker |-> IF all /\ proj[v] = p THEN NoKey ELSE tmp[v]]
  BY <1>3 DEF Rmtree
<1>5. TypeOK'
  <2>1. cache' \in [Project -> [Key -> FileState]]
    BY <1>1, <1>4, SMTT(30) DEF TypeOK, FileState
  <2>2. \A q \in Project \ dir' : cache'[q] = Empty
    <3> SUFFICES ASSUME NEW q \in Project \ dir' PROVE cache'[q] = Empty
      OBVIOUS
    <3>1. CASE q # p
      BY <1>1, <1>4, <3>1 DEF TypeOK
    <3>2. CASE q = p
      <4>1. cache'[p] = [k \in Key |-> IF k \in gone THEN "absent" ELSE cache[p][k]]
        BY <1>1, <1>4 DEF TypeOK
      <4>2. all \/ cache[p] = Empty
        BY <1>1, <1>4, <3>2 DEF TypeOK
      <4>3. CASE all
        BY <1>4, <3>2, <4>1, <4>3 DEF Empty
      <4>4. CASE cache[p] = Empty
        BY <3>2, <4>1, <4>4 DEF Empty
      <4> QED
        BY <4>2, <4>3, <4>4
    <3> QED
      BY <3>1, <3>2
  <2>3. age' \in [Project -> Age] /\ plan' \in [Worker -> [Project -> Age \cup {Unlisted}]]
        /\ size' \in [Worker -> [Project -> Nat]]
    BY <1>1, <1>3, <1>4, LimitsAssumption, SMTT(30) DEF TypeOK, Age, Unlisted
  <2>4. /\ mounted' \in [Worker -> {"none", "live", "gone"}] /\ writing' \in [Worker -> Key \cup {NoKey}]
        /\ todo' \in [Worker -> SUBSET Key] /\ tmp' \in [Worker -> Key \cup {NoKey}]
    BY <1>1, <1>4, SMTT(30) DEF TypeOK
  <2>5. dir' \subseteq Project /\ torn' \subseteq Project \X Key
    BY <1>1, <1>4 DEF TypeOK
  <2>6. \A v \in Worker : tmp'[v] # NoKey \/ mounted'[v] = "live" => proj'[v] \in dir'
    BY <1>1, <1>3, <1>4 DEF TypeOK
  <2> QED
    BY <1>1, <1>2, <1>3, <2>1, <2>2, <2>3, <2>4, <2>5, <2>6 DEF TypeOK
<1>6. Elsewhere(w)
  <2> SUFFICES ASSUME NEW v \in Worker \ {w}
               PROVE  /\ mounted'[v] = mounted[v] \/ (mounted[v] = "live" /\ mounted'[v] = "gone")
                      /\ writing'[v] = writing[v] \/ (mounted[v] = "live" /\ writing'[v] = NoKey)
                      /\ \/ tmp'[v] = tmp[v] /\ todo'[v] = todo[v]
                         \/ /\ tmp'[v] = NoKey /\ todo'[v] = todo[v] \ {tmp[v]}
                            /\ tmp[v] # NoKey => proj[v] \in dir \ dir'
    BY <1>3 DEF Elsewhere
  <2>1. CASE all /\ proj[v] = p
    BY <1>1, <1>4, <2>1 DEF TypeOK
  <2>2. CASE ~(all /\ proj[v] = p)
    BY <1>4, <2>2
  <2> QED
    BY <2>1, <2>2
<1>7. PartialIsABuilds'
  <2> SUFFICES ASSUME NEW q \in Project, NEW j \in Key, cache'[q][j] = "partial"
               PROVE  \/ <<q, j>> \in torn'
                      \/ \E v \in Worker : /\ KindOf[v] = "build" /\ mounted'[v] = "live"
                                           /\ proj'[v] = q /\ writing'[v] = j
    BY DEF PartialIsABuilds
  <2>1. cache[q][j] = "partial" /\ ~(q = p /\ j \in gone)
    BY <1>1, <1>4 DEF TypeOK
  <2>2. <<q, j>> \in torn => <<q, j>> \in torn'
    BY <1>4, <2>1
  <2>3. \A v \in Worker : proj[v] = q /\ writing[v] = j /\ mounted[v] = "live"
                           => writing'[v] = j /\ mounted'[v] = "live"
    BY <1>4, <2>1
  <2> QED
    BY <1>3, <2>1, <2>2, <2>3 DEF IInv, PartialIsABuilds
<1>8. Inv(w)'
  <2>1. mounted[w] = "none" /\ writing[w] = NoKey /\ tmp[w] = NoKey
    BY <1>1, <1>3 DEF Inv, PlaceInv
  <2>2. mounted'[w] = "none" /\ writing'[w] = NoKey /\ tmp'[w] = NoKey
    BY <1>4, <2>1
  <2> QED
    BY <1>1, <1>3, <2>1, <2>2 DEF Inv, PlaceInv, WorkInv, CachedInv, Present
<1> QED
  BY <1>1, <1>5, <1>6, <1>7, <1>8, Local

LEMMA TickKeeps ==
  ASSUME IInv, Tick, calm' = [v \in Worker |-> calm[v] /\ ~Disturbs(v)]
  PROVE  IInv'
<1> USE DEF job, box, copy, list
<1>1. TypeOK'
  <2>1. age' \in [Project -> Age]
    BY LimitsAssumption, SMTT(30) DEF IInv, TypeOK, Tick, Age
  <2>2. calm' \in [Worker -> BOOLEAN]
    BY Zenon DEF IInv, TypeOK
  <2> QED
    BY <2>1, <2>2 DEF IInv, TypeOK, Tick
<1>2. PartialIsABuilds'
  BY DEF IInv, PartialIsABuilds, Tick
<1>3. ASSUME NEW w \in Worker PROVE Inv(w)'
  <2>1. calm'[w] => calm[w]
    OBVIOUS
  <2>2. Inv(w)
    BY DEF IInv
  <2> QED
    BY <2>1, <2>2 DEF Inv, PlaceInv, WorkInv, CachedInv, Present, Tick
<1> QED
  BY <1>1, <1>2, <1>3 DEF IInv

LEMMA QuietKeeps ==
  ASSUME IInv, NEW w \in Worker, Quiet(w), NEW c \in BOOLEAN, Calm(w, c),
         c => calm[w] \/ Begin(w) \/ PruneLists(w),
         c => ~HarvestRaises(w) /\ \A k \in Key : ~HarvestFails(w, k)
  PROVE  IInv'
<1>1. TypeOK' /\ calm'[w] = c
  BY QuietTypes, CalmType DEF IInv
<1>2. Elsewhere(w) /\ PartialIsABuilds'
  BY QuietElsewhere
<1>3. Inv(w)'
  BY <1>1, QuietInv
<1> QED
  BY <1>1, <1>2, <1>3, Local

(* A harvest that raises, or gives a file up, is told from any other step. *)
LEMMA NoFailure ==
  ASSUME IInv, NEW w \in Worker, JobStep(w) \/ Begin(w) \/ PruneLists(w)
  PROVE  ~HarvestRaises(w) /\ \A k \in Key : ~HarvestFails(w, k) \/ HarvestReplace(w, k)
<1> USE NoneAssumption DEF IInv, TypeOK, HarvestRaises, HarvestFails, StepTo
<1>1. CASE pc[w] # "harvest"
  BY <1>1
<1>2. CASE pc[w] = "harvest"
  <2>1. \/ HarvestDone(w)
        \/ \E k \in Key : HarvestSkip(w, k) \/ HarvestCopy(w, k) \/ HarvestReplace(w, k)
    BY <1>2 DEF JobStep, Touch, Mount, Unavailable, Begin, PruneLists, Exits, Killed, Pack, Measure,
       PruneEnds, Pruning, WriteBegins, WriteEnds
  <2>2. CASE HarvestDone(w)
    BY <2>2 DEF HarvestDone, Inv, PlaceInv
  <2>3. ASSUME NEW k \in Key, HarvestSkip(w, k) \/ HarvestCopy(w, k) \/ HarvestReplace(w, k)
        PROVE  ~HarvestRaises(w) /\ \A j \in Key : ~HarvestFails(w, j) \/ HarvestReplace(w, j)
    <3>1. pc' = pc
      BY <2>3 DEF HarvestSkip, HarvestCopy, HarvestReplace, job
    <3>2. ~HarvestRaises(w)
      BY <1>2, <3>1
    <3>3. tmp[w] = NoKey \/ (tmp[w] = k /\ HarvestReplace(w, k))
      BY <2>3 DEF HarvestSkip, HarvestCopy, HarvestReplace
    <3> QED
      BY <3>2, <3>3
  <2> QED
    BY <2>1, <2>2, <2>3
<1> QED
  BY <1>1, <1>2

LEMMA StepKeeps == ASSUME IInv, NEW w \in Worker, WorkerStep(w) PROVE IInv'
<1>1. calm[w] \in BOOLEAN
  BY DEF IInv, TypeOK
<1>2. CASE JobStep(w) /\ Calm(w, calm[w])
  <2>1. CASE \E k \in Key : HarvestReplace(w, k)
    BY <1>2, <2>1, ReplaceKeeps
  <2>2. CASE \E k \in Key : WriteBegins(w, k) \/ WriteEnds(w, k)
    BY <1>2, <2>2, WriteBeginsKeeps, WriteEndsKeeps
  <2>3. CASE Exits(w) \/ Killed(w)
    BY <1>2, <2>3, EndKeeps
  <2>4. CASE /\ Quiet(w) /\ ~\E k \in Key : HarvestReplace(w, k)
    <3>1. ~HarvestRaises(w) /\ \A k \in Key : ~HarvestFails(w, k)
      BY <1>2, <2>4, NoFailure
    <3> QED
      BY <1>1, <1>2, <2>4, <3>1, QuietKeeps
  <2> QED
    BY <1>2, <2>1, <2>2, <2>3, <2>4 DEF JobStep, Quiet
<1>3. CASE (Begin(w) \/ PruneLists(w)) /\ Calm(w, TRUE)
  <2>1. ~\E k \in Key : HarvestReplace(w, k)
    BY <1>3 DEF Begin, PruneLists, StepTo, HarvestReplace
  <2>2. ~HarvestRaises(w) /\ \A k \in Key : ~HarvestFails(w, k)
    BY <1>3, <2>1, NoFailure
  <2>3. Quiet(w)
    BY <1>3 DEF Quiet
  <2> QED
    BY <1>3, <2>2, <2>3, QuietKeeps
<1>4. CASE Fails(w) /\ Calm(w, FALSE)
  <2>1. Quiet(w)
    BY <1>4 DEF Fails, Quiet
  <2> QED
    BY <1>4, <2>1, QuietKeeps
<1>5. CASE Evict(w) /\ Calm(w, calm[w] /\ dir' # dir)
  <2>1. PICK p \in Project : EvictOld(w, p) \/ EvictOldest(w, p)
    BY <1>5 DEF Evict
  <2>2. (calm[w] /\ dir' # dir) \in BOOLEAN
    OBVIOUS
  <2> QED
    BY <1>5, <2>1, <2>2, EvictKeeps
<1> QED
  BY <1>2, <1>3, <1>4, <1>5 DEF WorkerStep

LEMMA NextKeeps == IInv /\ [Next]_vars => IInv'
<1> SUFFICES ASSUME IInv, [Next]_vars PROVE IInv'
  OBVIOUS
<1>1. CASE Next
  BY <1>1, StepKeeps, TickKeeps DEF Next
<1>2. CASE UNCHANGED vars
  <2>1. \A w \in Worker : Inv(w)'
    BY <1>2 DEF IInv, Inv, PlaceInv, WorkInv, CachedInv, Present, vars, disk, job, box, copy, list
  <2>2. TypeOK'
    BY <1>2 DEF IInv, TypeOK, vars, disk, job, box, copy, list
  <2>3. PartialIsABuilds'
    BY <1>2 DEF IInv, PartialIsABuilds, vars, disk, job, box, copy, list
  <2> QED
    BY <2>1, <2>2, <2>3 DEF IInv
<1> QED
  BY <1>1, <1>2

LEMMA Invariance == Spec => []IInv
  BY InitInv, NextKeeps, PTL DEF Spec

--------------------------------------------------------------------------------
(* Every variable keeps its type, and there are files, temporary files and   *)
(* mounts only where there is a dir (asset_cache.py's projects are evicted   *)
(* under the feet of harvests and containers).                               *)
THEOREM TypeCorrect == Spec => []TypeOK
<1>1. IInv => TypeOK
  BY DEF IInv
<1> QED
  BY <1>1, Invariance, PTL

(* Only a build's container that is writing a file, or was stopped while it  *)
(* did, ever leaves half a file in the cache: harvest does not.              *)
THEOREM PartialCorrect == Spec => []PartialIsABuilds
<1>1. IInv => PartialIsABuilds
  BY DEF IInv
<1> QED
  BY <1>1, Invariance, PTL

(* The artifact of a generate job that exited cleanly lists its own files,   *)
(* whole ones, and no other: the cache neither adds to them nor hides any.   *)
THEOREM FilesCorrect == Spec => []FilesAreOwn
<1>1. ASSUME IInv PROVE FilesAreOwn
  <2> SUFFICES ASSUME NEW w \in Worker, KindOf[w] = "generate", pc[w] = "harvest"
               PROVE  files[w] = own[w] /\ \A k \in files[w] : work[w][k] = "whole"
    BY DEF FilesAreOwn
  <2>1. TypeOK /\ WorkInv(w)
    BY <1>1 DEF IInv, Inv
  <2>2. files[w] = own[w] /\ Present(work[w]) = own[w]
    BY <2>1 DEF WorkInv
  <2>3. \A k \in Key : work[w][k] # "partial" /\ work[w][k] \in FileState
    BY <2>1 DEF TypeOK, WorkInv
  <2> QED
    BY <2>2, <2>3 DEF Present, FileState
<1> QED
  BY <1>1, Invariance, PTL

(* What a generate job made is in its project's cache when the job is over,  *)
(* if neither an OSError nor another worker's eviction came in between.      *)
THEOREM CachedCorrect == Spec => []GeneratedIsCached
<1>1. IInv => GeneratedIsCached
  BY DEF IInv, Inv, CachedInv, GeneratedIsCached
<1> QED
  BY <1>1, Invariance, PTL

================================================================================
