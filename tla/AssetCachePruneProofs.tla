-------------------------- MODULE AssetCachePruneProofs --------------------------
(***************************************************************************)
(* Proofs about the prunings of AssetCache, on top of its invariant.       *)
(*                                                                         *)
(* The argument: while nobody disturbs it, what a pruning remembers is     *)
(* what the disk has: its list is the projects there are but the one to    *)
(* keep, with their ages, and its sizes, once measured, are the sizes of   *)
(* all projects.  Then the total that it compares with the cap is the      *)
(* space the cache occupies: they are sums of one function, and no fact    *)
(* about sums is needed.                                                   *)
(***************************************************************************)
EXTENDS AssetCacheProofs

PruneInv(w) ==
  calm[w] /\ pc[w] \in Pruning =>
    /\ Listed(w) = dir \ {proj[w]}
    /\ \A p \in Listed(w) : plan[w][p] = age[p]
    /\ pc[w] = "fit" => /\ \A p \in Listed(w) : plan[w][p] <= MaxAge
                        /\ size[w] = [p \in Project |-> SizeOf(p)]

PInv == \A w \in Worker : PruneInv(w)

LEMMA PruneInit == Init => PInv
  BY DEF Init, PInv, PruneInv, Pruning

(* A project without a dir takes no space. *)
LEMMA GoneIsEmpty ==
  ASSUME TypeOK, NEW p \in Project \ dir
  PROVE  SizeOf(p) = 0
<1>1. cache[p] = Empty /\ \A w \in Worker : tmp[w] # NoKey => proj[w] # p
  BY DEF TypeOK
<1>2. Present(cache[p]) = {} /\ {w \in Worker : proj[w] = p /\ tmp[w] # NoKey} = {}
  BY <1>1 DEF Present, Empty
<1> QED
  BY <1>2, FS_EmptySet DEF SizeOf

--------------------------------------------------------------------------------
(* A step of w changes of the other workers' prunings nothing but the disk;  *)
(* a job is left for another one only without a temporary file.              *)
Apart(w) ==
  /\ \A v \in Worker \ {w} :
       pc'[v] = pc[v] /\ proj'[v] = proj[v] /\ plan'[v] = plan[v] /\ size'[v] = size[v]
  /\ tmp' = tmp /\ tmp[w] # NoKey => proj'[w] = proj[w]

LEMMA StepsApart == ASSUME IInv, NEW w \in Worker, WorkerStep(w) PROVE Apart(w)
<1> USE DEF StepTo, disk, job, box, copy, list
<1>1. TypeOK /\ PlaceInv(w)
  BY DEF IInv, Inv
<1> USE <1>1, NoneAssumption DEF TypeOK, Apart
<1>2. CASE JobStep(w)
  <2>1. CASE Touch(w) \/ Mount(w) \/ Unavailable(w) \/ HarvestDone(w)
    BY <2>1 DEF Touch, Mount, Unavailable, HarvestDone
  <2>2. ASSUME NEW k \in Key, \/ HarvestSkip(w, k) \/ HarvestCopy(w, k) \/ HarvestReplace(w, k)
                              \/ WriteBegins(w, k) \/ WriteEnds(w, k)
        PROVE  Apart(w)
    BY <2>2 DEF HarvestSkip, HarvestCopy, HarvestReplace, WriteBegins, WriteEnds
  <2>3. CASE Exits(w) \/ Killed(w) \/ Pack(w) \/ Measure(w)
    BY <2>3 DEF Exits, Killed, Pack, Measure
  <2>4. CASE PruneEnds(w)
    BY <2>4 DEF PruneEnds, PlaceInv
  <2> QED
    BY <1>2, <2>1, <2>2, <2>3, <2>4 DEF JobStep
<1>3. CASE Begin(w) \/ PruneLists(w)
  BY <1>3 DEF Begin, PruneLists, PlaceInv
<1>4. CASE Fails(w)
  <2>1. CASE HarvestRaises(w) \/ \E k \in Key : HarvestFails(w, k)
    BY <2>1 DEF HarvestRaises, HarvestFails
  <2>2. CASE Crash(w)
    BY <2>2 DEF Crash
  <2> QED
    BY <1>4, <2>1, <2>2 DEF Fails
<1>5. CASE Evict(w)
  BY <1>5 DEF Evict, EvictOld, EvictOldest
<1> QED
  BY <1>2, <1>3, <1>4, <1>5 DEF WorkerStep

(* A step that does not disturb v leaves its pruning as it is. *)
LEMMA OthersKeep ==
  ASSUME IInv, NEW w \in Worker, Apart(w), NEW v \in Worker \ {w}, PruneInv(v),
         calm'[v] => calm[v] /\ ~Disturbs(v)
  PROVE  PruneInv(v)'
<1> SUFFICES ASSUME calm'[v], pc'[v] \in Pruning
             PROVE  /\ Listed(v)' = dir' \ {proj'[v]}
                    /\ \A p \in Listed(v)' : plan'[v][p] = age'[p]
                    /\ pc'[v] = "fit" => /\ \A p \in Listed(v)' : plan'[v][p] <= MaxAge
                                         /\ size'[v] = [p \in Project |-> SizeOf(p)']
  BY DEF PruneInv
<1>1. pc'[v] = pc[v] /\ proj'[v] = proj[v] /\ plan'[v] = plan[v] /\ size'[v] = size[v]
  BY DEF Apart
<1>2. UNCHANGED <<dir, cache, age, tmp>>
  BY <1>1 DEF Disturbs, disk
<1>3. Listed(v)' = Listed(v)
  BY <1>1 DEF Listed
<1>4. ASSUME NEW p \in Project PROVE SizeOf(p)' = SizeOf(p)
  <2>1. \A u \in Worker : tmp[u] # NoKey => proj'[u] = proj[u]
    BY <1>2 DEF Apart
  <2>2. {u \in Worker : proj'[u] = p /\ tmp'[u] # NoKey} = {u \in Worker : proj[u] = p /\ tmp[u] # NoKey}
    BY <1>2, <2>1
  <2> QED
    BY <1>2, <2>2 DEF SizeOf, Present
<1> QED
  BY <1>1, <1>2, <1>3, <1>4 DEF PruneInv

--------------------------------------------------------------------------------
(* The steps of a pruning. *)
LEMMA ListsKeeps ==
  ASSUME IInv, NEW w \in Worker, PruneLists(w)
  PROVE  PruneInv(w)'
<1>. PICK keep \in {proj[w], NoProject} :
       /\ proj' = [proj EXCEPT ![w] = keep]
       /\ plan' = [plan EXCEPT ![w] =
                    [p \in Project |-> IF p \in dir \ {keep} THEN age[p] ELSE Unlisted]]
  BY DEF PruneLists
<1>1. /\ pc'[w] = "old" /\ dir' = dir /\ age' = age /\ proj'[w] = keep
      /\ plan'[w] = [p \in Project |-> IF p \in dir \ {keep} THEN age[p] ELSE Unlisted]
  BY DEF PruneLists, StepTo, disk, IInv, TypeOK
<1>2. \A p \in Project : age[p] # Unlisted
  BY LimitsAssumption DEF IInv, TypeOK, Age, Unlisted
<1>3. Listed(w)' = dir \ {keep}
  BY <1>1, <1>2 DEF Listed, IInv, TypeOK
<1> QED
  BY <1>1, <1>3 DEF PruneInv, Listed

LEMMA MeasureKeeps ==
  ASSUME IInv, NEW w \in Worker, PruneInv(w), Measure(w), calm'[w] => calm[w]
  PROVE  PruneInv(w)'
<1>1. /\ pc[w] = "old" /\ pc'[w] = "fit"
      /\ UNCHANGED <<dir, cache, age, proj, tmp, plan>>
      /\ size'[w] = [p \in Project |-> IF p \in Measured(w) THEN SizeOf(p) ELSE 0]
      /\ \A p \in Listed(w) : plan[w][p] <= MaxAge
  BY DEF Measure, StepTo, disk, job, copy, IInv, TypeOK
<1> SUFFICES ASSUME calm[w] PROVE PruneInv(w)'
  BY DEF PruneInv
<1>2. Listed(w) = dir \ {proj[w]} /\ \A p \in Listed(w) : plan[w][p] = age[p]
  BY <1>1 DEF PruneInv, Pruning
<1>3. \A p \in Project : SizeOf(p)' = SizeOf(p)
  BY <1>1 DEF SizeOf, Present
<1>4. ASSUME NEW p \in Project, p \notin Measured(w) PROVE SizeOf(p) = 0
  <2>1. p \notin dir
    BY <1>2, <1>4 DEF Measured
  <2> QED
    BY <2>1, GoneIsEmpty DEF IInv
<1>5. size'[w] = [p \in Project |-> SizeOf(p)']
  BY <1>1, <1>3, <1>4
<1> QED
  BY <1>1, <1>2, <1>5 DEF PruneInv, Listed

LEMMA EvictionKeeps ==
  ASSUME IInv, IInv', NEW w \in Worker, PruneInv(w), NEW p \in Project,
         EvictOld(w, p) \/ EvictOldest(w, p), calm'[w] => calm[w] /\ dir' # dir
  PROVE  PruneInv(w)'
<1> SUFFICES ASSUME calm'[w] PROVE PruneInv(w)'
  BY DEF PruneInv
<1>1. calm[w] /\ dir' # dir /\ TypeOK /\ TypeOK'
  BY DEF IInv
<1>2. /\ pc[w] \in Pruning /\ Rmtree(p) /\ pc' = pc /\ proj' = proj
      /\ plan'[w] = [plan[w] EXCEPT ![p] = Unlisted] /\ size'[w] = [size[w] EXCEPT ![p] = 0]
  BY <1>1 DEF EvictOld, EvictOldest, Pruning, job, TypeOK
<1>3. /\ dir' = dir \ {p}
      /\ \A q \in Project \ {p} : age'[q] = age[q] /\ cache'[q] = cache[q]
      /\ \A v \in Worker : proj[v] # p => tmp'[v] = tmp[v]
  BY <1>1, <1>2 DEF Rmtree, TypeOK
<1>4. /\ Listed(w) = dir \ {proj[w]}
      /\ \A q \in Listed(w) : plan[w][q] = age[q]
      /\ pc[w] = "fit" => /\ \A q \in Listed(w) : plan[w][q] <= MaxAge
                          /\ size[w] = [q \in Project |-> SizeOf(q)]
  BY <1>1, <1>2 DEF PruneInv
<1>5. plan[w] \in [Project -> Age \cup {Unlisted}] /\ size[w] \in [Project -> Nat]
  BY <1>1 DEF TypeOK
<1>6. Listed(w)' = Listed(w) \ {p} /\ \A q \in Listed(w)' : plan'[w][q] = plan[w][q]
  BY <1>2, <1>5 DEF Listed
<1>7. ASSUME pc[w] = "fit", NEW q \in Project PROVE size'[w][q] = SizeOf(q)'
  <2>1. CASE q = p
    <3>1. SizeOf(p)' = 0
      <4>1. cache'[p] = Empty /\ \A v \in Worker : tmp'[v] # NoKey => proj'[v] # p
        BY <1>1, <1>3 DEF TypeOK
      <4>2. Present(cache'[p]) = {} /\ {v \in Worker : proj'[v] = p /\ tmp'[v] # NoKey} = {}
        BY <4>1 DEF Present, Empty
      <4>3. SizeOf(p)' = Cardinality({}) + Cardinality({})
        BY <4>2 DEF SizeOf
      <4> QED
        BY <4>3, FS_EmptySet
    <3> QED
      BY <1>2, <1>5, <2>1, <3>1
  <2>2. CASE q # p
    <3>1. {v \in Worker : proj'[v] = q /\ tmp'[v] # NoKey}
            = {v \in Worker : proj[v] = q /\ tmp[v] # NoKey}
      BY <1>2, <1>3, <2>2
    <3>2. SizeOf(q)' = SizeOf(q)
      <4>1. cache'[q] = cache[q]
        BY <1>3, <2>2
      <4> QED
        BY <3>1, <4>1 DEF SizeOf
    <3> QED
      BY <1>2, <1>4, <1>5, <1>7, <2>2, <3>2
  <2> QED
    BY <2>1, <2>2
<1>8. pc[w] = "fit" => size'[w] = [q \in Project |-> SizeOf(q)']
  BY <1>2, <1>5, <1>7
<1>9. Listed(w)' = dir' \ {proj'[w]}
  BY <1>2, <1>3, <1>4, <1>6
<1>10. \A q \in Listed(w)' : q \in Listed(w) /\ plan'[w][q] = plan[w][q] /\ age'[q] = age[q]
  BY <1>3, <1>6 DEF Listed
<1>11. \A q \in Listed(w)' : plan'[w][q] = age'[q]
  BY <1>4, <1>10
<1>12. pc'[w] = "fit" => \A q \in Listed(w)' : plan'[w][q] <= MaxAge
  BY <1>2, <1>4, <1>10
<1> QED
  BY <1>2, <1>8, <1>9, <1>11, <1>12 DEF PruneInv

(* After any other step of its own there is no pruning. *)
LEMMA OwnKeeps ==
  ASSUME IInv, IInv', NEW w \in Worker, PruneInv(w), WorkerStep(w)
  PROVE  PruneInv(w)'
<1> USE DEF StepTo, disk, job, box, copy, list
<1>1. TypeOK /\ PlaceInv(w)
  BY DEF IInv, Inv
<1>2. CASE JobStep(w) /\ Calm(w, calm[w])
  <2>1. calm'[w] = calm[w]
    BY <1>1, <1>2, CalmType DEF TypeOK
  <2>2. CASE Measure(w)
    BY <2>1, <2>2, MeasureKeeps
  <2>3. CASE ~Measure(w)
    <3>1. pc'[w] \notin Pruning
      <4>1. CASE Touch(w) \/ Mount(w) \/ Unavailable(w) \/ HarvestDone(w)
        BY <1>1, <4>1 DEF Touch, Mount, Unavailable, HarvestDone, AfterHarvest, TypeOK, Pruning
      <4>2. CASE Exits(w) \/ Killed(w) \/ Pack(w) \/ PruneEnds(w)
        BY <1>1, <4>2 DEF Exits, Killed, Pack, PruneEnds, TypeOK, Pruning
      <4>3. ASSUME NEW k \in Key, \/ HarvestSkip(w, k) \/ HarvestCopy(w, k) \/ HarvestReplace(w, k)
                                  \/ WriteBegins(w, k) \/ WriteEnds(w, k)
            PROVE  pc'[w] \notin Pruning
        BY <4>3 DEF HarvestSkip, HarvestCopy, HarvestReplace, WriteBegins, WriteEnds, Pruning
      <4> QED
        BY <1>2, <2>3, <4>1, <4>2, <4>3 DEF JobStep
    <3> QED
      BY <3>1 DEF PruneInv
  <2> QED
    BY <2>2, <2>3
<1>3. CASE Begin(w) \/ PruneLists(w)
  <2>1. CASE Begin(w)
    BY <1>1, <2>1 DEF Begin, TypeOK, PruneInv, Pruning
  <2>2. CASE PruneLists(w)
    BY <2>2, ListsKeeps
  <2> QED
    BY <1>3, <2>1, <2>2
<1>4. CASE Fails(w) /\ Calm(w, FALSE)
  <2>1. ~calm'[w]
    BY <1>1, <1>4, CalmType
  <2> QED
    BY <2>1 DEF PruneInv
<1>5. CASE Evict(w) /\ Calm(w, calm[w] /\ dir' # dir)
  <2>1. calm'[w] = (calm[w] /\ dir' # dir)
    BY <1>1, <1>5, CalmType
  <2> QED
    BY <1>5, <2>1, EvictionKeeps DEF Evict
<1> QED
  BY <1>2, <1>3, <1>4, <1>5 DEF WorkerStep

LEMMA PruneNext == IInv /\ IInv' /\ PInv /\ [Next]_vars => PInv'
<1> SUFFICES ASSUME IInv, IInv', PInv, [Next]_vars, NEW v \in Worker PROVE PruneInv(v)'
  BY DEF PInv
<1>1. PruneInv(v)
  BY DEF PInv
<1>2. ASSUME NEW w \in Worker, WorkerStep(w) PROVE PruneInv(v)'
  <2>1. CASE v = w
    BY <1>1, <1>2, <2>1, OwnKeeps
  <2>2. CASE v # w
    <3>1. Apart(w)
      BY <1>2, StepsApart
    <3>2. calm'[v] => calm[v] /\ ~Disturbs(v)
      BY <1>2, <2>2 DEF WorkerStep, Calm
    <3> QED
      BY <1>1, <2>2, <3>1, <3>2, OthersKeep
  <2> QED
    BY <2>1, <2>2
<1>3. CASE Tick /\ calm' = [u \in Worker |-> calm[u] /\ ~Disturbs(u)]
  <2>1. calm'[v] => calm[v] /\ ~Disturbs(v)
    BY <1>3
  <2>2. UNCHANGED <<dir, cache, pc, proj, tmp, plan, size>>
    BY <1>3 DEF Tick, job, box, copy, list
  <2>3. calm'[v] /\ pc'[v] \in Pruning => age' = age
    BY <2>1, <2>2 DEF Disturbs, disk
  <2> QED
    BY <1>1, <2>1, <2>2, <2>3 DEF PruneInv, Listed, SizeOf, Present
<1>4. CASE UNCHANGED vars
  BY <1>1, <1>4 DEF PruneInv, Listed, SizeOf, Present, vars, disk, job, copy, list
<1> QED
  BY <1>2, <1>3, <1>4 DEF Next

LEMMA PruneInvariance == Spec => [](IInv /\ PInv)
<1>1. Init => PInv
  BY PruneInit
<1>2. IInv /\ IInv' /\ PInv /\ [Next]_vars => PInv'
  BY PruneNext
<1> QED
  BY <1>1, <1>2, Invariance, PTL DEF Spec

--------------------------------------------------------------------------------
(* What a pruning has measured, while nobody disturbs it, is what the cache  *)
(* occupies.                                                                 *)
LEMMA TotalIsOccupied ==
  ASSUME NEW w \in Worker, PruneInv(w), calm[w], pc[w] = "fit"
  PROVE  Total(w) = Occupied
  BY DEF PruneInv, Pruning, Total, Occupied

(* A pruning that nobody disturbed and that failed nowhere leaves no project *)
(* unused for longer than the limit, and no more than the cap allows, or     *)
(* only the one it keeps (asset_cache.py:181-184).                           *)
THEOREM PruningFitsCorrect == Spec => PruningFits
<1>1. ASSUME IInv /\ PInv, NEW w \in Worker, pc[w] \in Pruning, calm[w], PruneEnds(w)
      PROVE  /\ \A p \in dir \ {proj[w]} : age[p] <= MaxAge
             /\ MaxBytes > 0 => Occupied <= MaxBytes \/ dir \subseteq {proj[w]}
  <2>1. PruneInv(w)
    BY <1>1 DEF PInv
  <2>2. Listed(w) = dir \ {proj[w]} /\ \A p \in Listed(w) : plan[w][p] = age[p]
    BY <1>1, <2>1 DEF PruneInv
  <2>3. CASE pc[w] = "old"
    BY <1>1, <2>2, <2>3 DEF PruneEnds
  <2>4. CASE pc[w] = "fit"
    <3>1. \A p \in Listed(w) : plan[w][p] <= MaxAge
      BY <1>1, <2>1, <2>4 DEF PruneInv
    <3>2. Total(w) = Occupied
      BY <1>1, <2>1, <2>4, TotalIsOccupied
    <3>3. Listed(w) = {} \/ Total(w) <= MaxBytes
      BY <1>1, <2>4 DEF PruneEnds
    <3> QED
      BY <2>2, <3>1, <3>2, <3>3
  <2> QED
    BY <1>1, <2>3, <2>4 DEF Pruning
<1>2. ASSUME IInv /\ PInv
      PROVE  [\A w \in Worker : pc[w] \in Pruning /\ calm[w] /\ PruneEnds(w) =>
                /\ \A p \in dir \ {proj[w]} : age[p] <= MaxAge
                /\ MaxBytes > 0 => Occupied <= MaxBytes \/ dir \subseteq {proj[w]}]_vars
  BY <1>1, <1>2
<1> QED
  BY <1>2, PruneInvariance, PTL DEF PruningFits

(* What such a pruning evicts for space is the least recently used of all    *)
(* but the one it keeps, and only while the cache is above its cap          *)
(* (asset_cache.py:182-184).                                                 *)
THEOREM SpaceEvictionCorrect == Spec => SpaceEvictsOldest
<1>1. ASSUME IInv /\ PInv, NEW w \in Worker, NEW p \in Project, pc[w] = "fit", calm[w],
             EvictOldest(w, p)
      PROVE  /\ p # proj[w] /\ Occupied > MaxBytes
             /\ \A q \in dir \ {proj[w]} : age[q] <= age[p]
  <2>1. PruneInv(w)
    BY <1>1 DEF PInv
  <2>2. Listed(w) = dir \ {proj[w]} /\ \A q \in Listed(w) : plan[w][q] = age[q]
    BY <1>1, <2>1 DEF PruneInv, Pruning
  <2>3. p \in Listed(w) /\ (\A q \in Listed(w) : plan[w][q] <= plan[w][p]) /\ Total(w) > MaxBytes
    BY <1>1 DEF EvictOldest, Oldest
  <2>4. Total(w) = Occupied
    BY <1>1, <2>1, TotalIsOccupied
  <2> QED
    BY <2>2, <2>3, <2>4
<1>2. ASSUME IInv /\ PInv
      PROVE  [\A w \in Worker, p \in Project : pc[w] = "fit" /\ calm[w] /\ EvictOldest(w, p) =>
                /\ p # proj[w] /\ Occupied > MaxBytes
                /\ \A q \in dir \ {proj[w]} : age[q] <= age[p]]_vars
  BY <1>1, <1>2
<1> QED
  BY <1>2, PruneInvariance, PTL DEF SpaceEvictsOldest

================================================================================
