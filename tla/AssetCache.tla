------------------------------- MODULE AssetCache -------------------------------
(***************************************************************************)
(* The cache of generated assets (asset_cache.py), a directory per project *)
(* that the workers share without a lock: they touch it, copy files into   *)
(* it (harvest), mount it into build containers, which write to it while   *)
(* they run, and evict whole projects from it (prune).                     *)
(*                                                                         *)
(* A worker runs one job after the other.  Of a job there is what it does  *)
(* to the cache (build.py:226-257, 322-344, 183-188); JobLifecycle has the *)
(* rest.  A key is a type dir and a file name that _CACHE_FILENAME accepts;*)
(* symlinks and other names are skipped and are left out.  Every file      *)
(* counts one unit of space.                                               *)
(***************************************************************************)
EXTENDS Integers, FiniteSets, Functions

CONSTANTS
  Worker,     \* the worker processes
  KindOf,     \* KindOf[w]: "build" or "generate", the queue w drains
  Project,    \* the project ids that jobs name
  Key,        \* the names a file in a project's cache may have
  NoProject,  \* the project_id of a job that names none
  NoKey,      \* no file
  MaxAge,     \* settings.asset_cache_max_age, in ticks
  MaxBytes    \* settings.asset_cache_max_bytes, in files; 0: no cap

ASSUME KindAssumption == KindOf \in [Worker -> {"build", "generate"}]
ASSUME NoneAssumption == NoProject \notin Project /\ NoKey \notin Key
ASSUME FiniteAssumption == IsFiniteSet(Worker) /\ IsFiniteSet(Key) /\ IsFiniteSet(Project)
ASSUME LimitsAssumption == MaxAge \in Nat /\ MaxBytes \in Nat

VARIABLES
  dir,      \* the projects whose dir exists
  cache,    \* cache[p][k]: the file k of project p
  age,      \* the age of the mtime of p's dir, MaxAge + 1 standing for more;
            \* 0 without a dir
  pc,       \* where the worker is in its job
  proj,     \* the project the job names; when it prunes, the one it keeps
  work,     \* work[w][k]: the file k of the job's own .cache
  clean,    \* the command exited with 0
  files,    \* what the artifact of a generate job lists
  mounted,  \* "live": the container sees the project's dirs; "gone": those
            \* of a project that was evicted since; "none": its own .cache
  writing,  \* the cache file the container has open for writing
  todo,     \* the files harvest has yet to look at
  tmp,      \* the file harvest has copied to a temporary name
  plan,     \* prune's list: the listed age of the projects still on it
  size,     \* the sizes prune measured
  own,      \* history: the keys a generate job was shipped with or wrote
  made,     \* history: those of them that it wrote
  torn,     \* history: the files that an interrupted container was writing
  calm      \* history: see Disturbs

disk == <<dir, cache, age>>
job  == <<proj, work, clean, files, own, made>>
box  == <<mounted, writing, torn>>
copy == <<todo, tmp>>
list == <<plan, size>>
vars == <<disk, pc, job, box, copy, list, calm>>

FileState == {"absent", "partial", "whole"}
Age == 0 .. MaxAge + 1
Empty == [k \in Key |-> "absent"]
Present(f) == {k \in Key : f[k] # "absent"}

Unlisted == -1
Nothing == [p \in Project |-> Unlisted]
Listed(w) == {p \in Project : plan[w][p] # Unlisted}
Unmeasured == [p \in Project |-> 0]
Pruning == {"old", "fit"}

Init ==
  /\ dir = {}
  /\ cache = [p \in Project |-> Empty]
  /\ age = [p \in Project |-> 0]
  /\ pc = [w \in Worker |-> "idle"]
  /\ proj = [w \in Worker |-> NoProject]
  /\ work = [w \in Worker |-> Empty]
  /\ clean = [w \in Worker |-> FALSE]
  /\ files = [w \in Worker |-> {}]
  /\ mounted = [w \in Worker |-> "none"]
  /\ writing = [w \in Worker |-> NoKey]
  /\ todo = [w \in Worker |-> {}]
  /\ tmp = [w \in Worker |-> NoKey]
  /\ plan = [w \in Worker |-> Nothing]
  /\ size = [w \in Worker |-> Unmeasured]
  /\ own = [w \in Worker |-> {}]
  /\ made = [w \in Worker |-> {}]
  /\ torn = {}
  /\ calm = [w \in Worker |-> TRUE]

StepTo(w, from, to) == pc[w] = from /\ pc' = [pc EXCEPT ![w] = to]

--------------------------------------------------------------------------------
(* The job begins. *)

(* A worker takes a job: its project, if it names one, and the cache files *)
(* its archive ships.                                                      *)
Begin(w) ==
  \E p \in Project \cup {NoProject}, shipped \in SUBSET Key :
    /\ StepTo(w, "idle", IF p = NoProject THEN "run" ELSE "touch")
    /\ proj' = [proj EXCEPT ![w] = p]
    /\ work' = [work EXCEPT ![w] = [k \in Key |-> IF k \in shipped THEN "whole" ELSE "absent"]]
    /\ own' = [own EXCEPT ![w] = IF KindOf[w] = "generate" THEN shipped ELSE {}]
    /\ UNCHANGED <<disk, clean, files, made, box, copy, list>>

(* Mutant: every kind of job gets the mounts. *)
TouchMountsAll(w) ==
  /\ StepTo(w, "touch", IF KindOf[w] = "build" THEN "harvest" ELSE "run")
  /\ dir' = dir \cup {proj[w]}
  /\ age' = [age EXCEPT ![proj[w]] = 0]
  /\ todo' = [todo EXCEPT ![w] = IF KindOf[w] = "build" THEN Present(work[w]) ELSE {}]
  /\ mounted' = [mounted EXCEPT ![w] = IF KindOf[w] = "build" THEN "none" ELSE "live"]
  /\ UNCHANGED <<cache, job, writing, torn, tmp, list>>

(* touch.  A build then harvests what its archive shipped. *)
Touch(w) ==
  /\ StepTo(w, "touch", IF KindOf[w] = "build" THEN "harvest" ELSE "run")
  /\ dir' = dir \cup {proj[w]}
  /\ age' = [age EXCEPT ![proj[w]] = 0]
  /\ todo' = [todo EXCEPT ![w] = IF KindOf[w] = "build" THEN Present(work[w]) ELSE {}]
  /\ UNCHANGED <<cache, job, box, tmp, list>>

(* mounts, and the launch.  The mounts hide what the job's own .cache has.   *)
(* The Docker daemon makes a bind source anew that another worker evicted    *)
(* after touch.                                                              *)
Mount(w) ==
  /\ StepTo(w, "mount", "run")
  /\ dir' = dir \cup {proj[w]}
  /\ mounted' = [mounted EXCEPT ![w] = "live"]
  /\ work' = [work EXCEPT ![w] = Empty]
  /\ UNCHANGED <<cache, age, proj, clean, files, own, made, writing, torn, copy, list>>

(* touch, which may have made a dir by then, or mounts raised: the job runs  *)
(* without the cache.                                                        *)
Unavailable(w) ==
  /\ \/ StepTo(w, "touch", "run")
     \/ StepTo(w, "mount", "run") /\ UNCHANGED <<dir, age>>
  /\ \/ UNCHANGED <<dir, age>>
     \/ dir' = dir \cup {proj[w]} /\ age' = [age EXCEPT ![proj[w]] = 0]
  /\ UNCHANGED <<cache, job, box, copy, list>>

--------------------------------------------------------------------------------
(* harvest: before a build's launch, and after a generate job's clean exit. *)

(* The next step once harvest returned or raised. *)
AfterHarvest(w) == IF KindOf[w] = "build" THEN "mount" ELSE "prune"

(* A file the cache has is left alone. *)
HarvestSkip(w, k) ==
  /\ pc[w] = "harvest" /\ tmp[w] = NoKey /\ k \in todo[w]
  /\ cache[proj[w]][k] # "absent"
  /\ todo' = [todo EXCEPT ![w] = @ \ {k}]
  /\ UNCHANGED <<disk, pc, job, box, tmp, list>>

(* Mutant: os.makedirs is left to touch. *)
HarvestCopyBare(w, k) ==
  /\ pc[w] = "harvest" /\ tmp[w] = NoKey /\ k \in todo[w]
  /\ cache[proj[w]][k] = "absent"
  /\ tmp' = [tmp EXCEPT ![w] = k]
  /\ UNCHANGED <<disk, pc, job, box, todo, list>>

(* Any other is copied to a temporary name, its dir made if need be ... *)
HarvestCopy(w, k) ==
  /\ pc[w] = "harvest" /\ tmp[w] = NoKey /\ k \in todo[w]
  /\ cache[proj[w]][k] = "absent"
  /\ dir' = dir \cup {proj[w]}
  /\ tmp' = [tmp EXCEPT ![w] = k]
  /\ UNCHANGED <<cache, age, pc, job, box, todo, list>>

(* Mutant: the temporary file is never renamed. *)
HarvestForgets(w, k) ==
  /\ pc[w] = "harvest" /\ tmp[w] = k
  /\ tmp' = [tmp EXCEPT ![w] = NoKey]
  /\ todo' = [todo EXCEPT ![w] = @ \ {k}]
  /\ UNCHANGED <<disk, pc, job, box, list>>

(* ... which os.replace puts in its place, in one step.  A container that   *)
(* is writing the file goes on with one that has no name any more.          *)
HarvestReplace(w, k) ==
  /\ pc[w] = "harvest" /\ tmp[w] = k
  /\ cache' = [cache EXCEPT ![proj[w]][k] = work[w][k]]
  /\ torn' = torn \ {<<proj[w], k>>}
  /\ writing' = [v \in Worker |-> IF mounted[v] = "live" /\ proj[v] = proj[w] /\ writing[v] = k
                                  THEN NoKey ELSE writing[v]]
  /\ tmp' = [tmp EXCEPT ![w] = NoKey]
  /\ todo' = [todo EXCEPT ![w] = @ \ {k}]
  /\ UNCHANGED <<dir, age, pc, job, mounted, list>>

(* An OSError in either: the file is given up, its temporary one removed. *)
HarvestFails(w, k) ==
  /\ pc[w] = "harvest" /\ tmp[w] = k
  /\ tmp' = [tmp EXCEPT ![w] = NoKey]
  /\ todo' = [todo EXCEPT ![w] = @ \ {k}]
  /\ UNCHANGED <<disk, pc, job, box, list>>

HarvestDone(w) ==
  /\ todo[w] = {}
  /\ StepTo(w, "harvest", AfterHarvest(w))
  /\ UNCHANGED <<disk, job, box, copy, list>>

(* os.makedirs raised: the rest is not looked at.  A build then runs without *)
(* the cache.                                                                *)
HarvestRaises(w) ==
  /\ tmp[w] = NoKey /\ \E k \in todo[w] : cache[proj[w]][k] = "absent"
  /\ StepTo(w, "harvest", IF KindOf[w] = "build" THEN "run" ELSE "prune")
  /\ todo' = [todo EXCEPT ![w] = {}]
  /\ UNCHANGED <<disk, job, box, tmp, list>>

--------------------------------------------------------------------------------
(* The container.  The CLI looks for a file and, if it finds none, makes the *)
(* asset and copies it there, in place; another process may have put one     *)
(* there in the meantime.  What a build without the mount, or with that of a *)
(* deleted dir, writes is left out: nobody reads it.                         *)

(* The file that the container has under the name k. *)
SetFile(w, k, state) ==
  IF mounted[w] = "live"
  THEN cache' = [cache EXCEPT ![proj[w]][k] = state] /\ UNCHANGED work
  ELSE work' = [work EXCEPT ![w][k] = state] /\ UNCHANGED cache

(* Another container writes to the same file. *)
Shared(w, k) ==
  /\ mounted[w] = "live"
  /\ \E v \in Worker \ {w} : mounted[v] = "live" /\ proj[v] = proj[w] /\ writing[v] = k

WriteBegins(w, k) ==
  /\ pc[w] = "run" /\ writing[w] = NoKey
  /\ KindOf[w] = "generate" \/ mounted[w] = "live"
  /\ SetFile(w, k, "partial")
  /\ writing' = [writing EXCEPT ![w] = k]
  /\ own' = IF KindOf[w] = "generate" THEN [own EXCEPT ![w] = @ \cup {k}] ELSE own
  /\ made' = IF KindOf[w] = "generate" THEN [made EXCEPT ![w] = @ \cup {k}] ELSE made
  /\ UNCHANGED <<dir, age, pc, proj, clean, files, mounted, torn, copy, list>>

WriteEnds(w, k) ==
  /\ pc[w] = "run" /\ writing[w] = k
  /\ SetFile(w, k, IF Shared(w, k) THEN "partial" ELSE "whole")
  /\ writing' = [writing EXCEPT ![w] = NoKey]
  /\ torn' = IF mounted[w] = "live" /\ ~Shared(w, k) THEN torn \ {<<proj[w], k>>} ELSE torn
  /\ UNCHANGED <<dir, age, pc, proj, clean, files, own, made, mounted, copy, list>>

(* The file it was writing stays as it is. *)
Interrupt(w) ==
  /\ torn' = IF mounted[w] = "live" /\ writing[w] # NoKey
             THEN torn \cup {<<proj[w], writing[w]>>} ELSE torn
  /\ writing' = [writing EXCEPT ![w] = NoKey]
  /\ mounted' = [mounted EXCEPT ![w] = "none"]

(* The command ends, with 0 once all its files are written.  A build's      *)
(* output is in another dir: packing it does not concern the cache.         *)
Exits(w) ==
  \E zero \in BOOLEAN :
    /\ zero => writing[w] = NoKey
    /\ StepTo(w, "run", IF KindOf[w] = "generate" THEN "pack" ELSE "prune")
    /\ clean' = [clean EXCEPT ![w] = zero /\ KindOf[w] = "generate"]
    /\ Interrupt(w)
    /\ UNCHANGED <<disk, proj, work, files, own, made, copy, list>>

(* It is killed, by a cancel or at the timeout, or never came up. *)
Killed(w) ==
  /\ StepTo(w, "run", "prune")
  /\ Interrupt(w)
  /\ UNCHANGED <<disk, job, copy, list>>

(* Mutant: whatever the run left is harvested. *)
HarvestsAlways(w) == proj[w] # NoProject

Harvests(w) == proj[w] # NoProject /\ clean[w]

(* _zip_dir lists a generate job's .cache, its output dir; then it is        *)
(* harvested.                                                                *)
Pack(w) ==
  /\ StepTo(w, "pack", IF Harvests(w) THEN "harvest" ELSE "prune")
  /\ files' = [files EXCEPT ![w] = Present(work[w])]
  /\ todo' = [todo EXCEPT ![w] = IF Harvests(w) THEN Present(work[w]) ELSE {}]
  /\ UNCHANGED <<disk, proj, work, clean, own, made, box, tmp, list>>

--------------------------------------------------------------------------------
(* prune, after every job. *)

(* What _dir_size finds: files, and temporary ones. *)
SizeOf(p) ==
  Cardinality(Present(cache[p])) + Cardinality({w \in Worker : proj[w] = p /\ tmp[w] # NoKey})

(* The job's own data is left behind: it is over but for the pruning. *)
Forget(w) ==
  /\ work' = [work EXCEPT ![w] = Empty]
  /\ clean' = [clean EXCEPT ![w] = FALSE]
  /\ files' = [files EXCEPT ![w] = {}]
  /\ own' = [own EXCEPT ![w] = {}]
  /\ made' = [made EXCEPT ![w] = {}]

(* The projects and their mtimes are listed, but for the one to keep: the    *)
(* job's own as its record, read again, has it.  A record that expired or    *)
(* was revived since (see Retention) has none.                               *)
PruneLists(w) ==
  \E keep \in {proj[w], NoProject} :
    /\ StepTo(w, "prune", "old")
    /\ proj' = [proj EXCEPT ![w] = keep]
    /\ plan' = [plan EXCEPT ![w] =
                 [p \in Project |-> IF p \in dir \ {keep} THEN age[p] ELSE Unlisted]]
    /\ Forget(w)
    /\ UNCHANGED <<disk, box, copy, size>>

(* rmtree(ignore_errors=True) of the dir of p: all of it goes, or, if it     *)
(* fails, some of its files, which may stamp the dir.  A mount of a dir that *)
(* went is one of a deleted dir, a harvest that copied into it will fail to  *)
(* rename.                                                                   *)
Rmtree(p) ==
  \E gone \in SUBSET Key, all \in BOOLEAN, stamp \in {0, age[p]} :
    LET Hit(v) == all /\ proj[v] = p
    IN /\ all => gone = Key /\ stamp = 0
       /\ dir' = IF all THEN dir \ {p} ELSE dir
       /\ age' = [age EXCEPT ![p] = stamp]
       /\ cache' = [cache EXCEPT ![p] = [k \in Key |-> IF k \in gone THEN "absent" ELSE @[k]]]
       /\ torn' = {t \in torn : t[1] # p \/ t[2] \notin gone}
       /\ mounted' = [v \in Worker |-> IF Hit(v) /\ mounted[v] = "live" THEN "gone" ELSE mounted[v]]
       /\ writing' = [v \in Worker |-> IF proj[v] = p /\ mounted[v] = "live" /\ writing[v] \in gone
                                        THEN NoKey ELSE writing[v]]
       /\ todo' = [v \in Worker |-> IF Hit(v) THEN todo[v] \ {tmp[v]} ELSE todo[v]]
       /\ tmp' = [v \in Worker |-> IF Hit(v) THEN NoKey ELSE tmp[v]]

(* First, any unused for longer than MaxAge when they were listed.  (There  *)
(* are no sizes yet.)                                                       *)
EvictOld(w, p) ==
  /\ pc[w] = "old" /\ plan[w][p] > MaxAge
  /\ Rmtree(p)
  /\ plan' = [plan EXCEPT ![w][p] = Unlisted]
  /\ size' = [size EXCEPT ![w][p] = 0]
  /\ UNCHANGED <<pc, job>>

(* Mutant: the project to keep does not count. *)
MeasuredOthers(w) == Listed(w)

(* The projects left on the list, and the one to keep. *)
Measured(w) == Listed(w) \cup ({proj[w]} \cap Project)

(* The sizes are measured, if there is a cap. *)
Measure(w) ==
  /\ \A p \in Listed(w) : plan[w][p] <= MaxAge
  /\ MaxBytes > 0
  /\ StepTo(w, "old", "fit")
  /\ size' = [size EXCEPT ![w] = [p \in Project |-> IF p \in Measured(w) THEN SizeOf(p) ELSE 0]]
  /\ UNCHANGED <<disk, job, box, copy, plan>>

(* What was evicted was taken off, its rmtree having failed or not. *)
Total(w) == SumFunction(size[w])

(* Mutant: the most recently used goes first. *)
YoungestFirst(w, p) == \A q \in Listed(w) : plan[w][q] >= plan[w][p]

Oldest(w, p) == \A q \in Listed(w) : plan[w][q] <= plan[w][p]

(* Then the least recently used, while the total is above the cap. *)
EvictOldest(w, p) ==
  /\ pc[w] = "fit" /\ p \in Listed(w) /\ Oldest(w, p)
  /\ Total(w) > MaxBytes
  /\ Rmtree(p)
  /\ plan' = [plan EXCEPT ![w][p] = Unlisted]
  /\ size' = [size EXCEPT ![w][p] = 0]
  /\ UNCHANGED <<pc, job>>

(* The end of the pruning: nothing is left to evict, or the listing failed. *)
PruneEnds(w) ==
  /\ \/ pc[w] = "fit" /\ (Listed(w) = {} \/ Total(w) <= MaxBytes)
     \/ pc[w] = "old" /\ MaxBytes = 0 /\ \A p \in Listed(w) : plan[w][p] <= MaxAge
     \/ pc[w] = "prune"
  /\ pc' = [pc EXCEPT ![w] = "idle"]
  /\ proj' = [proj EXCEPT ![w] = NoProject]
  /\ Forget(w)
  /\ plan' = [plan EXCEPT ![w] = Nothing]
  /\ size' = [size EXCEPT ![w] = Unmeasured]
  /\ UNCHANGED <<disk, box, copy>>

--------------------------------------------------------------------------------
(* The worker dies, and is started again.  (Its container, if there is one,  *)
(* goes on: that is a worker that stays at "run" while another begins.  The   *)
(* temporary file it leaves, no reader takes for a cache file; it goes with  *)
(* the project, and is left out.)                                            *)
Crash(w) ==
  /\ pc[w] \notin {"idle", "run"}
  /\ pc' = [pc EXCEPT ![w] = "idle"]
  /\ proj' = [proj EXCEPT ![w] = NoProject]
  /\ Forget(w)
  /\ todo' = [todo EXCEPT ![w] = {}]
  /\ tmp' = [tmp EXCEPT ![w] = NoKey]
  /\ plan' = [plan EXCEPT ![w] = Nothing]
  /\ size' = [size EXCEPT ![w] = Unmeasured]
  /\ UNCHANGED <<disk, box>>

(* Time passes. *)
Tick ==
  /\ age' = [p \in Project |-> IF p \notin dir \/ age[p] > MaxAge THEN age[p] ELSE age[p] + 1]
  /\ UNCHANGED <<dir, cache, pc, job, box, copy, list>>

--------------------------------------------------------------------------------
(* What the step does to v's view: to a pruning, any change since it listed  *)
(* the projects; to a generate job, the loss of its project or of a file.    *)
Disturbs(v) ==
  IF pc[v] \in Pruning
  THEN <<disk, tmp>>' # <<disk, tmp>>
  ELSE /\ KindOf[v] = "generate" /\ proj[v] \in Project
       /\ \/ proj[v] \in dir \ dir'
          \/ \E k \in Key : cache[proj[v]][k] # "absent" /\ cache'[proj[v]][k] = "absent"

(* The step of w leaves w calm if c, and the others if it does not disturb them. *)
Calm(w, c) == calm' = [v \in Worker |-> IF v = w THEN c ELSE calm[v] /\ ~Disturbs(v)]

JobStep(w) ==
  \/ Touch(w) \/ Mount(w) \/ Unavailable(w) \/ HarvestDone(w)
  \/ \E k \in Key : HarvestSkip(w, k) \/ HarvestCopy(w, k) \/ HarvestReplace(w, k)
  \/ \E k \in Key : WriteBegins(w, k) \/ WriteEnds(w, k)
  \/ Exits(w) \/ Killed(w) \/ Pack(w) \/ Measure(w) \/ PruneEnds(w)

Fails(w) == HarvestRaises(w) \/ Crash(w) \/ \E k \in Key : HarvestFails(w, k)

Evict(w) == \E p \in Project : EvictOld(w, p) \/ EvictOldest(w, p)

WorkerStep(w) ==
  \/ JobStep(w) /\ Calm(w, calm[w])
  \/ (Begin(w) \/ PruneLists(w)) /\ Calm(w, TRUE)
  \/ Fails(w) /\ Calm(w, FALSE)
  \/ Evict(w) /\ Calm(w, calm[w] /\ dir' # dir)

Next ==
  \/ \E w \in Worker : WorkerStep(w)
  \/ Tick /\ calm' = [v \in Worker |-> calm[v] /\ ~Disturbs(v)]

Spec == Init /\ [][Next]_vars

--------------------------------------------------------------------------------
(* What is checked. *)

(* The types; and there are files, temporary files and mounts only where     *)
(* there is a dir, though other workers evict it between any two steps.      *)
TypeOK ==
  /\ dir \subseteq Project
  /\ cache \in [Project -> [Key -> FileState]]
  /\ age \in [Project -> Age]
  /\ pc \in [Worker -> {"idle", "touch", "mount", "run", "pack", "harvest", "prune", "old", "fit"}]
  /\ proj \in [Worker -> Project \cup {NoProject}]
  /\ work \in [Worker -> [Key -> FileState]]
  /\ clean \in [Worker -> BOOLEAN] /\ calm \in [Worker -> BOOLEAN]
  /\ files \in [Worker -> SUBSET Key] /\ own \in [Worker -> SUBSET Key]
  /\ made \in [Worker -> SUBSET Key]
  /\ mounted \in [Worker -> {"none", "live", "gone"}]
  /\ writing \in [Worker -> Key \cup {NoKey}]
  /\ todo \in [Worker -> SUBSET Key] /\ tmp \in [Worker -> Key \cup {NoKey}]
  /\ plan \in [Worker -> [Project -> Age \cup {Unlisted}]]
  /\ size \in [Worker -> [Project -> Nat]]
  /\ torn \subseteq Project \X Key
  /\ \A p \in Project \ dir : cache[p] = Empty
  /\ \A w \in Worker : tmp[w] # NoKey \/ mounted[w] = "live" => proj[w] \in dir

(* A file in the cache is whole, unless a build's container is writing it,   *)
(* or was stopped while it did (the known gap of README.md:393-397): no      *)
(* harvest, and no race of one with a build, a pruning or another harvest,   *)
(* leaves half a file (asset_cache.py:34-35, build.py:336-338).              *)
PartialIsABuilds ==
  \A p \in Project, k \in Key : cache[p][k] = "partial" =>
    \/ <<p, k>> \in torn
    \/ \E w \in Worker : /\ KindOf[w] = "build" /\ mounted[w] = "live"
                         /\ proj[w] = p /\ writing[w] = k

(* After a clean exit a generate job lists every file that its archive       *)
(* shipped or its container made, and each is whole.  The project's cache,   *)
(* which other jobs fill and evict meanwhile, neither adds a file to the     *)
(* list nor hides one (the mounts of build.py:240-257 are for builds only).  *)
FilesAreOwn ==
  \A w \in Worker : KindOf[w] = "generate" /\ pc[w] = "harvest" =>
    files[w] = own[w] /\ \A k \in files[w] : work[w][k] = "whole"

(* "A generate job keeps its private, empty cache so its artifact and files  *)
(* list are exactly what it produced" (asset_cache.py:20-22).  It does not   *)
(* hold: see the README.                                                     *)
ListsWhatItProduced ==
  \A w \in Worker : KindOf[w] = "generate" /\ pc[w] = "harvest" => files[w] = made[w]

(* When a generate job that exited cleanly is over, each of its files is in  *)
(* its project's cache, for the next build (asset_cache.py:22-24), whatever  *)
(* builds and other jobs of the project did meanwhile: unless the job met an *)
(* OSError or another worker evicted the project.                            *)
GeneratedIsCached ==
  \A w \in Worker :
    (KindOf[w] = "generate" /\ pc[w] = "prune" /\ proj[w] \in Project /\ clean[w] /\ calm[w])
      => \A k \in own[w] : cache[proj[w]][k] # "absent"

Occupied == SumFunction([p \in Project |-> SizeOf(p)])

(* When a pruning ends that nobody disturbed and in which no rmtree failed,  *)
(* every project but the one to keep was used within MaxAge, and all of them *)
(* fit the cap or only the one to keep is left (asset_cache.py:181-184).     *)
(* Without one, for a job whose record was gone, none is spared.             *)
PruningFits ==
  [][\A w \in Worker : pc[w] \in Pruning /\ calm[w] /\ PruneEnds(w) =>
       /\ \A p \in dir \ {proj[w]} : age[p] <= MaxAge
       /\ MaxBytes > 0 => Occupied <= MaxBytes \/ dir \subseteq {proj[w]}]_vars

(* A pruning that nobody disturbed evicts for space only while the cache is  *)
(* above the cap, and what it evicts is the least recently used of all but   *)
(* the project to keep (asset_cache.py:182-184).  That one is spared only if *)
(* the record still named the job's project: build.py:180.                   *)
SpaceEvictsOldest ==
  [][\A w \in Worker, p \in Project : pc[w] = "fit" /\ calm[w] /\ EvictOldest(w, p) =>
       /\ p # proj[w] /\ Occupied > MaxBytes
       /\ \A q \in dir \ {proj[w]} : age[q] <= age[p]]_vars

(* What asset_cache.py:181-182 and README.md:387-390 say: what goes for its  *)
(* age is unused for longer than MaxAge.  It does not hold: see the README.  *)
AgeEvictsUnused ==
  [][\A w \in Worker, p \in dir : p \notin dir' /\ EvictOld(w, p) => age[p] > MaxAge]_vars
================================================================================
