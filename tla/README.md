# Verification of the PreTeXt full build server

TLA+ models of the job pipeline of this repository (`src/`, below), the TLC
runs that check them on small instances, and TLAPS proofs about them for every
value of their constants. Paths are relative to the repository.

## 1. The system

A client uploads a PreTeXt project; the server runs `pretext build` or
`pretext generate` on it in a locked-down container, and offers the output as a
zip. Four kinds of process share two stores:

    client --POST /builds, /generate, .../cancel--> API (src/api.py, threads)
       API  --files-->  jobs/<id>/work   --enqueue--> RQ (2 queues)
       API  --HSET/EXPIRE/HGETALL-->  Redis hash job:<id>  <--HSET-- worker
       worker (src/build.py, one service per queue) --Docker API--> container
       worker --zip--> jobs/<id>/output.zip      --POST--> callback_url
       every worker, after every job --prune--> jobs/*, asset-cache/*

| component | its state | operations | what is hard | correct means |
|---|---|---|---|---|
| Submission (`api.py` `_intake`, `create_*`) | job dir, record, queue entry | validate, unpack, `store.create`, enqueue | three stores written in turn, the API may die between | an accepted job is run; a rejected one leaves nothing |
| Store and queues (`jobs.py`) | Redis hash per job with a TTL; two RQ queues | create, update (plain HSET), get; enqueue, cancel, take | updates from several processes without transactions; update after expiry | an outcome is written once and stays; every record expires; generate never waits for builds |
| Cancellation (`api.py` `_cancel`) | the flag in the record; RQ's entry | load, flag, dequeue, write | each step races the worker and other cancels | the answer "cancelled" is true; a flagged job stops within a poll |
| Worker (`build.py`) | the run's place, the container, elapsed time | pre-run check, launch, poll loop, kill, remove, zip, final update | daemon and disk failures anywhere; container exits at any time; crash | the record ends truthfully, after the container stopped; artifact is complete when served; the worker gets free |
| Callback (`notify.py`) | `callback_status`, attempts | check URL, build payload once, POST up to N times | lost and late POSTs, redirects, silent hosts | what was told is the outcome and stays so; the verdict is earned |
| Retention (`build.py` `_prune_expired_jobs`, TTL) | expiry of the record, mtime of the dir | EXPIRE at creation, prune after each job | two clocks started at different moments, pruning by other jobs' workers | nothing still needed is deleted; everything goes eventually |
| Asset cache (`asset_cache.py`) | dir per project, mtime as last use | touch, mounts, harvest, prune | workers share it without locks, containers write into it | no half-copied file is read; what is in use is not evicted; caps hold |
| Artifact contents (`_zip_dir`, `harvest`) | file trees | filters for symlinks, dotfiles, names | trees written by user code | only what may leave the job dir is archived |
| Warm image (`scripts/update_warm_image.sh`) | image tags | pull, build, smoke test, tag, prune, roll back | concurrent and interrupted runs | jobs always find `:warm`; it passed the tests; what was live can come back |
| Egress proxy, compose, Caddy, config | configuration | none | none | out of scope, see 8 |

`PROJECT.json` lists the same parts under `components`, and under `hazards`
what is hard to test in each, at its line.

## 2. Modules

| module | models | state and actions |
|---|---|---|
| `JobContract` | what a client and a callback receiver may rely on | `phase`, `asked`, `overruled`, `heard`; Accept, Ask, Overrule, Start, End, Tell |
| `JobLifecycle` | one record from `store.create` to the callback, with cancels, RQ, worker, container | below |
| `JobLifecycleMC` | instances of it | kinds of jobs and workers |
| `JobLifecycleBaseProofs`, `JobLifecycleProofs` | its theorems | section 6 |
| `Delivery` | a callback, abstractly: where `JobLifecycle` and `Callback` meet | Read, Block, Arrive, Settle, Die |
| `Callback` | `send_callback`: attempts, network, verdict | Allowed, Blocked, Send, Trickles, FallsSilent, HostAnswers, Lose, Answered, TimesOut, GiveUp, Crash |
| `CallbackProofs` | its theorems | |
| `Retention` | TTL of the record against mtime of the job dir | Unpack ... Prune, Tick |
| `RetentionMC`, `RetentionProofs` | instances and theorems | |
| `AssetCache` | the shared cache under concurrent workers: `touch`, `mounts`, `harvest`, `prune`, and the containers writing to it | below |
| `AssetCacheMC`, `AssetCacheProofs`, `AssetCachePruneProofs` | instances and theorems | |
| `WarmImage` | `update_warm_image.sh` | `tag`, `images`, `pc[r]`, `checks[r]`; Start, Build, CheckPasses ..., Keep, Promote, Untag, Prune, Stops, Rollback |
| `WarmImageMC`, `WarmImageProofs` | instances and theorems | |

**JobLifecycle.** `status`, `cancel_requested`, `files` and `callback_status`
are fields of the Redis hash. `rq` is where RQ has the job, `worker[w]` the job
worker process `w` runs, `pc[j]` the next statement of that run, `ending[j]`
which branch `_run_sandboxed` took, `elapsed[j]` the variable of
`_wait_for_container`. `container`, `StatusCode` and `zip` are Docker's and the
disk's. `handler[h]` is a thread inside `_cancel`, with the status it read
(`seen`). `promised` and `flaggedAt` are history variables that only properties
read. A step is what happens between two points where another process can see
or be seen: one read or write of the record, one call to RQ or Docker, one POST.

The run's steps, in order: `Take`, `Begin` (misconfiguration, the read of the
pre-run check), `Refuse` or `Claim`, `Launch` (or `ImageMissing`,
`LaunchFails`), the loop `WaitReturns` / `WaitTimesOut` / `Recheck` (or `WaitFails`), `Kill` or
`KillRaises`, `Killed` or `Logs` (or `LogsRaise`), `Remove` or `RemoveFails`,
`PackStart`, `PackDone`, `NoOutput`, `PackFails`, `Finish`, `Report`, `Blocked`
or `Post`, `Return`. An exception that nothing catches sets `ending` to
"raised" and goes to the `finally` that comes next.

The read endpoints change nothing; they are the operators that properties are
stated with: `Shown` (`_status`), `ArtifactServed`, `FilesServed`, and in
`Retention` `Loads` (`_load`).

**Faults** are a constant: API deaths inside a request, worker crashes, any
Docker call failing, the disk failing. With none, all that is left is the
interleaving, a container that ends by itself whenever it likes, and RQ:
`rq.Job.cancel()` of a job that a worker took returns (`RqCancel`) or raises
(`RqRefuses`), at any time, since the repository does not pin `rq`.
`containers.run` may fail after it created or started a container, which then
nobody refers to (`LaunchFails`).

A job is `Overruled` if a worker has it although its cancel was answered with
"cancelled", which takes an RQ that returns. `JobContract` has that as its
`Overrule`: the only way in which a job that ended changes. `Says(j, s)` is that
the status is `s`, or the "cancelled" that was written over it.

**Retention.** `step[j]` is where the job is in its life, from the unpacking to
the pruning at the end of its run; `record`, `expires`, `dir` and `mtime` are
what Redis and the disk have of it. A submission may also fail while it unpacks
(`IntakeFails`) or die between any two of its writes (`ApiDies`): the steps
"lost", "orphan" (a hash without a TTL) and "stranded" (never enqueued).
`cancelling[j]` is where the cancel handlers of the job are: each loads the
record, flags it, takes the job from RQ (or not) and writes "cancelled", and
between any two of these the record may expire or the API die.

**AssetCache.** `dir`, `cache[p][k]` and `age[p]` are the disk: which projects
have a dir, whether its file `k` is whole, partial or absent, and how old the
dir's mtime is. `pc[w]` is where worker `w` is in its job, `proj[w]` the project
the job names, `work[w]` the job's own `.cache`. `mounted[w]` and `writing[w]`
are its container's: the dirs it sees (those of a project evicted under it are
"gone"), and the file it has open. `todo[w]` and `tmp[w]` are `harvest`'s loop
and its temporary file, `plan[w]` and `size[w]` the list and the measurements
of `prune`. A job is `Begin`, `Touch`, for a build `HarvestSkip` or
`HarvestCopy` and `HarvestReplace` for each file its archive shipped, `Mount`,
then `WriteBegins` and `WriteEnds` of the container, `Exits` or `Killed`, for a
generate job `Pack` and the harvest of what it made, and the pruning:
`PruneLists`, `EvictOld`, `Measure`, `EvictOldest`, `PruneEnds`. The project to
keep is the one that the record, read again when the job is over, still names
(`src/build.py:180`, `186`): `PruneLists` lets it be the job's own, or none, as
for a record that expired or was revived (finding 4). The faults are
actions: `Unavailable` (touch or mounts raise), `HarvestFails`,
`HarvestRaises`, an `Rmtree` that deletes some files only, `Crash`. Histories:
`own`, what a generate job was shipped or made; `made`, what it made; `torn`, the files that an
interrupted container was writing; `calm[w]`, that nobody disturbed `w` since it
began its job or its pruning. A pruning is disturbed (`Disturbs`) by any change
to the disk it has listed, a generate job by the eviction of its project; both
by a failure of their own. Properties that say what a step achieves say it of
calm workers; those that say what may never be there say it of all.

**WarmImage.** `pc[r]` is the next command of run `r`; what `docker run` finds
is `tag` and `images`. `proved[i]` is what image `i` itself passed since the
script was last started; `solo` the run that is alone since it began, and
`before` the tags it found.

**Composition.** `JobLifecycle` treats the callback as one read, arrivals at
any later time, and a verdict. `Delivery` is exactly that, on its own: each run
of `JobLifecycle` is shown to make of its callback what `Delivery` allows
(`ImplementsDelivery` there), and `Callback`, with attempts and a network, to
implement it (`ImplementsDelivery` here), so that neither module takes the other
on trust.
`JobLifecycle` has no expiry; `Retention` has only what decides who outlives
whom, and of a run the updates and the zip. `AssetCache` has of a job what it
does to the cache, and ends a command in either way at any time: a superset of
what `JobLifecycle` lets it do. `WarmImage` shares nothing with the workers but
the tag they start containers from, whose absence is `ImageMissing` there.

## 3. Runs

| run | asks | bounds |
|---|---|---|
| `lifecycle` | can record, container, artifact, callback and cancel answers contradict each other, whatever RQ does with taken jobs? does the system implement `JobContract`, and its callbacks `Delivery`? does every job end, is every run reported, is every container stopped, is an early cancel heeded? | 1 job, 2 workers (1 misconfigured), 2 cancel handlers, all faults; timeout 3, poll 2, so that the timeout is not a multiple of the poll (77 thousand states) |
| `generate_lane` | do generate jobs end with the build worker stuck? | 2 generate jobs, 1 build job, 1 worker each |
| `callback` | is the verdict earned, does the loop end unless an answer never does, does it implement `Delivery`? | 3 attempts (the default) |
| `retention` | does a prompt job lose its dir, its artifact, or its record's expiry or kind, to a job and a worker that may be late, or to a cancel? | 2 jobs, one of them prompt, 1 cancel handler at a time, TTL 3, clock to 4: the late one may be born, run and prune before or after the prompt one's record expires, which it does from 3 on (2.2 million states, a minute) |
| `asset_cache` | can workers that share the cache without a lock leave half a file, lose one, or evict too much or too little? | a build and a generate worker, 2 projects (symmetric), 1 key, age limit 1, cap of 1 file (1.2 million states) |
| `warm_image` | can a run take `:warm` away, promote what failed, or lose what was live? | 3 images (candidate, live, previous), 2 runs, 2 checks |
| `kill_race`, `cancel_taken`, `callback_redirect`, `retention_kind`, `stale_eviction`, `generated_only` | violations, section 5 | the smallest that shows them |

One job is enough for `lifecycle` because the actions of two jobs share
nothing but a worker and an API thread, which only serialise them; the proofs
of section 6 are for any number. Pruning is what jobs do to each other, so
`Retention` has two. In `AssetCache` two workers are the two services of
`compose.yaml`; each pair of steps that the code can interleave is one of two
workers. Files of a project are harvested, written and counted one by one and
share only the project's dir, so that one key per project, of which either worker may
ship, write, harvest or evict the only file, has every race for a file; two
projects of one file each are above a cap of one; an age limit of 1 has the
ages 0, 1 and more. `WarmImage` has one image for each of the three tags, and
two checks, so that a run may be disturbed between them. The poll count is bounded by `Timeout`, not by the model.
`CHECK_DEADLOCK` is off in all of them: a server whose clients asked for nothing
more, or a clock at its bound, stops.

Each property of a passing run has a mutant in `PROJECT.json`: a definition of
the model changed as a plausible bug would, with which the property fails.

## 4. Fairness

* `ApiFairness`: an API thread that is inside `_cancel` goes on. Not that
  clients send anything.
* `LaneFairness`: idle workers take jobs (compose restarts them), and a run's
  own steps are taken. A container's command owes nothing (`ContainerExits` is
  unfair): the poll loop's `WaitTimesOut` is a step of the run, since
  `container.wait(timeout=poll)` returns or raises.
* `GenerateLaneSpec` gives the second only to the generate workers and jobs.
* The callback: `requests`' timeout bounds the connect and each wait for a byte
  of the answer, so `TimesOut` is among the worker's fair steps as long as
  nothing of an answer comes in. While one trickles in it is disabled, and the
  host owes no end of it: `CallbackSettles` says that `send_callback` returns or
  is held up by such an answer for ever. What ends that in practice is RQ's
  timeout for the whole job, which is RQ's, and part of `Crash` without being
  assumed.
* `Retention`, `AssetCache` and `WarmImage` have safety properties only, and no
  fairness.
* Nothing in the code resumes the job of a dead worker, or one that the API took
  from RQ and died (`Dropped`): the liveness properties except them, and worker
  crashes are otherwise free to happen.

"Ends" has one more escape in `JobsSettle` and `ContainersStop`: a run from which
an exception escaped (`CutShort`). That is what the code does, see 5.

## 5. Where the code and what is said of it differ

1. `kill_race`. `container.kill()` (`src/build.py:286`, `296`) raises if the
   container exited after the last poll; nothing catches that `APIError`. The
   record stays "running" for the rest of its TTL and the callback says
   "running", where `src/notify.py:3-4` promises a terminal state. No fault is
   needed: only the container exiting at the wrong moment.
2. `cancel_taken`. `_cancel` relies on `rq.Job.cancel()` raising for a job that
   a worker took since the status was read (`src/api.py:195-197`). RQ's
   `cancel()` raises for an already canceled job only. With that behaviour the
   answer "cancelled" is given for a job whose container then runs, and the
   status goes from "cancelled" back to "running", or from an outcome to
   "cancelled". RQ is outside the repository and not pinned, so in every run and
   theorem its `cancel()` of a taken job may return or raise. The properties
   that the comment would allow, that a job so answered never runs and that no
   outcome ever changes, are not claimed: `cancel_taken` refutes the first
   without any fault, and `OutcomeStands` and `JobContract` say what is left of
   the second, the two changes that such a cancel makes and no other. Until the
   overruled run comes to its last status, its container may run and its zip be
   half written under "cancelled"; after that only the word is wrong
   (`ContainerStopsFirst`, `ServedArtifactIsComplete`, `CallbackReportsOutcome`).
3. `callback_redirect`. A 3xx answer is recorded as "delivered":
   `raise_for_status` takes it for a success, redirects are not followed.
4. `retention_kind`. `Store.update` after the record expired creates it anew
   with no kind and no TTL: a generate job that waited for JOB_TTL in its queue
   is then served under `/builds/<id>`, for ever, and is unknown under
   `/generate/<id>`.
5. `stale_eviction`. "first any unused for longer than
   ASSET_CACHE_MAX_AGE_DAYS" (`src/asset_cache.py:181-182`) holds of the moment
   of the listing only: a project that another worker touches between the
   listing and its `rmtree` is evicted nevertheless, with the files the job
   harvested and under the container that mounts it. It takes a project that was
   unused for the whole limit and comes back at that moment; the job still ends
   well, since the cache is only a cache.
6. `generated_only`. A generate job's artifact, `files` and `cached_files` are
   "exactly what it produced (that is its API contract)"
   (`src/asset_cache.py:20-22`, likewise `README.md:373`, "only what it made" in
   `src/build.py:336-337`). They are all of its `.cache`, the files that its
   archive shipped there included. What does hold, that nothing of the project's
   cache is among them, is `FilesAreOwn`.

Seen while modelling, and not checked by a run of their own:

* "`artifact_url` is present only on success" (`README.md:282-283`), but the code
  gives it for any output, on purpose (`src/notify.py:94-96`).
* Two runs of `make update-warm-image` at once share the candidate's tag: one
  may promote an image that only the other one built, and nobody tested. The
  workflow's runs are serialised; `PromotesTested` is of a run that is alone.
* An update without changes rebuilds the image that is live, and `Keep` then
  makes it `:warm-previous` too: the image to roll back to is lost.
* "`keep_project_id` (the job that just ran) is never evicted"
  (`src/asset_cache.py:183-184`) holds as long as the record names the project
  when it is read again (`src/build.py:180`). If it expired or was revived
  without its fields (finding 4), the job's own project is evicted like any
  other. `PruningFits` and `SpaceEvictsOldest` are of the project to keep, if any.
* A container that `containers.run` started before it raised is left running:
  `container` is None then, and `remove` is not tried (`src/build.py:315`).
* An `rmtree` that fails counts as freed in `prune`: the cap may be exceeded
  until the next pruning (`PruningFits` is of prunings without failures).

## 6. Proofs

All theorems are checked by TLAPS with the SMT, Zenon and PTL backends.

**JobLifecycleBaseProofs**, for every `Job`, `Worker`, `Handler`, `Timeout`,
`PollInterval` and `Faults`, and whatever RQ's `cancel()` does. `BInv` is the type
invariant and, per job, `StageInv` (nobody runs a job that RQ has not handed
out, and one that was not launched has no container), `SendInv` (a payload was
read by a run that came to send it, and a verdict is the last of it) and
`WaitInv` (`elapsed` against the timeout and the moment of the flag). One lemma
per action (`RecordBase` ... `CrashBase`) shows that it is inductive. What
follows:

* `TypeCorrect`, `WaitCorrect`, `CancelNoticedCorrect`.
* `EarlyCancelCorrect`, which needs a second invariant, one that holds from the
  moment a cancel is flagged before the pre-run check: `EarlyInv`, that the run is
  then at one of the steps that lead past the launch.
* `AdvanceCorrect`: `StepsLeft`, which counts the steps ahead of `pc` and two for
  each poll that `elapsed` leaves, falls with every step of the run and never
  rises. It is the variant of the termination argument, as a step property: with
  it, that a run ends is only a matter of its steps being taken (section 4). By
  `WaitCorrect` it never falls below zero.
* `CallbackIsDelivery`: every step maps, for every job, to a step of `Delivery` or
  a stutter. `SendInv` is what it needs.

**JobLifecycleProofs** goes on from there. The properties are not inductive
alone: that a terminal record has no running container, or that a payload stays
true, depends on where the run is. `JobInv(j)` is

* `QueueInv`: what RQ's place of the job says of the record, and that only a job
  whose cancel was asked for is promised to be cancelled;
* `RunInv`: the status the record can have at each step of the run;
* `ContainerInv`: at which steps the container may exist or run;
* `ArtifactInv`: which zip there may be at each step, and what a success implies;
* `CallbackInv`: a payload is what record and dir still say;

each with `Says` in the place of an equality, and `IInv` is `BInv`, `JobInv(j)`
for every job, `HandlerInv` (what a handler at "dequeue" or "write" knows) and
`WorkerInv` (a worker's job is its own). A handler that writes "cancelled" over a
run makes the job `Overruled` in that very step, and `Says` then holds whatever
the run had said, so that all but the status is kept. `Frame` says that a job no step
touched keeps its part; then one lemma per action (`RecordStep` ...
`CrashStep`) shows the rest. From `Invariant` follow
`ContainerStopsFirstCorrect`, `ServedArtifactCorrect`, `CallbackCorrect`, and as
step properties `OutcomeStandsCorrect` (what each step does to what a client is
shown) and `ContractCorrect` (each step of the system is a step of
`JobContract`, `Overrule` among them, or a stutter). None assumes anything of RQ.

**CallbackProofs**, for every number of retries (the code's `max(1, n)`
included): `TypeCorrect`, `VerdictCorrect` ("delivered" means that the host has
acted on the last attempt, but for finding 3), and `DeliveryCorrect`, the
refinement that is the other half of `CallbackIsDelivery`.

**RetentionProofs**, for every `Job`, `TTL` and bound on the clock, and without
an assumption on the jobs. A job is `Prompt` if it is over within TTL of its
unpacking, and no cancel handler is under way when the record it loaded expires;
which jobs are is a constant, the others may take any time. The handlers' four
steps are in the model; the bound on their number is a constant too. For each prompt job
`JobInv` says that what may still be written to is younger than its record's
expiry (`AgeInv`), so every update keeps kind and TTL (`UpdateKeeps`,
`RecordInv`), a dir still needed is too young to be pruned by anybody, and an
output.zip is newer than its record's EXPIRE (`DirInv`). Nothing of it is about
another job, so late ones and their workers' prunings can do it no harm. Of the
submissions that came to nothing only those cut between HSET and EXPIRE leave a
record without a TTL. `TypeCorrect` is of all jobs. `KindCorrect` is the
counterpart of finding 4: of a job that is not prompt it fails.

**AssetCacheProofs**, for every set of workers, projects and keys and every
limit. `PartialIsABuilds` is nearly inductive; what it needs is what each
worker knows. `IInv` adds, per worker,

* `PlaceInv`: mounts and open files belong to running containers, and only a
  build has mounts: a generate job cannot be the writer of a partial file;
* `WorkInv`: a generate job's own `.cache` is what it was shipped or made, and a
  partial file in it is being written or belongs to a run that is not harvested;
* `CachedInv`: a calm generate job finds in the cache what it has harvested.

`Frame` says that what `w` alone decides stays when another worker steps, but
for what an `Rmtree` or an `os.replace` does to it; the steps that change no
file of the cache (`Quiet`) are one lemma, and `ReplaceKeeps`, `WriteBeginsKeeps`,
`WriteEndsKeeps`, `EndKeeps`, `EvictKeeps` and `TickKeeps` are the others. From
`Invariance` follow `TypeCorrect`, `PartialCorrect`, `FilesCorrect` and
`CachedCorrect`.

**AssetCachePruneProofs** goes on from there. `PruneInv`, per worker, says that
while nobody disturbs a pruning, its list is the projects there are but the
one to keep, with their ages, and its sizes, once measured, are those of all
projects: so its total is the space the cache occupies, as a sum of the same
function, and no induction over sums is needed. An eviction keeps that up
because a project without a dir has no files and no temporary ones, which is part
of `TypeOK`. `PruningFitsCorrect` and `SpaceEvictionCorrect` follow.

**WarmImageProofs**, for every number of images, runs and checks: `TypeCorrect`
(a tag that exists names an image that does), `PromotionCorrect`,
`PromotesTestedCorrect` and `WarmStaysCorrect`. `PromotionIsSafe` says nothing of
the candidate, so `IInv` adds `SoloInv`, that nobody else runs, and `CheckedInv`,
that the checks a lone run counts are those its candidate passed.

## 7. Only model-checked

The liveness properties, which rest on fairness and so on `ENABLED` (out of
reach of TLAPS); of `JobsSettle`, `RunsAreReported` and `ContainersStop` the part
that needs no fairness is `AdvanceCorrect`. And the six violations. Every safety
property that a run finds to hold is a theorem of section 6.

## 8. Not modelled

* Token comparison, slugs, `is_allowed_callback_url`, DNS, HMAC, archive
  extraction: decisions on strings and addresses without interleaving. The
  decisions, not the strings, are in the plan (`Intake`).
* What the container runs, the Docker limits, the egress proxy, Caddy, compose,
  provisioning: configuration and third-party programs. `Serves` is the
  assignment of queues to worker services in `compose.yaml`.
* RQ reaping a run at its own timeout, except as a worker's crash: `WaitIsBounded`
  is the wait's share of that time, and the launch, the logs, the zip, the
  callback and the prunings are not timed. Scheduling and registries are RQ's.
* The filters of `_zip_dir` and `harvest` (symlinks, dotfiles, file names), file
  sizes and the type dirs below a project: an `rmtree` that fails in the middle
  leaves some of the files, not some of the dirs. Temporary files that a dead
  worker left are not counted.
* What a build writes to its own `.cache` without a mount, or to that of an
  evicted project: nobody reads it.
* What goes into the image (`build-image/`) and how its smoke tests work: a
  check passes or fails.
* Containers that keep an image in use: `docker image prune` may spare any.
* In `Retention`, looking at a dir and deleting it is one step, and the run's
  early ends (misconfiguration, pre-run cancel) are the run without output.

## 9. Plan

Done: `JobContract`, `JobLifecycle`, `Delivery`, `Callback`, `Retention`,
`AssetCache`, `WarmImage`, each with its runs and, but for the contracts, its
proofs. What could follow, in this order:

1. Proofs: what a client may conclude from `JobContract` alone, as theorems of
   that module; what overlapping runs of `WarmImage` leave of `PromotesTested`.
2. `FileTree`: `_zip_dir` and `harvest` as operators on small trees, against a
   reference definition, over all trees up to a bound.
3. `Intake`: the decisions of a submission in their order.

## 10. Running

    tlc -workers 2 -config JobLifecycle.cfg JobLifecycleMC.tla   # likewise the other .cfg files
    tlapm JobLifecycleProofs.tla                                 # likewise the other *Proofs.tla; about two minutes each
