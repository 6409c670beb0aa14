# vismod: TLA+ models, model-checking runs and proofs

vismod moderates images and videos.  `vismod serve` takes jobs over HTTP (or
from a queue other replicas feed), analyses each job's media with a vendor's
moderation API, turns the scores into a verdict, delivers a result envelope to
files and webhooks, writes the verdict into a hash-chained audit log and
answers status requests.  This directory models the parts in which the order
of things decides whether a job, a verdict or a record is lost.

## 1. The system

| part | source | state it keeps | operations | what makes it correct |
|---|---|---|---|---|
| Redis queue | `queue/redisq.go` | lists `pending`, `processing:<id>`, `dead`; ZSETs `retry`, `instances` | Enqueue, Start, workers, retry mover, keeper, reaper, Close | no accepted job leaves Redis unsettled; a dead replica's work comes back; a live one's is left alone |
| in-memory queue | `queue/memq.go`, `memdlq.go` | a channel, a depth counter, states for the dashboard, retry goroutines | Enqueue, workers, retries, Close with a drain budget | one fate per job; the depth (the autoscaling signal) is exact |
| job handler | `cli/serve.go`, `pipeline/pipeline.go` | none of its own | ProcessJob: analyse, sinks, audit, disposition | sinks, then audit, then ack |
| delivery | `result/*.go`, `moderate/httpx.go` | per sink the claimed job ids | Write, Claim, Release, DoJSON | an acked job is delivered; no double write in one process life |
| audit log | `audit/audit.go` | log file, head anchor; seq, prev, seen in memory | Open, Record, AppendEvent, Verify | one verdict per job; verification neither misses a loss nor invents one |
| verdict | `pipeline/rollup.go`, `config/config.go`, `pkg/moderation/types.go` | thresholds, running maximum and flags | Merge, ResolveFor, ApplyThresholds, Rollup | block > error > flag > allow over the whole asset |
| result API | `cli/resultapi.go` | LRU of job states with a TTL | record, get, batch | a job's state never moves backwards |
| intake, backpressure | `observe/observe.go`, `cli/serve.go` | recent outcomes, tripped flag, the operator's switch | POST /jobs, Record, Ready | trips on sustained failure, restores, does not flap |
| analysis pipeline | `pipeline/pipeline.go`, `frames/dedup.go` | per job: frames, results, evidence | resolveSource, processImage, processVideo | a frame that failed is never taken for one that passed; evidence names its frame; nothing stays on disk |
| URL fetch | `fetch/*.go` | one file per job | Fetch: check, dial, copy, retry, clean up | only whole files from permitted addresses are analysed |
| frame extraction | `frames/*.go` | the job's working directory | Frames, runWorkflow, ValidateWorkflow, RenderWorkflow | frames are what the workflows wrote; a workflow stays within its job |
| configuration, boot | `config/*.go`, `cli/serve.go`, `boot.go`, `sinks.go`, `wire.go` | what boot has opened | Load, Validate, newServer, run, close | a server that starts is soundly configured; one that does not gives everything back |
| adapters, UI | `moderate/*.go`, `ui/*.go` | none across jobs (a rate limiter excepted) | HTTP calls, pages | I/O and tables |

How they interact: the intake calls `Enqueue` after asking `Backpressure.Ready`;
a queue worker calls the handler; the handler records "processing", runs
`ProcessJob` (which calls the sinks in turn, then the audit log), records the
terminal state, feeds `Backpressure.Record` and returns a disposition; the
queue then acks, schedules a retry or writes a dead letter.  Replicas share
nothing but Redis.

What is hard to test: several replicas and goroutines between any two Redis
commands; a process that dies between two effects; a command that was applied
and whose answer was lost; a replica that is only slow and is taken for dead;
`Close` racing with `Enqueue` and retry timers; a gate whose input depends on
its own output; a boot that fails half-way and a shutdown that runs out of time
under running handlers; a download, a subprocess or a panic at the wrong moment
of an analysis.  `PROJECT.json` lists these hazards at their lines.

## 2. The modules

Each component has a module without TLC-only content, and an `MC` module with
the values a `.cfg` cannot write.  What the constants have to satisfy is a named
`ASSUME` of the module that declares them.  `PROJECT.json` maps every definition to its lines.

### JobQueue (queue.go), the contract of both drivers

What the `Queue` interface promises about a job and nothing of how it is kept:
`fate` (outside, owed, settled, reported), `tries` (attempts charged to it),
`hands` (who has it now), `closing`.  `Redelivers` tells the two drivers apart:
a durable queue never gives up an owed job but may run it more than once; the
other one runs it once per attempt, in one worker at a time, and a `Close` may
give it up as long as it says so.  An outcome is final for both, and at most
`MaxRetries` retries are charged.  Memq and Redisq instantiate it
(`Contract == INSTANCE JobQueue WITH ...`) and their runs check
`ImplementsQueue == Contract!Spec`: `fate` is read off the payloads and the
acknowledgements, `hands` off the workers, `tries` off the highest count on a
payload.

### Redisq (redisq.go)

One action per Redis command, because a replica can be overtaken or die
between any two of them.  `pending`, `processing[i]` are the lists (first
element = left end), `retry` the ZSET without its scores, `beat` the instances
ZSET as the age of a heartbeat (`none`, `fresh`, `stale`), `dead`/`depth` the
dead-letter list.  `life[i]` is a replica's position in `Start` (`scan`,
`mark`, `orphans`, `first`, `boot`), then `up`, `drain`, `down`; `pc`/`held`
are the workers, `due`/`pushed` the retry mover, `sweep`/`target`/`drained`
the reaper.  Every command has an outcome: answered, refused, or applied with
the answer lost (`MaxFaults` bounds the last two).  `Expire` is the passing of
`instanceReclaimAfter`: always possible for a dead replica, for a draining one
if `DrainOutlivesReclaim`, and `MaxStalls` times for a running one.  A restart
is another member of `Instances`, since ids are random.  An `Enqueue` refused
because the dead-letter list is full changes nothing and is no step.

### Memq (memq.go, memdlq.go)

One action per access to shared state: the channel, the atomic counter, the
states map (one critical section of `setState`).  `caller` is the progress of
an `Enqueue`, `timers` the retry goroutines, `closer` the progress of `Close`.
`Cancel` is the cancelled context, which `Close` follows.  `Close` may wait for
the workers or give up at any time (the drain budget, or the caller's context);
`late` is the history of the jobs that a goroutine had in its hands at that
moment.  `buffer` is the configured capacity, fixed by `Init`; `Retrying` bounds
which jobs' handlers ask for a retry.

### AuditLog (audit.go)

`WriteLine` and `WriteHead` are the two file operations of `appendLocked`;
either may fail, and `Crash` may come at rest, between them or inside the write
of the line (`PartWritten`), which has no fsync behind it.  `tail` is how the
file ends: `whole`, `unended` (a record without its newline, which a reader
accepts) or `torn` (half a record, which no reader accepts).  What is appended
starts where the file ends, so it is lost in a tail that is not whole.  `Close`
is the orderly end, which waits for an append.  `VerifyRead` and `VerifyAnchor`
are the two reads of `VerifyWith`, in a process of its own.  A hash is the
tuple of what it covers, so it is taken to be injective.

### Delivery (serve.go, ProcessJob, result/, httpx.go, resultapi.go)

The handler from the envelope on: each sink in turn (route, claim, send,
release on failure), audit record, disposition, terminal state, and what the
queue makes of it.  The analysis is a choice of verdict, possibly another one
in the next run.  The queue is what `queue.Queue` promises.  `Reclaim` hands a
job out again while its handler runs, which Redisq does to a stalled replica.
`output.allow_unrouted` is excluded (`DeliveryAssumption`), as buildSinks
excludes it by default.

### Rollup (rollup.go, config.go)

The merged threshold map, its resolution field by field, and the loop of
`Rollup` as one step per frame and per category result.

### Fetch, Extraction, Pipeline (fetch/, frames/, pipeline.go)

`ProcessJob` for one job, in three modules that share the job's variables.
**Fetch** is one `Fetcher.Fetch`: the URL's checks, then per attempt the
address policy on the address it resolved to this time, status, content type
and size, a body that may break off, the removal of a partial file, the retry
rules and the cleanup with its `sync.Once`.  **Extraction** runs the selected
workflows one after another into their directories, collects the files into
frames with their timestamps, and is where near-duplicates are dropped; a
picture is a number, so that a chain 0, 1, 2 of near-duplicates exists.
**Pipeline** resolves the source, runs the other two, hands frames to a pool
of `concurrency` tasks which finish, fail, time out or panic in any order,
puts results and evidence together, rolls up, emits and cleans up.  A class
per picture stands for what thresholds make of its scores (Rollup does that
part in full).  ffmpeg and the moderator are external.

### Workflow, Config, Boot, Server (workflow.go, config.go, cli/)

**Workflow** has the guardrails as operators: the shape of a template, the
checks on its text, its rendering, the checks on what it renders to, and
four statements about a command line alone: `Guarded` is what every accepted one
satisfies, `InputOnce`, `OutputOnly` and `LocalOnly` are the rules as the comment
and the document put them, which hold only in part (section 3).
**Config** is `Load` and `Validate`, the two rules for operator URLs, sink
predicates and the options of shieldgemma.  **Boot** takes a written
configuration through the steps of `newServer`, each of which may fail, with
`open` for what has to be given back.  **Server** goes on from there: `Post`,
`Enqueue` and `Accepted202` are the three moments of POST /jobs, `Claim`,
`Deliver`, `Finish` the handler, `Redeliver` what a queue may do, the result
store is an LRU list with expiry, `Get` touches it, and `Cancel`,
`IntakeShutdown`, `QueueClose`, `DrainTimeout`, `Close` are the shutdown.
`answer` is the history of answers a reader is entitled to.

### Backpressure (observe.go, serve.go)

The gate and the loop around it: `Ask` (the gate is read), `Submit` (the job
enters the queue, later), `Take`, `Finish` with a disposition that is
recorded, retries, panics (not recorded), the operator's switch, an outage of
the provider.  `Shared` says whether other replicas share the queue.  They run the
same intake in front of the same provider, so their submissions are gated too:
`othersReady` is whether a gate is open among them.  `HandledElsewhere` is
their taking a job, which may close that gate by a failure and open it by a
success, and nothing else does.
Outcomes carry their age; `Tick` makes them older.

## 3. The runs

All passing runs explore their whole state space (redisq_faults up to its
constraint `OneTrouble`).

| run | instance | question | distinct states |
|---|---|---|---|
| redisq_faults | 2 interchangeable replicas, 1 job, 1 retry, 1 departure, 1 fault or 1 stall (of a running or a draining replica) | does any single fault, crash or takeover lose a job (`NothingLost`), or remove a payload before what replaces it exists (`HandoverSafe`)?  Is each step one of the durable queue (`ImplementsQueue`)? | 240 k |
| redisq_fleet | 2 replicas, 1 new job with 1 retry, 1 undecodable left-over of an older version, 1 departure, no stall | as long as heartbeats are in time: is every claim reachable by the reaper (`ClaimsReapable`), does nobody take a live replica's claim (`LiveClaimsKept`), does no job run twice at once (`NoOverlap`), is every accepted job settled in the end (`EventuallySettled`)? | 246 k, fairness |
| memq | 2 workers, 2 jobs of which one may be retried once, channel of 1 or 2, Close at any time and out of budget | exact depth and in-flight jobs shown (`ReportsExact`), Close reports what it leaves (`NothingLeftBehind`), `FirstClaimsInOrder`, every job ends (`EventuallySettled`), `ImplementsQueue` | 329 k, fairness |
| audit_log | 2 jobs, 3 appends, 2 crashes (inside a write as well), 1 failed write, 1 lost tail | `OneVerdictPerJob`, `LaggingIsNoLoss`, `PassMeansIntact` | 910 k |
| delivery_crash | 1 worker, 2 jobs (one an empty video), routed file and webhook, 3 faults, 1 restart | `SettledIsDelivered`, `EventuallyAnswered` | 455 k, fairness |
| delivery_overlap | 2 workers, 1 job reclaimed once from a running handler | `OncePerLife` | 159 k |
| rollup_verdict | up to 2 frames or 2 results, 3 scores, 3 categories, all small threshold files in all modes | `VerdictSound`, `TopIsMax` | 1670 k |
| backpressure | N = 3, M = 2, 4 samples, window of 2 ticks, 1 outage, 1 stray failure, a queue shared with replicas that are gated too | `GateFollowsOutcomes`, `NoFlapping`, `ReopensUnlessStuck` | 416 k, fairness |
| pipeline | 92 jobs (videos by 4 selections and 4 thresholds, stills and videos behind 5 URLs) in 4 configurations | `WholeOrGone`, `AllowMeansCovered`, `EvidenceAligned`, `NothingLeftOnDisk`, `EventuallyReturned` | 36 k, fairness |
| server | configurations one or two fields from a good one; 3 submissions, 1 worker, a store of 2, 1 redelivery | `BootedIsSound`, `BootReleases`, `AnswerStays`, `DoneIsOnRecord`, `EventuallyStopped` | 361 k, fairness |
| audit_anchor | anchor writes may fail | **violated**: `FailureMeansLoss` | |
| backpressure_alone | no other replica feeds the queue | **violated**: `GateReopens` | |

Bounds.  Two replicas are enough for every pair "holder and reaper", "two
reapers" is reached by one that starts while the other sweeps; one fault is
enough for a fault at each command, since after it the code is in a state the
fault-free steps continue from.  One retry separates "has a retry left" from
"has none".  Two jobs and a channel of 1 make an Enqueue and a retry meet a full
channel; a channel of 2 has an order to keep.  In `redisq_faults` a behaviour
has one trouble, a missed heartbeat or a fault (`OneTrouble`); both in one
behaviour make 1249 k states, were explored once with the same result, and take
longer than a run should.  Three appends are an intact record, one that meets
the fault, and one built on it.  Two frames and two results give each order of
a good, a nil and a failed one.  Two download attempts are one that fails and
one built on what it left.  Three submissions against a store of two evict one;
`server` has one request in progress and one running handler at a time, which
interleave with each other, with reads, with a redelivery and with every step
of the shutdown, but not two handlers with each other (`delivery_overlap` has
that).  Configurations differ in one field from a good one, in two where two
fields are checked together.  The theorems of section 4
remove all of these bounds for the safety properties, the action properties and
the refinements; the bounds matter for liveness, and for showing that a property
can fail.  `MaxPending` only limits how many copies of a payload two retry
movers may push; the theorems hold for every value of it.

Fairness.  Weak fairness of what goroutines do by themselves: worker steps (a
handler returns because of `job_timeout`), tickers of the mover and the
keeper, retry timers, `Start`, `Close`, time.  Never of faults, crashes,
enqueues or operator actions.  In `server` only the shutting-down goroutine and
its timer are fair: no request and no handler is assumed to end.  In `pipeline`
the job's own steps are, since every call it waits for ends with the job's
context at the latest.  `backpressure` also assumes that clients try again wherever an intake is open,
here or at another replica.  That the other replicas take jobs is not assumed:
they may, and `ReopensUnlessStuck` names the two ways to a gate that stays
closed, the whole fleet at rest behind closed gates (`Standstill`) and others
taking every job (`Outrun`).
Deadlock is not checked where the system may come to rest (all jobs done);
Backpressure checks it.

### The two violated statements

*audit_anchor.*  If writing the anchor fails after the line is in the file,
`appendLocked` returns without advancing `seq` and `prev`; the next append
writes a second line with the same seq.  `audit verify` then reports a broken
chain and `Open` refuses the file, although nothing was lost; docs/audit-log.md
says a failed verification means "Records were lost or altered".

*backpressure_alone.*  A tripped gate is reset by outcomes only.  If it trips
on the last job in the queue, POST /jobs is refused, nothing can finish, and
the gate stays closed after the provider has recovered, until a restart.  The
503 tells clients to retry.  A fleet that shares Redis helps only as long as
one of its gates is open: the outage is everybody's, each replica has the same
gate, and when all are closed and the queue is empty the fleet stands still in
the same way.  `ReopensUnlessStuck` says that nothing else keeps a gate closed.

### Statements of comments and documents the code does not keep

These are stated in the modules under a heading of their own.  TLC refutes each
under the constants given; no run of the project repeats that.

| statement | where it is made | how it fails |
|---|---|---|
| Redisq `ReclaimKeepsOrder` | redisq.go:225 | claims enter on the left, the drain moves right to right: two reclaimed payloads come back reversed (1 replica dead with 2 workers busy) |
| Redisq `CrashedStayReapable` | redisq.go:322 | `MaxStalls = 1`: stalled, reaped and deregistered, it claims again and dies before its next beat |
| Redisq `HoldersKeepBeating` | redisq.go:73 | `DrainOutlivesReclaim`: the keeper stops with Close, a handler may run longer than 60 s |
| Redisq `NextStartRecovers` | redisq.go:522 | orphan recovery looks under a fresh random id; the reaper does it, 60 s later |
| Memq `NothingLeftBehind` without `late` | memq.go:248 | a caller, a timer or a worker has a job in its hands when Close gives up waiting, and sends it into the emptied channel |
| Memq `FinishedAgeOut` | memq.go:49 | the late "queued" of Enqueue or of a retry overwrites a final state, which then never ages out |
| AuditLog `FailureMeansLoss` without its `undisturbed` | docs/audit-log.md:68 | verification reads the log, the service appends, the anchor is ahead |
| AuditLog `CrashesAreNoLoss` | docs/audit-log.md:68 | a crash inside the unsynced write of a line leaves half of it: verification fails and `Open` refuses the file, although no record that `Record` had returned is lost |
| AuditLog `RecordedIsRead` | audit.go:185-186 | the write ends before the newline; the file reads well, so the service starts, and its next append, which returns no error, runs into the same line and makes both unreadable |
| AuditLog `DecisionRecorded` | docs/audit-log.md:8 | an event marks the job as seen; its later verdict is not written |
| Delivery `ShownIsDelivered` | docs/rest-api.md:210 | one sink wrote, the next failed; the retry's envelope is shown, the first sink keeps the first |
| Delivery `OncePerLife` with `LostReplies` | docs/result-envelope.md:274 | DoJSON sends again after a lost answer |
| Delivery `SettledIsDelivered` with `Overlap` | webhook.go:129 | the second run takes the first one's claim for a delivery and acks; then the first send fails |
| Boot `NothingLeaks` | serve.go:80-81 | the Redis client is not closed when its first ping fails |
| Boot `WorkflowRulesKept`, its `InputOnce` | workflow.go:25-26, docs/custom-ffmpeg-workflows.md:124-126 | `{{ .Input }}` with spaces is not what the check on the text looks for, and the job's file is an absolute path that the check on the rendered arguments admits anywhere: it may be a further output |
| Boot `WorkflowRulesKept`, its `OutputOnly` | docs/custom-ffmpeg-workflows.md:131-134 | the same for `{{ .WorkDir }}`, and any text may follow it: `workflow.go:160` compares a prefix, so the path may lie beside the directory |
| Boot `WorkflowRulesKept`, its `LocalOnly` | docs/custom-ffmpeg-workflows.md:127-130, workflow.go:28-31 | protocols and absolute paths are looked for at the start of an argument only, not in the value of an option (`movie=...`) |
| Boot `ArmedStaysArmed` | config.go:693 | the check lowers the unarmed names only, the merge trims them too: `" violence_gore "` passes the first and unarms the label in the second |
| Pipeline `FramesAreUnion` | ffmpeg.go:58-59 | `Selections <- Colliding`: two selected names that sanitize to one directory, or one name twice, overwrite each other's files |
| Rollup `UnarmedNeverFires` | config.go:142 | in hybrid mode an unarmed label inherits the boundaries of its category |

Of the guardrails, what does hold of every workflow a booted server runs is
`Guarded`: one `-i` with the job's file, an output below the working directory,
nothing that starts with a protocol, no `://` or `..`, no absolute path of its own.
Those whose placeholders are written without spaces keep `InputOnce` and
`OutputOnly` as well.  `BootedIsSound` checks this and `AcceptedIsSound` proves it;
the second check, on the rendered arguments, is needed for it, as the mutant of
`checkRenderedArgs` shows.

Differences met while translating, which no definition states.  The
"same rule set" of config.go:769-772 differs from the endpoint's on a port
without a host and on an address with a zone.  An override of
`provider_thresholds` whose labels have no boundary boots.  A
`dedup_threshold` above 64 is accepted while dedup is off.  A job whose
retries are exhausted stays "processing" (docs/rest-api.md:287-290 says so).
When the drain expires a handler may find the audit log closed under it, and a
sound job is dead-lettered; `DoneIsOnRecord` is what still holds.

## 4. The proofs

TLAPS checks the eight `*Proofs` modules.  Every safety property the passing
runs check is a theorem of its module for every value of the constants, and so are
the two refinements of JobQueue and the two action properties; the runs show the
same formulas on small instances, and that they can fail.  Nothing is assumed
but the named assumptions of the modules, which say what the code's
configuration checks or the types of its data give, and which TLC evaluates in
the runs.  A hypothesis that a theorem needs beyond these is part of its
statement and is explained below; the run that checks the property meets it.

**RedisqProofs.**  `TypeCorrect` is `[](TypeOK /\ HeldOK)`: `HeldOK`, a
worker holds one payload at most and schedules a retry only for one that has a
retry left, is needed because `Retried(x)` is a payload only then.

- `JobsNeverLost`, `HandoversSafe`.  `NothingLost` is not inductive: it does
  not say why an LREM or a ZREM is harmless.  `HandoverSafe` does: a worker
  that comes to LREM a payload has settled the job or there is a payload of it
  with more attempts; a mover that comes to ZREM a member has a queued copy of
  it, or again a later payload.  A later payload is the measure: other
  replicas may claim, retry, reclaim and move the same payload meanwhile, but
  each of these leaves a copy or a payload with more attempts.  `StepKeeps`
  says this of every action, `SafeStep` draws the conclusion.
- `RedisqIsAQueue`, step by step: `StepImplements` maps each Redis command to a
  step of JobQueue or to a stutter.  The attempts of the contract are the highest
  count on a payload, so the refinement needs `CoveredInv`: what a replica
  works on is settled, still stored, or overtaken by a payload with more
  attempts; without it a late run could settle a job the contract no longer owes.
- `FirstClaimsOrdered`.  `OrderInv`: every job that arrived and was not yet
  claimed is in `pending` (`InLine`), once, and nearer to the claiming end than
  what arrived later (`InTurn`); whatever is anywhere else was claimed before
  (`Elsewhere`), so that retried and reclaimed payloads, which enter at either
  end, are never first claims; what is in Redis has arrived (`Accounted`).  The
  run's instances have too few fresh jobs to say anything about it, so on Redis
  it is proved only.
- `ClaimsStayReapable`, `LiveClaimsStay`, under `Steady` (no live keeper misses
  the reclaim time, and a drain ends within it; `CrashedStayReapable` and
  `HoldersKeepBeating` fail otherwise).  `KeeperInv`: whoever is stale, swept or
  drained is gone for good, and whoever lives is registered, from before its
  first claim on.  `HoldersBeat` follows from it: under `Steady` the sentence
  of redisq.go:73 is kept.
- `FirstRunsAlone`, under `Steady` and `LeftOnce` (an older version left a
  payload once).  `NoOverlap` is about two workers; `FirstRunInv` has to follow
  a payload without attempts from the `Enqueue` that put it through the lists:
  it is in one place, once, and a worker that holds it took it from there.

**MemqProofs.**  `MemqIsAQueue` and `DepthAndDashboardExact` rest on
`PlaceInv`: a job is in the channel, in one worker's hands or with one retry
goroutine, never in two of them, and only between its acceptance and its
outcome.  The steps that move a payload are one operator (`Moves`) with a lemma
per kind of move.  The counter is off by the operations under way
(`CountInv`), the dashboard is late by them (`ShownInv`), so both are exact at
rest.  `CloseLeavesNothing` needs `LateInv` for the time between the end of Close
and the last worker's exit.  `FirstClaimsOrdered` has the shape of its sister for
Redis, on a channel that Close drains from the front.

**AuditLogProofs.**  `OneVerdict`: what the file holds has been seen, except the
line whose anchor is being written (`SeenInv`), and Open rebuilds exactly this.
`LaggingRaisesNoAlarm`: as long as no write failed and nothing was lost or torn,
both files verify and the memory stands at the end of the file, or one line before
it (`IntactInv`).  A crash inside the write of a line is in the model and outside
the theorem: a torn line does make verification fail (`CrashesAreNoLoss` above).  `PassProvesIntact` compares two files read at two moments with
records that may be gone since: `Covers(n, h, A)` says that any chain which ends
in hash h at line n holds every record of A, whatever file it is in, and
`AnchorInv` that the anchor and the memory of a running process cover what was
ever anchored.  It rests on a hash being injective.

**DeliveryProofs.**  `AckIsDelivered`: a claim of a sink is backed by a delivery
or by the worker about to make it, and a sink behind a worker has the job unless
the worker knows of a failure (`DeliveredInv`).  It is stated without `Overlap`,
as `OneRun` is needed: with a second run the claim may be somebody else's.
`SentOncePerLife` allows overlap, but no lost answer (`DoJSON` sends again) and no
expired claim (a run after `dedupeRetention` sends again).

**RollupProofs.**  `LoopInv` says what each variable means half-way (`block` iff
a result already visited reaches its block boundary, and so on), `VerdictInv` ties
the verdict to them, `TopInv` says that topCat is the first of those with the
highest score so far.  Frames and results may be of any number.
`UnarmedStaysQuiet`: in every mode but hybrid, `UnarmedNeverFires` is kept.

**BackpressureProofs.**  `CountersInv` ties the two counters to the history of
outcomes and to the gate; `FlipInv` says that whatever can flip the gate has been
gathered since its last flip, the window included, which is why a restore has
to forget the window.

**PipelineProofs.**  `AllowCoversTheVideo` follows each picture from stage to stage
(`CoverInv`): a file, a frame, near a frame that was kept, near one that was
answered, in the result that went out.  It needs what Dedup computes for any
list of frames: what is kept covers what was given, within the threshold
(`DedupCovers`), and its files are still there.  `DistinctDirs` excludes the
collision of `FramesAreUnion`, which then holds (`FramesAreTheUnion`).  `EvidenceStaysAligned` holds for every order in
which tasks end and for any stable sort of what they leave.  `DownloadsWhole` and
`DiskLeftClean` are about every path: `FetchInv` says when the removing closure
has fired, `DiskInv` when the working directory exists.

**ServerProofs.**  `AcceptedIsSound`: `CheckedInv` carries what each checkpoint of
the boot established to the later ones, and `ValidatedIsGuarded` proves for
any template that what `ValidateWorkflow` passes renders to a `Guarded` command
line, and to one that is `InputOnce` and `OutputOnly` if it is `Unspaced`.
`FailedBootReleases` knows at each step what may be open.  `DoneOnRecord`
follows a job past its sinks and the audit log, also while `close` shuts
them.  `AnswersStay` is about the LRU list: `OwedInv` says that an answer a
reader is entitled to is held, live, and has only jobs touched since in front of
it, fewer than `max_entries`.

Where a definition computes over data of any size (Dedup's passes, the
highest attempt, the first outcome in the window), the proof takes the least
position at which the claim would fail instead of an induction.  Some
definitions were put into a form that can be reasoned about, with the same
meaning: a window is cut at its first outcome rather than filtered, as `prune`
does; a job is taken out of the LRU list by position, as `drop` does; the
frames are sorted by choosing the stable order; Dedup's loop is a recursive
function.  Two overlapping CASEs, in Memq's `Fate` and in Workflow's
`Rendered`, turned out to rest on the order TLC evaluates them in, and are
disjoint now.  And the contract was too narrow: JobQueue began without
attempts, while a durable queue may find jobs of an older version that have
some.

With TLC only: liveness, that is `EventuallySettled` of both drivers,
`EventuallyAnswered`, `ReopensUnlessStuck`, `EventuallyReturned` and
`EventuallyStopped` (fairness and ENABLED are beyond the prover), and the two
violated statements, whose counterexamples are the point.

## 5. What is not modelled

- Read-only operations: depths, statistics, dead-letter listing, pings, the
  metrics and depth gauges, the job tracker and the web UI on top of it.
- Vendor adapters' requests and answers, the rate limiter, envelope formats
  (`format.go`): tables and I/O without state of their own.
- `scan`, `healthcheck`, `version` and the listing commands: wiring that
  Server's and Pipeline's parts cover, and printing.
- The dHash of pixels (a distance between numbers instead), the scanner of
  ffmpeg's stderr, YAML and environment parsing.
- Failures of `RemoveAll`, which the code only logs, and temporary files left
  by a killed process: `NothingLeftOnDisk` is about processes that go on.
- Server leaves the empty-video override out (Pipeline and Delivery have it),
  and takes job ids as distinct, although `job-<nanoseconds>` depends on the
  clock for that.  Two movers on Redis may have the same retried payload queued
  twice; the contract of JobQueue allows the durable queue that.

## 6. Plan

1. Proofs: statements of section 3's table under the hypothesis that saves them
   (candidates: `ShownIsDelivered` while no sink fails, `DecisionRecorded`
   without events); the safety half of the liveness properties (nothing is at rest while a
   job is owed).
2. The rate limiter and `DoJSON` against a deadline; the exit codes of `scan`.
