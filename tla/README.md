# kaviri-cloud in TLA+

Kaviri Cloud films browser scripts as a service. A customer submits a script; the
job waits in a queue kept in PostgreSQL; a render box leases it, films it in a
container, uploads the video and reports; the customer downloads the video until
its retention ends. This directory holds TLA+ specifications of the parts of that
service that are concurrent or can fail, TLC configurations that check them on
small instances, and proofs, checked by TLAPS, of what matters most.

Contents: [parts](#the-parts-of-the-system), [modules](#modules-and-the-code),
[runs](#what-each-run-shows), [fairness](#fairness), [proofs](#proofs),
[disagreements](#where-the-code-disagrees-with-its-documents),
[limits](#what-is-not-modelled), [plan](#plan).

## The parts of the system

| Part | Where | State it keeps | Operations |
| --- | --- | --- | --- |
| Job queue | `supabase/migrations/0005`, `0008`, `0009`, `0011` | `render_jobs`: state, attempt, lease token and expiry, `visible_at`, `cancel_requested`, error | `lease_next_job`, `report_progress`, `complete_job`, `request_cancel`, the column grant on `cancel_requested`, the state trigger |
| Queue maintenance | `0009_maintenance.sql` | none of its own | `reap_expired_leases` each minute, `expire_due_artifacts` each hour |
| Artifacts | `0006`, `0009` | `artifacts`: one row per job and kind | upsert by `complete_job`, marking by the sweep |
| Usage | `0007`, `0008` | `usage_events` (append only), `usage_counters` per org and month | inserts and increments by `submit_job` and `complete_job` |
| Submission | `0010_submit.sql`, `workers/api/src/routes/jobs.ts` | `render_jobs`, `projects`, KV entries | `submit_job`, `submitJob` with caches and the idempotency fingerprint |
| Entitlements | `0003`, `0011` | plans and ceilings | the `least()` of plan and platform limits |
| Render worker: loop | `render-worker/src/main.rs` | semaphore, unhealthy flag, shutdown signal; directories under the work root | preflight, sweep, acquire, lease, spawn, drain |
| Render worker: take | `render-worker/src/job.rs`, `control.rs` | lease token, cancel channel, `lease_lost` | prepare, film, heartbeat, upload, report, clean |
| Render worker: supervisor | `render-worker/src/backend/docker.rs` | deadlines, the stop ladder, outcome flags | one biased select over exit, clock, cancel, disk, hard deadline |
| Object storage client | `render-worker/src/storage.rs` | the bucket | `put_file` |
| API worker | `workers/api/src` | KV caches, Durable Object token buckets | routes, authentication, rate limits |
| Download worker | `workers/dl/src` | none | signed links, ranges, retention classes |
| Tenancy | `0001`-`0004`, `0012` | orgs, members, keys, policies | row level security |

How they interact: the API worker and the boxes talk to the database by calling
its functions, each of which is one transaction; a box never writes a table. A box
holds its job by a lease (a random token and an expiry) which its heartbeat renews;
the database's cron takes back what was not renewed. The box writes the bucket
directly and tells the database afterwards. The supervisor and the heartbeat share
one watch channel; the takes and the main loop share a semaphore and a flag.

What is hard, and what makes each part correct:

* **Queue.** Any number of boxes, the reaper, the sweep and customers write the same
  rows in any order, and a box that stalled may come back with an old token. Correct
  means: a token has authority over one row only and only while the row is in flight;
  no attempt beyond `max_attempts`; seconds are billed once; a verdict of no-retry
  stays a verdict; counters agree with rows; every job comes to an end.
* **Polling.** `lease_next_job` counts in a snapshot and locks afterwards. Correct
  means: no job is handed out twice and the org's limit holds.
* **Take.** Calls are lost before or after they take effect, boxes die, two boxes film
  one job at once. Correct means: a done job has its video, the bucket agrees with the
  rows, and the loser of a lease does not undo the winner's work.
* **Supervisor.** Nothing it asks of a container needs to work. Correct means: it ends
  within a bound and leaves the recorder its grace.
* **Heartbeat.** A beat may take as long as its timeout, be served and not answered, or
  be lost, and is not retried. Correct means: the lease outlasts the lost beats it was
  made to outlast.
* **Main loop and box.** Permits move between the loop and tasks; the flag is raised at any
  moment; containers and directories outlive the process, and the egress rules do not
  outlive a reboot. Correct means: the loop drains before it ends, ends when told, and takes
  one more job at most once it has abandoned a container; nothing is filmed without the fence; no
  customer's directory stays behind, and none passes for another take's video.
* **Submission.** Two KV caches, a lookup and a transaction at READ COMMITTED, none of
  which sees what the others are doing. Correct means: a key names one job, a call is
  told of the job it asked for, a retry is recognised, a 409 has a cause among the callers, and the
  monthly limit holds as far as the code makes it hold.
* **Rate limits.** Buckets are written without waiting, asked twice, evicted, and replaced
  by smaller ones. Correct means: no more is granted than the rate allows, and
  `Retry-After` is true.
* **Retention.** A row, an object and a link expire by three clocks. Correct means: the
  object is there while the row promises it, no earlier link works once the row has expired, and a job says
  `expired` when, and only when, nothing is left of it.
* **Caches of keys and entitlements, routing, tenancy.** Stale for a documented time, or
  stateless; not modelled.

`PROJECT.json` lists every component with its status, and every hazard with its line.

## Modules and the code

| Module | Models | Composes |
| --- | --- | --- |
| `RenderQueue` | the queue, its trigger, maintenance, artifacts, ledger and counters | `JobLifecycle` as its abstract specification |
| `JobLifecycle` | what a customer is promised of one job | |
| `LeasePolls` | overlapping `lease_next_job` statements at READ COMMITTED | extends `RenderQueue` |
| `RenderFleet` | takes on several boxes, the bucket, lost calls | extends `RenderQueue` |
| `Supervisor` | the select loop over one container | |
| `Heartbeat` | the heartbeat of one take and its lease, in time | extends `Supervisor`, and implements it |
| `WorkerLoop` | the main loop of one worker process | |
| `RenderBox` | the box: takes, containers, directories, crashes, reboots, the fence | extends `WorkerLoop` |
| `Submission` | `submitJob` and its caches around `submit_job` | |
| `RateLimiter` | the token buckets of an org, in the object and in the isolates | |
| `Retention` | rows, objects and links that expire; overlapping sweeps | |
| `MCRenderQueue`, `MCLeasePolls`, `MCRenderFleet`, `MCSubmission`, `MCRateLimiter`, `MCRetention` | instances for TLC | |
| `RenderQueueProofs`, `LeasePollsProofs`, `RenderFleetProofs` | theorems of the queue, of overlapping polls, of the fleet | the second and third extend the first |
| `HeartbeatProofs`, `RenderBoxProofs` | theorems of `Supervisor` and `Heartbeat`, of `WorkerLoop` and `RenderBox` | |
| `SubmissionProofs`, `RateLimiterProofs`, `RetentionProofs` | theorems of the module each is named after | |

**RenderQueue.** `jobs[j]` is the row of job `j`; `Absent` stands for a row not yet
inserted. Each SQL function is one action (`LeaseNextJob`, `ReportProgress`,
`CompleteJob`, `ReapExpiredLeases`, `RequestCancel`, `ExpireDueArtifacts`), because
each is one transaction that locks its row. The before-update trigger is `Accepted` (a refused edge
aborts the transaction, so the action is not enabled) and `Enforced` (what the trigger
writes over the row): every action that sets `state` goes through both, and
`WriteCancelFlag`, which does not set it, through neither. `report_progress` and
`complete_job` accept any token ever drawn, for any job, at any moment: the model does
not assume that workers behave. Time is kept as the three comparisons the SQL makes
with `now()`: `lapsed`, `held` and `"due"`, each of which changes by an action of its
own. Tokens are random UUIDs, never drawn twice, so the n-th is the number n. The
reaper and the sweep act on any set of rows they may select, since `p_limit` and SKIP
LOCKED decide that. Ledger and counters are those of one month.

**JobLifecycle.** Status, attempts and downloads of a job, with the edges of
`docs/LIFECYCLE.md`. `RenderQueue!ImplementsLifecycle` maps the three in-flight states
to `"working"` and the live or due artifact rows to downloads.

**LeasePolls.** `LeaseNextJob` is split in three: the statement's snapshot with its
candidates and counts (`OpenSnapshot`), the lock with its re-check of the locked row
(`LockCandidate`), and the commit (`CommitLease`). Other transactions wait for a locked row.

**RenderFleet.** A slot goes from the lease to the report, one await at a time:
`run_inner` in `job.rs`. Every call is one transaction of `RenderQueue` and its answer
may be lost; `GiveUp` is a dead box, a lost call or a lost lease, in each of which the
queue hears no more of the take. An object is represented by the token of the attempt
that stored it, so it is visible who overwrote whom. `torn` remembers the jobs for
which rows and objects are allowed to part: a reaped lease, or a PUT whose answer was
lost.

**Supervisor.** The arms of the biased select in their order (`ChildReaped`,
`WallClock`, `Cancel`, `WalkBegins`/`WalkEnds`, `Escalate`), each ready only if those
before it are not. Time is counted in watchdog intervals and does not pass over a
ready arm, except while the disk is measured: that await is inside an arm, so nothing
else is polled (`phase = "walking"`). `docker stop` and `docker kill` are spawned and
not looked at, so they have no effect in the model either; the container exits when it
likes or never.

**WorkerLoop.** `pc` is the await the loop is in. The permits are counted: free, with
a take, with a take that has abandoned its container and still removes its directory,
or with the loop during a lease request. Its selects are not biased.

**Heartbeat.** `HeartbeatSendsCancel` of `Supervisor`, which may come at any time, taken
apart: the ticker (`BeatSent`, with `MissedTickBehavior::Delay`), the database that
serves the call some time before it is answered or given up (`BeatServed`), the answer
(`BeatAnswered`), and a transport failure (`BeatFails`), which is one lost beat. The lease
is dated when the call is served. Time does not pass over a ready arm of either task.

**RenderBox.** `WorkerLoop` knows how many takes there are; `RenderBox` knows which, and
what they share: `container[j]` is `kaviri-job-<id>` with its owner, `dir[j]` the job
directory with whose video is in it. A take goes through `run_inner` one await at a time.
Leases are those of the queue reduced to who holds them. `Crash` kills the process and not
its containers, `Reboot` kills the containers and takes the egress rules; either may
happen at any moment, and `Start` is the process being started again: the preflight (a
probe container whose answers depend on the fence, and `JudgeEgress`), the sweep of the
work root, the loop. The retryable and the final failures of a take differ for the queue
only, so `Report` does not tell them apart; partial videos are in `RenderFleet`, cancels in
`Heartbeat`. A container may end at any time, also because systemd's signal may reach the
`docker run` clients: the unit sets no `KillMode`.

**Submission.** A call goes through the awaits of `submitJob` and, in the middle, the
statements of `submit_job`, each of which reads what is committed when it starts. The
upsert's row lock is `Holders`, the unique index on the key is `KeyPending` (which is
waited for) and `KeyTaken` (23505). KV may hit or miss as it likes and never expires an
entry. A job's options are one option, named by the body or inherited from the project's
defaults, which an admin may change at any moment; the script is fixed. Requests that
die simply stop.

**RateLimiter.** Tokens are counted in the time it takes to earn them, so that all numbers
are integers: burst equals rate in every configuration, so a full bucket
is worth one minute. `Decide` is the whole of `TokenBucket.fetch`, which runs behind the
input gate; its write lands later (`WriteLands`) or never (`ObjectEvicted`). The platform
holds an answer back until its write has landed (the output gate), which the
code's comment does not count on and neither does the model: its behaviours include
those of the platform. `granted` counts what the object granted and an eviction did
not give back.

**Retention.** The upload dates the object, the completion dates the row by the retention
of that moment, and the key carries the class of the retention that came with the lease.
`expire_due_artifacts` is split into its start, with its snapshot and its locks
(`BeginSweep`), and its commit (`CommitSweep`), which stamps `deleted_at` with the time of the
start: that is what `now()` says throughout a transaction. `getArtifact` is taken apart at its
awaits: it reads the job (`FetchJob`), then the row (`SelectArtifact`), then mints the link
by the clock of that moment (`MintLink`; no await lies between its two reads of the
clock, and the model's tick is the second links are cut to). A sweep may begin or
commit, and time pass, between any two of them. One request at a time is followed: links do
not affect one another. A link is good until the second it names. The bucket's rules delete an
object some time after the day they name. Database, workers and bucket have one clock.

## What each run shows

| Run | Instance | What it shows |
| --- | --- | --- |
| `queue_pair` | 2 jobs, 1 org, limit 2, video only, 2 attempts | coherent rows, exclusive tokens, the attempt budget, single billing, counters, with stale tokens of either job tried on both |
| `queue_solo` | 1 job, video and sidecar, 3 attempts | refinement of `JobLifecycle`, verdicts, and that each job settles |
| `queue_cancel` | 1 job | a cancelled job can wait in the queue for ever |
| `lease_polls` | 2 boxes, 3 jobs, limit 1 | no lease is taken over; how far the limit can be overshot |
| `lease_race` | the same | the limit is overshot |
| `fleet` | 2 slots, 1 job, 3 attempts | a done job has its video; bucket and rows agree |
| `fleet_overwrite` | the same | the loser overwrites the winner's video |
| `supervisor` | module `Heartbeat`: budget 4, grace 3, retry 2, 3 kills, walk 2; beat 2, lease 9, timeout 2 | bound and grace of the loop, a lease that survives one lost beat, every take ends |
| `worker_loop` | module `RenderBox`: 2 slots, 1 job | drains first, at most one late take, own videos, no directory left, nothing filmed unfenced, ends |
| `submission` | 2 calls at once, 3 in all, 1 key, 2 projects, 2 presets, 1 edit of each project's defaults, limit 1 | one job per key, bounded overshoot, right answers, a cause for every 409, recognised retries |
| `rate_limiter` | 1 isolate with room for 1 of 2 orgs, 2 tokens a minute of 4 ticks, 3 requests | grants bounded in the object and in the isolate, `Retry-After` kept |
| `retention` | 1 job, video and sidecar, 2 attempts, a class of 2 days, a plan of 3 days or the default of 1, 2 sweeps of 1 row each, 7 half days | objects outlive rows, `expired` means gone, `done` for ever only by overlap, no link to an expired row beyond its second |

Why these bounds are enough to be interesting. Two jobs are the least for which a
token can be tried on the wrong row, and two attempts the least with both a retry and
a last attempt; the third attempt in `queue_solo` and `fleet` adds a retry that is
neither the first nor the last. A limit of 2 lets both jobs be in flight, a limit of 1
with three jobs lets two boxes race for it. Two kinds of artifact are the least for
which a sweep can take one and leave the other. Two slots are the least in which one
box still films what another has leased again. In `supervisor` a walk
is longer than the watch interval, the budget holds several walks, and
`MaxKillAttempts` is the code's 3, so exit, cancel, budget, disk and deadline meet in
every order; with a lease of 9, a beat every 2 and a timeout of 2, `Survivable` is 1, so
that a beat, a lost beat and the next fit into the lease and one more does not.

In `worker_loop` two slots and one job are the least for which a job comes back to a box
where its old take is still being stopped; a second job would not touch the first, since
all that is shared is named by the job. In `submission` one key under two projects
is the only way round the row lock, the third call is the retry of a call that is over,
and a limit of one is reached by the first. In `rate_limiter` the isolate's map is at
its limit with two orgs; two tokens are the least for which
a burst, a grant from what was earned and a refusal differ, and a grain of 3 ticks does
not divide the cost, so that rounding matters. The degraded share of two tokens rounds
to zero and is raised to one. In `retention` the default of one day is rounded up to the class of two, a plan beyond the last class is the `keep`
class, one row per sweep makes two sweeps share a job or cut it in half, and 7 half days
are enough for a take filmed on the first to expire, be swept and lose its object.

The only bounds inside a specification are `MaxAttempts` (a column of the table),
`Horizon` in `Supervisor` (time stops there; `DurationAssumption` places it beyond
every bound that is checked, and it is proved that no loop reaches it), `Horizon` in
`RateLimiter` and `Retention` (time stops there, and what is checked is about the past),
`MaxCalls` and `MaxEdits` (how often somebody does something in `Submission` and
`RateLimiter`), and the finite sets of jobs, orgs and calls. Tokens need no bound: there are at most `MaxAttempts` leases of each job.
Symmetry is used on jobs, boxes and slots in runs without liveness only.

Every property of a passing run is paired in `PROJECT.json` with a mutant: a small,
plausible mistake in one mapped definition under which TLC finds the property
violated. The mutated forms stand in the modules, above the definition, and nothing
else uses them.

## Fairness

* `RenderQueue!FairSpec`. The reaper runs each minute, so a lapsed row is reaped (weak
  fairness per row: the code orders by expiry). Backoff elapses. A lease lapses unless
  its attempt ends first: a take cannot heartbeat for ever, as `supervisor` shows for
  the loop that bounds it. A row that is leasable again and again is leased: boxes
  poll all the time, and among finitely many jobs with finitely many attempts no higher
  priority keeps a row out for ever (strong, since backoff and the org's limit make it
  leasable only now and then). With an endless stream of jobs of higher priority the
  assumption, and `Settles` with it, would not hold. Nothing is assumed of customers,
  and no worker is assumed ever to complete a job.
* `Heartbeat!HBFairSpec` (and `Supervisor!FairSpec` within it). A ready loop is polled; time passes; a daemon whose container
  has exited answers `docker rm`. The last one is an assumption about the daemon that
  the code does not enforce with a timeout (`docker.rs:742`). `WallClockBounded` counts the loop, not the removal. A call of the heartbeat
  ends, at the latest by the client's timeout; no call need ever be served.
* `RenderBox!BoxFairSpec` (and `WorkerLoop!FairSpec` within it). What is ready runs; each
  take moves on (which assumes that three more awaits end that have no timeout: `docker rm`,
  the `docker run` that probes the video, `docker.rs:763`, and the PUTs,
  `storage.rs:48`; if one hangs, the take keeps its permit, and a drain waits for it until
  systemd's `TimeoutStopSec` is over), and a film ends, by itself or by the supervisor (`supervisor` shows that
  it does); tokio chooses among ready arms at random, so the shutdown arm is not passed
  over for ever (strong fairness of `ShutdownSeen`). Signals, crashes, reboots and the
  restart owe nothing.
* `Submission`, `RateLimiter`, `Retention`, `LeasePolls`, `RenderFleet`: none. All their
  properties are about safety.

## Proofs

TLAPS proves, for every value of the constants that the named assumptions allow:

* **The queue** (`RenderQueueProofs`; `JobAssumption`, `LimitAssumption`, `MaxAttemptsAssumption`,
  `KindAssumption`): `TypeOK`, `RowCoherent`, `AttemptBound`, `LeaseExclusive`,
  `VerdictOnlyOnFailed`, `BilledOnce`. No one of these is inductive. `BilledOnce`
  needs to know that the attempt in flight has no ledger row yet, which needs the attempt to be
  numbered and within the ledger's range (`AttemptBound`); `AttemptBound` needs, of a
  row about to be inserted, that its attempt is zero; `LeaseExclusive` needs that no row has a
  token beyond `minted`. `IInv` joins them as a fact about one row, its ledger and
  `minted` (`RowInv`), for all rows, and exclusiveness across rows. The proof follows that shape: one lemma for
  each way to rewrite a row (`LeasedRow`, `CompletedRow`, `ReapedRow`, ...), resting on
  `EnforcedFields`, what the trigger does to each column; one lemma that lifts rows to
  the table (`RowsToTable`); and one lemma per action.
* **Refinement** (`RenderQueueProofs`): `Spec => ImplementsLifecycle`, step
  simulation under `IInv`. `IInv` is what excludes, for example, a lease that would begin
  an attempt beyond the budget, or the insert of a row that has had one. That a done
  job keeps a download follows step by step: `Completed` brings the video, and a sweep
  that takes the last download expires the job in the same step.
* **Counters** (`RenderQueueProofs`): `CountersAgree`, that each org's completed and failed
  are as many as its rows that `complete_job` ended so. A row is tallied as completed, as failed
  or not at all (`Tally`; what the reaper fails is not counted), and a counter is the
  cardinality of the rows with its tally. The proof is that a transaction changes the tally of the
  row it writes and no other, that only `complete_job` gives a row a tally, counting it in the same
  step, and that a row keeps its tally for ever.
* **Overlapping polls** (`LeasePollsProofs`; also `BoxAssumption`, `ToldAssumption`):
  `OvershootBounded` and `LeaseNeverTakenOver`, and, under overlapping polls, every
  invariant of the queue, its counters and `ImplementsLifecycle`. `PInv` adds to `IInv` that a
  locked row is still queued and locked by one box (`LockInv`), for which the other
  transactions must be shown to wait, and that jobs in flight and polls with a candidate of the
  org together stay below the limit and the number of boxes (`PlacesInv`): a snapshot is
  only opened below the limit, and a commit turns a poll into a job in flight.
  What is proved of the queue is used as it stands: `CommitLease` rewrites the row as
  `LeaseNextJob` does, with the count of an older state, and no lemma needs the count.
* **The fleet** (`RenderFleetProofs`): `FleetSpec => Spec`, whatever boxes do is a way of
  calling the queue, and with it `ImplementsLifecycle`; `DoneHasVideo` and
  `BucketMatchesRows`, for any number of slots, jobs and attempts. The argument is about
  jobs that are not torn: until a job is reaped its lease passes from one take to the next through
  `complete_job` only, with which the first take ends, so such a job is in the hands of the take that
  holds its lease and of no other (`HoldInv`); and what is in the bucket is what the rows say, but
  for what this take has uploaded and is about to report (`BucketInv`). A done job has its
  video also if it is torn: objects are overwritten and never removed by a take.
* **The supervisor** (`HeartbeatProofs`; `DurationAssumption`): types,
  `WallClockBounded`, `GraceHonoured`, for any durations and any number
  of kills. The invariant bounds `hardAt`: it is set no later than the budget and one walk,
  each kill moves it by one `KillRetry`, and time never passes it.
* **The main loop** (`RenderBoxProofs`; `SlotsAssumption`): types, `DrainsFirst`,
  `OneLateTake`, for any number of slots. The invariant accounts for permits (free,
  with takes, with the loop: always `Slots` in all), which makes `acquire_many(Slots)`
  mean that no take is left; and once a late take was started the loop is on its way
  to the check that stops it.
* **The heartbeat** (`HeartbeatProofs`; also `BeatAssumption`): `HBSpec => Spec`, the loop
  beside its heartbeat does nothing that the loop does not do with a cancel channel that
  may be written at any time, so that all that is proved of `Supervisor` holds here; and
  `LeaseOutlastsLostBeats`, for every period, lease and timeout. The invariant bounds the
  age of the last renewal when a beat is sent: one timeout, one period, and the longer of
  the two for each beat that has failed since.
* **The box** (`RenderBoxProofs`; `SlotsAssumption`, `BoxAssumption`): types,
  `DrainsFirst`, `OneLateTake`, `ReportedVideoIsOwn`, `DirectoryRemoved` and
  `FilmedBehindFence`, for any number of slots and jobs. `Counted` ties the takes to the
  permits of `WorkerLoop`, by cardinality; `Films` ties each container to the take that
  films with it; `Own` says that a take which has met no other of its job finds nothing in
  its directory but its own, which needs to know that a container writes into a directory
  only if it is there (`Attached`), and that a directory without a take is a known
  leftover (`DirectoryRemoved`).
* **The rate limiter** (`RateLimiterProofs`; `LimiterAssumption`, `CostAssumption`): types,
  `GrantsBounded`, `FallbackBounded`, `RetryAfterKept`, for any rate, share, number of orgs
  and isolates. Each bucket is followed by its value now: granted and value together never
  exceed a burst and the time since the start, and what is stored lags by
  what was granted since and no more.
* **Submission** (`SubmissionProofs`; `SubmissionAssumption`): types, `KeyNamesOneJob`,
  `OvershootBounded`, `RendersWhatWasAsked`, `ConflictHasCause`, `RetryIsRecognised`, for any
  calls, keys, projects and presets, and any number of edits. `IInv` says of each request what it carries
  from point to point (`Carries`), what it has found (`Finds`), that one whose key had been
  answered turns off at the lookup (`IsKnown`), and that without an edit all reads of the defaults
  agree (`ResolvesAlike`); of each key that one call at most has entered it in the index
  and not yet committed (`KeyInv`); and that rows and calls admitted by the comparison with the limit
  together stay within the bound (`PlacesInv`), for a call is only admitted while the rows are below
  the limit. That the unique index only refuses a call over a row of another project rests on the lock:
  two calls never hold the row of one project (`LockInv`), so nobody else of the project can
  have stored the key since a call selected it (`InsertInv`). What the two properties excuse
  is in their statements: `ConflictHasCause` does not say that the refused call was a
  different request, for an edit of the defaults or a second project under the key is
  a cause too, and `RetryIsRecognised` promises the original's job only to a retry that
  repeats its original (`Repeats`) and does not rely on defaults that were ever edited.
* **Retention** (`RetentionProofs`; `RetentionAssumption`, `NoneAssumption`): types,
  `PromiseKept`, `ExpiredIsGone`, `StuckOnlyByOverlap`, `LinksEndWithRow`, for any classes, plans,
  lifetimes, number of sweeps and batch. The object's clock starts earlier than the row's by
  `Gap` at most, the time from the upload to the report, which is assumed to be no longer than a day
  (the heartbeat stops before the uploads, so that the lease is reaped long before that and
  the report refused); the rule
  waits out the class, which is no shorter than the plan, and the day it falls in
  (`StampInv`). A sweep's snapshot holds all that is alive of the jobs it has in hand
  (`SweepInv`), since a job that has ended gets no new artifacts: so `expired` is
  never said too early. Conversely all of the snapshot is still alive if no other
  sweep has the job in hand (`AloneInv`), and if one has, the job is remembered as split
  (`SplitInv`): so only an overlap lets a job stay `done` for ever. A request carries the
  expiry of the row it read, which the row never changes (`RequestInv`), so a link ends with that
  expiry or with the second it was minted in (`LinkInv`), whatever was swept in between.

Every invariant and every action property of a passing run is so the subject of a theorem, and each
inductive invariant was checked by TLC on the instances above before it was proved. Only
model-checked are the liveness properties, `Settles`, `TakeEnds` and `Ends`: what
fairness brings about needs ENABLED, which is beyond the prover. What a claim's run refutes is of
course not proved either.

## Where the code disagrees with its documents

Three claims are runs whose property states the claim, and TLC's trace is the disagreement.

1. `queue_cancel`: a job flagged for cancel in flight, whose attempt is then lost or
   fails with a retry left, is requeued with the flag up. `lease_next_job` steps over
   flagged rows and nothing else ends it, so it stays queued until somebody calls
   `request_cancel` again.
2. `lease_race`: the count of jobs in flight is read in a snapshot that does not hold
   another box's lease, so two polls take an org above its limit. `lease_polls`
   shows that the excess stays below the number of boxes.
3. `fleet_overwrite`: all attempts of a job write one object name without a condition.
   A box that lost its lease during an upload overwrites the video of the box that
   completed the job, whose row then describes another object.

Others were met while modelling and are part of the models, which allow what the code
allows:

* `complete_job` does not compare the expiry of a lease (`0008:225`), against
  `docs/LIFECYCLE.md:71`. The window is between the lapse and the next reap, and harmless
  to the other properties.
* The unhealthy flag is read before the loop waits for a permit (`main.rs:113`), so a box
  may take one more job, against `main.rs:107`. `OneLateTake` shows that it is one at most.
* A take that loses its lease and cannot stop its container returns `LeaseLost`
  (`job.rs:263`) before `abandoned` is looked at (`job.rs:283`): the box is not marked
  unhealthy and goes on leasing beside the container.
* A box that has abandoned a container ends with an error that asks for a human
  (`main.rs:176`), or with status zero if the shutdown is seen first (`:172`); systemd
  starts it again either way, and if the daemon answers it films again.
* `take.mp4` of an earlier attempt is not removed before filming. `ReportedVideoIsOwn`
  holds because the sweep and the removal after each take leave none, except that a take
  that has lost its lease and its successor on the same box share a directory and may
  report each other's video, and so may a take in a directory that could not be removed.
* The monthly limit is overshot by the submissions in flight together (`0010:53`), against
  the comments at `0010:3` and `routes/jobs.ts:97`. `OvershootBounded` says how far.
* A replay whose fingerprint no longer matches because the project's defaults were changed
  is a conflict (`routes/jobs.ts:118`), and so may the very first answer be: the job
  is created and the call told 409 (`:155`), though the answer speaks of "a different script or
  different options" (`:187`). `ConflictHasCause` names these cases.
* The fingerprint leaves the project out, so one key under two projects names one job, and
  the late twin's 202 carries the project it asked for and not the job's (`:179`).
* Two calls with one key under two projects may collide on the unique index; the second is
  told 409 (`pg.ts:133`) though it may have asked for the same thing. `ConflictHasCause` shows
  that two projects are needed for it.
* A heartbeat of a third of the lease survives one lost beat (`job.rs:627`,
  `config.rs:159`) only if a call's timeout, 20 seconds, is short enough beside them: with
  a lease of 15 and a beat of 5 seconds, which are accepted, one beat that times out
  outlasts the lease. The defaults, 120 and 15, survive three.
* Overlapping sweeps may leave a job `done` with nothing to download, for ever
  (`0009:144`). `StuckOnlyByOverlap` shows that nothing else does.
* `getArtifact` reads the row (`routes/jobs.ts:308`) and mints the link later (`:336`), with a
  lifetime of a second at least. A row that has expired, or that a sweep has marked in
  between, so still gets a link that works for the rest of that second, however much later
  than `deleted_at` (the start of the sweep's transaction, `0009:148`) that is, against the
  comment at `:330`: "A link must not outlive the artifact it points at". `LinksEndWithRow` says what
  is left of it: a link handed out before the expiry does not work after it.
* An upload has no timeout, and the comment that says "The wall clock supervisor around the job
  is what bounds this" (`storage.rs:50`) is wrong: the supervisor has returned
  before the uploads begin (`job.rs:256`). Only the lease ends, so that the job is filmed again.
* A row expires by the retention at its completion, an object by the retention at its
  lease. If the retention grew in between the object may go first; if it shrank the
  object stays after the row, for nothing removes objects but the bucket's rules.
  A retention beyond 365 days gets the class without a rule, and its objects stay.

## What is not modelled

* Quantities (seconds, bytes), progress text, worker ids, priorities and the exact
  backoff: no property tells them apart.
* The month boundary of the counters: the model is one month long.
* Row level security and membership: who may call. Every modelled action is taken by
  someone entitled to.
* Script and option validation (`script.rs`, `options.rs`, `validate.ts`), redaction, the
  docker command line, request signing, HTTP ranges, routing: pure functions of
  their input, without an order of events to check.
* The worker's other settings: of `config.rs` only the lease, the heartbeat and their
  ratio decide an order of events.
* The egress rules themselves: `RenderBox` has one bit for whether they are in force, and
  what a probe may report with and without them. The positive control is assumed not to be
  configured away (`KAVIRI_EGRESS_PROBE_PUBLIC=off`); without it a network that has no
  route at all passes for a fenced one, as the worker's warning says.
* The caches of keys and entitlements (`auth.ts`, `entitlements.ts`): one entry in front of
  one read, stale for its lifetime at most. `cancelJob`'s answer, which reads before it
  calls `request_cancel` (`routes/jobs.ts:369`) and may so confirm the cancel of a job that
  has just ended; the call itself is in `RenderQueue`.
* Edge caching of downloads: a cached copy is behind the same signature check.
* Container image, the playground, seeds and tests.

## Plan

Built: the queue, its abstract lifecycle, concurrent polls, the fleet, the supervisor with
its heartbeat, the main loop in its box, submission, rate limits, retention with overlapping
sweeps, and theorems for every safety property that is checked. Next, in order:

1. **Abstract specifications proved**: a `Submission` seen by one caller as a map from keys to
   jobs that never changes, and an object's life seen by one customer, each with its
   refinement.
2. **An abstract `Box`**: `RenderBox` and `RenderFleet` share the take; the slots of the
   fleet could be shown to be those of boxes.
3. **Quantities**: `bytes_stored` and `render_seconds` against their limits, at the month
   boundary.
4. **Operators**: HTTP ranges against a reference definition, `least()` of entitlements
   with nulls.
