------------------------------ MODULE RenderQueue ------------------------------
(***************************************************************************)
(* The job queue: the table render_jobs, the trigger that guards its state *)
(* column, and every function that writes a row (submit_job's insert, the  *)
(* three worker functions, request_cancel, the reaper and the retention    *)
(* sweep).  Each function is one transaction and so one action.            *)
(*                                                                         *)
(* Callers are unconstrained: whoever presents the token of a live lease   *)
(* may call report_progress and complete_job at any moment, in any order.  *)
(*                                                                         *)
(* Time is abstracted to the three comparisons the code makes against      *)
(* now(): "lapsed" stands for lease_expires_at < now(), "held" for         *)
(* visible_at > now(), and an artifact is "due" once expires_at < now().   *)
(* Each becomes true (or false) by an action of its own, at any moment.    *)
(***************************************************************************)
EXTENDS Naturals, FiniteSets

CONSTANTS
  Job,          \* ids of the rows that may be inserted
  Org,          \* tenants
  OrgOf,        \* the org_id of each job
  Limit,        \* max_concurrent_renders of each org, after entitlements
  MaxAttempts,  \* render_jobs.max_attempts
  Kind          \* the kinds of artifact workers upload: artifact_kind

ASSUME JobAssumption == IsFiniteSet(Job) /\ OrgOf \in [Job -> Org]
ASSUME LimitAssumption == Limit \in [Org -> Nat \ {0}]
ASSUME MaxAttemptsAssumption == MaxAttempts \in 1..10
ASSUME KindAssumption == "video" \in Kind

VARIABLES
  jobs,       \* the rows of render_jobs
  artifacts,  \* the rows of artifacts: at most one per job and kind
  minted,     \* how many lease tokens lease_next_job has drawn
  ledger,     \* usage_events of kind render_seconds, counted per job and attempt
  counters    \* usage_counters.jobs_completed and jobs_failed of each org

vars == <<jobs, artifacts, minted, ledger, counters>>

--------------------------------------------------------------------------------
InFlight == {"leased", "running", "uploading"}
Terminal == {"done", "failed", "cancelled", "expired"}
Absent   == "absent"      \* the row is not inserted yet
State    == {Absent, "queued"} \cup InFlight \cup Terminal

Artifact == {"none", "live", "due", "deleted"}

\* What a row's error column says: nothing, an error worth another attempt, one
\* the worker marked retryable:false, or the reaper's lease_expired.
Error == {"none", "retryable", "final", "lease_expired"}

\* Tokens are gen_random_uuid(): never drawn twice, so the n-th is modelled as n.
NoToken == 0

Row == [state : State, attempt : Nat, token : Nat, lapsed : BOOLEAN,
        held : BOOLEAN, cancel : BOOLEAN, started : BOOLEAN,
        finished : BOOLEAN, error : Error]

BlankRow == [state |-> Absent, attempt |-> 0, token |-> NoToken,
             lapsed |-> FALSE, held |-> FALSE, cancel |-> FALSE,
             started |-> FALSE, finished |-> FALSE, error |-> "none"]

\* What complete_job may be told, as job.rs composes it: the outcome, the error,
\* the artifacts already uploaded and whether any render seconds were burned.
Report ==
  [outcome : {"done"}, error : {"none"}, arts : SUBSET Kind, burned : BOOLEAN]
  \cup
  [outcome : {"failed"}, error : {"none", "retryable", "final"},
   arts : SUBSET Kind, burned : BOOLEAN]
  \cup
  [outcome : {"cancelled"}, error : {"none"}, arts : {{}}, burned : BOOLEAN]

--------------------------------------------------------------------------------
(* The trigger on render_jobs.state.                                       *)

\* app.is_legal_transition
LegalTransition ==
  {<<"queued", "leased">>, <<"queued", "cancelled">>, <<"leased", "running">>,
   <<"running", "uploading">>, <<"uploading", "done">>, <<"done", "expired">>}
  \cup (InFlight \X {"queued", "failed", "cancelled"})

\* app.enforce_job_state_machine: an update it refuses fails its transaction ...
Accepted(old, new) ==
  \/ new.state = old.state
  \/ /\ <<old.state, new.state>> \in LegalTransition
     /\ new.attempt >= old.attempt

\* Mutant: a row handed back to the queue keeps the lease it had.
EnforcedKeepsLease(old, new) ==
  LET leaves == new.state \in Terminal
  IN  IF new.state = old.state
      THEN new
      ELSE [new EXCEPT
              !.token    = IF leaves THEN NoToken ELSE @,
              !.lapsed   = IF leaves THEN FALSE ELSE @,
              !.started  = IF new.state = "queued" THEN FALSE
                           ELSE @ \/ new.state = "running",
              !.finished = @ \/ new.state \in Terminal]

\* ... and a row it accepts is normalised before it is written.
Enforced(old, new) ==
  LET leaves == new.state \in {"queued"} \cup Terminal
  IN  IF new.state = old.state
      THEN new
      ELSE [new EXCEPT
              !.token    = IF leaves THEN NoToken ELSE @,
              !.lapsed   = IF leaves THEN FALSE ELSE @,
              !.started  = IF new.state = "queued" THEN FALSE
                           ELSE @ \/ new.state = "running",
              !.finished = @ \/ new.state \in Terminal]

Update(j, new) ==
  /\ Accepted(jobs[j], new)
  /\ jobs' = [jobs EXCEPT ![j] = Enforced(jobs[j], new)]

--------------------------------------------------------------------------------
(* Helpers.                                                                *)

InFlightOf(o) == {j \in Job : OrgOf[j] = o /\ jobs[j].state \in InFlight}

\* The whole authorisation check of the worker functions.
HoldsLease(j, t) == jobs[j].token = t /\ jobs[j].state \in InFlight

\* Mutant: the comparison with max_attempts lets one more through.
CanRetryOnceMore(row) == row.attempt <= MaxAttempts

CanRetry(row) == row.attempt < MaxAttempts

--------------------------------------------------------------------------------
Init ==
  /\ jobs = [j \in Job |-> BlankRow]
  /\ artifacts = [j \in Job |-> [k \in Kind |-> "none"]]
  /\ minted = 0
  /\ ledger = [j \in Job |-> [a \in 1..MaxAttempts |-> 0]]
  /\ counters = [o \in Org |-> [completed |-> 0, failed |-> 0]]

\* submit_job reached its insert; the birth trigger admits only "queued".
InsertJob(j) ==
  /\ jobs[j].state = Absent
  /\ jobs' = [jobs EXCEPT ![j] = [BlankRow EXCEPT !.state = "queued"]]
  /\ UNCHANGED <<artifacts, minted, ledger, counters>>

\* Mutant: the limit is compared with <= where the code has <.
LeasableAtLimit(j, inflight) ==
  /\ jobs[j].state = "queued"
  /\ ~jobs[j].held
  /\ ~jobs[j].cancel
  /\ inflight <= Limit[OrgOf[j]]

\* The where clause of lease_next_job's candidate, given the number of the
\* org's in-flight jobs the query counted.
Leasable(j, inflight) ==
  /\ jobs[j].state = "queued"
  /\ ~jobs[j].held
  /\ ~jobs[j].cancel
  /\ inflight < Limit[OrgOf[j]]

\* Mutant: the token is derived from the attempt rather than drawn.
LeasedByAttempt(row, token) ==
  [row EXCEPT !.state = "leased", !.attempt = @ + 1,
              !.token = row.attempt + 1, !.lapsed = FALSE]

\* Mutant: an attempt that failed with a retryable error is not counted.
LeasedRefunded(row, token) ==
  [row EXCEPT !.state = "leased", !.token = token, !.lapsed = FALSE,
              !.attempt = IF row.error = "retryable" THEN @ ELSE @ + 1]

\* The row lease_next_job writes over the candidate it locked.
Leased(row, token) ==
  [row EXCEPT !.state = "leased", !.attempt = @ + 1,
              !.token = token, !.lapsed = FALSE]

TakeLease(j) ==
  /\ minted' = minted + 1
  /\ Update(j, Leased(jobs[j], minted'))

\* lease_next_job, run with no other transaction open.
LeaseNextJob(j) ==
  /\ Leasable(j, Cardinality(InFlightOf(OrgOf[j])))
  /\ TakeLease(j)
  /\ UNCHANGED <<artifacts, ledger, counters>>

\* report_progress: p_state is null ("same"), running or uploading.
Reported(row, s) ==
  [row EXCEPT !.state = IF s = "same" THEN @ ELSE s, !.lapsed = FALSE]

ReportProgress(j, t, s) ==
  /\ HoldsLease(j, t)
  /\ ~jobs[j].lapsed
  /\ Update(j, Reported(jobs[j], s))
  /\ UNCHANGED <<artifacts, minted, ledger, counters>>

\* Mutant: the worker's retryable:false is not looked at.
NextStateAlwaysRetry(row, r) ==
  CASE r.outcome = "done"      -> "done"
    [] r.outcome = "cancelled" -> "cancelled"
    [] r.outcome = "failed" /\ CanRetry(row) -> "queued"
    [] OTHER                   -> "failed"

\* Where complete_job sends the row.
NextState(row, r) ==
  CASE r.outcome = "done"      -> "done"
    [] r.outcome = "cancelled" -> "cancelled"
    [] r.outcome = "failed" /\ r.error # "final" /\ CanRetry(row) -> "queued"
    [] OTHER                   -> "failed"

\* Mutant: a cancelled take is counted as a failed one.
CountedCancels(o, next) ==
  CASE next = "done" -> [counters EXCEPT ![o].completed = @ + 1]
    [] next \in {"failed", "cancelled"} -> [counters EXCEPT ![o].failed = @ + 1]
    [] OTHER -> counters

\* The counters complete_job leaves, given where it sends the row.
Counted(o, next) ==
  CASE next = "done"   -> [counters EXCEPT ![o].completed = @ + 1]
    [] next = "failed" -> [counters EXCEPT ![o].failed = @ + 1]
    [] OTHER -> counters

\* The row complete_job writes, sending the job to state next.
Completed(row, r, next) ==
  [row EXCEPT !.state    = next,
              !.error    = IF r.outcome = "done" THEN "none" ELSE r.error,
              !.held     = @ \/ next = "queued",
              !.finished = next \in {"done", "failed", "cancelled"}]

CompleteJob(j, t, r) ==
  LET next == NextState(jobs[j], r)
  IN  /\ HoldsLease(j, t)
      /\ r.outcome = "done" => "video" \in r.arts
      /\ artifacts' = [artifacts EXCEPT ![j] =
           [k \in Kind |-> IF k \in r.arts THEN "live" ELSE @[k]]]
      /\ Update(j, Completed(jobs[j], r, next))
      /\ ledger' = IF r.burned
                   THEN [ledger EXCEPT ![j][jobs[j].attempt] = @ + 1]
                   ELSE ledger
      /\ counters' = Counted(OrgOf[j], next)
      /\ UNCHANGED minted

\* Mutant: the reaper only looks at jobs that are rendering.
ReapableRunning(row) == row.state = "running" /\ row.lapsed

\* What the reaper selects.
Reapable(row) == row.state \in InFlight /\ row.lapsed

\* Mutant: the reaper writes an error code nothing else knows.
ReapedMisnamed(row) ==
  LET next == IF CanRetry(row) THEN "queued" ELSE "failed"
  IN  [row EXCEPT !.state = next,
                  !.held  = @ \/ next = "queued",
                  !.error = IF next = "failed" THEN "lease_lost" ELSE @,
                  !.finished = next = "failed"]

\* The row reap_expired_leases writes over a lapsed one.
Reaped(row) ==
  LET next == IF CanRetry(row) THEN "queued" ELSE "failed"
  IN  [row EXCEPT !.state = next,
                  !.held  = @ \/ next = "queued",
                  !.error = IF next = "failed" THEN "lease_expired" ELSE @,
                  !.finished = next = "failed"]

\* One run of the reaper takes any of the lapsed rows: p_limit and SKIP LOCKED
\* may leave some behind.
ReapExpiredLeases(S) ==
  /\ S # {}
  /\ \A j \in S : Reapable(jobs[j]) /\ Accepted(jobs[j], Reaped(jobs[j]))
  /\ jobs' = [j \in Job |-> IF j \in S THEN Enforced(jobs[j], Reaped(jobs[j]))
                                       ELSE jobs[j]]
  /\ UNCHANGED <<artifacts, minted, ledger, counters>>

\* The row request_cancel writes: the flag, and the end if it is queued.
CancelAsked(row) ==
  [row EXCEPT !.cancel   = TRUE,
              !.state    = IF row.state = "queued" THEN "cancelled" ELSE @,
              !.finished = @ \/ row.state = "queued"]

RequestCancel(j) ==
  /\ jobs[j].state \notin Terminal \cup {Absent}
  /\ Update(j, CancelAsked(jobs[j]))
  /\ UNCHANGED <<artifacts, minted, ledger, counters>>

\* The column grant: a client may write cancel_requested itself, and only that.
\* The state trigger does not fire, since state is not among the columns set.
WriteCancelFlag(j, flag) ==
  /\ jobs[j].state # Absent
  /\ jobs' = [jobs EXCEPT ![j].cancel = flag]
  /\ UNCHANGED <<artifacts, minted, ledger, counters>>

\* Mutant: a job expires with the first of its artifacts.
NothingLeftUnchecked(j, marked) == TRUE

\* No artifact of j remains once those of the kinds "marked" are gone.
NothingLeft(j, marked) ==
  \A k \in Kind \ marked : artifacts[j][k] \notin {"live", "due"}

Expired(row) == [row EXCEPT !.state = "expired"]

\* expire_due_artifacts: mark any of the due rows (p_limit, SKIP LOCKED), then
\* expire the done jobs among them that keep no artifact.
ExpireDueArtifacts(S) ==
  LET marked(j) == {k \in Kind : <<j, k>> \in S}
      expires(j) == /\ jobs[j].state = "done"
                    /\ marked(j) # {}
                    /\ NothingLeft(j, marked(j))
  IN  /\ S # {}
      /\ \A p \in S : artifacts[p[1]][p[2]] = "due"
      /\ artifacts' = [j \in Job |-> [k \in Kind |->
                         IF k \in marked(j) THEN "deleted" ELSE artifacts[j][k]]]
      /\ jobs' = [j \in Job |->
                    IF expires(j)
                    THEN Enforced(jobs[j], Expired(jobs[j]))
                    ELSE jobs[j]]
      /\ UNCHANGED <<minted, ledger, counters>>

--------------------------------------------------------------------------------
(* The passing of time.                                                    *)

LeaseLapses(j) ==
  /\ jobs[j].state \in InFlight
  /\ ~jobs[j].lapsed
  /\ jobs' = [jobs EXCEPT ![j].lapsed = TRUE]
  /\ UNCHANGED <<artifacts, minted, ledger, counters>>

BackoffElapses(j) ==
  /\ jobs[j].held
  /\ jobs' = [jobs EXCEPT ![j].held = FALSE]
  /\ UNCHANGED <<artifacts, minted, ledger, counters>>

RetentionElapses(j, k) ==
  /\ artifacts[j][k] = "live"
  /\ artifacts' = [artifacts EXCEPT ![j][k] = "due"]
  /\ UNCHANGED <<jobs, minted, ledger, counters>>

--------------------------------------------------------------------------------
Worker == \E j \in Job, t \in 1..minted :
  \/ \E s \in {"same", "running", "uploading"} : ReportProgress(j, t, s)
  \/ \E r \in Report : CompleteJob(j, t, r)

Client == \E j \in Job :
  \/ InsertJob(j)
  \/ RequestCancel(j)
  \/ \E flag \in BOOLEAN : WriteCancelFlag(j, flag)

Maintenance ==
  \/ \E S \in SUBSET Job : ReapExpiredLeases(S)
  \/ \E S \in SUBSET (Job \X Kind) : ExpireDueArtifacts(S)

Time == \E j \in Job :
  \/ LeaseLapses(j)
  \/ BackoffElapses(j)
  \/ \E k \in Kind : RetentionElapses(j, k)

Next ==
  \/ \E j \in Job : LeaseNextJob(j)
  \/ Worker
  \/ Client
  \/ Maintenance
  \/ Time

Spec == Init /\ [][Next]_vars

--------------------------------------------------------------------------------
(* Fairness.  The reaper runs every minute and the sweep every hour, and   *)
(* they pick rows in expiry order, so no due row is passed over for ever.  *)
(* Free workers poll all the time, and the jobs are finitely many, each    *)
(* with finitely many attempts, so that no higher priority keeps out a row *)
(* that keeps becoming leasable.  A take cannot heartbeat for ever: the    *)
(* supervisor ends it within max_job_seconds.  Nothing is assumed of       *)
(* clients, nor that any worker ever completes a job.                      *)

Fairness == \A j \in Job :
  /\ SF_vars(LeaseNextJob(j))
  /\ WF_vars(LeaseLapses(j))
  /\ WF_vars(BackoffElapses(j))
  /\ WF_vars(\E S \in SUBSET Job : j \in S /\ ReapExpiredLeases(S))

FairSpec == Spec /\ Fairness

--------------------------------------------------------------------------------
(* Invariants.                                                             *)

TypeOK ==
  /\ jobs \in [Job -> Row]
  /\ artifacts \in [Job -> [Kind -> Artifact]]
  /\ minted \in Nat
  /\ ledger \in [Job -> [1..MaxAttempts -> Nat]]
  /\ counters \in [Org -> [completed : Nat, failed : Nat]]

\* The check constraints of render_jobs never fire, whatever order the worker
\* functions, the reaper, a cancel and the sweep are called in: a row holds a
\* lease exactly in the in-flight states, is finished exactly in the terminal
\* ones, and a lapsed mark or a lease token never outlives the lease.
CoherentRow(row) ==
  /\ (row.token # NoToken) <=> (row.state \in InFlight)
  /\ row.finished <=> (row.state \in Terminal)
  /\ row.lapsed => row.state \in InFlight
  /\ row.state \in {"running", "uploading", "done", "expired"} => row.started

RowCoherent == \A j \in Job : CoherentRow(jobs[j])

\* No path through leases, reaps and reported failures starts one attempt too
\* many or leaves a queued job without one: a queued row has an attempt left,
\* an in-flight row is on a numbered one.
AttemptBoundRow(row) ==
  /\ row.state = "queued" => row.attempt < MaxAttempts
  /\ row.state \in InFlight => row.attempt \in 1..MaxAttempts

AttemptBound == \A j \in Job : AttemptBoundRow(jobs[j])

\* The authority of a lease is exclusive: no two rows ever answer to the same
\* token, and none answers to a token that has not been drawn yet.
LeaseExclusive == \A j \in Job :
  /\ jobs[j].token <= minted
  /\ \A k \in Job \ {j} : jobs[j].token = jobs[k].token => jobs[j].token = NoToken

\* An error that says "do not retry" is a verdict: it is never left on a row
\* that is queued, in flight, done or cancelled, although complete_job, the
\* reaper and the next attempt all write or keep that column.
VerdictRow(row) == row.error \in {"final", "lease_expired"} => row.state = "failed"

VerdictOnlyOnFailed == \A j \in Job : VerdictRow(jobs[j])

\* The ledger has at most one render_seconds row per attempt of a job, and none
\* yet for the attempt in flight: no retried, late or repeated complete_job
\* bills the same seconds twice.
BilledRow(row, bills) == \A a \in 1..MaxAttempts :
  /\ bills[a] <= 1
  /\ bills[a] > 0 => /\ a <= row.attempt
                     /\ a = row.attempt => row.state \notin InFlight

BilledOnce == \A j \in Job : BilledRow(jobs[j], ledger[j])

\* The monthly counters agree with the rows: every completed job is counted
\* once and for good, and every failure but the reaper's own is.
CountersAgree == \A o \in Org :
  LET of(S) == {j \in Job : OrgOf[j] = o /\ jobs[j].state \in S}
  IN  /\ counters[o].completed = Cardinality(of({"done", "expired"}))
      /\ counters[o].failed =
           Cardinality({j \in of({"failed"}) : jobs[j].error # "lease_expired"})

--------------------------------------------------------------------------------
(* Refinement, liveness, and two claims of docs/LIFECYCLE.md.              *)

Downloads(j) == {k \in Kind : artifacts[j][k] \in {"live", "due"}}

StatusOf(row) == IF row.state \in InFlight THEN "working" ELSE row.state

Lifecycle == INSTANCE JobLifecycle WITH
  status    <- [j \in Job |-> StatusOf(jobs[j])],
  tries     <- [j \in Job |-> jobs[j].attempt],
  downloads <- [j \in Job |-> Downloads(j)]

\* Every step of the queue is a step the customer was promised: the edges of
\* docs/LIFECYCLE.md, the attempt budget and the life of the download link.
ImplementsLifecycle == Lifecycle!Spec

\* Every submitted job comes to a verdict, whatever its workers do and even if
\* all of them die on every attempt, or it waits in the queue with a cancel
\* flag that lease_next_job steps over.
Settles == \A j \in Job :
  (jobs[j].state # Absent) ~>
    (jobs[j].state \in Terminal \/ (jobs[j].state = "queued" /\ jobs[j].cancel))

\* docs/LIFECYCLE.md: a cancel of a job on a box "takes effect within one
\* heartbeat"; in any case a job cancelled in flight comes to an end, unless
\* the flag is taken back.
CancelTakesEffect == \A j \in Job :
  (jobs[j].state \in InFlight /\ jobs[j].cancel) ~>
    (jobs[j].state \in Terminal \/ ~jobs[j].cancel)
================================================================================
