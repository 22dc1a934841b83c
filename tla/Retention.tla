------------------------------- MODULE Retention --------------------------------
(***************************************************************************)
(* How long a take is kept, by three clocks that never speak to each other: *)
(* the row's expires_at, stamped when the take completes; the class in the  *)
(* object's key, chosen from what the lease said and enforced by the        *)
(* bucket's lifecycle rule; and the signed link, minted from the row.  The  *)
(* sweep of the rows is split into its start and its commit, so that two of *)
(* them overlap; a request for a link into its reads and the minting, so    *)
(* that a sweep comes between.                                              *)
(*                                                                          *)
(* One org, whose plan may change at any time.  A day is Day ticks, and a   *)
(* tick is also the second to which links are cut.                          *)
(***************************************************************************)
EXTENDS Integers, FiniteSets, FiniteSetsExt

CONSTANTS
  Job, Sweep,
  Class,        \* the days of the retention classes: 7, 30, 90, 365
  Plan,         \* what artifact_retention_days may be set to
  DefaultDays,  \* what an org without a limit gets: 30
  Keep,         \* the class without a lifecycle rule
  None,
  Day, Ttl,     \* SIGNED_URL_TTL_SECONDS
  Gap,          \* how long after its upload a take completes, at most
  Limit,        \* p_limit of the sweep
  MaxAttempts, Horizon

ASSUME RetentionAssumption ==
  /\ Class \subseteq Nat \ {0} /\ Plan \subseteq Nat \ {0} /\ DefaultDays \in Nat \ {0}
  /\ Keep \notin Nat
  /\ Day \in Nat \ {0} /\ Ttl \in Nat /\ Gap \in 0..Day
  /\ Limit \in Nat \ {0} /\ MaxAttempts \in Nat \ {0} /\ Horizon \in Nat

Kind == {"video", "telemetry"}
Artifact == Job \X Kind

VARIABLES
  now,
  retention,  \* org_entitlements.artifact_retention_days, or None
  job,        \* state, attempt, the retention its lease carried, what it has uploaded
  artifact,   \* the row of an artifact: key, days, expires_at, deleted_at
  bucket,     \* when an object was last put, or None
  sweep,      \* a run of expire_due_artifacts: its now(), what it locked, what it saw alive
  split,      \* jobs whose artifacts two open sweeps held
  request,    \* a getArtifact under way, of which one is followed at a time
  link        \* the signed link it ended in

vars == <<now, retention, job, artifact, bucket, sweep, split, request, link>>

--------------------------------------------------------------------------------
(* storage.rs, dl/keys.ts and effective_entitlements                       *)

EffectiveDays == IF retention = None THEN DefaultDays ELSE retention

\* Mutant: a retention is rounded down to the class below it.
RoundedDown(days) ==
  LET fits == {c \in Class : c <= days} IN IF fits = {} THEN Min(Class) ELSE Max(fits)

\* retention_class, retentionClassFor: up to the next class; beyond the last, for ever.
RetentionClass(days) ==
  LET fits == {c \in Class : days <= c} IN IF fits = {} THEN Keep ELSE Min(fits)

\* The rule of a class waits a day longer than the class.
LifecycleDays(class) == class + 1

\* key_for: the same for every attempt, as long as the class is.
KeyFor(a, days) == <<RetentionClass(days), a>>
Key == (Class \cup {Keep}) \X Artifact

\* A row of artifacts, a sweep under way, a request, a link.  None is a null among all of
\* them; a request carries no expires_at before it has read the row.
Stored == [key : Key, days : Nat, expires_at : Nat, deleted_at : 0..Horizon \cup {None}]
Run    == [at : 0..Horizon, marked : SUBSET Artifact, live : SUBSET Artifact]
Asked  == [of : Artifact, expires_at : Nat \cup {None}]
Link   == [of : Artifact, expiresAt : Nat]

ASSUME NoneAssumption == None \notin Nat \cup Stored \cup Run \cup Asked \cup Link

--------------------------------------------------------------------------------
Init ==
  /\ now = 0
  /\ retention \in Plan \cup {None}
  /\ job = [j \in Job |-> [state |-> "queued", attempt |-> 0, days |-> None, uploaded |-> {}]]
  /\ artifact = [a \in Artifact |-> None]
  /\ bucket = [k \in Key |-> None]
  /\ sweep = [s \in Sweep |-> None]
  /\ split = {}
  /\ request = None
  /\ link = None

\* The org changes its plan, whatever is under way.
SetRetention(days) ==
  /\ retention # days
  /\ retention' = days
  /\ UNCHANGED <<now, job, artifact, bucket, sweep, split, request, link>>

\* lease_next_job hands out the retention of the moment.
Lease(j) ==
  /\ job[j].state = "queued"
  /\ job' = [job EXCEPT ![j] = [state |-> "leased", attempt |-> @.attempt + 1,
                                days |-> EffectiveDays, uploaded |-> {}]]
  /\ UNCHANGED <<now, retention, artifact, bucket, sweep, split, request, link>>

\* The worker puts the video, then the sidecar if there is one.
Upload(j, kind) ==
  /\ job[j].state = "leased"
  /\ kind \notin job[j].uploaded
  /\ kind = "video" \/ "video" \in job[j].uploaded
  /\ job' = [job EXCEPT ![j].uploaded = @ \cup {kind}]
  /\ bucket' = [bucket EXCEPT ![KeyFor(<<j, kind>>, job[j].days)] = now]
  /\ UNCHANGED <<now, retention, artifact, sweep, split, request, link>>

\* Mutant: the attempt budget is off by one.
OneMoreAttempt(j) ==
  /\ job[j].state = "leased"
  /\ job' = [job EXCEPT ![j].state = IF job[j].attempt <= MaxAttempts
                                     THEN "queued" ELSE "failed",
                        ![j].uploaded = {}]
  /\ UNCHANGED <<now, retention, artifact, bucket, sweep, split, request, link>>

\* The attempt is lost, before or after its uploads, and the reaper gives it back.
LoseAttempt(j) ==
  /\ job[j].state = "leased"
  /\ job' = [job EXCEPT ![j].state = IF job[j].attempt < MaxAttempts
                                     THEN "queued" ELSE "failed",
                        ![j].uploaded = {}]
  /\ UNCHANGED <<now, retention, artifact, bucket, sweep, split, request, link>>

\* What is assumed: a take completes at most Gap after it has stored what it reports.  The
\* heartbeat stops before the uploads, and a lease that nobody renews is soon reaped.
FreshObject(key) == bucket[key] # None /\ now - bucket[key] <= Gap

\* complete_job with what was uploaded: a finished take, or the last word of a failed
\* one.  The rows expire by the retention of this moment.
Complete(j, outcome) ==
  LET days == EffectiveDays IN
  /\ job[j].state = "leased"
  /\ "video" \in job[j].uploaded
  /\ \A kind \in job[j].uploaded : FreshObject(KeyFor(<<j, kind>>, job[j].days))
  /\ job' = [job EXCEPT ![j].state = outcome]
  /\ artifact' = [a \in Artifact |->
                    IF a[1] = j /\ a[2] \in job[j].uploaded
                    THEN [key |-> KeyFor(a, job[j].days), days |-> days,
                          expires_at |-> now + days * Day, deleted_at |-> None]
                    ELSE artifact[a]]
  /\ UNCHANGED <<now, retention, bucket, sweep, split, request, link>>

--------------------------------------------------------------------------------
(* expire_due_artifacts                                                    *)

Live(a) == artifact[a] # None /\ artifact[a].deleted_at = None

Locked == UNION {IF sweep[s] = None THEN {} ELSE sweep[s].marked : s \in Sweep}

Due == {a \in Artifact : Live(a) /\ artifact[a].expires_at < now} \ Locked

\* The batch: the earliest of what is due and nobody has locked, up to the limit.
Batch(M) ==
  /\ M \subseteq Due
  /\ Cardinality(M) = Min({Limit, Cardinality(Due)})
  /\ \A m \in M, a \in Due \ M : artifact[m].expires_at <= artifact[a].expires_at

\* The transaction begins, which is what its now() says to the end; its snapshot is
\* taken and its rows are locked.
BeginSweep(s, M) ==
  /\ sweep[s] = None
  /\ Due # {} /\ Batch(M)
  /\ sweep' = [sweep EXCEPT ![s] = [at |-> now, marked |-> M, live |-> {a \in Artifact : Live(a)}]]
  /\ split' = split \cup {j \in Job : \E m \in M, l \in Locked : m[1] = j /\ l[1] = j}
  /\ UNCHANGED <<now, retention, job, artifact, bucket, request, link>>

\* Mutant: a job is finished with the first of its artifacts.
FinishedWithAny(w) == {j \in Job : job[j].state = "done" /\ \E a \in w.marked : a[1] = j}

\* Mutant: the sweep's own marks are not taken out of what it sees alive.
FinishedNever(w) ==
  {j \in Job : /\ job[j].state = "done" /\ \E a \in w.marked : a[1] = j
               /\ ~ \E a \in w.live : a[1] = j}

\* Done jobs that lost an artifact to this sweep, and of which its snapshot saw no other.
Finished(w) ==
  {j \in Job : /\ job[j].state = "done" /\ \E a \in w.marked : a[1] = j
               /\ ~ \E a \in w.live \ w.marked : a[1] = j}

\* The marks become visible, and carry the time the sweep began.
CommitSweep(s) ==
  /\ sweep[s] # None
  /\ artifact' = [a \in Artifact |-> IF a \in sweep[s].marked
                                     THEN [artifact[a] EXCEPT !.deleted_at = sweep[s].at]
                                     ELSE artifact[a]]
  /\ job' = [j \in Job |-> IF j \in Finished(sweep[s])
                           THEN [job[j] EXCEPT !.state = "expired"] ELSE job[j]]
  /\ sweep' = [sweep EXCEPT ![s] = None]
  /\ UNCHANGED <<now, retention, bucket, split, request, link>>

--------------------------------------------------------------------------------
(* getArtifact, the link, the bucket's rules                               *)

\* Mutant: the link lives as long as links live.
UncappedTtl(left) == Max({1, Ttl})

\* How long a link lives: what is left of the retention at most, a second at least.
LinkTtl(left) == Max({1, Min({Ttl, Max({1, left})})})

\* getArtifact reads the job: one that has not ended is refused with 409, and one that has
\* expired with 410, whatever its row says.
FetchJob(a) ==
  /\ request = None /\ link = None
  /\ job[a[1]].state \in {"done", "failed"}
  /\ request' = [of |-> a, expires_at |-> None]
  /\ UNCHANGED <<now, retention, job, artifact, bucket, sweep, split, link>>

\* It reads the row, and refuses one that is not there or is marked.
SelectArtifact ==
  /\ request # None /\ request.expires_at = None
  /\ request' = IF Live(request.of)
                THEN [request EXCEPT !.expires_at = artifact[request.of].expires_at] ELSE None
  /\ UNCHANGED <<now, retention, job, artifact, bucket, sweep, split, link>>

\* It mints the link from what it has read, by the clock of this moment: no await lies
\* between what is left of the retention and the expiry that is signed.
MintLink ==
  /\ request # None /\ request.expires_at # None
  /\ link' = [of |-> request.of, expiresAt |-> now + LinkTtl(request.expires_at - now)]
  /\ request' = None
  /\ UNCHANGED <<now, retention, job, artifact, bucket, sweep, split>>

\* The bucket's rule: some time after the age it names.
LifecycleDeletes(key) ==
  /\ key[1] # Keep /\ bucket[key] # None
  /\ now - bucket[key] >= LifecycleDays(key[1]) * Day
  /\ bucket' = [bucket EXCEPT ![key] = None]
  /\ UNCHANGED <<now, retention, job, artifact, sweep, split, request, link>>

\* verifySignedPath refuses a link once its expiry is reached: it is forgotten.
Usable(l, t) == l # None /\ l.expiresAt > t

Tick ==
  /\ now < Horizon
  /\ now' = now + 1
  /\ link' = IF Usable(link, now') THEN link ELSE None
  /\ UNCHANGED <<retention, job, artifact, bucket, sweep, split, request>>

Next ==
  \/ \E days \in Plan \cup {None} : SetRetention(days)
  \/ \E j \in Job : \/ Lease(j) \/ LoseAttempt(j)
                    \/ \E kind \in Kind : Upload(j, kind)
                    \/ \E outcome \in {"done", "failed"} : Complete(j, outcome)
  \/ \E s \in Sweep : CommitSweep(s) \/ \E M \in SUBSET Due : BeginSweep(s, M)
  \/ \E a \in Artifact : FetchJob(a)
  \/ SelectArtifact \/ MintLink
  \/ \E key \in Key : LifecycleDeletes(key)
  \/ Tick

Spec == Init /\ [][Next]_vars

--------------------------------------------------------------------------------
TypeOK ==
  /\ now \in 0..Horizon
  /\ retention \in Plan \cup {None}
  /\ job \in [Job -> [state : {"queued", "leased", "done", "failed", "expired"},
                      attempt : 0..MaxAttempts, days : Nat \cup {None},
                      uploaded : SUBSET Kind]]
  /\ artifact \in [Artifact -> Stored \cup {None}]
  /\ bucket \in [Key -> 0..Horizon \cup {None}]
  /\ sweep \in [Sweep -> Run \cup {None}]
  /\ split \subseteq Job
  /\ request \in Asked \cup {None}
  /\ link \in Link \cup {None}

\* An artifact that has not expired is in the bucket: rounding up and the extra day make
\* up for the object being older than its row.  It may not be if the retention grew
\* while the take was filmed: the key has the lease's, the row that of its completion.
PromiseKept ==
  \A a \in Artifact :
     Live(a) /\ now < artifact[a].expires_at /\ artifact[a].days <= job[a[1]].days
       => bucket[artifact[a].key] # None

\* A job says expired only when all it had is gone, however the sweeps interleave and
\* wherever the batch was cut.
ExpiredIsGone ==
  \A j \in Job, kind \in Kind : job[j].state = "expired" => ~Live(<<j, kind>>)

\* A done job with nothing left to download becomes expired, unless two sweeps held
\* its artifacts at once: then it says done for ever.
StuckOnlyByOverlap ==
  \A j \in Job :
     job[j].state = "done" /\ j \notin split => \E kind \in Kind : Live(<<j, kind>>)

\* Of a row that has expired, swept or not, no link works beyond the second in which it
\* was minted: none that was handed out earlier works at all.  A request may read the row
\* before a sweep commits and mint afterwards, however late.
LinksEndWithRow ==
  Usable(link, now) /\ artifact[link.of].expires_at <= now => link.expiresAt = now + 1
================================================================================
