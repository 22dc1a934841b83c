------------------------------- MODULE Submission ------------------------------
(***************************************************************************)
(* Submissions of one org in one month: submitJob of the API worker, with  *)
(* its two KV caches, around submit_job of the database, a transaction at  *)
(* READ COMMITTED in which every statement reads what is committed when it *)
(* starts.  Calls interleave at every await and at every statement.        *)
(*                                                                         *)
(* A job's options are one option: a body names it or inherits it from the *)
(* project's defaults.  KV may miss at any time and never expires an entry *)
(* by itself: a hit may be as old as it likes.  A call that dies is one    *)
(* that takes no further step.                                             *)
(***************************************************************************)
EXTENDS Naturals, Sequences, FiniteSets

CONSTANTS
  Call,       \* requests in flight at once
  Key, NoKey, \* idempotency keys, and a body without one
  Project,
  Preset,     \* values of the option
  Inherit,    \* a body that leaves it to the project
  None,       \* nothing cached, nothing read yet
  JobLimit,   \* max_jobs_per_month
  MaxCalls,   \* requests ever sent
  MaxEdits    \* changes of a project's defaults

ASSUME SubmissionAssumption ==
  /\ IsFiniteSet(Call) /\ Call # {}
  /\ NoKey \notin Key /\ Inherit \notin Preset
  /\ None \notin Preset \cup Project
  /\ JobLimit \in Nat \ {0} /\ MaxCalls \in Nat /\ MaxEdits \in Nat

VARIABLES
  jobs,       \* the org's rows of render_jobs, in the order they were committed
  defaults,   \* projects.default_options
  edits,      \* how often an admin changed them
  kvDefaults, \* proj:<org>:<slug>
  kvIdem,     \* idem:<org>:<key>
  call,       \* the requests
  begun,      \* how many were sent
  told        \* the jobs named by a 200 or a 202, by key

vars == <<jobs, defaults, edits, kvDefaults, kvIdem, call, begun, told>>

\* A row: its key, its project, the options stored, and what its author asked for.
Job == [key : Key \cup {NoKey}, project : Project,
        options : Preset, body : Preset \cup {Inherit}]

\* An entry of the idempotency cache; the fingerprint is what it was taken over.
IdempotencyRecord == [job : Nat \ {0}, fingerprint : Preset]

\* Where a request is: the awaits of submitJob, then the statements of submit_job
\* ("limits" to "commit"), then submitJob again.
Edge      == {"defaults", "caching", "idem", "find"}
Statement == {"limits", "project", "select", "insert", "commit"}
Point     == Edge \cup Statement \cup {"idle", "late", "remember", "answered"}

Answer == {"none", "accepted", "replayed", "conflict", "collided", "refused"}

Request == [at : Point, key : Key \cup {NoKey}, project : Project \cup {None},
            body : Preset \cup {Inherit},
            fingerprint : Preset \cup {None}, \* over the options resolved at the edge
            options : Preset \cup {None},     \* as read, then as merged for the insert
            job : Nat,            \* the row it found or inserted, or 0
            answer : Answer,
            known : BOOLEAN]      \* when it was sent, its key had been answered with a job

\* A slot nobody has used; a request starts from it.
Fresh == [at |-> "idle", key |-> NoKey, project |-> None, body |-> Inherit,
          fingerprint |-> None, options |-> None,
          job |-> 0, answer |-> "none", known |-> FALSE]

--------------------------------------------------------------------------------
\* The defaults sit underneath: an option the body names wins.
Resolved(fallback, body) == IF body = Inherit THEN fallback ELSE body

\* Mutant: the fingerprint is taken over the submitted options.
FingerprintSubmitted(fallback, body) == body

\* What a replay is compared by: the script, and the options resolved against the
\* defaults as the edge knows them.
Fingerprint(fallback, body) == Resolved(fallback, body)

\* The rows a select by idempotency key finds, by number.
WithKey(k) == {j \in DOMAIN jobs : jobs[j].key = k}

RowOf(k) == CHOOSE j \in WithKey(k) : TRUE

Init ==
  /\ jobs = <<>>
  /\ defaults \in [Project -> Preset]
  /\ edits = [p \in Project |-> 0]
  /\ kvDefaults = [p \in Project |-> None]
  /\ kvIdem = [k \in Key |-> None]
  /\ call = [c \in Call |-> Fresh]
  /\ begun = 0
  /\ told = [k \in Key |-> {}]

--------------------------------------------------------------------------------
(* submitJob, up to the call of submit_job.                                *)

\* Mutant: a body without a key keeps whatever stood there, not null.
BeginUnset(c, k, p, body) ==
  /\ call[c].at \in {"idle", "answered"}
  /\ begun < MaxCalls
  /\ begun' = begun + 1
  /\ call' = [call EXCEPT ![c] =
                 [Fresh EXCEPT !.at = IF k = NoKey THEN "limits" ELSE "defaults",
                               !.key = IF k = NoKey THEN None ELSE k,
                               !.project = p, !.body = body]]
  /\ UNCHANGED <<jobs, defaults, edits, kvDefaults, kvIdem, told>>

\* A body that passes validation; without a key nothing is looked up.
Begin(c, k, p, body) ==
  /\ call[c].at \in {"idle", "answered"}
  /\ begun < MaxCalls
  /\ begun' = begun + 1
  /\ call' = [call EXCEPT ![c] =
                 [Fresh EXCEPT !.at = IF k = NoKey THEN "limits" ELSE "defaults",
                               !.key = k, !.project = p, !.body = body,
                               !.known = k \in Key /\ told[k] # {}]]
  /\ UNCHANGED <<jobs, defaults, edits, kvDefaults, kvIdem, told>>

\* projectDefaults: a hit ...
DefaultsHit(c) ==
  LET r == call[c] IN
  /\ r.at = "defaults"
  /\ kvDefaults[r.project] # None
  /\ call' = [call EXCEPT ![c].at = "idem",
                          ![c].fingerprint = Fingerprint(kvDefaults[r.project], r.body)]
  /\ UNCHANGED <<jobs, defaults, edits, kvDefaults, kvIdem, begun, told>>

\* ... or a miss, answered by the row as it is now ...
DefaultsRead(c) ==
  LET r == call[c] IN
  /\ r.at = "defaults"
  /\ call' = [call EXCEPT ![c].at = "caching", ![c].options = defaults[r.project]]
  /\ UNCHANGED <<jobs, defaults, edits, kvDefaults, kvIdem, begun, told>>

\* ... and put in KV over whatever was put there meanwhile.
DefaultsCached(c) ==
  LET r == call[c] IN
  /\ r.at = "caching"
  /\ kvDefaults' = [kvDefaults EXCEPT ![r.project] = r.options]
  /\ call' = [call EXCEPT ![c].at = "idem", ![c].fingerprint = Fingerprint(r.options, r.body)]
  /\ UNCHANGED <<jobs, defaults, edits, kvIdem, begun, told>>

\* The answer of a request that ends here, naming the job it is about if it is
\* accepted.
Answered(c, answer, j) ==
  /\ call' = [call EXCEPT ![c].at = "answered", ![c].answer = answer, ![c].job = j]
  /\ told' = IF answer \in {"accepted", "replayed"} /\ call[c].key \in Key
             THEN [told EXCEPT ![call[c].key] = @ \cup {j}] ELSE told

\* The idempotency cache is asked: a hit is compared by its fingerprint alone.
IdempotencyHit(c) ==
  LET r == call[c] IN
  /\ r.at = "idem"
  /\ kvIdem[r.key] # None
  /\ LET cached == kvIdem[r.key] IN
     IF cached.fingerprint # r.fingerprint
     THEN Answered(c, "conflict", 0)
     ELSE Answered(c, "replayed", cached.job)
  /\ UNCHANGED <<jobs, defaults, edits, kvDefaults, kvIdem, begun>>

\* Mutant: a miss goes straight to submit_job.
IdempotencyMissTrusted(c) ==
  /\ call[c].at = "idem"
  /\ call' = [call EXCEPT ![c].at = "limits"]
  /\ UNCHANGED <<jobs, defaults, edits, kvDefaults, kvIdem, begun, told>>

IdempotencyMiss(c) ==
  /\ call[c].at = "idem"
  /\ call' = [call EXCEPT ![c].at = "find"]
  /\ UNCHANGED <<jobs, defaults, edits, kvDefaults, kvIdem, begun, told>>

\* findByIdempotencyKey, and the comparison with the stored row.
FindByIdempotencyKey(c) ==
  LET r == call[c] IN
  /\ r.at = "find"
  /\ IF WithKey(r.key) = {}
     THEN call' = [call EXCEPT ![c].at = "limits"] /\ UNCHANGED told
     ELSE IF jobs[RowOf(r.key)].options # r.fingerprint
     THEN Answered(c, "conflict", 0)
     ELSE /\ call' = [call EXCEPT ![c].at = "remember", ![c].answer = "replayed",
                                  ![c].job = RowOf(r.key)]
          /\ UNCHANGED told
  /\ UNCHANGED <<jobs, defaults, edits, kvDefaults, kvIdem, begun>>

--------------------------------------------------------------------------------
(* submit_job, a statement at a time.                                      *)

\* Mutant: the comparison with the limit lets one more through.
LimitReachedOffByOne == Len(jobs) > JobLimit

\* record_usage counts a job in the transaction that inserts it, so jobs_submitted
\* of the month is the number of rows committed.  The limits on seconds and bytes
\* are compared in the same way and at the same place.
LimitReached == Len(jobs) >= JobLimit

CheckLimits(c) ==
  /\ call[c].at = "limits"
  /\ IF LimitReached
     THEN Answered(c, "refused", 0)
     ELSE call' = [call EXCEPT ![c].at = "project"] /\ UNCHANGED told
  /\ UNCHANGED <<jobs, defaults, edits, kvDefaults, kvIdem, begun>>

\* The transactions that hold a project's row, from its upsert to their end.
Holders(p) == {d \in Call : call[d].project = p /\ call[d].at \in {"select", "insert", "commit"}}

\* The upsert waits for the row, then reads the defaults under its lock.
UpsertProject(c) ==
  LET r == call[c] IN
  /\ r.at = "project"
  /\ Holders(r.project) = {}
  /\ call' = [call EXCEPT ![c].at = IF r.key = NoKey THEN "insert" ELSE "select",
                          ![c].options = Resolved(defaults[r.project], r.body)]
  /\ UNCHANGED <<jobs, defaults, edits, kvDefaults, kvIdem, begun, told>>

\* Found, the row is what submit_job returns.
SelectKey(c) ==
  LET r == call[c] IN
  /\ r.at = "select"
  /\ call' = IF WithKey(r.key) = {}
             THEN [call EXCEPT ![c].at = "insert"]
             ELSE [call EXCEPT ![c].at = "late", ![c].job = RowOf(r.key)]
  /\ UNCHANGED <<jobs, defaults, edits, kvDefaults, kvIdem, begun, told>>

\* Another transaction has entered the key in the unique index and not committed.
KeyPending(k) == \E d \in Call : call[d].key = k /\ call[d].at = "commit"

\* Mutant: there is no unique index on (org_id, idempotency_key).
KeyTakenNever(k) == FALSE

KeyTaken(k) == WithKey(k) # {}

\* The insert waits for a pending key, and fails on a committed one (23505).
InsertJob(c) ==
  LET r == call[c] IN
  /\ r.at = "insert"
  /\ r.key = NoKey \/ ~KeyPending(r.key)
  /\ IF r.key # NoKey /\ KeyTaken(r.key)
     THEN Answered(c, "collided", 0)
     ELSE call' = [call EXCEPT ![c].at = "commit"] /\ UNCHANGED told
  /\ UNCHANGED <<jobs, defaults, edits, kvDefaults, kvIdem, begun>>

\* record_usage and the commit, which ends every lock.
Commit(c) ==
  LET r == call[c] IN
  /\ r.at = "commit"
  /\ jobs' = Append(jobs, [key |-> r.key, project |-> r.project,
                           options |-> r.options, body |-> r.body])
  /\ IF r.key = NoKey
     THEN Answered(c, "accepted", Len(jobs) + 1)
     ELSE /\ call' = [call EXCEPT ![c].at = "late", ![c].job = Len(jobs) + 1]
          /\ UNCHANGED told
  /\ UNCHANGED <<defaults, edits, kvDefaults, kvIdem, begun>>

--------------------------------------------------------------------------------
(* submitJob again.                                                        *)

\* Mutant: the record is put before the comparison that may refuse the call.
LateCheckRemembered(c) ==
  LET r == call[c] IN
  /\ r.at = "late"
  /\ kvIdem' = [kvIdem EXCEPT ![r.key] = [job |-> r.job, fingerprint |-> r.fingerprint]]
  /\ IF jobs[r.job].options # r.fingerprint
     THEN Answered(c, "conflict", 0)
     ELSE /\ call' = [call EXCEPT ![c].at = "remember", ![c].answer = "accepted"]
          /\ UNCHANGED told
  /\ UNCHANGED <<jobs, defaults, edits, kvDefaults, begun>>

\* Whichever row submit_job returned is compared with what was asked.
LateCheck(c) ==
  LET r == call[c] IN
  /\ r.at = "late"
  /\ IF jobs[r.job].options # r.fingerprint
     THEN Answered(c, "conflict", 0)
     ELSE /\ call' = [call EXCEPT ![c].at = "remember", ![c].answer = "accepted"]
          /\ UNCHANGED told
  /\ UNCHANGED <<jobs, defaults, edits, kvDefaults, kvIdem, begun>>

\* rememberIdempotency, and the answer.
RememberIdempotency(c) ==
  LET r == call[c] IN
  /\ r.at = "remember"
  /\ kvIdem' = [kvIdem EXCEPT ![r.key] = [job |-> r.job, fingerprint |-> r.fingerprint]]
  /\ Answered(c, r.answer, r.job)
  /\ UNCHANGED <<jobs, defaults, edits, kvDefaults, begun>>

SubmitJob(c) ==
  \/ DefaultsHit(c) \/ DefaultsRead(c) \/ DefaultsCached(c)
  \/ IdempotencyHit(c) \/ IdempotencyMiss(c) \/ FindByIdempotencyKey(c)
  \/ CheckLimits(c) \/ UpsertProject(c) \/ SelectKey(c) \/ InsertJob(c) \/ Commit(c)
  \/ LateCheck(c) \/ RememberIdempotency(c)

\* An admin changes a project's defaults; the row must not be locked.
SetDefaults(p, d) ==
  /\ edits[p] < MaxEdits
  /\ d # defaults[p]
  /\ Holders(p) = {}
  /\ defaults' = [defaults EXCEPT ![p] = d]
  /\ edits' = [edits EXCEPT ![p] = @ + 1]
  /\ UNCHANGED <<jobs, kvDefaults, kvIdem, call, begun, told>>

Next ==
  \/ \E c \in Call : SubmitJob(c)
  \/ \E c \in Call, k \in Key \cup {NoKey}, p \in Project, body \in Preset \cup {Inherit} :
        Begin(c, k, p, body)
  \/ \E p \in Project, d \in Preset : SetDefaults(p, d)

Spec == Init /\ [][Next]_vars

--------------------------------------------------------------------------------
TypeOK ==
  /\ jobs \in Seq(Job)
  /\ defaults \in [Project -> Preset]
  /\ edits \in [Project -> 0..MaxEdits]
  /\ kvDefaults \in [Project -> Preset \cup {None}]
  /\ kvIdem \in [Key -> IdempotencyRecord \cup {None}]
  /\ call \in [Call -> Request]
  /\ begun \in 0..MaxCalls
  /\ told \in [Key -> SUBSET Nat]

\* A key is good for one job: no two rows carry it, and every 200 or 202 to a call
\* with the key names that job, whichever cache, select or insert it came from.
KeyNamesOneJob ==
  \A k \in Key : Cardinality(WithKey(k)) <= 1 /\ told[k] \subseteq WithKey(k)

\* The monthly limit is overshot by no more than the submissions that were in flight
\* together, less the one that has a right to the last place: the counters are read
\* before anything serialises the calls.
OvershootBounded == Len(jobs) <= JobLimit + Cardinality(Call) - 1

\* A call with a key is never told of a job that renders something else than what it
\* was compared with, nor than the option its body names.
RendersWhatWasAsked ==
  \A c \in Call :
     call[c].at = "answered" /\ call[c].answer \in {"accepted", "replayed"} =>
        LET made == jobs[call[c].job].options IN
        /\ call[c].key \in Key => made = call[c].fingerprint
        /\ call[c].body \in Preset => made = call[c].body

\* A row whose author asked for what the call asks for: the same body and, where it
\* leaves the option to the project, the same project, whose defaults nobody changed.
Repeats(c, j) ==
  /\ jobs[j].body = call[c].body
  /\ call[c].body = Inherit =>
        jobs[j].project = call[c].project /\ edits[call[c].project] = 0

\* Every 409 has its cause, and stale caches or the order of two calls are none by
\* themselves.  A conflict is with a row that the call does not repeat: it has another
\* body, or leaves the option to another project, or to one whose defaults an admin has
\* changed.  A collision in the unique index is with a row of another project.
ConflictHasCause ==
  \A c \in Call : call[c].at = "answered" =>
     /\ call[c].answer = "conflict" => \E j \in WithKey(call[c].key) : ~Repeats(c, j)
     /\ call[c].answer = "collided" =>
           /\ call[c].key \in Key
           /\ \E j \in WithKey(call[c].key) : jobs[j].project # call[c].project

\* A retry sent after its original was answered is recognised: neither the monthly
\* limit nor the unique index is ever its answer, and if it repeats its original it is
\* answered with the original's job.
RetryIsRecognised ==
  \A c \in Call : call[c].at = "answered" /\ call[c].known =>
     /\ call[c].answer \in {"replayed", "conflict"}
     /\ \A j \in WithKey(call[c].key) :
           Repeats(c, j) => call[c].answer = "replayed" /\ call[c].job = j
================================================================================
