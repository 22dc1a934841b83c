------------------------------ MODULE LeasePolls -------------------------------
(***************************************************************************)
(* The queue polled by several boxes at once.  lease_next_job runs at READ *)
(* COMMITTED: its one statement counts in-flight jobs and picks candidates *)
(* in the snapshot it opened, then locks a candidate (skipping locked ones *)
(* and looking again at the row it locked, but not at the count), and its  *)
(* update is seen by others when it commits.  RenderQueue's LeaseNextJob   *)
(* is therefore three steps here; what other transactions do with a row    *)
(* waits while the row is locked.                                          *)
(*                                                                         *)
(* The functions of RenderQueue that are one locked row and no count stay  *)
(* one step.  Retention touches no job that a poll looks at and is left    *)
(* out; Told names the reports that workers make.                          *)
(***************************************************************************)
EXTENDS RenderQueue

CONSTANTS
  Box,   \* the worker processes that poll
  Told   \* the reports made to complete_job

ASSUME BoxAssumption == IsFiniteSet(Box) /\ Box # {}
ASSUME ToldAssumption == Told \subseteq Report

VARIABLES
  offer,  \* of each box, the jobs its open statement found leasable
  locked  \* of each box, the row its statement has locked: at most one

pollVars == <<jobs, artifacts, minted, ledger, counters, offer, locked>>

Locked(j) == \E b \in Box : j \in locked[b]

--------------------------------------------------------------------------------
PollInit ==
  /\ Init
  /\ offer = [b \in Box |-> {}]
  /\ locked = [b \in Box |-> {}]

\* The statement opens its snapshot: the candidates and, for each, the count of
\* its org's jobs in flight.  Without a candidate it returns no row.
OpenSnapshot(b) ==
  /\ offer[b] = {}
  /\ locked[b] = {}
  /\ offer' = [offer EXCEPT ![b] =
                 {j \in Job : Leasable(j, Cardinality(InFlightOf(OrgOf[j])))}]
  /\ UNCHANGED <<vars, locked>>

\* Mutant: the candidate is neither locked nor looked at again.
CandidateUnlocked(j) == TRUE

\* for update skip locked: the row is free and, as it is now, still qualifies.
Candidate(j) ==
  /\ ~Locked(j)
  /\ jobs[j].state = "queued" /\ ~jobs[j].held /\ ~jobs[j].cancel

LockCandidate(b, j) ==
  /\ locked[b] = {}
  /\ j \in offer[b]
  /\ Candidate(j)
  /\ locked' = [locked EXCEPT ![b] = {j}]
  /\ UNCHANGED <<vars, offer>>

\* Every candidate of the snapshot is locked or gone: no row is returned.
ComeAwayEmpty(b) ==
  /\ locked[b] = {}
  /\ offer[b] # {}
  /\ \A j \in offer[b] : ~Candidate(j)
  /\ offer' = [offer EXCEPT ![b] = {}]
  /\ UNCHANGED <<vars, locked>>

CommitLease(b, j) ==
  /\ j \in locked[b]
  /\ TakeLease(j)
  /\ offer' = [offer EXCEPT ![b] = {}]
  /\ locked' = [locked EXCEPT ![b] = {}]
  /\ UNCHANGED <<artifacts, ledger, counters>>

Poll == \E b \in Box :
  \/ OpenSnapshot(b)
  \/ ComeAwayEmpty(b)
  \/ \E j \in Job : LockCandidate(b, j) \/ CommitLease(b, j)

--------------------------------------------------------------------------------
\* The other transactions, on a row no poll holds.
Rest == \E j \in Job :
  \/ /\ ~Locked(j)
     /\ \/ InsertJob(j)
        \/ RequestCancel(j)
        \/ \E flag \in BOOLEAN : WriteCancelFlag(j, flag)
        \/ ReapExpiredLeases({j})
        \/ \E t \in 1..minted :
             \/ \E s \in {"same", "running", "uploading"} : ReportProgress(j, t, s)
             \/ \E r \in Told : CompleteJob(j, t, r)
  \/ LeaseLapses(j)
  \/ BackoffElapses(j)

PollNext ==
  \/ Poll
  \/ Rest /\ UNCHANGED <<offer, locked>>

PollSpec == PollInit /\ [][PollNext]_pollVars

--------------------------------------------------------------------------------
\* docs/LIFECYCLE.md: a job is only offered while its org is under
\* max_concurrent_renders, "counted live inside lease_next_job", with "no
\* read-then-write window for two workers to race through".  So no org ever has
\* more jobs on boxes than its limit.
OrgWithinLimit == \A o \in Org : Cardinality(InFlightOf(o)) <= Limit[o]

\* What the count does guarantee: each box's open statement may let one job
\* through unseen, so an org exceeds its limit by less than the number of boxes,
\* however leases, reaps, retries and cancels interleave with the polls.
OvershootBounded == \A o \in Org :
  Cardinality(InFlightOf(o)) <= Limit[o] + Cardinality(Box) - 1

\* A lease is never taken over: a job goes from one holder to the next only
\* through the queue, however many boxes poll at once.
LeaseNeverTakenOver == [][\A j \in Job :
  jobs[j].token # NoToken => jobs'[j].token \in {jobs[j].token, NoToken}]_pollVars
================================================================================
