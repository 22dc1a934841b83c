--------------------------- MODULE LeasePollsProofs ----------------------------
(***************************************************************************)
(* Overlapping polls, for any number of boxes, jobs and orgs.  Taken apart *)
(* into a snapshot, a lock and a commit, lease_next_job still keeps the    *)
(* queue's own invariant, because the row it commits is the row it looked  *)
(* at again when it locked it; the count is what it does not look at again.*)
(***************************************************************************)
EXTENDS LeasePolls, RenderQueueProofs

PollTypes ==
  /\ offer \in [Box -> SUBSET Job]
  /\ locked \in [Box -> SUBSET Job]

\* A locked row was offered to its box, is still queued, and is locked by it alone.
LockInv == \A b \in Box : \A j \in locked[b] :
  /\ j \in offer[b]
  /\ jobs[j].state = "queued"
  /\ locked[b] = {j}
  /\ \A c \in Box \ {b} : j \notin locked[c]

\* The boxes whose open statement was offered a job of the org.
Polling(o) == {b \in Box : \E j \in offer[b] : OrgOf[j] = o}

\* The bound holds already with a job for each of them.
PlacesInv == \A o \in Org :
  Cardinality(InFlightOf(o)) + Cardinality(Polling(o)) <= Limit[o] + Cardinality(Box) - 1

\* The inductive invariant: the queue's, and that of the polls.
PInv == IInv /\ PollTypes /\ LockInv /\ PlacesInv

--------------------------------------------------------------------------------
(* The other transactions: no lease begins but by a poll.                  *)

\* What the step of one other transaction, or of the clock, makes of its row.
Writes(j) ==
  /\ \A k \in Job \ {j} : jobs'[k] = jobs[k]
  /\ Locked(j) => jobs'[j].state = jobs[j].state
  /\ jobs'[j].state \in InFlight => jobs[j].state \in InFlight
  /\ jobs'[j].token \in {jobs[j].token, NoToken}

\* It is enough to know the row it writes.
LEMMA WritesOne ==
  ASSUME jobs \in [Job -> Row], NEW j \in Job, NEW new, jobs' = [jobs EXCEPT ![j] = new],
         Locked(j) => new.state = jobs[j].state,
         new.state \in InFlight => jobs[j].state \in InFlight,
         new.token \in {jobs[j].token, NoToken}
  PROVE  Writes(j)
  BY DEF Writes

LEMMA InsertWrites ==
  ASSUME IInv, NEW j \in Job, ~Locked(j), InsertJob(j) PROVE Writes(j)
<1> DEFINE new == [BlankRow EXCEPT !.state = "queued"]
<1>1. new.state = "queued" /\ new.token = NoToken
  BY DEF BlankRow
<1>2. new.state \notin InFlight
  BY <1>1 DEF InFlight
<1> QED
  BY <1>1, <1>2, WritesOne DEF IInv, TypeOK, InsertJob

LEMMA CancelWrites ==
  ASSUME IInv, NEW j \in Job, ~Locked(j), RequestCancel(j) PROVE Writes(j)
<1> DEFINE new == Enforced(jobs[j], CancelAsked(jobs[j]))
<1>1. /\ jobs \in [Job -> Row] /\ minted \in Nat /\ RowInv(jobs[j], minted, ledger[j])
      /\ jobs' = [jobs EXCEPT ![j] = new] /\ jobs[j].state \notin Terminal \cup {Absent}
  BY DEF IInv, TypeOK, RequestCancel, Update
<1>2. new.token = jobs[j].token
  BY <1>1, CancelAskedRow
<1>3. new.state = IF jobs[j].state = "queued" THEN "cancelled" ELSE jobs[j].state
  BY <1>1, SeenCancelAsked
<1> QED
  BY <1>1, <1>2, <1>3, WritesOne DEF InFlight

LEMMA ReapWrites ==
  ASSUME IInv, NEW j \in Job, ~Locked(j), ReapExpiredLeases({j}) PROVE Writes(j)
<1> DEFINE new == Enforced(jobs[j], Reaped(jobs[j]))
<1>1. /\ jobs \in [Job -> Row] /\ minted \in Nat /\ RowInv(jobs[j], minted, ledger[j])
      /\ jobs[j].state \in InFlight /\ jobs'[j] = new
      /\ \A k \in Job \ {j} : jobs'[k] = jobs[k]
  BY DEF IInv, TypeOK, ReapExpiredLeases, Reapable
<1>2. new.token = NoToken
  BY <1>1, ReapedRow
<1> QED
  BY <1>1, <1>2 DEF Writes

LEMMA ReportWrites ==
  ASSUME IInv, NEW j \in Job, ~Locked(j), NEW t \in 1..minted,
         NEW s \in {"same", "running", "uploading"}, ReportProgress(j, t, s)
  PROVE  Writes(j)
<1> DEFINE new == Enforced(jobs[j], Reported(jobs[j], s))
<1>1. /\ jobs \in [Job -> Row] /\ minted \in Nat /\ RowInv(jobs[j], minted, ledger[j])
      /\ jobs[j].state \in InFlight /\ jobs' = [jobs EXCEPT ![j] = new]
      /\ Accepted(jobs[j], Reported(jobs[j], s))
  BY DEF IInv, TypeOK, ReportProgress, HoldsLease, Update
<1>2. new.token = jobs[j].token
  BY <1>1, ReportedRow
<1> QED
  BY <1>1, <1>2, WritesOne

LEMMA CompleteWrites ==
  ASSUME IInv, NEW j \in Job, ~Locked(j), NEW t \in 1..minted, NEW r \in Report,
         CompleteJob(j, t, r)
  PROVE  Writes(j)
<1> DEFINE new == Enforced(jobs[j], Completed(jobs[j], r, NextState(jobs[j], r)))
<1>1. /\ jobs \in [Job -> Row] /\ minted \in Nat /\ RowInv(jobs[j], minted, ledger[j])
      /\ jobs[j].state \in InFlight /\ jobs' = [jobs EXCEPT ![j] = new]
      /\ Accepted(jobs[j], Completed(jobs[j], r, NextState(jobs[j], r)))
  BY DEF IInv, TypeOK, CompleteJob, HoldsLease, Update
<1>2. new.token = NoToken
  BY <1>1, CompletedRow
<1> QED
  BY <1>1, <1>2, WritesOne

\* The flag and the clock touch neither the state nor the lease.
LEMMA MarkWrites ==
  ASSUME IInv, NEW j \in Job,
         (\E flag \in BOOLEAN : WriteCancelFlag(j, flag)) \/ LeaseLapses(j) \/ BackoffElapses(j)
  PROVE  Writes(j)
<1>1. jobs \in [Job -> Row]
  BY DEF IInv, TypeOK
<1>2. ASSUME NEW flag \in BOOLEAN, WriteCancelFlag(j, flag) PROVE Writes(j)
  <2> DEFINE new == [jobs[j] EXCEPT !.cancel = flag]
  <2>1. new.state = jobs[j].state /\ new.token = jobs[j].token
    BY <1>1 DEF Row
  <2>2. jobs' = [jobs EXCEPT ![j] = new]
    BY <1>1, <1>2 DEF WriteCancelFlag, Row
  <2> QED
    BY <1>1, <2>1, <2>2, WritesOne
<1>3. CASE LeaseLapses(j)
  <2> DEFINE new == [jobs[j] EXCEPT !.lapsed = TRUE]
  <2>1. new.state = jobs[j].state /\ new.token = jobs[j].token
    BY <1>1 DEF Row
  <2>2. jobs' = [jobs EXCEPT ![j] = new]
    BY <1>1, <1>3 DEF LeaseLapses, Row
  <2> QED
    BY <1>1, <2>1, <2>2, WritesOne
<1>4. CASE BackoffElapses(j)
  <2> DEFINE new == [jobs[j] EXCEPT !.held = FALSE]
  <2>1. new.state = jobs[j].state /\ new.token = jobs[j].token
    BY <1>1 DEF Row
  <2>2. jobs' = [jobs EXCEPT ![j] = new]
    BY <1>1, <1>4 DEF BackoffElapses, Row
  <2> QED
    BY <1>1, <2>1, <2>2, WritesOne
<1> QED
  BY <1>2, <1>3, <1>4

LEMMA RestWrites ==
  ASSUME IInv, Rest
  PROVE  \E j \in Job : Writes(j)
  BY InsertWrites, CancelWrites, ReapWrites, ReportWrites, CompleteWrites, MarkWrites,
     ToldAssumption DEF Rest

\* Every one of them is a step of the queue.
LEMMA RestIsNext == Rest => Next
  BY ToldAssumption DEF Rest, Next, Worker, Client, Maintenance, Time

--------------------------------------------------------------------------------
(* The steps.                                                              *)

LEMMA FiniteCounts ==
  ASSUME NEW o \in Org
  PROVE  /\ IsFiniteSet(InFlightOf(o)) /\ Cardinality(InFlightOf(o)) \in Nat
         /\ IsFiniteSet(Polling(o)) /\ Cardinality(Polling(o)) \in Nat
         /\ Cardinality(Polling(o)) <= Cardinality(Box)
         /\ Cardinality(Box) \in Nat /\ Limit[o] \in Nat \ {0}
<1>1. IsFiniteSet(InFlightOf(o)) /\ Cardinality(InFlightOf(o)) \in Nat
  BY JobAssumption, FS_Subset, FS_CardinalityType DEF InFlightOf
<1>2. /\ IsFiniteSet(Polling(o)) /\ Cardinality(Polling(o)) \in Nat
      /\ Cardinality(Polling(o)) <= Cardinality(Box) /\ Cardinality(Box) \in Nat
  BY BoxAssumption, FS_Subset, FS_CardinalityType DEF Polling
<1> QED
  BY <1>1, <1>2, LimitAssumption

\* Where neither grows, the bound is kept.
LEMMA PlacesKept ==
  ASSUME PlacesInv,
         \A o \in Org : InFlightOf(o)' \subseteq InFlightOf(o)
                        /\ Polling(o)' \subseteq Polling(o)
  PROVE  PlacesInv'
<1> SUFFICES ASSUME NEW o \in Org
             PROVE  Cardinality(InFlightOf(o)') + Cardinality(Polling(o)') <=
                      Limit[o] + Cardinality(Box) - 1
  BY DEF PlacesInv
<1>1. /\ Cardinality(InFlightOf(o)') <= Cardinality(InFlightOf(o))
      /\ Cardinality(InFlightOf(o)') \in Nat
  BY FiniteCounts, FS_Subset, FS_CardinalityType
<1>2. /\ Cardinality(Polling(o)') <= Cardinality(Polling(o))
      /\ Cardinality(Polling(o)') \in Nat
  BY FiniteCounts, FS_Subset, FS_CardinalityType
<1> QED
  BY <1>1, <1>2, FiniteCounts DEF PlacesInv

LEMMA InitPInv == PollInit => PInv
<1> SUFFICES ASSUME PollInit PROVE PInv
  OBVIOUS
<1>1. PollTypes /\ LockInv
  BY DEF PollInit, PollTypes, LockInv
<1>2. ASSUME NEW o \in Org
      PROVE  Cardinality(InFlightOf(o)) + Cardinality(Polling(o)) <=
               Limit[o] + Cardinality(Box) - 1
  <2>1. InFlightOf(o) = {} /\ Polling(o) = {}
    BY DEF PollInit, Init, InFlightOf, Polling, BlankRow, InFlight, Absent
  <2>2. Cardinality(Box) # 0
    BY BoxAssumption, FS_EmptySet
  <2> QED
    BY <2>1, <2>2, FS_EmptySet, FiniteCounts
<1> QED
  BY <1>1, <1>2, InitIInv DEF PollInit, PInv, PlacesInv

LEMMA OpenSnapshotStep ==
  ASSUME PInv, NEW b \in Box, OpenSnapshot(b) PROVE PInv'
<1> DEFINE found == {j \in Job : Leasable(j, Cardinality(InFlightOf(OrgOf[j])))}
<1>1. /\ IInv /\ PollTypes /\ LockInv /\ PlacesInv /\ UNCHANGED <<vars, locked>>
      /\ offer' = [offer EXCEPT ![b] = found] /\ locked[b] = {}
  BY DEF PInv, OpenSnapshot
<1>2. IInv'
  BY <1>1, NextIInv
<1>3. PollTypes' /\ LockInv'
  BY <1>1 DEF PollTypes, LockInv, vars
<1>4. ASSUME NEW o \in Org
      PROVE  Cardinality(InFlightOf(o)') + Cardinality(Polling(o)') <=
               Limit[o] + Cardinality(Box) - 1
  <2>0. InFlightOf(o)' = InFlightOf(o)
    BY <1>1 DEF InFlightOf, vars
  <2>1. CASE \E j \in found : OrgOf[j] = o
    <3>1. Cardinality(InFlightOf(o)) < Limit[o]
      BY <2>1 DEF Leasable
    <3>2. Polling(o)' \in SUBSET Box
      BY DEF Polling
    <3>3. Cardinality(Polling(o)') <= Cardinality(Box) /\ Cardinality(Polling(o)') \in Nat
      BY <3>2, BoxAssumption, FS_Subset, FS_CardinalityType
    <3> QED
      BY <2>0, <3>1, <3>3, FiniteCounts
  <2>2. CASE ~\E j \in found : OrgOf[j] = o
    <3>1. Polling(o)' \subseteq Polling(o)
      BY <1>1, <2>2 DEF Polling, PollTypes
    <3>2. Cardinality(Polling(o)') <= Cardinality(Polling(o)) /\ Cardinality(Polling(o)') \in Nat
      BY <3>1, FiniteCounts, FS_Subset, FS_CardinalityType
    <3> QED
      BY <1>1, <2>0, <3>2, FiniteCounts DEF PlacesInv
  <2> QED
    BY <2>1, <2>2
<1> QED
  BY <1>2, <1>3, <1>4 DEF PInv, PlacesInv

LEMMA LockCandidateStep ==
  ASSUME PInv, NEW b \in Box, NEW j \in Job, LockCandidate(b, j) PROVE PInv'
<1>1. /\ IInv /\ PollTypes /\ LockInv /\ PlacesInv /\ UNCHANGED <<vars, offer>>
      /\ locked' = [locked EXCEPT ![b] = {j}] /\ locked[b] = {} /\ j \in offer[b]
      /\ ~Locked(j) /\ jobs[j].state = "queued"
  BY DEF PInv, LockCandidate, Candidate
<1>2. IInv'
  BY <1>1, NextIInv
<1>3. PollTypes'
  BY <1>1 DEF PollTypes
<1>4. LockInv'
  BY <1>1 DEF PollTypes, LockInv, Locked, vars
<1>5. PlacesInv'
  BY <1>1, PlacesKept DEF InFlightOf, Polling, vars
<1> QED
  BY <1>2, <1>3, <1>4, <1>5 DEF PInv

LEMMA ComeAwayEmptyStep ==
  ASSUME PInv, NEW b \in Box, ComeAwayEmpty(b) PROVE PInv'
<1>1. /\ IInv /\ PollTypes /\ LockInv /\ PlacesInv /\ UNCHANGED <<vars, locked>>
      /\ offer' = [offer EXCEPT ![b] = {}] /\ locked[b] = {}
  BY DEF PInv, ComeAwayEmpty
<1>2. IInv'
  BY <1>1, NextIInv
<1>3. PollTypes' /\ LockInv'
  BY <1>1 DEF PollTypes, LockInv, vars
<1>4. \A o \in Org : InFlightOf(o)' \subseteq InFlightOf(o) /\ Polling(o)' \subseteq Polling(o)
  BY <1>1 DEF InFlightOf, Polling, PollTypes, vars
<1>5. PlacesInv'
  BY <1>1, <1>4, PlacesKept
<1> QED
  BY <1>2, <1>3, <1>5 DEF PInv

\* The row a commit writes was locked while it was queued.
LEMMA CommitWrites ==
  ASSUME PInv, NEW b \in Box, NEW j \in Job, CommitLease(b, j)
  PROVE  /\ jobs[j].state = "queued" /\ jobs[j].token = NoToken
         /\ jobs'[j].state = "leased"
         /\ \A k \in Job \ {j} : jobs'[k] = jobs[k]
<1> DEFINE new == Enforced(jobs[j], Leased(jobs[j], minted + 1))
<1>1. jobs[j].state = "queued" /\ jobs \in [Job -> Row] /\ minted \in Nat
      /\ CoherentRow(jobs[j])
  BY DEF PInv, LockInv, CommitLease, IInv, RowInv, TypeOK
<1>2. jobs' = [jobs EXCEPT ![j] = new]
  BY DEF CommitLease, TakeLease, Update
<1>3. new.state = "leased"
  BY <1>1, SeenLeased
<1> QED
  BY <1>1, <1>2, <1>3 DEF CoherentRow, InFlight

\* A commit puts a job in flight and takes its box from those that may.
LEMMA CommitLeaseStep ==
  ASSUME PInv, NEW b \in Box, NEW j \in Job, CommitLease(b, j) PROVE PInv'
<1>1. /\ IInv /\ PollTypes /\ LockInv /\ PlacesInv
      /\ offer' = [offer EXCEPT ![b] = {}] /\ locked' = [locked EXCEPT ![b] = {}]
      /\ j \in locked[b] /\ j \in offer[b]
      /\ TakeLease(j) /\ UNCHANGED <<artifacts, ledger, counters>>
  BY DEF PInv, CommitLease, LockInv
<1>2. /\ jobs[j].state = "queued" /\ jobs'[j].state = "leased"
      /\ \A k \in Job \ {j} : jobs'[k] = jobs[k]
  BY CommitWrites
<1>3. IInv'
  BY <1>1, <1>2, TakeLeaseStep
<1>4. PollTypes'
  BY <1>1 DEF PollTypes
<1>5. LockInv'
  <2> SUFFICES ASSUME NEW c \in Box, NEW k \in locked'[c]
               PROVE  /\ k \in offer'[c]
                      /\ jobs'[k].state = "queued"
                      /\ locked'[c] = {k}
                      /\ \A d \in Box \ {c} : k \notin locked'[d]
    BY DEF LockInv
  <2>1. c # b /\ locked'[c] = locked[c] /\ offer'[c] = offer[c]
    BY <1>1 DEF PollTypes
  <2>2. k # j /\ k \in Job
    BY <1>1, <2>1 DEF LockInv, PollTypes
  <2>3. \A d \in Box : locked'[d] \subseteq locked[d]
    BY <1>1 DEF PollTypes
  <2> QED
    BY <1>1, <1>2, <2>1, <2>2, <2>3 DEF LockInv
<1>6. ASSUME NEW o \in Org
      PROVE  Cardinality(InFlightOf(o)') + Cardinality(Polling(o)') <=
               Limit[o] + Cardinality(Box) - 1
  <2>1. CASE OrgOf[j] = o
    <3>1. InFlightOf(o)' = InFlightOf(o) \cup {j} /\ j \notin InFlightOf(o)
      BY <1>2, <2>1 DEF InFlightOf, InFlight
    <3>2. Polling(o)' = Polling(o) \ {b} /\ b \in Polling(o)
      BY <1>1, <2>1 DEF Polling, PollTypes
    <3>3. Cardinality(InFlightOf(o)') = Cardinality(InFlightOf(o)) + 1
      BY <3>1, FiniteCounts, FS_AddElement
    <3>4. Cardinality(Polling(o)') = Cardinality(Polling(o)) - 1
      BY <3>2, FiniteCounts, FS_RemoveElement
    <3> QED
      BY <1>1, <3>3, <3>4, FiniteCounts DEF PlacesInv
  <2>2. CASE OrgOf[j] # o
    <3>1. InFlightOf(o)' = InFlightOf(o)
      BY <1>2, <2>2 DEF InFlightOf
    <3>2. Polling(o)' \subseteq Polling(o)
      BY <1>1 DEF Polling, PollTypes
    <3>3. Cardinality(Polling(o)') <= Cardinality(Polling(o)) /\ Cardinality(Polling(o)') \in Nat
      BY <3>2, FiniteCounts, FS_Subset, FS_CardinalityType
    <3> QED
      BY <1>1, <3>1, <3>3, FiniteCounts DEF PlacesInv
  <2> QED
    BY <2>1, <2>2
<1> QED
  BY <1>3, <1>4, <1>5, <1>6 DEF PInv, PlacesInv

LEMMA RestStep ==
  ASSUME PInv, Rest, UNCHANGED <<offer, locked>> PROVE PInv'
<1>1. IInv /\ PollTypes /\ LockInv /\ PlacesInv
  BY DEF PInv
<1>2. IInv'
  BY <1>1, RestIsNext, NextIInv
<1>3. PICK j \in Job : Writes(j)
  BY <1>1, RestWrites
<1>4. LockInv'
  <2> SUFFICES ASSUME NEW b \in Box, NEW k \in locked[b]
               PROVE  jobs'[k].state = "queued"
    BY <1>1 DEF LockInv
  <2> QED
    BY <1>1, <1>3 DEF Writes, Locked, LockInv, PollTypes
<1>5. \A o \in Org : InFlightOf(o)' \subseteq InFlightOf(o) /\ Polling(o)' \subseteq Polling(o)
  BY <1>3 DEF Writes, InFlightOf, Polling
<1>6. PlacesInv'
  BY <1>1, <1>5, PlacesKept
<1> QED
  BY <1>1, <1>2, <1>4, <1>6 DEF PInv, PollTypes

LEMMA NextPInv == PInv /\ [PollNext]_pollVars => PInv'
<1> SUFFICES ASSUME PInv, [PollNext]_pollVars PROVE PInv'
  OBVIOUS
<1>1. CASE Poll
  BY <1>1, OpenSnapshotStep, ComeAwayEmptyStep, LockCandidateStep, CommitLeaseStep DEF Poll
<1>2. CASE Rest /\ UNCHANGED <<offer, locked>>
  BY <1>2, RestStep
<1>3. CASE UNCHANGED pollVars
  <2>1. UNCHANGED vars /\ UNCHANGED <<offer, locked>>
    BY <1>3 DEF pollVars, vars
  <2>2. IInv'
    BY <2>1, NextIInv DEF PInv
  <2>3. PlacesInv'
    BY <2>1, PlacesKept DEF PInv, InFlightOf, Polling, vars
  <2> QED
    BY <2>1, <2>2, <2>3 DEF PInv, PollTypes, LockInv, vars
<1> QED
  BY <1>1, <1>2, <1>3 DEF PollNext

--------------------------------------------------------------------------------
\* The invariant holds in every state the polls can reach.
THEOREM PollsInductive == PollSpec => []PInv
  BY InitPInv, NextPInv, PTL DEF PollSpec

\* What is proved of a queue polled by one statement at a time is true of overlapping
\* polls as well: coherent rows, the attempt budget, exclusive tokens, final verdicts
\* and single billing do not rest on the snapshot of lease_next_job.
THEOREM PollsKeepQueue ==
  PollSpec => [](TypeOK /\ RowCoherent /\ AttemptBound /\ LeaseExclusive
                 /\ VerdictOnlyOnFailed /\ BilledOnce)
<1>1. PInv => /\ TypeOK /\ RowCoherent /\ AttemptBound /\ LeaseExclusive
              /\ VerdictOnlyOnFailed /\ BilledOnce
  BY DEF PInv, IInv, RowInv, RowCoherent, AttemptBound, VerdictOnlyOnFailed, BilledOnce
<1> QED
  BY <1>1, PollsInductive, PTL

\* With any number of boxes polling at once an org exceeds its limit by less than their
\* number, however its jobs are leased, reaped, retried and cancelled meanwhile.
THEOREM LimitOvershootBounded == PollSpec => []OvershootBounded
<1>1. PInv => OvershootBounded
  BY FiniteCounts DEF PInv, PlacesInv, OvershootBounded
<1> QED
  BY <1>1, PollsInductive, PTL

\* No poll, report, reap or cancel hands a leased job to another holder directly.
THEOREM NeverTakenOver == PollSpec => LeaseNeverTakenOver
<1> DEFINE Kept == \A j \in Job :
              jobs[j].token # NoToken => jobs'[j].token \in {jobs[j].token, NoToken}
<1>1. PInv /\ [PollNext]_pollVars => [Kept]_pollVars
  <2> SUFFICES ASSUME PInv, PollNext PROVE Kept
    OBVIOUS
  <2>1. ASSUME NEW b \in Box, NEW j \in Job, CommitLease(b, j) PROVE Kept
    BY <2>1, CommitWrites
  <2>2. CASE UNCHANGED vars
    BY <2>2 DEF vars
  <2>3. CASE Rest
    BY <2>3, RestWrites DEF PInv, Writes
  <2> QED
    BY <2>1, <2>2, <2>3
    DEF PollNext, Poll, OpenSnapshot, ComeAwayEmpty, LockCandidate
<1> QED
  BY <1>1, PollsInductive, PTL DEF PollSpec, LeaseNeverTakenOver

\* What a poll does is told by the life cycle as the start of an attempt, and by the
\* counters not at all: apart from CommitLease it writes no row, and CommitLease leases
\* a row that is still queued.
LEMMA PollsStep ==
  ASSUME PInv, [PollNext]_pollVars
  PROVE  \/ [Next]_vars
         \/ \E j \in Job : /\ jobs[j].state = "queued" /\ TakeLease(j)
                           /\ UNCHANGED <<artifacts, ledger, counters>>
<1>1. ASSUME NEW b \in Box, NEW j \in Job, CommitLease(b, j)
      PROVE  jobs[j].state = "queued" /\ TakeLease(j) /\ UNCHANGED <<artifacts, ledger, counters>>
  BY <1>1 DEF PInv, LockInv, CommitLease
<1>2. CASE Poll
  BY <1>1, <1>2 DEF Poll, OpenSnapshot, ComeAwayEmpty, LockCandidate
<1>3. CASE Rest
  BY <1>3, RestIsNext
<1>4. CASE UNCHANGED pollVars
  BY <1>4 DEF pollVars, vars
<1> QED
  BY <1>2, <1>3, <1>4 DEF PollNext

\* However the polls overlap, every step is one the customer was promised: they miscount
\* the boxes an org may have, never the edges a job takes or the attempts it costs.
THEOREM PollsImplementLifecycle == PollSpec => ImplementsLifecycle
<1>1. PollInit => Lifecycle!Init
  BY InitMaps DEF PollInit
<1>2. PInv /\ [PollNext]_pollVars =>
        [Lifecycle!Next]_<<[j \in Job |-> StatusOf(jobs[j])], [j \in Job |-> jobs[j].attempt],
                           [j \in Job |-> Downloads(j)]>>
  BY PollsStep, NextMaps, TakeLeaseMaps DEF PInv
<1> QED
  BY <1>1, <1>2, PollsInductive, PTL DEF PollSpec, ImplementsLifecycle, Lifecycle!Spec

\* The counters keep up with the rows under overlapping polls too.
THEOREM PollsKeepCounters == PollSpec => []CountersAgree
<1>1. PollInit => Tallies
  BY InitTallies DEF PollInit
<1>2. PInv /\ Tallies /\ [PollNext]_pollVars => Tallies'
  BY PollsStep, NextTallies, TakeLeaseTallies DEF PInv
<1> QED
  BY <1>1, <1>2, PollsInductive, TalliesAreCounters, PTL DEF PollSpec
================================================================================
