--------------------------- MODULE RenderFleetProofs ---------------------------
(***************************************************************************)
(* The boxes against the queue and the bucket, for any number of boxes,    *)
(* jobs, orgs and attempts.  The boxes do nothing to the queue that its    *)
(* worker functions do not allow, so they are one of the callers that      *)
(* RenderQueue speaks of.  What they leave in the bucket is settled by one *)
(* thing: until a job is reaped its lease passes from one take to the next *)
(* through complete_job alone, so that the take which holds it is the only *)
(* one that ever films it.                                                 *)
(***************************************************************************)
EXTENDS RenderFleet, RenderQueueProofs

SlotRow == [phase : Phase, job : Job, token : Nat, last : BOOLEAN,
            stop : BOOLEAN, lost : BOOLEAN, report : Report]

Busy(s) == take[s].phase # "idle"

FleetTypes ==
  /\ take \in [Slot -> SlotRow]
  /\ objects \in [Job -> [Kind -> Nat]]
  /\ recorded \in [Job -> [Kind -> Nat]]
  /\ torn \in SUBSET Job

\* A take has a token that was drawn, and reports no video that is not stored.
BusyInv == \A s \in Slot : Busy(s) =>
  /\ take[s].token \in 1..minted
  /\ take[s].phase # "reporting" => take[s].report.arts = {}
  /\ "video" \in take[s].report.arts => objects[take[s].job]["video"] # NoToken

\* A job that is not torn is filmed by the take that holds its lease, and no other.
HoldInv == \A s \in Slot : Busy(s) /\ take[s].job \notin torn =>
  /\ jobs[take[s].job].token = take[s].token
  /\ \A u \in Slot : Busy(u) /\ take[u].job = take[s].job => u = s

\* Its objects are those of its rows, but for what that take is about to report.
BucketInv ==
  /\ \A j \in Job \ torn : jobs[j].state \notin InFlight => objects[j] = recorded[j]
  /\ \A s \in Slot : Busy(s) /\ take[s].job \notin torn =>
       \A k \in Kind : objects[take[s].job][k] =
         IF k \in take[s].report.arts THEN take[s].token ELSE recorded[take[s].job][k]

\* The inductive invariant.
FInv == IInv /\ FleetTypes /\ BusyInv /\ HoldInv /\ BucketInv /\ DoneHasVideo

--------------------------------------------------------------------------------
(* What a call does to the queue, as far as the boxes can tell.            *)

\* No lease begins or ends, and no job becomes done.
Steady == \A i \in Job :
  /\ jobs'[i].token = jobs[i].token
  /\ jobs'[i].state \in InFlight <=> jobs[i].state \in InFlight
  /\ jobs'[i].state = "done" => jobs[i].state = "done"

\* It is enough to know the row that is written.
LEMMA SteadyOne ==
  ASSUME jobs \in [Job -> Row], NEW j \in Job, NEW new, jobs' = [jobs EXCEPT ![j] = new],
         new.token = jobs[j].token,
         new.state \in InFlight <=> jobs[j].state \in InFlight,
         new.state = "done" => jobs[j].state = "done"
  PROVE  Steady
  BY DEF Steady

LEMMA InsertSteady ==
  ASSUME IInv, NEW j \in Job, InsertJob(j) PROVE Steady
<1> DEFINE new == [BlankRow EXCEPT !.state = "queued"]
<1>1. jobs \in [Job -> Row] /\ jobs[j].token = NoToken /\ jobs[j].state = Absent
  BY DEF IInv, TypeOK, RowInv, CoherentRow, InsertJob, InFlight, Absent
<1>2. new.state = "queued" /\ new.token = NoToken
  BY DEF BlankRow
<1> QED
  BY <1>1, <1>2, SteadyOne DEF InsertJob, InFlight, Absent

LEMMA CancelSteady ==
  ASSUME IInv, NEW j \in Job, RequestCancel(j) PROVE Steady
<1> DEFINE new == Enforced(jobs[j], CancelAsked(jobs[j]))
<1>1. /\ jobs \in [Job -> Row] /\ minted \in Nat /\ RowInv(jobs[j], minted, ledger[j])
      /\ jobs' = [jobs EXCEPT ![j] = new] /\ jobs[j].state \notin Terminal \cup {Absent}
  BY DEF IInv, TypeOK, RequestCancel, Update
<1>2. new.token = jobs[j].token
  BY <1>1, CancelAskedRow
<1>3. new.state = IF jobs[j].state = "queued" THEN "cancelled" ELSE jobs[j].state
  BY <1>1, SeenCancelAsked
<1> QED
  BY <1>1, <1>2, <1>3, SteadyOne DEF InFlight

LEMMA MarkSteady ==
  ASSUME IInv, NEW j \in Job,
         (\E flag \in BOOLEAN : WriteCancelFlag(j, flag)) \/ LeaseLapses(j) \/ BackoffElapses(j)
  PROVE  Steady
<1>1. jobs \in [Job -> Row]
  BY DEF IInv, TypeOK
<1>2. ASSUME NEW flag \in BOOLEAN, WriteCancelFlag(j, flag) PROVE Steady
  <2> DEFINE new == [jobs[j] EXCEPT !.cancel = flag]
  <2>1. new.state = jobs[j].state /\ new.token = jobs[j].token
    BY <1>1 DEF Row
  <2>2. jobs' = [jobs EXCEPT ![j] = new]
    BY <1>1, <1>2 DEF WriteCancelFlag, Row
  <2> QED
    BY <1>1, <2>1, <2>2, SteadyOne
<1>3. CASE LeaseLapses(j)
  <2> DEFINE new == [jobs[j] EXCEPT !.lapsed = TRUE]
  <2>1. new.state = jobs[j].state /\ new.token = jobs[j].token
    BY <1>1 DEF Row
  <2>2. jobs' = [jobs EXCEPT ![j] = new]
    BY <1>1, <1>3 DEF LeaseLapses, Row
  <2> QED
    BY <1>1, <2>1, <2>2, SteadyOne
<1>4. CASE BackoffElapses(j)
  <2> DEFINE new == [jobs[j] EXCEPT !.held = FALSE]
  <2>1. new.state = jobs[j].state /\ new.token = jobs[j].token
    BY <1>1 DEF Row
  <2>2. jobs' = [jobs EXCEPT ![j] = new]
    BY <1>1, <1>4 DEF BackoffElapses, Row
  <2> QED
    BY <1>1, <2>1, <2>2, SteadyOne
<1> QED
  BY <1>2, <1>3, <1>4

LEMMA ReportSteady ==
  ASSUME IInv, NEW j \in Job, NEW t \in 1..minted,
         NEW s \in {"same", "running", "uploading"}, ReportProgress(j, t, s)
  PROVE  Steady /\ minted' = minted /\ [Next]_vars
<1> DEFINE new == Enforced(jobs[j], Reported(jobs[j], s))
<1>1. /\ jobs \in [Job -> Row] /\ minted \in Nat /\ RowInv(jobs[j], minted, ledger[j])
      /\ jobs[j].state \in InFlight /\ jobs' = [jobs EXCEPT ![j] = new]
      /\ Accepted(jobs[j], Reported(jobs[j], s))
  BY DEF IInv, TypeOK, ReportProgress, HoldsLease, Update
<1>2. new.token = jobs[j].token
  BY <1>1, ReportedRow
<1>3. new.state \in InFlight
  BY <1>1, SeenReported
<1>4. Steady
  BY <1>1, <1>2, <1>3, SteadyOne DEF InFlight
<1> QED
  BY <1>4 DEF ReportProgress, Next, Worker

\* A lease: j was queued, and holds the newest token.
LEMMA LeaseTakes ==
  ASSUME IInv, NEW j \in Job, LeaseNextJob(j)
  PROVE  /\ minted' = minted + 1 /\ minted \in Nat
         /\ jobs[j].state = "queued" /\ jobs[j].token = NoToken
         /\ jobs'[j].token = minted' /\ jobs'[j].state = "leased"
         /\ \A i \in Job \ {j} : jobs'[i] = jobs[i]
<1> DEFINE new == Enforced(jobs[j], Leased(jobs[j], minted + 1))
<1>1. /\ minted \in Nat /\ jobs \in [Job -> Row] /\ RowInv(jobs[j], minted, ledger[j])
      /\ jobs[j].state = "queued" /\ minted' = minted + 1
      /\ jobs' = [jobs EXCEPT ![j] = new]
  BY DEF IInv, TypeOK, LeaseNextJob, Leasable, TakeLease, Update
<1>2. new.token = minted + 1
  BY <1>1, LeasedRow
<1>3. new.state = "leased"
  BY <1>1, SeenLeased
<1>4. jobs[j].token = NoToken
  BY <1>1 DEF RowInv, CoherentRow, InFlight
<1> QED
  BY <1>1, <1>2, <1>3, <1>4

\* A report of the outcome: the lease is given back.
LEMMA CompleteGivesBack ==
  ASSUME IInv, NEW j \in Job, NEW t \in 1..minted, NEW r \in Report, CompleteJob(j, t, r)
  PROVE  /\ minted' = minted /\ [Next]_vars
         /\ jobs'[j].state \notin InFlight
         /\ jobs'[j].state = "done" => "video" \in r.arts
         /\ \A i \in Job \ {j} : jobs'[i] = jobs[i]
<1> DEFINE next == NextState(jobs[j], r)
           new == Enforced(jobs[j], Completed(jobs[j], r, next))
<1>1. /\ minted \in Nat /\ jobs \in [Job -> Row] /\ minted' = minted
      /\ jobs' = [jobs EXCEPT ![j] = new]
      /\ r.outcome = "done" => "video" \in r.arts
  BY DEF IInv, TypeOK, CompleteJob, Update
<1>2. new.state = next
  BY <1>1, SeenCompleted
<1>3. next \in {"done", "cancelled", "queued", "failed"} /\ (next = "done" <=> r.outcome = "done")
  BY NextStateCases
<1> QED
  BY <1>1, <1>2, <1>3 DEF InFlight, Next, Worker

--------------------------------------------------------------------------------
(* The steps.                                                              *)

LEMMA HoldsWhileBusy ==
  ASSUME FInv, NEW s \in Slot, Busy(s), take[s].job \notin torn
  PROVE  /\ take[s].job \in Job /\ take[s].token \in Nat \ {0}
         /\ jobs[take[s].job].token = take[s].token
         /\ jobs[take[s].job].state \in InFlight
<1>1. take[s].job \in Job /\ take[s].token \in 1..minted /\ minted \in Nat
  BY DEF FInv, FleetTypes, SlotRow, BusyInv, IInv, TypeOK
<1>2. jobs[take[s].job].token = take[s].token
  BY DEF FInv, HoldInv
<1>3. CoherentRow(jobs[take[s].job])
  BY <1>1 DEF FInv, IInv, RowInv
<1> QED
  BY <1>1, <1>2, <1>3 DEF CoherentRow, NoToken

\* The slot is as it was, is free, or goes on with its take and what it has stored.
Continues(s) ==
  /\ take'[s] \in SlotRow
  /\ \/ take'[s] = take[s]
     \/ take'[s].phase = "idle"
     \/ /\ Busy(s)
        /\ take'[s].job = take[s].job /\ take'[s].token = take[s].token
        /\ take'[s].report.arts = take[s].report.arts
        /\ take'[s].phase # "reporting" => take'[s].report.arts = {}

\* Then nothing changes between the queue, the bucket and the rows.
LEMMA ContinuesStep ==
  ASSUME FInv, IInv', Steady, minted' = minted, UNCHANGED <<objects, recorded, torn>>,
         take' \in [Slot -> SlotRow], \A s \in Slot : Continues(s)
  PROVE  FInv'
<1> USE DEF FInv
<1>1. FleetTypes'
  BY DEF FleetTypes
<1>2. \A s \in Slot : Busy(s)' =>
        /\ Busy(s) /\ take'[s].job = take[s].job /\ take'[s].token = take[s].token
        /\ take'[s].report.arts = take[s].report.arts
        /\ take[s].job \in Job
        /\ take'[s] = take[s]
           \/ (take'[s].phase # "reporting" => take'[s].report.arts = {})
  BY DEF Continues, Busy, FleetTypes, SlotRow
<1>3. BusyInv'
  BY <1>2 DEF BusyInv
<1>4. HoldInv'
  BY <1>2 DEF HoldInv, Steady
<1>5. BucketInv'
  BY <1>2 DEF BucketInv, Steady
<1>6. DoneHasVideo'
  BY DEF DoneHasVideo, Steady
<1> QED
  BY <1>1, <1>3, <1>4, <1>5, <1>6

\* The same of a step that writes one slot.
LEMMA MovesStep ==
  ASSUME FInv, IInv', Steady, minted' = minted, NEW s \in Slot, NEW new \in SlotRow,
         Moves(s, new),
         \/ new.phase = "idle"
         \/ /\ Busy(s) /\ new.job = take[s].job /\ new.token = take[s].token
            /\ new.report.arts = take[s].report.arts
            /\ new.phase # "reporting" => new.report.arts = {}
  PROVE  FInv'
<1>1. take \in [Slot -> SlotRow]
  BY DEF FInv, FleetTypes
<1>2. take' = [take EXCEPT ![s] = new] /\ UNCHANGED <<objects, recorded, torn>>
  BY DEF Moves
<1>3. take' \in [Slot -> SlotRow] /\ \A u \in Slot : Continues(u)
  BY <1>1, <1>2 DEF Continues
<1> QED
  BY <1>2, <1>3, ContinuesStep

LEMMA QueueUntouched ==
  ASSUME FInv, UNCHANGED vars PROVE IInv' /\ Steady /\ minted' = minted
<1>1. IInv'
  BY NextIInv DEF FInv
<1> QED
  BY <1>1 DEF vars, Steady

\* What a take on its way may become.
LEMMA SlotRows ==
  ASSUME FInv, NEW s \in Slot
  PROVE  /\ NoTake(take[s].job) \in SlotRow /\ NoTake(take[s].job).phase = "idle"
         /\ \A phase \in Phase :
              LET new == [take[s] EXCEPT !.phase = phase]
              IN  /\ new \in SlotRow /\ new.phase = phase /\ new.report = take[s].report
                  /\ new.job = take[s].job /\ new.token = take[s].token
<1>1. take[s] \in SlotRow
  BY DEF FInv, FleetTypes
<1>2. NoReport \in Report
  BY DEF NoReport, Report
<1>3. NoTake(take[s].job) \in SlotRow /\ NoTake(take[s].job).phase = "idle"
  BY <1>1, <1>2 DEF NoTake, SlotRow, Phase, NoToken
<1>4. ASSUME NEW phase \in Phase
      PROVE  LET new == [take[s] EXCEPT !.phase = phase]
             IN  /\ new \in SlotRow /\ new.phase = phase /\ new.report = take[s].report
                 /\ new.job = take[s].job /\ new.token = take[s].token
  BY <1>1 DEF SlotRow
<1> QED
  BY <1>3, <1>4

\* What a take may report.
LEMMA Reportable ==
  /\ \A e \in {"none", "final", "retryable"}, arts \in SUBSET Kind :
       /\ Failed(e, arts) \in Report /\ Failed(e, arts).arts = arts
       /\ Failed(e, arts).error = e
  /\ \A arts \in SUBSET Kind : Finished(arts) \in Report /\ Finished(arts).arts = arts
  /\ Cancelled \in Report /\ Cancelled.arts = {}
  BY DEF Failed, Finished, Cancelled, NoReport, Report

\* The three ways a take goes on.
LEMMA LeavesStep ==
  ASSUME FInv, IInv', Steady, minted' = minted, NEW s \in Slot, Leaves(s) PROVE FInv'
<1> DEFINE new == NoTake(take[s].job)
<1>1. new \in SlotRow /\ new.phase = "idle" /\ Moves(s, new)
  BY SlotRows DEF Leaves
<1> HIDE DEF new
<1> QED
  BY <1>1, MovesStep

LEMMA EntersStep ==
  ASSUME FInv, IInv', Steady, minted' = minted, NEW s \in Slot, Busy(s),
         take[s].phase # "reporting", NEW phase \in Phase, Enters(s, phase)
  PROVE  FInv'
<1> DEFINE new == [take[s] EXCEPT !.phase = phase]
<1>1. /\ new \in SlotRow /\ new.report = take[s].report
      /\ new.job = take[s].job /\ new.token = take[s].token
  BY SlotRows
<1>2. take[s].report.arts = {} /\ Moves(s, new)
  BY DEF FInv, BusyInv, Enters
<1> HIDE DEF new
<1> QED
  BY <1>1, <1>2, MovesStep

LEMMA ReportsStep ==
  ASSUME FInv, IInv', Steady, minted' = minted, NEW s \in Slot, Busy(s),
         take[s].phase # "reporting", NEW r \in Report, r.arts = {},
         NEW phase \in Phase,
         Moves(s, [take[s] EXCEPT !.phase = phase, !.report = r])
  PROVE  FInv'
<1> DEFINE new == [take[s] EXCEPT !.phase = phase, !.report = r]
<1>1. /\ new \in SlotRow /\ new.report = r
      /\ new.job = take[s].job /\ new.token = take[s].token
  BY DEF FInv, FleetTypes, SlotRow
<1>2. take[s].report.arts = {} /\ Moves(s, new)
  BY DEF FInv, BusyInv
<1> HIDE DEF new
<1> QED
  BY <1>1, <1>2, MovesStep

\* A PUT of kind k by a take that has stored no k yet, or is about to say so again.
LEMMA PutStep ==
  ASSUME FInv, NEW s \in Slot, Busy(s), NEW k \in Kind, NEW stored \in Report,
         NEW failed \in Report, stored.arts = take[s].report.arts \cup {k},
         failed.arts = take[s].report.arts, Put(s, k, stored, failed),
         UNCHANGED <<vars, recorded>>
  PROVE  FInv'
<1> DEFINE j == take[s].job
           new(r) == [take[s] EXCEPT !.phase = "reporting", !.report = r]
<1>1. /\ IInv' /\ UNCHANGED <<jobs, minted, recorded>> /\ IInv
  BY QueueUntouched DEF vars, FInv
<1>2. /\ take \in [Slot -> SlotRow] /\ objects \in [Job -> [Kind -> Nat]]
      /\ recorded \in [Job -> [Kind -> Nat]] /\ torn \in SUBSET Job
      /\ j \in Job /\ take[s].token \in Nat \ {0}
  BY <1>1 DEF FInv, FleetTypes, SlotRow, BusyInv, IInv, TypeOK
<1>3. ASSUME NEW r \in Report
      PROVE  /\ new(r) \in SlotRow /\ new(r).report = r /\ new(r).phase = "reporting"
             /\ new(r).job = j /\ new(r).token = take[s].token
  BY <1>2 DEF SlotRow, Phase
<1>4. PICK r \in {stored, failed} :
        /\ take' = [take EXCEPT ![s] = new(r)]
        /\ \/ objects' = [objects EXCEPT ![j][k] = take[s].token]
           \/ objects' = objects /\ r = failed
        /\ \/ torn' = torn /\ (objects' = objects \/ r = stored)
           \/ torn' = torn \cup {j}
  <2> DEFINE store == objects' = [objects EXCEPT ![j][k] = take[s].token]
  <2>1. CASE store /\ take' = [take EXCEPT ![s] = new(stored)] /\ UNCHANGED torn
    BY <1>2, <2>1
  <2>2. CASE UNCHANGED <<objects, torn>> /\ take' = [take EXCEPT ![s] = new(failed)]
    BY <1>2, <2>2
  <2>3. CASE store /\ take' = [take EXCEPT ![s] = new(failed)] /\ torn' = torn \cup {j}
    BY <1>2, <2>3
  <2>4. \/ store /\ take' = [take EXCEPT ![s] = new(stored)] /\ UNCHANGED torn
        \/ UNCHANGED <<objects, torn>> /\ take' = [take EXCEPT ![s] = new(failed)]
        \/ store /\ take' = [take EXCEPT ![s] = new(failed)] /\ torn' = torn \cup {j}
    BY <1>2 DEF Put, SlotRow
  <2> HIDE DEF store, new
  <2> QED
    BY <2>1, <2>2, <2>3, <2>4
<1>5. new(r) \in SlotRow /\ new(r).report = r /\ new(r).phase = "reporting"
      /\ new(r).job = j /\ new(r).token = take[s].token
  BY <1>3
<1> HIDE DEF new
<1>6. /\ take'[s] = new(r) /\ \A u \in Slot \ {s} : take'[u] = take[u]
      /\ take' \in [Slot -> SlotRow]
  BY <1>2, <1>4, <1>5
<1>7. /\ objects' \in [Job -> [Kind -> Nat]]
      /\ \A i \in Job \ {j} : objects'[i] = objects[i]
      /\ \A kind \in Kind \ {k} : objects'[j][kind] = objects[j][kind]
      /\ objects'[j][k] = take[s].token \/ (objects'[j][k] = objects[j][k] /\ r = failed)
  BY <1>2, <1>4
<1>8. torn \subseteq torn' /\ torn' \subseteq torn \cup {j} /\ torn' \in SUBSET Job
  BY <1>2, <1>4
<1>9. \A i \in Job, kind \in Kind : objects[i][kind] # NoToken => objects'[i][kind] # NoToken
  BY <1>2, <1>7 DEF NoToken
<1>10. FleetTypes'
  BY <1>1, <1>2, <1>6, <1>7, <1>8 DEF FleetTypes
<1>11. BusyInv'
  <2> SUFFICES ASSUME NEW u \in Slot, Busy(u)'
               PROVE  /\ take'[u].token \in 1..minted
                      /\ take'[u].phase # "reporting" => take'[u].report.arts = {}
                      /\ "video" \in take'[u].report.arts =>
                           objects'[take'[u].job]["video"] # NoToken
    BY <1>1 DEF BusyInv
  <2>1. CASE u = s
    <3>1. take'[s].token \in 1..minted
      BY <1>5, <1>6 DEF FInv, BusyInv
    <3>2. "video" \in take[s].report.arts => objects[j]["video"] # NoToken
      BY DEF FInv, BusyInv
    <3>3. ASSUME "video" \in r.arts PROVE objects'[j]["video"] # NoToken
      BY <1>2, <1>4, <1>7, <1>9, <3>2, <3>3, KindAssumption DEF NoToken
    <3> QED
      BY <1>5, <1>6, <2>1, <3>1, <3>3
  <2>2. CASE u # s
    <3>1. take'[u] = take[u] /\ Busy(u) /\ take[u].job \in Job
      BY <1>2, <1>6, <2>2 DEF Busy, SlotRow
    <3> QED
      BY <1>9, <3>1, KindAssumption DEF FInv, BusyInv
  <2> QED
    BY <2>1, <2>2
<1>12. \A u \in Slot : Busy(u)' => Busy(u) /\ take'[u].job = take[u].job
                                   /\ take'[u].token = take[u].token
  BY <1>5, <1>6 DEF Busy
<1>13. HoldInv'
  BY <1>1, <1>8, <1>12 DEF FInv, HoldInv
<1>14. BucketInv'
  <2>1. ASSUME NEW i \in Job \ torn', jobs[i].state \notin InFlight
        PROVE  objects'[i] = recorded[i]
    <3>1. i # j
      BY <1>8, <2>1, HoldsWhileBusy
    <3> QED
      BY <1>7, <1>8, <2>1, <3>1 DEF FInv, BucketInv
  <2>2. ASSUME NEW u \in Slot, Busy(u)', take'[u].job \notin torn', NEW kind \in Kind
        PROVE  objects'[take'[u].job][kind] =
                 IF kind \in take'[u].report.arts THEN take'[u].token
                 ELSE recorded[take'[u].job][kind]
    <3>1. CASE u = s
      <4>1. j \notin torn /\ (objects' = objects \/ r = stored)
        BY <1>2, <1>4, <1>5, <1>6, <1>8, <2>2, <3>1
      <4>2. objects[j][kind] = IF kind \in take[s].report.arts THEN take[s].token
                               ELSE recorded[j][kind]
        BY <4>1 DEF FInv, BucketInv
      <4>3. CASE objects' = [objects EXCEPT ![j][k] = take[s].token] /\ r = stored
        BY <1>2, <1>5, <1>6, <3>1, <4>2, <4>3
      <4>4. CASE objects' = objects /\ r = failed
        BY <1>5, <1>6, <3>1, <4>2, <4>4
      <4> QED
        BY <1>4, <4>1, <4>3, <4>4
    <3>2. CASE u # s
      <4>1. take'[u] = take[u] /\ Busy(u) /\ take[u].job \in Job /\ take[u].job \notin torn
        BY <1>2, <1>6, <1>8, <2>2, <3>2 DEF Busy, SlotRow
      <4>2. take[u].job # j
        BY <3>2, <4>1 DEF FInv, HoldInv
      <4> QED
        BY <1>7, <4>1, <4>2 DEF FInv, BucketInv
    <3> QED
      BY <3>1, <3>2
  <2> QED
    BY <1>1, <2>1, <2>2 DEF BucketInv
<1>15. DoneHasVideo'
  BY <1>1, <1>9, KindAssumption DEF FInv, DoneHasVideo
<1> QED
  BY <1>1, <1>10, <1>11, <1>13, <1>14, <1>15 DEF FInv

\* A lease begins, and a slot may hear of it.
LEMMA LeaseBegins ==
  ASSUME FInv, NEW j \in Job, LeaseNextJob(j), UNCHANGED <<objects, recorded, torn>>,
         \/ UNCHANGED take
         \/ \E s \in Slot : /\ ~Busy(s)
                            /\ take' = [take EXCEPT ![s] =
                                 [NoTake(j) EXCEPT !.phase = "leased", !.token = minted',
                                                   !.last = ~CanRetry(jobs'[j])]]
  PROVE  FInv' /\ [Next]_vars
<1>1. [Next]_vars /\ IInv /\ IInv'
  BY NextIInv DEF FInv, Next
<1>2. /\ minted' = minted + 1 /\ minted \in Nat
      /\ jobs[j].state = "queued" /\ jobs'[j].token = minted' /\ jobs'[j].state = "leased"
      /\ \A i \in Job \ {j} : jobs'[i] = jobs[i]
  BY <1>1, LeaseTakes
<1>3. take \in [Slot -> SlotRow]
  BY DEF FInv, FleetTypes
<1>4. \A u \in Slot : Busy(u) => take[u].job # j \/ j \in torn
  BY <1>2, HoldsWhileBusy DEF InFlight
<1> DEFINE new == [NoTake(j) EXCEPT !.phase = "leased", !.token = minted',
                                    !.last = ~CanRetry(jobs'[j])]
<1>5. /\ new \in SlotRow /\ new.phase = "leased" /\ new.job = j /\ new.token = minted'
      /\ new.report.arts = {}
  <2>1. NoReport \in Report /\ NoReport.arts = {}
    BY DEF NoReport, Report
  <2>2. (~CanRetry(jobs'[j])) \in BOOLEAN
    BY Zenon
  <2>3. NoTake(j) \in SlotRow /\ NoTake(j).job = j /\ NoTake(j).report = NoReport
    BY <2>1 DEF NoTake, SlotRow, Phase, NoToken
  <2> DEFINE leased(row, n, b) == [row EXCEPT !.phase = "leased", !.token = n, !.last = b]
  <2>4. ASSUME NEW row \in SlotRow, NEW n \in Nat, NEW b \in BOOLEAN
        PROVE  /\ leased(row, n, b) \in SlotRow /\ leased(row, n, b).phase = "leased"
               /\ leased(row, n, b).job = row.job /\ leased(row, n, b).token = n
               /\ leased(row, n, b).report = row.report
    BY DEF SlotRow, Phase
  <2>5. minted' \in Nat
    BY <1>2
  <2>6. new = leased(NoTake(j), minted', ~CanRetry(jobs'[j]))
    OBVIOUS
  <2> HIDE DEF new, leased
  <2> QED
    BY <2>1, <2>2, <2>3, <2>4, <2>5, <2>6, Zenon
<1> HIDE DEF new
<1>6. take' \in [Slot -> SlotRow]
  BY <1>3, <1>5 DEF new
<1>7. \A u \in Slot : \/ take'[u] = take[u]
                      \/ ~Busy(u) /\ take'[u] = new
  BY <1>3 DEF new
<1>8. \A u, v \in Slot : ~Busy(u) /\ take'[u] = new /\ Busy(v)' /\ v # u => take'[v] = take[v]
  <2>1. CASE UNCHANGED take
    BY <2>1
  <2>2. CASE \E s \in Slot : ~Busy(s) /\ take' = [take EXCEPT ![s] = new]
    <3>1. PICK s \in Slot : ~Busy(s) /\ take' = [take EXCEPT ![s] = new]
      BY <2>2
    <3>2. \A u \in Slot \ {s} : take'[u] = take[u]
      BY <1>3, <3>1
    <3>3. \A u \in Slot : ~Busy(u) /\ take'[u] = new => u = s
      BY <1>5, <3>2 DEF Busy
    <3> QED
      BY <3>2, <3>3
  <2> QED
    BY <2>1, <2>2 DEF new
<1>9. FleetTypes'
  BY <1>6 DEF FInv, FleetTypes
<1>10. BusyInv'
  BY <1>2, <1>5, <1>7 DEF FInv, BusyInv, Busy
<1>11. \A i \in Job : jobs'[i].state = "done" => jobs[i].state = "done"
  BY <1>2
<1>12. HoldInv'
  <2> SUFFICES ASSUME NEW u \in Slot, Busy(u)', take'[u].job \notin torn
               PROVE  /\ jobs'[take'[u].job].token = take'[u].token
                      /\ \A v \in Slot : Busy(v)' /\ take'[v].job = take'[u].job => v = u
    BY DEF HoldInv
  <2>1. CASE take'[u] = take[u]
    <3>1. Busy(u) /\ take[u].job \in Job /\ take[u].job # j
      BY <1>3, <1>4, <2>1 DEF Busy, SlotRow
    <3>2. \A v \in Slot : Busy(v)' /\ take'[v].job = take'[u].job => Busy(v) /\ take'[v] = take[v]
      BY <1>5, <1>7, <2>1, <3>1 DEF Busy
    <3> QED
      BY <1>2, <2>1, <3>1, <3>2 DEF FInv, HoldInv
  <2>2. CASE ~Busy(u) /\ take'[u] = new
    <3>1. \A v \in Slot : Busy(v)' /\ v # u => take[v].job # j /\ take'[v] = take[v]
      BY <1>4, <1>5, <1>8, <2>2 DEF Busy
    <3> QED
      BY <1>2, <1>5, <2>2, <3>1
  <2> QED
    BY <1>7, <2>1, <2>2
<1>13. BucketInv'
  <2>1. \A i \in Job \ torn : jobs'[i].state \notin InFlight => objects[i] = recorded[i]
    BY <1>2 DEF FInv, BucketInv, InFlight
  <2>2. ASSUME NEW u \in Slot, Busy(u)', take'[u].job \notin torn, NEW k \in Kind
        PROVE  objects[take'[u].job][k] =
                 IF k \in take'[u].report.arts THEN take'[u].token
                 ELSE recorded[take'[u].job][k]
    <3>1. CASE take'[u] = take[u]
      BY <2>2, <3>1 DEF FInv, BucketInv, Busy
    <3>2. CASE take'[u] = new
      BY <1>2, <1>5, <2>2, <3>2 DEF FInv, BucketInv, InFlight
    <3> QED
      BY <1>7, <3>1, <3>2
  <2> QED
    BY <2>1, <2>2 DEF BucketInv
<1>14. DoneHasVideo'
  BY <1>11 DEF FInv, DoneHasVideo
<1> QED
  BY <1>1, <1>9, <1>10, <1>12, <1>13, <1>14 DEF FInv

\* complete_job is told: the lease ends and the rows come to say what is stored.
LEMMA ReportOutcomeStep ==
  ASSUME FInv, NEW s \in Slot, ReportOutcome(s)
  PROVE  FInv' /\ [Next]_vars
<1> DEFINE j == take[s].job
           r == take[s].report
<1>1. /\ Busy(s) /\ CompleteJob(j, take[s].token, r)
      /\ recorded' = [recorded EXCEPT ![j] =
           [k \in Kind |-> IF k \in r.arts THEN take[s].token ELSE recorded[j][k]]]
      /\ take' = [take EXCEPT ![s] = NoTake(j)] /\ UNCHANGED <<objects, torn>>
  BY DEF ReportOutcome, Busy, At
<1>2. /\ IInv /\ take \in [Slot -> SlotRow] /\ recorded \in [Job -> [Kind -> Nat]]
      /\ objects \in [Job -> [Kind -> Nat]] /\ minted \in Nat
      /\ j \in Job /\ r \in Report /\ take[s].token \in 1..minted
  BY <1>1 DEF FInv, FleetTypes, SlotRow, BusyInv, IInv, TypeOK
<1> HIDE DEF j, r
<1>3. /\ minted' = minted /\ [Next]_vars
      /\ jobs'[j].state \notin InFlight /\ (jobs'[j].state = "done" => "video" \in r.arts)
      /\ \A i \in Job \ {j} : jobs'[i] = jobs[i]
  BY <1>1, <1>2, CompleteGivesBack
<1>4. IInv'
  BY <1>2, <1>3, NextIInv
<1>5. NoTake(j) \in SlotRow /\ NoTake(j).phase = "idle"
  BY SlotRows DEF j
<1>6. /\ take' \in [Slot -> SlotRow] /\ ~Busy(s)'
      /\ \A u \in Slot : Busy(u)' => u # s /\ Busy(u) /\ take'[u] = take[u] /\ take[u].job \in Job
  BY <1>1, <1>2, <1>5 DEF Busy, SlotRow
<1>7. /\ recorded' \in [Job -> [Kind -> Nat]]
      /\ \A i \in Job \ {j} : recorded'[i] = recorded[i]
      /\ recorded'[j] = [k \in Kind |-> IF k \in r.arts THEN take[s].token ELSE recorded[j][k]]
  BY <1>1, <1>2
<1>8. FleetTypes'
  BY <1>1, <1>6, <1>7 DEF FInv, FleetTypes
<1>9. BusyInv'
  BY <1>1, <1>3, <1>6 DEF FInv, BusyInv
<1>10. \A u \in Slot : Busy(u)' /\ take'[u].job \notin torn => take[u].job # j
  BY <1>1, <1>6 DEF FInv, HoldInv, j
<1>11. HoldInv'
  BY <1>1, <1>3, <1>6, <1>10 DEF FInv, HoldInv
<1>12. BucketInv'
  <2>1. ASSUME NEW i \in Job \ torn, jobs'[i].state \notin InFlight
        PROVE  objects[i] = recorded'[i]
    <3>1. CASE i = j
      <4>1. \A k \in Kind : objects[j][k] = recorded'[j][k]
        BY <1>1, <1>7, <2>1, <3>1 DEF FInv, BucketInv, j, r
      <4> QED
        BY <1>2, <1>7, <3>1, <4>1
    <3>2. CASE i # j
      BY <1>3, <1>7, <2>1, <3>2 DEF FInv, BucketInv
    <3> QED
      BY <3>1, <3>2
  <2>2. ASSUME NEW u \in Slot, Busy(u)', take'[u].job \notin torn, NEW k \in Kind
        PROVE  objects[take'[u].job][k] =
                 IF k \in take'[u].report.arts THEN take'[u].token
                 ELSE recorded'[take'[u].job][k]
    BY <1>6, <1>7, <1>10, <2>2 DEF FInv, BucketInv
  <2> QED
    BY <1>1, <2>1, <2>2 DEF BucketInv
<1>13. DoneHasVideo'
  <2> SUFFICES ASSUME NEW i \in Job, jobs'[i].state = "done"
               PROVE  objects[i]["video"] # NoToken
    BY <1>1 DEF DoneHasVideo
  <2>1. CASE i = j
    BY <1>1, <1>3, <2>1 DEF FInv, BusyInv, j, r
  <2>2. CASE i # j
    BY <1>3, <2>2 DEF FInv, DoneHasVideo
  <2> QED
    BY <2>1, <2>2
<1> QED
  BY <1>3, <1>4, <1>8, <1>9, <1>11, <1>12, <1>13 DEF FInv

\* A job that is reaped is torn: nothing is promised of its takes from here on.
LEMMA ReapOneStep ==
  ASSUME FInv, NEW j \in Job, ReapExpiredLeases({j}), torn' = torn \cup {j},
         UNCHANGED <<take, objects, recorded>>
  PROVE  FInv' /\ [Next]_vars
<1>1. [Next]_vars /\ IInv /\ IInv' /\ minted' = minted
  BY NextIInv DEF FInv, Next, Maintenance, ReapExpiredLeases
<1>2. /\ jobs \in [Job -> Row] /\ jobs'[j] = Enforced(jobs[j], Reaped(jobs[j]))
      /\ \A i \in Job \ {j} : jobs'[i] = jobs[i]
  BY <1>1 DEF IInv, TypeOK, ReapExpiredLeases
<1>3. jobs'[j].state # "done"
  BY <1>2, SeenReaped
<1>4. FleetTypes' /\ BusyInv'
  BY <1>1 DEF FInv, FleetTypes, BusyInv, Busy
<1>5. \A s \in Slot : take[s].job \in Job
  BY DEF FInv, FleetTypes, SlotRow
<1>6. HoldInv' /\ BucketInv'
  BY <1>2, <1>5 DEF FInv, HoldInv, BucketInv, Busy
<1>7. DoneHasVideo'
  BY <1>2, <1>3 DEF FInv, DoneHasVideo
<1> QED
  BY <1>1, <1>4, <1>6, <1>7 DEF FInv

\* The calls a take makes on its way, and its failures.
LEMMA TakeStep ==
  ASSUME FInv, Take
  PROVE  FInv' /\ [Next]_vars
<1> PICK s \in Slot :
      \/ \E j \in Job : Lease(s, j)
      \/ Refuse(s)
      \/ StartFilming(s)
      \/ Heartbeat(s)
      \/ HeartbeatRefused(s)
      \/ TakeEnds(s)
      \/ StartUpload(s)
      \/ UploadVideo(s)
      \/ UploadTelemetry(s)
      \/ UploadPartial(s)
      \/ ReportOutcome(s)
      \/ GiveUp(s)
  BY DEF Take
<1>a. take[s] \in SlotRow /\ take[s].job \in Job /\ IInv
  BY DEF FInv, FleetTypes, SlotRow
<1>b. Busy(s) => take[s].token \in 1..minted
  BY DEF FInv, BusyInv
<1>c. ASSUME UNCHANGED vars PROVE IInv' /\ Steady /\ minted' = minted /\ [Next]_vars
  BY <1>c, QueueUntouched
<1>d. ASSUME Busy(s), NEW p \in {"same", "running", "uploading"},
             ReportProgress(take[s].job, take[s].token, p)
      PROVE  IInv' /\ Steady /\ minted' = minted /\ [Next]_vars
  BY <1>a, <1>b, <1>d, ReportSteady, NextIInv
<1>1. ASSUME NEW j \in Job, Lease(s, j) PROVE FInv' /\ [Next]_vars
  BY <1>1, LeaseBegins DEF Lease, Moves, At, Busy
<1>2. CASE Refuse(s)
  <2>1. PICK e \in {"final", "retryable"} : Reports(s, Failed(e, {}))
    BY <1>2 DEF Refuse
  <2>2. Failed(e, {}) \in Report /\ Failed(e, {}).arts = {}
    BY Reportable
  <2>3. Busy(s) /\ take[s].phase # "reporting" /\ "reporting" \in Phase /\ UNCHANGED vars
    BY <1>2 DEF Refuse, At, Busy, Phase
  <2> QED
    BY <1>c, <2>1, <2>2, <2>3, ReportsStep DEF Reports
<1>3. CASE StartFilming(s)
  <2>1. Busy(s) /\ take[s].phase # "reporting" /\ "filming" \in Phase
        /\ ReportProgress(take[s].job, take[s].token, "running")
    BY <1>3 DEF StartFilming, At, Busy, Phase
  <2>2. IInv' /\ Steady /\ minted' = minted /\ [Next]_vars
    BY <1>d, <2>1
  <2> QED
    BY <1>3, <2>1, <2>2, EntersStep, LeavesStep DEF StartFilming
<1>4. CASE Heartbeat(s)
  <2>1. Busy(s) /\ take[s].phase = "filming"
        /\ ReportProgress(take[s].job, take[s].token, "same")
    BY <1>4 DEF Heartbeat, At, Busy
  <2>2. IInv' /\ Steady /\ minted' = minted /\ [Next]_vars
    BY <1>d, <2>1
  <2> DEFINE new == [take[s] EXCEPT !.stop = @ \/ jobs[take[s].job].cancel]
  <2>3. (take[s].stop \/ jobs[take[s].job].cancel) \in BOOLEAN
    BY Zenon
  <2>4. ASSUME NEW b \in BOOLEAN
        PROVE  LET r == [take[s] EXCEPT !.stop = b]
               IN  /\ r \in SlotRow /\ r.phase = take[s].phase /\ r.job = take[s].job
                   /\ r.token = take[s].token /\ r.report = take[s].report
    BY <1>a DEF SlotRow
  <2>5. /\ new \in SlotRow /\ new.phase = take[s].phase /\ new.job = take[s].job
        /\ new.token = take[s].token /\ new.report = take[s].report
    BY <2>3, <2>4
  <2>6. Moves(s, new) \/ UNCHANGED fleetVars
    BY <1>4 DEF Heartbeat
  <2> HIDE DEF new
  <2>7. CASE Moves(s, new)
    BY <2>1, <2>2, <2>5, <2>7, MovesStep DEF FInv, BusyInv
  <2>8. CASE UNCHANGED fleetVars
    BY <2>2, <2>8, ContinuesStep DEF FInv, FleetTypes, Continues, fleetVars
  <2> QED
    BY <2>2, <2>6, <2>7, <2>8
<1>5. CASE HeartbeatRefused(s)
  <2> DEFINE new == [take[s] EXCEPT !.lost = TRUE, !.stop = TRUE]
  <2>1. Busy(s) /\ take[s].phase = "filming" /\ UNCHANGED vars /\ Moves(s, new)
    BY <1>5 DEF HeartbeatRefused, At, Busy
  <2>2. /\ new \in SlotRow /\ new.phase = take[s].phase /\ new.job = take[s].job
        /\ new.token = take[s].token /\ new.report = take[s].report
    BY <1>a DEF SlotRow
  <2> HIDE DEF new
  <2> QED
    BY <1>c, <2>1, <2>2, MovesStep DEF FInv, BusyInv
<1>6. CASE TakeEnds(s)
  <2>1. Busy(s) /\ take[s].phase # "reporting" /\ UNCHANGED vars
        /\ {"reporting", "finishing", "salvaging"} \subseteq Phase
    BY <1>6 DEF TakeEnds, At, Busy, Phase
  <2>2. \/ Reports(s, Cancelled)
        \/ Enters(s, "finishing")
        \/ \E e \in {"none", "final", "retryable"} :
             \/ Moves(s, [take[s] EXCEPT !.phase = "salvaging", !.report = Failed(e, {})])
             \/ Reports(s, Failed(e, {}))
    <3>1. CASE Reports(s, Cancelled)
      BY <3>1
    <3>2. ASSUME NEW usable \in BOOLEAN, NEW e \in Classified(usable),
                 CASE e = "none" -> Enters(s, "finishing")
                   [] e # "none" /\ usable /\ LastWord(s, e) ->
                        Moves(s, [take[s] EXCEPT !.phase = "salvaging",
                                                 !.report = Failed(e, {})])
                   [] OTHER -> Reports(s, Failed(e, {}))
          PROVE  \/ Enters(s, "finishing")
                 \/ Moves(s, [take[s] EXCEPT !.phase = "salvaging", !.report = Failed(e, {})])
                 \/ Reports(s, Failed(e, {}))
      BY <3>2
    <3>3. \A usable \in BOOLEAN : Classified(usable) \subseteq {"none", "final", "retryable"}
      BY DEF Classified
    <3> QED
      BY <1>6, <3>1, <3>2, <3>3 DEF TakeEnds
  <2>3. CASE Reports(s, Cancelled)
    BY <1>c, <2>1, <2>3, Reportable, ReportsStep DEF Reports
  <2>4. CASE Enters(s, "finishing")
    BY <1>c, <2>1, <2>4, EntersStep
  <2>5. ASSUME NEW e \in {"none", "final", "retryable"},
               \/ Moves(s, [take[s] EXCEPT !.phase = "salvaging", !.report = Failed(e, {})])
               \/ Reports(s, Failed(e, {}))
        PROVE  FInv' /\ [Next]_vars
    <3>1. Failed(e, {}) \in Report /\ Failed(e, {}).arts = {}
      BY Reportable
    <3> QED
      BY <1>c, <2>1, <2>5, <3>1, ReportsStep DEF Reports
  <2> QED
    BY <2>2, <2>3, <2>4, <2>5
<1>7. CASE StartUpload(s)
  <2>1. Busy(s) /\ take[s].phase # "reporting" /\ "uploading" \in Phase
        /\ ReportProgress(take[s].job, take[s].token, "uploading")
    BY <1>7 DEF StartUpload, At, Busy, Phase
  <2>2. IInv' /\ Steady /\ minted' = minted /\ [Next]_vars
    BY <1>d, <2>1
  <2> QED
    BY <1>7, <2>1, <2>2, EntersStep, LeavesStep DEF StartUpload
<1>8. CASE UploadVideo(s)
  <2>1. /\ Busy(s) /\ take[s].report.arts = {} /\ UNCHANGED <<vars, recorded>>
        /\ Put(s, "video", Finished({"video"}), Failed("retryable", {}))
    BY <1>8 DEF UploadVideo, At, Busy, FInv, BusyInv
  <2>2. /\ Finished({"video"}) \in Report /\ Finished({"video"}).arts = {"video"}
        /\ Failed("retryable", {}) \in Report /\ Failed("retryable", {}).arts = {}
    BY Reportable, KindAssumption
  <2> QED
    BY <2>1, <2>2, PutStep, KindAssumption
<1>9. CASE UploadTelemetry(s)
  <2>1. /\ Busy(s) /\ take[s].report = Finished({"video"}) /\ UNCHANGED <<vars, recorded>>
        /\ "telemetry" \in Kind
        /\ Put(s, "telemetry", Finished({"video", "telemetry"}), Finished({"video"}))
    BY <1>9 DEF UploadTelemetry, At, Busy
  <2>2. /\ Finished({"video"}) \in Report /\ Finished({"video"}).arts = {"video"}
        /\ Finished({"video", "telemetry"}) \in Report
        /\ Finished({"video", "telemetry"}).arts = {"video", "telemetry"}
    BY <2>1, Reportable, KindAssumption
  <2>3. {"video", "telemetry"} = {"video"} \cup {"telemetry"}
    OBVIOUS
  <2> QED
    BY <2>1, <2>2, <2>3, PutStep
<1>10. CASE UploadPartial(s)
  <2>1. /\ Busy(s) /\ take[s].report.arts = {} /\ UNCHANGED <<vars, recorded>>
        /\ Put(s, "video", Salvaged(take[s].report.error), take[s].report)
        /\ take[s].report \in Report
    BY <1>10, <1>a DEF UploadPartial, At, Busy, FInv, BusyInv, SlotRow
  <2>2. take[s].report.error \in {"none", "final", "retryable"}
    BY <2>1 DEF Report
  <2>3. /\ Salvaged(take[s].report.error) \in Report
        /\ Salvaged(take[s].report.error).arts = {"video"}
    BY <2>2, Reportable, KindAssumption DEF Salvaged
  <2> QED
    BY <2>1, <2>3, PutStep, KindAssumption
<1>11. CASE ReportOutcome(s)
  BY <1>11, ReportOutcomeStep
<1>12. CASE GiveUp(s)
  BY <1>c, <1>12, LeavesStep DEF GiveUp
<1> QED
  BY <1>1, <1>2, <1>3, <1>4, <1>5, <1>6, <1>7, <1>8, <1>9, <1>10, <1>11, <1>12, QueueUntouched

\* What goes on around the boxes.
LEMMA AroundStep ==
  ASSUME FInv, Around
  PROVE  FInv' /\ [Next]_vars
<1>1. ASSUME NEW j \in Job, LeaseAnswerLost(j) PROVE FInv' /\ [Next]_vars
  BY <1>1, LeaseBegins DEF LeaseAnswerLost, fleetVars
<1>2. ASSUME NEW j \in Job, ReapExpiredLeases({j}), torn' = torn \cup {j},
             UNCHANGED <<take, objects, recorded>>
      PROVE  FInv' /\ [Next]_vars
  BY <1>2, ReapOneStep
<1>3. ASSUME NEW j \in Job, UNCHANGED fleetVars,
             \/ InsertJob(j)
             \/ RequestCancel(j)
             \/ \E flag \in BOOLEAN : WriteCancelFlag(j, flag)
             \/ LeaseLapses(j)
             \/ BackoffElapses(j)
      PROVE  FInv' /\ [Next]_vars
  <2>1. IInv /\ [Next]_vars
    BY <1>3 DEF FInv, Next, Client, Time
  <2>2. IInv'
    BY <2>1, NextIInv
  <2>3. Steady
    BY <1>3, <2>1, InsertSteady, CancelSteady, MarkSteady
  <2>4. minted' = minted
    BY <1>3 DEF InsertJob, RequestCancel, WriteCancelFlag, LeaseLapses, BackoffElapses
  <2>5. take' \in [Slot -> SlotRow] /\ \A s \in Slot : Continues(s)
    BY <1>3 DEF FInv, FleetTypes, Continues, fleetVars
  <2> QED
    BY <1>3, <2>1, <2>2, <2>3, <2>4, <2>5, ContinuesStep DEF fleetVars
<1> QED
  BY <1>1, <1>2, <1>3 DEF Around

LEMMA FleetStep == FInv /\ [FleetNext]_allVars => FInv' /\ [Next]_vars
<1> SUFFICES ASSUME FInv, [FleetNext]_allVars PROVE FInv' /\ [Next]_vars
  OBVIOUS
<1>1. CASE UNCHANGED allVars
  <2>1. UNCHANGED vars /\ UNCHANGED fleetVars
    BY <1>1 DEF allVars
  <2>2. take' \in [Slot -> SlotRow] /\ \A s \in Slot : Continues(s)
    BY <2>1 DEF FInv, FleetTypes, Continues, fleetVars
  <2> QED
    BY <2>1, <2>2, QueueUntouched, ContinuesStep DEF fleetVars
<1> QED
  BY <1>1, TakeStep, AroundStep DEF FleetNext

LEMMA FleetInitFInv == FleetInit => FInv
<1> SUFFICES ASSUME FleetInit PROVE FInv
  OBVIOUS
<1>1. IInv
  BY InitIInv DEF FleetInit
<1>2. PICK j \in Job : take = [s \in Slot |-> NoTake(j)]
  BY DEF FleetInit
<1>3. NoTake(j) \in SlotRow /\ NoTake(j).phase = "idle"
  <2>1. NoReport \in Report
    BY DEF NoReport, Report
  <2> QED
    BY <2>1 DEF NoTake, SlotRow, Phase, NoToken
<1>4. FleetTypes
  BY <1>2, <1>3 DEF FleetInit, FleetTypes, NoToken
<1>5. BusyInv /\ HoldInv /\ BucketInv
  BY <1>2, <1>3 DEF FleetInit, BusyInv, HoldInv, BucketInv, Busy
<1>6. DoneHasVideo
  BY DEF FleetInit, Init, BlankRow, DoneHasVideo, Absent
<1> QED
  BY <1>1, <1>4, <1>5, <1>6 DEF FInv

--------------------------------------------------------------------------------
(* What holds of every behaviour.                                          *)

\* The invariant the rest follows from.
THEOREM FleetInductive == FleetSpec => []FInv
<1>1. FInv /\ [FleetNext]_allVars => FInv'
  BY FleetStep
<1> QED
  BY <1>1, FleetInitFInv, PTL DEF FleetSpec

\* What the boxes do is one way of calling the queue: every behaviour of theirs is one
\* of RenderQueue, whose every safety property so holds with them.
THEOREM FleetImplementsQueue == FleetSpec => Spec
<1>1. FInv /\ [FleetNext]_allVars => [Next]_vars
  BY FleetStep
<1>2. FleetInit => Init
  BY DEF FleetInit
<1> QED
  BY <1>1, <1>2, FleetInductive, PTL DEF FleetSpec, Spec

\* Step by step, then, boxes that fail and lose answers do to a job what the customer was
\* promised, and nothing else.
THEOREM FleetImplementsLifecycle == FleetSpec => ImplementsLifecycle
  BY FleetImplementsQueue, QueueImplementsLifecycle, PTL

\* No job is done without a video in the bucket, whichever of its takes failed, lost
\* their lease or lost an answer.
THEOREM DoneMeansVideo == FleetSpec => []DoneHasVideo
<1>1. FInv => DoneHasVideo
  BY DEF FInv
<1> QED
  BY <1>1, FleetInductive, PTL

\* Bucket and rows agree about every job that has ended, unless it was reaped or lost
\* the answer to a PUT: no other failure of a box parts them.
THEOREM OnlyTornParts == FleetSpec => []BucketMatchesRows
<1>1. FInv => BucketMatchesRows
  BY DEF FInv, BucketInv, BucketMatchesRows, Terminal, InFlight
<1> QED
  BY <1>1, FleetInductive, PTL
================================================================================
