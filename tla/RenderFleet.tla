------------------------------ MODULE RenderFleet ------------------------------
(***************************************************************************)
(* The render boxes against the queue and the bucket: job.rs from the      *)
(* lease to the report, with the heartbeat beside it.  Every call to the   *)
(* queue and every PUT is a step of its own, since anything may happen     *)
(* between two awaits; the queue's side of a call is the transaction of    *)
(* RenderQueue.                                                            *)
(*                                                                         *)
(* A call may be lost before the queue sees it, or its answer after.  No   *)
(* call is retried by control.rs, so a take that loses one other than a    *)
(* heartbeat is over, as it is when its box dies: GiveUp is all of these.  *)
(*                                                                         *)
(* Objects are named by job and kind, the same for every attempt           *)
(* (storage.rs, key_for), and stand for the attempt that wrote them.       *)
(* Retention is left to RenderQueue: objects only leave the bucket by the  *)
(* lifecycle rules, long after the job has ended.                          *)
(***************************************************************************)
EXTENDS RenderQueue

CONSTANT Slot   \* the places where takes run: the job slots of all boxes

VARIABLES
  take,      \* what each slot is doing
  objects,   \* the bucket: the token of the attempt whose object is stored
  recorded,  \* the artifacts rows' digests: the token of the attempt described
  torn       \* the jobs that were reaped, or lost the answer to a PUT

fleetVars == <<take, objects, recorded, torn>>
allVars == <<vars, fleetVars>>

Phase == {"idle", "leased", "filming", "finishing", "uploading", "sidecar",
          "salvaging", "reporting"}

NoReport == [outcome |-> "failed", error |-> "none", arts |-> {}, burned |-> TRUE]

\* A slot at rest.  What job.rs keeps of a lease is the job, the token and whether
\* this is the last attempt; "stop" is the cancel channel, "lost" the lease_lost flag.
NoTake(j) == [phase |-> "idle", job |-> j, token |-> NoToken, last |-> FALSE,
              stop |-> FALSE, lost |-> FALSE, report |-> NoReport]

Failed(e, arts) == [NoReport EXCEPT !.error = e, !.arts = arts]
Finished(arts)  == [NoReport EXCEPT !.outcome = "done", !.arts = arts]
Cancelled       == [NoReport EXCEPT !.outcome = "cancelled"]

FleetInit ==
  /\ Init
  /\ \E j \in Job : take = [s \in Slot |-> NoTake(j)]
  /\ objects = [j \in Job |-> [k \in Kind |-> NoToken]]
  /\ recorded = [j \in Job |-> [k \in Kind |-> NoToken]]
  /\ torn = {}

--------------------------------------------------------------------------------
(* One take.                                                               *)

At(s, phase) == take[s].phase = phase

\* The slot moves on, and neither the bucket nor the rows' digests change.
Moves(s, new) ==
  /\ take' = [take EXCEPT ![s] = new]
  /\ UNCHANGED <<objects, recorded, torn>>

Enters(s, phase) == Moves(s, [take[s] EXCEPT !.phase = phase])
Reports(s, r)    == Moves(s, [take[s] EXCEPT !.phase = "reporting", !.report = r])
Leaves(s)        == Moves(s, NoTake(take[s].job))

\* The box loses the take, and the queue hears nothing of it.
GiveUp(s) == ~At(s, "idle") /\ Leaves(s) /\ UNCHANGED vars

\* lease_next_job answers a free slot.
Lease(s, j) ==
  /\ At(s, "idle")
  /\ LeaseNextJob(j)
  /\ Moves(s, [NoTake(j) EXCEPT !.phase = "leased",
                                !.token = minted',
                                !.last  = ~CanRetry(jobs'[j])])

\* The lease was taken and its answer lost: no box knows of it.
LeaseAnswerLost(j) == LeaseNextJob(j) /\ UNCHANGED fleetVars

\* A script or options the worker will not film, or a box that cannot.
Refuse(s) ==
  /\ At(s, "leased")
  /\ \E e \in {"final", "retryable"} : Reports(s, Failed(e, {}))
  /\ UNCHANGED vars

\* report_progress(running) and then the container and its heartbeat.
StartFilming(s) ==
  /\ At(s, "leased")
  /\ ReportProgress(take[s].job, take[s].token, "running")
  /\ Enters(s, "filming") \/ Leaves(s)

\* One beat: it extends the lease and hears of a cancel, unless the answer is lost.
Heartbeat(s) ==
  /\ At(s, "filming") /\ ~take[s].lost
  /\ ReportProgress(take[s].job, take[s].token, "same")
  /\ \/ Moves(s, [take[s] EXCEPT !.stop = @ \/ jobs[take[s].job].cancel])
     \/ UNCHANGED fleetVars

\* The beat is refused: the take is stopped as if it had been cancelled.
HeartbeatRefused(s) ==
  /\ At(s, "filming") /\ ~take[s].lost
  /\ ~HoldsLease(take[s].job, take[s].token) \/ jobs[take[s].job].lapsed
  /\ Moves(s, [take[s] EXCEPT !.lost = TRUE, !.stop = TRUE])
  /\ UNCHANGED vars

\* classify: the errors a take may be given, "none" for a success, which needs a
\* video that usable_video accepts.
Classified(usable) ==
  {"final", "retryable"} \cup {e \in {"none"} : usable}

\* The last word on the job: no attempt will follow a failure with error e.
LastWord(s, e) == e = "final" \/ take[s].last

\* backend.run returned, and only a take that was told to stop may come back as
\* cancelled.  A lost lease or an abandoned container is a GiveUp.
TakeEnds(s) ==
  /\ At(s, "filming") /\ ~take[s].lost
  /\ \/ take[s].stop /\ Reports(s, Cancelled)
     \/ \E usable \in BOOLEAN : \E e \in Classified(usable) :
          CASE e = "none" -> Enters(s, "finishing")
            [] e # "none" /\ usable /\ LastWord(s, e) ->
                 Moves(s, [take[s] EXCEPT !.phase = "salvaging", !.report = Failed(e, {})])
            [] OTHER -> Reports(s, Failed(e, {}))
  /\ UNCHANGED vars

\* report_progress(uploading), which refuses a lease that lapsed meanwhile.
StartUpload(s) ==
  /\ At(s, "finishing")
  /\ ReportProgress(take[s].job, take[s].token, "uploading")
  /\ Enters(s, "uploading") \/ Leaves(s)

--------------------------------------------------------------------------------
(* The bucket.  PUTs are not conditional and nobody renews the lease while *)
(* one is under way.                                                       *)

\* Mutant: an upload that failed is taken for one that was stored.
PutUnchecked(s, k, stored, failed) ==
  LET j == take[s].job
      move(r) == take' = [take EXCEPT ![s].phase = "reporting", ![s].report = r]
  IN  \/ /\ objects' = [objects EXCEPT ![j][k] = take[s].token]
         /\ move(stored)
         /\ UNCHANGED torn
      \/ move(stored) /\ UNCHANGED <<objects, torn>>

\* put_file of kind k, and what the take reports if it was stored and if not.
\* A PUT whose answer is lost is stored and taken for failed.
Put(s, k, stored, failed) ==
  LET j == take[s].job
      move(r) == take' = [take EXCEPT ![s].phase = "reporting", ![s].report = r]
      store   == objects' = [objects EXCEPT ![j][k] = take[s].token]
  IN  \/ store /\ move(stored) /\ UNCHANGED torn
      \/ UNCHANGED <<objects, torn>> /\ move(failed)
      \/ store /\ move(failed) /\ torn' = torn \cup {j}

UploadVideo(s) ==
  /\ At(s, "uploading")
  /\ Put(s, "video", Finished({"video"}), Failed("retryable", {}))
  /\ UNCHANGED <<vars, recorded>>

\* The sidecar, if the job asked for one: it follows the video.
UploadTelemetry(s) ==
  /\ At(s, "reporting")
  /\ "telemetry" \in Kind
  /\ take[s].report = Finished({"video"})
  /\ Put(s, "telemetry", Finished({"video", "telemetry"}), Finished({"video"}))
  /\ UNCHANGED <<vars, recorded>>

\* Mutant: the video a failed take leaves is stored but not reported.
SalvagedUnreported(error) == Failed(error, {})

\* What the last attempt reports when its partial video was stored.
Salvaged(error) == Failed(error, {"video"})

\* The partial video of a failed take that is the last word.
UploadPartial(s) ==
  /\ At(s, "salvaging")
  /\ Put(s, "video", Salvaged(take[s].report.error), take[s].report)
  /\ UNCHANGED <<vars, recorded>>

\* complete_job; its answer changes nothing the box does next.
ReportOutcome(s) ==
  LET j == take[s].job
      r == take[s].report
  IN  /\ At(s, "reporting")
      /\ CompleteJob(j, take[s].token, r)
      /\ recorded' = [recorded EXCEPT ![j] =
           [k \in Kind |-> IF k \in r.arts THEN take[s].token ELSE @[k]]]
      /\ take' = [take EXCEPT ![s] = NoTake(j)]
      /\ UNCHANGED <<objects, torn>>

--------------------------------------------------------------------------------
Take == \E s \in Slot :
  \/ \E j \in Job : Lease(s, j)
  \/ Refuse(s)
  \/ StartFilming(s)
  \/ Heartbeat(s)
  \/ HeartbeatRefused(s)
  \/ TakeEnds(s)
  \/ StartUpload(s)
  \/ UploadVideo(s)
  \/ UploadTelemetry(s)
  \/ UploadPartial(s)
  \/ ReportOutcome(s)
  \/ GiveUp(s)

Around == \E j \in Job :
  \/ LeaseAnswerLost(j)
  \/ ReapExpiredLeases({j}) /\ torn' = torn \cup {j} /\ UNCHANGED <<take, objects, recorded>>
  \/ /\ \/ InsertJob(j)
        \/ RequestCancel(j)
        \/ \E flag \in BOOLEAN : WriteCancelFlag(j, flag)
        \/ LeaseLapses(j)
        \/ BackoffElapses(j)
     /\ UNCHANGED fleetVars

FleetNext == Take \/ Around

FleetSpec == FleetInit /\ [][FleetNext]_allVars

--------------------------------------------------------------------------------
\* A done job has a video behind its download link, whichever attempts failed,
\* lost their lease or lost an answer on the way.
DoneHasVideo == \A j \in Job :
  jobs[j].state = "done" => objects[j]["video"] # NoToken

\* Bucket and rows part ways only through a reaped lease or the lost answer to a
\* PUT: otherwise a job that has ended has exactly the objects its rows describe,
\* each with the digest of the attempt the row came from.
BucketMatchesRows == \A j \in Job :
  jobs[j].state \in Terminal /\ j \notin torn => objects[j] = recorded[j]

\* docs/LIFECYCLE.md: an expired lease is refused so that the stalled worker learns
\* "that it lost rather than overwrite the winner's result".  So the video of a
\* done job is the one its winner uploaded and its row describes.
WinnersVideoKept == \A j \in Job :
  jobs[j].state = "done" => objects[j]["video"] = recorded[j]["video"]
================================================================================
