----------------------------- MODULE JobLifecycle ------------------------------
(***************************************************************************)
(* What the queue promises about one job, as a customer sees it through    *)
(* the API: which status may follow which, how many attempts it may cost,  *)
(* and what can be downloaded of it when.  Nothing here knows of leases,   *)
(* tokens, backoff or artifacts rows.                                      *)
(*                                                                         *)
(* Jobs are independent: in one step any of them may move, each by one     *)
(* edge, since the reaper and the retention sweep move many rows at once.  *)
(***************************************************************************)
EXTENDS Naturals

CONSTANTS Job, MaxAttempts

VARIABLES
  status,    \* where the job stands
  tries,     \* attempts a worker has started
  downloads  \* the kinds of artifact that can be downloaded

Status == {"absent", "queued", "working", "done", "failed", "cancelled", "expired"}

Init ==
  /\ status = [j \in Job |-> "absent"]
  /\ tries = [j \in Job |-> 0]
  /\ downloads = [j \in Job |-> {}]

--------------------------------------------------------------------------------
(* The edges one job can take.                                             *)

Move(j, from, to) == status[j] = from /\ status'[j] = to
SameTries(j)      == tries'[j] = tries[j]
SameDownloads(j)  == downloads'[j] = downloads[j]

Submit(j) == Move(j, "absent", "queued") /\ SameTries(j) /\ SameDownloads(j)

\* A worker starts an attempt, and there is never one too many.
Start(j) ==
  /\ Move(j, "queued", "working")
  /\ tries[j] < MaxAttempts
  /\ tries'[j] = tries[j] + 1
  /\ SameDownloads(j)

\* An attempt ended without a verdict: only while the budget allows another.
Retry(j) ==
  /\ Move(j, "working", "queued")
  /\ tries[j] < MaxAttempts
  /\ SameTries(j)

\* The verdict.  A done job has its video from the very step that says so.
Deliver(j) == Move(j, "working", "done") /\ SameTries(j) /\ "video" \in downloads'[j]
Fail(j)    == Move(j, "working", "failed") /\ SameTries(j)
Cancel(j)  ==
  /\ \/ Move(j, "queued", "cancelled")
     \/ Move(j, "working", "cancelled")
  /\ SameTries(j)
  /\ SameDownloads(j)

\* Retention: a done job is called expired in the step its last download goes.
Expire(j) ==
  /\ Move(j, "done", "expired")
  /\ SameTries(j)
  /\ downloads[j] # {}
  /\ downloads'[j] = {}

\* Retention takes some of the downloads: all of them, if the job is not done.
Withdraw(j) ==
  /\ status'[j] = status[j]
  /\ SameTries(j)
  /\ downloads'[j] \subseteq downloads[j]
  /\ status[j] = "done" => downloads'[j] # {}

Stay(j) == status'[j] = status[j] /\ SameTries(j) /\ SameDownloads(j)

JobStep(j) ==
  \/ Submit(j)
  \/ Start(j)
  \/ Retry(j)
  \/ Deliver(j)
  \/ Fail(j)
  \/ Cancel(j)
  \/ Expire(j)
  \/ Withdraw(j)
  \/ Stay(j)

Next == \A j \in Job : JobStep(j)

Spec == Init /\ [][Next]_<<status, tries, downloads>>
================================================================================
