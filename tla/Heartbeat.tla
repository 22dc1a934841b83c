------------------------------- MODULE Heartbeat --------------------------------
(***************************************************************************)
(* The heartbeat of one take, beside the loop that watches its container:   *)
(* a task that calls report_progress once per beat.  It is all that keeps   *)
(* the lease alive, and the only way a cancel or a lost lease reaches the   *)
(* loop: Supervisor's HeartbeatSendsCancel, taken apart.                    *)
(*                                                                          *)
(* The lease is dated when the database serves a call, which is anywhere    *)
(* between its departure and its answer.  A call ends by its timeout; then  *)
(* nobody knows whether it was served, and it is not retried.               *)
(***************************************************************************)
EXTENDS Supervisor, Integers

CONSTANTS
  Beat,     \* KAVIRI_HEARTBEAT_SECONDS
  Lease,    \* KAVIRI_LEASE_SECONDS
  Timeout   \* the HTTP client's timeout for one call

\* Config::from_env refuses a heartbeat of more than a third of the lease.
ASSUME BeatAssumption ==
  /\ Beat \in Nat \ {0} /\ Lease \in Nat /\ Timeout \in Nat \ {0}
  /\ Beat * 3 <= Lease

VARIABLES
  beat,      \* "resting", "calling", or "refused": the task has returned
  served,    \* what the database answered to this call, if it was served
  due,       \* when the ticker fires next
  sent,      \* when this call was sent
  leaseEnds, \* lease_expires_at
  wanted,    \* cancel_requested of the row
  lost       \* beats that failed in a row

hbVars == <<beat, served, due, sent, leaseEnds, wanted, lost>>
allVars == <<vars, hbVars>>

Held == now < leaseEnds

\* "running" was reported just before: served within Timeout, answered at time 0.
HBInit ==
  /\ Init
  /\ beat = "resting" /\ served = "no"
  /\ due = Beat
  /\ sent = 0
  /\ leaseEnds \in (Lease - Timeout)..Lease
  /\ wanted \in BOOLEAN
  /\ asked => wanted
  /\ lost = 0

--------------------------------------------------------------------------------
\* Mutant: the next beat is counted from the answer of the last.
BeatSentLate ==
  /\ Looping
  /\ beat = "resting" /\ now >= due
  /\ beat' = "calling" /\ served' = "no"
  /\ sent' = now
  /\ due' = now + Timeout + Beat
  /\ UNCHANGED <<vars, leaseEnds, wanted, lost>>

\* The ticker fires.  A beat whose time passed during a call fires at once, and the
\* next is a whole period later (MissedTickBehavior::Delay).
BeatSent ==
  /\ Looping
  /\ beat = "resting" /\ now >= due
  /\ beat' = "calling" /\ served' = "no"
  /\ sent' = now
  /\ due' = now + Beat
  /\ UNCHANGED <<vars, leaseEnds, wanted, lost>>

\* report_progress: a live lease is renewed, a lapsed one is not, and the answer
\* carries the cancel flag of that moment.
BeatServed ==
  /\ beat = "calling" /\ served = "no"
  /\ served' = IF ~Held THEN "refused" ELSE IF wanted THEN "cancel" ELSE "renewed"
  /\ leaseEnds' = IF Held THEN now + Lease ELSE leaseEnds
  /\ UNCHANGED <<vars, beat, due, sent, wanted, lost>>

\* The answer: a cancel, and a refusal, are sent to the loop; a refusal ends the task.
BeatAnswered ==
  /\ Looping
  /\ beat = "calling" /\ served # "no"
  /\ beat' = IF served = "refused" THEN "refused" ELSE "resting"
  /\ asked' = (asked \/ served \in {"cancel", "refused"})
  /\ served' = "no"
  /\ lost' = IF served = "refused" THEN lost ELSE 0
  /\ UNCHANGED <<now, child, phase, walked, watch, stopping, stopAt, hardAt, kills, outcome,
                 due, sent, leaseEnds, wanted>>

\* A transport failure: refused, cut off, timed out, whether it was served or not.
BeatFails ==
  /\ Looping
  /\ beat = "calling"
  /\ beat' = "resting" /\ served' = "no"
  /\ lost' = lost + 1
  /\ UNCHANGED <<vars, due, sent, leaseEnds, wanted>>

\* The customer cancels.
CancelWanted ==
  /\ ~wanted
  /\ wanted' = TRUE
  /\ UNCHANGED <<vars, beat, served, due, sent, leaseEnds, lost>>

--------------------------------------------------------------------------------
\* Time does not pass over a beat that is due, nor over a call that has timed out.
BeatLetsTimePass ==
  CASE beat = "resting" -> now < due
    [] beat = "calling" -> now < sent + Timeout
    [] OTHER -> TRUE

HBTick == Tick /\ BeatLetsTimePass /\ UNCHANGED hbVars

HBLoop == Loop /\ UNCHANGED hbVars
HBRemoved == Removed /\ UNCHANGED hbVars
HBChildExits == ChildExits /\ UNCHANGED hbVars

Beats == BeatSent \/ BeatAnswered \/ BeatFails

HBNext ==
  \/ HBLoop \/ HBRemoved \/ HBChildExits \/ HBTick
  \/ Beats \/ BeatServed \/ CancelWanted

HBSpec == HBInit /\ [][HBNext]_allVars

\* As in Supervisor, and the client's timeout ends every call; a database that is
\* not there serves none.
HBFairSpec ==
  /\ HBSpec
  /\ WF_allVars(HBLoop) /\ WF_allVars(HBTick) /\ WF_allVars(HBRemoved)
  /\ WF_allVars(Beats)

--------------------------------------------------------------------------------
HBTypeOK ==
  /\ TypeOK
  /\ beat \in {"resting", "calling", "refused"}
  /\ served \in {"no", "renewed", "cancel", "refused"}
  /\ due \in Nat /\ sent \in Nat /\ leaseEnds \in Int
  /\ wanted \in BOOLEAN
  /\ lost \in Nat

Longest(a, b) == IF a >= b THEN a ELSE b

\* How many beats in a row may fail: the lease must outlast the age of the last
\* renewal, the beat after it, what each failed beat takes, and the call that renews.
Survivable == (Lease - Beat - 2 * Timeout - 1) \div Longest(Beat, Timeout)

\* As long as no more beats than that fail in a row, the lease does not lapse under a
\* take that is watched, whatever its container does.
LeaseOutlastsLostBeats == Looping /\ lost <= Survivable => Held
================================================================================
