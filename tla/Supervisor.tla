------------------------------ MODULE Supervisor -------------------------------
(***************************************************************************)
(* The loop of docker.rs that watches over one container: one biased       *)
(* select over the child's exit, the wall clock, the cancel channel, the   *)
(* disk watchdog and the hard deadline with its ladder of kills.           *)
(*                                                                         *)
(* Nothing here makes the container end.  docker stop and docker kill are  *)
(* spawned and their result is never looked at, so a container may outlive *)
(* any number of them, and may exit by itself at any moment.               *)
(*                                                                         *)
(* Time is counted in watchdog intervals.  The loop runs as soon as an arm *)
(* is ready: time does not pass over a ready arm, except while the disk is *)
(* measured, when the loop looks at nothing (and a walk may take a while). *)
(***************************************************************************)
EXTENDS Naturals

CONSTANTS
  SoftDeadline,     \* the job's budget of wall clock
  Grace,            \* what the render pass gets after that
  KillRetry,        \* KILL_RETRY, and the slack every hard deadline has
  MaxKillAttempts,  \* MAX_KILL_ATTEMPTS
  Walk,             \* the longest walk of the job directory
  Horizon           \* where counting stops: beyond any take

Ceiling == SoftDeadline + Walk + Grace + (MaxKillAttempts + 1) * KillRetry

ASSUME DurationAssumption ==
  /\ SoftDeadline \in Nat /\ Grace \in Nat /\ KillRetry \in Nat \ {0}
  /\ MaxKillAttempts \in Nat /\ Walk \in Nat /\ Horizon \in Nat
  /\ Horizon > Ceiling + KillRetry

VARIABLES
  now,      \* time since the container was started
  child,    \* docker run: "running" or "exited"
  asked,    \* the cancel channel: the heartbeat has sent true
  phase,    \* "waiting" in the select, "walking" the disk, "removing" the
            \* container, or "ended"
  walked,   \* how long this walk has taken
  watch,    \* the watchdog's interval has elapsed
  stopping, \* the container was asked to stop
  stopAt,   \* when that was
  hardAt,   \* the hard deadline
  kills,    \* StopLadder.kills
  outcome   \* the flags of RenderOutcome

vars == <<now, child, asked, phase, walked, watch, stopping, stopAt, hardAt, kills, outcome>>
world == <<now, child, asked>>

RenderOutcome == [cancelled : BOOLEAN, truncated : BOOLEAN, spool_limit : BOOLEAN,
                  killed : BOOLEAN, abandoned : BOOLEAN]

NoOutcome == [cancelled |-> FALSE, truncated |-> FALSE, spool_limit |-> FALSE,
              killed |-> FALSE, abandoned |-> FALSE]

--------------------------------------------------------------------------------
\* Mutant: the hard deadline is put on the wrong side of the stop.
StopBackwards(grace) ==
  /\ stopping' = TRUE
  /\ stopAt' = now
  /\ hardAt' = now - (grace + KillRetry)

\* spawn_stop, and the hard deadline that goes with it.
Stop(grace) ==
  /\ stopping' = TRUE
  /\ stopAt' = now
  /\ hardAt' = now + grace + KillRetry

\* A cancel may have arrived before the container started.
Init ==
  /\ now = 0
  /\ child = "running"
  /\ asked \in BOOLEAN
  /\ phase = "waiting"
  /\ walked = 0
  /\ watch = TRUE
  /\ stopping = asked
  /\ stopAt = 0
  /\ hardAt = IF asked THEN KillRetry ELSE Horizon
  /\ kills = 0
  /\ outcome = [NoOutcome EXCEPT !.cancelled = asked]

--------------------------------------------------------------------------------
(* The arms of the select, each ready only if those before it are not.     *)

Waiting == phase = "waiting"

\* The other arms: they run only if the child has not exited.
SomeoneElsesTurn == Waiting /\ child = "running"

SoftDue   == ~stopping /\ now >= SoftDeadline

\* Mutant: a cancel is acted on though the container is stopping already.
CancelDueAnytime == asked /\ ~outcome.cancelled /\ ~SoftDue

CancelDue == ~stopping /\ asked /\ ~SoftDue
WatchDue  == ~stopping /\ watch /\ ~SoftDue /\ ~CancelDue

\* Mutant: the arm as it once was, off from the first kill that is requested.
HardDueOnce == stopping /\ now >= hardAt /\ ~outcome.killed

HardDue == stopping /\ now >= hardAt

\* The child is reaped, and docker rm --force is awaited ...
ChildReaped ==
  /\ Waiting
  /\ child = "exited"
  /\ phase' = "removing"
  /\ UNCHANGED <<world, walked, watch, stopping, stopAt, hardAt, kills, outcome>>

\* ... without a timeout: it is the daemon that ends this step.
Removed ==
  /\ phase = "removing"
  /\ phase' = "ended"
  /\ UNCHANGED <<world, walked, watch, stopping, stopAt, hardAt, kills, outcome>>

WallClock ==
  /\ SomeoneElsesTurn
  /\ SoftDue
  /\ outcome' = [outcome EXCEPT !.truncated = TRUE]
  /\ Stop(Grace)
  /\ UNCHANGED <<world, phase, walked, watch, kills>>

Cancel ==
  /\ SomeoneElsesTurn
  /\ CancelDue
  /\ outcome' = [outcome EXCEPT !.cancelled = TRUE]
  /\ Stop(0)
  /\ UNCHANGED <<world, phase, walked, watch, kills>>

\* The watchdog ticks and measures the job directory, which is awaited ...
WalkBegins ==
  /\ SomeoneElsesTurn
  /\ WatchDue
  /\ phase' = "walking"
  /\ walked' = 0
  /\ watch' = FALSE
  /\ UNCHANGED <<world, stopping, stopAt, hardAt, kills, outcome>>

\* ... and acts on what it found, whatever has happened since.
WalkEnds(full) ==
  /\ phase = "walking"
  /\ phase' = "waiting"
  /\ IF full
     THEN /\ outcome' = [outcome EXCEPT !.spool_limit = TRUE, !.truncated = TRUE]
          /\ Stop(Grace)
     ELSE UNCHANGED <<outcome, stopping, stopAt, hardAt>>
  /\ UNCHANGED <<world, walked, watch, kills>>

\* Mutant: the comparison lets one more kill through.
AnotherKillOffByOne == kills <= MaxKillAttempts

\* StopLadder::next: another kill, or the end of the ladder.
AnotherKill == kills < MaxKillAttempts

Escalate ==
  /\ SomeoneElsesTurn
  /\ HardDue
  /\ IF AnotherKill
     THEN /\ kills' = kills + 1
          /\ hardAt' = now + KillRetry
          /\ outcome' = [outcome EXCEPT !.killed = TRUE]
          /\ UNCHANGED phase
     ELSE /\ outcome' = [outcome EXCEPT !.killed = TRUE, !.abandoned = TRUE]
          /\ phase' = "ended"
          /\ UNCHANGED <<kills, hardAt>>
  /\ UNCHANGED <<world, walked, watch, stopping, stopAt>>

Loop ==
  \/ ChildReaped
  \/ WallClock
  \/ Cancel
  \/ WalkBegins
  \/ \E full \in BOOLEAN : WalkEnds(full)
  \/ Escalate

--------------------------------------------------------------------------------
(* The world.                                                              *)

Looping == phase \in {"waiting", "walking"}

ChildExits ==
  /\ Looping
  /\ child = "running"
  /\ child' = "exited"
  /\ UNCHANGED <<now, asked, phase, walked, watch, stopping, stopAt, hardAt, kills, outcome>>

\* The heartbeat hears of a cancel, or that the lease is lost.
HeartbeatSendsCancel ==
  /\ Looping
  /\ ~asked
  /\ asked' = TRUE
  /\ UNCHANGED <<now, child, phase, walked, watch, stopping, stopAt, hardAt, kills, outcome>>

\* Time stops with the loop: what docker rm takes is not counted.
Tick ==
  /\ now < Horizon
  /\ now' = now + 1
  /\ \/ /\ Waiting
        /\ child = "running"
        /\ ~(SoftDue \/ CancelDue \/ WatchDue \/ HardDue)
        /\ UNCHANGED walked
     \/ /\ phase = "walking"
        /\ walked < Walk
        /\ walked' = walked + 1
  /\ watch' = TRUE
  /\ UNCHANGED <<child, asked, phase, stopping, stopAt, hardAt, kills, outcome>>

Next ==
  \/ Loop
  \/ Removed
  \/ ChildExits
  \/ HeartbeatSendsCancel
  \/ Tick

Spec == Init /\ [][Next]_vars

\* The runtime polls a ready loop, time passes, and a daemon whose container has
\* exited answers docker rm.  The container owes nothing, nor do stop and kill.
FairSpec == Spec /\ WF_vars(Loop) /\ WF_vars(Tick) /\ WF_vars(Removed)

--------------------------------------------------------------------------------
TypeOK ==
  /\ now \in 0..Horizon
  /\ child \in {"running", "exited"}
  /\ asked \in BOOLEAN
  /\ phase \in {"waiting", "walking", "removing", "ended"}
  /\ walked \in 0..Walk
  /\ watch \in BOOLEAN
  /\ stopping \in BOOLEAN
  /\ stopAt \in 0..Horizon
  /\ hardAt \in Nat
  /\ kills \in Nat
  /\ outcome \in RenderOutcome

\* The loop outlives the budget by no more than one walk of the disk, the grace and
\* the ladder of kills, even if its container cannot be stopped or killed at all:
\* so long a container that will not die can keep its lease renewed.
WallClockBounded == now <= Ceiling

\* Truncation is polite: a take that is cut short has its full render grace before
\* the first kill, even if a cancel arrives in the middle of it.
GraceHonoured ==
  outcome.truncated /\ outcome.killed => now >= stopAt + Grace

\* Every take ends, with its child reaped or abandoned, though no stop and no kill
\* ever works.
TakeEnds == <>(phase = "ended")
================================================================================
