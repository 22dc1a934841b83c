------------------------------- MODULE WorkerLoop ------------------------------
(***************************************************************************)
(* The main loop of one worker process: a semaphore of job slots, one      *)
(* lease request at a time, a task per take that gives its permit back     *)
(* when the job is reported, the unhealthy flag a take raises when it      *)
(* abandons its container, and the shutdown signal.                        *)
(*                                                                         *)
(* The selects are not biased: with several arms ready any may win.        *)
(***************************************************************************)
EXTENDS Naturals

CONSTANT Slots   \* max_concurrent_jobs

ASSUME SlotsAssumption == Slots \in Nat \ {0}

VARIABLES
  pc,        \* where the loop is: what it does or awaits
  free,      \* permits of the semaphore nobody holds
  filming,   \* takes under way, each with a permit
  leaving,   \* takes that abandoned their container and still hold the permit
  unhealthy, \* the flag they share with the loop
  term,      \* SIGTERM or Ctrl-C was received
  gaveUp,    \* the loop saw the flag: the exit status will not be zero
  late       \* takes started since the flag was raised

vars == <<pc, free, filming, leaving, unhealthy, term, gaveUp, late>>

Point == {"check", "acquire", "lease", "idle", "drain", "exited"}

--------------------------------------------------------------------------------
Init ==
  /\ pc = "check"
  /\ free = Slots
  /\ filming = 0 /\ leaving = 0
  /\ unhealthy = FALSE /\ term = FALSE /\ gaveUp = FALSE
  /\ late = 0

\* Mutant: the flag was read once, before the loop.
MayPollOnce == TRUE

\* The flag, read at the top of the loop.
MayPoll == ~unhealthy

CheckHealth ==
  /\ pc = "check"
  /\ pc' = IF MayPoll THEN "acquire" ELSE "drain"
  /\ gaveUp' = ~MayPoll
  /\ UNCHANGED <<free, filming, leaving, unhealthy, term, late>>

\* The permit is there, so the lease request is sent.
Acquire ==
  /\ pc = "acquire"
  /\ free > 0
  /\ free' = free - 1
  /\ pc' = "lease"
  /\ UNCHANGED <<filming, leaving, unhealthy, term, gaveUp, late>>

\* The permit moves into the task of the take.
Leased ==
  /\ pc = "lease"
  /\ filming' = filming + 1
  /\ pc' = "check"
  /\ late' = IF unhealthy THEN late + 1 ELSE late
  /\ UNCHANGED <<free, leaving, unhealthy, term, gaveUp>>

\* Mutant: the permit is not dropped before the idle sleep.
NothingLeasedLeak ==
  /\ pc = "lease"
  /\ pc' = "idle"
  /\ UNCHANGED <<free, filming, leaving, unhealthy, term, gaveUp, late>>

\* No job, or no answer.
NothingLeased ==
  /\ pc = "lease"
  /\ free' = free + 1
  /\ pc' = "idle"
  /\ UNCHANGED <<filming, leaving, unhealthy, term, gaveUp, late>>

Wake ==
  /\ pc = "idle"
  /\ pc' = "check"
  /\ UNCHANGED <<free, filming, leaving, unhealthy, term, gaveUp, late>>

\* Mutant: a permit is given back by every arm, though only one holds it.
ShutdownSeenTwice ==
  /\ term
  /\ pc \in {"acquire", "lease", "idle"}
  /\ free' = free + 1
  /\ pc' = "drain"
  /\ UNCHANGED <<filming, leaving, unhealthy, term, gaveUp, late>>

\* The shutdown arm of whichever select the loop is in.  The lease request is
\* dropped, and with it the permit that was acquired for it.
ShutdownSeen ==
  /\ term
  /\ pc \in {"acquire", "lease", "idle"}
  /\ free' = IF pc = "lease" THEN free + 1 ELSE free
  /\ pc' = "drain"
  /\ UNCHANGED <<filming, leaving, unhealthy, term, gaveUp, late>>

\* Mutant: the drain waits for one permit.
AllPermitsOne == free >= 1

\* What acquire_many waits for.
AllPermits == free = Slots

Drained ==
  /\ pc = "drain"
  /\ AllPermits
  /\ free' = 0
  /\ pc' = "exited"
  /\ UNCHANGED <<filming, leaving, unhealthy, term, gaveUp, late>>

Loop ==
  \/ CheckHealth
  \/ Acquire
  \/ Leased
  \/ NothingLeased
  \/ Wake
  \/ ShutdownSeen
  \/ Drained

--------------------------------------------------------------------------------
(* The takes, each a task of its own.                                      *)

TakeReported ==
  /\ filming > 0
  /\ filming' = filming - 1
  /\ free' = free + 1
  /\ UNCHANGED <<pc, leaving, unhealthy, term, gaveUp, late>>

\* The flag is raised first; the job directory is removed, and only then does the
\* permit go.
TakeAbandons ==
  /\ filming > 0
  /\ filming' = filming - 1
  /\ leaving' = leaving + 1
  /\ unhealthy' = TRUE
  /\ UNCHANGED <<pc, free, term, gaveUp, late>>

TakeLeaves ==
  /\ leaving > 0
  /\ leaving' = leaving - 1
  /\ free' = free + 1
  /\ UNCHANGED <<pc, filming, unhealthy, term, gaveUp, late>>

Takes == TakeReported \/ TakeAbandons \/ TakeLeaves

Signal ==
  /\ ~term
  /\ pc # "exited"
  /\ term' = TRUE
  /\ UNCHANGED <<pc, free, filming, leaving, unhealthy, gaveUp, late>>

Next == Loop \/ Takes \/ Signal

Spec == Init /\ [][Next]_vars

\* The runtime runs what is ready, the queue answers or its request times out, and
\* a take ends (Supervisor).  tokio picks among ready arms at random, so the
\* shutdown arm does not lose for ever.
FairSpec == Spec /\ WF_vars(Loop) /\ SF_vars(ShutdownSeen) /\ WF_vars(Takes)

--------------------------------------------------------------------------------
TypeOK ==
  /\ pc \in Point
  /\ free \in 0..Slots
  /\ filming \in 0..Slots /\ leaving \in 0..Slots
  /\ unhealthy \in BOOLEAN /\ term \in BOOLEAN /\ gaveUp \in BOOLEAN
  /\ late \in Nat

\* The process does not end under a take: a customer's job in flight is reported
\* or abandoned before main returns, on every way out of the loop.
DrainsFirst == pc = "exited" => filming = 0 /\ leaving = 0

\* A box that has abandoned a container starts at most one more take, whichever
\* of its slots abandoned it and wherever the loop was waiting then.
OneLateTake == late <= 1

\* A process that was told to stop, or that has abandoned a container, ends.
Ends == (term \/ unhealthy) ~> pc = "exited"
================================================================================
