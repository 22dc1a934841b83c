----------------------------- MODULE HeartbeatProofs -----------------------------
(***************************************************************************)
(* The take's two tasks for all durations, periods, leases and timeouts.   *)
(* First the supervisor's loop: hardAt is set when the stop is asked for,  *)
(* no later than the soft deadline and a walk, each kill moves it by one   *)
(* KillRetry, and time never passes it.  Then the loop beside its          *)
(* heartbeat: it is still the one of Supervisor, so that every bound holds *)
(* here too.  Last the lease: its renewal is never older than a call, a    *)
(* period and what each beat that failed since may have taken.             *)
(***************************************************************************)
EXTENDS Heartbeat, TLAPS

--------------------------------------------------------------------------------
(* The supervisor.                                                         *)

\* Until the stop, time is short of the soft deadline but for a walk under way.
BeforeStop ==
  /\ phase # "walking" => now <= SoftDeadline + Walk
  /\ phase = "walking" => now <= SoftDeadline + walked
  /\ kills = 0 /\ ~outcome.killed /\ ~outcome.truncated

\* After it, time is short of the hard deadline, which the kills have moved.
AfterStop ==
  /\ stopAt <= SoftDeadline + Walk
  /\ phase # "walking"
  /\ now <= hardAt
  /\ stopAt <= now
  /\ hardAt <= stopAt + Grace + KillRetry + kills * KillRetry
  /\ outcome.truncated => hardAt >= stopAt + Grace + KillRetry
  /\ outcome.truncated /\ outcome.killed => now >= stopAt + Grace
  /\ kills <= MaxKillAttempts

IInv ==
  /\ TypeOK
  /\ stopping => AfterStop
  /\ ~stopping => BeforeStop

--------------------------------------------------------------------------------
\* The initial states, with and without an early cancel.
LEMMA InitIInv == Init => IInv
<1> SUFFICES ASSUME Init PROVE IInv
  OBVIOUS
<1>1. /\ outcome \in RenderOutcome
      /\ ~outcome.killed /\ ~outcome.truncated
  <2>1. outcome = [cancelled |-> asked, truncated |-> FALSE, spool_limit |-> FALSE,
                   killed |-> FALSE, abandoned |-> FALSE]
    BY DEF Init, NoOutcome
  <2>2. asked \in BOOLEAN
    BY DEF Init
  <2> QED
    BY <2>1, <2>2 DEF RenderOutcome
<1>2. TypeOK
  BY <1>1, DurationAssumption DEF Init, TypeOK
<1>3. kills * KillRetry = 0
  BY DurationAssumption DEF Init
<1>4. stopping => AfterStop
  BY <1>1, <1>3, DurationAssumption DEF Init, AfterStop
<1>5. ~stopping => BeforeStop
  BY <1>1, DurationAssumption DEF Init, BeforeStop
<1> QED
  BY <1>2, <1>4, <1>5 DEF IInv

\* What the loop writes when a stop is asked for puts now before the deadline.
LEMMA StopStep ==
  ASSUME IInv, ~stopping, phase \in {"waiting", "walking"}, phase' = "waiting",
         NEW grace \in {0, Grace}, Stop(grace),
         UNCHANGED <<world, walked, kills>>, watch' \in BOOLEAN,
         outcome' \in RenderOutcome,
         outcome'.killed = outcome.killed,
         outcome'.truncated => grace = Grace
  PROVE  IInv'
<1>1. now <= SoftDeadline + Walk
  BY DurationAssumption DEF IInv, TypeOK, BeforeStop
<1>2. stopping' /\ stopAt' = now /\ hardAt' = now + grace + KillRetry /\ now' = now
  BY DEF Stop, world
<1>3. kills' = 0 /\ ~outcome'.killed /\ kills * KillRetry = 0
  BY DurationAssumption DEF IInv, BeforeStop
<1>4. TypeOK'
  BY <1>2, DurationAssumption DEF IInv, TypeOK, world
<1>5. AfterStop'
  BY <1>1, <1>2, <1>3, DurationAssumption DEF IInv, TypeOK, AfterStop
<1> QED
  BY <1>2, <1>4, <1>5 DEF IInv

\* The wall clock asks for a stop with the render grace.
LEMMA WallClockStep == IInv /\ WallClock => IInv'
<1> SUFFICES ASSUME IInv, WallClock PROVE IInv'
  OBVIOUS
<1>1. /\ outcome' \in RenderOutcome
      /\ outcome'.killed = outcome.killed
  BY DEF IInv, TypeOK, WallClock, RenderOutcome
<1>2. ~stopping /\ phase = "waiting" /\ phase' = "waiting" /\ Stop(Grace)
  BY DEF WallClock, SomeoneElsesTurn, Waiting, SoftDue
<1>3. UNCHANGED <<world, walked, kills>> /\ watch' \in BOOLEAN
  BY DEF IInv, TypeOK, WallClock
<1> QED
  BY <1>1, <1>2, <1>3, StopStep

\* A cancel asks for one without, and never after a truncation.
LEMMA CancelStep == IInv /\ Cancel => IInv'
<1> SUFFICES ASSUME IInv, Cancel PROVE IInv'
  OBVIOUS
<1>1. ~stopping /\ phase = "waiting" /\ phase' = "waiting" /\ Stop(0)
  BY DEF Cancel, SomeoneElsesTurn, Waiting, CancelDue
<1>2. /\ outcome' \in RenderOutcome
      /\ outcome'.killed = outcome.killed
      /\ ~outcome'.truncated
  BY <1>1 DEF IInv, TypeOK, Cancel, RenderOutcome, BeforeStop
<1>3. UNCHANGED <<world, walked, kills>> /\ watch' \in BOOLEAN
  BY DEF IInv, TypeOK, Cancel
<1> QED
  BY <1>1, <1>2, <1>3, StopStep

\* A walk begins short of the soft deadline.
LEMMA WalkBeginsStep == IInv /\ WalkBegins => IInv'
<1> SUFFICES ASSUME IInv, WalkBegins PROVE IInv'
  OBVIOUS
<1>1. ~stopping /\ ~stopping' /\ BeforeStop /\ now \in Nat /\ ~(now >= SoftDeadline)
  BY DurationAssumption DEF IInv, TypeOK, WalkBegins, WatchDue, SoftDue
<1>2. TypeOK'
  <2>1. walked' = 0 /\ 0 \in 0..Walk /\ watch' = FALSE
    BY DurationAssumption DEF WalkBegins
  <2>2. phase' \in {"waiting", "walking", "removing", "ended"}
    BY DEF WalkBegins
  <2> QED
    BY <2>1, <2>2 DEF IInv, TypeOK, WalkBegins, world
<1>3. BeforeStop'
  BY <1>1, DurationAssumption DEF BeforeStop, WalkBegins, world
<1> QED
  BY <1>1, <1>2, <1>3 DEF IInv

\* A walk that found the disk full asks for a stop, at most a walk too late.
LEMMA WalkEndsStep ==
  ASSUME IInv, NEW full \in BOOLEAN, WalkEnds(full)
  PROVE  IInv'
<1>1. ~stopping /\ phase = "walking" /\ phase' = "waiting"
  BY DEF IInv, AfterStop, WalkEnds
<1>2. CASE full
  <2>1. /\ outcome' \in RenderOutcome
        /\ outcome'.killed = outcome.killed
    BY <1>2 DEF IInv, TypeOK, WalkEnds, RenderOutcome
  <2>2. Stop(Grace) /\ UNCHANGED <<world, walked, kills>> /\ watch' \in BOOLEAN
    BY <1>2 DEF IInv, TypeOK, WalkEnds
  <2> QED
    BY <1>1, <2>1, <2>2, StopStep
<1>3. CASE ~full
  BY <1>1, <1>3, DurationAssumption
  DEF IInv, TypeOK, WalkEnds, world, BeforeStop, AfterStop
<1> QED
  BY <1>2, <1>3

\* A kill is requested exactly at the deadline, which moves by one KillRetry.
LEMMA EscalateStep == IInv /\ Escalate => IInv'
<1> SUFFICES ASSUME IInv, Escalate PROVE IInv'
  OBVIOUS
<1>1. stopping /\ AfterStop /\ now = hardAt
  BY DEF IInv, TypeOK, AfterStop, Escalate, HardDue
<1>2. /\ stopping' = stopping /\ stopAt' = stopAt /\ now' = now
      /\ outcome'.truncated = outcome.truncated
      /\ outcome' \in RenderOutcome
  BY DEF Escalate, world, IInv, TypeOK, RenderOutcome
<1>3. CASE AnotherKill
  <2>1. kills' = kills + 1 /\ hardAt' = now + KillRetry /\ phase' = phase
    BY <1>3 DEF Escalate
  <2>2. (kills + 1) * KillRetry = kills * KillRetry + KillRetry
    BY DurationAssumption DEF IInv, TypeOK
  <2>3. TypeOK'
    BY <1>2, <2>1, DurationAssumption DEF IInv, TypeOK, Escalate, world
  <2>4. AfterStop'
    <3>1. kills * KillRetry \in Nat /\ stopAt \in Nat /\ now \in Nat
      BY DurationAssumption DEF IInv, TypeOK
    <3>2. hardAt' <= stopAt + Grace + KillRetry + (kills + 1) * KillRetry
      BY <1>1, <2>1, <2>2, <3>1, DurationAssumption DEF AfterStop
    <3>3. kills' <= MaxKillAttempts
      BY <1>3, <2>1, DurationAssumption DEF AnotherKill, IInv, TypeOK
    <3> QED
      BY <1>1, <1>2, <2>1, <3>1, <3>2, <3>3, DurationAssumption DEF AfterStop
  <2> QED
    BY <1>1, <1>2, <2>3, <2>4 DEF IInv
<1>4. CASE ~AnotherKill
  <2>1. kills' = kills /\ hardAt' = hardAt /\ phase' = "ended"
    BY <1>4 DEF Escalate
  <2>2. TypeOK'
    BY <1>2, <2>1, DurationAssumption DEF IInv, TypeOK, Escalate, world
  <2>3. AfterStop'
    <3>1. now \in Nat /\ stopAt \in Nat /\ hardAt \in Nat
      BY DurationAssumption DEF IInv, TypeOK
    <3> QED
      BY <1>1, <1>2, <2>1, <3>1, DurationAssumption DEF AfterStop
  <2> QED
    BY <1>1, <1>2, <2>2, <2>3 DEF IInv
<1> QED
  BY <1>3, <1>4

\* Time passes short of every deadline that is armed.
LEMMA TickStep == IInv /\ Tick => IInv'
<1> SUFFICES ASSUME IInv, Tick PROVE IInv'
  OBVIOUS
<1>1. TypeOK'
  BY DurationAssumption DEF IInv, TypeOK, Tick
<1>2. CASE stopping
  <2>1. now < hardAt
    BY <1>2 DEF IInv, TypeOK, AfterStop, Tick, HardDue, Waiting
  <2>2. AfterStop'
    BY <1>2, <2>1, DurationAssumption DEF IInv, TypeOK, AfterStop, Tick
  <2> QED
    BY <1>1, <1>2, <2>2 DEF IInv, Tick
<1>3. CASE ~stopping
  <2>1. BeforeStop /\ stopping' = stopping /\ kills' = kills /\ outcome' = outcome
    BY <1>3 DEF IInv, Tick
  <2>2. now \in Nat /\ walked \in Nat /\ now' = now + 1 /\ phase' = phase
    BY DurationAssumption DEF IInv, TypeOK, Tick
  <2>3. CASE phase = "waiting"
    <3>1. now < SoftDeadline
      BY <1>3, <2>2, <2>3, DurationAssumption DEF Tick, SoftDue
    <3> QED
      BY <1>1, <1>3, <2>1, <2>2, <2>3, <3>1, DurationAssumption DEF IInv, BeforeStop
  <2>4. CASE phase = "walking"
    <3>1. walked' = walked + 1
      BY <2>4 DEF Tick, Waiting
    <3> QED
      BY <1>1, <1>3, <2>1, <2>2, <2>4, <3>1, DurationAssumption DEF IInv, BeforeStop
  <2> QED
    BY <2>3, <2>4 DEF Tick, Waiting
<1> QED
  BY <1>2, <1>3

\* The loop's last steps and what others do change no time.
LEMMA OtherStep ==
  IInv /\ (ChildReaped \/ Removed \/ ChildExits \/ HeartbeatSendsCancel \/ UNCHANGED vars)
    => IInv'
<1> SUFFICES ASSUME IInv,
                    ChildReaped \/ Removed \/ ChildExits \/ HeartbeatSendsCancel
                      \/ UNCHANGED vars
             PROVE  IInv'
  OBVIOUS
<1>1. /\ now' = now /\ stopping' = stopping /\ stopAt' = stopAt /\ hardAt' = hardAt
      /\ kills' = kills /\ outcome' = outcome /\ walked' = walked
      /\ phase' = phase \/ (phase \in {"waiting", "removing"} /\ phase' # "walking")
  BY DEF ChildReaped, Removed, ChildExits, HeartbeatSendsCancel, vars, world, Waiting
<1>2. TypeOK'
  BY DEF IInv, TypeOK, ChildReaped, Removed, ChildExits, HeartbeatSendsCancel, vars, world
<1> QED
  BY <1>1, <1>2 DEF IInv, AfterStop, BeforeStop

\* Every step keeps the invariant.
LEMMA NextIInv == IInv /\ [Next]_vars => IInv'
  BY WallClockStep, CancelStep, WalkBeginsStep, WalkEndsStep, EscalateStep, TickStep,
     OtherStep DEF Next, Loop

\* So the invariant holds throughout.
THEOREM Inductive == Spec => []IInv
  BY InitIInv, NextIInv, PTL DEF Spec

--------------------------------------------------------------------------------
\* Every variable keeps its type: time never runs into the horizon of the count.
THEOREM TypeCorrect == Spec => []TypeOK
<1>1. IInv => TypeOK
  BY DEF IInv
<1> QED
  BY <1>1, Inductive, PTL

\* The loop ends within the budget, a walk, the grace and one KillRetry per kill
\* and one more, whatever the container and the docker daemon do.
THEOREM LoopBounded == Spec => []WallClockBounded
<1>1. IInv => WallClockBounded
  <2> SUFFICES ASSUME IInv PROVE now <= Ceiling
    BY DEF WallClockBounded
  <2>1. CASE ~stopping
    <3>1. now <= SoftDeadline + Walk
      BY <2>1, DurationAssumption DEF IInv, TypeOK, BeforeStop
    <3>2. (MaxKillAttempts + 1) * KillRetry \in Nat
      BY DurationAssumption
    <3> QED
      BY <3>1, <3>2, DurationAssumption DEF Ceiling, IInv, TypeOK
  <2>2. CASE stopping
    <3>1. kills \in Nat /\ kills <= MaxKillAttempts
      BY <2>2 DEF IInv, TypeOK, AfterStop
    <3>2. kills * KillRetry <= MaxKillAttempts * KillRetry
      BY <3>1, DurationAssumption
    <3>3. (MaxKillAttempts + 1) * KillRetry = MaxKillAttempts * KillRetry + KillRetry
      BY DurationAssumption
    <3>4. kills * KillRetry \in Nat /\ MaxKillAttempts * KillRetry \in Nat
      BY <3>1, DurationAssumption
    <3>5. now <= stopAt + Grace + KillRetry + kills * KillRetry
      BY <2>2, <3>4, DurationAssumption DEF IInv, TypeOK, AfterStop
    <3> QED
      BY <2>2, <3>2, <3>3, <3>4, <3>5, DurationAssumption
      DEF Ceiling, IInv, TypeOK, AfterStop
  <2> QED
    BY <2>1, <2>2
<1> QED
  BY <1>1, Inductive, PTL

\* No take that was truncated is killed before its render grace is over.
THEOREM TruncationPolite == Spec => []GraceHonoured
<1>1. IInv => GraceHonoured
  BY DEF IInv, AfterStop, BeforeStop, GraceHonoured
<1> QED
  BY <1>1, Inductive, PTL

--------------------------------------------------------------------------------
(* The heartbeat.                                                          *)

\* When the lease was last renewed.
Renewed == leaseEnds - Lease

\* The age of the renewal at which a beat may still be sent.
Reach == Timeout + Beat + lost * Longest(Beat, Timeout)

HBTypes ==
  /\ now \in Nat
  /\ beat \in {"resting", "calling", "refused"}
  /\ served \in {"no", "renewed", "cancel", "refused"}
  /\ due \in Nat /\ sent \in Nat /\ leaseEnds \in Int
  /\ wanted \in BOOLEAN
  /\ lost \in Nat

Resting ==
  beat = "resting" => now <= Renewed + Reach /\ due <= Renewed + Reach

Calling ==
  beat = "calling" =>
     /\ sent <= now /\ now <= sent + Timeout /\ due = sent + Beat
     /\ served \in {"no", "refused"} => sent <= Renewed + Reach
     /\ served \in {"renewed", "cancel"} => sent <= Renewed /\ Renewed <= now
     /\ served = "refused" => lost > Survivable

Refused == beat = "refused" => lost > Survivable

\* The inductive invariant of the heartbeat.
BInv == HBTypes /\ Resting /\ Calling /\ Refused

--------------------------------------------------------------------------------
(* The refinement of Supervisor.                                           *)

\* A step beside the heartbeat is a step of the loop alone, or none.
LEMMA StepRefines == TypeOK /\ [HBNext]_allVars => [Next]_vars
<1> SUFFICES ASSUME TypeOK, [HBNext]_allVars PROVE [Next]_vars
  OBVIOUS
<1>1. CASE HBLoop \/ HBRemoved \/ HBChildExits \/ HBTick
  BY <1>1 DEF HBLoop, HBRemoved, HBChildExits, HBTick, Next
<1>2. CASE BeatSent \/ BeatFails \/ BeatServed \/ CancelWanted \/ UNCHANGED allVars
  BY <1>2 DEF BeatSent, BeatFails, BeatServed, CancelWanted, allVars
<1>3. CASE BeatAnswered
  <2>1. asked \in BOOLEAN /\ asked' = (asked \/ served \in {"cancel", "refused"})
    BY <1>3 DEF TypeOK, BeatAnswered
  <2>2. asked' = asked \/ (~asked /\ asked' = TRUE)
    BY <2>1
  <2>3. CASE asked' = asked
    BY <1>3, <2>3 DEF BeatAnswered, vars
  <2>4. CASE ~asked /\ asked' = TRUE
    BY <1>3, <2>4 DEF BeatAnswered, HeartbeatSendsCancel, Next
  <2> QED
    BY <2>2, <2>3, <2>4
<1> QED
  BY <1>1, <1>2, <1>3 DEF HBNext, Beats

\* The loop's own invariant holds beside the heartbeat.
LEMMA LoopInvariant == HBSpec => []IInv
<1>1. HBInit => IInv
  BY InitIInv DEF HBInit
<1>2. IInv /\ [HBNext]_allVars => IInv'
  BY StepRefines, NextIInv DEF IInv
<1> QED
  BY <1>1, <1>2, PTL DEF HBSpec

\* The loop with a real heartbeat implements the loop whose cancel channel anybody may
\* write at any time: nothing proved of the loop alone depends on how a beat is served.
THEOREM HeartbeatImplementsSupervisor == HBSpec => Spec
<1>1. HBInit => Init
  BY DEF HBInit
<1>2. IInv /\ [HBNext]_allVars => [Next]_vars
  BY StepRefines DEF IInv
<1> QED
  BY <1>1, <1>2, LoopInvariant, PTL DEF HBSpec, Spec

--------------------------------------------------------------------------------
(* The lease.                                                              *)

\* The longer of the two is at least each.
LEMMA LongestBounds ==
  /\ Longest(Beat, Timeout) \in Nat \ {0}
  /\ Beat <= Longest(Beat, Timeout) /\ Timeout <= Longest(Beat, Timeout)
  BY BeatAssumption DEF Longest

\* What Reach is, and what one more failed beat adds to it.
LEMMA ReachBounds ==
  ASSUME lost \in Nat
  PROVE  /\ Reach \in Nat /\ Reach >= Timeout + Beat
         /\ Survivable \in Int
         /\ lost' = lost + 1 => Reach' >= Reach + Beat /\ Reach' >= Reach + Timeout
                                /\ Reach' \in Nat
         /\ lost' = lost => Reach' = Reach
         /\ lost' = 0 => Reach' = Timeout + Beat
<1> DEFINE M == Longest(Beat, Timeout)
<1>1. M \in Nat \ {0} /\ Beat <= M /\ Timeout <= M /\ Beat \in Nat /\ Timeout \in Nat
      /\ Lease \in Nat
  BY LongestBounds, BeatAssumption
<1>2. lost * M \in Nat /\ (lost + 1) * M = lost * M + M /\ 0 * M = 0
  BY <1>1
<1>3. Survivable \in Int
  BY <1>1 DEF Survivable
<1> HIDE DEF M
<1>4. Reach = Timeout + Beat + lost * M /\ Reach' = Timeout + Beat + lost' * M
  BY DEF Reach, M
<1> QED
  BY <1>1, <1>2, <1>3, <1>4

\* Few enough lost beats leave room in the lease for one more call.
LEMMA RoomForACall ==
  ASSUME lost \in Nat, lost <= Survivable
  PROVE  Reach + Timeout < Lease
<1> DEFINE M == Longest(Beat, Timeout)
           X == Lease - Beat - 2 * Timeout - 1
<1>1. M \in Nat \ {0} /\ X \in Int /\ Beat \in Nat /\ Timeout \in Nat /\ Lease \in Nat
  BY LongestBounds, BeatAssumption
<1>2. lost <= X \div M
  BY DEF Survivable
<1>3. Reach = Timeout + Beat + lost * M
  BY DEF Reach
<1> HIDE DEF M
<1>4. (X \div M) * M <= X
  <2> HIDE DEF X
  <2> QED
    BY <1>1
<1>5. X \div M \in Int
  BY <1>1
<1>6. lost * M <= (X \div M) * M
  <2> DEFINE q == X \div M
  <2>1. q \in Int /\ lost <= q
    BY <1>2, <1>5
  <2> HIDE DEF q
  <2>2. lost * M <= q * M
    BY <1>1, <2>1
  <2> QED
    BY <2>2 DEF q
<1>7. lost * M \in Int /\ (X \div M) * M \in Int
  BY <1>1, <1>5
<1>8. lost * M <= X
  BY <1>1, <1>4, <1>6, <1>7
<1> QED
  BY <1>1, <1>3, <1>7, <1>8

\* The invariant holds at first: the renewal is at most a call old.
LEMMA InitBInv == HBInit => BInv
<1> SUFFICES ASSUME HBInit PROVE BInv
  OBVIOUS
<1>1. HBTypes
  BY BeatAssumption DEF HBInit, Init, HBTypes
<1>2. Reach >= Timeout + Beat /\ Reach \in Nat
  BY ReachBounds, <1>1 DEF HBTypes
<1>3. Resting
  BY <1>2, BeatAssumption DEF HBInit, Init, Resting, Renewed
<1> QED
  BY <1>1, <1>3 DEF BInv, HBInit, Calling, Refused

\* Time passes short of what the heartbeat waits for.
LEMMA TickBInv == BInv /\ HBTick => BInv'
<1> SUFFICES ASSUME BInv, HBTick PROVE BInv'
  OBVIOUS
<1>1. now' = now + 1 /\ UNCHANGED hbVars /\ BeatLetsTimePass
  BY DEF HBTick, Tick
<1>2. Reach' = Reach /\ Reach \in Nat /\ Renewed' = Renewed /\ Survivable' = Survivable
  BY <1>1, ReachBounds DEF BInv, HBTypes, hbVars, Renewed, Survivable
<1>3. HBTypes'
  BY <1>1 DEF BInv, HBTypes, hbVars
<1>4. Resting' /\ Calling' /\ Refused'
  BY <1>1, <1>2, BeatAssumption
  DEF BInv, HBTypes, hbVars, BeatLetsTimePass, Resting, Calling, Refused, Renewed
<1> QED
  BY <1>3, <1>4 DEF BInv

\* A beat is sent when it is due.
LEMMA SentBInv == BInv /\ BeatSent => BInv'
<1> SUFFICES ASSUME BInv, BeatSent PROVE BInv'
  OBVIOUS
<1>1. /\ now' = now /\ leaseEnds' = leaseEnds /\ wanted' = wanted /\ lost' = lost
      /\ beat' = "calling" /\ served' = "no" /\ sent' = now /\ due' = now + Beat
      /\ beat = "resting"
  BY DEF BeatSent, vars
<1>2. Reach' = Reach /\ Renewed' = Renewed
  BY <1>1, ReachBounds DEF BInv, HBTypes, Renewed
<1>3. HBTypes'
  BY <1>1, BeatAssumption DEF BInv, HBTypes
<1>4. Resting' /\ Calling' /\ Refused'
  BY <1>1, <1>2, BeatAssumption DEF BInv, HBTypes, Resting, Calling, Refused
<1> QED
  BY <1>3, <1>4 DEF BInv

\* A call that arrives renews the lease, and is refused only after too many lost beats.
LEMMA ServedBInv == BInv /\ BeatServed => BInv'
<1> SUFFICES ASSUME BInv, BeatServed PROVE BInv'
  OBVIOUS
<1>1. /\ now' = now /\ beat' = beat /\ beat = "calling" /\ served = "no"
      /\ due' = due /\ sent' = sent /\ wanted' = wanted /\ lost' = lost
  BY DEF BeatServed, vars
<1>2. Reach' = Reach /\ Reach \in Nat /\ Survivable' = Survivable /\ Survivable \in Int
  BY <1>1, ReachBounds DEF BInv, HBTypes, Survivable
<1>3. sent <= Renewed + Reach /\ now <= sent + Timeout
  BY <1>1 DEF BInv, Calling
<1>4. CASE Held
  <2>1. leaseEnds' = now + Lease /\ served' \in {"renewed", "cancel"}
    BY <1>4 DEF BeatServed
  <2>2. HBTypes' /\ Renewed' = now
    BY <1>1, <2>1, BeatAssumption DEF BInv, HBTypes, Renewed
  <2>3. sent <= now
    BY <1>1 DEF BInv, Calling
  <2> QED
    BY <1>1, <2>1, <2>2, <2>3, BeatAssumption DEF BInv, HBTypes, Resting, Calling, Refused
<1>5. CASE ~Held
  <2>1. leaseEnds' = leaseEnds /\ served' = "refused"
    BY <1>5 DEF BeatServed
  <2>2. HBTypes' /\ Renewed' = Renewed
    BY <1>1, <2>1 DEF BInv, HBTypes, Renewed
  <2>3. lost > Survivable
    <3> SUFFICES ASSUME lost <= Survivable PROVE Held
      BY <1>2, <1>5 DEF BInv, HBTypes
    <3>1. Reach + Timeout < Lease
      BY RoomForACall DEF BInv, HBTypes
    <3> QED
      BY <1>2, <1>3, <3>1, BeatAssumption DEF BInv, HBTypes, Renewed, Held
  <2> QED
    BY <1>1, <1>2, <1>3, <2>1, <2>2, <2>3 DEF BInv, Resting, Calling, Refused
<1> QED
  BY <1>4, <1>5

\* An answer ends the call, at most a timeout after it was served.
LEMMA AnsweredBInv == BInv /\ BeatAnswered => BInv'
<1> SUFFICES ASSUME BInv, BeatAnswered PROVE BInv'
  OBVIOUS
<1>1. /\ now' = now /\ beat = "calling" /\ served # "no" /\ served' = "no"
      /\ due' = due /\ sent' = sent /\ wanted' = wanted /\ leaseEnds' = leaseEnds
      /\ beat' = IF served = "refused" THEN "refused" ELSE "resting"
      /\ lost' = IF served = "refused" THEN lost ELSE 0
  BY DEF BeatAnswered
<1>2. HBTypes' /\ Renewed' = Renewed /\ Survivable' = Survivable
  BY <1>1 DEF BInv, HBTypes, Renewed, Survivable
<1>3. CASE served = "refused"
  BY <1>1, <1>2, <1>3 DEF BInv, Resting, Calling, Refused
<1>4. CASE served # "refused"
  <2>1. Reach' = Timeout + Beat
    BY <1>1, <1>4, ReachBounds DEF BInv, HBTypes
  <2>2. now <= sent + Timeout /\ due = sent + Beat /\ sent <= Renewed /\ Renewed \in Int
    BY <1>1, <1>4, BeatAssumption DEF BInv, HBTypes, Calling, Renewed
  <2> QED
    BY <1>1, <1>2, <1>4, <2>1, <2>2, BeatAssumption
    DEF BInv, HBTypes, Resting, Calling, Refused
<1> QED
  BY <1>3, <1>4

\* How far a call that was sent in time, and its period, go beyond that.
LEMMA OneMoreLost ==
  ASSUME NEW r \in Int, NEW near \in Nat, NEW far \in Nat, NEW s \in Nat, NEW n \in Nat,
         s <= r + near, n <= s + Timeout, far >= near + Beat, far >= near + Timeout
  PROVE  n <= r + far /\ s + Beat <= r + far
  BY BeatAssumption

\* A beat that fails has taken a timeout or a period, whichever is longer, at most.
LEMMA FailsBInv == BInv /\ BeatFails => BInv'
<1> SUFFICES ASSUME BInv, BeatFails PROVE BInv'
  OBVIOUS
<1>1. /\ now' = now /\ beat = "calling" /\ beat' = "resting" /\ served' = "no"
      /\ due' = due /\ sent' = sent /\ wanted' = wanted /\ leaseEnds' = leaseEnds
      /\ lost' = lost + 1
  BY DEF BeatFails, vars
<1>2. HBTypes' /\ Renewed' = Renewed /\ Renewed \in Int
  BY <1>1, BeatAssumption DEF BInv, HBTypes, Renewed
<1>3. /\ Reach \in Nat /\ Reach' \in Nat
      /\ Reach' >= Reach + Beat /\ Reach' >= Reach + Timeout
  BY <1>1, ReachBounds DEF BInv, HBTypes
<1>4. sent <= Renewed + Reach
  BY <1>1, <1>2, <1>3 DEF BInv, HBTypes, Calling
<1>5. Resting'
  <2>1. now <= sent + Timeout /\ due = sent + Beat /\ now \in Nat /\ sent \in Nat
    BY <1>1 DEF BInv, HBTypes, Calling
  <2>2. now <= Renewed + Reach' /\ due <= Renewed + Reach'
    BY <1>2, <1>3, <1>4, <2>1, OneMoreLost
  <2> QED
    BY <1>1, <1>2, <2>2 DEF Resting
<1> QED
  BY <1>1, <1>2, <1>5 DEF BInv, Calling, Refused

\* What else happens is nothing to the heartbeat, but that a cancel may be wanted.
LEMMA OtherBInv ==
  BInv /\ (HBLoop \/ HBRemoved \/ HBChildExits \/ CancelWanted \/ UNCHANGED allVars) => BInv'
<1> SUFFICES ASSUME BInv,
                    HBLoop \/ HBRemoved \/ HBChildExits \/ CancelWanted \/ UNCHANGED allVars
             PROVE  BInv'
  OBVIOUS
<1>1. now' = now
  BY DEF HBLoop, HBRemoved, HBChildExits, CancelWanted, allVars, vars, world, Loop, Removed,
         ChildExits, ChildReaped, WallClock, Cancel, WalkBegins, WalkEnds, Escalate
<1>2. /\ UNCHANGED <<beat, served, due, sent, leaseEnds, lost>>
      /\ wanted' \in BOOLEAN
  BY DEF HBLoop, HBRemoved, HBChildExits, CancelWanted, allVars, hbVars, BInv, HBTypes
<1>3. Reach' = Reach /\ Renewed' = Renewed /\ Survivable' = Survivable
  BY <1>2, ReachBounds DEF BInv, HBTypes, Renewed, Survivable
<1> QED
  BY <1>1, <1>2, <1>3 DEF BInv, HBTypes, Resting, Calling, Refused

\* The invariant holds throughout.
THEOREM HeartbeatInductive == HBSpec => []BInv
<1>1. BInv /\ [HBNext]_allVars => BInv'
  BY TickBInv, SentBInv, ServedBInv, AnsweredBInv, FailsBInv, OtherBInv DEF HBNext, Beats
<1> QED
  BY <1>1, InitBInv, PTL DEF HBSpec

--------------------------------------------------------------------------------
\* Loop and heartbeat keep their types, for all durations.
THEOREM HeartbeatTypeCorrect == HBSpec => []HBTypeOK
<1>1. IInv /\ BInv => HBTypeOK
  BY DEF IInv, BInv, HBTypes, HBTypeOK
<1> QED
  BY <1>1, LoopInvariant, HeartbeatInductive, PTL

\* No more than Survivable beats lost in a row never cost a watched take its lease,
\* whatever the period, the lease and the timeout are.
THEOREM LeaseSurvives == HBSpec => []LeaseOutlastsLostBeats
<1>1. BInv => LeaseOutlastsLostBeats
  <2> SUFFICES ASSUME BInv, lost <= Survivable PROVE Held
    BY DEF LeaseOutlastsLostBeats
  <2>1. Reach + Timeout < Lease /\ Reach >= Timeout + Beat /\ Reach \in Nat
    BY RoomForACall, ReachBounds DEF BInv, HBTypes
  <2>2. ~(lost > Survivable)
    BY ReachBounds DEF BInv, HBTypes
  <2>3. now <= Renewed + Reach + Timeout
    BY <2>1, <2>2, BeatAssumption DEF BInv, HBTypes, Resting, Calling, Refused, Renewed
  <2> QED
    BY <2>1, <2>3, BeatAssumption DEF BInv, HBTypes, Renewed, Held
<1> QED
  BY <1>1, HeartbeatInductive, PTL
================================================================================
