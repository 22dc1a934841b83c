----------------------------- MODULE RenderBoxProofs -----------------------------
(***************************************************************************)
(* A box with any number of slots and jobs.  First the main loop: it       *)
(* drains before it ends and starts one late take at most.  Its invariant  *)
(* survives restarts.  Then the box: what takes of one job share is told   *)
(* apart by who is on the box, and a take that met no other of its job     *)
(* finds nothing in its directory but what it filmed itself.               *)
(***************************************************************************)
EXTENDS RenderBox, FiniteSetTheorems, TLAPS

--------------------------------------------------------------------------------
(* The main loop.                                                          *)

\* Every permit is free, with a take, or with the loop while it asks for a lease;
\* the process ends holding them all.
Held == IF pc = "lease" THEN 1 ELSE IF pc = "exited" THEN Slots ELSE 0

Permits == free + filming + leaving + Held = Slots

\* Once a take was started after the flag went up, the loop is on its way out.
LateOnce ==
  /\ late > 0 => unhealthy /\ pc \in {"check", "drain", "exited"}
  /\ late <= 1

IInv == TypeOK /\ Permits /\ LateOnce

\* At first all permits are free.
LEMMA InitIInv == Init => IInv
<1> SUFFICES ASSUME Init PROVE IInv
  OBVIOUS
<1>1. TypeOK
  <2>1. free \in 0..Slots /\ filming \in 0..Slots /\ leaving \in 0..Slots /\ late \in Nat
    BY SlotsAssumption DEF Init
  <2>2. /\ pc \in Point
        /\ unhealthy \in BOOLEAN /\ term \in BOOLEAN /\ gaveUp \in BOOLEAN
    BY DEF Init, Point
  <2> QED
    BY <2>1, <2>2 DEF TypeOK
<1>2. Permits
  BY SlotsAssumption DEF Init, Permits, Held
<1>3. LateOnce
  BY DEF Init, LateOnce
<1> QED
  BY <1>1, <1>2, <1>3 DEF IInv

\* The loop, its takes and the signal keep IInv: a permit is never lost or made.
LEMMA NextIInv == IInv /\ [Next]_vars => IInv'
<1> SUFFICES ASSUME IInv, [Next]_vars PROVE IInv'
  OBVIOUS
<1> USE SlotsAssumption DEF IInv, TypeOK, Permits, Held, LateOnce, Point
<1>1. CASE CheckHealth
  BY <1>1 DEF CheckHealth, MayPoll
<1>2. CASE Acquire
  BY <1>2 DEF Acquire
<1>3. CASE Leased
  BY <1>3 DEF Leased
<1>4. CASE NothingLeased
  BY <1>4 DEF NothingLeased
<1>5. CASE Wake
  BY <1>5 DEF Wake
<1>6. CASE ShutdownSeen
  BY <1>6 DEF ShutdownSeen
<1>7. CASE Drained
  BY <1>7 DEF Drained, AllPermits
<1>8. CASE TakeReported
  BY <1>8 DEF TakeReported
<1>9. CASE TakeAbandons
  BY <1>9 DEF TakeAbandons
<1>10. CASE TakeLeaves
  BY <1>10 DEF TakeLeaves
<1>11. CASE Signal
  BY <1>11 DEF Signal
<1>12. CASE UNCHANGED vars
  BY <1>12 DEF vars
<1> QED
  BY <1>1, <1>2, <1>3, <1>4, <1>5, <1>6, <1>7, <1>8, <1>9, <1>10, <1>11, <1>12
  DEF Next, Loop, Takes

\* So it holds throughout.
THEOREM Inductive == Spec => []IInv
  BY InitIInv, NextIInv, PTL DEF Spec

\* The semaphore never holds more permits than there are slots, and the loop is
\* always at one of its awaits.
THEOREM TypeCorrect == Spec => []TypeOK
<1>1. IInv => TypeOK
  BY DEF IInv
<1> QED
  BY <1>1, Inductive, PTL

\* main does not return while a take is under way, however it left its loop.
THEOREM NoTakeCutShort == Spec => []DrainsFirst
<1>1. IInv => DrainsFirst
  BY SlotsAssumption DEF IInv, TypeOK, Permits, Held, DrainsFirst
<1> QED
  BY <1>1, Inductive, PTL

\* A box that has abandoned a container films at most one more job.
THEOREM AtMostOneLateTake == Spec => []OneLateTake
<1>1. IInv => OneLateTake
  BY DEF IInv, LateOnce, OneLateTake
<1> QED
  BY <1>1, Inductive, PTL

--------------------------------------------------------------------------------
(* The box.                                                                *)

Take == [job : Job \cup {None}, at : Stage, exit : {None, "clean", "bad", "abandoned"},
         truncated : BOOLEAN, lost : BOOLEAN, got : {None} \cup Slot \cup {Over},
         met : BOOLEAN]

Container == [by : Slot \cup {Over}, attached : BOOLEAN]

Directory == [video : {None} \cup Slot \cup {Over}]

BoxTypes ==
  /\ take \in [Slot -> Take]
  /\ lease \in [Job -> {None} \cup Slot \cup {Over}]
  /\ done \subseteq Job
  /\ container \in [Job -> {None} \cup Container]
  /\ dir \in [Job -> {None} \cup Directory]
  /\ leftover \subseteq Job
  /\ fence \in BOOLEAN
  /\ \A s \in Slot : At(s, "idle") <=> take[s].job = None

\* The takes on the box.
OnBox == {s \in Slot : ~At(s, "idle")}

\* One task per take of the loop.
Counted == Cardinality(OnBox) = filming + leaving

\* A take that films has the container of its job, and a container is of the take that
\* films with it, or of none.
Films ==
  /\ \A s \in Slot :
        Filming(s) => container[take[s].job] # None /\ container[take[s].job].by = s
  /\ \A j \in Job : container[j] # None =>
        \/ container[j].by = Over
        \/ \E s \in Slot : container[j].by = s /\ take[s].job = j /\ Filming(s)

\* A take that abandoned its container does nothing more, and none has seen a container
\* end before it films.
Exits ==
  \A s \in Slot : /\ take[s].exit = "abandoned" => At(s, "clean")
                  /\ take[s].at \in {"prepare", "start"} => take[s].exit = None

\* Without its fence a box is idle.
Behind ==
  ~fence => /\ pc = "exited" /\ \A s \in Slot : At(s, "idle")
            /\ \A j \in Job : container[j] = None

\* A container sees a directory that is there.
Attached == \A j \in Job : Busy(j) => dir[j] # None

\* What a take may find in its directory is its own.
Finds(s) ==
  LET j == take[s].job IN
  (HasVideo(j) => dir[j].video = s) /\ (Busy(j) => container[j].by = s)

\* Takes of one job have met.
Meet ==
  \A s \in Slot : ~At(s, "idle") /\ ~take[s].met =>
     \A t \in Slot \ {s} : take[t].job # take[s].job

\* A take that met no other of its job finds only its own, until it gives its container
\* up.
Own ==
  \A s \in Slot :
     ~At(s, "idle") /\ ~take[s].met /\ take[s].job \notin leftover =>
        /\ take[s].exit # "abandoned" => Finds(s)
        /\ take[s].got # None => take[s].got = s

BoxInv ==
  /\ IInv /\ BoxTypes /\ Counted
  /\ Films /\ Exits /\ Behind
  /\ Attached /\ DirectoryRemoved /\ Meet /\ Own

--------------------------------------------------------------------------------
(* Steps of one take that touch neither a container nor a directory.       *)

\* Such a step keeps the invariant if the take remains on the box with its job, starts
\* and stops no film, and takes only the video of its own directory.
LEMMA OneTake ==
  ASSUME BoxInv, NEW s \in Slot, ~At(s, "idle"),
         NEW r \in Take, r.at # "idle", r.job = take[s].job, r.met = take[s].met,
         (r.at = "film" /\ r.exit = None) <=> Filming(s),
         r.exit = "abandoned" <=> take[s].exit = "abandoned",
         r.exit = "abandoned" => r.at = "clean", r.at \in {"prepare", "start"} => r.exit = None,
         \/ r.got = None \/ r.got = take[s].got
         \/ /\ HasVideo(take[s].job) /\ r.got = dir[take[s].job].video
            /\ take[s].exit # "abandoned",
         take' = [take EXCEPT ![s] = r],
         lease' \in [Job -> {None} \cup Slot \cup {Over}], done' \subseteq Job,
         UNCHANGED <<vars, container, dir, leftover, fence>>
  PROVE  BoxInv'
<1>1. /\ take \in [Slot -> Take]
      /\ take' \in [Slot -> Take]
      /\ \A t \in Slot : take'[t] = IF t = s THEN r ELSE take[t]
  BY DEF BoxInv, BoxTypes
<1>2. IInv'
  BY NextIInv DEF BoxInv
<1>3. BoxTypes'
  BY <1>1 DEF BoxInv, BoxTypes, At
<1>4. Counted'
  <2>1. OnBox' = OnBox /\ filming' = filming /\ leaving' = leaving
    BY <1>1 DEF OnBox, At, vars
  <2> QED
    BY <2>1 DEF BoxInv, Counted
<1>5. \A t \in Slot : /\ Filming(t)' <=> Filming(t)
                      /\ take'[t].job = take[t].job /\ take'[t].met = take[t].met
                      /\ At(t, "idle")' <=> At(t, "idle")
                      /\ take'[t].exit = "abandoned" <=> take[t].exit = "abandoned"
  BY <1>1 DEF Filming, At
<1>6. Films' /\ Exits' /\ Attached'
  BY <1>1, <1>5 DEF BoxInv, Films, Exits, Attached, Busy, At
<1>7. Behind' /\ DirectoryRemoved' /\ Meet'
  BY <1>5 DEF BoxInv, Behind, DirectoryRemoved, Meet, vars
<1>8. Own'
  <2> SUFFICES ASSUME NEW t \in Slot, ~At(t, "idle")', ~take'[t].met,
                      take'[t].job \notin leftover'
               PROVE  /\ take'[t].exit # "abandoned" => Finds(t)'
                      /\ take'[t].got # None => take'[t].got = t
    BY DEF Own
  <2>1. /\ take[t].exit # "abandoned" => Finds(t)
        /\ take[t].got # None => take[t].got = t
    BY <1>5 DEF BoxInv, Own
  <2>2. Finds(t)' <=> Finds(t)
    BY <1>5 DEF Finds, HasVideo, Busy
  <2>3. take'[t].got # None => take'[t].got = t
    BY <1>1, <2>1 DEF Finds
  <2> QED
    BY <1>5, <2>1, <2>2, <2>3
<1> QED
  BY <1>2, <1>3, <1>4, <1>6, <1>7, <1>8 DEF BoxInv

\* What such a step may do to the record of its take.
LEMMA TakeFields ==
  ASSUME NEW q \in Take, NEW x \in Stage
  PROVE  /\ [q EXCEPT !.at = x] \in Take
         /\ [q EXCEPT !.at = x].at = x
         /\ [q EXCEPT !.at = x].job = q.job /\ [q EXCEPT !.at = x].met = q.met
         /\ [q EXCEPT !.at = x].exit = q.exit /\ [q EXCEPT !.at = x].got = q.got
  BY DEF Take

\* A take has a job.
LEMMA JobOnBox ==
  ASSUME BoxInv, NEW s \in Slot
  PROVE  /\ ~At(s, "idle") => take[s].job \in Job
         /\ Filming(s) => take[s].job \in Job
  BY DEF BoxInv, BoxTypes, Take, Filming, At

\* What becomes of a container: the directory goes, or the take.
LEMMA ContainerFields ==
  ASSUME NEW c \in Container, NEW e \in {[c EXCEPT !.attached = FALSE], [c EXCEPT !.by = Over]}
  PROVE  /\ e \in Container /\ e # None
         /\ e = [c EXCEPT !.attached = FALSE] => e.by = c.by /\ e.attached = FALSE
         /\ e = [c EXCEPT !.by = Over] => e.by = Over /\ e.attached = c.attached
<1>1. e \in Container
  BY DEF Container
<1>2. e \in [by : Nat, attached : BOOLEAN]
  BY <1>1, SlotsAssumption DEF Container, Slot, Over
<1> QED
  BY <1>1, <1>2, BoxAssumption DEF Container

\* Steps that leave the lease and the queue alone keep their types.
LEMMA LeaseTypes ==
  ASSUME BoxInv, UNCHANGED <<lease, done>>
  PROVE  lease' \in [Job -> {None} \cup Slot \cup {Over}] /\ done' \subseteq Job
  BY DEF BoxInv, BoxTypes

\* A take moves on to another stage, which is not filming.
LEMMA GoesStep ==
  ASSUME BoxInv, NEW s \in Slot, NEW x \in {"judge", "upload", "report", "clean"}, Goes(s, x),
         ~At(s, "idle"), ~Filming(s), take[s].exit = "abandoned" => x = "clean",
         lease' \in [Job -> {None} \cup Slot \cup {Over}], done' \subseteq Job,
         UNCHANGED <<vars, container, dir, leftover, fence>>
  PROVE  BoxInv'
<1>1. take[s] \in Take
  BY DEF BoxInv, BoxTypes
<1> DEFINE r == [take[s] EXCEPT !.at = x]
<1>x. x \in Stage
  BY DEF Stage
<1>2. /\ r \in Take /\ r.at = x /\ r.job = take[s].job /\ r.met = take[s].met
      /\ r.exit = take[s].exit /\ r.got = take[s].got
  BY <1>1, <1>x, TakeFields
<1>3. take' = [take EXCEPT ![s] = r]
  BY DEF Goes, Becomes
<1> HIDE DEF r
<1> QED
  BY <1>2, <1>3, OneTake

\* The steps of run_inner that do no more than that.
LEMMA RefuseStep == ASSUME BoxInv, NEW s \in Slot, Refuse(s) PROVE BoxInv'
<1>1. Goes(s, "report") /\ ~At(s, "idle") /\ ~Filming(s) /\ take[s].exit # "abandoned"
  BY DEF Refuse, Goes, At, Filming, BoxInv, Exits
<1> QED
  BY <1>1, LeaseTypes, GoesStep DEF Refuse

\* Judging reads the directory and the lease.
LEMMA JudgeStep == ASSUME BoxInv, NEW s \in Slot, Judge(s) PROVE BoxInv'
<1>1. PICK x \in {"clean", "upload", "report"} : Goes(s, x)
  BY DEF Judge
<1>2. ~At(s, "idle") /\ ~Filming(s) /\ take[s].exit # "abandoned"
  BY DEF Judge, At, Filming, BoxInv, Exits
<1> QED
  BY <1>1, <1>2, LeaseTypes, GoesStep DEF Judge

\* Reporting settles the lease and the queue.
LEMMA ReportStep == ASSUME BoxInv, NEW s \in Slot, Report(s) PROVE BoxInv'
<1>1. ~At(s, "idle") /\ ~Filming(s) /\ Goes(s, "clean")
  BY DEF Report, At, Filming
<1>2. take[s].job \in Job
  BY <1>1 DEF BoxInv, BoxTypes, Take
<1>3. lease' \in [Job -> {None} \cup Slot \cup {Over}] /\ done' \subseteq Job
  BY <1>2 DEF Report, BoxInv, BoxTypes
<1> QED
  BY <1>1, <1>3, GoesStep DEF Report

\* The upload takes the video of the directory, so the take's own or none.
LEMMA UploadStep == ASSUME BoxInv, NEW s \in Slot, Upload(s) PROVE BoxInv'
<1>1. /\ take[s] \in Take /\ take[s].at = "upload" /\ ~At(s, "idle") /\ ~Filming(s)
      /\ take[s].exit # "abandoned" /\ take[s].job \in Job
  BY DEF Upload, BoxInv, BoxTypes, Exits, At, Filming, Take
<1>2. PICK stored : /\ \/ stored = None
                       \/ HasVideo(take[s].job) /\ stored = dir[take[s].job].video
                    /\ Becomes(s, [take[s] EXCEPT !.at = "report", !.got = stored])
  BY DEF Upload
<1>3. stored \in {None} \cup Slot \cup {Over}
  BY <1>1, <1>2 DEF HasVideo, BoxInv, BoxTypes, Directory
<1> DEFINE r == [take[s] EXCEPT !.at = "report", !.got = stored]
<1>4. /\ r \in Take /\ r.at = "report" /\ r.job = take[s].job /\ r.met = take[s].met
      /\ r.exit = take[s].exit /\ r.got = stored
  BY <1>1, <1>3 DEF Take, Stage
<1>5. take' = [take EXCEPT ![s] = r]
  BY <1>2 DEF Becomes
<1> HIDE DEF r
<1> QED
  BY <1>1, <1>2, <1>4, <1>5, LeaseTypes, OneTake DEF Upload

\* A film is cut short, or the take learns that it is not its own.
LEMMA WatchStep ==
  ASSUME BoxInv, NEW s \in Slot, Truncate(s) \/ HeartbeatRefused(s) PROVE BoxInv'
<1>1. take[s] \in Take /\ take[s].at = "film" /\ take[s].exit = None /\ Filming(s)
      /\ ~At(s, "idle") /\ take[s].exit # "abandoned"
  BY DEF Truncate, HeartbeatRefused, Filming, At, BoxInv, BoxTypes, Exits
<1>2. PICK r \in Take : /\ r.at = "film" /\ r.exit = None /\ r.job = take[s].job
                        /\ r.met = take[s].met /\ r.got = take[s].got
                        /\ take' = [take EXCEPT ![s] = r]
  <2>1. CASE Truncate(s)
    <3> DEFINE r == [take[s] EXCEPT !.truncated = TRUE]
    <3>1. /\ r \in Take /\ r.at = "film" /\ r.exit = None /\ r.job = take[s].job
          /\ r.met = take[s].met /\ r.got = take[s].got
      BY <1>1 DEF Take
    <3>2. take' = [take EXCEPT ![s] = r]
      BY <2>1 DEF Truncate, Becomes
    <3> HIDE DEF r
    <3> QED
      BY <3>1, <3>2
  <2>2. CASE HeartbeatRefused(s)
    <3> DEFINE r == [take[s] EXCEPT !.lost = TRUE]
    <3>1. /\ r \in Take /\ r.at = "film" /\ r.exit = None /\ r.job = take[s].job
          /\ r.met = take[s].met /\ r.got = take[s].got
      BY <1>1 DEF Take
    <3>2. take' = [take EXCEPT ![s] = r]
      BY <2>2 DEF HeartbeatRefused, Becomes
    <3> HIDE DEF r
    <3> QED
      BY <3>1, <3>2
  <2> QED
    BY <2>1, <2>2
<1>3. UNCHANGED <<vars, lease, done, container, dir, leftover, fence>>
  BY DEF Truncate, HeartbeatRefused
<1> QED
  BY <1>1, <1>2, <1>3, LeaseTypes, OneTake

--------------------------------------------------------------------------------
(* Steps that touch the lease alone, or the loop alone.                    *)

\* Nothing a take relies on is in the lease or the queue, and rules may come back.
LEMMA TakesStay ==
  ASSUME BoxInv, UNCHANGED <<vars, take, container, dir, leftover>>,
         lease' \in [Job -> {None} \cup Slot \cup {Over}], done' \subseteq Job,
         fence' \in {fence, TRUE}
  PROVE  BoxInv'
<1>1. IInv'
  BY NextIInv DEF BoxInv
<1>2. BoxTypes' /\ Counted'
  BY DEF BoxInv, BoxTypes, Counted, OnBox, At, vars
<1>3. Films' /\ Exits' /\ Behind' /\ Attached' /\ DirectoryRemoved' /\ Meet'
  BY DEF BoxInv, Films, Exits, Behind, Attached, DirectoryRemoved, Meet, At, Filming,
         Busy, vars
<1>4. Own'
  BY DEF BoxInv, Own, Finds, HasVideo, Busy, At
<1> QED
  BY <1>1, <1>2, <1>3, <1>4 DEF BoxInv

\* A lease lapses.
LEMMA LapseStep == ASSUME BoxInv, NEW j \in Job, Lapse(j) PROVE BoxInv'
<1>1. lease' \in [Job -> {None} \cup Slot \cup {Over}] /\ done' \subseteq Job
  BY DEF Lapse, BoxInv, BoxTypes
<1> QED
  BY <1>1, TakesStay DEF Lapse

\* The rules are loaded again, or nothing happens.
LEMMA FenceStep == ASSUME BoxInv, RestoreFence \/ UNCHANGED allVars PROVE BoxInv'
<1>1. UNCHANGED <<vars, take, lease, done, container, dir, leftover>>
      /\ fence' \in {fence, TRUE}
  BY DEF RestoreFence, allVars, box
<1> QED
  BY <1>1, LeaseTypes, TakesStay

\* The loop and the signal leave an ended process alone, and no take changes.
LEMMA LoopOnly ==
  ASSUME BoxInv, Next, pc # "exited", UNCHANGED <<filming, leaving, box>>
  PROVE  BoxInv'
<1>1. IInv'
  BY NextIInv DEF BoxInv
<1>2. BoxTypes' /\ Counted'
  BY DEF BoxInv, BoxTypes, Counted, OnBox, At, box
<1>3. Films' /\ Exits' /\ Attached' /\ Meet'
  BY DEF BoxInv, Films, Exits, Attached, Meet, At, Filming, Busy, box
<1>4. Behind' /\ DirectoryRemoved'
  BY DEF BoxInv, Behind, DirectoryRemoved, box
<1>5. Own'
  BY DEF BoxInv, Own, Finds, HasVideo, Busy, At, box
<1> QED
  BY <1>1, <1>2, <1>3, <1>4, <1>5 DEF BoxInv

\* The steps of the loop that are not about a job.
LEMMA LoopSteps ==
  ASSUME BoxInv, UNCHANGED box,
         \/ CheckHealth \/ Acquire \/ NothingLeased \/ Wake \/ ShutdownSeen \/ Drained
         \/ Signal
  PROVE  BoxInv'
<1>1. Next
  BY DEF Next, Loop
<1>2. pc # "exited" /\ UNCHANGED <<filming, leaving>>
  BY DEF CheckHealth, Acquire, NothingLeased, Wake, ShutdownSeen, Drained, Signal
<1> QED
  BY <1>1, <1>2, LoopOnly

--------------------------------------------------------------------------------
(* The directory is made and the container started.                        *)

\* The directory that is there is kept; a new one has nothing in it.
LEMMA PrepareStep == ASSUME BoxInv, NEW s \in Slot, Prepare(s) PROVE BoxInv'
<1> DEFINE j == take[s].job
           r == [take[s] EXCEPT !.at = "start"]
<1>1. /\ take[s] \in Take /\ take[s].at = "prepare" /\ take[s].exit = None /\ j \in Job
      /\ take[s].exit # "abandoned"
  BY DEF Prepare, BoxInv, BoxTypes, Exits, At, Take
<1>2. /\ r \in Take /\ r.at = "start" /\ r.job = j /\ r.met = take[s].met
      /\ r.exit = take[s].exit /\ r.got = take[s].got
  BY <1>1, TakeFields DEF Stage
<1>3. take' = [take EXCEPT ![s] = r]
  BY DEF Prepare, Goes, Becomes
<1>4. UNCHANGED <<vars, lease, done, container, leftover, fence>>
  BY DEF Prepare
<1>5. \A i \in Job : dir'[i] = IF i = j /\ dir[i] = None THEN NoVideo ELSE dir[i]
  BY <1>1 DEF Prepare, BoxInv, BoxTypes
<1>6. dir' \in [Job -> {None} \cup Directory]
  BY <1>1 DEF Prepare, BoxInv, BoxTypes, NoVideo, Directory
<1> HIDE DEF r
<1>7. \A t \in Slot : take'[t] = IF t = s THEN r ELSE take[t]
  BY <1>3 DEF BoxInv, BoxTypes
<1>8. \A t \in Slot : /\ Filming(t)' <=> Filming(t)
                      /\ take'[t].job = take[t].job /\ take'[t].met = take[t].met
                      /\ At(t, "idle")' <=> At(t, "idle")
                      /\ take'[t].exit = take[t].exit /\ take'[t].got = take[t].got
  BY <1>1, <1>2, <1>7 DEF Filming, At
<1>9. NoVideo.video = None /\ NoVideo # None
  BY BoxAssumption DEF NoVideo
<1>10. IInv'
  BY <1>4, NextIInv DEF BoxInv
<1>11. BoxTypes'
  BY <1>1, <1>2, <1>3, <1>4, <1>6, <1>7, <1>8 DEF BoxInv, BoxTypes
<1>12. Counted'
  BY <1>4, <1>8 DEF BoxInv, Counted, OnBox, vars
<1>13. Films' /\ Exits' /\ Meet' /\ Behind'
  BY <1>1, <1>2, <1>4, <1>7, <1>8 DEF BoxInv, Films, Exits, Meet, Behind, At, vars
<1>14. Attached'
  BY <1>4, <1>5, <1>9 DEF BoxInv, Attached, Busy
<1>15. DirectoryRemoved'
  BY <1>4, <1>5, <1>8 DEF BoxInv, DirectoryRemoved, vars
<1>16. Own'
  <2>1. \A i \in Job : /\ HasVideo(i)' => HasVideo(i) /\ dir'[i] = dir[i]
                       /\ Busy(i)' <=> Busy(i)
    BY <1>4, <1>5, <1>9 DEF HasVideo, Busy
  <2>2. \A t \in Slot : ~At(t, "idle") => take[t].job \in Job
    BY JobOnBox
  <2>3. \A t \in Slot : ~At(t, "idle") /\ Finds(t) => Finds(t)'
    BY <1>4, <1>8, <2>1, <2>2 DEF Finds
  <2> QED
    BY <1>4, <1>8, <2>3 DEF BoxInv, Own
<1> QED
  BY <1>10, <1>11, <1>12, <1>13, <1>14, <1>15, <1>16 DEF BoxInv

\* A container starts in a directory that has nothing in it that is not the take's own.
LEMMA StartStep == ASSUME BoxInv, NEW s \in Slot, StartContainer(s) PROVE BoxInv'
<1> DEFINE j == take[s].job
<1>1. /\ take[s] \in Take /\ take[s].at = "start" /\ take[s].exit = None /\ j \in Job
      /\ take[s].exit # "abandoned" /\ ~At(s, "idle") /\ ~Filming(s)
  BY DEF StartContainer, BoxInv, BoxTypes, Exits, At, Take, Filming
<1>2. UNCHANGED <<vars, lease, done, dir, leftover, fence>>
  BY DEF StartContainer
<1>3. CASE Goes(s, "clean") /\ UNCHANGED container
  BY <1>1, <1>2, <1>3, LeaseTypes, GoesStep
<1>4. CASE Becomes(s, [take[s] EXCEPT !.at = "film", !.exit = "bad"]) /\ UNCHANGED container
  <2> DEFINE r == [take[s] EXCEPT !.at = "film", !.exit = "bad"]
  <2>1. /\ r \in Take /\ r.at = "film" /\ r.exit = "bad" /\ r.job = take[s].job
        /\ r.met = take[s].met /\ r.got = take[s].got
    BY <1>1 DEF Take, Stage
  <2>2. take' = [take EXCEPT ![s] = r]
    BY <1>4 DEF Becomes
  <2>3. None # "bad"
    BY BoxAssumption
  <2> HIDE DEF r
  <2> QED
    BY <1>1, <1>2, <1>4, <2>1, <2>2, <2>3, LeaseTypes, OneTake
<1>5. CASE /\ container[j] = None /\ dir[j] # None /\ Goes(s, "film")
           /\ container' = [container EXCEPT ![j] = [by |-> s, attached |-> TRUE]]
  <2> DEFINE r == [take[s] EXCEPT !.at = "film"]
             c == [by |-> s, attached |-> TRUE]
  <2>1. /\ r \in Take /\ r.at = "film" /\ r.job = j /\ r.met = take[s].met
        /\ r.exit = take[s].exit /\ r.got = take[s].got
    BY <1>1, TakeFields DEF Stage
  <2>2. take' = [take EXCEPT ![s] = r]
    BY <1>5 DEF Goes, Becomes
  <2>3. c \in Container /\ c.by = s /\ c.attached = TRUE /\ c # None
    <3>1. c \in [by : Nat, attached : BOOLEAN]
      BY SlotsAssumption DEF Slot
    <3> QED
      BY <3>1, BoxAssumption DEF Container
  <2> HIDE DEF r, c
  <2>4. \A t \in Slot : take'[t] = IF t = s THEN r ELSE take[t]
    BY <2>2 DEF BoxInv, BoxTypes
  <2>5. \A i \in Job : container'[i] = IF i = j THEN c ELSE container[i]
    BY <1>1, <1>5 DEF BoxInv, BoxTypes, c
  <2>6. container' \in [Job -> {None} \cup Container]
    BY <1>1, <1>5, <2>3 DEF BoxInv, BoxTypes, c
  <2>7. \A t \in Slot : /\ Filming(t)' <=> (t = s \/ Filming(t))
                        /\ take'[t].job = take[t].job /\ take'[t].met = take[t].met
                        /\ At(t, "idle")' <=> At(t, "idle")
                        /\ take'[t].exit = take[t].exit /\ take'[t].got = take[t].got
    BY <1>1, <2>1, <2>4 DEF Filming, At
  <2>10. IInv'
    BY <1>2, NextIInv DEF BoxInv
  <2>11. BoxTypes'
    BY <1>2, <2>1, <2>2, <2>4, <2>6, <2>7 DEF BoxInv, BoxTypes
  <2>12. Counted'
    BY <1>2, <2>7 DEF BoxInv, Counted, OnBox, vars
  <2>13. Films'
    <3>1. \A t \in Slot : Filming(t)' =>
             container'[take'[t].job] # None /\ container'[take'[t].job].by = t
      <4> SUFFICES ASSUME NEW t \in Slot, Filming(t)'
                   PROVE  container'[take'[t].job] # None /\ container'[take'[t].job].by = t
        OBVIOUS
      <4>1. CASE t = s
        BY <1>1, <2>3, <2>5, <2>7, <4>1
      <4>2. CASE t # s
        BY <1>5, <2>5, <2>7, <4>2, JobOnBox DEF BoxInv, Films
      <4> QED
        BY <4>1, <4>2
    <3>2. \A i \in Job : container'[i] # None =>
             \/ container'[i].by = Over
             \/ \E t \in Slot : container'[i].by = t /\ take'[t].job = i /\ Filming(t)'
      BY <1>1, <2>3, <2>5, <2>7 DEF BoxInv, Films
    <3> QED
      BY <3>1, <3>2 DEF Films
  <2>14. Exits' /\ Meet'
    BY <1>1, <2>1, <2>4, <2>7 DEF BoxInv, Exits, Meet, At
  <2>15. Behind'
    BY <1>1, <1>2 DEF BoxInv, Behind
  <2>16. Attached' /\ DirectoryRemoved'
    BY <1>2, <1>5, <2>5, <2>7 DEF BoxInv, Attached, DirectoryRemoved, Busy, vars
  <2>17. Own'
    <3> SUFFICES ASSUME NEW t \in Slot, ~At(t, "idle")', ~take'[t].met,
                        take'[t].job \notin leftover'
                 PROVE  /\ take'[t].exit # "abandoned" => Finds(t)'
                        /\ take'[t].got # None => take'[t].got = t
      BY DEF Own
    <3>1. /\ take[t].exit # "abandoned" => Finds(t)
          /\ take[t].got # None => take[t].got = t
      BY <1>2, <2>7 DEF BoxInv, Own
    <3>2. CASE t = s
      BY <1>1, <1>2, <2>3, <2>5, <2>7, <3>1, <3>2 DEF Finds, HasVideo, Busy
    <3>3. CASE t # s
      <4>1. take[t].job # j /\ take[t].job \in Job
        BY <2>7, <3>3 DEF BoxInv, BoxTypes, Meet, Take
      <4> QED
        BY <1>2, <2>5, <2>7, <3>1, <4>1 DEF Finds, HasVideo, Busy
    <3> QED
      BY <3>2, <3>3
  <2> QED
    BY <2>10, <2>11, <2>12, <2>13, <2>14, <2>15, <2>16, <2>17 DEF BoxInv
<1> QED
  BY <1>3, <1>4, <1>5 DEF StartContainer, DockerRun, NameFree

--------------------------------------------------------------------------------
(* A container ends, is killed, or is given up.                            *)

\* Whoever films with a container that is gone has seen it end.  A directory keeps what
\* was in it, or has the video of the container that saw it.
LEMMA ContainerGone ==
  ASSUME BoxInv, NEW j \in Job, container[j] # None,
         container' = [container EXCEPT ![j] = None],
         take' \in [Slot -> Take],
         \A t \in Slot :
            /\ take'[t].job = take[t].job /\ take'[t].met = take[t].met
            /\ take'[t].got = take[t].got
            /\ At(t, "idle")' <=> At(t, "idle")
            /\ Filming(t)' <=> Filming(t) /\ container[j].by # t
            /\ take'[t].exit = "abandoned" <=> take[t].exit = "abandoned"
            /\ take'[t].exit = "abandoned" => At(t, "clean")'
            /\ take'[t].at \in {"prepare", "start"} =>
                 take[t].at = take'[t].at /\ take'[t].exit = take[t].exit,
         \/ UNCHANGED dir
         \/ Busy(j) /\ dir' = [dir EXCEPT ![j] = [video |-> container[j].by]],
         UNCHANGED <<vars, lease, done, leftover, fence>>
  PROVE  BoxInv'
<1>1. \A i \in Job : container'[i] = IF i = j THEN None ELSE container[i]
  BY DEF BoxInv, BoxTypes
<1>2. container' \in [Job -> {None} \cup Container]
  BY DEF BoxInv, BoxTypes
<1>3. container[j].by \in Slot \cup {Over}
  BY DEF BoxInv, BoxTypes, Container
<1>4. dir' \in [Job -> {None} \cup Directory]
  BY <1>3 DEF BoxInv, BoxTypes, Directory
<1>5. \A i \in Job :
        /\ dir[i] # None => dir'[i] # None
        /\ dir'[i] # None => dir[i] # None
        /\ i # j => dir'[i] = dir[i]
  <2>1. CASE UNCHANGED dir
    BY <2>1
  <2>2. CASE Busy(j) /\ dir' = [dir EXCEPT ![j] = [video |-> container[j].by]]
    <3>1. dir[j] # None
      BY <2>2 DEF BoxInv, Attached
    <3>2. [video |-> container[j].by] \in [video : {None} \cup Nat]
      BY <1>3, SlotsAssumption DEF Slot, Over
    <3> QED
      BY <2>2, <3>1, <3>2, BoxAssumption DEF BoxInv, BoxTypes
  <2> QED
    BY <2>1, <2>2
<1>6. IInv'
  BY NextIInv DEF BoxInv
<1>7. BoxTypes'
  BY <1>2, <1>4 DEF BoxInv, BoxTypes
<1>8. Counted'
  BY DEF BoxInv, Counted, OnBox, vars
<1>9. Films'
  <2>1. \A t \in Slot : Filming(t)' =>
           container'[take'[t].job] # None /\ container'[take'[t].job].by = t
    BY <1>1, JobOnBox DEF BoxInv, Films
  <2>2. \A i \in Job : container'[i] # None =>
           \/ container'[i].by = Over
           \/ \E t \in Slot : container'[i].by = t /\ take'[t].job = i /\ Filming(t)'
    <3> SUFFICES ASSUME NEW i \in Job, container'[i] # None, container'[i].by # Over
                 PROVE  \E t \in Slot : /\ container'[i].by = t /\ take'[t].job = i
                                        /\ Filming(t)'
      OBVIOUS
    <3>1. i # j /\ container'[i] = container[i]
      BY <1>1
    <3>2. PICK t \in Slot : container[i].by = t /\ take[t].job = i /\ Filming(t)
      BY <3>1 DEF BoxInv, Films
    <3>3. container[j].by # t
      BY <3>1, <3>2, <1>3 DEF BoxInv, Films, Slot, Over
    <3> QED
      BY <3>1, <3>2, <3>3
  <2> QED
    BY <2>1, <2>2 DEF Films
<1>10. Exits' /\ Meet'
  BY DEF BoxInv, Exits, Meet
<1>11. Behind' /\ Attached' /\ DirectoryRemoved'
  BY <1>1, <1>5 DEF BoxInv, Behind, Attached, DirectoryRemoved, Busy, vars
<1>12. Own'
  <2> SUFFICES ASSUME NEW t \in Slot, ~At(t, "idle")', ~take'[t].met,
                      take'[t].job \notin leftover'
               PROVE  /\ take'[t].exit # "abandoned" => Finds(t)'
                      /\ take'[t].got # None => take'[t].got = t
    BY DEF Own
  <2>1. /\ take[t].exit # "abandoned" => Finds(t)
        /\ take[t].got # None => take[t].got = t
    BY DEF BoxInv, Own
  <2>2. take[t].job \in Job
    BY JobOnBox
  <2>3. ASSUME Finds(t) PROVE Finds(t)'
    <3>1. CASE take[t].job # j
      BY <1>1, <1>5, <2>2, <2>3, <3>1 DEF Finds, HasVideo, Busy
    <3>2. CASE take[t].job = j
      <4>1. ~Busy(j)'
        BY <1>1 DEF Busy
      <4>2. CASE UNCHANGED dir
        BY <2>3, <3>2, <4>1, <4>2 DEF Finds, HasVideo
      <4>3. CASE Busy(j) /\ dir' = [dir EXCEPT ![j] = [video |-> container[j].by]]
        <5>1. dir'[j].video = container[j].by
          BY <4>3 DEF BoxInv, BoxTypes
        <5> QED
          BY <2>3, <3>2, <4>1, <4>3, <5>1 DEF Finds
      <4> QED
        BY <4>2, <4>3
    <3> QED
      BY <3>1, <3>2
  <2> QED
    BY <2>1, <2>3
<1> QED
  BY <1>6, <1>7, <1>8, <1>9, <1>10, <1>11, <1>12 DEF BoxInv

\* The take that films sees its container end.
LEMMA EndsStep == ASSUME BoxInv, NEW j \in Job, ContainerEnds(j) PROVE BoxInv'
<1>1. PICK exit \in {"clean", "bad"} :
        /\ dir' = [dir EXCEPT ![j] = IF exit = "clean" /\ Busy(j)
                                     THEN [video |-> container[j].by] ELSE @]
        /\ take' = [s \in Slot |-> IF s = container[j].by
                                   THEN [take[s] EXCEPT !.exit = exit] ELSE take[s]]
  BY DEF ContainerEnds
<1>2. container[j] # None /\ container' = [container EXCEPT ![j] = None]
      /\ UNCHANGED <<vars, lease, done, leftover, fence>>
  BY DEF ContainerEnds
<1>3. \/ UNCHANGED dir
      \/ Busy(j) /\ dir' = [dir EXCEPT ![j] = [video |-> container[j].by]]
  BY <1>1 DEF BoxInv, BoxTypes
<1>4. None # "clean" /\ None # "bad"
  BY BoxAssumption
<1>5. \A t \in Slot : t = container[j].by => Filming(t)
  BY <1>2 DEF BoxInv, Films, Slot, Over
<1>6. ASSUME NEW t \in Slot
      PROVE  /\ take'[t] \in Take
             /\ take'[t].job = take[t].job /\ take'[t].met = take[t].met
             /\ take'[t].got = take[t].got /\ take'[t].at = take[t].at
             /\ take'[t].exit = IF t = container[j].by THEN exit ELSE take[t].exit
  <2>1. take[t] \in Take
    BY DEF BoxInv, BoxTypes
  <2> DEFINE r == [take[t] EXCEPT !.exit = exit]
  <2>2. /\ r \in Take /\ r.job = take[t].job /\ r.met = take[t].met
        /\ r.got = take[t].got /\ r.at = take[t].at /\ r.exit = exit
    BY <2>1 DEF Take
  <2>3. take'[t] = IF t = container[j].by THEN r ELSE take[t]
    BY <1>1
  <2> HIDE DEF r
  <2> QED
    BY <2>1, <2>2, <2>3
<1>7. take' \in [Slot -> Take]
  BY <1>1, <1>6
<1>8. \A t \in Slot :
        /\ At(t, "idle")' <=> At(t, "idle")
        /\ Filming(t)' <=> Filming(t) /\ container[j].by # t
        /\ take'[t].exit = "abandoned" <=> take[t].exit = "abandoned"
        /\ take'[t].exit = "abandoned" => At(t, "clean")'
        /\ take'[t].at \in {"prepare", "start"} =>
             take[t].at = take'[t].at /\ take'[t].exit = take[t].exit
  <2> SUFFICES ASSUME NEW t \in Slot
               PROVE  /\ At(t, "idle")' <=> At(t, "idle")
                      /\ Filming(t)' <=> Filming(t) /\ container[j].by # t
                      /\ take'[t].exit = "abandoned" <=> take[t].exit = "abandoned"
                      /\ take'[t].exit = "abandoned" => At(t, "clean")'
                      /\ take'[t].at \in {"prepare", "start"} =>
                           take[t].at = take'[t].at /\ take'[t].exit = take[t].exit
    OBVIOUS
  <2>1. CASE t = container[j].by
    BY <1>4, <1>5, <1>6, <2>1 DEF At, Filming, BoxInv, Exits
  <2>2. CASE t # container[j].by
    BY <1>6, <2>2 DEF At, Filming, BoxInv, Exits
  <2> QED
    BY <2>1, <2>2
<1> QED
  BY <1>2, <1>3, <1>6, <1>7, <1>8, ContainerGone

\* A take whose container has ended removes what has its name.
LEMMA ReapStep == ASSUME BoxInv, NEW s \in Slot, Reap(s) PROVE BoxInv'
<1> DEFINE j == take[s].job
<1>1. /\ take[s] \in Take /\ At(s, "film") /\ take[s].at = "film" /\ ~At(s, "idle")
      /\ take[s].exit \in {"clean", "bad"} /\ take[s].exit # None /\ ~Filming(s)
      /\ take[s].exit # "abandoned" /\ j \in Job
  BY BoxAssumption, JobOnBox DEF Reap, BoxInv, BoxTypes, At, Filming
<1>2. UNCHANGED <<vars, lease, done, dir, leftover, fence>>
  BY DEF Reap
<1>3. CASE Goes(s, "judge") /\ UNCHANGED container
  BY <1>1, <1>2, <1>3, LeaseTypes, GoesStep
<1>4. CASE /\ container[j] # None
           /\ container' = [container EXCEPT ![j] = None]
           /\ take' = [t \in Slot |->
                         CASE t = s -> [take[t] EXCEPT !.at = "judge"]
                           [] t # s /\ t = container[j].by -> [take[t] EXCEPT !.exit = "bad"]
                           [] OTHER -> take[t]]
  <2>1. None # "bad"
    BY BoxAssumption
  <2>2. \A t \in Slot : t = container[j].by => Filming(t)
    BY <1>1, <1>4 DEF BoxInv, Films, Slot, Over
  <2>3. ASSUME NEW t \in Slot
        PROVE  /\ take'[t] \in Take
               /\ take'[t].job = take[t].job /\ take'[t].met = take[t].met
               /\ take'[t].got = take[t].got
               /\ take'[t].at = IF t = s THEN "judge" ELSE take[t].at
               /\ take'[t].exit = IF t = container[j].by THEN "bad" ELSE take[t].exit
    <3>1. take[t] \in Take
      BY DEF BoxInv, BoxTypes
    <3> DEFINE r == [take[t] EXCEPT !.exit = "bad"]
               q == [take[t] EXCEPT !.at = "judge"]
    <3>2. /\ r \in Take /\ r.job = take[t].job /\ r.met = take[t].met
          /\ r.got = take[t].got /\ r.at = take[t].at /\ r.exit = "bad"
      BY <3>1 DEF Take
    <3>3. /\ q \in Take /\ q.job = take[t].job /\ q.met = take[t].met
          /\ q.got = take[t].got /\ q.at = "judge" /\ q.exit = take[t].exit
      BY <3>1, TakeFields DEF Stage
    <3>4. take'[t] = IF t = s THEN q ELSE IF t = container[j].by THEN r ELSE take[t]
      BY <1>4
    <3>5. s # container[j].by
      BY <1>1, <2>2
    <3> HIDE DEF r, q
    <3> QED
      BY <3>1, <3>2, <3>3, <3>4, <3>5
  <2>4. take' \in [Slot -> Take]
    BY <1>4, <2>3
  <2>5. ASSUME NEW t \in Slot
        PROVE  /\ At(t, "idle")' <=> At(t, "idle")
               /\ Filming(t)' <=> Filming(t) /\ container[j].by # t
               /\ take'[t].exit = "abandoned" <=> take[t].exit = "abandoned"
               /\ take'[t].exit = "abandoned" => At(t, "clean")'
               /\ take'[t].at \in {"prepare", "start"} =>
                    take[t].at = take'[t].at /\ take'[t].exit = take[t].exit
    <3>1. CASE t = s
      BY <1>1, <2>2, <2>3, <3>1 DEF At, Filming
    <3>2. CASE t = container[j].by
      BY <1>1, <2>1, <2>2, <2>3, <3>2 DEF At, Filming, BoxInv, Exits
    <3>3. CASE t # s /\ t # container[j].by
      BY <2>3, <3>3 DEF At, Filming, BoxInv, Exits
    <3> QED
      BY <3>1, <3>2, <3>3
  <2>6. \A t \in Slot :
          /\ take'[t].job = take[t].job /\ take'[t].met = take[t].met
          /\ take'[t].got = take[t].got
          /\ At(t, "idle")' <=> At(t, "idle")
          /\ Filming(t)' <=> Filming(t) /\ container[j].by # t
          /\ take'[t].exit = "abandoned" <=> take[t].exit = "abandoned"
          /\ take'[t].exit = "abandoned" => At(t, "clean")'
          /\ take'[t].at \in {"prepare", "start"} =>
               take[t].at = take'[t].at /\ take'[t].exit = take[t].exit
    BY <2>3, <2>5
  <2>7. j \in Job /\ container[j] # None /\ container' = [container EXCEPT ![j] = None]
    BY <1>1, <1>4
  <2> HIDE DEF j
  <2> QED
    BY <1>2, <2>4, <2>6, <2>7, ContainerGone
<1> QED
  BY <1>3, <1>4 DEF Reap

\* A container that is given up is nobody's.
LEMMA AbandonStep == ASSUME BoxInv, NEW s \in Slot, Abandon(s) PROVE BoxInv'
<1> DEFINE j == take[s].job
           r == [take[s] EXCEPT !.at = "clean", !.exit = "abandoned"]
           c == [container[j] EXCEPT !.by = Over]
<1>1. /\ take[s] \in Take /\ take[s].at = "film" /\ Filming(s) /\ j \in Job
      /\ ~At(s, "idle") /\ container[j] # None /\ container[j].by = s
      /\ container[j] \in Container
  BY JobOnBox DEF Abandon, BoxInv, BoxTypes, Films, Filming, At
<1>2. UNCHANGED <<lease, done, dir, leftover, fence>>
  BY DEF Abandon
<1>3. UNCHANGED vars \/ TakeAbandons
  BY DEF Abandon
<1>4. /\ r \in Take /\ r.at = "clean" /\ r.exit = "abandoned" /\ r.job = j
      /\ r.met = take[s].met /\ r.got = take[s].got
  BY <1>1 DEF Take, Stage
<1>5. take' = [take EXCEPT ![s] = r]
  BY DEF Abandon, Becomes
<1>6. /\ c \in Container /\ c.by = Over /\ c.attached = container[j].attached
      /\ c # None
  BY <1>1, ContainerFields
<1>7. container' = [container EXCEPT ![j] = c]
  BY <1>1 DEF Abandon, BoxInv, BoxTypes
<1> HIDE DEF r, c
<1>8. /\ \A t \in Slot : take'[t] = IF t = s THEN r ELSE take[t]
      /\ \A i \in Job : container'[i] = IF i = j THEN c ELSE container[i]
  BY <1>5, <1>7 DEF BoxInv, BoxTypes
<1>9. None # "abandoned"
  BY BoxAssumption
<1>10. \A t \in Slot :
         /\ take'[t].job = take[t].job /\ take'[t].met = take[t].met
         /\ take'[t].got = take[t].got
         /\ At(t, "idle")' <=> At(t, "idle")
         /\ Filming(t)' <=> Filming(t) /\ t # s
  BY <1>1, <1>4, <1>8, <1>9 DEF At, Filming
<1>11. /\ pc' = pc
       /\ filming' + leaving' = filming + leaving
  BY <1>3 DEF TakeAbandons, vars, BoxInv, IInv, TypeOK
<1>12. IInv'
  <2>1. [Next]_vars
    BY <1>3 DEF Next, Takes
  <2> QED
    BY <2>1, NextIInv DEF BoxInv
<1>13. BoxTypes'
  <2>1. take' \in [Slot -> Take] /\ container' \in [Job -> {None} \cup Container]
    BY <1>4, <1>5, <1>6, <1>7 DEF BoxInv, BoxTypes
  <2> QED
    BY <1>2, <1>10, <2>1 DEF BoxInv, BoxTypes
<1>14. Counted'
  BY <1>10, <1>11 DEF BoxInv, Counted, OnBox
<1>15. Films'
  BY <1>1, <1>6, <1>8, <1>10, JobOnBox DEF BoxInv, Films
<1>16. Exits' /\ Meet'
  BY <1>4, <1>8, <1>10 DEF BoxInv, Exits, Meet, At
<1>17. Behind'
  BY <1>1, <1>2 DEF BoxInv, Behind
<1>18. Attached' /\ DirectoryRemoved'
  BY <1>1, <1>2, <1>6, <1>8, <1>10, <1>11 DEF BoxInv, Attached, DirectoryRemoved, Busy
<1>19. Own'
  <2> SUFFICES ASSUME NEW t \in Slot, ~At(t, "idle")', ~take'[t].met,
                      take'[t].job \notin leftover'
               PROVE  /\ take'[t].exit # "abandoned" => Finds(t)'
                      /\ take'[t].got # None => take'[t].got = t
    BY DEF Own
  <2>1. /\ take[t].exit # "abandoned" => Finds(t)
        /\ take[t].got # None => take[t].got = t
    BY <1>2, <1>10 DEF BoxInv, Own
  <2>2. CASE t = s
    BY <1>4, <1>8, <1>10, <2>1, <2>2
  <2>3. CASE t # s
    <3>1. take[t].job # j /\ take[t].job \in Job
      BY <1>10, <2>3, JobOnBox DEF BoxInv, Meet
    <3> QED
      BY <1>2, <1>8, <1>10, <2>1, <2>3, <3>1 DEF Finds, HasVideo, Busy
  <2> QED
    BY <2>2, <2>3
<1> QED
  BY <1>12, <1>13, <1>14, <1>15, <1>16, <1>17, <1>18, <1>19 DEF BoxInv

--------------------------------------------------------------------------------
(* Takes arrive and leave.                                                 *)

\* Idle is the record of a slot without a take.
LEMMA IdleTake ==
  /\ Idle \in Take /\ Idle.at = "idle" /\ Idle.job = None
  /\ Idle.exit # "abandoned" /\ Idle.exit = None /\ Idle.got = None
  BY BoxAssumption DEF Idle, Take, Stage

\* The slots are finitely many, so takes can be counted.
LEMMA OnBoxFinite == IsFiniteSet(OnBox) /\ IsFiniteSet(OnBox')
<1>1. IsFiniteSet(Slot)
  BY SlotsAssumption, FS_Interval DEF Slot
<1>2. OnBox \subseteq Slot
  BY DEF OnBox
<1>3. OnBox' \subseteq Slot
  BY DEF OnBox
<1> QED
  BY <1>1, <1>2, <1>3, FS_Subset

\* A new take finds its directory gone, or meets another take of its job there.
LEMMA LeasedStep == ASSUME BoxInv, NEW j \in Job, BoxLeased(j) PROVE BoxInv'
<1>1. PICK s \in Slot :
        /\ At(s, "idle")
        /\ take' = [t \in Slot |->
                      CASE t = s -> [Idle EXCEPT !.job = j, !.at = "prepare",
                                                 !.met = \E u \in Slot : take[u].job = j]
                        [] t # s /\ take[t].job = j -> [take[t] EXCEPT !.met = TRUE]
                        [] OTHER -> take[t]]
        /\ lease' = [lease EXCEPT ![j] = s]
  BY DEF BoxLeased
<1>2. Leased /\ UNCHANGED <<done, container, dir, leftover, fence>>
  BY DEF BoxLeased
<1>3. /\ pc = "lease" /\ pc' = "check" /\ filming' = filming + 1 /\ leaving' = leaving
      /\ filming \in Nat /\ leaving \in Nat
  BY <1>2, SlotsAssumption DEF Leased, BoxInv, IInv, TypeOK
<1> DEFINE q == [Idle EXCEPT !.job = j, !.at = "prepare",
                             !.met = \E u \in Slot : take[u].job = j]
<1>4. /\ q \in Take /\ q.job = j /\ q.at = "prepare" /\ q.exit = None /\ q.got = None
      /\ q.met <=> \E u \in Slot : take[u].job = j
  BY DEF Idle, Take, Stage
<1>5. ASSUME NEW t \in Slot, t # s
      PROVE  /\ take'[t] \in Take /\ take'[t].job = take[t].job /\ take'[t].at = take[t].at
             /\ take'[t].exit = take[t].exit /\ take'[t].got = take[t].got
             /\ take'[t].met <=> take[t].met \/ take[t].job = j
  <2>1. take[t] \in Take
    BY DEF BoxInv, BoxTypes
  <2> DEFINE r == [take[t] EXCEPT !.met = TRUE]
  <2>2. /\ r \in Take /\ r.job = take[t].job /\ r.at = take[t].at
        /\ r.exit = take[t].exit /\ r.got = take[t].got /\ r.met = TRUE
    BY <2>1 DEF Take
  <2>3. take'[t] = IF take[t].job = j THEN r ELSE take[t]
    BY <1>1, <1>5
  <2> HIDE DEF r
  <2> QED
    BY <2>1, <2>2, <2>3
<1>6. take'[s] = q
  BY <1>1
<1> HIDE DEF q
<1>7. take' \in [Slot -> Take]
  <2>1. \A t \in Slot : take'[t] \in Take
    BY <1>4, <1>5, <1>6
  <2> QED
    BY <1>1, <2>1
<1>8. j # None /\ None # "abandoned"
  BY BoxAssumption
<1>9. \A t \in Slot \ {s} : /\ Filming(t)' <=> Filming(t)
                            /\ At(t, "idle")' <=> At(t, "idle")
  BY <1>5 DEF Filming, At
<1>10. ~Filming(s) /\ ~Filming(s)' /\ ~At(s, "idle")' /\ take[s].job = None
  BY <1>1, <1>4, <1>6 DEF Filming, At, BoxInv, BoxTypes
<1>11. IInv'
  BY <1>2, NextIInv DEF Next, Loop, BoxInv
<1>12. BoxTypes'
  <2>1. lease' \in [Job -> {None} \cup Slot \cup {Over}]
    BY <1>1 DEF BoxInv, BoxTypes
  <2>2. \A t \in Slot : At(t, "idle")' <=> take'[t].job = None
    BY <1>4, <1>5, <1>6, <1>8, <1>9, <1>10 DEF BoxInv, BoxTypes
  <2> QED
    BY <1>2, <1>7, <2>1, <2>2 DEF BoxInv, BoxTypes
<1>13. Counted'
  <2>1. OnBox' = OnBox \cup {s} /\ s \notin OnBox
    BY <1>1, <1>9, <1>10 DEF OnBox
  <2>2. Cardinality(OnBox') = Cardinality(OnBox) + 1
    BY <2>1, OnBoxFinite, FS_AddElement
  <2> QED
    BY <1>3, <2>2 DEF BoxInv, Counted
<1>14. Films'
  BY <1>2, <1>5, <1>9, <1>10 DEF BoxInv, Films
<1>15. Exits'
  BY <1>4, <1>5, <1>6, <1>8 DEF BoxInv, Exits, At
<1>16. Meet'
  BY <1>4, <1>5, <1>6, <1>9 DEF BoxInv, Meet
<1>17. Behind' /\ Attached'
  BY <1>2, <1>3 DEF BoxInv, Behind, Attached, Busy
<1>19. DirectoryRemoved'
  <2>1. \A i \in Job : (\E t \in Slot : take[t].job = i) => \E t \in Slot : take'[t].job = i
    BY <1>5, <1>10, BoxAssumption
  <2> QED
    BY <1>2, <1>3, <2>1 DEF BoxInv, DirectoryRemoved
<1>18. Own'
  <2> SUFFICES ASSUME NEW t \in Slot, ~At(t, "idle")', ~take'[t].met,
                      take'[t].job \notin leftover'
               PROVE  /\ take'[t].exit # "abandoned" => Finds(t)'
                      /\ take'[t].got # None => take'[t].got = t
    BY DEF Own
  <2>1. CASE t = s
    <3>1. dir[j] = None
      BY <1>2, <1>3, <1>4, <1>6, <2>1 DEF BoxInv, DirectoryRemoved
    <3> QED
      BY <1>2, <1>4, <1>6, <2>1, <3>1 DEF BoxInv, Attached, Finds, HasVideo, Busy
  <2>2. CASE t # s
    BY <1>2, <1>5, <1>9, <2>2 DEF BoxInv, Own, Finds, HasVideo, Busy
  <2> QED
    BY <2>1, <2>2
<1> QED
  BY <1>11, <1>12, <1>13, <1>14, <1>15, <1>16, <1>17, <1>18, <1>19 DEF BoxInv

\* Removing a directory or failing to.
LEMMA CleanStep == ASSUME BoxInv, NEW s \in Slot, Clean(s) PROVE BoxInv'
<1> DEFINE j == take[s].job
<1>1. /\ take[s].at = "clean" /\ ~At(s, "idle") /\ ~Filming(s) /\ j \in Job
  BY JobOnBox DEF Clean, At, Filming
<1>2. /\ take' = [take EXCEPT ![s] = Idle]
      /\ lease' = [i \in Job |-> IF lease[i] = s THEN Over ELSE lease[i]]
      /\ UNCHANGED <<done, fence>>
      /\ TakeLeaves \/ TakeReported
  BY DEF Clean, Becomes
<1>3. \A t \in Slot : take'[t] = IF t = s THEN Idle ELSE take[t]
  BY <1>2 DEF BoxInv, BoxTypes
<1>4. /\ pc' = pc /\ filming' + leaving' = filming + leaving - 1
      /\ filming \in Nat /\ leaving \in Nat
  BY <1>2, SlotsAssumption DEF TakeLeaves, TakeReported, BoxInv, IInv, TypeOK
<1>5. \A i \in Job :
        /\ dir'[i] # None => dir[i] # None
        /\ i # j => /\ dir'[i] = dir[i] /\ container'[i] = container[i]
                    /\ i \in leftover' <=> i \in leftover
        /\ container'[i] # None <=> container[i] # None
        /\ container[i] # None => container'[i].by = container[i].by
        /\ Busy(i)' => Busy(i) /\ dir'[i] # None
        /\ i = j => dir'[i] = None \/ i \in leftover'
  <2>1. \A i \in Job : container[i] \in {None} \cup Container
    BY DEF BoxInv, BoxTypes
  <2>2. CASE Remove({j}) /\ leftover' = leftover \ {j}
    <3>1. \A i \in Job : container[i] # None =>
             LET c == [container[i] EXCEPT !.attached = FALSE] IN
             c # None /\ c.by = container[i].by /\ c.attached = FALSE
      BY <2>1, ContainerFields
    <3> QED
      BY <2>2, <3>1 DEF Remove, Busy, BoxInv, Attached
  <2>3. CASE /\ Busy(j) /\ leftover' = leftover \cup {j} /\ UNCHANGED container
             /\ dir' = [dir EXCEPT ![j] =
                          IF @ # None /\ @.video = s THEN [video |-> Over] ELSE @]
    <3>1. [video |-> Over] # None
      <4>1. [video |-> Over] \in [video : {None} \cup Nat]
        BY DEF Over
      <4> QED
        BY <4>1, BoxAssumption
    <3> QED
      BY <2>3, <3>1 DEF Busy, BoxInv, BoxTypes, Attached
  <2> QED
    BY <2>2, <2>3 DEF Clean
<1>6. /\ container' \in [Job -> {None} \cup Container]
      /\ dir' \in [Job -> {None} \cup Directory]
      /\ leftover' \subseteq Job
  <2>1. CASE Remove({j}) /\ leftover' = leftover \ {j}
    BY <2>1 DEF Remove, BoxInv, BoxTypes, Container
  <2>2. CASE /\ Busy(j) /\ leftover' = leftover \cup {j} /\ UNCHANGED container
             /\ dir' = [dir EXCEPT ![j] =
                          IF @ # None /\ @.video = s THEN [video |-> Over] ELSE @]
    BY <1>1, <2>2 DEF BoxInv, BoxTypes, Directory
  <2> QED
    BY <2>1, <2>2 DEF Clean
<1>7. \A t \in Slot \ {s} : take'[t] = take[t]
  BY <1>3
<1>8. take'[s] = Idle /\ At(s, "idle")' /\ ~Filming(s)'
  BY <1>3, IdleTake DEF At, Filming
<1>9. \A t \in Slot \ {s} : /\ Filming(t)' <=> Filming(t)
                            /\ At(t, "idle")' <=> At(t, "idle")
  BY <1>7 DEF Filming, At
<1>10. IInv'
  BY <1>2, NextIInv DEF Next, Takes, BoxInv
<1>11. BoxTypes'
  <2>1. take' \in [Slot -> Take] /\ lease' \in [Job -> {None} \cup Slot \cup {Over}]
    BY <1>2, IdleTake DEF BoxInv, BoxTypes
  <2>2. \A t \in Slot : At(t, "idle")' <=> take'[t].job = None
    BY <1>7, <1>8, <1>9, IdleTake DEF BoxInv, BoxTypes
  <2> QED
    BY <1>2, <1>6, <2>1, <2>2 DEF BoxInv, BoxTypes
<1>12. Counted'
  <2>1. OnBox' = OnBox \ {s} /\ s \in OnBox
    BY <1>1, <1>8, <1>9 DEF OnBox
  <2>2. Cardinality(OnBox') = Cardinality(OnBox) - 1
    BY <2>1, OnBoxFinite, FS_RemoveElement
  <2> QED
    BY <1>4, <2>2 DEF BoxInv, Counted
<1>13. Films'
  <2>1. \A t \in Slot : Filming(t)' =>
           container'[take'[t].job] # None /\ container'[take'[t].job].by = t
    BY <1>5, <1>7, <1>8, <1>9, JobOnBox DEF BoxInv, Films
  <2>2. \A i \in Job : container'[i] # None =>
           \/ container'[i].by = Over
           \/ \E t \in Slot : container'[i].by = t /\ take'[t].job = i /\ Filming(t)'
    BY <1>1, <1>5, <1>7, <1>9 DEF BoxInv, Films
  <2> QED
    BY <2>1, <2>2 DEF Films
<1>14. Exits' /\ Meet'
  BY <1>7, <1>8, <1>9, IdleTake, JobOnBox, BoxAssumption DEF BoxInv, Exits, Meet, At
<1>15. Behind' /\ Attached'
  BY <1>1, <1>2, <1>5 DEF BoxInv, Behind, Attached
<1>16. DirectoryRemoved'
  BY <1>4, <1>5, <1>7 DEF BoxInv, DirectoryRemoved
<1>17. Own'
  <2> SUFFICES ASSUME NEW t \in Slot, ~At(t, "idle")', ~take'[t].met,
                      take'[t].job \notin leftover'
               PROVE  /\ take'[t].exit # "abandoned" => Finds(t)'
                      /\ take'[t].got # None => take'[t].got = t
    BY DEF Own
  <2>1. t # s /\ take'[t] = take[t] /\ ~At(t, "idle")
    BY <1>7, <1>8, <1>9
  <2>2. take[t].job \in Job /\ take[t].job # j
    BY <2>1, JobOnBox DEF BoxInv, Meet
  <2> QED
    BY <1>5, <2>1, <2>2 DEF BoxInv, Own, Finds, HasVideo, Busy
<1> QED
  BY <1>10, <1>11, <1>12, <1>13, <1>14, <1>15, <1>16, <1>17 DEF BoxInv

--------------------------------------------------------------------------------
(* The process ends and starts again.                                      *)

\* Without takes little is left to keep.
LEMMA NoTakes ==
  ASSUME IInv', BoxTypes', \A s \in Slot : At(s, "idle")', \A s \in Slot : take'[s] = Idle,
         filming' = 0, leaving' = 0,
         \A j \in Job : container'[j] # None => container'[j].by = Over,
         Behind', Attached', DirectoryRemoved'
  PROVE  BoxInv'
<1>1. Counted'
  <2>1. OnBox' = {}
    BY DEF OnBox
  <2>2. Cardinality(OnBox') = 0
    BY <2>1, FS_EmptySet
  <2> QED
    BY <2>2 DEF Counted
<1>2. \A s \in Slot : ~Filming(s)'
  BY DEF Filming, At
<1>3. Films'
  BY <1>2 DEF Films
<1>4. Exits' /\ Meet' /\ Own'
  BY IdleTake DEF Exits, Meet, Own, At
<1> QED
  BY <1>1, <1>3, <1>4 DEF BoxInv

\* An ended process has no takes; the sweep leaves only what it must.
LEMMA RestartStep == ASSUME BoxInv, Start PROVE BoxInv'
<1>1. PICK J \in SUBSET {j \in Job : dir[j] # None} :
         /\ SweepWorkRoot(J)
         /\ Remove(J)
         /\ leftover' = {j \in Job : dir[j] # None /\ j \notin J /\ Busy(j)}
  BY DEF Start
<1>2. /\ pc = "exited" /\ pc' = "check" /\ free' = Slots /\ late' = 0
      /\ unhealthy' = FALSE /\ term' = FALSE /\ gaveUp' = FALSE
      /\ UNCHANGED <<filming, leaving, take, lease, done, fence>>
      /\ \E found \in Probe : JudgeEgress(found)
  BY DEF Start
<1>3. filming = 0 /\ leaving = 0
  BY <1>2, SlotsAssumption DEF BoxInv, IInv, TypeOK, Permits, Held
<1>4. IInv'
  <2>1. free' \in 0..Slots /\ filming' \in 0..Slots /\ leaving' \in 0..Slots /\ late' \in Nat
    BY <1>2, <1>3, SlotsAssumption
  <2>2. pc' \in Point /\ unhealthy' \in BOOLEAN /\ term' \in BOOLEAN /\ gaveUp' \in BOOLEAN
    BY <1>2 DEF Point
  <2>3. Permits' /\ LateOnce'
    BY <1>2, <1>3, SlotsAssumption DEF Permits, Held, LateOnce
  <2> QED
    BY <2>1, <2>2, <2>3 DEF IInv, TypeOK
<1>5. \A s \in Slot : At(s, "idle")
  <2>1. Cardinality(OnBox) = 0
    BY <1>3 DEF BoxInv, Counted
  <2>2. OnBox = {}
    BY <2>1, OnBoxFinite, FS_EmptySet
  <2> QED
    BY <2>2 DEF OnBox
<1>6. fence
  BY <1>2 DEF Probe, JudgeEgress, Fenced
<1>7. \A j \in Job :
        /\ dir'[j] = IF j \in J THEN None ELSE dir[j]
        /\ container'[j] \in {None} \cup Container
        /\ container'[j] # None => container[j] # None /\ container'[j].by = container[j].by
        /\ Busy(j)' => Busy(j) /\ j \notin J
  <2>1. \A j \in Job : container[j] \in {None} \cup Container
    BY DEF BoxInv, BoxTypes
  <2> QED
    BY <1>1, <2>1, ContainerFields DEF Remove, Busy
<1>8. BoxTypes'
  <2>1. container' \in [Job -> {None} \cup Container]
    BY <1>1, <1>7 DEF Remove
  <2>2. dir' \in [Job -> {None} \cup Directory]
    BY <1>1 DEF Remove, BoxInv, BoxTypes
  <2> QED
    BY <1>1, <1>2, <2>1, <2>2 DEF BoxInv, BoxTypes, At
<1>9. Attached'
  BY <1>7 DEF BoxInv, Attached
<1>10. DirectoryRemoved'
  BY <1>1, <1>7 DEF DirectoryRemoved, SweepWorkRoot
<1>11. Behind'
  BY <1>2, <1>6 DEF Behind
<1>12. Counted' /\ Exits' /\ Meet' /\ \A s \in Slot : At(s, "idle")' /\ ~Filming(s)'
  BY <1>2, <1>5 DEF BoxInv, Counted, OnBox, Exits, Meet, At, Filming
<1>13. Films'
  BY <1>5, <1>7, <1>12 DEF BoxInv, Films, Filming, At
<1>14. Own'
  BY <1>12 DEF Own
<1> QED
  BY <1>4, <1>8, <1>9, <1>10, <1>11, <1>12, <1>13, <1>14 DEF BoxInv

\* However the process ends, its takes end with it.
LEMMA DownStep == ASSUME BoxInv, Crash \/ Reboot PROVE BoxInv'
<1>1. /\ Down /\ UNCHANGED <<unhealthy, term, gaveUp, late, done, leftover>>
      /\ fence' \in {fence, FALSE}
  BY DEF Crash, Reboot
<1>2. /\ pc' = "exited" /\ free' = 0 /\ filming' = 0 /\ leaving' = 0
      /\ take' = [s \in Slot |-> Idle]
  BY <1>1 DEF Down
<1>3. IInv'
  BY <1>1, <1>2, SlotsAssumption DEF BoxInv, IInv, TypeOK, Permits, Held, LateOnce, Point
<1>4. \A s \in Slot : take'[s] = Idle /\ At(s, "idle")'
  BY <1>2, IdleTake DEF At
<1>5. \A j \in Job :
        /\ container'[j] \in {None} \cup Container
        /\ container'[j] # None => container[j] # None /\ container'[j].by = Over
        /\ Busy(j)' => Busy(j)
        /\ fence' = FALSE => fence = FALSE \/ container'[j] = None
  <2>1. \A j \in Job : container[j] \in {None} \cup Container
    BY DEF BoxInv, BoxTypes
  <2>2. CASE Crash
    BY <2>1, <2>2, ContainerFields DEF Crash, Busy
  <2>3. CASE Reboot
    BY <2>3 DEF Reboot, Busy
  <2> QED
    BY <2>2, <2>3
<1>6. \A j \in Job : dir[j] # None => dir'[j] # None
  <2>1. [video |-> Over] \in [video : {None} \cup Nat]
    BY DEF Over
  <2> QED
    BY <1>1, <2>1, BoxAssumption DEF Down
<1>7. BoxTypes'
  <2>1. container' \in [Job -> {None} \cup Container]
    BY <1>5 DEF Crash, Reboot
  <2>2. dir' \in [Job -> {None} \cup Directory]
    BY <1>1 DEF Down, BoxInv, BoxTypes, Directory
  <2>3. lease' \in [Job -> {None} \cup Slot \cup {Over}]
    BY <1>1 DEF Down
  <2>4. take' \in [Slot -> Take]
    BY <1>2, IdleTake
  <2> QED
    BY <1>1, <1>4, <2>1, <2>2, <2>3, <2>4, IdleTake DEF BoxInv, BoxTypes
<1>8. Behind'
  BY <1>2, <1>4, <1>5 DEF BoxInv, Behind
<1>9. Attached' /\ DirectoryRemoved'
  BY <1>2, <1>5, <1>6 DEF BoxInv, Attached, DirectoryRemoved
<1> QED
  BY <1>2, <1>3, <1>4, <1>5, <1>7, <1>8, <1>9, NoTakes

--------------------------------------------------------------------------------
\* A box begins empty, behind its fence.
LEMMA InitBoxInv == BoxInit => BoxInv
<1> SUFFICES ASSUME BoxInit PROVE BoxInv
  OBVIOUS
<1>1. IInv /\ filming = 0 /\ leaving = 0 /\ pc = "check"
  BY InitIInv DEF BoxInit, Init
<1>2. /\ \A s \in Slot : take[s] = Idle /\ At(s, "idle") /\ ~Filming(s)
      /\ \A j \in Job : container[j] = None /\ dir[j] = None
      /\ fence = TRUE
  BY IdleTake DEF BoxInit, At, Filming
<1>3. BoxTypes
  BY <1>2, IdleTake DEF BoxInit, BoxTypes
<1>4. Counted
  <2>1. OnBox = {}
    BY <1>2 DEF OnBox
  <2> QED
    BY <1>1, <2>1, FS_EmptySet DEF Counted
<1>5. Films /\ Exits /\ Behind /\ Attached /\ DirectoryRemoved /\ Meet /\ Own
  BY <1>2, IdleTake DEF Films, Exits, Behind, Attached, DirectoryRemoved, Meet, Own, Busy, At
<1> QED
  BY <1>1, <1>3, <1>4, <1>5 DEF BoxInv

\* Every step of the box keeps the invariant.
LEMMA NextBoxInv == BoxInv /\ [BoxNext]_allVars => BoxInv'
<1> SUFFICES ASSUME BoxInv, [BoxNext]_allVars PROVE BoxInv'
  OBVIOUS
<1>1. CASE LoopStep \/ BoxSignal
  BY <1>1, LoopSteps, LeasedStep DEF LoopStep, BoxSignal
<1>2. CASE Start
  BY <1>2, RestartStep
<1>3. CASE Crash \/ Reboot
  BY <1>3, DownStep
<1>4. CASE RestoreFence \/ UNCHANGED allVars
  BY <1>4, FenceStep
<1>5. ASSUME NEW s \in Slot, TakeStep(s) \/ Truncate(s) \/ HeartbeatRefused(s) \/ Abandon(s)
      PROVE  BoxInv'
  BY <1>5, RefuseStep, PrepareStep, StartStep, ReapStep, JudgeStep, UploadStep, ReportStep,
     CleanStep, WatchStep, AbandonStep DEF TakeStep
<1>6. ASSUME NEW j \in Job, ContainerEnds(j) \/ Lapse(j)
      PROVE  BoxInv'
  BY <1>6, EndsStep, LapseStep
<1> QED
  BY <1>1, <1>2, <1>3, <1>4, <1>5, <1>6 DEF BoxNext

\* So it holds throughout.
THEOREM BoxInductive == BoxSpec => []BoxInv
  BY InitBoxInv, NextBoxInv, PTL DEF BoxSpec

\* Each variable of the box keeps its type, whatever dies and restarts.
THEOREM BoxTypeCorrect == BoxSpec => []BoxTypeOK
<1>1. BoxInv => BoxTypeOK
  BY DEF BoxInv, IInv, BoxTypes, BoxTypeOK, Take, Container, Directory
<1> QED
  BY <1>1, BoxInductive, PTL

\* main drains its takes, also on a box that crashed and restarted.
THEOREM BoxDrainsFirst == BoxSpec => []DrainsFirst
<1>1. BoxInv => DrainsFirst
  BY SlotsAssumption DEF BoxInv, IInv, TypeOK, Permits, Held, DrainsFirst
<1> QED
  BY <1>1, BoxInductive, PTL

\* Each life of the process starts one take at most after it abandoned a container.
THEOREM BoxOneLateTake == BoxSpec => []OneLateTake
<1>1. BoxInv => OneLateTake
  BY DEF BoxInv, IInv, LateOnce, OneLateTake
<1> QED
  BY <1>1, BoxInductive, PTL

\* judge_egress lets no process start on a box without its rules.
THEOREM NothingFilmedUnfenced == BoxSpec => []FilmedBehindFence
<1>1. BoxInv => FilmedBehindFence
  BY DEF BoxInv, Behind, FilmedBehindFence
<1> QED
  BY <1>1, BoxInductive, PTL

\* run, sweep_work_root and the refusal to remove under a container together leave no
\* directory behind.
THEOREM DirectoriesGo == BoxSpec => []DirectoryRemoved
<1>1. BoxInv => DirectoryRemoved
  BY DEF BoxInv
<1> QED
  BY <1>1, BoxInductive, PTL

\* A take that met no other of its job reports what it filmed itself.
THEOREM VideosAreOwn == BoxSpec => []ReportedVideoIsOwn
<1>1. BoxInv => ReportedVideoIsOwn
  <2> SUFFICES ASSUME BoxInv, NEW s \in Slot, At(s, "report"), take[s].got # None,
                      ~take[s].met, take[s].job \notin leftover
               PROVE  take[s].got = s
    BY DEF ReportedVideoIsOwn
  <2>1. ~At(s, "idle")
    BY DEF At
  <2> QED
    BY <2>1 DEF BoxInv, Own
<1> QED
  BY <1>1, BoxInductive, PTL
================================================================================
