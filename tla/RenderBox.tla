------------------------------- MODULE RenderBox --------------------------------
(***************************************************************************)
(* A render box: the worker process of WorkerLoop with what outlives it and *)
(* what its takes share.  Containers belong to the docker daemon and job    *)
(* directories to the disk; both are named by the job alone, so that takes  *)
(* of one job that meet on one box, after a lost lease or a restart, share  *)
(* them.  systemd starts the process again whenever it has ended, through a *)
(* preflight that tries the egress fence.                                   *)
(*                                                                          *)
(* Slots number the tasks: a new take gets the first free one, and 0 stands *)
(* for any take that is over.                                               *)
(***************************************************************************)
EXTENDS WorkerLoop, FiniteSets

CONSTANTS Job, None

Slot == 1..Slots
Over == 0

\* None is no job, no slot, no exit and no record.
ASSUME BoxAssumption ==
  /\ None \notin Job /\ None \notin Nat
  /\ None \notin {"clean", "bad", "abandoned"}
  /\ None \notin [by : Nat, attached : BOOLEAN]
  /\ None \notin [video : {None} \cup Nat]

VARIABLES
  take,       \* the task in a slot: its job, and where run_inner is
  lease,      \* who holds the job's lease: a slot, Over until it lapses, or None
  done,       \* jobs that were reported done
  container,  \* kaviri-job-<id>: whose it is, and whether it still sees the directory
  dir,        \* the job directory: whose video is in it
  leftover,   \* directories that could not be removed under a container
  fence       \* the egress rules are in force

box == <<take, lease, done, container, dir, leftover, fence>>
allVars == <<vars, box>>

Idle == [job |-> None, at |-> "idle", exit |-> None, truncated |-> FALSE,
         lost |-> FALSE, got |-> None, met |-> FALSE]

Stage == {"idle", "prepare", "start", "film", "judge", "upload", "report", "clean"}

NoVideo == [video |-> None]

BoxInit ==
  /\ Init
  /\ take = [s \in Slot |-> Idle]
  /\ lease = [j \in Job |-> None]
  /\ done = {}
  /\ container = [j \in Job |-> None]
  /\ dir = [j \in Job |-> None]
  /\ leftover = {}
  /\ fence = TRUE

--------------------------------------------------------------------------------
(* Directories and containers.                                             *)

\* A container writes into the directory.
Busy(j) == container[j] # None /\ container[j].attached

\* The directories of J are removed, or rather what of them no container writes into
\* meanwhile: J leaves out busy ones only.
Remove(J) ==
  /\ dir' = [j \in Job |-> IF j \in J THEN None ELSE dir[j]]
  /\ container' = [j \in Job |-> IF j \in J /\ container[j] # None
                                 THEN [container[j] EXCEPT !.attached = FALSE]
                                 ELSE container[j]]

--------------------------------------------------------------------------------
(* The process starts.                                                     *)

Fenced == {"metadata", "rfc1918"}
Reach == {"blocked", "open", "hung", "missing"}

\* What a probe container may report, of each address or of none.  Without the rules
\* the metadata service does not refuse, unless the network has no route to anywhere.
Probe ==
  {found \in [Fenced \cup {"public"} -> Reach] :
     IF fence THEN \A label \in Fenced : found[label] \in {"blocked", "missing"}
              ELSE found["metadata"] # "blocked" \/ found["public"] # "open"}

\* Mutant: only a connection that succeeds is a failure.
JudgeEgressLenient(found) == \A label \in Fenced : found[label] # "open"

\* judge_egress: each is refused promptly, and the positive control, which is on unless
\* it was configured away, is reached.
JudgeEgress(found) ==
  /\ \A label \in Fenced : found[label] = "blocked"
  /\ found["public"] = "open"

\* Mutant: what the last life left is left where it is.
SweepNothing(J) == J = {}

\* sweep_work_root: all there is, except what cannot be removed.
SweepWorkRoot(J) == \A j \in Job : j \in J \/ dir[j] = None \/ Busy(j)

\* run: the preflight passes, the sweep, and a loop with all its slots.
Start ==
  /\ pc = "exited"
  /\ \E found \in Probe : JudgeEgress(found)
  /\ \E J \in SUBSET {j \in Job : dir[j] # None} :
        /\ SweepWorkRoot(J)
        /\ Remove(J)
        /\ leftover' = {j \in Job : dir[j] # None /\ j \notin J /\ Busy(j)}
  /\ pc' = "check" /\ free' = Slots /\ late' = 0
  /\ unhealthy' = FALSE /\ term' = FALSE /\ gaveUp' = FALSE
  /\ UNCHANGED <<filming, leaving, take, lease, done, fence>>

--------------------------------------------------------------------------------
(* run_inner, one step per await.                                          *)

At(s, stage) == take[s].at = stage
Becomes(s, r) == take' = [take EXCEPT ![s] = r]
Goes(s, stage) == Becomes(s, [take[s] EXCEPT !.at = stage])
Owns(s) == lease[take[s].job] = s

\* The loop leases a job and spawns its task.
BoxLeased(j) ==
  /\ Leased
  /\ lease[j] = None /\ j \notin done
  /\ \E s \in Slot :
        /\ At(s, "idle") /\ \A t \in 1..(s - 1) : ~At(t, "idle")
        /\ take' = [t \in Slot |->
                      CASE t = s -> [Idle EXCEPT !.job = j, !.at = "prepare",
                                                 !.met = \E u \in Slot : take[u].job = j]
                        [] t # s /\ take[t].job = j -> [take[t] EXCEPT !.met = TRUE]
                        [] OTHER -> take[t]]
        /\ lease' = [lease EXCEPT ![j] = s]
  /\ UNCHANGED <<done, container, dir, leftover, fence>>

\* The script, the options or the disk will not do, and the job is given back.
Refuse(s) ==
  /\ At(s, "prepare")
  /\ Becomes(s, [take[s] EXCEPT !.at = "report"])
  /\ UNCHANGED <<vars, lease, done, container, dir, leftover, fence>>

\* create_dir_all does not mind a directory that is there, with whatever is in it.
Prepare(s) ==
  LET j == take[s].job IN
  /\ At(s, "prepare")
  /\ dir' = [dir EXCEPT ![j] = IF @ = None THEN NoVideo ELSE @]
  /\ Goes(s, "start")
  /\ UNCHANGED <<vars, lease, done, container, leftover, fence>>

\* container_name: one container per job.
NameFree(j) == container[j] = None

\* docker run fails if the name is taken or the directory to mount is gone.
DockerRun(s) ==
  LET j == take[s].job IN
  \/ /\ NameFree(j) /\ dir[j] # None
     /\ container' = [container EXCEPT ![j] = [by |-> s, attached |-> TRUE]]
     /\ Goes(s, "film")
  \/ /\ ~(NameFree(j) /\ dir[j] # None)
     /\ Becomes(s, [take[s] EXCEPT !.at = "film", !.exit = "bad"])
     /\ UNCHANGED container

\* report_progress("running") is refused without the lease.  Its answer is followed by
\* docker run, long before the lease it renewed can lapse.
StartContainer(s) ==
  /\ At(s, "start")
  /\ \/ ~Owns(s) /\ Goes(s, "clean") /\ UNCHANGED container
     \/ Owns(s) /\ DockerRun(s)
  /\ UNCHANGED <<vars, lease, done, dir, leftover, fence>>

Filming(s) == At(s, "film") /\ take[s].exit = None

\* The wall clock or the watchdog: the recorder is asked to render what it has.
Truncate(s) ==
  /\ Filming(s) /\ ~take[s].truncated
  /\ Becomes(s, [take[s] EXCEPT !.truncated = TRUE])
  /\ UNCHANGED <<vars, lease, done, container, dir, leftover, fence>>

\* The heartbeat is refused, and the take is stopped.
HeartbeatRefused(s) ==
  /\ Filming(s) /\ ~take[s].lost /\ ~Owns(s)
  /\ Becomes(s, [take[s] EXCEPT !.lost = TRUE])
  /\ UNCHANGED <<vars, lease, done, container, dir, leftover, fence>>

\* A container ends, with or without its video, and whoever waits for it sees that.
ContainerEnds(j) ==
  /\ container[j] # None
  /\ \E exit \in {"clean", "bad"} :
       /\ dir' = [dir EXCEPT ![j] = IF exit = "clean" /\ Busy(j)
                                    THEN [video |-> container[j].by] ELSE @]
       /\ take' = [s \in Slot |-> IF s = container[j].by
                                  THEN [take[s] EXCEPT !.exit = exit] ELSE take[s]]
  /\ container' = [container EXCEPT ![j] = None]
  /\ UNCHANGED <<vars, lease, done, leftover, fence>>

\* The child is reaped and docker rm --force is called, by name: if a container has it
\* still, it is another's, and it is killed, or rm fails, which nobody looks at.
Reap(s) ==
  LET j == take[s].job IN
  /\ At(s, "film") /\ take[s].exit \in {"clean", "bad"}
  /\ \/ /\ Goes(s, "judge")
        /\ UNCHANGED container
     \/ /\ container[j] # None
        /\ container' = [container EXCEPT ![j] = None]
        /\ take' = [t \in Slot |->
                      CASE t = s -> [take[t] EXCEPT !.at = "judge"]
                        [] t # s /\ t = container[j].by -> [take[t] EXCEPT !.exit = "bad"]
                        [] OTHER -> take[t]]
  /\ UNCHANGED <<vars, lease, done, dir, leftover, fence>>

\* Every kill has failed.  The job is left to the reaper and the flag is raised, but
\* a take that has lost its lease says so first and raises nothing.
Abandon(s) ==
  /\ Filming(s) /\ (take[s].truncated \/ take[s].lost)
  /\ IF take[s].lost THEN UNCHANGED vars ELSE TakeAbandons
  /\ Becomes(s, [take[s] EXCEPT !.at = "clean", !.exit = "abandoned"])
  /\ container' = [container EXCEPT ![take[s].job] = [@ EXCEPT !.by = Over]]
  /\ UNCHANGED <<lease, done, dir, leftover, fence>>

\* usable_video
HasVideo(j) == dir[j] # None /\ dir[j].video # None

\* A finished take has a video, and was truncated or has exited with zero.
Finished(s) == HasVideo(take[s].job) /\ (take[s].truncated \/ take[s].exit = "clean")

\* report_progress("uploading") is the last time the lease is looked at before the
\* upload.
Judge(s) ==
  /\ At(s, "judge")
  /\ Goes(s, CASE take[s].lost -> "clean"
              [] ~take[s].lost /\ Finished(s) /\ Owns(s) -> "upload"
              [] ~take[s].lost /\ Finished(s) /\ ~Owns(s) -> "clean"
              [] OTHER -> "report")
  /\ UNCHANGED <<vars, lease, done, container, dir, leftover, fence>>

\* The video goes to the bucket, or it does not: the one that is in the directory now.
Upload(s) ==
  /\ At(s, "upload")
  /\ \E stored \in {None} \cup IF HasVideo(take[s].job) THEN {dir[take[s].job].video} ELSE {} :
        Becomes(s, [take[s] EXCEPT !.at = "report", !.got = stored])
  /\ UNCHANGED <<vars, lease, done, container, dir, leftover, fence>>

\* complete_job, done or failed: refused without the lease.  If the call is lost, the
\* lease is nobody's until it lapses.
Report(s) ==
  LET j == take[s].job IN
  /\ At(s, "report")
  /\ Goes(s, "clean")
  /\ \/ /\ Owns(s)
        /\ lease' = [lease EXCEPT ![j] = None]
        /\ done' = IF take[s].got # None THEN done \cup {j} ELSE done
     \/ UNCHANGED <<lease, done>>
  /\ UNCHANGED <<vars, container, dir, leftover, fence>>

\* run: the directory goes, whatever happened, then the permit.
Clean(s) ==
  LET j == take[s].job IN
  /\ At(s, "clean")
  /\ \/ /\ Remove({j})
        /\ leftover' = leftover \ {j}
     \/ /\ Busy(j)
        /\ leftover' = leftover \cup {j}
        /\ dir' = [dir EXCEPT ![j] = IF @ # None /\ @.video = s THEN [video |-> Over] ELSE @]
        /\ UNCHANGED container
  /\ IF take[s].exit = "abandoned" /\ ~take[s].lost THEN TakeLeaves ELSE TakeReported
  /\ Becomes(s, Idle)
  /\ lease' = [j1 \in Job |-> IF lease[j1] = s THEN Over ELSE lease[j1]]
  /\ UNCHANGED <<done, fence>>

\* A lease that is not renewed lapses, and the job is anybody's.
Lapse(j) ==
  /\ lease[j] # None
  /\ lease' = [lease EXCEPT ![j] = None]
  /\ UNCHANGED <<vars, take, done, container, dir, leftover, fence>>

--------------------------------------------------------------------------------
(* What happens to the box.                                                *)

Down ==
  /\ pc' = "exited" /\ free' = 0 /\ filming' = 0 /\ leaving' = 0
  /\ take' = [s \in Slot |-> Idle]
  /\ lease' = [j \in Job |-> IF lease[j] = None THEN None ELSE Over]
  /\ dir' = [j \in Job |-> IF HasVideo(j) THEN [video |-> Over] ELSE dir[j]]

\* The process is killed: its containers go on, and nobody waits for them.
Crash ==
  /\ pc # "exited"
  /\ Down
  /\ container' = [j \in Job |-> IF container[j] = None THEN None
                                 ELSE [container[j] EXCEPT !.by = Over]]
  /\ UNCHANGED <<unhealthy, term, gaveUp, late, done, leftover, fence>>

\* The box reboots: no container survives, and the egress rules do not either.
Reboot ==
  /\ Down
  /\ container' = [j \in Job |-> None]
  /\ fence' = FALSE
  /\ UNCHANGED <<unhealthy, term, gaveUp, late, done, leftover>>

\* docker/egress.sh
RestoreFence ==
  /\ ~fence
  /\ fence' = TRUE
  /\ UNCHANGED <<vars, take, lease, done, container, dir, leftover>>

--------------------------------------------------------------------------------
LoopStep ==
  \/ /\ CheckHealth \/ Acquire \/ NothingLeased \/ Wake \/ ShutdownSeen \/ Drained
     /\ UNCHANGED box
  \/ \E j \in Job : BoxLeased(j)

BoxSignal == Signal /\ UNCHANGED box

TakeStep(s) ==
  \/ Refuse(s) \/ Prepare(s) \/ StartContainer(s)
  \/ Reap(s) \/ Judge(s) \/ Upload(s) \/ Report(s) \/ Clean(s)

\* The supervisor ends a take whose container does not end by itself.
FilmEnds(s) ==
  \/ Filming(s) /\ (ContainerEnds(take[s].job) \/ Truncate(s))
  \/ Abandon(s)

BoxNext ==
  \/ LoopStep \/ BoxSignal \/ Start \/ Crash \/ Reboot \/ RestoreFence
  \/ \E s \in Slot : TakeStep(s) \/ Truncate(s) \/ HeartbeatRefused(s) \/ Abandon(s)
  \/ \E j \in Job : ContainerEnds(j) \/ Lapse(j)

BoxSpec == BoxInit /\ [][BoxNext]_allVars

\* As in WorkerLoop, each take moves on, and a film ends (Supervisor).
BoxFairSpec ==
  /\ BoxSpec
  /\ WF_allVars(LoopStep) /\ SF_allVars(ShutdownSeen /\ UNCHANGED box)
  /\ \A s \in Slot : WF_allVars(TakeStep(s)) /\ WF_allVars(FilmEnds(s))

--------------------------------------------------------------------------------
BoxTypeOK ==
  /\ TypeOK
  /\ take \in [Slot -> [job : Job \cup {None}, at : Stage,
                        exit : {None, "clean", "bad", "abandoned"}, truncated : BOOLEAN,
                        lost : BOOLEAN, got : {None} \cup Slot \cup {Over},
                        met : BOOLEAN]]
  /\ lease \in [Job -> {None} \cup Slot \cup {Over}]
  /\ done \subseteq Job
  /\ container \in [Job -> {None} \cup [by : Slot \cup {Over}, attached : BOOLEAN]]
  /\ dir \in [Job -> {None} \cup [video : {None} \cup Slot \cup {Over}]]
  /\ leftover \subseteq Job
  /\ fence \in BOOLEAN

\* What an earlier take, or an earlier life of the process, has left in the directory
\* of a job never passes for the video of the take that reports it, although all
\* takes of a job share the directory and nothing removes take.mp4 before filming.
\* Takes of one job that met on the box may mix them up, and so may a directory that
\* could not be removed.
ReportedVideoIsOwn ==
  \A s \in Slot :
     At(s, "report") /\ Owns(s) /\ take[s].got # None
       => take[s].got = s \/ take[s].met \/ take[s].job \in leftover

\* No customer's directory is left on a running box without a take of that job,
\* whatever became of the take and of the process before, unless a container that
\* nobody could stop was writing into it.
DirectoryRemoved ==
  pc # "exited" =>
     \A j \in Job : dir[j] # None => j \in leftover \/ \E s \in Slot : take[s].job = j

\* Nothing is filmed on a box whose egress rules are gone: a reboot takes them, and
\* the process does not start again before they are back.
FilmedBehindFence ==
  \A j \in Job : container[j] # None => fence
================================================================================
