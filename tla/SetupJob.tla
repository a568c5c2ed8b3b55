------------------------------ MODULE SetupJob ------------------------------
(***************************************************************************)
(* Full Deploy of the workspace setup application (workspace-reset):       *)
(* server.py runs three commands in order in one worker thread, saves a    *)
(* checkpoint after each, and lets a failed, cancelled or, for an accepted *)
(* pipeline run, interrupted job be resumed by a new one; run_pipeline.py  *)
(* is the child process of the second command and starts and watches the   *)
(* setup pipeline in Fabric.                                               *)
(*                                                                         *)
(* `disk' is workflowCheckpoints in the settings file.  `job', `worker',   *)
(* `snapshot', `cancel' and `child' are the server's memory and threads.   *)
(* A checkpoint the worker saves in mid-run is one step with the change it *)
(* saves: only the job's own worker writes it then.  The last one is not,  *)
(* because the job is no longer running and may be resumed meanwhile.      *)
(***************************************************************************)
EXTENDS Naturals

CONSTANTS
    MaxJobs,       \* bound of the checked instances: jobs ever started
    MaxEvents,     \* bound: exits, failures to start or save, and edits together
    None

\* Job ids, drawn as uuids and numbered here in the order they are drawn; also
\* the pipeline run that the job's child submits.
Jobs == 1..MaxJobs

Sync == 1        \* WORKFLOW_STEPS
Setup == 2
Combined == 3
Notebooks == 0                          \* "Changed notebook sync"
Parts == {"core", "geo"}   \* notebooks that setup runs, and that the last step runs
Sources == [Parts -> Nat]
Terminal == {"Completed", "Failed", "Cancelled"}
Ended == {"succeeded", "failed", "cancelled"}

Records == [status : Ended \cup {"running", "interrupted"},
            completed : 0..3, pending : SUBSET Parts, source : Sources,
            url : Jobs \cup {None}, state : Terminal \cup {None},
            resumedBy : Jobs \cup {None}]
Stages == {"live", "checked", "posted", "watching", "reported", "ok", "failed"}
Children == [step : 0..3, stage : Stages, run : Jobs \cup {None}]
PipelineRuns == [state : Terminal \cup {"none", "active"}, core : Nat]

ASSUME ConstantsAssumption ==
    /\ MaxJobs \in Nat /\ MaxEvents \in Nat
    /\ None \notin Jobs \cup Records \cup Children \cup Terminal

VARIABLES
    job,        \* JOBS
    disk,       \* workflowCheckpoints
    worker,     \* where the thread of _workflow_worker is
    snapshot,   \* the record its last save took under job.lock
    cancel,     \* jobs with cancel_requested
    child,      \* the command the worker has started
    orphans,    \* jobs whose child was about to submit when its server exited
    run,        \* the pipeline's job instances in Fabric
    workspace,  \* definitions in the Fabric workspace
    checkout,   \* definitions in the checkout
    parent,     \* the job each job resumes
    events

serverVars == <<job, disk, worker, snapshot, cancel, child, parent>>
fabricVars == <<run, workspace, orphans>>
boundVars == <<checkout, events>>
vars == <<serverVars, fabricVars, boundVars>>

NewJob(s) == [status |-> "running", completed |-> 0, pending |-> {}, source |-> s,
              url |-> None, state |-> None, resumedBy |-> None]

Init ==
    /\ job = [j \in Jobs |-> None] /\ disk = job
    /\ worker = [j \in Jobs |-> "idle"]
    /\ snapshot = job /\ child = job /\ parent = job
    /\ cancel = {} /\ orphans = {}
    /\ run = [j \in Jobs |-> [state |-> "none", core |-> 0]]
    /\ workspace = [p \in Parts |-> 0]
    /\ checkout = [p \in Parts |-> 0]
    /\ events = 0

-----------------------------------------------------------------------------
Running(j) == job[j] # None /\ job[j].status = "running"
MonitorPending(r) == r.url # None /\ r.state \in {None, "Completed"} /\ r.completed < Setup
CanResume(r) ==
    /\ \/ r.status \in {"failed", "cancelled"}
       \/ r.status = "interrupted" /\ MonitorPending(r)
    /\ r.resumedBy = None
    /\ r.completed < Combined

Active == {k \in Jobs : run[k].state = "active"}
Alive(j) == child[j] # None /\ child[j].stage \notin {"ok", "failed"}

Event == events < MaxEvents /\ events' = events + 1
Go(j, pc) == worker' = [worker EXCEPT ![j] = pc]
Become(j, stage) == child' = [child EXCEPT ![j].stage = stage]

\* The job has a new record in memory and on disk.
Save(j, r) == job' = [job EXCEPT ![j] = r] /\ disk' = [disk EXCEPT ![j] = r]
\* The job is over and its last record is still to be saved.
End(j, r) ==
    /\ job' = [job EXCEPT ![j] = r]
    /\ child' = [child EXCEPT ![j] = None]
    /\ Go(j, "ending")
    /\ UNCHANGED disk
Outcome(j) ==
    IF j \in cancel \/ (child[j] # None /\ child[j].step = Setup /\ job[j].state = "Cancelled")
    THEN "cancelled" ELSE "failed"

-----------------------------------------------------------------------------
(* POST /api/full-workflow.  When its checkpoint cannot be saved, the      *)
(* handler takes the new job back and nothing has changed.                 *)

\* _start_workflow, under JOBS_LOCK.
BeginBeside(n) ==   \* mutant: a running job is not looked for
    /\ disk[n] = None /\ \A m \in 1..(n - 1) : disk[m] # None
    /\ Go(n, "next")
    /\ UNCHANGED <<snapshot, cancel, child, fabricVars, boundVars>>
Begin(n) ==
    /\ disk[n] = None /\ \A m \in 1..(n - 1) : disk[m] # None
    /\ \A j \in Jobs : ~Running(j)
    /\ Go(n, "next")
    /\ UNCHANGED <<snapshot, cancel, child, fabricVars, boundVars>>

Start(n) ==
    /\ Begin(n)
    /\ Save(n, NewJob(checkout))
    /\ UNCHANGED parent

\* What a resumed job takes over.  A change in anything but notebooks asks for
\* a full synchronisation; a changed core notebook for another setup run.
Changed(old) == {p \in Parts : checkout[p] # old.source[p]}
InheritedPrefix(old, full) ==   \* mutant: setup is retained although its notebooks changed
    [NewJob(checkout) EXCEPT
        !.completed = IF full THEN 0 ELSE old.completed,
        !.pending = IF full \/ old.completed < Sync THEN {} ELSE Changed(old),
        !.url = IF MonitorPending(old) THEN old.url ELSE None,
        !.state = IF MonitorPending(old) THEN old.state ELSE None]
Inherited(old, full) ==
    [NewJob(checkout) EXCEPT
        !.completed = IF full THEN 0
                      ELSE IF "core" \in Changed(old) /\ old.completed = Setup THEN Sync
                      ELSE old.completed,
        !.pending = IF full THEN {}
                    ELSE IF old.completed >= Sync THEN old.pending \cup Changed(old)
                    ELSE old.pending,
        !.url = IF MonitorPending(old) THEN old.url ELSE None,
        !.state = IF MonitorPending(old) THEN old.state ELSE None]

\* JOBS.get or _restore_workflow.  GET /api/jobs/<job_id> restores a checkpoint
\* too, and changes nothing else.
Known(j) ==
    IF job[j] # None THEN job[j]
    ELSE [disk[j] EXCEPT !.status = IF @ \in Ended THEN @ ELSE "interrupted"]

ResumeAfter(j, n, old) ==
    /\ CanResume(old)
    /\ MonitorPending(old) => Changed(old) = {} /\ old.pending = {}
    /\ \E full \in BOOLEAN :
          /\ full => Changed(old) # {} /\ old.completed >= Sync
          /\ job' = [job EXCEPT ![j] = [old EXCEPT !.resumedBy = n], ![n] = Inherited(old, full)]
    /\ disk' = [disk EXCEPT ![j] = job'[j], ![n] = job'[n]]
    /\ parent' = [parent EXCEPT ![n] = j]
Resume(j, n) == Begin(n) /\ disk[j] # None /\ ResumeAfter(j, n, Known(j))

\* _cancel_job, from POST /api/jobs/cancel-all.
Cancel(j) ==
    /\ Running(j) /\ j \notin cancel
    /\ cancel' = cancel \cup {j}
    /\ IF worker[j] = "monitor" /\ Alive(j) THEN Become(j, "failed") ELSE UNCHANGED child
    /\ UNCHANGED <<job, disk, worker, snapshot, parent, fabricVars, boundVars>>

-----------------------------------------------------------------------------
(* _workflow_worker: the thread of one job.                                *)

Proceed(j) ==
    /\ worker[j] = "next"
    /\ \/ /\ j \in cancel
          /\ End(j, [job[j] EXCEPT !.status = "cancelled"])
       \/ /\ j \notin cancel /\ job[j].completed = Combined
          /\ End(j, [job[j] EXCEPT !.status = "succeeded"])
    /\ UNCHANGED <<snapshot, cancel, parent, fabricVars, boundVars>>

\* _run_workflow_step: Popen, here of run_pipeline with --resume-job-url when
\* the job has an accepted run whose outcome is not verified.
CommandAfresh(r) ==   \* mutant: the accepted run is not handed over
    [step |-> IF r.pending # {} THEN Notebooks ELSE r.completed + 1, stage |-> "live", run |-> None]
Command(r) ==
    IF r.pending # {} THEN [step |-> Notebooks, stage |-> "live", run |-> None]
    ELSE IF r.completed + 1 = Setup /\ MonitorPending(r)
    THEN [step |-> Setup, stage |-> "posted", run |-> r.url]
    ELSE [step |-> r.completed + 1, stage |-> "live", run |-> None]
Launch(j) ==
    /\ \/ worker[j] = "next" /\ j \notin cancel /\ job[j].completed < Combined
       \/ worker[j] = "launch"
    /\ \/ /\ child' = [child EXCEPT ![j] = Command(job[j])]
          /\ Go(j, "launched")
          /\ UNCHANGED <<job, disk, events>>
       \/ Event /\ End(j, [job[j] EXCEPT !.status = Outcome(j)])
    /\ UNCHANGED <<snapshot, cancel, parent, fabricVars, checkout>>

RegisterOnly(j) ==   \* mutant: cancel_requested is not read again
    /\ worker[j] = "launched"
    /\ Go(j, "monitor")
    /\ UNCHANGED <<job, disk, snapshot, cancel, child, parent, fabricVars, boundVars>>
\* job.process is set and cancel_requested read under job.lock.
Register(j) ==
    /\ worker[j] = "launched"
    /\ Go(j, "monitor")
    /\ IF j \in cancel /\ Alive(j) THEN Become(j, "failed") ELSE UNCHANGED child
    /\ UNCHANGED <<job, disk, snapshot, cancel, parent, fabricVars, boundVars>>

ReadUncaught(j, r, stage) ==   \* mutant: an exception of the monitor ends its thread
    /\ worker[j] = "monitor"
    /\ \/ Save(j, r) /\ Become(j, stage) /\ UNCHANGED <<worker, events>>
       \/ Event /\ Go(j, "idle") /\ UNCHANGED <<job, disk, child>>
    /\ UNCHANGED <<snapshot, cancel, parent, fabricVars, checkout>>
\* PIPELINE_JOB_URL= or PIPELINE_JOB_TERMINAL= is read and saved; when it cannot
\* be saved the child is terminated and the job fails.
Read(j, r, stage) ==
    /\ worker[j] = "monitor"
    /\ \/ Save(j, r) /\ Become(j, stage) /\ UNCHANGED <<worker, events>>
       \/ Event /\ End(j, [r EXCEPT !.status = "failed"])
    /\ UNCHANGED <<snapshot, cancel, parent, fabricVars, checkout>>
ReadUrl(j) ==
    /\ Alive(j) /\ child[j].stage = "posted"
    /\ Read(j, [job[j] EXCEPT !.url = child[j].run, !.state = None], "watching")
ReadOutcome(j) ==
    /\ Alive(j) /\ child[j].stage = "watching"
    /\ run[child[j].run].state \in Terminal
    /\ Read(j, [job[j] EXCEPT !.state = run[child[j].run].state], "reported")

\* The child has exited.
Advanced(r, step) ==
    IF step = Notebooks THEN [r EXCEPT !.pending = {}] ELSE [r EXCEPT !.completed = step]
Collect(j) ==
    /\ worker[j] = "monitor" /\ child[j].stage \in {"ok", "failed"}
    /\ \/ /\ child[j].stage = "failed" \/ j \in cancel
          /\ End(j, [job[j] EXCEPT !.status = Outcome(j)])
          /\ UNCHANGED events
       \/ /\ child[j].stage = "ok" /\ j \notin cancel
          /\ Save(j, Advanced(job[j], child[j].step))
          /\ child' = [child EXCEPT ![j] = None]
          /\ Go(j, IF child[j].step = Notebooks THEN "launch" ELSE "next")
          /\ UNCHANGED events
       \/ /\ child[j].stage = "ok" /\ j \notin cancel
          /\ Event
          /\ End(j, [Advanced(job[j], child[j].step) EXCEPT !.status = "failed"])
    /\ UNCHANGED <<snapshot, cancel, parent, fabricVars, checkout>>

\* The last _save_workflow_checkpoints: the record under job.lock, then the
\* file under _pipeline_defaults_lock.
TakeSnapshot(j) ==
    /\ worker[j] = "ending"
    /\ snapshot' = [snapshot EXCEPT ![j] = job[j]]
    /\ Go(j, "final")
    /\ UNCHANGED <<job, disk, cancel, child, parent, fabricVars, boundVars>>
WriteSnapshot(j) ==
    /\ worker[j] = "final"
    /\ \/ disk' = [disk EXCEPT ![j] = snapshot[j]] /\ UNCHANGED events
       \/ Event /\ UNCHANGED disk
    /\ snapshot' = [snapshot EXCEPT ![j] = None]
    /\ Go(j, "idle")
    /\ UNCHANGED <<job, cancel, child, parent, fabricVars, checkout>>

-----------------------------------------------------------------------------
(* The child process, and Fabric behind it.                                *)

\* An error, an interrupted monitor, a refused or unverified submission, or the
\* timer of _run_workflow_step.
ChildFails(j) ==
    /\ worker[j] = "monitor" /\ Alive(j)
    /\ Become(j, "failed")
    /\ UNCHANGED <<job, disk, worker, snapshot, cancel, parent, fabricVars, boundVars>>

ChildGoesOn(j) ==   \* mutant: the inventory is not read
    /\ Alive(j) /\ child[j].step = Setup /\ child[j].stage = "live"
    /\ Become(j, "checked")
    /\ UNCHANGED <<job, disk, worker, snapshot, cancel, parent, fabricVars, boundVars>>
\* require_idle_pipeline finds no run that has not ended.
ChildChecks(j) ==
    /\ Alive(j) /\ child[j].step = Setup /\ child[j].stage = "live"
    /\ Active = {}
    /\ Become(j, "checked")
    /\ UNCHANGED <<job, disk, worker, snapshot, cancel, parent, fabricVars, boundVars>>

Submitted(j) == run' = [run EXCEPT ![j] = [state |-> "active", core |-> workspace["core"]]]
\* start_pipeline.
ChildPosts(j) ==
    /\ Alive(j) /\ child[j].stage = "checked"
    /\ Submitted(j)
    /\ child' = [child EXCEPT ![j].stage = "posted", ![j].run = j]
    /\ UNCHANGED <<job, disk, worker, snapshot, cancel, parent, workspace, orphans, boundVars>>

\* Exit code 0: definitions have been synchronised, or the run has Completed.
ChildSucceeds(j) ==
    /\ Alive(j)
    /\ IF child[j].step = Setup
       THEN child[j].stage = "reported" /\ job[j].state = "Completed"
       ELSE child[j].stage = "live"
    /\ Become(j, "ok")
    /\ workspace' = [p \in Parts |->
          IF \/ child[j].step = Sync
             \/ child[j].step = Notebooks /\ p \in job[j].pending
          THEN checkout[p] ELSE workspace[p]]
    /\ UNCHANGED <<job, disk, worker, snapshot, cancel, parent, run, orphans, boundVars>>

\* A child outlives its server until it next writes to the closed pipe; the only
\* request that matters here is the one it was about to make.
OrphanPosts(j) ==
    /\ j \in orphans /\ run[j].state = "none"
    /\ Submitted(j)
    /\ UNCHANGED <<serverVars, workspace, orphans, boundVars>>

RunEnds(k) ==
    /\ k \in Active
    /\ \E s \in Terminal : run' = [run EXCEPT ![k].state = s]
    /\ UNCHANGED <<serverVars, workspace, orphans, boundVars>>

\* The server exits, whatever the reason, and is started again.
Exit ==
    /\ Event
    /\ job' = [j \in Jobs |-> None] /\ snapshot' = job' /\ child' = job'
    /\ worker' = [j \in Jobs |-> "idle"] /\ cancel' = {}
    /\ orphans' = orphans \cup {j \in Jobs : child[j] # None /\ child[j].stage = "checked"}
    /\ UNCHANGED <<disk, parent, run, workspace, checkout>>

Edit(p) ==
    /\ Event
    /\ checkout' = [checkout EXCEPT ![p] = @ + 1]
    /\ UNCHANGED <<serverVars, fabricVars>>

-----------------------------------------------------------------------------
Worker(j) ==
    \/ Proceed(j) \/ Launch(j) \/ Register(j) \/ ReadUrl(j) \/ ReadOutcome(j)
    \/ Collect(j) \/ TakeSnapshot(j) \/ WriteSnapshot(j)
Child(j) == ChildChecks(j) \/ ChildPosts(j) \/ ChildSucceeds(j)

Next ==
    \/ \E j \in Jobs :
          \/ Start(j) \/ Cancel(j) \/ \E n \in Jobs : Resume(j, n)
          \/ Worker(j) \/ Child(j) \/ ChildFails(j)
          \/ OrphanPosts(j) \/ RunEnds(j)
    \/ Exit
    \/ \E p \in Parts : Edit(p)

Spec == Init /\ [][Next]_vars

\* Threads go on, and a child that does not end is ended by its timer.
FairSpec == Spec /\ \A j \in Jobs : WF_vars(Worker(j)) /\ WF_vars(ChildFails(j))

-----------------------------------------------------------------------------
(* Correctness.                                                            *)

\* Every variable keeps its type.
TypeOK ==
    /\ job \in [Jobs -> Records \cup {None}]
    /\ disk \in [Jobs -> Records \cup {None}]
    /\ snapshot \in [Jobs -> Records \cup {None}]
    /\ worker \in [Jobs -> {"idle", "next", "launch", "launched", "monitor", "ending", "final"}]
    /\ child \in [Jobs -> Children \cup {None}]
    /\ cancel \subseteq Jobs /\ orphans \subseteq Jobs
    /\ run \in [Jobs -> PipelineRuns]
    /\ workspace \in Sources /\ checkout \in Sources
    /\ parent \in [Jobs -> Jobs \cup {None}]
    /\ events \in Nat

\* Full Deploy is exclusive: there is one command under way, and it belongs to
\* the running job, also when a job fails because it cannot be saved.
OneCommand ==
    \A j, k \in Jobs : child[j] # None => Running(j) /\ (Running(k) => j = k)

\* A cancellation is honoured whenever it arrives: the command that had been
\* started but was not yet registered is terminated too.
CancelledCommandsEnd == \A j \in cancel : worker[j] = "monitor" => ~Alive(j)

\* No second setup run is submitted while one is active, through cancellations,
\* interrupted monitors, unverified submissions and restarts; except by a child
\* that outlived its server between its check and its submission.
OneActiveRun == \A j, k \in Active : j = k \/ {j, k} \cap orphans # {}

\* The last step starts only after a setup run that Completed on definitions at
\* least as new as those the job was started with, however the job was resumed;
\* and no setup step starts on a workspace that lacks a pending notebook.
DependenciesAreVerified ==
    \A j \in Jobs : child[j] # None =>
        /\ child[j].step >= Setup /\ child[j].stage \in {"live", "checked"} =>
              \A p \in Parts : workspace[p] >= job[j].source[p]
        /\ child[j].step = Combined =>
              \E k \in Jobs : run[k].state = "Completed" /\ run[k].core >= job[j].source["core"]

\* A run whose URL the resumed job had saved is not submitted over again unless
\* it is known to have failed: its monitor is resumed instead.
AcceptedRunsAreWatched ==
    [][\A j \in Jobs : run[j].state = "none" /\ run'[j].state = "active" /\ parent[j] # None =>
          LET old == disk[parent[j]]
          IN  old.url # None /\ old.completed < Setup => old.state \in {"Failed", "Cancelled"}]_vars

\* A checkpoint is resumed once (test_failed_checkpoint_survives_restart_...).
ResumedOnce ==
    \A m, n \in Jobs : parent[m] # None /\ parent[m] = parent[n] => m = n

\* A job does not stay running: whatever its command and its saves do, its
\* worker ends it, or the server exits.
JobsEnd == \A j \in Jobs : Running(j) ~> ~Running(j)

-----------------------------------------------------------------------------
(* The strengthening that makes the state properties inductive.            *)

\* What a record claims of Fabric: what it does not list as pending is in the
\* workspace, setup counts as completed on a Completed run of its definitions,
\* and an accepted run was submitted with them.
Claims(r) ==
    /\ \A p \in Parts : r.source[p] <= checkout[p]
    /\ r.completed >= Sync => \A p \in Parts \ r.pending : workspace[p] >= r.source[p]
    /\ r.completed >= Setup =>
          \E k \in Jobs : run[k].state = "Completed" /\ run[k].core >= r.source["core"]
    /\ r.url # None => run[r.url].state # "none" /\ run[r.url].core >= r.source["core"]
    /\ r.state = "Completed" => r.url # None /\ run[r.url].state = "Completed"

\* The worker and its child follow the record of the running job.
WorkerInv(j) ==
    /\ Running(j) <=> worker[j] \in {"next", "launch", "launched", "monitor"}
    /\ worker[j] # "idle" => job[j] # None
    /\ child[j] # None <=> worker[j] \in {"launched", "monitor"}
    /\ snapshot[j] # None <=> worker[j] = "final"
    /\ job[j] # None => disk[j] # None
    /\ worker[j] \in {"launch", "launched", "monitor"} => job[j].completed < Combined
    /\ j \in orphans => disk[j] # None /\ ~Running(j)
ChildInv(j) ==
    child[j] # None =>
        LET c == child[j]  r == job[j] IN
        /\ c.step = (IF r.pending # {} THEN Notebooks ELSE r.completed + 1)
        /\ c.stage \in {"checked", "posted", "watching", "reported"} => c.step = Setup
        /\ c.stage = "checked" => Active \subseteq orphans
        /\ c.stage \in {"posted", "watching", "reported"} =>
              c.run # None /\ run[c.run].state # "none" /\ run[c.run].core >= r.source["core"]
        /\ c.stage \in {"watching", "reported"} => r.url = c.run
        /\ c.stage = "ok" /\ c.step = Sync => \A p \in Parts : workspace[p] >= r.source[p]
        /\ c.stage = "ok" /\ c.step = Notebooks =>
              \A p \in r.pending : workspace[p] >= r.source[p]
        /\ c.stage = "ok" /\ c.step = Setup => r.state = "Completed"
\* A job submits at most once.
SubmissionInv(j) ==
    \/ disk[j] = None
    \/ /\ Running(j) /\ job[j].completed < Setup
       /\ child[j] = None \/ child[j].step # Setup \/ child[j].stage \in {"live", "checked"}
    => run[j].state = "none"

IInv ==
    /\ TypeOK /\ OneActiveRun /\ CancelledCommandsEnd
    /\ \A p \in Parts : workspace[p] <= checkout[p]
    /\ \A j, k \in Jobs : Running(j) /\ Running(k) => j = k
    /\ \A j \in Jobs :
          /\ WorkerInv(j) /\ ChildInv(j) /\ SubmissionInv(j)
          /\ \A r \in {job[j], disk[j], snapshot[j]} \ {None} : Claims(r)

\* The strengthening for AcceptedRunsAreWatched.  Two records agree on the run
\* that was accepted; a record has one only when all that precedes setup is
\* done; what a resumed job left on disk does not change any more, not by a
\* late WriteSnapshot either; and the job that resumes it has no way to submit.
SameRun(r, q) == r.url = q.url /\ r.state = q.state /\ r.completed = q.completed
Accepted(r) ==
    r.url # None => r.completed >= Sync /\ (r.completed < Setup => r.pending = {})
Left(p) ==
    /\ disk[p] # None /\ ~Running(p)
    /\ job[p] # None => SameRun(job[p], disk[p])
Bound(j) ==
    Running(j) =>
        \/ job[j].completed >= Setup
        \/ IF child[j] = None THEN MonitorPending(job[j])
           ELSE child[j].step = Setup /\ child[j].stage \notin {"live", "checked"}
Watches(j) == MonitorPending(disk[parent[j]]) => j \notin orphans /\ Bound(j)

WatchInv ==
    \A j \in Jobs :
        /\ \A r \in {job[j], disk[j], snapshot[j]} \ {None} : Accepted(r)
        /\ snapshot[j] # None => SameRun(snapshot[j], job[j])
        /\ parent[j] # None => disk[j] # None /\ Left(parent[j]) /\ Watches(j)

\* The late save of a job that has been resumed may undo that it was (see
\* ResumedOnce), but nothing that its checkpoint says of the deployment.
ResumedCheckpointsRest ==
    [][\A j \in Jobs : parent[j] # None => SameRun(disk'[parent[j]], disk[parent[j]])]_vars

=============================================================================
