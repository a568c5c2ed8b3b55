--------------------------- MODULE DurableReview ---------------------------
(***************************************************************************)
(* The durable maintenance review of HydroOperationsService: the SQLite    *)
(* run store (store.py), the checkpointed four-step workflow               *)
(* (workflow.py) and the LocalRunner with its HTTP handlers (service.py).  *)
(*                                                                         *)
(* What survives a process exit is `row' and `work' (the SQLite tables)    *)
(* and `ckpt' and `corrupt' (the checkpoint directory).  `task' and        *)
(* `callback' are the event loop's memory and are lost with the process.   *)
(* Every store method is one BEGIN IMMEDIATE transaction, so each is one   *)
(* step; a crash may separate any two of them.                             *)
(***************************************************************************)
EXTENDS Naturals, FiniteSets

CONSTANTS
    Runs,        \* idempotency keys, which are the run ids
    Bodies,      \* what an operator may ask for (equipment, title, priority)
    Sources,     \* source identities a deployment may be configured with
    Drafts,      \* wordings of a proposal
    None,        \* SQL NULL / Python None
    Uncovered,   \* evidence without a completed work-order read
    Window,      \* 15 minutes: longest life of a proposal after that read
    Capacity,    \* asyncio.Semaphore(4): workflows that execute at once
    MaxTime, MaxCrashes, MaxFaults   \* bounds of the checked instances

MaxRetries == 2
Time == Nat

Requests == [body : Bodies, source : Sources]
Proposals == [request : Requests, draft : Drafts, coverage : Time, expires : Time]
Digest(p) == [sha256 |-> p]      \* injective: equal digests, equal proposals
Digests == [sha256 : Proposals]
Approvals == [approved : BOOLEAN, digest : Digests]
Verdicts == [proposal : Proposals, approved : BOOLEAN]
Reviews == {"no_draft", "needs_clarification"}
Outcomes == Reviews \cup {"rejected", "validation_work_recorded"}

ASSUME ConstantsAssumption ==
    /\ Window \in Nat \ {0}
    /\ Capacity \in Nat \ {0}
    /\ MaxTime \in Nat /\ MaxCrashes \in Nat /\ MaxFaults \in Nat
    /\ Uncovered \notin Nat
    /\ None \notin Requests \cup Proposals \cup Approvals \cup Verdicts \cup Outcomes

Statuses == {"absent", "queued", "running", "waiting", "completed", "failed"}
Stages == {"none", "submitted", "evidence", "assessment", "proposal", "pending", "done"}

Rows == [request : Requests \cup {None}, status : Statuses,
         proposal : Proposals \cup {None}, approval : Approvals \cup {None},
         outcome : Outcomes \cup {None}, retries : 0..MaxRetries]

Checkpoints == [stage : Stages, coverage : Time \cup {Uncovered},
                proposal : Proposals \cup {None}]

Tasks == [pc : {"idle", "scheduled", "opened", "recovered", "stepping"},
          graph : Checkpoints, saved : BOOLEAN, healthy : BOOLEAN,
          response : Approvals \cup {None}, output : Outcomes \cup {None}]

VARIABLES
    row,         \* table runs
    work,        \* table validation_work: the proposal each record is for
    ckpt,        \* newest checkpoint file of each run
    corrupt,     \* some checkpoint file of the run cannot be decoded
    task,        \* LocalRunner.tasks and the coroutine each one runs
    callback,    \* done-callback pending for a task that raised uncaught
    up,          \* a process holds worker.lock and serves requests
    deployment,  \* the source identity it is configured with
    now, crashes, faults

storeVars == <<row, work>>
fileVars == <<ckpt, corrupt>>
loopVars == <<task, callback>>
processVars == <<up, deployment>>
boundVars == <<now, crashes, faults>>
vars == <<storeVars, fileVars, loopVars, processVars, boundVars>>

NoRow == [request |-> None, status |-> "absent", proposal |-> None,
          approval |-> None, outcome |-> None, retries |-> 0]
NoCheckpoint == [stage |-> "none", coverage |-> Uncovered, proposal |-> None]
Idle == [pc |-> "idle", graph |-> NoCheckpoint, saved |-> TRUE, healthy |-> TRUE,
         response |-> None, output |-> None]
Scheduled == [Idle EXCEPT !.pc = "scheduled"]

-----------------------------------------------------------------------------
(* The store's transactions, as guards and as functions on a row.          *)

Start(w) == [w EXCEPT !.status = "running"]

CanWait(w, p) ==
    /\ w.request = p.request
    /\ \/ w.status = "waiting" /\ w.proposal = p
       \/ w.status = "running" /\ w.outcome = None
Wait(w, p) == [w EXCEPT !.status = "waiting", !.proposal = p]

CanApprove(w, a) ==
    /\ w.approval = None
    /\ w.status = "waiting"
    /\ w.proposal # None
    /\ a.digest = Digest(w.proposal)
    /\ a.approved => now < w.proposal.expires
Approve(w, a) == [w EXCEPT !.status = "queued", !.approval = a]

CanFinish(w, o) ==
    /\ w.outcome # None
    /\ w.outcome = o
    /\ w.status \in {"running", "completed"}
Finish(w) == [w EXCEPT !.status = "completed"]

\* A completed run rejects a late failure (Conflict, logged as an event).
Fail(w) == IF w.status = "completed" THEN w ELSE [w EXCEPT !.status = "failed"]

CanRetry(w) == w.status = "failed" /\ w.retries < MaxRetries
RetryAfresh(w) ==   \* mutant: the decision is asked for again
    [w EXCEPT !.status = "queued", !.retries = w.retries + 1, !.approval = None]
Retry(w) == [w EXCEPT !.status = "queued", !.retries = w.retries + 1]

\* record_review and record_decision answer a repeated call with the outcome
\* already stored; a step never repeats the call, because a run that has an
\* outcome never enters the workflow (TaskInv).
CanReview(w) == w.status = "running" /\ w.proposal = None /\ w.approval = None

MatchesDecision(w, p, a) ==
    a.digest = Digest(p) /\ w.proposal = p /\ w.approval = a
CanDecideLate(w, p, a) ==   \* mutant: expiry is checked at approval only
    MatchesDecision(w, p, a) /\ w.outcome = None /\ w.status = "running"
CanDecide(w, p, a) ==
    /\ MatchesDecision(w, p, a)
    /\ w.outcome = None
    /\ w.status = "running"
    /\ a.approved => now < p.expires
Record(w, o) == [w EXCEPT !.outcome = o]
DecidedBlindly(a) == "validation_work_recorded"   \* mutant: verdict ignored
Decided(a) == IF a.approved THEN "validation_work_recorded" ELSE "rejected"

-----------------------------------------------------------------------------
Init ==
    /\ row = [r \in Runs |-> NoRow]
    /\ work = [r \in Runs |-> None]
    /\ ckpt = [r \in Runs |-> NoCheckpoint]
    /\ corrupt = [r \in Runs |-> FALSE]
    /\ task = [r \in Runs |-> Idle]
    /\ callback = [r \in Runs |-> FALSE]
    /\ up = TRUE
    /\ deployment \in Sources
    /\ now = 0 /\ crashes = 0 /\ faults = 0

(* What the event loop does to a task.                                     *)

\* LocalRunner.schedule: a live task is kept, a finished one is replaced.
Schedule(t) == IF t.pc = "idle" THEN Scheduled ELSE t
MoveTo(t, pc) == [t EXCEPT !.pc = pc]
Saved(t) == [t EXCEPT !.saved = TRUE]
UnhealthyIgnored(t) == [t EXCEPT !.saved = TRUE]   \* mutant: the SDK's default
Unhealthy(t) == [t EXCEPT !.saved = TRUE, !.healthy = FALSE]
Reach(g, stage) == [g EXCEPT !.stage = stage]
Advance(t, g) == [t EXCEPT !.graph = g, !.saved = FALSE]
Yield(t, o) == [t EXCEPT !.graph = Reach(t.graph, "done"), !.saved = FALSE, !.output = o]
OpenAfresh(w, file) ==   \* mutant: no checkpoint_id passed to workflow.run
    [Scheduled EXCEPT !.pc = "stepping", !.saved = FALSE,
                      !.graph = Reach(NoCheckpoint, "submitted")]
Open(w, file) ==
    LET fresh == file.stage = "none"
    IN  [pc |-> "stepping", saved |-> ~fresh, healthy |-> TRUE,
         graph |-> IF fresh THEN Reach(NoCheckpoint, "submitted") ELSE file,
         response |-> IF file.stage = "pending" THEN w.approval ELSE None,
         output |-> None]

-----------------------------------------------------------------------------
(* HTTP handlers.  Rejections (404, 409, 422) change nothing.              *)

Submit(r, body) ==
    LET request == [body |-> body, source |-> deployment]
        created == IF row[r] = NoRow
                   THEN [NoRow EXCEPT !.request = request, !.status = "queued"]
                   ELSE row[r]
    IN  /\ up
        /\ created.request = request
        /\ row' = [row EXCEPT ![r] = created]
        /\ task' = [task EXCEPT ![r] = IF created.status = "queued"
                                       THEN Schedule(task[r]) ELSE task[r]]
        /\ UNCHANGED <<work, fileVars, callback, processVars, boundVars>>

\* get_run: unknown runs and runs of another source configuration are refused.
Visible(r) == up /\ row[r] # NoRow /\ row[r].request.source = deployment

RecordApproval(r, approved) ==
    /\ Visible(r)
    /\ row[r].proposal # None
    /\ LET a == [approved |-> approved, digest |-> Digest(row[r].proposal)]
           decided == IF row[r].approval = None THEN Approve(row[r], a) ELSE row[r]
       IN  /\ row[r].approval = a \/ CanApprove(row[r], a)
           /\ row' = [row EXCEPT ![r] = decided]
           /\ task' = [task EXCEPT ![r] = IF decided.status = "queued"
                                          THEN Schedule(task[r]) ELSE task[r]]
    /\ UNCHANGED <<work, fileVars, callback, processVars, boundVars>>

RetryRun(r) ==
    /\ Visible(r)
    /\ CanRetry(row[r])
    /\ row' = [row EXCEPT ![r] = Retry(row[r])]
    /\ task' = [task EXCEPT ![r] = Schedule(task[r])]
    /\ UNCHANGED <<work, fileVars, callback, processVars, boundVars>>

-----------------------------------------------------------------------------
(* LocalRunner.execute.  The coroutine returns in the same event-loop step *)
(* as its last store call, so ending the task is part of that step.        *)

Executing(r) == up /\ task[r].pc \notin {"idle", "scheduled"}
Stepping(r) == up /\ task[r].pc = "stepping"
End(r) == task' = [task EXCEPT ![r] = Idle]
At(r, stage) == Stepping(r) /\ task[r].saved /\ task[r].healthy
                /\ task[r].graph.stage = stage

\* An exception execute catches: record_failure, then the task ends.
Failed(r) ==
    /\ row' = [row EXCEPT ![r] = Fail(row[r])]
    /\ End(r)
    /\ UNCHANGED <<work, fileVars, callback>>

Fault == faults < MaxFaults /\ faults' = faults + 1

Begin(r) ==
    /\ up
    /\ task[r].pc = "scheduled"
    /\ Cardinality({q \in Runs : Executing(q)}) < Capacity
    /\ \/ /\ row[r].request.source # deployment
          /\ Failed(r)
       \/ /\ row[r].request.source = deployment
          /\ row[r].status \notin {"queued", "running"}
          /\ End(r)
          /\ UNCHANGED <<storeVars, fileVars, callback>>
       \/ /\ row[r].request.source = deployment
          /\ row[r].status \in {"queued", "running"}
          /\ row' = [row EXCEPT ![r] = Start(row[r])]
          /\ task' = [task EXCEPT ![r] = MoveTo(task[r], "opened")]
          /\ UNCHANGED <<work, fileVars, callback>>
    /\ UNCHANGED <<processVars, boundVars>>

\* A committed outcome is finished without entering the workflow.
RecoverOutcome(r) ==
    /\ up
    /\ task[r].pc = "opened"
    /\ row[r].outcome # None
    /\ CanFinish(row[r], row[r].outcome)
    /\ row' = [row EXCEPT ![r] = Finish(row[r])]
    /\ task' = [task EXCEPT ![r] = MoveTo(task[r], "recovered")]
    /\ UNCHANGED <<work, fileVars, callback, processVars, boundVars>>

\* Store.event("committed_outcome_recovered"); appending it may itself fail,
\* and record_failure then meets a run that is already completed.
JournalRecovery(r) ==
    /\ up
    /\ task[r].pc = "recovered"
    /\ \/ /\ End(r)
          /\ UNCHANGED <<storeVars, fileVars, callback, faults>>
       \/ Failed(r) /\ Fault
    /\ UNCHANGED <<processVars, now, crashes>>

\* get_latest decodes every checkpoint file before choosing the newest one.
LoadCheckpoint(r) ==
    /\ up
    /\ task[r].pc = "opened"
    /\ row[r].outcome = None
    /\ \/ /\ corrupt[r] \/ (row[r].approval # None /\ ckpt[r].stage = "none")
          /\ Failed(r)
       \/ /\ ~corrupt[r]
          /\ ~(row[r].approval # None /\ ckpt[r].stage = "none")
          /\ task' = [task EXCEPT ![r] = Open(row[r], ckpt[r])]
          /\ UNCHANGED <<storeVars, fileVars, callback>>
    /\ UNCHANGED <<processVars, boundVars>>

\* The SDK checkpoints the submitted message and then after every superstep.
SaveCheckpoint(r) ==
    /\ Stepping(r)
    /\ ~task[r].saved
    /\ ckpt' = [ckpt EXCEPT ![r] = task[r].graph]
    /\ task' = [task EXCEPT ![r] = Saved(task[r])]
    /\ UNCHANGED <<storeVars, corrupt, callback, processVars, boundVars>>

\* RequiredCheckpointStorage.save keeps the failure the SDK only logs.
SaveCheckpointFails(r) ==
    /\ Stepping(r)
    /\ ~task[r].saved
    /\ task' = [task EXCEPT ![r] = Unhealthy(task[r])]
    /\ Fault
    /\ UNCHANGED <<storeVars, fileVars, callback, processVars, now, crashes>>

\* require_healthy: at every handler, every event and before completion.
RequireHealthy(r) ==
    /\ Stepping(r)
    /\ task[r].saved
    /\ ~task[r].healthy
    /\ Failed(r)
    /\ UNCHANGED <<processVars, boundVars>>

Continue(r, g) == task' = [task EXCEPT ![r] = Advance(task[r], g)]

ReadEvidence(r) ==
    /\ At(r, "submitted")
    /\ \E clock \in {now, Uncovered} :
          Continue(r, [stage |-> "evidence", coverage |-> clock, proposal |-> None])
    /\ UNCHANGED <<storeVars, fileVars, callback, processVars, boundVars>>

Investigate(r) ==
    /\ At(r, "evidence")
    /\ Continue(r, Reach(task[r].graph, "assessment"))
    /\ UNCHANGED <<storeVars, fileVars, callback, processVars, boundVars>>

\* The adapter answers with a WorkReview: no approval, no work.
PrepareReview(r) ==
    /\ At(r, "assessment")
    /\ \E review \in Reviews :
          /\ review = "no_draft" => task[r].graph.coverage # Uncovered
          /\ IF CanReview(row[r]) /\ row[r].outcome = None
             THEN /\ row' = [row EXCEPT ![r] = Record(row[r], review)]
                  /\ task' = [task EXCEPT ![r] = Yield(task[r], review)]
                  /\ UNCHANGED <<work, fileVars, callback>>
             ELSE Failed(r)
    /\ UNCHANGED <<processVars, boundVars>>

\* The adapter answers with a Proposal, whose contract caps its expiry at
\* Window after the work-order read; one already expired fails the step.
PrepareProposal(r) ==
    /\ At(r, "assessment")
    /\ task[r].graph.coverage # Uncovered
    /\ \E draft \in Drafts, life \in 1..Window :
          LET p == [request |-> row[r].request, draft |-> draft,
                    coverage |-> task[r].graph.coverage,
                    expires |-> task[r].graph.coverage + life]
          IN  IF p.expires <= now
              THEN Failed(r)
              ELSE /\ Continue(r, [stage |-> "proposal", proposal |-> p,
                                    coverage |-> task[r].graph.coverage])
                   /\ UNCHANGED <<storeVars, fileVars, callback>>
    /\ UNCHANGED <<processVars, boundVars>>

RequestApproval(r) ==
    /\ At(r, "proposal")
    /\ Continue(r, Reach(task[r].graph, "pending"))
    /\ UNCHANGED <<storeVars, fileVars, callback, processVars, boundVars>>

\* The graph is idle on the approval request: Store.wait.
AwaitApproval(r) ==
    /\ At(r, "pending")
    /\ task[r].response = None
    /\ LET p == task[r].graph.proposal
       IN  IF CanWait(row[r], p)
           THEN /\ row' = [row EXCEPT ![r] = Wait(row[r], p)]
                /\ End(r)
                /\ UNCHANGED <<work, fileVars, callback>>
           ELSE Failed(r)
    /\ UNCHANGED <<processVars, boundVars>>

\* HumanApproval.decide: the work record and the outcome commit together.
Decide(r) ==
    /\ At(r, "pending")
    /\ task[r].response # None
    /\ LET p == task[r].graph.proposal
           a == task[r].response
       IN  IF CanDecide(row[r], p, a)
           THEN /\ row' = [row EXCEPT ![r] = Record(row[r], Decided(a))]
                /\ work' = IF a.approved THEN [work EXCEPT ![r] = p] ELSE work
                /\ task' = [task EXCEPT ![r] = Yield(task[r], Decided(a))]
                /\ UNCHANGED <<fileVars, callback>>
           ELSE Failed(r)
    /\ UNCHANGED <<processVars, boundVars>>

Complete(r) ==
    /\ At(r, "done")
    /\ IF CanFinish(row[r], task[r].output)
       THEN /\ row' = [row EXCEPT ![r] = Finish(row[r])]
            /\ End(r)
            /\ UNCHANGED <<work, fileVars, callback>>
       ELSE Failed(r)
    /\ UNCHANGED <<processVars, boundVars>>

\* A step, an event append or a store call raises one of the caught types
\* (step timeout, provider or SQLite error).
StepFails(r) ==
    /\ Executing(r)
    /\ task[r].pc # "recovered"
    /\ Failed(r)
    /\ Fault
    /\ UNCHANGED <<processVars, now, crashes>>

\* Any other exception ends the task; record_failure waits for its callback.
StepRaises(r) ==
    /\ Stepping(r)
    /\ End(r)
    /\ callback' = [callback EXCEPT ![r] = TRUE]
    /\ Fault
    /\ UNCHANGED <<storeVars, fileVars, processVars, now, crashes>>

Finished(r) ==
    /\ up
    /\ callback[r]
    /\ row' = [row EXCEPT ![r] = Fail(row[r])]
    /\ callback' = [callback EXCEPT ![r] = FALSE]
    /\ UNCHANGED <<work, fileVars, task, processVars, boundVars>>

-----------------------------------------------------------------------------
(* The process, the disk and the clock.                                    *)

\* Exit of the process; LocalRunner.close (cancellation) leaves the same state.
Crash ==
    /\ up
    /\ crashes < MaxCrashes
    /\ up' = FALSE
    /\ crashes' = crashes + 1
    /\ task' = [r \in Runs |-> Idle]
    /\ callback' = [r \in Runs |-> FALSE]
    /\ UNCHANGED <<storeVars, fileVars, deployment, now, faults>>

RecoverableQueued(w) == w.status = "queued"   \* mutant: interrupted runs forgotten
Recoverable(w) == w.status \in {"queued", "running"}

\* lifespan: the new process schedules Store.recoverable().
Restart(source) ==
    /\ ~up
    /\ up' = TRUE
    /\ deployment' = source
    /\ task' = [r \in Runs |-> IF Recoverable(row[r]) THEN Scheduled ELSE Idle]
    /\ UNCHANGED <<storeVars, fileVars, callback, boundVars>>

CorruptFile(r) ==
    /\ ckpt[r].stage # "none"
    /\ ~corrupt[r]
    /\ corrupt' = [corrupt EXCEPT ![r] = TRUE]
    /\ Fault
    /\ UNCHANGED <<storeVars, ckpt, loopVars, processVars, now, crashes>>

Tick ==
    /\ now < MaxTime
    /\ now' = now + 1
    /\ UNCHANGED <<storeVars, fileVars, loopVars, processVars, crashes, faults>>

-----------------------------------------------------------------------------
Api(r) ==
    \/ \E body \in Bodies : Submit(r, body)
    \/ \E approved \in BOOLEAN : RecordApproval(r, approved)
    \/ RetryRun(r)

Workflow(r) ==
    \/ ReadEvidence(r) \/ Investigate(r)
    \/ PrepareReview(r) \/ PrepareProposal(r)
    \/ RequestApproval(r) \/ AwaitApproval(r)
    \/ Decide(r) \/ Complete(r)

Runner(r) ==
    \/ Begin(r) \/ RecoverOutcome(r) \/ JournalRecovery(r)
    \/ LoadCheckpoint(r) \/ SaveCheckpoint(r) \/ RequireHealthy(r)
    \/ Workflow(r) \/ Finished(r)

Faulty(r) ==
    SaveCheckpointFails(r) \/ StepFails(r) \/ StepRaises(r) \/ CorruptFile(r)

Next ==
    \/ \E r \in Runs : Api(r) \/ Runner(r) \/ Faulty(r)
    \/ Crash
    \/ \E source \in Sources : Restart(source)
    \/ Tick

Spec == Init /\ [][Next]_vars

\* The event loop runs every ready task, each awaited step is bounded by
\* step_timeout, and an operator restarts a stopped process.
Fairness ==
    /\ \A r \in Runs : WF_vars(Runner(r))
    /\ WF_vars(\E source \in Sources : Restart(source))

FairSpec == Spec /\ Fairness

-----------------------------------------------------------------------------
(* Correctness.                                                            *)

\* Every variable keeps its type; None and Uncovered stand apart from data.
TypeOK ==
    /\ row \in [Runs -> Rows]
    /\ work \in [Runs -> Proposals \cup {None}]
    /\ ckpt \in [Runs -> Checkpoints]
    /\ corrupt \in [Runs -> BOOLEAN]
    /\ task \in [Runs -> Tasks]
    /\ callback \in [Runs -> BOOLEAN]
    /\ up \in BOOLEAN
    /\ deployment \in Sources
    /\ now \in Nat /\ crashes \in Nat /\ faults \in Nat

\* A validation record exists only for the proposal an operator approved, and
\* the outcome column tells the same story as the validation_work table: the
\* effect and its receipt cannot be seen apart (record_decision, record_review).
Receipts(r) ==
    /\ work[r] # None =>
          /\ row[r].proposal = work[r]
          /\ row[r].approval = [approved |-> TRUE, digest |-> Digest(work[r])]
    /\ (work[r] # None) <=> (row[r].outcome = "validation_work_recorded")
    /\ row[r].outcome = "rejected" =>
          row[r].approval # None /\ ~row[r].approval.approved
    /\ row[r].outcome \in Reviews => row[r].proposal = None /\ row[r].approval = None
    /\ row[r].status = "completed" => row[r].outcome # None
ReceiptsAgree == \A r \in Runs : Receipts(r)

\* Across the two stores (SQLite and the checkpoint directory), a run that
\* waits for a person, or whose decision is not yet carried out, always has
\* as newest checkpoint the approval request for exactly the stored proposal.
Resumable(r) ==
    (row[r].proposal # None /\ row[r].outcome = None) =>
        ckpt[r].stage = "pending" /\ ckpt[r].proposal = row[r].proposal
DecisionIsResumable == \A r \in Runs : Resumable(r)

\* Work is written only by a process configured with the source the evidence
\* was read from, and within Window of the work-order read, however many
\* crashes, retries and restarts lie between that read and the write.
CoveredWrite(r) == work'[r] # work[r] =>
    /\ up /\ deployment = row[r].request.source
    /\ work[r] = None
    /\ ckpt[r].coverage \in Nat /\ now < ckpt[r].coverage + Window
WritesAreCovered == [][\A r \in Runs : CoveredWrite(r)]_vars

\* Recorded facts are final: nobody rebinds an idempotency key, changes a
\* stored decision or the proposal it judged, replaces an outcome, or reopens a
\* completed run (retries, late failures and late done-callbacks included).
FinalRecord(r) ==
    /\ row[r] # NoRow => row'[r].request = row[r].request
    /\ row[r].approval # None =>
          row'[r].approval = row[r].approval /\ row'[r].proposal = row[r].proposal
    /\ row[r].outcome # None => row'[r].outcome = row[r].outcome
    /\ row[r].status = "completed" => row'[r].status = "completed"
RecordsAreFinal == [][\A r \in Runs : FinalRecord(r)]_vars

Rank == [none |-> 0, submitted |-> 1, evidence |-> 2, assessment |-> 3,
         proposal |-> 4, pending |-> 5, done |-> 6]

\* What an older graph state has fixed, a newer one keeps.
Extends(newer, older) ==
    /\ Rank[older.stage] <= Rank[newer.stage]
    /\ older.stage \notin {"none", "submitted"} => newer.coverage = older.coverage
    /\ older.proposal # None => newer.proposal = older.proposal

\* Recovery never repeats a checkpointed step: the newest checkpoint only
\* advances, and evidence once checkpointed is the evidence of every later one.
StepsAreNotRepeated == [][\A r \in Runs : Extends(ckpt'[r], ckpt[r])]_vars

\* Work accepted by POST /runs, an approval or a retry does not depend on the
\* connection or the process that accepted it: it reaches a resting status.
Settles == \A r \in Runs :
    row[r].status \in {"queued", "running"}
        ~> row[r].status \in {"waiting", "completed", "failed"}

\* The durable review implements its promise.
Verdict(w) == IF w.approval = None THEN None
              ELSE [proposal |-> w.proposal, approved |-> w.approval.approved]

Promise == INSTANCE ReviewLifecycle WITH
    verdict <- [r \in Runs |-> Verdict(row[r])],
    effect <- work,
    result <- [r \in Runs |-> row[r].outcome],
    closed <- [r \in Runs |-> row[r].status = "completed"]

\* Whatever the execution goes through, an observer of the database sees one
\* verdict, one result, at most one effect, and closing last.
KeepsPromise == Promise!Spec

-----------------------------------------------------------------------------
(* The strengthening that makes the three state properties inductive.      *)

\* A graph state carries a proposal exactly from PrepareProposal on, and that
\* proposal never outlives Window after the coverage read it rests on.
WellFormed(g) ==
    /\ g.stage \in {"proposal", "pending"} => g.proposal # None
    /\ g.stage \in {"none", "submitted", "evidence", "assessment"} => g.proposal = None
    /\ g.proposal # None => g.coverage \in Nat /\ g.proposal.expires <= g.coverage + Window

RowInv(r) ==
    /\ row[r].status = "absent" => row[r] = NoRow
    /\ row[r].status # "absent" => row[r].request # None
    /\ row[r].status = "waiting" => row[r].outcome = None /\ row[r].proposal # None
    /\ row[r].approval # None =>
          row[r].proposal # None /\ row[r].approval.digest = Digest(row[r].proposal)

TaskInv(r) ==
    /\ ~up => task[r] = Idle /\ ~callback[r]
    /\ callback[r] => row[r].status = "running" /\ task[r].pc = "idle"
    /\ task[r].pc # "idle" => row[r].status # "absent"
    /\ task[r].pc \in {"opened", "recovered", "stepping"} =>
          row[r].request.source = deployment
    /\ task[r].pc \in {"opened", "stepping"} => row[r].status = "running"
    /\ task[r].pc = "recovered" => row[r].status = "completed"
    /\ task[r].pc = "stepping" =>
          /\ Extends(task[r].graph, ckpt[r])
          /\ task[r].saved /\ task[r].healthy => ckpt[r] = task[r].graph
          /\ task[r].graph.stage # "done" => row[r].outcome = None
          /\ row[r].outcome = None /\ row[r].proposal # None =>
                task[r].saved /\ ckpt[r] = task[r].graph
          /\ row[r].outcome = None /\ row[r].approval # None =>
                task[r].response = row[r].approval

RunInv(r) ==
    /\ Receipts(r) /\ Resumable(r)
    /\ WellFormed(ckpt[r]) /\ WellFormed(task[r].graph)
    /\ RowInv(r) /\ TaskInv(r)

IInv == TypeOK /\ \A r \in Runs : RunInv(r)

============================================================================
