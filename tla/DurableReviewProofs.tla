------------------------- MODULE DurableReviewProofs -------------------------
(***************************************************************************)
(* Proofs about DurableReview for every number of runs, every crash, fault *)
(* and retry schedule and every clock.                                     *)
(***************************************************************************)
EXTENDS DurableReview, TLAPS

(* Every store transaction maps a well-typed row to a well-typed row.      *)
LEMMA RowOperators ==
    ASSUME NEW w \in Rows
    PROVE  /\ Start(w) \in Rows /\ Finish(w) \in Rows /\ Fail(w) \in Rows
           /\ CanRetry(w) => Retry(w) \in Rows
           /\ \A p \in Proposals : Wait(w, p) \in Rows
           /\ \A a \in Approvals : Approve(w, a) \in Rows
           /\ \A o \in Outcomes : Record(w, o) \in Rows
<1> USE DEF Rows, Statuses
<1>1. Start(w) \in Rows BY DEF Start
<1>2. Finish(w) \in Rows BY DEF Finish
<1>3. Fail(w) \in Rows BY DEF Fail
<1>4. CanRetry(w) => Retry(w) \in Rows
  <2>1. CanRetry(w) => w.retries + 1 \in 0..MaxRetries BY DEF CanRetry, MaxRetries
  <2> QED BY <2>1 DEF Retry
<1>5. ASSUME NEW p \in Proposals PROVE Wait(w, p) \in Rows BY DEF Wait
<1>6. ASSUME NEW a \in Approvals PROVE Approve(w, a) \in Rows BY DEF Approve
<1>7. ASSUME NEW o \in Outcomes PROVE Record(w, o) \in Rows BY DEF Record
<1> QED BY <1>1, <1>2, <1>3, <1>4, <1>5, <1>6, <1>7

(* The row POST /runs inserts, and the rows of runs nobody submitted.      *)
LEMMA NewRows ==
    /\ NoRow \in Rows
    /\ \A q \in Requests : [NoRow EXCEPT !.request = q, !.status = "queued"] \in Rows
<1>1. NoRow \in Rows BY DEF NoRow, Rows, Statuses, MaxRetries
<1>2. ASSUME NEW q \in Requests
      PROVE  [NoRow EXCEPT !.request = q, !.status = "queued"] \in Rows
  BY <1>1 DEF Rows, Statuses
<1> QED BY <1>1, <1>2

(* Graph states and the operators that move a task through the graph.      *)
LEMMA GraphOperators ==
    /\ NoCheckpoint \in Checkpoints
    /\ \A g \in Checkpoints, s \in Stages : Reach(g, s) \in Checkpoints
BY DEF NoCheckpoint, Reach, Checkpoints, Stages

(* The tasks before they execute.                                          *)
LEMMA IdleTasks == Idle \in Tasks /\ Scheduled \in Tasks
<1>1. Idle \in Tasks BY GraphOperators DEF Idle, Tasks
<1>2. Scheduled \in Tasks BY <1>1 DEF Scheduled, Tasks
<1> QED BY <1>1, <1>2

(* What a task does to itself keeps it a task.                             *)
LEMMA TaskOperators ==
    ASSUME NEW t \in Tasks
    PROVE  /\ Schedule(t) \in Tasks /\ Saved(t) \in Tasks /\ Unhealthy(t) \in Tasks
           /\ MoveTo(t, "opened") \in Tasks /\ MoveTo(t, "recovered") \in Tasks
           /\ t.graph \in Checkpoints
           /\ \A g \in Checkpoints : Advance(t, g) \in Tasks
           /\ \A o \in Outcomes : Yield(t, o) \in Tasks
<1>1. Schedule(t) \in Tasks BY IdleTasks DEF Schedule
<1>2. Saved(t) \in Tasks BY DEF Saved, Tasks
<1>3. Unhealthy(t) \in Tasks BY DEF Unhealthy, Tasks
<1>4. MoveTo(t, "opened") \in Tasks /\ MoveTo(t, "recovered") \in Tasks
  BY DEF MoveTo, Tasks
<1>5. t.graph \in Checkpoints BY DEF Tasks
<1>6. ASSUME NEW g \in Checkpoints PROVE Advance(t, g) \in Tasks
  BY DEF Advance, Tasks
<1>7. ASSUME NEW o \in Outcomes PROVE Yield(t, o) \in Tasks
  <2>1. Reach(t.graph, "done") \in Checkpoints
    BY <1>5, GraphOperators DEF Stages
  <2> QED BY <2>1 DEF Yield, Tasks
<1> QED BY <1>1, <1>2, <1>3, <1>4, <1>5, <1>6, <1>7

(* A task opens on any row and any checkpoint file.                        *)
LEMMA OpenedTask ==
    ASSUME NEW w \in Rows, NEW file \in Checkpoints PROVE Open(w, file) \in Tasks
<1>1. w.approval \in Approvals \cup {None} BY DEF Rows
<1>2. Reach(NoCheckpoint, "submitted") \in Checkpoints
  BY GraphOperators DEF Stages
<1> QED BY <1>1, <1>2 DEF Open, Tasks

(* A failed task leaves a well-typed row behind, whatever it was doing.    *)
LEMMA FailedType ==
    ASSUME TypeOK, NEW r \in Runs, Failed(r)
    PROVE  /\ row' \in [Runs -> Rows] /\ task' \in [Runs -> Tasks]
           /\ UNCHANGED <<work, fileVars, callback>>
BY RowOperators, IdleTasks DEF TypeOK, Failed, End

(* Type correctness: every step of the runner, the handlers, the process,  *)
(* the disk and the clock leaves rows, checkpoints and tasks well typed.   *)
LEMMA TypeStep == IInv /\ [Next]_vars => TypeOK'
<1> SUFFICES ASSUME IInv, [Next]_vars PROVE TypeOK'
  OBVIOUS
<1>0. TypeOK /\ \A r \in Runs : RunInv(r) BY DEF IInv
<1> USE <1>0 DEF TypeOK
<1>1. ASSUME NEW r \in Runs, NEW body \in Bodies, Submit(r, body) PROVE TypeOK'
  BY <1>1, NewRows, TaskOperators
  DEF Submit, Requests, fileVars, processVars, boundVars
<1>2. ASSUME NEW r \in Runs, NEW approved \in BOOLEAN, RecordApproval(r, approved) PROVE TypeOK'
  <2>1. row[r] \in Rows /\ task[r] \in Tasks /\ row[r].proposal \in Proposals \cup {None}
    BY DEF Rows
  <2>2. [approved |-> approved, digest |-> Digest(row[r].proposal)] \in Approvals
    BY <1>2, <2>1 DEF RecordApproval, Approvals, Digests, Digest
  <2> QED
    BY <1>2, <2>1, <2>2, RowOperators, TaskOperators
    DEF RecordApproval, fileVars, processVars, boundVars
<1>3. ASSUME NEW r \in Runs, RetryRun(r) PROVE TypeOK'
  BY <1>3, RowOperators, TaskOperators
  DEF RetryRun, fileVars, processVars, boundVars
<1>4. ASSUME NEW r \in Runs, Begin(r) PROVE TypeOK'
  BY <1>4, FailedType, RowOperators, TaskOperators, IdleTasks
  DEF Begin, End, storeVars, fileVars, processVars, boundVars
<1>5. ASSUME NEW r \in Runs, RecoverOutcome(r) PROVE TypeOK'
  BY <1>5, RowOperators, TaskOperators
  DEF RecoverOutcome, fileVars, processVars, boundVars
<1>6. ASSUME NEW r \in Runs, JournalRecovery(r) PROVE TypeOK'
  BY <1>6, FailedType, IdleTasks
  DEF JournalRecovery, End, Fault, storeVars, fileVars, processVars
<1>7. ASSUME NEW r \in Runs, LoadCheckpoint(r) PROVE TypeOK'
  BY <1>7, FailedType, OpenedTask
  DEF LoadCheckpoint, storeVars, fileVars, processVars, boundVars
<1>8. ASSUME NEW r \in Runs, SaveCheckpoint(r) PROVE TypeOK'
  BY <1>8, TaskOperators
  DEF SaveCheckpoint, storeVars, processVars, boundVars
<1>9. ASSUME NEW r \in Runs, RequireHealthy(r) PROVE TypeOK'
  BY <1>9, FailedType
  DEF RequireHealthy, fileVars, processVars, boundVars
<1>10. ASSUME NEW r \in Runs, ReadEvidence(r) PROVE TypeOK'
  <2>1. PICK clock \in {now, Uncovered} :
            Continue(r, [stage |-> "evidence", coverage |-> clock, proposal |-> None])
    BY <1>10 DEF ReadEvidence
  <2>2. [stage |-> "evidence", coverage |-> clock, proposal |-> None] \in Checkpoints
    BY DEF Checkpoints, Stages, Time
  <2> QED
    BY <1>10, <2>1, <2>2, TaskOperators
    DEF ReadEvidence, Continue, storeVars, fileVars, processVars, boundVars
<1>11. ASSUME NEW r \in Runs, Investigate(r) PROVE TypeOK'
  BY <1>11, TaskOperators, GraphOperators
  DEF Investigate, Continue, Stages, storeVars, fileVars, processVars, boundVars
<1>12. ASSUME NEW r \in Runs, PrepareReview(r) PROVE TypeOK'
  <2>1. CASE Failed(r)
    BY <1>12, <2>1, FailedType DEF PrepareReview, fileVars, processVars, boundVars
  <2>2. CASE ~Failed(r)
    <3>1. PICK review \in Reviews :
            /\ row' = [row EXCEPT ![r] = Record(row[r], review)]
            /\ task' = [task EXCEPT ![r] = Yield(task[r], review)]
            /\ UNCHANGED <<work, fileVars, callback>>
      BY <1>12, <2>2 DEF PrepareReview
    <3>2. review \in Outcomes BY DEF Outcomes
    <3>3. Record(row[r], review) \in Rows /\ Yield(task[r], review) \in Tasks
      BY <3>2, RowOperators, TaskOperators
    <3> QED BY <1>12, <3>1, <3>3 DEF PrepareReview, fileVars, processVars, boundVars
  <2> QED BY <2>1, <2>2
<1>13. ASSUME NEW r \in Runs, PrepareProposal(r) PROVE TypeOK'
  <2>1. PICK draft \in Drafts, life \in 1..Window :
          LET p == [request |-> row[r].request, draft |-> draft,
                    coverage |-> task[r].graph.coverage,
                    expires |-> task[r].graph.coverage + life]
          IN  IF p.expires <= now
              THEN Failed(r)
              ELSE /\ Continue(r, [stage |-> "proposal", proposal |-> p,
                                    coverage |-> task[r].graph.coverage])
                   /\ UNCHANGED <<storeVars, fileVars, callback>>
    BY <1>13 DEF PrepareProposal
  <2> DEFINE p == [request |-> row[r].request, draft |-> draft,
                   coverage |-> task[r].graph.coverage,
                   expires |-> task[r].graph.coverage + life]
             g == [stage |-> "proposal", proposal |-> p,
                   coverage |-> task[r].graph.coverage]
  <2>2. UNCHANGED <<processVars, boundVars>> BY <1>13 DEF PrepareProposal
  <2>3. CASE Failed(r) BY <2>2, <2>3, FailedType DEF fileVars, processVars, boundVars
  <2>4. CASE Continue(r, g) /\ UNCHANGED <<storeVars, fileVars, callback>>
    <3>1. row[r].request \in Requests
      BY <1>13 DEF PrepareProposal, At, Stepping, Rows, RunInv, RowInv, TaskInv
    <3>2. task[r].graph.coverage \in Nat
      BY <1>13, TaskOperators DEF PrepareProposal, Checkpoints, Time
    <3>3. g \in Checkpoints
      BY <3>1, <3>2, ConstantsAssumption DEF Checkpoints, Stages, Proposals, Time
    <3> QED
      BY <2>2, <2>4, <3>3, TaskOperators
      DEF Continue, storeVars, fileVars, processVars, boundVars
  <2> QED BY <2>1, <2>3, <2>4
<1>14. ASSUME NEW r \in Runs, RequestApproval(r) PROVE TypeOK'
  BY <1>14, TaskOperators, GraphOperators
  DEF RequestApproval, Continue, Stages, storeVars, fileVars, processVars, boundVars
<1>15. ASSUME NEW r \in Runs, AwaitApproval(r) PROVE TypeOK'
  <2>1. CASE Failed(r)
    BY <1>15, <2>1, FailedType DEF AwaitApproval, fileVars, processVars, boundVars
  <2>2. CASE ~Failed(r)
    <3>1. task[r].graph.proposal \in Proposals
      BY <1>15, TaskOperators DEF AwaitApproval, At, Checkpoints, RunInv, WellFormed
    <3>2. Wait(row[r], task[r].graph.proposal) \in Rows BY <3>1, RowOperators
    <3>3. /\ row' = [row EXCEPT ![r] = Wait(row[r], task[r].graph.proposal)]
          /\ End(r) /\ UNCHANGED <<work, fileVars, callback, processVars, boundVars>>
      BY <1>15, <2>2 DEF AwaitApproval
    <3> QED
      BY <3>2, <3>3, IdleTasks DEF End, fileVars, processVars, boundVars
  <2> QED BY <2>1, <2>2
<1>16. ASSUME NEW r \in Runs, Decide(r) PROVE TypeOK'
  <2>1. CASE Failed(r)
    BY <1>16, <2>1, FailedType DEF Decide, fileVars, processVars, boundVars
  <2>2. CASE ~Failed(r)
    <3> DEFINE p == task[r].graph.proposal
               a == task[r].response
    <3>1. p \in Proposals
      BY <1>16, TaskOperators DEF Decide, At, Checkpoints, RunInv, WellFormed
    <3>2. Decided(a) \in Outcomes BY DEF Decided, Outcomes
    <3>3. /\ row' = [row EXCEPT ![r] = Record(row[r], Decided(a))]
          /\ work' = IF a.approved THEN [work EXCEPT ![r] = p] ELSE work
          /\ task' = [task EXCEPT ![r] = Yield(task[r], Decided(a))]
          /\ UNCHANGED <<fileVars, callback, processVars, boundVars>>
      BY <1>16, <2>2 DEF Decide
    <3>4. Record(row[r], Decided(a)) \in Rows /\ Yield(task[r], Decided(a)) \in Tasks
      BY <3>2, RowOperators, TaskOperators
    <3>5. row' \in [Runs -> Rows] /\ task' \in [Runs -> Tasks] BY <3>3, <3>4
    <3>6. work' \in [Runs -> Proposals \cup {None}] BY <3>1, <3>3
    <3> QED BY <3>3, <3>5, <3>6 DEF fileVars, processVars, boundVars
  <2> QED BY <2>1, <2>2
<1>17. ASSUME NEW r \in Runs, Complete(r) PROVE TypeOK'
  BY <1>17, FailedType, RowOperators, IdleTasks
  DEF Complete, End, fileVars, processVars, boundVars
<1>18. ASSUME NEW r \in Runs, Finished(r) PROVE TypeOK'
  BY <1>18, RowOperators
  DEF Finished, fileVars, processVars, boundVars
<1>19. ASSUME NEW r \in Runs, SaveCheckpointFails(r) PROVE TypeOK'
  BY <1>19, TaskOperators
  DEF SaveCheckpointFails, Fault, storeVars, fileVars, processVars
<1>20. ASSUME NEW r \in Runs, StepFails(r) PROVE TypeOK'
  BY <1>20, FailedType
  DEF StepFails, Fault, fileVars, processVars
<1>21. ASSUME NEW r \in Runs, StepRaises(r) PROVE TypeOK'
  BY <1>21, IdleTasks
  DEF StepRaises, End, Fault, storeVars, fileVars, processVars
<1>22. ASSUME NEW r \in Runs, CorruptFile(r) PROVE TypeOK'
  BY <1>22
  DEF CorruptFile, Fault, storeVars, loopVars, processVars
<1>23. ASSUME Crash PROVE TypeOK'
  <2>1. task' \in [Runs -> Tasks] BY <1>23, IdleTasks DEF Crash
  <2>2. callback' \in [Runs -> BOOLEAN] /\ up' \in BOOLEAN BY <1>23 DEF Crash
  <2>3. deployment' \in Sources /\ now' \in Nat /\ crashes' \in Nat /\ faults' \in Nat
    BY <1>23 DEF Crash
  <2> QED BY <1>23, <2>1, <2>2, <2>3 DEF Crash, storeVars, fileVars
<1>24. ASSUME NEW source \in Sources, Restart(source) PROVE TypeOK'
  BY <1>24, IdleTasks
  DEF Restart, storeVars, fileVars, boundVars
<1>25. ASSUME Tick PROVE TypeOK'
  BY <1>25
  DEF Tick, storeVars, fileVars, loopVars, processVars
<1>26. ASSUME UNCHANGED vars PROVE TypeOK'
  BY <1>26
  DEF vars, storeVars, fileVars, loopVars, processVars, boundVars
<1> QED
  BY <1>1, <1>2, <1>3, <1>4, <1>5, <1>6, <1>7, <1>8, <1>9, <1>10, <1>11, <1>12, <1>13, <1>14,
     <1>15, <1>16, <1>17, <1>18, <1>19, <1>20, <1>21, <1>22, <1>23, <1>24, <1>25, <1>26
  DEF Next, Api, Runner, Workflow, Faulty

(* What a step does not touch keeps its invariant.                         *)
LEMMA Untouched ==
    ASSUME NEW q \in Runs, RunInv(q), row'[q] = row[q], work'[q] = work[q],
           ckpt'[q] = ckpt[q], task'[q] = task[q], callback'[q] = callback[q],
           up' = up, deployment' = deployment
    PROVE  RunInv(q)'
BY DEF RunInv, Receipts, Resumable, WellFormed, RowInv, TaskInv, Extends

(* Failing a run at any point of its execution keeps its invariant.        *)
LEMMA FailedInv ==
    ASSUME TypeOK, NEW r \in Runs, RunInv(r), task[r].pc # "idle",
           Failed(r), UNCHANGED processVars
    PROVE  RunInv(r)'
<1> DEFINE w == row[r]
<1>1. /\ row'[r] = Fail(w) /\ task'[r] = Idle
      /\ work'[r] = work[r] /\ ckpt'[r] = ckpt[r] /\ callback'[r] = callback[r]
      /\ up' = up /\ deployment' = deployment
  BY DEF TypeOK, Failed, End, fileVars, processVars
<1>2. /\ Fail(w).request = w.request /\ Fail(w).proposal = w.proposal
      /\ Fail(w).approval = w.approval /\ Fail(w).outcome = w.outcome
      /\ Fail(w).status = IF w.status = "completed" THEN "completed" ELSE "failed"
  BY DEF TypeOK, Rows, Fail
<1>3. w.status # "absent" /\ ~callback[r] BY DEF RunInv, TaskInv
<1> QED
  BY <1>1, <1>2, <1>3
  DEF RunInv, Receipts, Resumable, WellFormed, RowInv, TaskInv, Idle, NoCheckpoint

(* Every step keeps what RunInv says of each run.                          *)
LEMMA RunStep ==
    ASSUME IInv, [Next]_vars, NEW q \in Runs PROVE RunInv(q)'
<1>0. TypeOK /\ TypeOK' /\ RunInv(q) BY TypeStep DEF IInv
<1>1. ASSUME NEW r \in Runs, NEW body \in Bodies, Submit(r, body) PROVE RunInv(q)'
  <2>1. CASE q # r
    BY <1>0, <1>1, <2>1, Untouched
    DEF TypeOK, Submit, Schedule, Scheduled, fileVars, processVars, boundVars
  <2>2. CASE q = r
    <3>1. CASE row[r] = NoRow
      <4>1. /\ row'[r].request # None /\ row'[r].status = "queued" /\ row'[r].proposal = None
            /\ row'[r].approval = None /\ row'[r].outcome = None
        BY <1>0, <1>1, <3>1, ConstantsAssumption DEF Submit, TypeOK, NoRow, Requests
      <4> QED
        BY <1>0, <1>1, <2>2, <3>1, <4>1
        DEF TypeOK, Tasks, RunInv, Receipts, Resumable, WellFormed, RowInv, TaskInv, Extends,
           Rank, NoRow, Idle, NoCheckpoint, Submit, Schedule, Scheduled, fileVars, processVars
    <3>2. CASE row[r] # NoRow
      <4>1. row'[r] = row[r] BY <1>0, <1>1, <3>2 DEF Submit, TypeOK
      <4> QED
        BY <1>0, <1>1, <2>2, <3>2, <4>1
        DEF TypeOK, Tasks, RunInv, Receipts, Resumable, WellFormed, RowInv, TaskInv, Extends,
           Rank, NoRow, Idle, NoCheckpoint, Submit, Schedule, Scheduled, fileVars, processVars
    <3> QED BY <3>1, <3>2
  <2> QED BY <2>1, <2>2
<1>2. ASSUME NEW r \in Runs, NEW approved \in BOOLEAN, RecordApproval(r, approved) PROVE RunInv(q)'
  <2>1. CASE q # r
    BY <1>0, <1>2, <2>1, Untouched
    DEF TypeOK, RecordApproval, CanApprove, Approve, Visible, Schedule, Scheduled, fileVars,
       processVars, boundVars
  <2>2. CASE q = r
    <3> DEFINE a == [approved |-> approved, digest |-> Digest(row[r].proposal)]
    <3>1. row[r].proposal # None BY <1>2 DEF RecordApproval
    <3>2. CASE row[r].approval # None
      <4>1. row'[r] = row[r] BY <1>0, <1>2, <3>2 DEF RecordApproval, TypeOK
      <4> QED
        BY <1>0, <1>2, <2>2, <3>2, <4>1
        DEF TypeOK, Tasks, RunInv, Receipts, Resumable, WellFormed, RowInv, TaskInv, Extends,
           Rank, NoRow, Idle, NoCheckpoint, RecordApproval, Visible, Schedule, Scheduled,
           fileVars, processVars
    <3>3. CASE row[r].approval = None
      <4>0. a # None
        BY <1>0, <3>1, ConstantsAssumption DEF TypeOK, Rows, Approvals, Digests, Digest
      <4>1. row[r].status = "waiting" /\ row'[r] = Approve(row[r], a)
        BY <1>0, <1>2, <3>3, <4>0 DEF RecordApproval, TypeOK, CanApprove
      <4>2. /\ row'[r].request = row[r].request /\ row'[r].proposal = row[r].proposal
            /\ row'[r].status = "queued" /\ row'[r].approval = a
            /\ row'[r].outcome = row[r].outcome
        BY <1>0, <4>1 DEF TypeOK, Rows, Approve
      <4> QED
        <5>1. task'[r] = Schedule(task[r]) /\ UNCHANGED <<work, fileVars, callback, processVars>>
          BY <1>0, <1>2, <3>3, <4>1, <4>2 DEF RecordApproval, TypeOK
        <5>2. task[r].pc \in {"idle", "scheduled"} /\ ~callback[r] /\ up
          BY <1>0, <1>2, <2>2, <4>1 DEF RunInv, TaskInv, RecordApproval, Visible, TypeOK, Tasks
        <5>3. task'[r].pc = "scheduled" /\ WellFormed(task'[r].graph)
          BY <1>0, <2>2, <5>1, <5>2 DEF Schedule, Scheduled, Idle, NoCheckpoint, RunInv, WellFormed
        <5>4. row[r].outcome = None BY <1>0, <2>2, <4>1 DEF RunInv, RowInv
        <5>5. a.digest = Digest(row[r].proposal) OBVIOUS
        <5>6. Receipts(r)'
          BY <1>0, <2>2, <3>3, <4>0, <4>2, <5>1, <5>4, ConstantsAssumption
          DEF RunInv, Receipts, Outcomes
        <5> HIDE DEF a
        <5>7. row[r].request.source = deployment BY <1>2 DEF RecordApproval, Visible
        <5> QED
          BY <1>0, <2>2, <3>1, <4>0, <4>1, <5>7, <4>2, <5>1, <5>2, <5>3, <5>4, <5>5, <5>6
          DEF RunInv, Resumable, WellFormed, RowInv, TaskInv, fileVars, processVars, NoRow
    <3> QED BY <3>2, <3>3
  <2> QED BY <2>1, <2>2
<1>3. ASSUME NEW r \in Runs, RetryRun(r) PROVE RunInv(q)'
  <2>1. CASE q # r
    BY <1>0, <1>3, <2>1, Untouched
    DEF TypeOK, RetryRun, CanRetry, Retry, Visible, Schedule, Scheduled, fileVars, processVars,
       boundVars
  <2>2. CASE q = r
    BY <1>0, <1>3, <2>2
    DEF TypeOK, Rows, Tasks, Checkpoints, RunInv, Receipts, Resumable, WellFormed, RowInv,
       TaskInv, Extends, Rank, NoRow, Idle, NoCheckpoint, RetryRun, CanRetry, Retry, Visible,
       Schedule, Scheduled, fileVars, processVars, boundVars
  <2> QED BY <2>1, <2>2
<1>4. ASSUME NEW r \in Runs, Begin(r) PROVE RunInv(q)'
  <2>1. CASE q # r
    BY <1>0, <1>4, <2>1, Untouched
    DEF TypeOK, Begin, Failed, Fail, Start, MoveTo, End, storeVars, fileVars, processVars, boundVars
  <2>2. CASE q = r
    <3>1. CASE Failed(r)
      BY <1>0, <1>4, <2>2, <3>1, FailedInv DEF Begin
    <3>2. CASE ~Failed(r)
      <4>0. /\ task[r].pc = "scheduled" /\ up /\ UNCHANGED processVars
        BY <1>4 DEF Begin
      <4>1. CASE End(r) /\ UNCHANGED <<storeVars, fileVars, callback>>
        <5>1. task'[r] = Idle BY <1>0, <4>1 DEF TypeOK, End
        <5> QED
          BY <1>0, <2>2, <4>0, <4>1, <5>1
          DEF RunInv, Receipts, Resumable, WellFormed, RowInv, TaskInv, Idle, NoCheckpoint,
              storeVars, fileVars, processVars
      <4>2. CASE /\ row[r].request.source = deployment
                 /\ row[r].status \in {"queued", "running"}
                 /\ row' = [row EXCEPT ![r] = Start(row[r])]
                 /\ task' = [task EXCEPT ![r] = MoveTo(task[r], "opened")]
                 /\ UNCHANGED <<work, fileVars, callback>>
        <5>1. ~callback[r] BY <1>0, <2>2, <4>0 DEF RunInv, TaskInv
        <5>2. task'[r].pc = "opened" /\ task'[r].graph = task[r].graph
          BY <1>0, <4>2 DEF TypeOK, Tasks, MoveTo
        <5>3. /\ row'[r].request = row[r].request /\ row'[r].proposal = row[r].proposal
              /\ row'[r].approval = row[r].approval /\ row'[r].outcome = row[r].outcome
              /\ row'[r].status = "running"
          BY <1>0, <4>2 DEF TypeOK, Rows, Start
        <5> QED
          BY <1>0, <2>2, <4>0, <4>2, <5>1, <5>2, <5>3
          DEF RunInv, Receipts, Resumable, WellFormed, RowInv, TaskInv, fileVars, processVars
      <4> QED BY <1>4, <3>2, <4>1, <4>2 DEF Begin
    <3> QED BY <3>1, <3>2
  <2> QED BY <2>1, <2>2
<1>5. ASSUME NEW r \in Runs, RecoverOutcome(r) PROVE RunInv(q)'
  <2>1. CASE q # r
    BY <1>0, <1>5, <2>1, Untouched
    DEF TypeOK, RecoverOutcome, CanFinish, Finish, MoveTo, fileVars, processVars, boundVars
  <2>2. CASE q = r
    BY <1>0, <1>5, <2>2
    DEF TypeOK, Rows, Tasks, Checkpoints, RunInv, Receipts, Resumable, WellFormed, RowInv,
       TaskInv, Extends, Rank, NoRow, Idle, NoCheckpoint, RecoverOutcome, CanFinish, Finish,
       MoveTo, fileVars, processVars, boundVars
  <2> QED BY <2>1, <2>2
<1>6. ASSUME NEW r \in Runs, JournalRecovery(r) PROVE RunInv(q)'
  <2>1. CASE q # r
    BY <1>0, <1>6, <2>1, Untouched
    DEF TypeOK, JournalRecovery, Failed, Fail, End, Fault, storeVars, fileVars, processVars
  <2>2. CASE q = r
    <3>1. CASE Failed(r)
      BY <1>0, <1>6, <2>2, <3>1, FailedInv DEF JournalRecovery
    <3>2. CASE ~Failed(r)
      <4>1. task'[r] = Idle /\ UNCHANGED <<storeVars, fileVars, callback, processVars>>
        BY <1>0, <1>6, <3>2 DEF JournalRecovery, End, TypeOK
      <4> QED
        BY <1>0, <1>6, <2>2, <4>1
        DEF RunInv, Receipts, Resumable, WellFormed, RowInv, TaskInv, Idle, NoCheckpoint,
            JournalRecovery, storeVars, fileVars, processVars
    <3> QED BY <3>1, <3>2
  <2> QED BY <2>1, <2>2
<1>7. ASSUME NEW r \in Runs, LoadCheckpoint(r) PROVE RunInv(q)'
  <2>1. CASE q # r
    BY <1>0, <1>7, <2>1, Untouched
    DEF TypeOK, LoadCheckpoint, Failed, Fail, End, Open, Reach, storeVars, fileVars,
       processVars, boundVars
  <2>2. CASE q = r
    <3>1. CASE Failed(r)
      BY <1>0, <1>7, <2>2, <3>1, FailedInv DEF LoadCheckpoint
    <3>2. CASE ~Failed(r)
      <4>1. task'[r] = Open(row[r], ckpt[r]) /\ UNCHANGED <<storeVars, fileVars, callback, processVars>>
        BY <1>0, <1>7, <3>2 DEF LoadCheckpoint, TypeOK
      <4>2. task[r].pc = "opened" /\ up /\ row[r].outcome = None
            /\ (row[r].approval # None => ckpt[r].stage # "none")
        BY <1>7, <3>2 DEF LoadCheckpoint
      <4>3. CASE ckpt[r].stage = "none"
        BY <1>0, <2>2, <4>1, <4>2, <4>3
        DEF TypeOK, Rows, Tasks, Checkpoints, RunInv, Receipts, Resumable, WellFormed, RowInv,
           TaskInv, Extends, Rank, NoRow, Idle, NoCheckpoint, Open, Reach, storeVars, fileVars,
           processVars, Stages
      <4>4. CASE ckpt[r].stage # "none"
        <5>0. Open(row[r], ckpt[r]).saved BY <4>4 DEF Open
        <5>1. /\ task'[r].graph = ckpt[r] /\ task'[r].saved /\ task'[r].pc = "stepping"
              /\ ckpt[r].stage = "pending" => task'[r].response = row[r].approval
          BY <4>1, <4>4, <5>0 DEF Open
        <5>2. Extends(ckpt[r], ckpt[r])
          BY <1>0 DEF TypeOK, Checkpoints, Stages, Extends, Rank
        <5> QED
          BY <1>0, <2>2, <4>1, <4>2, <4>4, <5>1, <5>2
          DEF RunInv, Receipts, Resumable, WellFormed, RowInv, TaskInv, storeVars, fileVars,
             processVars
      <4> QED BY <4>3, <4>4
    <3> QED BY <3>1, <3>2
  <2> QED BY <2>1, <2>2
<1>8. ASSUME NEW r \in Runs, SaveCheckpoint(r) PROVE RunInv(q)'
  <2>1. CASE q # r
    BY <1>0, <1>8, <2>1, Untouched
    DEF TypeOK, SaveCheckpoint, Stepping, Saved, storeVars, processVars, boundVars
  <2>2. CASE q = r
    <3>1. /\ ckpt'[r] = task[r].graph /\ task'[r].graph = task[r].graph /\ task'[r].saved
          /\ task'[r].pc = "stepping" /\ task'[r].response = task[r].response
          /\ UNCHANGED <<row, work, callback, up, deployment>>
      BY <1>0, <1>8 DEF SaveCheckpoint, Stepping, Saved, TypeOK, Tasks, storeVars, processVars
    <3>2. ~task[r].saved /\ task[r].pc = "stepping" /\ up BY <1>8 DEF SaveCheckpoint, Stepping
    <3>3. task[r].graph.stage \in Stages BY <1>0 DEF TypeOK, Tasks, Checkpoints
    <3> QED
      BY <1>0, <2>2, <3>1, <3>2, <3>3 DEF RunInv, Receipts, Resumable, WellFormed, RowInv,
         TaskInv, Extends, Rank, NoRow, Idle, NoCheckpoint, Stages
  <2> QED BY <2>1, <2>2
<1>9. ASSUME NEW r \in Runs, RequireHealthy(r) PROVE RunInv(q)'
  <2>1. CASE q # r
    BY <1>0, <1>9, <2>1, Untouched
    DEF TypeOK, RequireHealthy, Stepping, Failed, Fail, End, fileVars, processVars, boundVars
  <2>2. CASE q = r
    BY <1>0, <1>9, <2>2
    DEF TypeOK, Rows, Tasks, Checkpoints, RunInv, Receipts, Resumable, WellFormed, RowInv,
       TaskInv, Extends, Rank, NoRow, Idle, NoCheckpoint, RequireHealthy, Stepping, Failed,
       Fail, End, fileVars, processVars, boundVars
  <2> QED BY <2>1, <2>2
<1>10. ASSUME NEW r \in Runs, ReadEvidence(r) PROVE RunInv(q)'
  <2>1. CASE q # r
    BY <1>0, <1>10, <2>1, Untouched
    DEF TypeOK, ReadEvidence, At, Stepping, Continue, Advance, storeVars, fileVars, processVars,
       boundVars
  <2>2. CASE q = r
    BY <1>0, <1>10, <2>2
    DEF TypeOK, Rows, Tasks, Checkpoints, RunInv, Receipts, Resumable, WellFormed, RowInv,
       TaskInv, Extends, Rank, NoRow, Idle, NoCheckpoint, ReadEvidence, At, Stepping, Continue,
       Advance, storeVars, fileVars, processVars, boundVars
  <2> QED BY <2>1, <2>2
<1>11. ASSUME NEW r \in Runs, Investigate(r) PROVE RunInv(q)'
  <2>1. CASE q # r
    BY <1>0, <1>11, <2>1, Untouched
    DEF TypeOK, Investigate, At, Stepping, Continue, Advance, Reach, storeVars, fileVars,
       processVars, boundVars
  <2>2. CASE q = r
    BY <1>0, <1>11, <2>2
    DEF TypeOK, Rows, Tasks, Checkpoints, RunInv, Receipts, Resumable, WellFormed, RowInv,
       TaskInv, Extends, Rank, NoRow, Idle, NoCheckpoint, Investigate, At, Stepping, Continue,
       Advance, Reach, storeVars, fileVars, processVars, boundVars
  <2> QED BY <2>1, <2>2
<1>12. ASSUME NEW r \in Runs, PrepareReview(r) PROVE RunInv(q)'
  <2>1. CASE q # r
    BY <1>0, <1>12, <2>1, Untouched
    DEF TypeOK, PrepareReview, At, Stepping, CanReview, Record, Yield, Reach, Failed, Fail, End,
       fileVars, processVars, boundVars
  <2>2. CASE q = r
    <3>1. CASE Failed(r)
      BY <1>0, <1>12, <2>2, <3>1, FailedInv DEF PrepareReview, At, Stepping
    <3>2. CASE ~Failed(r)
      <4>1. PICK review \in Reviews :
              /\ CanReview(row[r]) /\ row[r].outcome = None
              /\ row' = [row EXCEPT ![r] = Record(row[r], review)]
              /\ task' = [task EXCEPT ![r] = Yield(task[r], review)]
              /\ UNCHANGED <<work, fileVars, callback>>
        BY <1>12, <3>2 DEF PrepareReview
      <4>2. /\ row'[r].request = row[r].request /\ row'[r].proposal = None
            /\ row'[r].status = "running" /\ row'[r].approval = None
            /\ row'[r].outcome = review
        BY <1>0, <4>1 DEF TypeOK, Rows, Record, CanReview
      <4>3. /\ task'[r].pc = "stepping" /\ ~task'[r].saved
            /\ task'[r].graph = Reach(task[r].graph, "done")
        BY <1>0, <1>12, <4>1 DEF TypeOK, Tasks, Yield, PrepareReview, At, Stepping
      <4>4. review # None /\ review # "validation_work_recorded" /\ review # "rejected"
        BY ConstantsAssumption DEF Reviews, Outcomes
      <4>5. /\ task'[r].graph.stage = "done" /\ task'[r].graph.proposal = task[r].graph.proposal
            /\ task'[r].graph.coverage = task[r].graph.coverage
        BY <1>0, <4>3 DEF TypeOK, Tasks, Checkpoints, Reach
      <4>6. Extends(task'[r].graph, ckpt[r])
        BY <1>0, <1>12, <2>2, <4>5 DEF RunInv, TaskInv, Extends, Rank, PrepareReview, At,
           Stepping, TypeOK, Checkpoints, Stages
      <4> QED
        BY <1>0, <1>12, <2>2, <4>1, <4>2, <4>3, <4>4, <4>5, <4>6
        DEF RunInv, Receipts, Resumable, WellFormed, RowInv, TaskInv, Extends, PrepareReview,
           At, Stepping, fileVars, processVars
    <3> QED BY <3>1, <3>2
  <2> QED BY <2>1, <2>2
<1>13. ASSUME NEW r \in Runs, PrepareProposal(r) PROVE RunInv(q)'
  <2>1. CASE q # r
    BY <1>0, <1>13, <2>1, Untouched
    DEF TypeOK, PrepareProposal, At, Stepping, Continue, Advance, Failed, Fail, End, storeVars,
       fileVars, processVars, boundVars
  <2>2. CASE q = r
    <3>1. CASE Failed(r)
      BY <1>0, <1>13, <2>2, <3>1, FailedInv DEF PrepareProposal, At, Stepping
    <3>2. CASE ~Failed(r)
      <4>1. PICK draft \in Drafts, life \in 1..Window :
              Continue(r, [stage |-> "proposal",
                           proposal |-> [request |-> row[r].request, draft |-> draft,
                                         coverage |-> task[r].graph.coverage,
                                         expires |-> task[r].graph.coverage + life],
                           coverage |-> task[r].graph.coverage])
        BY <1>13, <3>2 DEF PrepareProposal
      <4> DEFINE p == [request |-> row[r].request, draft |-> draft,
                       coverage |-> task[r].graph.coverage,
                       expires |-> task[r].graph.coverage + life]
      <4>2. UNCHANGED <<storeVars, fileVars, callback, processVars>>
        BY <1>13, <3>2 DEF PrepareProposal
      <4>3. /\ task'[r].graph.stage = "proposal" /\ task'[r].graph.proposal = p
            /\ task'[r].graph.coverage = task[r].graph.coverage
            /\ task'[r].pc = "stepping" /\ ~task'[r].saved
            /\ task'[r].response = task[r].response
        BY <1>0, <1>13, <4>1 DEF TypeOK, Tasks, Continue, Advance, PrepareProposal, At, Stepping
      <4>4. task[r].graph.coverage \in Nat
        BY <1>0, <1>13 DEF TypeOK, Tasks, Checkpoints, Time, PrepareProposal
      <4>5. p \in Proposals
        <5>1. row[r].request \in Requests
          BY <1>0, <1>13, <2>2
          DEF TypeOK, Rows, RunInv, RowInv, TaskInv, PrepareProposal, At, Stepping
        <5> QED BY <4>4, <5>1, ConstantsAssumption DEF Proposals, Time
      <4>6. p # None BY <4>5, ConstantsAssumption
      <4>7. p.expires <= task[r].graph.coverage + Window BY <4>4, ConstantsAssumption
      <4>8. ckpt[r] = task[r].graph /\ ckpt[r].stage = "assessment" /\ ckpt[r].proposal = None
        BY <1>0, <1>13, <2>2 DEF RunInv, TaskInv, WellFormed, PrepareProposal, At, Stepping
      <4> HIDE DEF p
      <4> QED
        BY <1>0, <1>13, <2>2, <4>2, <4>3, <4>4, <4>6, <4>7, <4>8
        DEF RunInv, Receipts, Resumable, WellFormed, RowInv, TaskInv, Extends, Rank, NoRow,
           Idle, NoCheckpoint, PrepareProposal, At, Stepping, storeVars, fileVars, processVars
    <3> QED BY <3>1, <3>2
  <2> QED BY <2>1, <2>2
<1>14. ASSUME NEW r \in Runs, RequestApproval(r) PROVE RunInv(q)'
  <2>1. CASE q # r
    BY <1>0, <1>14, <2>1, Untouched
    DEF TypeOK, RequestApproval, At, Stepping, Continue, Advance, Reach, storeVars, fileVars,
       processVars, boundVars
  <2>2. CASE q = r
    BY <1>0, <1>14, <2>2
    DEF TypeOK, Rows, Tasks, Checkpoints, RunInv, Receipts, Resumable, WellFormed, RowInv,
       TaskInv, Extends, Rank, NoRow, Idle, NoCheckpoint, RequestApproval, At, Stepping,
       Continue, Advance, Reach, storeVars, fileVars, processVars, boundVars
  <2> QED BY <2>1, <2>2
<1>15. ASSUME NEW r \in Runs, AwaitApproval(r) PROVE RunInv(q)'
  <2>1. CASE q # r
    BY <1>0, <1>15, <2>1, Untouched
    DEF TypeOK, AwaitApproval, At, Stepping, CanWait, Wait, Failed, Fail, End, fileVars,
       processVars, boundVars
  <2>2. CASE q = r
    <3>1. CASE Failed(r)
      BY <1>0, <1>15, <2>2, <3>1, FailedInv DEF AwaitApproval, At, Stepping
    <3>2. CASE ~Failed(r)
      <4> DEFINE p == task[r].graph.proposal
      <4>1. /\ CanWait(row[r], p) /\ row' = [row EXCEPT ![r] = Wait(row[r], p)]
            /\ End(r) /\ UNCHANGED <<work, fileVars, callback, processVars>>
        BY <1>15, <3>2 DEF AwaitApproval
      <4>2. /\ row'[r].request = row[r].request /\ row'[r].proposal = p
            /\ row'[r].status = "waiting" /\ row'[r].approval = row[r].approval
            /\ row'[r].outcome = row[r].outcome
        BY <1>0, <4>1 DEF TypeOK, Rows, Wait
      <4>3. task'[r] = Idle BY <1>0, <4>1 DEF TypeOK, End
      <4>4. ckpt[r] = task[r].graph /\ task[r].graph.stage = "pending" /\ p # None
        BY <1>0, <1>15, <2>2 DEF RunInv, TaskInv, WellFormed, AwaitApproval, At, Stepping
      <4>5. row[r].status = "running" /\ row[r].outcome = None
        BY <1>0, <1>15, <2>2, <4>1 DEF RunInv, TaskInv, AwaitApproval, At, Stepping, CanWait
      <4>6. row[r].approval = None
        BY <1>0, <1>15, <2>2, <4>5 DEF RunInv, TaskInv, AwaitApproval, At, Stepping
      <4>7. p # None /\ None \notin Reviews BY <4>4, ConstantsAssumption DEF Outcomes
      <4>8. row[r].request # None /\ work[r] = None /\ row'[r].status # "completed"
        BY <1>0, <2>2, <4>2, <4>5, <4>6, ConstantsAssumption
        DEF RunInv, Receipts, RowInv, Outcomes
      <4> HIDE DEF p
      <4>9. Receipts(r)' /\ RowInv(r)'
        BY <4>1, <4>2, <4>5, <4>6, <4>7, <4>8, ConstantsAssumption
        DEF Receipts, RowInv, Outcomes
      <4>10. Resumable(r)' /\ WellFormed(ckpt[r])' /\ WellFormed(task[r].graph)'
        BY <1>0, <2>2, <4>1, <4>2, <4>3, <4>4
        DEF RunInv, Resumable, WellFormed, Idle, NoCheckpoint, fileVars, p
      <4>11. up /\ ~callback[r] /\ up' = up /\ callback' = callback
        BY <1>0, <1>15, <2>2, <4>1 DEF RunInv, TaskInv, AwaitApproval, At, Stepping, processVars
      <4>12. TaskInv(r)'
        <5>1. task'[r].pc = "idle" BY <4>3 DEF Idle
        <5>2. up' /\ ~callback'[r] BY <4>11
        <5> QED BY <5>1, <5>2 DEF TaskInv
      <4> QED BY <2>2, <4>9, <4>10, <4>12 DEF RunInv
    <3> QED BY <3>1, <3>2
  <2> QED BY <2>1, <2>2
<1>16. ASSUME NEW r \in Runs, Decide(r) PROVE RunInv(q)'
  <2>1. CASE q # r
    BY <1>0, <1>16, <2>1, Untouched
    DEF TypeOK, Decide, At, Stepping, CanDecide, MatchesDecision, Decided, Record, Yield, Reach,
       Failed, Fail, End, fileVars, processVars, boundVars
  <2>2. CASE q = r
    <3>1. CASE Failed(r)
      BY <1>0, <1>16, <2>2, <3>1, FailedInv DEF Decide, At, Stepping
    <3>2. CASE ~Failed(r)
      <4> DEFINE p == task[r].graph.proposal
                 a == task[r].response
      <4>1. /\ CanDecide(row[r], p, a)
            /\ row' = [row EXCEPT ![r] = Record(row[r], Decided(a))]
            /\ work' = IF a.approved THEN [work EXCEPT ![r] = p] ELSE work
            /\ task' = [task EXCEPT ![r] = Yield(task[r], Decided(a))]
            /\ UNCHANGED <<fileVars, callback, processVars>>
        BY <1>16, <3>2 DEF Decide
      <4>2. /\ row'[r].request = row[r].request /\ row'[r].proposal = row[r].proposal
            /\ row'[r].status = row[r].status /\ row'[r].approval = row[r].approval
            /\ row'[r].outcome = Decided(a)
        BY <1>0, <4>1 DEF TypeOK, Rows, Record
      <4>3. /\ task'[r].pc = "stepping" /\ ~task'[r].saved
            /\ task'[r].graph = Reach(task[r].graph, "done")
        BY <1>0, <1>16, <4>1 DEF TypeOK, Tasks, Yield, Decide, At, Stepping
      <4>4. /\ task'[r].graph.stage = "done" /\ task'[r].graph.proposal = p
            /\ task'[r].graph.coverage = task[r].graph.coverage
        BY <1>0, <4>3 DEF TypeOK, Tasks, Checkpoints, Reach
      <4>5. /\ row[r].outcome = None /\ row[r].status = "running"
            /\ row[r].proposal = p /\ row[r].approval = a /\ a.digest = Digest(p)
        BY <4>1 DEF CanDecide, MatchesDecision
      <4>6. /\ ckpt[r] = task[r].graph /\ ckpt[r].stage = "pending"
            /\ a # None /\ p # None /\ work[r] = None
        BY <1>0, <1>16, <2>2, <4>5, ConstantsAssumption
        DEF RunInv, Receipts, TaskInv, WellFormed, Decide, At, Stepping, Outcomes
      <4>7. /\ Decided(a) # None /\ Decided(a) \notin Reviews
            /\ Decided(a) = "validation_work_recorded" <=> a.approved
            /\ Decided(a) = "rejected" <=> ~a.approved
        BY ConstantsAssumption DEF Decided, Outcomes, Reviews
      <4>8. /\ a.approved => work'[r] = p /\ a = [approved |-> TRUE, digest |-> Digest(p)]
            /\ ~a.approved => work'[r] = None
        <5>1. a \in Approvals
          <6>1. row[r] \in Rows BY <1>0 DEF TypeOK
          <6>2. row[r].approval \in Approvals \cup {None} BY <6>1 DEF Rows
          <6> QED BY <4>5, <4>6, <6>2
        <5>2. a = [approved |-> a.approved, digest |-> Digest(p)]
          BY <4>5, <5>1 DEF Approvals
        <5>3. a.approved \in BOOLEAN BY <5>1 DEF Approvals
        <5>4. a.approved => a.approved = TRUE BY <5>3
        <5>5. a.approved => work'[r] = p BY <1>0, <4>1 DEF TypeOK
        <5>6. ~a.approved => work'[r] = None BY <1>0, <4>1, <4>6 DEF TypeOK
        <5> QED BY <5>2, <5>4, <5>5, <5>6
      <4> HIDE DEF p, a
      <4>9. Receipts(r)' BY <4>2, <4>5, <4>6, <4>7, <4>8 DEF Receipts
      <4> QED
        <5>1. Resumable(r)' /\ RowInv(r)'
          BY <1>0, <2>2, <4>2, <4>5, <4>6, <4>7 DEF RunInv, Resumable, RowInv
        <5>2. ckpt'[r] = ckpt[r] /\ callback'[r] = callback[r] /\ up' = up /\ deployment' = deployment
          BY <4>1 DEF fileVars, processVars
        <5>3. WellFormed(ckpt[r])' /\ WellFormed(task[r].graph)'
          BY <1>0, <2>2, <4>4, <4>6, <5>2 DEF RunInv, WellFormed, p
        <5>4. Extends(task'[r].graph, ckpt[r])
          BY <4>4, <4>6 DEF Extends, Rank, p
        <5>5. /\ task[r].pc = "stepping" /\ up /\ ~callback[r]
              /\ row[r].request.source = deployment
          BY <1>0, <1>16, <2>2 DEF RunInv, TaskInv, Decide, At, Stepping
        <5>6. TaskInv(r)'
          <6>1. up' /\ ~callback'[r] BY <5>2, <5>5
          <6>2. /\ row'[r].status = "running" /\ row'[r].outcome # None
                /\ row'[r].request.source = deployment'
            BY <4>2, <4>5, <4>7, <5>2, <5>5
          <6>3. Extends(task[r].graph, ckpt[r])' BY <5>2, <5>4
          <6> QED BY <4>3, <4>4, <6>1, <6>2, <6>3 DEF TaskInv
        <5> QED BY <2>2, <4>9, <5>1, <5>3, <5>6 DEF RunInv
    <3> QED BY <3>1, <3>2
  <2> QED BY <2>1, <2>2
<1>17. ASSUME NEW r \in Runs, Complete(r) PROVE RunInv(q)'
  <2>1. CASE q # r
    BY <1>0, <1>17, <2>1, Untouched
    DEF TypeOK, Complete, At, Stepping, CanFinish, Finish, Failed, Fail, End, fileVars,
       processVars, boundVars
  <2>2. CASE q = r
    <3>1. CASE Failed(r)
      BY <1>0, <1>17, <2>2, <3>1, FailedInv DEF Complete, At, Stepping
    <3>2. CASE ~Failed(r)
      <4>1. /\ CanFinish(row[r], task[r].output) /\ row' = [row EXCEPT ![r] = Finish(row[r])]
            /\ End(r) /\ UNCHANGED <<work, fileVars, callback, processVars>>
        BY <1>17, <3>2 DEF Complete
      <4>2. /\ row'[r].request = row[r].request /\ row'[r].proposal = row[r].proposal
            /\ row'[r].approval = row[r].approval /\ row'[r].outcome = row[r].outcome
            /\ row'[r].status = "completed" /\ row[r].outcome # None
        BY <1>0, <4>1 DEF TypeOK, Rows, Finish, CanFinish
      <4>3. task'[r] = Idle BY <1>0, <4>1 DEF TypeOK, End
      <4> QED
        BY <1>0, <1>17, <2>2, <4>1, <4>2, <4>3
        DEF RunInv, Receipts, Resumable, WellFormed, RowInv, TaskInv, Idle, NoCheckpoint,
            Complete, At, Stepping, fileVars, processVars
    <3> QED BY <3>1, <3>2
  <2> QED BY <2>1, <2>2
<1>18. ASSUME NEW r \in Runs, Finished(r) PROVE RunInv(q)'
  <2>1. CASE q # r
    BY <1>0, <1>18, <2>1, Untouched
    DEF TypeOK, Finished, Fail, fileVars, processVars, boundVars
  <2>2. CASE q = r
    BY <1>0, <1>18, <2>2
    DEF TypeOK, Rows, Tasks, Checkpoints, RunInv, Receipts, Resumable, WellFormed, RowInv,
       TaskInv, Extends, Rank, NoRow, Idle, NoCheckpoint, Finished, Fail, fileVars, processVars,
       boundVars
  <2> QED BY <2>1, <2>2
<1>19. ASSUME NEW r \in Runs, SaveCheckpointFails(r) PROVE RunInv(q)'
  <2>1. CASE q # r
    BY <1>0, <1>19, <2>1, Untouched
    DEF TypeOK, SaveCheckpointFails, Stepping, Unhealthy, Fault, storeVars, fileVars, processVars
  <2>2. CASE q = r
    BY <1>0, <1>19, <2>2
    DEF TypeOK, Rows, Tasks, Checkpoints, RunInv, Receipts, Resumable, WellFormed, RowInv,
       TaskInv, Extends, Rank, NoRow, Idle, NoCheckpoint, SaveCheckpointFails, Stepping,
       Unhealthy, Fault, storeVars, fileVars, processVars
  <2> QED BY <2>1, <2>2
<1>20. ASSUME NEW r \in Runs, StepFails(r) PROVE RunInv(q)'
  <2>1. CASE q # r
    BY <1>0, <1>20, <2>1, Untouched
    DEF TypeOK, StepFails, Executing, Fault, Failed, Fail, End, fileVars, processVars
  <2>2. CASE q = r
    BY <1>0, <1>20, <2>2
    DEF TypeOK, Rows, Tasks, Checkpoints, RunInv, Receipts, Resumable, WellFormed, RowInv,
       TaskInv, Extends, Rank, NoRow, Idle, NoCheckpoint, StepFails, Executing, Fault, Failed,
       Fail, End, fileVars, processVars
  <2> QED BY <2>1, <2>2
<1>21. ASSUME NEW r \in Runs, StepRaises(r) PROVE RunInv(q)'
  <2>1. CASE q # r
    BY <1>0, <1>21, <2>1, Untouched
    DEF TypeOK, StepRaises, Stepping, End, Fault, storeVars, fileVars, processVars
  <2>2. CASE q = r
    BY <1>0, <1>21, <2>2
    DEF TypeOK, Rows, Tasks, Checkpoints, RunInv, Receipts, Resumable, WellFormed, RowInv,
       TaskInv, Extends, Rank, NoRow, Idle, NoCheckpoint, StepRaises, Stepping, End, Fault,
       storeVars, fileVars, processVars
  <2> QED BY <2>1, <2>2
<1>22. ASSUME NEW r \in Runs, CorruptFile(r) PROVE RunInv(q)'
  <2>1. CASE q # r
    BY <1>0, <1>22, <2>1, Untouched
    DEF TypeOK, CorruptFile, Fault, storeVars, loopVars, processVars
  <2>2. CASE q = r
    BY <1>0, <1>22, <2>2
    DEF TypeOK, Rows, Tasks, Checkpoints, RunInv, Receipts, Resumable, WellFormed, RowInv,
       TaskInv, Extends, Rank, NoRow, Idle, NoCheckpoint, CorruptFile, Fault, storeVars,
       loopVars, processVars
  <2> QED BY <2>1, <2>2
<1>23. ASSUME Crash PROVE RunInv(q)'
  <2>1. /\ task'[q] = Idle /\ ~callback'[q] /\ up' = FALSE
        /\ UNCHANGED <<storeVars, fileVars, deployment>>
    BY <1>23 DEF Crash
  <2> QED
    BY <1>0, <2>1
    DEF RunInv, Receipts, Resumable, WellFormed, RowInv, TaskInv, Idle, NoCheckpoint,
        storeVars, fileVars
<1>24. ASSUME NEW source \in Sources, Restart(source) PROVE RunInv(q)'
  <2>1. /\ task'[q] = IF row[q].status \in {"queued", "running"} THEN Scheduled ELSE Idle
        /\ ~up /\ up' /\ UNCHANGED <<storeVars, fileVars, callback>>
    BY <1>24 DEF Restart, Recoverable
  <2>2. /\ task'[q].pc = "scheduled" => row[q].status # "absent"
        /\ task'[q].pc \in {"idle", "scheduled"} /\ task'[q].graph = NoCheckpoint
    BY <2>1 DEF Scheduled, Idle
  <2> QED
    BY <1>0, <2>1, <2>2
    DEF RunInv, Receipts, Resumable, WellFormed, RowInv, TaskInv, NoCheckpoint,
        storeVars, fileVars
<1>25. ASSUME Tick \/ UNCHANGED vars PROVE RunInv(q)'
  BY <1>0, <1>25, Untouched
  DEF Tick, vars, storeVars, fileVars, loopVars, processVars
<1> QED
  BY <1>1, <1>2, <1>3, <1>4, <1>5, <1>6, <1>7, <1>8, <1>9, <1>10, <1>11, <1>12,
     <1>13, <1>14, <1>15, <1>16, <1>17, <1>18, <1>19, <1>20, <1>21, <1>22, <1>23,
     <1>24, <1>25
  DEF Next, Api, Runner, Workflow, Faulty

(* IInv is an invariant: it is inductive, and holds before the first run.  *)
LEMMA Inductive == Spec => []IInv
<1>1. Init => IInv
  <2> SUFFICES ASSUME Init PROVE IInv
    OBVIOUS
  <2>1. TypeOK BY NewRows, GraphOperators, IdleTasks DEF Init, TypeOK
  <2>2. ASSUME NEW r \in Runs PROVE RunInv(r)
    BY ConstantsAssumption
    DEF Init, RunInv, Receipts, Resumable, WellFormed, RowInv, TaskInv, Outcomes,
        NoRow, NoCheckpoint, Idle
  <2> QED BY <2>1, <2>2 DEF IInv
<1>2. IInv /\ [Next]_vars => IInv'
  BY TypeStep, RunStep DEF IInv
<1> QED BY <1>1, <1>2, PTL DEF Spec

(* Type correctness: rows, checkpoints and tasks stay well typed whatever  *)
(* the runner, the handlers, the process, the disk and the clock do.       *)
THEOREM TypeCorrect == Spec => []TypeOK
<1>1. IInv => TypeOK BY DEF IInv
<1> QED BY <1>1, Inductive, PTL

(* The validation_work table and the outcome column never disagree: an     *)
(* effect without its receipt, or a receipt without its effect, is never   *)
(* committed, and only an approved proposal has either (record_decision).  *)
THEOREM ReceiptsAlwaysAgree == Spec => []ReceiptsAgree
<1>1. IInv => ReceiptsAgree BY DEF IInv, RunInv, ReceiptsAgree
<1> QED BY <1>1, Inductive, PTL

(* A run with an undecided or unperformed decision can always be resumed   *)
(* from its newest checkpoint, with exactly the stored proposal.           *)
THEOREM DecisionAlwaysResumable == Spec => []DecisionIsResumable
<1>1. IInv => DecisionIsResumable BY DEF IInv, RunInv, DecisionIsResumable
<1> QED BY <1>1, Inductive, PTL

(* The moves a run's database record can make in one step, with what each  *)
(* move presupposes: every store transaction, and nothing else.            *)
Move(r, w) ==
    \/ w = row[r] /\ work' = work
    \/ row[r] = NoRow /\ work' = work
       /\ \E q \in Requests : w = [NoRow EXCEPT !.request = q, !.status = "queued"]
    \/ row[r].status \in {"queued", "running"} /\ w = Start(row[r]) /\ work' = work
    \/ row[r].approval = None /\ row[r].outcome = None /\ row[r].status = "running"
       /\ work' = work /\ \E p \in Proposals : w = Wait(row[r], p)
    \/ work' = work
       /\ \E a \in Approvals : CanApprove(row[r], a) /\ w = Approve(row[r], a)
    \/ row[r].outcome # None /\ w = Finish(row[r]) /\ work' = work
    \/ w = Fail(row[r]) /\ work' = work
    \/ CanRetry(row[r]) /\ w = Retry(row[r]) /\ work' = work
    \/ CanReview(row[r]) /\ row[r].outcome = None /\ work' = work
       /\ \E review \in Reviews : w = Record(row[r], review)
    \/ row[r].approval # None /\ row[r].outcome = None /\ row[r].status = "running"
       /\ w = Record(row[r], Decided(row[r].approval))
       /\ work' = IF row[r].approval.approved
                  THEN [work EXCEPT ![r] = row[r].proposal] ELSE work

(* A step changes at most one row, and only as Move allows.                *)
LEMMA RowMoves ==
    ASSUME IInv, [Next]_vars
    PROVE  \/ row' = row /\ work' = work
           \/ \E r \in Runs, w \in Rows : row' = [row EXCEPT ![r] = w] /\ Move(r, w)
<1> DEFINE Goal == \/ row' = row /\ work' = work
                   \/ \E r \in Runs, w \in Rows : row' = [row EXCEPT ![r] = w] /\ Move(r, w)
<1>0. TypeOK /\ TypeOK' /\ \A r \in Runs : RunInv(r) BY TypeStep DEF IInv
<1> SUFFICES Goal
  OBVIOUS
<1>f. ASSUME NEW r \in Runs, Failed(r) PROVE Goal
  <2>1. Fail(row[r]) \in Rows BY <1>0, RowOperators DEF TypeOK
  <2> QED BY <1>f, <2>1 DEF Failed, Move
<1>m. ASSUME NEW r \in Runs, row' = [row EXCEPT ![r] = row'[r]], Move(r, row'[r]) PROVE Goal
  BY <1>0, <1>m DEF TypeOK
<1> HIDE DEF Goal
<1>1. ASSUME NEW r \in Runs, NEW body \in Bodies, Submit(r, body) PROVE Goal
  <2>1. row' = [row EXCEPT ![r] = row'[r]] /\ work' = work
    BY <1>0, <1>1 DEF Submit, TypeOK
  <2>2. [body |-> body, source |-> deployment] \in Requests
    BY <1>0 DEF Requests, TypeOK
  <2>3. Move(r, row'[r]) BY <1>0, <1>1, <2>1, <2>2 DEF Submit, Move, TypeOK
  <2> QED BY <1>m, <2>1, <2>3
<1>2. ASSUME NEW r \in Runs, NEW approved \in BOOLEAN, RecordApproval(r, approved) PROVE Goal
  <2> DEFINE a == [approved |-> approved, digest |-> Digest(row[r].proposal)]
  <2>1. row' = [row EXCEPT ![r] = row'[r]] /\ work' = work
    BY <1>0, <1>2 DEF RecordApproval, TypeOK
  <2>2. a \in Approvals
    BY <1>0, <1>2 DEF RecordApproval, TypeOK, Rows, Approvals, Digests, Digest
  <2>3. a # None BY <2>2, ConstantsAssumption
  <2>4. \/ row'[r] = row[r]
        \/ CanApprove(row[r], a) /\ row'[r] = Approve(row[r], a)
    BY <1>0, <1>2, <2>3 DEF RecordApproval, TypeOK
  <2>5. Move(r, row'[r]) BY <2>1, <2>2, <2>4 DEF Move
  <2> QED BY <1>m, <2>1, <2>5
<1>3. ASSUME NEW r \in Runs, RetryRun(r) PROVE Goal
  BY <1>0, <1>3, <1>m DEF RetryRun, Move, TypeOK
<1>4. ASSUME NEW r \in Runs, Begin(r) PROVE Goal
  <2>1. CASE Failed(r) BY <1>f, <2>1
  <2>2. CASE ~Failed(r)
    BY <1>0, <1>4, <1>m, <2>2 DEF Begin, Move, TypeOK, storeVars, Goal
  <2> QED BY <2>1, <2>2
<1>5. ASSUME NEW r \in Runs, RecoverOutcome(r) PROVE Goal
  BY <1>0, <1>5, <1>m DEF RecoverOutcome, Move, TypeOK
<1>6. ASSUME NEW r \in Runs, JournalRecovery(r) PROVE Goal
  BY <1>6, <1>f DEF JournalRecovery, storeVars, Goal
<1>7. ASSUME NEW r \in Runs, LoadCheckpoint(r) PROVE Goal
  BY <1>7, <1>f DEF LoadCheckpoint, storeVars, Goal
<1>8. ASSUME NEW r \in Runs, PrepareReview(r) PROVE Goal
  <2>1. CASE Failed(r) BY <1>f, <2>1
  <2>2. CASE ~Failed(r)
    BY <1>0, <1>8, <1>m, <2>2 DEF PrepareReview, Move, TypeOK
  <2> QED BY <2>1, <2>2
<1>9. ASSUME NEW r \in Runs, PrepareProposal(r) PROVE Goal
  BY <1>9, <1>f DEF PrepareProposal, storeVars, Goal
<1>10. ASSUME NEW r \in Runs, AwaitApproval(r) PROVE Goal
  <2>1. CASE Failed(r) BY <1>f, <2>1
  <2>2. CASE ~Failed(r)
    <3> DEFINE p == task[r].graph.proposal
    <3>1. /\ CanWait(row[r], p) /\ row' = [row EXCEPT ![r] = Wait(row[r], p)] /\ work' = work
          /\ At(r, "pending") /\ task[r].response = None
      BY <1>10, <2>2 DEF AwaitApproval
    <3>2. p \in Proposals
      BY <1>0, <3>1 DEF At, TypeOK, Tasks, Checkpoints, RunInv, WellFormed
    <3>3. row[r].status = "running" /\ row[r].outcome = None
      BY <1>0, <3>1 DEF At, Stepping, RunInv, TaskInv, CanWait
    <3>4. row[r].approval = None
      BY <1>0, <3>1, <3>3 DEF At, Stepping, RunInv, TaskInv
    <3>5. row'[r] = Wait(row[r], p) BY <1>0, <3>1 DEF TypeOK
    <3>6. Move(r, row'[r]) BY <3>1, <3>2, <3>3, <3>4, <3>5 DEF Move
    <3> QED BY <1>m, <3>1, <3>5, <3>6
  <2> QED BY <2>1, <2>2
<1>11. ASSUME NEW r \in Runs, Decide(r) PROVE Goal
  <2>1. CASE Failed(r) BY <1>f, <2>1
  <2>2. CASE ~Failed(r)
    <3> DEFINE p == task[r].graph.proposal
               a == task[r].response
    <3>1. /\ CanDecide(row[r], p, a)
          /\ row' = [row EXCEPT ![r] = Record(row[r], Decided(a))]
          /\ work' = IF a.approved THEN [work EXCEPT ![r] = p] ELSE work
      BY <1>11, <2>2 DEF Decide
    <3>2. /\ a # None /\ a = row[r].approval /\ p = row[r].proposal
          /\ row[r].outcome = None /\ row[r].status = "running"
      BY <1>11, <3>1 DEF Decide, CanDecide, MatchesDecision
    <3>3. row'[r] = Record(row[r], Decided(a)) BY <1>0, <3>1 DEF TypeOK
    <3>4. Move(r, row'[r]) BY <3>1, <3>2, <3>3 DEF Move
    <3> QED BY <1>m, <3>1, <3>3, <3>4
  <2> QED BY <2>1, <2>2
<1>12. ASSUME NEW r \in Runs, Complete(r) PROVE Goal
  <2>1. CASE Failed(r) BY <1>f, <2>1
  <2>2. CASE ~Failed(r)
    BY <1>0, <1>12, <1>m, <2>2 DEF Complete, CanFinish, Move, TypeOK
  <2> QED BY <2>1, <2>2
<1>13. ASSUME NEW r \in Runs, Finished(r) PROVE Goal
  BY <1>0, <1>13, <1>m DEF Finished, Move, TypeOK
<1>14. ASSUME NEW r \in Runs, RequireHealthy(r) \/ StepFails(r) PROVE Goal
  BY <1>14, <1>f DEF RequireHealthy, StepFails
<1>15. ASSUME NEW r \in Runs,
              \/ SaveCheckpoint(r) \/ ReadEvidence(r) \/ Investigate(r) \/ RequestApproval(r)
              \/ SaveCheckpointFails(r) \/ StepRaises(r) \/ CorruptFile(r)
       PROVE  Goal
  BY <1>15
  DEF Goal, SaveCheckpoint, ReadEvidence, Investigate, RequestApproval,
      SaveCheckpointFails, StepRaises, CorruptFile, storeVars
<1>16. ASSUME Crash \/ (\E source \in Sources : Restart(source)) \/ Tick \/ UNCHANGED vars
       PROVE  Goal
  BY <1>16 DEF Goal, Crash, Restart, Tick, vars, storeVars
<1> QED
  BY <1>1, <1>2, <1>3, <1>4, <1>5, <1>6, <1>7, <1>8, <1>9, <1>10, <1>11, <1>12,
     <1>13, <1>14, <1>15, <1>16
  DEF Next, Api, Runner, Workflow, Faulty

(* Requests, decisions, judged proposals, outcomes and completion are      *)
(* final, through every retry, late failure, crash and restart.            *)
THEOREM RecordsStayFinal == Spec => RecordsAreFinal
<1>1. ASSUME IInv, [Next]_vars, NEW q \in Runs PROVE FinalRecord(q)
  <2>0. row \in [Runs -> Rows] /\ row[q] \in Rows /\ RunInv(q) BY <1>1 DEF IInv, TypeOK
  <2>1. CASE row'[q] = row[q] BY <2>1 DEF FinalRecord
  <2>2. CASE row'[q] # row[q]
    <3>1. Move(q, row'[q])
      BY <1>1, <2>0, <2>2, RowMoves
    <3>2. row[q] = NoRow => row[q].approval = None /\ row[q].outcome = None
                            /\ row[q].status = "absent"
      BY DEF NoRow
    <3> QED
      BY <2>0, <2>2, <3>1, <3>2
      DEF FinalRecord, Move, Start, Wait, CanApprove, Approve, Finish, Fail, CanRetry,
          Retry, CanReview, Record, Rows, RunInv, Receipts, RowInv
  <2> QED BY <2>1, <2>2
<1>2. IInv /\ [Next]_vars => [\A r \in Runs : FinalRecord(r)]_vars
  BY <1>1
<1> QED BY <1>2, Inductive, PTL DEF Spec, RecordsAreFinal

(* The newest checkpoint of a run only advances along the graph, and keeps *)
(* the coverage clock and the proposal that earlier steps fixed: recovery  *)
(* never reads sources again under an old proposal.                        *)
THEOREM StepsNeverRepeat == Spec => StepsAreNotRepeated
<1>1. ASSUME IInv, [Next]_vars, NEW q \in Runs PROVE Extends(ckpt'[q], ckpt[q])
  <2>0. TypeOK /\ RunInv(q) BY <1>1 DEF IInv
  <2>1. Extends(ckpt[q], ckpt[q])
    BY <2>0 DEF TypeOK, Checkpoints, Stages, Extends, Rank
  <2>2. ASSUME NEW r \in Runs, SaveCheckpoint(r) PROVE Extends(ckpt'[q], ckpt[q])
    <3>1. CASE q = r
      <4>1. ckpt'[q] = task[q].graph
        BY <2>0, <2>2, <3>1 DEF SaveCheckpoint, TypeOK
      <4>2. Extends(task[q].graph, ckpt[q])
        BY <2>0, <2>2, <3>1 DEF SaveCheckpoint, Stepping, RunInv, TaskInv
      <4> QED BY <4>1, <4>2
    <3>2. CASE q # r
      BY <2>0, <2>1, <2>2, <3>2 DEF SaveCheckpoint, TypeOK
    <3> QED BY <3>1, <3>2
  <2>3. CASE ckpt' = ckpt BY <2>1, <2>3
  <2>4. ckpt' = ckpt \/ \E r \in Runs : SaveCheckpoint(r)
    <3>1. ASSUME NEW r \in Runs, Api(r) PROVE ckpt' = ckpt
      BY <3>1 DEF Api, Submit, RecordApproval, RetryRun, fileVars
    <3>2. ASSUME NEW r \in Runs, Workflow(r) PROVE ckpt' = ckpt
      BY <3>2 DEF Workflow, ReadEvidence, Investigate, PrepareReview, PrepareProposal,
                  RequestApproval, AwaitApproval, Decide, Complete, Failed, fileVars
    <3>3. ASSUME NEW r \in Runs, Runner(r) PROVE ckpt' = ckpt \/ SaveCheckpoint(r)
      BY <3>2, <3>3 DEF Runner, Begin, RecoverOutcome, JournalRecovery, LoadCheckpoint,
                        RequireHealthy, Finished, Failed, fileVars
    <3>4. ASSUME NEW r \in Runs, Faulty(r) PROVE ckpt' = ckpt
      BY <3>4 DEF Faulty, SaveCheckpointFails, StepFails, StepRaises, CorruptFile, Failed,
                  fileVars
    <3>5. ASSUME Crash \/ (\E s \in Sources : Restart(s)) \/ Tick \/ UNCHANGED vars
          PROVE  ckpt' = ckpt
      BY <3>5 DEF Crash, Restart, Tick, vars, fileVars
    <3> QED BY <1>1, <3>1, <3>3, <3>4, <3>5 DEF Next
  <2> QED BY <2>2, <2>3, <2>4
<1>2. IInv /\ [Next]_vars => [\A r \in Runs : Extends(ckpt'[r], ckpt[r])]_vars
  BY <1>1
<1> QED BY <1>2, Inductive, PTL DEF Spec, StepsAreNotRepeated

(* Only Decide writes validation_work.                                     *)
LEMMA OnlyDecideWrites ==
    ASSUME [Next]_vars, work' # work PROVE \E r \in Runs : Decide(r) /\ ~Failed(r)
<1>1. ASSUME NEW r \in Runs, Api(r) PROVE work' = work
  BY <1>1 DEF Api, Submit, RecordApproval, RetryRun, storeVars
<1>2. ASSUME NEW r \in Runs, Workflow(r) PROVE work' = work \/ (Decide(r) /\ ~Failed(r))
  BY <1>2 DEF Workflow, ReadEvidence, Investigate, PrepareReview, PrepareProposal,
              RequestApproval, AwaitApproval, Decide, Complete, Failed, storeVars
<1>3. ASSUME NEW r \in Runs, Runner(r) PROVE work' = work \/ (Decide(r) /\ ~Failed(r))
  BY <1>2, <1>3 DEF Runner, Begin, RecoverOutcome, JournalRecovery, LoadCheckpoint,
                    SaveCheckpoint, RequireHealthy, Finished, Failed, storeVars
<1>4. ASSUME NEW r \in Runs, Faulty(r) PROVE work' = work
  BY <1>4 DEF Faulty, SaveCheckpointFails, StepFails, StepRaises, CorruptFile, Failed,
              storeVars
<1>5. ASSUME Crash \/ (\E s \in Sources : Restart(s)) \/ Tick \/ UNCHANGED vars
      PROVE  work' = work
  BY <1>5 DEF Crash, Restart, Tick, vars, storeVars
<1> QED BY <1>1, <1>3, <1>4, <1>5 DEF Next

(* Whatever delays, crashes and retries lie between them, the work-order   *)
(* read a proposal rests on is less than Window old when its approved work *)
(* is written, and the writer is configured with the source that was read. *)
THEOREM WritesStayCovered == Spec => WritesAreCovered
<1>1. ASSUME IInv, [Next]_vars, NEW q \in Runs PROVE CoveredWrite(q)
  <2> SUFFICES ASSUME work'[q] # work[q]
               PROVE  /\ up /\ deployment = row[q].request.source
                      /\ work[q] = None
                      /\ ckpt[q].coverage \in Nat /\ now < ckpt[q].coverage + Window
    BY DEF CoveredWrite
  <2>0. TypeOK /\ RunInv(q) BY <1>1 DEF IInv
  <2>1. PICK r \in Runs : Decide(r) /\ ~Failed(r) BY <1>1, OnlyDecideWrites
  <2> DEFINE p == task[r].graph.proposal
             a == task[r].response
  <2>2. /\ CanDecide(row[r], p, a)
        /\ work' = IF a.approved THEN [work EXCEPT ![r] = p] ELSE work
        /\ At(r, "pending") /\ a # None
    BY <2>1 DEF Decide
  <2>3. q = r /\ a.approved BY <2>0, <2>2 DEF TypeOK
  <2>4. /\ row[q].outcome = None /\ now < p.expires
        /\ row[q].proposal = p /\ row[q].approval = a
    BY <2>2, <2>3 DEF CanDecide, MatchesDecision
  <2>5. /\ up /\ deployment = row[q].request.source /\ ckpt[q] = task[q].graph
        /\ p # None
    BY <2>0, <2>2, <2>3 DEF At, Stepping, RunInv, TaskInv, WellFormed
  <2>6. work[q] = None
    BY <2>0, <2>4, ConstantsAssumption DEF RunInv, Receipts, Outcomes
  <2>7. ckpt[q].coverage \in Nat /\ p.expires <= ckpt[q].coverage + Window
    BY <2>0, <2>3, <2>5 DEF RunInv, WellFormed
  <2>8. p.expires \in Nat /\ now \in Nat
    BY <2>0, <2>3, <2>5 DEF TypeOK, Tasks, Checkpoints, Proposals, Time
  <2>9. now < ckpt[q].coverage + Window
    BY <2>4, <2>7, <2>8, ConstantsAssumption
  <2> QED BY <2>5, <2>6, <2>7, <2>9
<1>2. IInv /\ [Next]_vars => [\A r \in Runs : CoveredWrite(r)]_vars
  BY <1>1
<1> QED BY <1>2, Inductive, PTL DEF Spec, WritesAreCovered

(* Refinement: every transaction is a step of ReviewLifecycle or a stutter.*)
LEMMA PromiseStep == IInv /\ [Next]_vars => [Promise!Next]_(Promise!vars)
<1> SUFFICES ASSUME IInv, [Next]_vars PROVE [Promise!Next]_(Promise!vars)
  OBVIOUS
<1> DEFINE verdict == [q \in Runs |-> Verdict(row[q])]
           result == [q \in Runs |-> row[q].outcome]
           closed == [q \in Runs |-> row[q].status = "completed"]
<1>0. /\ TypeOK /\ TypeOK' /\ row \in [Runs -> Rows]
      /\ \A r \in Runs : RunInv(r) /\ row[r] \in Rows
  BY TypeStep DEF IInv, TypeOK
<1>1. CASE row' = row /\ work' = work BY <1>1 DEF Promise!vars
<1>2. ASSUME NEW r \in Runs, NEW w \in Rows, row' = [row EXCEPT ![r] = w], Move(r, w)
      PROVE  [Promise!Next]_(Promise!vars)
  <2>v. verdict' = [verdict EXCEPT ![r] = Verdict(w)]
    BY <1>0, <1>2
  <2>r. result' = [result EXCEPT ![r] = w.outcome]
    BY <1>0, <1>2
  <2>c. closed' = [closed EXCEPT ![r] = (w.status = "completed")]
    <3>1. ASSUME NEW q \in Runs
          PROVE  closed'[q] = [closed EXCEPT ![r] = (w.status = "completed")][q]
      <4>1. CASE q = r BY <1>0, <1>2, <4>1
      <4>2. CASE q # r BY <1>0, <1>2, <4>2
      <4> QED BY <4>1, <4>2
    <3> QED BY <3>1
  <2>q. ASSUME Verdict(w) = Verdict(row[r]), w.outcome = row[r].outcome,
               w.status = "completed" <=> row[r].status = "completed", work' = work
        PROVE  UNCHANGED Promise!vars
    <3>1. verdict' = verdict BY <1>0, <1>2, <2>q
    <3>2. result' = result BY <1>0, <1>2, <2>q
    <3>3. closed' = closed
      <4>1. ASSUME NEW q \in Runs PROVE closed'[q] = closed[q]
        BY <1>0, <1>2, <2>q
      <4> QED BY <4>1
    <3> QED BY <2>q, <3>1, <3>2, <3>3 DEF Promise!vars
  <2>s. closed' = closed <=> (w.status = "completed" <=> row[r].status = "completed")
    <3>1. (w.status = "completed" <=> row[r].status = "completed") => closed' = closed
      <4>1. ASSUME w.status = "completed" <=> row[r].status = "completed", NEW q \in Runs
            PROVE  closed'[q] = closed[q]
        BY <1>0, <1>2, <4>1
      <4> QED BY <4>1
    <3>2. closed' = closed => (w.status = "completed" <=> row[r].status = "completed")
      <4>1. closed'[r] = (w.status = "completed") BY <1>0, <1>2
      <4>2. closed[r] = (row[r].status = "completed") OBVIOUS
      <4> QED BY <4>1, <4>2
    <3> QED BY <3>1, <3>2
  <2>1. CASE w = row[r] /\ work' = work BY <2>1, <2>q
  <2>2. CASE row[r] = NoRow /\ work' = work
             /\ \E q \in Requests : w = [NoRow EXCEPT !.request = q, !.status = "queued"]
    BY <2>2, <2>q DEF NoRow, Verdict
  <2>3. CASE row[r].status \in {"queued", "running"} /\ w = Start(row[r]) /\ work' = work
    BY <1>0, <2>3, <2>q DEF Start, Rows, Verdict
  <2>4. CASE row[r].approval = None /\ row[r].outcome = None /\ row[r].status = "running"
             /\ work' = work /\ \E p \in Proposals : w = Wait(row[r], p)
    BY <1>0, <2>4, <2>q DEF Wait, Rows, Verdict
  <2>5. CASE w = Fail(row[r]) /\ work' = work
    BY <1>0, <2>5, <2>q DEF Fail, Rows, Verdict
  <2>6. CASE CanRetry(row[r]) /\ w = Retry(row[r]) /\ work' = work
    BY <1>0, <2>6, <2>q DEF CanRetry, Retry, Rows, Verdict
  <2>7. CASE work' = work
             /\ \E a \in Approvals : CanApprove(row[r], a) /\ w = Approve(row[r], a)
    <3>1. PICK a \in Approvals : CanApprove(row[r], a) /\ w = Approve(row[r], a) BY <2>7
    <3>2. /\ w.outcome = row[r].outcome /\ w.approval = a /\ w.proposal = row[r].proposal
          /\ row[r].outcome = None /\ w.status = "queued" /\ row[r].status = "waiting"
          /\ row[r].approval = None /\ row[r].proposal \in Proposals
      BY <1>0, <3>1 DEF CanApprove, Approve, Rows, RunInv, RowInv
    <3>3. a.approved \in BOOLEAN /\ a # None
      BY <3>1, ConstantsAssumption DEF Approvals
    <3>4. Verdict(w) \in Promise!Verdicts
      BY <3>2, <3>3 DEF Verdict, Promise!Verdicts
    <3>5. verdict[r] = None /\ result[r] = None /\ verdict'[r] = Verdict(w)
      BY <1>0, <2>v, <3>2 DEF Verdict
    <3>6. result' = result BY <1>0, <2>r, <3>2
    <3>7. closed' = closed BY <2>s, <3>2
    <3> QED
      BY <2>v, <2>7, <3>4, <3>5, <3>6, <3>7 DEF Promise!Judge, Promise!Next
  <2>8. CASE row[r].outcome # None /\ w = Finish(row[r]) /\ work' = work
    <3>1. /\ w.outcome = row[r].outcome /\ Verdict(w) = Verdict(row[r])
          /\ w.status = "completed"
      BY <1>0, <2>8 DEF Finish, Rows, Verdict
    <3>2. verdict' = verdict BY <1>0, <2>v, <3>1
    <3>3. result' = result /\ result[r] # None BY <1>0, <2>r, <2>8, <3>1
    <3>4. closed' = [closed EXCEPT ![r] = TRUE] BY <2>c, <3>1
    <3> QED BY <2>8, <3>2, <3>3, <3>4 DEF Promise!Close, Promise!Next
  <2>9. CASE CanReview(row[r]) /\ row[r].outcome = None /\ work' = work
             /\ \E review \in Reviews : w = Record(row[r], review)
    <3>1. PICK review \in Reviews : w = Record(row[r], review) BY <2>9
    <3>2. /\ w.outcome = review /\ Verdict(w) = Verdict(row[r]) /\ Verdict(row[r]) = None
          /\ w.status = row[r].status
      BY <1>0, <2>9, <3>1 DEF Record, Rows, Verdict, CanReview
    <3>3. verdict' = verdict /\ verdict[r] = None BY <1>0, <2>v, <3>2
    <3>4. result' = [result EXCEPT ![r] = review] /\ result[r] = None
      BY <2>r, <2>9, <3>2
    <3>5. closed' = closed BY <2>s, <3>2
    <3> QED BY <2>9, <3>3, <3>4, <3>5 DEF Promise!Conclude, Promise!Next
  <2>10. CASE row[r].approval # None /\ row[r].outcome = None /\ row[r].status = "running"
              /\ w = Record(row[r], Decided(row[r].approval))
              /\ work' = IF row[r].approval.approved
                         THEN [work EXCEPT ![r] = row[r].proposal] ELSE work
    <3> DEFINE a == row[r].approval
    <3>1. /\ w.outcome = Decided(a) /\ Verdict(w) = Verdict(row[r])
          /\ w.status = row[r].status
      BY <1>0, <2>10 DEF Record, Rows, Verdict
    <3>2. verdict' = verdict BY <1>0, <2>v, <3>1
    <3>3. closed' = closed BY <2>s, <3>1
    <3>4. result' = [result EXCEPT ![r] = Decided(a)] /\ result[r] = None
      BY <2>r, <2>10, <3>1
    <3>5. verdict[r] = [proposal |-> row[r].proposal, approved |-> a.approved]
      BY <2>10 DEF Verdict
    <3>6. verdict[r] # None /\ verdict[r].approved = a.approved
          /\ verdict[r].proposal = row[r].proposal
      <4>1. [proposal |-> row[r].proposal, approved |-> a.approved] # None
        BY <1>0, <2>10, ConstantsAssumption
        DEF Rows, Approvals, Verdicts, RunInv, RowInv
      <4> QED BY <3>5, <4>1
    <3>7. CASE a.approved
      BY <2>10, <3>2, <3>3, <3>4, <3>6, <3>7 DEF Decided, Promise!Perform, Promise!Next
    <3>8. CASE ~a.approved
      BY <2>10, <3>2, <3>3, <3>4, <3>6, <3>8 DEF Decided, Promise!Decline, Promise!Next
    <3> QED BY <3>7, <3>8
  <2> QED
    BY <1>2, <2>1, <2>2, <2>3, <2>4, <2>5, <2>6, <2>7, <2>8, <2>9, <2>10 DEF Move
<1> QED BY <1>1, <1>2, RowMoves

(* The durable review implements its promise: through every crash, retry   *)
(* and fault its database shows one verdict, one result, the effect of an  *)
(* approval together with its receipt, and closing last.                   *)
THEOREM ReviewKeepsPromise == Spec => KeepsPromise
<1>1. Init => Promise!Init
  <2> SUFFICES ASSUME Init PROVE Promise!Init
    OBVIOUS
  <2>1. \A r \in Runs : /\ Verdict(row[r]) = None /\ row[r].outcome = None
                       /\ (row[r].status = "completed") = FALSE
    BY DEF Init, NoRow, Verdict
  <2>2. [r \in Runs |-> row[r].status = "completed"] = [r \in Runs |-> FALSE]
    BY <2>1
  <2> QED BY <2>1, <2>2 DEF Init, Promise!Init
<1> QED BY <1>1, PromiseStep, Inductive, PTL DEF Spec, KeepsPromise, Promise!Spec

============================================================================
