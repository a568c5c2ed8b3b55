--------------------------- MODULE SetupJobProofs ---------------------------
(***************************************************************************)
(* Proofs about SetupJob for any number of jobs, exits, failures and       *)
(* edits, and every order of requests, threads, children and restarts.     *)
(***************************************************************************)
EXTENDS SetupJob, TLAPS

(* What the invariant says of one job.                                     *)
Claimed(j) == \A r \in {job[j], disk[j], snapshot[j]} \ {None} : Claims(r)
Obeys(j) == j \in cancel /\ worker[j] = "monitor" => ~Alive(j)
PerJob(j) == WorkerInv(j) /\ ChildInv(j) /\ SubmissionInv(j) /\ Claimed(j) /\ Obeys(j)

Synced == \A p \in Parts : workspace[p] <= checkout[p]
OneRunning == \A j, k \in Jobs : Running(j) /\ Running(k) => j = k

JInv == TypeOK /\ OneActiveRun /\ Synced /\ OneRunning /\ \A j \in Jobs : PerJob(j)

(* The invariant, job by job.                                              *)
LEMMA Parts_of_IInv == (IInv <=> JInv) /\ (IInv' <=> JInv')
BY DEF IInv, JInv, Synced, OneRunning, PerJob, Claimed, Obeys, CancelledCommandsEnd, TypeOK

(* None is no job, record, child or outcome.                               *)
LEMMA NoneIsApart == /\ None \notin Jobs /\ None \notin Records
                     /\ None \notin Children /\ None \notin Terminal
BY ConstantsAssumption DEF ConstantsAssumption

(* Updates of a record give records.                                       *)
LEMMA RecordUpdates ==
    ASSUME NEW r \in Records
    PROVE  /\ \A s \in Ended \cup {"running", "interrupted"} :
                 /\ [r EXCEPT !.status = s] \in Records
                 /\ [r EXCEPT !.status = s].status = s
           /\ \A k \in Jobs : [r EXCEPT !.resumedBy = k] \in Records
           /\ \A k \in Jobs, s \in Terminal \cup {None} :
                 [r EXCEPT !.url = k, !.state = s] \in Records
           /\ \A s \in Terminal \cup {None} : [r EXCEPT !.state = s] \in Records
           /\ [r EXCEPT !.pending = {}] \in Records
           /\ \A c \in 0..3 : [r EXCEPT !.completed = c] \in Records
BY DEF Records

(* What is claimed of Fabric stays true as Fabric goes on.                 *)
Onward ==
    /\ \A k \in Jobs : run[k].state # "none" =>
          /\ run'[k].state # "none" /\ run'[k].core = run[k].core
          /\ run[k].state = "Completed" => run'[k].state = "Completed"
    /\ \A p \in Parts : workspace'[p] >= workspace[p] /\ checkout'[p] >= checkout[p]
(* A record's claims outlive any step of Fabric and of the checkout.       *)
LEMMA ClaimsLast ==
    ASSUME TypeOK, TypeOK', Onward, NEW r \in Records, Claims(r)
    PROVE  Claims(r)'
<1>1. /\ workspace \in Sources /\ checkout \in Sources /\ workspace' \in Sources
      /\ checkout' \in Sources /\ r.source \in Sources
      /\ run \in [Jobs -> PipelineRuns] /\ run' \in [Jobs -> PipelineRuns]
      /\ r.url \in Jobs \cup {None}
  BY DEF TypeOK, Records
<1>2. \A p \in Parts : r.source[p] <= checkout'[p]
  BY <1>1 DEF Claims, Onward, Sources
<1>3. r.completed >= Sync => \A p \in Parts \ r.pending : workspace'[p] >= r.source[p]
  BY <1>1 DEF Claims, Onward, Sources
<1>4. r.completed >= Setup =>
        \E k \in Jobs : run'[k].state = "Completed" /\ run'[k].core >= r.source["core"]
  BY <1>1 DEF Claims, Onward
<1>5. /\ r.url # None => run'[r.url].state # "none" /\ run'[r.url].core >= r.source["core"]
      /\ r.state = "Completed" => r.url # None /\ run'[r.url].state = "Completed"
  BY <1>1 DEF Claims, Onward
<1> QED BY <1>2, <1>3, <1>4, <1>5 DEF Claims

-----------------------------------------------------------------------------
(* Steps of one job that leave Fabric and the checkout alone.              *)
Only(j) ==
    /\ \A d \in Jobs \ {j} :
          /\ job'[d] = job[d] /\ disk'[d] = disk[d] /\ worker'[d] = worker[d]
          /\ snapshot'[d] = snapshot[d] /\ child'[d] = child[d]
          /\ d \in cancel' <=> d \in cancel
    /\ UNCHANGED <<run, workspace, orphans, checkout>>

(* A job that a step leaves alone keeps its invariant.                     *)
LEMMA Untouched ==
    ASSUME NEW d \in Jobs, PerJob(d),
           job'[d] = job[d], disk'[d] = disk[d], worker'[d] = worker[d],
           snapshot'[d] = snapshot[d], child'[d] = child[d], d \in cancel' <=> d \in cancel,
           UNCHANGED <<run, workspace, orphans, checkout>>
    PROVE  PerJob(d)'
<1>1. WorkerInv(d)' BY DEF PerJob, WorkerInv, Running
<1>2. ChildInv(d)' BY DEF PerJob, ChildInv, Active
<1>3. SubmissionInv(d)' BY DEF PerJob, SubmissionInv, Running
<1>4. Claimed(d)' BY DEF PerJob, Claimed, Claims
<1>5. Obeys(d)' BY DEF PerJob, Obeys, Alive
<1> QED BY <1>1, <1>2, <1>3, <1>4, <1>5 DEF PerJob

(* A step of one job need only keep that job's invariant.                  *)
LEMMA LocalStep ==
    ASSUME IInv, NEW j \in Jobs, Only(j), TypeOK', PerJob(j)', Running(j)' => Running(j)
    PROVE  IInv'
<1>0. OneActiveRun /\ Synced /\ OneRunning /\ \A d \in Jobs : PerJob(d) BY Parts_of_IInv DEF JInv
<1>1. OneActiveRun' BY <1>0 DEF OneActiveRun, Active, Only
<1>2. Synced' BY <1>0 DEF Synced, Only
<1>3. OneRunning'
  <2>1. \A d \in Jobs : Running(d)' => Running(d) BY DEF Only, Running
  <2> QED BY <1>0, <2>1 DEF OneRunning
<1>4. ASSUME NEW d \in Jobs \ {j} PROVE PerJob(d)' BY <1>0, Untouched DEF Only
<1> QED BY <1>1, <1>2, <1>3, <1>4, Parts_of_IInv DEF JInv

(* Claims speak of these fields of a record only.                          *)
LEMMA ReClaims ==
    ASSUME NEW r \in Records, NEW q \in Records, Claims(r), q.source = r.source,
           q.completed = r.completed, q.pending = r.pending, q.url = r.url, q.state = r.state
    PROVE  Claims(q)
BY DEF Claims

Else == UNCHANGED <<snapshot, cancel, parent, fabricVars, checkout>> /\ events' \in Nat

(* A running job ends, whatever its worker was doing.                      *)
LEMMA EndStep ==
    ASSUME IInv, NEW j \in Jobs, Running(j), NEW r \in Records, r.status \in Ended,
           Claims(r), End(j, r), Else
    PROVE  IInv'
<1>1. TypeOK /\ PerJob(j) BY Parts_of_IInv DEF JInv
<1>2. Only(j) BY <1>1 DEF Only, End, Go, Else, fabricVars, TypeOK
<1>3. TypeOK' BY <1>1 DEF TypeOK, End, Go, Else, fabricVars
<1>4. /\ job'[j] = r /\ worker'[j] = "ending" /\ child'[j] = None
      /\ disk'[j] = disk[j] /\ snapshot'[j] = snapshot[j]
  BY <1>1 DEF End, Go, Else, TypeOK
<1>5. ~Running(j)' BY <1>4 DEF Running, Ended
<1>6. WorkerInv(j)' BY <1>1, <1>4, <1>5, NoneIsApart DEF PerJob, WorkerInv, Else, fabricVars
<1>7. ChildInv(j)' BY <1>4 DEF ChildInv
<1>8. SubmissionInv(j)' BY <1>1, <1>4, <1>5 DEF SubmissionInv, PerJob, WorkerInv
<1>9. Claimed(j)' BY <1>1, <1>4 DEF PerJob, Claimed, Claims, Else, fabricVars
<1>10. Obeys(j)' BY <1>4 DEF Obeys
<1> QED BY <1>2, <1>3, <1>5, <1>6, <1>7, <1>8, <1>9, <1>10, LocalStep DEF PerJob

(* ... and with the record it has.                                         *)
LEMMA EndsAsItIs ==
    ASSUME IInv, NEW j \in Jobs, Running(j), NEW s \in Ended,
           End(j, [job[j] EXCEPT !.status = s]), Else
    PROVE  IInv'
<1>1. TypeOK /\ Claimed(j) BY Parts_of_IInv DEF JInv, PerJob
<1>2. job[j] \in Records BY <1>1 DEF TypeOK, Running
<1>3. PICK r \in Records : r = [job[j] EXCEPT !.status = s]
  BY <1>2, RecordUpdates
<1>4. job[j] # None /\ Claims(job[j]) BY <1>1 DEF Claimed, Running
<1>5. r.status = s /\ Claims(r) BY <1>2, <1>3, <1>4 DEF Claims, Records
<1> QED BY <1>3, <1>5, EndStep

(* The worker finds its job cancelled, or done.                            *)
LEMMA StepProceed == ASSUME IInv, NEW j \in Jobs, Proceed(j) PROVE IInv'
<1>1. TypeOK /\ PerJob(j) BY Parts_of_IInv DEF JInv
<1>2. Running(j) BY <1>1 DEF PerJob, WorkerInv, Proceed
<1>3. Else BY <1>1 DEF Proceed, Else, boundVars, TypeOK
<1>4. "cancelled" \in Ended /\ "succeeded" \in Ended BY DEF Ended
<1> QED BY <1>2, <1>3, <1>4, EndsAsItIs DEF Proceed

(* The worker starts a command.                                            *)
LEMMA StepLaunch == ASSUME IInv, NEW j \in Jobs, Launch(j) PROVE IInv'
<1>1. TypeOK /\ PerJob(j) BY Parts_of_IInv DEF JInv
<1>2. Running(j) BY <1>1 DEF PerJob, WorkerInv, Launch
<1>3. job[j] \in Records /\ job[j] # None BY <1>1, <1>2 DEF TypeOK, Running
<1>4. CASE Event /\ End(j, [job[j] EXCEPT !.status = Outcome(j)])
  <2>1. Else BY <1>1, <1>4 DEF Launch, Else, Event, TypeOK
  <2>2. Outcome(j) \in Ended BY DEF Outcome, Ended
  <2> QED BY <1>2, <1>4, <2>1, <2>2, EndsAsItIs
<1>5. CASE /\ child' = [child EXCEPT ![j] = Command(job[j])]
           /\ Go(j, "launched")
           /\ UNCHANGED <<job, disk, events>>
  <2>1. Only(j) BY <1>1, <1>5 DEF Only, Launch, Go, fabricVars, TypeOK
  <2>2. job[j].completed \in 0..2
    BY <1>1, <1>3 DEF Launch, PerJob, WorkerInv, Records, Combined
  <2>3. Command(job[j]) \in Children
    BY <1>3, <2>2 DEF Command, Children, Stages, Records, MonitorPending, Notebooks, Setup
  <2>4. TypeOK' BY <1>1, <1>5, <2>3 DEF TypeOK, Launch, Go, fabricVars
  <2>5. /\ job'[j] = job[j] /\ disk'[j] = disk[j] /\ snapshot'[j] = snapshot[j]
        /\ worker'[j] = "launched" /\ child'[j] = Command(job[j]) /\ child'[j] # None
    BY <1>1, <1>5, <2>3, NoneIsApart DEF Launch, Go, TypeOK
  <2>6. Running(j)' BY <1>2, <2>5 DEF Running
  <2>7. UNCHANGED <<run, workspace, orphans, checkout>> BY DEF Launch, fabricVars
  <2>8. WorkerInv(j)'
    BY <1>1, <1>2, <2>2, <2>5, <2>6, <2>7 DEF PerJob, WorkerInv, Launch, Combined
  <2>9. Claims(job[j]) BY <1>1, <1>3 DEF PerJob, Claimed
  <2>10. ChildInv(j)'
    BY <1>3, <2>2, <2>5, <2>7, <2>9
       DEF ChildInv, Command, MonitorPending, Claims, Notebooks, Sync, Setup, Combined
  <2>11. child[j] = None BY <1>1 DEF Launch, PerJob, WorkerInv
  <2>12. SubmissionInv(j)' BY <1>1, <1>2, <2>5, <2>7, <2>11 DEF PerJob, SubmissionInv, Running
  <2>13. Claimed(j)' BY <1>1, <2>5, <2>7 DEF PerJob, Claimed, Claims
  <2>14. Obeys(j)' BY <2>5 DEF Obeys
  <2> QED BY <1>2, <2>1, <2>4, <2>8, <2>10, <2>12, <2>13, <2>14, LocalStep DEF PerJob
<1> QED BY <1>4, <1>5 DEF Launch

(* A command is registered, and killed if it was cancelled before.         *)
LEMMA StepRegister == ASSUME IInv, NEW j \in Jobs, Register(j) PROVE IInv'
<1>1. TypeOK /\ PerJob(j) BY Parts_of_IInv DEF JInv
<1>2. Running(j) BY <1>1 DEF PerJob, WorkerInv, Register
<1>3. child[j] \in Children /\ child[j] # None
  BY <1>1 DEF Register, PerJob, WorkerInv, TypeOK
<1>4. PICK s \in Stages :
        /\ child' = [child EXCEPT ![j].stage = s]
        /\ s = child[j].stage \/ s = "failed"
        /\ j \in cancel => s \in {"ok", "failed"}
  <2>1. child = [child EXCEPT ![j].stage = child[j].stage]
    BY <1>1, <1>3 DEF TypeOK, Children
  <2>2. child[j].stage \in Stages /\ "failed" \in Stages BY <1>3 DEF Children, Stages
  <2> QED BY <1>3, <2>1, <2>2 DEF Register, Become, Alive
<1>5. child'[j] = [child[j] EXCEPT !.stage = s] BY <1>1, <1>4 DEF TypeOK
<1>6. child'[j] \in Children /\ child'[j] # None
  BY <1>3, <1>5, NoneIsApart DEF Children
<1>7. /\ child'[j].step = child[j].step /\ child'[j].run = child[j].run
      /\ child'[j].stage = s
  BY <1>3, <1>5 DEF Children
<1>8. TypeOK' BY <1>1, <1>4, <1>5, <1>6 DEF TypeOK, Register, Go, fabricVars, boundVars
<1>9. Only(j) BY <1>1, <1>4 DEF Only, Register, Go, fabricVars, boundVars, TypeOK
<1>10. /\ job'[j] = job[j] /\ disk'[j] = disk[j] /\ snapshot'[j] = snapshot[j]
       /\ worker'[j] = "monitor" /\ UNCHANGED <<run, workspace, orphans, checkout, cancel>>
  BY <1>1 DEF Register, Go, TypeOK, fabricVars, boundVars
<1>11. WorkerInv(j)' BY <1>1, <1>2, <1>6, <1>10 DEF PerJob, WorkerInv, Register, Running
<1>12. ChildInv(j)' BY <1>1, <1>3, <1>4, <1>7, <1>10 DEF PerJob, ChildInv, Active
<1>13. SubmissionInv(j)'
  BY <1>1, <1>3, <1>4, <1>6, <1>7, <1>10 DEF PerJob, SubmissionInv, Running
<1>14. Claimed(j)' BY <1>1, <1>10 DEF PerJob, Claimed, Claims
<1>15. Obeys(j)' BY <1>4, <1>7, <1>10 DEF Obeys, Alive
<1>16. Running(j)' => Running(j) BY <1>2
<1> QED BY <1>8, <1>9, <1>11, <1>12, <1>13, <1>14, <1>15, <1>16, LocalStep DEF PerJob

(* A child comes to a stage that promises nothing, or only that no run is  *)
(* active.                                                                 *)
Idle(j) == child[j].step = Setup /\ child[j].stage = "live" /\ Active = {}

LEMMA StageStep ==
    ASSUME IInv, NEW j \in Jobs, Alive(j),
           \/ Become(j, "failed")
           \/ Idle(j) /\ Become(j, "checked"),
           UNCHANGED <<job, disk, worker, snapshot, parent, fabricVars, boundVars>>,
           \/ cancel' = cancel
           \/ cancel' = cancel \cup {j} /\ Become(j, "failed")
    PROVE  IInv'
<1>1. TypeOK /\ PerJob(j) BY Parts_of_IInv DEF JInv
<1>2. child[j] \in Children /\ child[j] # None BY <1>1 DEF Alive, TypeOK
<1>3. Running(j) BY <1>1, <1>2 DEF PerJob, WorkerInv
<1>4. PICK s \in {"failed", "checked"} :
        /\ child' = [child EXCEPT ![j].stage = s]
        /\ s = "checked" => Idle(j)
        /\ cancel' = cancel \/ (cancel' = cancel \cup {j} /\ s = "failed")
  BY <1>1, <1>2 DEF Become, TypeOK, Children
<1>5. /\ child'[j] = [child[j] EXCEPT !.stage = s]
      /\ child'[j].step = child[j].step /\ child'[j].run = child[j].run /\ child'[j].stage = s
  BY <1>1, <1>2, <1>4 DEF TypeOK, Children
<1>6. child'[j] \in Children /\ child'[j] # None
  BY <1>2, <1>5, NoneIsApart DEF Children, Stages
<1>7. TypeOK' BY <1>1, <1>4, <1>5, <1>6 DEF TypeOK, fabricVars, boundVars
<1>8. Only(j) BY <1>1, <1>4 DEF Only, fabricVars, boundVars, TypeOK
<1>9. WorkerInv(j)' BY <1>1, <1>2, <1>6 DEF PerJob, WorkerInv, Running, fabricVars
<1>10. ChildInv(j)' BY <1>1, <1>2, <1>4, <1>5 DEF PerJob, ChildInv, Active, Idle, fabricVars
<1>11. SubmissionInv(j)'
  BY <1>1, <1>2, <1>4, <1>5, <1>6 DEF PerJob, SubmissionInv, Running, Idle, fabricVars
<1>12. Claimed(j)' BY <1>1 DEF PerJob, Claimed, Claims, fabricVars, boundVars
<1>13. Obeys(j)' BY <1>1, <1>4, <1>5 DEF PerJob, Obeys, Alive
<1> QED
  BY <1>3, <1>7, <1>8, <1>9, <1>10, <1>11, <1>12, <1>13, LocalStep DEF PerJob

(* A child fails, whatever it was doing.                                   *)
LEMMA StepChildFails == ASSUME IInv, NEW j \in Jobs, ChildFails(j) PROVE IInv'
BY StageStep DEF ChildFails

(* A child has found no active pipeline run.                               *)
LEMMA StepChildChecks == ASSUME IInv, NEW j \in Jobs, ChildChecks(j) PROVE IInv'
<1>1. /\ Alive(j) /\ Idle(j) /\ Become(j, "checked") /\ cancel' = cancel
      /\ UNCHANGED <<job, disk, worker, snapshot, parent, fabricVars, boundVars>>
  BY DEF ChildChecks, Idle
<1> QED BY <1>1, StageStep

(* A cancellation, whether its command is registered or not.               *)
LEMMA StepCancel == ASSUME IInv, NEW j \in Jobs, Cancel(j) PROVE IInv'
<1>1. TypeOK /\ PerJob(j) BY Parts_of_IInv DEF JInv
<1>2. CASE worker[j] = "monitor" /\ Alive(j) BY <1>2, StageStep DEF Cancel
<1>3. CASE ~(worker[j] = "monitor" /\ Alive(j))
  <2>1. /\ UNCHANGED <<child, job, disk, worker, snapshot, parent, fabricVars, boundVars>>
        /\ cancel' = cancel \cup {j}
    BY <1>3 DEF Cancel
  <2>2. TypeOK' BY <1>1, <2>1 DEF TypeOK, fabricVars, boundVars
  <2>3. Only(j) BY <2>1 DEF Only, fabricVars, boundVars
  <2>4. WorkerInv(j)' BY <1>1, <2>1 DEF PerJob, WorkerInv, Running, fabricVars
  <2>5. ChildInv(j)' BY <1>1, <2>1 DEF PerJob, ChildInv, Active, fabricVars
  <2>6. SubmissionInv(j)' BY <1>1, <2>1 DEF PerJob, SubmissionInv, Running, fabricVars
  <2>7. Claimed(j)' BY <1>1, <2>1 DEF PerJob, Claimed, Claims, fabricVars, boundVars
  <2>8. Obeys(j)' BY <1>3, <2>1 DEF Obeys, Alive
  <2>9. Running(j)' => Running(j) BY <2>1 DEF Running
  <2> QED BY <2>2, <2>3, <2>4, <2>5, <2>6, <2>7, <2>8, <2>9, LocalStep DEF PerJob
<1> QED BY <1>2, <1>3

(* The last save of a job, its record built and then written.              *)
LEMMA StepTakeSnapshot == ASSUME IInv, NEW j \in Jobs, TakeSnapshot(j) PROVE IInv'
<1>1. TypeOK /\ PerJob(j) BY Parts_of_IInv DEF JInv
<1>2. job[j] \in Records /\ job[j] # None
  BY <1>1 DEF TakeSnapshot, PerJob, WorkerInv, TypeOK
<1>3. TypeOK' BY <1>1, <1>2 DEF TypeOK, TakeSnapshot, Go, fabricVars, boundVars
<1>4. Only(j) BY <1>1 DEF Only, TakeSnapshot, Go, fabricVars, boundVars, TypeOK
<1>5. /\ job'[j] = job[j] /\ disk'[j] = disk[j] /\ snapshot'[j] = job[j]
      /\ worker'[j] = "final" /\ child'[j] = child[j]
  BY <1>1 DEF TakeSnapshot, Go, TypeOK
<1>6. ~Running(j) BY <1>1 DEF TakeSnapshot, PerJob, WorkerInv
<1>7. child[j] = None BY <1>1 DEF TakeSnapshot, PerJob, WorkerInv
<1>8. WorkerInv(j)' BY <1>1, <1>2, <1>5, <1>6, <1>7 DEF PerJob, WorkerInv, Running,
   TakeSnapshot, fabricVars
<1>9. ChildInv(j)' BY <1>5, <1>7 DEF ChildInv
<1>10. SubmissionInv(j)'
  BY <1>1, <1>5, <1>6 DEF PerJob, SubmissionInv, Running, TakeSnapshot, fabricVars
<1>11. Claimed(j)' BY <1>1, <1>5 DEF PerJob, Claimed, Claims, TakeSnapshot, fabricVars, boundVars
<1>12. Obeys(j)' BY <1>5 DEF Obeys
<1>13. Running(j)' => Running(j) BY <1>5 DEF Running
<1> QED BY <1>3, <1>4, <1>8, <1>9, <1>10, <1>11, <1>12, <1>13, LocalStep DEF PerJob

(* ... when the job may already have been resumed.                         *)
LEMMA StepWriteSnapshot == ASSUME IInv, NEW j \in Jobs, WriteSnapshot(j) PROVE IInv'
<1>1. TypeOK /\ PerJob(j) BY Parts_of_IInv DEF JInv
<1>2. snapshot[j] \in Records /\ snapshot[j] # None
  BY <1>1 DEF WriteSnapshot, PerJob, WorkerInv, TypeOK
<1>3. /\ disk' = [disk EXCEPT ![j] = snapshot[j]] \/ disk' = disk
      /\ events' \in Nat
  BY <1>1 DEF WriteSnapshot, Event, TypeOK
<1>4. TypeOK' BY <1>1, <1>2, <1>3 DEF TypeOK, WriteSnapshot, Go, fabricVars
<1>5. Only(j) BY <1>1, <1>3 DEF Only, WriteSnapshot, Go, fabricVars, TypeOK
<1>6. /\ job'[j] = job[j] /\ disk'[j] \in {disk[j], snapshot[j]} /\ snapshot'[j] = None
      /\ worker'[j] = "idle" /\ child'[j] = child[j]
      /\ UNCHANGED <<run, workspace, orphans, checkout>>
  BY <1>1, <1>3 DEF WriteSnapshot, Go, TypeOK, fabricVars
<1>7. ~Running(j) /\ child[j] = None /\ disk[j] # None /\ disk'[j] # None
  BY <1>1, <1>2, <1>6 DEF WriteSnapshot, PerJob, WorkerInv
<1>8. WorkerInv(j)' BY <1>1, <1>6, <1>7 DEF PerJob, WorkerInv, Running
<1>9. ChildInv(j)' BY <1>6, <1>7 DEF ChildInv
<1>10. SubmissionInv(j)' BY <1>6, <1>7 DEF SubmissionInv, Running
<1>11. Claimed(j)' BY <1>1, <1>6 DEF PerJob, Claimed, Claims
<1>12. Obeys(j)' BY <1>6 DEF Obeys
<1>13. Running(j)' => Running(j) BY <1>6 DEF Running
<1> QED BY <1>4, <1>5, <1>8, <1>9, <1>10, <1>11, <1>12, <1>13, LocalStep DEF PerJob

(* The worker saves progress and goes on.                                  *)
LEMMA SaveStep ==
    ASSUME IInv, NEW j \in Jobs, worker[j] = "monitor", Else,
           NEW r \in Records, r.status = "running", Claims(r), Save(j, r),
           NEW c \in Children \cup {None}, child' = [child EXCEPT ![j] = c],
           NEW pc \in {"monitor", "next", "launch"}, Go(j, pc),
           pc = "monitor" <=> c # None, pc # "next" => r.completed < Combined,
           ChildInv(j)', SubmissionInv(j)', Obeys(j)'
    PROVE  IInv'
<1>1. TypeOK /\ PerJob(j) BY Parts_of_IInv DEF JInv
<1>2. Running(j) BY <1>1 DEF PerJob, WorkerInv
<1>3. TypeOK' BY <1>1 DEF TypeOK, Save, Go, Else, fabricVars
<1>4. Only(j) BY <1>1 DEF Only, Save, Go, Else, fabricVars, TypeOK
<1>5. /\ job'[j] = r /\ disk'[j] = r /\ r # None /\ snapshot'[j] = None
      /\ worker'[j] = pc /\ child'[j] = c /\ UNCHANGED <<run, workspace, orphans, checkout>>
  BY <1>1, NoneIsApart DEF Save, Go, Else, TypeOK, fabricVars, PerJob, WorkerInv
<1>6. WorkerInv(j)' BY <1>1, <1>2, <1>5 DEF PerJob, WorkerInv, Running
<1>7. Claimed(j)' BY <1>5 DEF Claimed, Claims
<1> QED BY <1>2, <1>3, <1>4, <1>6, <1>7, LocalStep DEF PerJob

(* A line of the child is read, or it cannot be saved.                     *)
LEMMA ReadStep ==
    ASSUME IInv, NEW j \in Jobs, Alive(j), NEW r \in Records, NEW s \in Stages, Claims(r),
           job[j] \in Records, r.status = job[j].status,
           r.completed = job[j].completed, r.pending = job[j].pending,
           child[j].stage \in {"posted", "watching"}, s \in {"watching", "reported"},
           r.url = child[j].run, Read(j, r, s)
    PROVE  IInv'
<1>1. TypeOK /\ PerJob(j) BY Parts_of_IInv DEF JInv
<1>2. child[j] \in Children /\ child[j] # None BY <1>1 DEF Alive, TypeOK
<1>3. Running(j) /\ job[j].completed < Combined
  BY <1>1 DEF PerJob, WorkerInv, Read
<1>4. Else BY <1>1 DEF Read, Else, Event, TypeOK
<1>5. CASE Save(j, r) /\ Become(j, s) /\ UNCHANGED <<worker, events>>
  <2>1. PICK c : c = [child[j] EXCEPT !.stage = s] OBVIOUS
  <2>2. c \in Children /\ c.step = child[j].step /\ c.run = child[j].run /\ c.stage = s
    BY <1>2, <2>1 DEF Children
  <2>3. child' = [child EXCEPT ![j] = c] /\ child'[j] = c /\ job'[j] = r
    BY <1>1, <1>5, <2>1 DEF Become, Save, TypeOK
  <2>4. Go(j, "monitor") /\ worker[j] = "monitor" BY <1>1, <1>5 DEF Read, Go, TypeOK
  <2>5. ChildInv(j)'
    <3>1. /\ child[j].step = (IF r.pending # {} THEN Notebooks ELSE r.completed + 1)
          /\ child[j].step = Setup /\ child[j].run # None /\ run[child[j].run].state # "none"
          /\ run[child[j].run].core >= job[j].source["core"]
      BY <1>1, <1>2 DEF PerJob, ChildInv
    <3>2. run[child[j].run].core >= r.source["core"]
      BY <3>1 DEF Claims
    <3>3. run' = run BY <1>4 DEF Else, fabricVars
    <3> QED BY <2>2, <2>3, <3>1, <3>2, <3>3 DEF ChildInv
  <2>6. child[j].step = Setup BY <1>1, <1>2 DEF PerJob, ChildInv
  <2>7. c # None BY <2>2, NoneIsApart
  <2>8. SubmissionInv(j)'
    BY <1>5, <2>2, <2>3, <2>6, <2>7, NoneIsApart, <1>1 DEF SubmissionInv, Save, TypeOK
  <2>9. Obeys(j)'
    BY <1>1, <1>4, <2>3, <2>4 DEF PerJob, Obeys, Else
  <2>10. r.status = "running" BY <1>3 DEF Running
  <2> QED
    BY <1>3, <1>4, <1>5, <2>2, <2>3, <2>4, <2>5, <2>7, <2>8, <2>9, <2>10, SaveStep
<1>6. CASE Event /\ End(j, [r EXCEPT !.status = "failed"])
  <2>1. PICK q \in Records : q = [r EXCEPT !.status = "failed"]
    BY RecordUpdates DEF Ended
  <2>2. /\ q.source = r.source /\ q.completed = r.completed /\ q.pending = r.pending
        /\ q.url = r.url /\ q.state = r.state /\ q.status = "failed"
    BY <2>1 DEF Records
  <2>3. Claims(q) BY <2>2, ReClaims
  <2> QED BY <1>3, <1>4, <1>6, <2>1, <2>2, <2>3, EndStep DEF Ended
<1> QED BY <1>5, <1>6 DEF Read

(* The server reads the run its child names,                               *)
LEMMA StepReadUrl == ASSUME IInv, NEW j \in Jobs, ReadUrl(j) PROVE IInv'
<1>1. TypeOK /\ PerJob(j) BY Parts_of_IInv DEF JInv
<1>2. child[j] \in Children /\ child[j] # None BY <1>1 DEF ReadUrl, Alive, TypeOK
<1>3. Running(j) BY <1>1, <1>2 DEF PerJob, WorkerInv
<1>4. job[j] \in Records /\ job[j] # None BY <1>1, <1>3 DEF Running, TypeOK
<1>5. /\ child[j].run \in Jobs /\ run[child[j].run].state # "none"
      /\ run[child[j].run].core >= job[j].source["core"]
  BY <1>1, <1>2 DEF ReadUrl, PerJob, ChildInv, Children
<1>6. PICK r \in Records : r = [job[j] EXCEPT !.url = child[j].run, !.state = None]
  BY <1>4, <1>5, RecordUpdates
<1>7. /\ r.source = job[j].source /\ r.completed = job[j].completed
      /\ r.pending = job[j].pending /\ r.url = child[j].run /\ r.state = None
      /\ r.status = job[j].status
  BY <1>4, <1>6 DEF Records
<1>8. Claims(job[j]) BY <1>1, <1>4 DEF PerJob, Claimed
<1>9. r.state # "Completed" BY <1>7, NoneIsApart DEF Terminal
<1>10. Claims(r) BY <1>5, <1>7, <1>8, <1>9 DEF Claims
<1>11. "watching" \in Stages BY DEF Stages
<1> QED BY <1>4, <1>6, <1>7, <1>10, <1>11, ReadStep DEF ReadUrl

(* ... and how it ended.                                                   *)
LEMMA StepReadOutcome == ASSUME IInv, NEW j \in Jobs, ReadOutcome(j) PROVE IInv'
<1>1. TypeOK /\ PerJob(j) BY Parts_of_IInv DEF JInv
<1>2. child[j] \in Children /\ child[j] # None BY <1>1 DEF ReadOutcome, Alive, TypeOK
<1>3. Running(j) BY <1>1, <1>2 DEF PerJob, WorkerInv
<1>4. job[j] \in Records /\ job[j] # None BY <1>1, <1>3 DEF Running, TypeOK
<1>5. /\ child[j].run \in Jobs /\ job[j].url = child[j].run /\ child[j].run # None
  BY <1>1, <1>2 DEF ReadOutcome, PerJob, ChildInv, Children
<1>6. PICK s \in Terminal : s = run[child[j].run].state BY DEF ReadOutcome
<1>7. PICK r \in Records : r = [job[j] EXCEPT !.state = s] BY <1>4, RecordUpdates
<1>8. /\ r.source = job[j].source /\ r.completed = job[j].completed
      /\ r.pending = job[j].pending /\ r.url = child[j].run /\ r.state = s
      /\ r.status = job[j].status
  BY <1>4, <1>5, <1>7 DEF Records
<1>9. Claims(job[j]) BY <1>1, <1>4 DEF PerJob, Claimed
<1>10. Claims(r) BY <1>5, <1>6, <1>8, <1>9 DEF Claims
<1>11. "reported" \in Stages BY DEF Stages
<1> QED BY <1>4, <1>6, <1>7, <1>8, <1>10, <1>11, ReadStep DEF ReadOutcome

(* The exit code of a command decides how its job goes on.                 *)
LEMMA StepCollect == ASSUME IInv, NEW j \in Jobs, Collect(j) PROVE IInv'
<1>1. TypeOK /\ PerJob(j) BY Parts_of_IInv DEF JInv
<1>2. child[j] \in Children /\ child[j] # None
  BY <1>1 DEF Collect, PerJob, WorkerInv, TypeOK
<1>3. Running(j) /\ worker[j] = "monitor" BY <1>1 DEF PerJob, WorkerInv, Collect
<1>4. job[j] \in Records /\ job[j] # None BY <1>1, <1>3 DEF Running, TypeOK
<1>5. Else BY <1>1 DEF Collect, Else, Event, TypeOK
<1>6. Claims(job[j]) /\ job[j].completed < Combined
  BY <1>1, <1>3, <1>4 DEF PerJob, Claimed, WorkerInv
<1>7. CASE End(j, [job[j] EXCEPT !.status = Outcome(j)])
  <2>1. Outcome(j) \in Ended BY DEF Outcome, Ended
  <2> QED BY <1>3, <1>5, <1>7, <2>1, EndsAsItIs
<1>8. ASSUME child[j].stage = "ok"
      PROVE  \E r \in Records :
                /\ r = Advanced(job[j], child[j].step) /\ Claims(r)
                /\ r.status = "running" /\ (child[j].step = Notebooks => r.completed < Combined)
                /\ (child[j].step = Notebooks => r.completed = job[j].completed)
                /\ (child[j].step # Notebooks => r.completed = child[j].step)
  <2>1. CASE child[j].step = Notebooks
    <3>1. PICK r \in Records : r = [job[j] EXCEPT !.pending = {}]
      BY <1>4, RecordUpdates
    <3>2. /\ r.source = job[j].source /\ r.completed = job[j].completed /\ r.pending = {}
          /\ r.url = job[j].url /\ r.state = job[j].state /\ r.status = job[j].status
      BY <1>4, <3>1 DEF Records
    <3>3. \A p \in job[j].pending : workspace[p] >= job[j].source[p]
      BY <1>1, <1>2, <1>8, <2>1 DEF PerJob, ChildInv
    <3>4. Claims(r) BY <1>6, <3>2, <3>3 DEF Claims
    <3> QED BY <1>3, <1>6, <2>1, <3>1, <3>2, <3>4 DEF Advanced, Running
  <2>2. CASE child[j].step # Notebooks
    <3>1. /\ child[j].step = job[j].completed + 1 /\ job[j].pending = {}
          /\ child[j].step = Sync => \A p \in Parts : workspace[p] >= job[j].source[p]
          /\ child[j].step = Setup => job[j].state = "Completed"
      BY <1>1, <1>2, <1>8, <2>2 DEF PerJob, ChildInv
    <3>2. child[j].step \in 1..3
      BY <1>4, <1>6, <3>1 DEF Records, Combined
    <3>3. PICK r \in Records : r = [job[j] EXCEPT !.completed = child[j].step]
      <4>1. \A c \in 0..3 : [job[j] EXCEPT !.completed = c] \in Records BY <1>4, RecordUpdates
      <4>2. child[j].step \in 0..3 BY <3>2
      <4> QED BY <4>1, <4>2
    <3>4. /\ r.source = job[j].source /\ r.completed = child[j].step /\ r.pending = {}
          /\ r.url = job[j].url /\ r.state = job[j].state /\ r.status = job[j].status
      BY <1>4, <3>1, <3>3 DEF Records
    <3>5. /\ r.completed >= Sync => \A p \in Parts \ r.pending : workspace[p] >= r.source[p]
      BY <1>4, <1>6, <3>1, <3>2, <3>4 DEF Claims, Sync, Setup, Records
    <3>6. r.completed >= Setup =>
             \E k \in Jobs : run[k].state = "Completed" /\ run[k].core >= r.source["core"]
      <4>1. CASE child[j].step = Setup
        <5>1. job[j].url \in Jobs BY <1>4, <1>6, <3>1, <4>1 DEF Claims, Records
        <5> QED BY <1>6, <3>1, <3>4, <4>1, <5>1 DEF Claims
      <4>2. CASE child[j].step # Setup
        <5>1. r.completed >= Setup => job[j].completed >= Setup
          BY <1>4, <3>1, <3>2, <3>4, <4>2 DEF Setup, Records
        <5> QED BY <1>6, <3>4, <5>1 DEF Claims
      <4> QED BY <4>1, <4>2
    <3>7. Claims(r) BY <1>6, <3>4, <3>5, <3>6 DEF Claims
    <3> QED BY <1>3, <2>2, <3>3, <3>4, <3>7 DEF Advanced, Running
  <2> QED BY <2>1, <2>2
<1>9. CASE child[j].stage = "ok" /\ End(j, [Advanced(job[j], child[j].step) EXCEPT !.status = "failed"])
  <2>1. PICK r \in Records : r = Advanced(job[j], child[j].step) /\ Claims(r)
    BY <1>8, <1>9
  <2>2. PICK q \in Records : q = [r EXCEPT !.status = "failed"]
    BY RecordUpdates DEF Ended
  <2>3. /\ q.source = r.source /\ q.completed = r.completed /\ q.pending = r.pending
        /\ q.url = r.url /\ q.state = r.state /\ q.status = "failed"
    BY <2>2 DEF Records
  <2>4. Claims(q) BY <2>1, <2>3, ReClaims
  <2> QED BY <1>3, <1>5, <1>9, <2>1, <2>2, <2>3, <2>4, EndStep DEF Ended
<1>10. CASE /\ child[j].stage = "ok"
            /\ Save(j, Advanced(job[j], child[j].step))
            /\ child' = [child EXCEPT ![j] = None]
            /\ Go(j, IF child[j].step = Notebooks THEN "launch" ELSE "next")
  <2>1. PICK r \in Records :
           /\ r = Advanced(job[j], child[j].step) /\ Claims(r) /\ r.status = "running"
           /\ child[j].step = Notebooks => r.completed < Combined
           /\ child[j].step = Notebooks => r.completed = job[j].completed
           /\ child[j].step # Notebooks => r.completed = child[j].step
    BY <1>8, <1>10
  <2>2. PICK pc \in {"next", "launch"} :
           pc = IF child[j].step = Notebooks THEN "launch" ELSE "next"
    OBVIOUS
  <2>3. child'[j] = None /\ disk'[j] = r /\ job'[j] = r /\ worker'[j] = pc /\ run' = run
    BY <1>1, <1>5, <1>10, <2>1, <2>2 DEF TypeOK, Save, Go, Else, fabricVars
  <2>4. ChildInv(j)' BY <2>3 DEF ChildInv
  <2>5. SubmissionInv(j)'
    <3>1. r # None /\ disk[j] # None BY <1>1, <1>4, NoneIsApart DEF PerJob, WorkerInv
    <3>2. ASSUME r.completed < Setup PROVE run[j].state = "none"
      <4>1. job[j].completed < Setup /\ child[j].step # Setup
        BY <1>1, <1>2, <1>4, <1>6, <2>1, <3>2
           DEF PerJob, ChildInv, Records, Setup, Notebooks, Combined
      <4> QED BY <1>1, <1>3, <4>1 DEF PerJob, SubmissionInv
    <3> QED BY <2>3, <3>1, <3>2 DEF SubmissionInv
  <2>6. Obeys(j)' BY <2>3 DEF Obeys
  <2> QED
    BY <1>3, <1>5, <1>10, <2>1, <2>2, <2>4, <2>5, <2>6, SaveStep
<1> QED BY <1>7, <1>9, <1>10 DEF Collect

-----------------------------------------------------------------------------
(* Steps of Fabric, of the checkout, and of children that change Fabric.   *)

(* The records that a job has keep their claims.                           *)
LEMMA ClaimedOnward ==
    ASSUME TypeOK, TypeOK', Onward, NEW d \in Jobs, Claimed(d),
           job'[d] = job[d], disk'[d] = disk[d], snapshot'[d] = snapshot[d]
    PROVE  Claimed(d)'
<1>1. \A r \in {job[d], disk[d], snapshot[d]} \ {None} : r \in Records BY DEF TypeOK
<1>2. ASSUME NEW r \in Records, Claims(r) PROVE Claims(r)' BY <1>2, ClaimsLast
<1> QED BY <1>1, <1>2 DEF Claimed

(* A job whose own state is unchanged keeps its invariant as Fabric goes   *)
(* on, as long as nothing is submitted beside it.                          *)
Same(d) ==
    /\ job'[d] = job[d] /\ disk'[d] = disk[d] /\ worker'[d] = worker[d]
    /\ snapshot'[d] = snapshot[d] /\ cancel' = cancel /\ orphans' = orphans
LEMMA KeptOnward ==
    ASSUME TypeOK, TypeOK', Onward, NEW d \in Jobs, PerJob(d), Same(d), child'[d] = child[d],
           child[d] # None /\ child[d].stage = "checked" => Active' \subseteq orphans,
           run[d].state = "none" => run'[d].state = "none" \/ d \in orphans
    PROVE  PerJob(d)'
<1>1. Claimed(d)' BY ClaimedOnward DEF PerJob, Same
<1>2. Running(d)' <=> Running(d) BY DEF Running, Same
<1>3. WorkerInv(d)' BY <1>2 DEF PerJob, WorkerInv, Same
<1>4. SubmissionInv(d)' BY <1>2 DEF PerJob, WorkerInv, SubmissionInv, Same
<1>5. Obeys(d)' BY DEF PerJob, Obeys, Alive, Same
<1>6. ChildInv(d)'
  <2>1. SUFFICES ASSUME child[d] # None PROVE ChildInv(d)'
    BY DEF ChildInv
  <2>2. job[d] \in Records /\ child[d] \in Children
    BY <2>1 DEF PerJob, WorkerInv, Running, TypeOK
  <2>3. workspace \in Sources /\ workspace' \in Sources /\ job[d].source \in Sources
        /\ child[d].run \in Jobs \cup {None} /\ job[d].pending \subseteq Parts
    BY <2>2 DEF TypeOK, Records, Children
  <2>4. /\ child[d].stage \in {"posted", "watching", "reported"} =>
              child[d].run # None /\ run'[child[d].run].state # "none"
              /\ run'[child[d].run].core >= job[d].source["core"]
    BY <2>1, <2>3 DEF PerJob, ChildInv, Onward
  <2>5. \A p \in Parts : workspace[p] >= job[d].source[p] => workspace'[p] >= job[d].source[p]
    BY <2>3 DEF Onward, Sources
  <2> QED BY <2>1, <2>3, <2>4, <2>5 DEF PerJob, ChildInv, Same
<1> QED BY <1>1, <1>3, <1>4, <1>5, <1>6 DEF PerJob

(* A pipeline run ends.                                                    *)
LEMMA StepRunEnds == ASSUME IInv, NEW k \in Jobs, RunEnds(k) PROVE IInv'
<1>1. JInv BY Parts_of_IInv
<1>2. PICK s \in Terminal : run' = [run EXCEPT ![k].state = s] BY DEF RunEnds
<1>3. UNCHANGED <<serverVars, workspace, orphans, boundVars>> BY DEF RunEnds
<1>4. TypeOK' BY <1>1, <1>2, <1>3 DEF JInv, TypeOK, PipelineRuns, serverVars, boundVars
<1>5. \A d \in Jobs : /\ run'[d].core = run[d].core
                      /\ d # k => run'[d] = run[d]
  BY <1>1, <1>2 DEF JInv, TypeOK, PipelineRuns
<1>6. run[k].state = "active" /\ run'[k].state = s
  BY <1>1, <1>2 DEF JInv, TypeOK, PipelineRuns, RunEnds, Active
<1>7. Onward
  <2>1. \A p \in Parts : workspace'[p] >= workspace[p] /\ checkout'[p] >= checkout[p]
    BY <1>1, <1>3 DEF JInv, TypeOK, Sources, boundVars
  <2> QED BY <1>5, <1>6, <2>1 DEF Onward, Terminal
<1>8. Active' \subseteq Active BY <1>5, <1>6 DEF Active, Terminal
<1>9. OneActiveRun' BY <1>1, <1>3, <1>8 DEF JInv, OneActiveRun
<1>10. Synced' BY <1>1, <1>3 DEF JInv, Synced, boundVars
<1>11. OneRunning' BY <1>1, <1>3 DEF JInv, OneRunning, Running, serverVars
<1>12. ASSUME NEW d \in Jobs PROVE PerJob(d)'
  <2>1. PerJob(d) /\ TypeOK BY <1>1 DEF JInv
  <2>2. Same(d) /\ child'[d] = child[d] BY <1>3 DEF Same, serverVars
  <2>3. child[d] # None /\ child[d].stage = "checked" => Active' \subseteq orphans
    BY <1>8, <2>1 DEF PerJob, ChildInv
  <2>4. run[d].state = "none" => run'[d].state = "none" BY <1>5, <1>6
  <2> QED BY <1>4, <1>7, <2>1, <2>2, <2>3, <2>4, KeptOnward
<1> QED BY <1>4, <1>9, <1>10, <1>11, <1>12, Parts_of_IInv DEF JInv

(* A child submits although its server is gone.                            *)
LEMMA StepOrphanPosts == ASSUME IInv, NEW k \in Jobs, OrphanPosts(k) PROVE IInv'
<1>1. JInv BY Parts_of_IInv
<1>2. k \in orphans /\ run[k].state = "none" /\ Submitted(k) BY DEF OrphanPosts
<1>3. UNCHANGED <<serverVars, workspace, orphans, boundVars>> BY DEF OrphanPosts
<1>4. TypeOK'
  BY <1>1, <1>2, <1>3 DEF JInv, TypeOK, PipelineRuns, Sources, Parts, Submitted, serverVars,
     boundVars
<1>5. \A d \in Jobs \ {k} : run'[d] = run[d] BY <1>1, <1>2 DEF JInv, TypeOK, Submitted
<1>6. Onward
  <2>1. \A p \in Parts : workspace'[p] >= workspace[p] /\ checkout'[p] >= checkout[p]
    BY <1>1, <1>3 DEF JInv, TypeOK, Sources, boundVars
  <2> QED BY <1>2, <1>5, <2>1 DEF Onward
<1>7. Active' \subseteq Active \cup {k} BY <1>5 DEF Active
<1>8. OneActiveRun' BY <1>1, <1>2, <1>3, <1>7 DEF JInv, OneActiveRun
<1>9. Synced' BY <1>1, <1>3 DEF JInv, Synced, boundVars
<1>10. OneRunning' BY <1>1, <1>3 DEF JInv, OneRunning, Running, serverVars
<1>11. ASSUME NEW d \in Jobs PROVE PerJob(d)'
  <2>1. PerJob(d) /\ TypeOK BY <1>1 DEF JInv
  <2>2. Same(d) /\ child'[d] = child[d] BY <1>3 DEF Same, serverVars
  <2>3. child[d] # None /\ child[d].stage = "checked" => Active' \subseteq orphans
    BY <1>2, <1>7, <2>1 DEF PerJob, ChildInv
  <2>4. run[d].state = "none" => run'[d].state = "none" \/ d \in orphans BY <1>2, <1>5
  <2> QED BY <1>4, <1>6, <2>1, <2>2, <2>3, <2>4, KeptOnward
<1> QED BY <1>4, <1>8, <1>9, <1>10, <1>11, Parts_of_IInv DEF JInv

(* A definition is edited in the checkout.                                 *)
LEMMA StepEdit == ASSUME IInv, NEW p \in Parts, Edit(p) PROVE IInv'
<1>1. JInv BY Parts_of_IInv
<1>2. UNCHANGED <<serverVars, fabricVars>> /\ checkout' = [checkout EXCEPT ![p] = @ + 1]
  BY DEF Edit
<1>3. TypeOK'
  BY <1>1, <1>2 DEF JInv, TypeOK, Edit, Event, Sources, serverVars, fabricVars
<1>4. Onward BY <1>1, <1>2 DEF Onward, JInv, TypeOK, Sources, fabricVars
<1>5. Active' = Active BY <1>2 DEF Active, fabricVars
<1>6. OneActiveRun' BY <1>1, <1>2, <1>5 DEF JInv, OneActiveRun, fabricVars
<1>7. Synced' BY <1>1, <1>2 DEF JInv, Synced, TypeOK, Sources, fabricVars
<1>8. OneRunning' BY <1>1, <1>2 DEF JInv, OneRunning, Running, serverVars
<1>9. ASSUME NEW d \in Jobs PROVE PerJob(d)'
  <2>1. PerJob(d) /\ TypeOK BY <1>1 DEF JInv
  <2>2. Same(d) /\ child'[d] = child[d] /\ run' = run BY <1>2 DEF Same, serverVars, fabricVars
  <2>3. child[d] # None /\ child[d].stage = "checked" => Active' \subseteq orphans
    BY <1>5, <2>1 DEF PerJob, ChildInv
  <2> QED BY <1>3, <1>4, <2>1, <2>2, <2>3, KeptOnward
<1> QED BY <1>3, <1>6, <1>7, <1>8, <1>9, Parts_of_IInv DEF JInv

(* A child submits the run it has found room for.                          *)
LEMMA StepChildPosts == ASSUME IInv, NEW k \in Jobs, ChildPosts(k) PROVE IInv'
<1>1. JInv /\ PerJob(k) /\ TypeOK BY Parts_of_IInv DEF JInv
<1>2. child[k] \in Children /\ child[k] # None /\ child[k].stage = "checked"
  BY <1>1 DEF ChildPosts, Alive, TypeOK
<1>3. /\ Submitted(k) /\ child' = [child EXCEPT ![k].stage = "posted", ![k].run = k]
      /\ UNCHANGED <<job, disk, worker, snapshot, cancel, parent, workspace, orphans, boundVars>>
  BY DEF ChildPosts
<1>4. Running(k) /\ job[k].completed < Combined /\ child[k].step = Setup /\ Active \subseteq orphans
      /\ worker[k] \in {"launched", "monitor"}
  BY <1>1, <1>2 DEF PerJob, WorkerInv, ChildInv
<1>5. job[k] \in Records /\ job[k] # None /\ disk[k] # None
  BY <1>1, <1>4 DEF Running, TypeOK, PerJob, WorkerInv
<1>6. child[k].step = job[k].completed + 1 /\ job[k].pending = {} /\ job[k].completed = Sync
  BY <1>1, <1>2, <1>4, <1>5 DEF PerJob, ChildInv, Setup, Sync, Notebooks, Records
<1>7. run[k].state = "none" BY <1>1, <1>2, <1>4, <1>6 DEF PerJob, SubmissionInv, Sync, Setup
<1>8. /\ child'[k].stage = "posted" /\ child'[k].run = k /\ child'[k].step = child[k].step
      /\ child'[k] \in Children
  BY <1>1, <1>2, <1>3 DEF TypeOK, Children, Stages
<1>9. TypeOK'
  BY <1>1, <1>2, <1>3, <1>8 DEF TypeOK, PipelineRuns, Sources, Parts, Submitted, boundVars
<1>10. /\ \A d \in Jobs \ {k} : run'[d] = run[d] /\ child'[d] = child[d]
       /\ run'[k].state = "active" /\ run'[k].core = workspace["core"]
  BY <1>1, <1>3 DEF TypeOK, Submitted
<1>11. Onward
  <2>1. \A p \in Parts : workspace'[p] >= workspace[p] /\ checkout'[p] >= checkout[p]
    BY <1>1, <1>3 DEF TypeOK, Sources, boundVars
  <2> QED BY <1>7, <1>10, <2>1 DEF Onward
<1>12. Active' \subseteq Active \cup {k} BY <1>10 DEF Active
<1>13. OneActiveRun' BY <1>3, <1>4, <1>12 DEF OneActiveRun
<1>14. Synced' BY <1>1, <1>3 DEF JInv, Synced, boundVars
<1>15. OneRunning' BY <1>1, <1>3 DEF JInv, OneRunning, Running
<1>16. PerJob(k)'
  <2>1. child'[k] # None BY <1>8, NoneIsApart
  <2>2. WorkerInv(k)' BY <1>1, <1>2, <1>3, <2>1 DEF PerJob, WorkerInv, Running
  <2>3. ChildInv(k)'
    <3>1. job'[k] = job[k] BY <1>3
    <3>2. k # None BY NoneIsApart
    <3>3. workspace["core"] >= job[k].source["core"]
      <4>1. Claims(job[k]) BY <1>1, <1>5 DEF PerJob, Claimed
      <4> QED BY <1>6, <4>1 DEF Claims, Parts, Sync
    <3> QED BY <1>4, <1>6, <1>8, <1>10, <3>1, <3>2, <3>3 DEF ChildInv
  <2>4. SubmissionInv(k)' BY <1>3, <1>4, <1>5, <1>8, <2>1 DEF SubmissionInv
  <2>5. Claimed(k)' BY <1>1, <1>3, <1>9, <1>11, ClaimedOnward DEF PerJob
  <2>6. Obeys(k)' BY <1>1, <1>2, <1>3 DEF PerJob, Obeys, Alive
  <2> QED BY <2>2, <2>3, <2>4, <2>5, <2>6 DEF PerJob
<1>17. ASSUME NEW d \in Jobs \ {k} PROVE PerJob(d)'
  <2>1. PerJob(d) BY <1>1 DEF JInv
  <2>2. Same(d) BY <1>3 DEF Same
  <2>3. child[d] = None
    <3>1. ~Running(d) BY <1>1, <1>4 DEF JInv, OneRunning
    <3> QED BY <2>1, <3>1 DEF PerJob, WorkerInv
  <2> QED BY <1>1, <1>9, <1>10, <1>11, <2>1, <2>2, <2>3, KeptOnward
<1> QED BY <1>9, <1>13, <1>14, <1>15, <1>16, <1>17, Parts_of_IInv DEF JInv

(* A child does what its command is for.                                   *)
LEMMA StepChildSucceeds == ASSUME IInv, NEW k \in Jobs, ChildSucceeds(k) PROVE IInv'
<1>1. JInv /\ PerJob(k) /\ TypeOK /\ Synced BY Parts_of_IInv DEF JInv
<1>2. child[k] \in Children /\ child[k] # None
  BY <1>1 DEF ChildSucceeds, Alive, TypeOK
<1>3. /\ child' = [child EXCEPT ![k].stage = "ok"]
      /\ UNCHANGED <<job, disk, worker, snapshot, cancel, parent, run, orphans, boundVars>>
  BY DEF ChildSucceeds, Become
<1>4. Running(k) BY <1>1, <1>2 DEF PerJob, WorkerInv
<1>5. job[k] \in Records /\ job[k] # None /\ disk[k] # None
  BY <1>1, <1>4 DEF Running, TypeOK, PerJob, WorkerInv
<1>6. /\ child'[k].stage = "ok" /\ child'[k].run = child[k].run
      /\ child'[k].step = child[k].step /\ child'[k] \in Children /\ child'[k] # None
  BY <1>1, <1>2, <1>3, NoneIsApart DEF TypeOK, Children, Stages
<1>7. \A p \in Parts :
        workspace'[p] = IF \/ child[k].step = Sync
                           \/ child[k].step = Notebooks /\ p \in job[k].pending
                        THEN checkout[p] ELSE workspace[p]
  BY DEF ChildSucceeds
<1>8. workspace' \in Sources
  <2>1. workspace' = [p \in Parts |-> workspace'[p]] BY DEF ChildSucceeds
  <2>2. \A p \in Parts : workspace'[p] \in Nat BY <1>1, <1>7 DEF TypeOK, Sources
  <2> QED BY <2>1, <2>2 DEF Sources
<1>9. TypeOK' BY <1>1, <1>3, <1>6, <1>8 DEF TypeOK, boundVars
<1>10. \A p \in Parts : workspace'[p] >= workspace[p] /\ workspace'[p] <= checkout[p]
  BY <1>1, <1>7 DEF Synced, TypeOK, Sources
<1>11. Onward BY <1>1, <1>3, <1>10 DEF Onward, TypeOK, Sources, boundVars
<1>12. OneActiveRun' BY <1>1, <1>3 DEF JInv, OneActiveRun, Active
<1>13. Synced' BY <1>3, <1>10 DEF Synced, boundVars
<1>14. OneRunning' BY <1>1, <1>3 DEF JInv, OneRunning, Running
<1>15. PerJob(k)'
  <2>1. WorkerInv(k)' BY <1>1, <1>2, <1>3, <1>6 DEF PerJob, WorkerInv, Running
  <2>2. ChildInv(k)'
    <3>1. Claims(job[k]) BY <1>1, <1>5 DEF PerJob, Claimed
    <3>2. \A p \in Parts : checkout[p] >= job[k].source[p]
      BY <1>1, <1>5, <3>1 DEF Claims, TypeOK, Records, Sources
    <3>3. child[k].step = Sync => \A p \in Parts : workspace'[p] >= job[k].source[p]
      BY <1>7, <3>2
    <3>4. child[k].step = Notebooks => \A p \in job[k].pending : workspace'[p] >= job[k].source[p]
      BY <1>5, <1>7, <3>2 DEF Records
    <3>5. child[k].step = Setup => job[k].state = "Completed" BY DEF ChildSucceeds
    <3> QED BY <1>1, <1>2, <1>3, <1>6, <3>3, <3>4, <3>5 DEF PerJob, ChildInv
  <2>3. SubmissionInv(k)'
    <3>1. child[k].step = Setup => child[k].stage = "reported" BY DEF ChildSucceeds
    <3> QED BY <1>1, <1>2, <1>3, <1>5, <1>6, <3>1 DEF PerJob, SubmissionInv, Running
  <2>4. Claimed(k)' BY <1>1, <1>3, <1>9, <1>11, ClaimedOnward DEF PerJob
  <2>5. Obeys(k)' BY <1>6 DEF Obeys, Alive
  <2> QED BY <2>1, <2>2, <2>3, <2>4, <2>5 DEF PerJob
<1>16. ASSUME NEW d \in Jobs \ {k} PROVE PerJob(d)'
  <2>1. PerJob(d) BY <1>1 DEF JInv
  <2>2. Same(d) /\ child'[d] = child[d] BY <1>1, <1>3 DEF Same, TypeOK
  <2>3. child[d] = None
    <3>1. ~Running(d) BY <1>1, <1>4 DEF JInv, OneRunning
    <3> QED BY <2>1, <3>1 DEF PerJob, WorkerInv
  <2> QED BY <1>1, <1>3, <1>9, <1>11, <2>1, <2>2, <2>3, KeptOnward
<1> QED BY <1>9, <1>12, <1>13, <1>14, <1>15, <1>16, Parts_of_IInv DEF JInv

(* The server stops: its jobs and their children are gone.                 *)
LEMMA StepExit == ASSUME IInv, Exit PROVE IInv'
<1>1. JInv BY Parts_of_IInv
<1>2. /\ UNCHANGED <<disk, parent, run, workspace, checkout>> /\ orphans \subseteq orphans'
      /\ \A d \in Jobs : /\ job'[d] = None /\ snapshot'[d] = None /\ child'[d] = None
                         /\ worker'[d] = "idle" /\ d \notin cancel'
                         /\ d \in orphans' => d \in orphans \/ child[d] # None
  BY DEF Exit
<1>3. TypeOK' BY <1>1 DEF JInv, TypeOK, Exit, Event
<1>4. OneActiveRun' BY <1>1, <1>2 DEF JInv, OneActiveRun, Active
<1>5. Synced' BY <1>1, <1>2 DEF JInv, Synced
<1>6. \A d \in Jobs : ~Running(d)' BY <1>2 DEF Running
<1>7. ASSUME NEW d \in Jobs PROVE PerJob(d)'
  <2>1. PerJob(d) BY <1>1 DEF JInv
  <2>2. child[d] # None => disk[d] # None BY <2>1 DEF PerJob, WorkerInv
  <2>3. WorkerInv(d)' BY <1>2, <1>6, <2>1, <2>2 DEF PerJob, WorkerInv
  <2>4. ChildInv(d)' BY <1>2 DEF ChildInv
  <2>5. SubmissionInv(d)' BY <1>2, <1>6, <2>1 DEF PerJob, SubmissionInv
  <2>6. Claimed(d)' BY <1>2, <2>1 DEF PerJob, Claimed, Claims
  <2>7. Obeys(d)' BY <1>2 DEF Obeys
  <2> QED BY <2>3, <2>4, <2>5, <2>6, <2>7 DEF PerJob
<1> QED BY <1>3, <1>4, <1>5, <1>6, <1>7, Parts_of_IInv DEF JInv, OneRunning

-----------------------------------------------------------------------------
(* A new job, alone or in place of the one it resumes.                     *)
LEMMA Fresh ==
    ASSUME IInv, NEW n \in Jobs, Begin(n)
    PROVE  /\ job[n] = None /\ worker[n] = "idle" /\ child[n] = None /\ snapshot[n] = None
           /\ run[n].state = "none" /\ n \notin orphans /\ \A d \in Jobs : ~Running(d)
           /\ UNCHANGED <<snapshot, cancel, child, run, workspace, orphans, checkout, events>>
           /\ worker' = [worker EXCEPT ![n] = "next"]
<1>1. PerJob(n) BY Parts_of_IInv DEF JInv
<1>2. disk[n] = None /\ \A d \in Jobs : ~Running(d) BY DEF Begin
<1>3. job[n] = None /\ n \notin orphans BY <1>1, <1>2 DEF PerJob, WorkerInv
<1>4. worker[n] = "idle" BY <1>1, <1>3 DEF PerJob, WorkerInv
<1>5. child[n] = None /\ snapshot[n] = None BY <1>1, <1>4 DEF PerJob, WorkerInv
<1>6. run[n].state = "none" BY <1>1, <1>2 DEF PerJob, SubmissionInv
<1> QED BY <1>2, <1>3, <1>4, <1>5, <1>6 DEF Begin, Go, fabricVars, boundVars

(* A new job satisfies the invariant with any record that claims what is so.*)
LEMMA FreshJob ==
    ASSUME IInv, NEW n \in Jobs, Begin(n), NEW r \in Records, r.status = "running", Claims(r),
           job'[n] = r, disk'[n] = r
    PROVE  PerJob(n)' /\ Running(n)'
<1>1. TypeOK BY DEF IInv
<1>2. r # None BY NoneIsApart
<1>3. worker'[n] = "next" BY <1>1, Fresh DEF TypeOK
<1>4. Running(n)' BY <1>2 DEF Running
<1>5. /\ child'[n] = None /\ snapshot'[n] = None /\ run'[n].state = "none" /\ n \notin orphans'
      /\ UNCHANGED <<run, workspace, checkout>>
  BY Fresh
<1>6. WorkerInv(n)' BY <1>2, <1>3, <1>4, <1>5 DEF WorkerInv
<1>7. ChildInv(n)' BY <1>5 DEF ChildInv
<1>8. SubmissionInv(n)' BY <1>5 DEF SubmissionInv
<1>9. Claimed(n)' BY <1>5 DEF Claimed, Claims
<1>10. Obeys(n)' BY <1>3 DEF Obeys
<1> QED BY <1>4, <1>6, <1>7, <1>8, <1>9, <1>10 DEF PerJob

(* The new job aside, it is enough that the others keep what they are.     *)
LEMMA BeginStep ==
    ASSUME IInv, NEW n \in Jobs, Begin(n), TypeOK', PerJob(n)',
           \A d \in Jobs \ {n} : PerJob(d)' /\ ~Running(d)'
    PROVE  IInv'
<1>1. JInv BY Parts_of_IInv
<1>2. UNCHANGED <<run, workspace, orphans, checkout>> BY Fresh
<1>3. OneActiveRun' BY <1>1, <1>2 DEF JInv, OneActiveRun, Active
<1>4. Synced' BY <1>1, <1>2 DEF JInv, Synced
<1>5. OneRunning' BY DEF OneRunning
<1> QED BY <1>3, <1>4, <1>5, Parts_of_IInv DEF JInv

(* A job that resumes none starts with a record.                           *)
LEMMA NewRecord ==
    ASSUME TypeOK PROVE NewJob(checkout) \in Records
BY DEF NewJob, Records, TypeOK

(* A job starts from nothing.                                              *)
LEMMA StepStart == ASSUME IInv, NEW n \in Jobs, Start(n) PROVE IInv'
<1>1. JInv /\ TypeOK BY Parts_of_IInv DEF JInv
<1>2. Begin(n) BY DEF Start
<1>3. PICK r \in Records : r = NewJob(checkout) BY <1>1, NewRecord
<1>4. /\ r.status = "running" /\ r.completed = 0 /\ r.source = checkout /\ r.url = None
      /\ r.state = None
  BY <1>3 DEF NewJob
<1>5. Claims(r) BY <1>1, <1>4, NoneIsApart DEF Claims, TypeOK, Sources, Sync, Setup, Terminal
<1>6. job' = [job EXCEPT ![n] = r] /\ disk' = [disk EXCEPT ![n] = r] /\ parent' = parent
  BY <1>3 DEF Start, Save
<1>7. TypeOK' BY <1>1, <1>2, <1>6, Fresh DEF TypeOK
<1>8. PerJob(n)' BY <1>1, <1>2, <1>4, <1>5, <1>6, FreshJob DEF TypeOK
<1>9. ASSUME NEW d \in Jobs \ {n} PROVE PerJob(d)' /\ ~Running(d)'
  <2>1. job'[d] = job[d] /\ disk'[d] = disk[d] BY <1>1, <1>6 DEF TypeOK
  <2>2. worker'[d] = worker[d] /\ snapshot'[d] = snapshot[d] /\ child'[d] = child[d]
        /\ cancel' = cancel /\ UNCHANGED <<run, workspace, orphans, checkout>>
    BY <1>1, <1>2, Fresh DEF TypeOK
  <2>3. PerJob(d)' BY <1>1, <2>1, <2>2, Untouched DEF JInv
  <2>4. ~Running(d) BY <1>2, Fresh
  <2> QED BY <2>1, <2>3, <2>4 DEF Running
<1> QED BY <1>2, <1>7, <1>8, <1>9, BeginStep

(* What is inherited is claimed again of the definitions in the checkout.  *)
LEMMA InheritedClaims ==
    ASSUME TypeOK, NEW old \in Records, Claims(old), CanResume(old), NEW full \in BOOLEAN,
           MonitorPending(old) => Changed(old) = {}
    PROVE  /\ Inherited(old, full) \in Records /\ Claims(Inherited(old, full))
           /\ Inherited(old, full).status = "running"
<1>1. /\ old.completed \in 0..2 /\ old.pending \subseteq Parts /\ old.source \in Sources
      /\ old.url \in Jobs \cup {None} /\ old.state \in Terminal \cup {None}
  BY DEF CanResume, Combined, Records
<1>2. checkout \in Sources /\ workspace \in Sources BY DEF TypeOK
<1>3. Changed(old) \subseteq Parts BY DEF Changed
<1>4. PICK r : r = Inherited(old, full) OBVIOUS
<1>5. /\ r.status = "running" /\ r.source = checkout /\ r.resumedBy = None
      /\ r.completed = (IF full THEN 0
                        ELSE IF "core" \in Changed(old) /\ old.completed = Setup THEN Sync
                        ELSE old.completed)
      /\ r.pending = (IF full THEN {}
                      ELSE IF old.completed >= Sync THEN old.pending \cup Changed(old)
                      ELSE old.pending)
      /\ r.url = (IF MonitorPending(old) THEN old.url ELSE None)
      /\ r.state = (IF MonitorPending(old) THEN old.state ELSE None)
  BY <1>4 DEF Inherited, NewJob
<1>6. r \in Records
  <2>1. r.completed \in 0..3 BY <1>1, <1>5 DEF Sync
  <2>2. r.pending \in SUBSET Parts BY <1>1, <1>3, <1>5
  <2>3. r.url \in Jobs \cup {None} /\ r.state \in Terminal \cup {None} BY <1>1, <1>5
  <2>4. r = [status |-> r.status, completed |-> r.completed, pending |-> r.pending,
             source |-> r.source, url |-> r.url, state |-> r.state, resumedBy |-> r.resumedBy]
    BY <1>4 DEF Inherited, NewJob
  <2> QED BY <1>2, <1>5, <2>1, <2>2, <2>3, <2>4 DEF Records
<1>7. \A p \in Parts : r.source[p] <= checkout[p] BY <1>2, <1>5 DEF Sources
<1>8. r.completed >= Sync => \A p \in Parts \ r.pending : workspace[p] >= r.source[p]
  <2>1. SUFFICES ASSUME r.completed >= Sync, NEW p \in Parts \ r.pending
                 PROVE  workspace[p] >= r.source[p]
    OBVIOUS
  <2>2. ~full /\ old.completed >= Sync BY <1>1, <1>5, <2>1 DEF Sync, Setup
  <2>3. p \notin old.pending /\ p \notin Changed(old) BY <1>5, <2>1, <2>2
  <2>4. checkout[p] = old.source[p] BY <2>3 DEF Changed
  <2> QED BY <1>5, <2>2, <2>3, <2>4 DEF Claims
<1>9. r.completed >= Setup =>
         \E k \in Jobs : run[k].state = "Completed" /\ run[k].core >= r.source["core"]
  <2>1. SUFFICES ASSUME r.completed >= Setup
                 PROVE  \E k \in Jobs : run[k].state = "Completed" /\ run[k].core >= r.source["core"]
    OBVIOUS
  <2>2. old.completed >= Setup /\ old.completed = Setup /\ "core" \notin Changed(old)
    BY <1>1, <1>5, <2>1 DEF Sync, Setup
  <2>3. checkout["core"] = old.source["core"] BY <2>2 DEF Changed, Parts
  <2> QED BY <1>5, <2>2, <2>3 DEF Claims
<1>10. r.url # None => run[r.url].state # "none" /\ run[r.url].core >= r.source["core"]
  <2>1. SUFFICES ASSUME r.url # None PROVE run[r.url].state # "none" /\ run[r.url].core >= r.source["core"]
    OBVIOUS
  <2>2. MonitorPending(old) /\ r.url = old.url BY <1>5, <2>1
  <2>3. checkout["core"] = old.source["core"] BY <2>2 DEF Changed, Parts
  <2> QED BY <1>5, <2>1, <2>2, <2>3 DEF Claims
<1>11. r.state = "Completed" => r.url # None /\ run[r.url].state = "Completed"
  BY <1>5, NoneIsApart DEF Claims, Terminal
<1>12. Claims(r) BY <1>7, <1>8, <1>9, <1>10, <1>11 DEF Claims
<1> QED BY <1>4, <1>5, <1>6, <1>12

(* A job starts from the checkpoint of another.                            *)
LEMMA StepResume ==
    ASSUME IInv, NEW j \in Jobs, NEW n \in Jobs, Resume(j, n) PROVE IInv'
<1>1. JInv /\ TypeOK /\ PerJob(j) BY Parts_of_IInv DEF JInv
<1>2. Begin(n) /\ disk[j] # None /\ ResumeAfter(j, n, Known(j)) BY DEF Resume
<1>3. j # n BY <1>2 DEF Begin
<1>4. PICK old \in Records : old = Known(j) /\ Claims(old) /\ (job[j] = None \/ old = job[j])
  <2>1. CASE job[j] # None
    BY <1>1, <2>1 DEF PerJob, Claimed, Known, TypeOK
  <2>2. CASE job[j] = None
    <3>1. disk[j] \in Records /\ Claims(disk[j]) BY <1>1, <1>2 DEF PerJob, Claimed, TypeOK
    <3>2. PICK s \in Ended \cup {"running", "interrupted"} : Known(j) = [disk[j] EXCEPT !.status = s]
      BY <2>2 DEF Known
    <3>3. PICK q \in Records : q = [disk[j] EXCEPT !.status = s] BY <3>1, RecordUpdates
    <3>4. /\ q.source = disk[j].source /\ q.completed = disk[j].completed
          /\ q.pending = disk[j].pending /\ q.url = disk[j].url /\ q.state = disk[j].state
      BY <3>1, <3>3 DEF Records
    <3> QED BY <2>2, <3>1, <3>2, <3>3, <3>4, ReClaims
  <2> QED BY <2>1, <2>2
<1>5. CanResume(old) /\ (MonitorPending(old) => Changed(old) = {}) BY <1>2, <1>4 DEF ResumeAfter
<1>6. PICK full \in BOOLEAN :
        job' = [job EXCEPT ![j] = [old EXCEPT !.resumedBy = n], ![n] = Inherited(old, full)]
  BY <1>2, <1>4 DEF ResumeAfter
<1>7. PICK r \in Records : r = Inherited(old, full) /\ Claims(r) /\ r.status = "running"
  BY <1>1, <1>4, <1>5, InheritedClaims
<1>8. PICK q \in Records : q = [old EXCEPT !.resumedBy = n] BY <1>4, RecordUpdates
<1>9. /\ q.source = old.source /\ q.completed = old.completed /\ q.pending = old.pending
      /\ q.url = old.url /\ q.state = old.state /\ q.status = old.status
  BY <1>8 DEF Records
<1>10. Claims(q) /\ q.status # "running" /\ q # None
  BY <1>4, <1>5, <1>9, ReClaims, NoneIsApart DEF CanResume
<1>11. /\ job' = [job EXCEPT ![j] = q, ![n] = r] /\ disk' = [disk EXCEPT ![j] = q, ![n] = r]
       /\ parent' = [parent EXCEPT ![n] = j]
  <2>1. job' = [job EXCEPT ![j] = q, ![n] = r] BY <1>6, <1>7, <1>8
  <2>2. job'[j] = q /\ job'[n] = r BY <1>1, <1>3, <2>1 DEF TypeOK
  <2> QED BY <1>2, <2>1, <2>2 DEF ResumeAfter
<1>12. TypeOK' BY <1>1, <1>2, <1>11, Fresh DEF TypeOK
<1>13. PerJob(n)' BY <1>1, <1>2, <1>3, <1>7, <1>11, FreshJob DEF TypeOK
<1>14. \A d \in Jobs \ {n} :
         /\ worker'[d] = worker[d] /\ snapshot'[d] = snapshot[d] /\ child'[d] = child[d]
         /\ d \in cancel' <=> d \in cancel /\ ~Running(d)
  BY <1>1, <1>2, Fresh DEF TypeOK
<1>15. UNCHANGED <<run, workspace, orphans, checkout, cancel>> BY <1>2, Fresh
<1>16. PerJob(j)' /\ ~Running(j)'
  <2>1. job'[j] = q /\ disk'[j] = q BY <1>1, <1>3, <1>11 DEF TypeOK
  <2>2. ~Running(j)' /\ ~Running(j) BY <1>2, <1>10, <2>1, Fresh DEF Running
  <2>3. child[j] = None /\ child'[j] = None /\ worker'[j] = worker[j] /\ snapshot'[j] = snapshot[j]
    BY <1>1, <1>3, <1>14, <2>2 DEF PerJob, WorkerInv
  <2>4. WorkerInv(j)' BY <1>1, <1>10, <1>15, <2>1, <2>2, <2>3 DEF PerJob, WorkerInv
  <2>5. ChildInv(j)' BY <2>3 DEF ChildInv
  <2>6. SubmissionInv(j)' BY <1>10, <2>1, <2>2 DEF SubmissionInv
  <2>7. Claimed(j)' BY <1>1, <1>10, <1>15, <2>1, <2>3 DEF PerJob, Claimed, Claims
  <2>8. Obeys(j)' BY <1>1, <1>15, <2>3 DEF PerJob, Obeys, Alive
  <2> QED BY <2>2, <2>4, <2>5, <2>6, <2>7, <2>8 DEF PerJob
<1>17. ASSUME NEW d \in Jobs \ {n, j} PROVE PerJob(d)' /\ ~Running(d)'
  <2>1. job'[d] = job[d] /\ disk'[d] = disk[d] BY <1>1, <1>11 DEF TypeOK
  <2>2. PerJob(d)' BY <1>1, <1>14, <1>15, <2>1, Untouched DEF JInv
  <2>3. ~Running(d) BY <1>2, Fresh
  <2> QED BY <2>1, <2>2, <2>3 DEF Running
<1>18. \A d \in Jobs \ {n} : PerJob(d)' /\ ~Running(d)' BY <1>16, <1>17
<1> QED BY <1>2, <1>12, <1>13, <1>18, BeginStep

-----------------------------------------------------------------------------
(* The invariant holds initially,                                          *)
LEMMA InitIInv == Init => IInv
<1> SUFFICES ASSUME Init PROVE IInv OBVIOUS
<1>1. \A j \in Jobs : /\ job[j] = None /\ disk[j] = None /\ worker[j] = "idle"
                      /\ snapshot[j] = None /\ child[j] = None /\ run[j].state = "none"
  BY DEF Init
<1>2. TypeOK BY DEF Init, TypeOK, PipelineRuns, Sources
<1>3. OneActiveRun BY <1>1 DEF OneActiveRun, Active
<1>4. Synced BY DEF Init, Synced
<1>5. OneRunning BY <1>1 DEF OneRunning, Running
<1>6. ASSUME NEW j \in Jobs PROVE PerJob(j)
  <2>1. WorkerInv(j) BY <1>1 DEF WorkerInv, Running, Init
  <2>2. ChildInv(j) BY <1>1 DEF ChildInv
  <2>3. SubmissionInv(j) BY <1>1 DEF SubmissionInv
  <2>4. Claimed(j) BY <1>1 DEF Claimed
  <2>5. Obeys(j) BY <1>1 DEF Obeys
  <2> QED BY <2>1, <2>2, <2>3, <2>4, <2>5 DEF PerJob
<1> QED BY <1>2, <1>3, <1>4, <1>5, <1>6, Parts_of_IInv DEF JInv

(* ... every step keeps it,                                                *)
LEMMA NextIInv == IInv /\ [Next]_vars => IInv'
<1> SUFFICES ASSUME IInv, [Next]_vars PROVE IInv' OBVIOUS
<1>1. ASSUME NEW j \in Jobs, Worker(j) PROVE IInv'
  BY <1>1, StepProceed, StepLaunch, StepRegister, StepReadUrl, StepReadOutcome, StepCollect,
     StepTakeSnapshot, StepWriteSnapshot DEF Worker
<1>2. ASSUME NEW j \in Jobs, Child(j) \/ ChildFails(j) PROVE IInv'
  BY <1>2, StepChildChecks, StepChildPosts, StepChildSucceeds, StepChildFails DEF Child
<1>3. ASSUME NEW j \in Jobs, Start(j) \/ Cancel(j) \/ \E n \in Jobs : Resume(j, n) PROVE IInv'
  BY <1>3, StepStart, StepCancel, StepResume
<1>4. ASSUME NEW j \in Jobs, OrphanPosts(j) \/ RunEnds(j) PROVE IInv'
  BY <1>4, StepOrphanPosts, StepRunEnds
<1>5. ASSUME Exit \/ \E p \in Parts : Edit(p) PROVE IInv'
  BY <1>5, StepExit, StepEdit
<1>6. CASE UNCHANGED vars
  BY <1>6 DEF vars, serverVars, fabricVars, boundVars, IInv, TypeOK, OneActiveRun, Active,
     CancelledCommandsEnd, Alive, Running, WorkerInv, ChildInv, SubmissionInv, Claims
<1> QED BY <1>1, <1>2, <1>3, <1>4, <1>5, <1>6 DEF Next

(* ... and so it always holds.                                             *)
LEMMA Invariance == Spec => []IInv
BY InitIInv, NextIInv, PTL DEF Spec

(* Every variable keeps its type.                                          *)
THEOREM TypeCorrect == Spec => []TypeOK
<1>1. IInv => TypeOK BY DEF IInv
<1> QED BY <1>1, Invariance, PTL

(* One command is under way, of the running job: _start_workflow looks for *)
(* a running job under JOBS_LOCK, and a job that ends leaves no command.   *)
THEOREM FullDeployIsExclusive == Spec => []OneCommand
<1>1. IInv => OneCommand
  <2>1. SUFFICES ASSUME JInv PROVE OneCommand BY Parts_of_IInv
  <2>2. \A j \in Jobs : child[j] # None => Running(j) BY <2>1 DEF JInv, PerJob, WorkerInv
  <2> QED BY <2>1, <2>2 DEF OneCommand, JInv, OneRunning
<1> QED BY <1>1, Invariance, PTL

(* A cancellation reaches a command that was not registered yet.           *)
THEOREM CancellationIsHonoured == Spec => []CancelledCommandsEnd
<1>1. IInv => CancelledCommandsEnd BY DEF IInv
<1> QED BY <1>1, Invariance, PTL

(* The inventory run_pipeline reads before it submits keeps setup runs one *)
(* at a time, for the children that die with their server.                 *)
THEOREM SetupRunsAreExclusive == Spec => []OneActiveRun
<1>1. IInv => OneActiveRun BY DEF IInv
<1> QED BY <1>1, Invariance, PTL

(* What a resumed job takes as done has been done on its definitions.      *)
THEOREM DependenciesAreSound == Spec => []DependenciesAreVerified
<1>1. IInv => DependenciesAreVerified
  <2>1. SUFFICES ASSUME IInv, NEW j \in Jobs, child[j] # None
                 PROVE  /\ child[j].step >= Setup /\ child[j].stage \in {"live", "checked"} =>
                             \A p \in Parts : workspace[p] >= job[j].source[p]
                        /\ child[j].step = Combined =>
                             \E k \in Jobs : run[k].state = "Completed"
                                             /\ run[k].core >= job[j].source["core"]
    BY DEF DependenciesAreVerified
  <2>2. TypeOK /\ PerJob(j) BY <2>1, Parts_of_IInv DEF JInv
  <2>3. job[j] # None /\ job[j] \in Records /\ child[j] \in Children
    BY <2>1, <2>2 DEF PerJob, WorkerInv, Running, TypeOK
  <2>4. child[j].step = (IF job[j].pending # {} THEN Notebooks ELSE job[j].completed + 1)
    BY <2>1, <2>2 DEF PerJob, ChildInv
  <2>5. Claims(job[j]) BY <2>2, <2>3 DEF PerJob, Claimed
  <2>6. child[j].step >= Setup => job[j].pending = {} /\ job[j].completed >= Sync
    BY <2>3, <2>4 DEF Records, Setup, Sync, Notebooks
  <2>7. child[j].step = Combined => job[j].completed >= Setup
    BY <2>3, <2>4 DEF Records, Setup, Combined, Notebooks
  <2> QED BY <2>5, <2>6, <2>7 DEF Claims
<1> QED BY <1>1, Invariance, PTL

-----------------------------------------------------------------------------
(* Accepted runs.  WatchInv is proved on top of IInv: a step of the worker *)
(* or the child of the running job cannot touch a resumed job, which does  *)
(* not run; the last save of a resumed job and the step that resumes it    *)
(* keep what its record says of the accepted run.                          *)
KeepsTo(j) ==
    /\ \A r \in {job[j], disk[j], snapshot[j]} \ {None} : Accepted(r)
    /\ snapshot[j] # None => SameRun(snapshot[j], job[j])
    /\ parent[j] # None => disk[j] # None /\ Left(parent[j]) /\ Watches(j)

(* WatchInv, job by job.                                                   *)
LEMMA WatchInvOf == (WatchInv <=> \A j \in Jobs : KeepsTo(j))
                    /\ (WatchInv' <=> \A j \in Jobs : KeepsTo(j)')
BY DEF WatchInv, KeepsTo

(* Nothing that the invariant is about has changed for a job.              *)
LEMMA KeptTo ==
    ASSUME NEW d \in Jobs, KeepsTo(d), UNCHANGED parent,
           job'[d] = job[d], disk'[d] = disk[d], snapshot'[d] = snapshot[d], child'[d] = child[d],
           LET p == parent[d] IN
              p # None => job'[p] = job[p] /\ disk'[p] = disk[p],
           d \in orphans' => d \in orphans
    PROVE  KeepsTo(d)'
BY DEF KeepsTo, Left, Watches, Bound, Running

(* Only the job k, which is running, and its child change.                 *)
Alone(k) ==
    /\ \A d \in Jobs \ {k} : job'[d] = job[d] /\ disk'[d] = disk[d] /\ child'[d] = child[d]
    /\ UNCHANGED <<snapshot, parent, orphans>>

(* A step of the running job is nobody's but its own to keep.              *)
LEMMA RunningStep ==
    ASSUME IInv, WatchInv, NEW k \in Jobs, Running(k), Alone(k), disk'[k] # None,
           disk'[k] \in {disk[k], job'[k]}, Accepted(job'[k]), Bound(k) => Bound(k)'
    PROVE  WatchInv'
<1>1. TypeOK /\ PerJob(k) /\ \A d \in Jobs : KeepsTo(d)
  BY Parts_of_IInv, WatchInvOf DEF JInv
<1>2. snapshot[k] = None BY <1>1 DEF PerJob, WorkerInv
<1>3. \A d \in Jobs : parent[d] # None =>
         parent[d] \in Jobs \ {k} /\ job'[parent[d]] = job[parent[d]]
         /\ disk'[parent[d]] = disk[parent[d]]
  BY <1>1 DEF KeepsTo, Left, Alone, TypeOK
<1>4. KeepsTo(k)'
  <2>1. \A r \in {job'[k], disk'[k], snapshot'[k]} \ {None} : Accepted(r)
    BY <1>1, <1>2 DEF KeepsTo, Alone
  <2>2. snapshot'[k] = None BY <1>2 DEF Alone
  <2>3. parent'[k] # None => Left(parent[k])' /\ Watches(k)'
    BY <1>1, <1>3 DEF KeepsTo, Left, Watches, Running, Alone
  <2> QED BY <2>1, <2>2, <2>3 DEF KeepsTo, Alone, Accepted
<1>5. ASSUME NEW d \in Jobs \ {k} PROVE KeepsTo(d)'
  BY <1>1, <1>3, KeptTo DEF Alone
<1> QED BY <1>4, <1>5, WatchInvOf

(* ... and it ends.                                                        *)
LEMMA EndWatch ==
    ASSUME IInv, WatchInv, NEW k \in Jobs, Running(k), NEW r \in Records, r.status \in Ended,
           Accepted(r), End(k, r), Else
    PROVE  WatchInv'
<1>1. TypeOK /\ PerJob(k) BY Parts_of_IInv DEF JInv
<1>2. /\ Alone(k) /\ disk'[k] = disk[k] /\ job'[k] = r
  BY <1>1 DEF Alone, End, Else, fabricVars, TypeOK
<1>3. disk[k] # None BY <1>1 DEF PerJob, WorkerInv, Running
<1>4. Bound(k)' BY <1>2 DEF Bound, Running, Ended
<1> QED BY <1>2, <1>3, <1>4, RunningStep

(* The record of a running job is one of those the invariant is about.     *)
LEMMA RunningRecord ==
    ASSUME IInv, WatchInv, NEW k \in Jobs, Running(k)
    PROVE  /\ TypeOK /\ PerJob(k) /\ KeepsTo(k)
           /\ job[k] \in Records /\ job[k] # None /\ disk[k] # None /\ Accepted(job[k])
<1>1. TypeOK /\ PerJob(k) /\ KeepsTo(k)
  BY Parts_of_IInv, WatchInvOf DEF JInv
<1> QED BY <1>1 DEF Running, KeepsTo, TypeOK, PerJob, WorkerInv

(* ... with the record it has.                                             *)
LEMMA EndWatchAsItIs ==
    ASSUME IInv, WatchInv, NEW k \in Jobs, Running(k), NEW s \in Ended,
           End(k, [job[k] EXCEPT !.status = s]), Else
    PROVE  WatchInv'
<1>1. job[k] \in Records /\ Accepted(job[k]) BY RunningRecord
<1>2. PICK r \in Records : r = [job[k] EXCEPT !.status = s] BY <1>1, RecordUpdates
<1>3. r.status = s /\ Accepted(r) BY <1>1, <1>2 DEF Accepted, Records
<1> QED BY <1>2, <1>3, EndWatch

(* Proceed ends the job.                                                   *)
LEMMA WatchProceed == ASSUME IInv, WatchInv, NEW k \in Jobs, Proceed(k) PROVE WatchInv'
<1>1. TypeOK /\ PerJob(k) BY Parts_of_IInv DEF JInv
<1>2. Running(k) BY <1>1 DEF PerJob, WorkerInv, Proceed
<1>3. Else BY <1>1 DEF Proceed, Else, boundVars, TypeOK
<1>4. "cancelled" \in Ended /\ "succeeded" \in Ended BY DEF Ended
<1> QED BY <1>2, <1>3, <1>4, EndWatchAsItIs DEF Proceed

(* The setup command of a job with an accepted run has no submission.      *)
LEMMA WatchLaunch == ASSUME IInv, WatchInv, NEW k \in Jobs, Launch(k) PROVE WatchInv'
<1>1. PerJob(k) BY Parts_of_IInv DEF JInv
<1>2. Running(k) BY <1>1 DEF PerJob, WorkerInv, Launch
<1>3. /\ TypeOK /\ KeepsTo(k) /\ job[k] \in Records /\ job[k] # None /\ disk[k] # None
      /\ Accepted(job[k])
  BY <1>2, RunningRecord
<1>4. CASE Event /\ End(k, [job[k] EXCEPT !.status = Outcome(k)])
  <2>1. Else BY <1>3, <1>4 DEF Launch, Else, Event, TypeOK
  <2>2. Outcome(k) \in Ended BY DEF Outcome, Ended
  <2> QED BY <1>2, <1>4, <2>1, <2>2, EndWatchAsItIs
<1>5. CASE /\ child' = [child EXCEPT ![k] = Command(job[k])]
           /\ UNCHANGED <<job, disk, events>>
  <2>1. child[k] = None BY <1>1 DEF Launch, PerJob, WorkerInv
  <2>2. Alone(k) /\ job'[k] = job[k] /\ disk'[k] = disk[k] /\ child'[k] = Command(job[k])
    BY <1>3, <1>5 DEF Alone, Launch, fabricVars, TypeOK
  <2>3. Running(k)' BY <1>2, <2>2 DEF Running
  <2>4. ASSUME MonitorPending(job[k]), job[k].completed < Setup
        PROVE  child'[k].step = Setup /\ child'[k].stage = "posted" /\ child'[k] # None
    <3>1. job[k].pending = {} /\ job[k].completed = Sync
      BY <1>3, <2>4 DEF Accepted, MonitorPending, Records, Sync, Setup
    <3>2. Command(job[k]) = [step |-> Setup, stage |-> "posted", run |-> job[k].url]
      BY <2>4, <3>1 DEF Command, Sync, Setup
    <3>3. Command(job[k]) \in Children
      BY <1>3, <3>2 DEF Children, Stages, Records, Setup
    <3> QED BY <2>2, <3>2, <3>3, NoneIsApart
  <2>5. Bound(k) => Bound(k)'
    BY <1>2, <1>3, <2>1, <2>2, <2>3, <2>4 DEF Bound, Records, Setup
  <2> QED BY <1>2, <1>3, <2>2, <2>5, RunningStep
<1> QED BY <1>4, <1>5 DEF Launch

(* The child comes to another stage, and does not come to submit.          *)
LEMMA WatchStage ==
    ASSUME IInv, WatchInv, NEW k \in Jobs, child[k] # None,
           UNCHANGED <<job, disk, snapshot, parent, orphans>>,
           NEW c \in Children, child' = [child EXCEPT ![k] = c], c.step = child[k].step,
           \/ child[k].stage \in {"live", "checked"}
           \/ c.stage \notin {"live", "checked"}
    PROVE  WatchInv'
<1>1. PerJob(k) BY Parts_of_IInv DEF JInv
<1>2. Running(k) BY <1>1 DEF PerJob, WorkerInv
<1>3. TypeOK /\ KeepsTo(k) /\ disk[k] # None /\ Accepted(job[k])
  BY <1>2, RunningRecord
<1>4. child'[k] = c /\ c # None BY <1>3, NoneIsApart DEF TypeOK
<1>5. Alone(k) BY <1>3 DEF Alone, TypeOK
<1>6. Bound(k) => Bound(k)' BY <1>4 DEF Bound, Running
<1> QED BY <1>2, <1>3, <1>5, <1>6, RunningStep

(* It is one step of the child's stages.                                   *)
LEMMA WatchBecome ==
    ASSUME IInv, WatchInv, NEW k \in Jobs, child[k] # None, NEW s \in Stages, Become(k, s),
           UNCHANGED <<job, disk, snapshot, parent, orphans>>,
           child[k].stage \in {"live", "checked"} \/ s \notin {"live", "checked"}
    PROVE  WatchInv'
<1>1. child[k] \in Children BY Parts_of_IInv DEF JInv, TypeOK
<1>2. PICK c \in Children : c = [child[k] EXCEPT !.stage = s]
  BY <1>1 DEF Children
<1>3. c.step = child[k].step /\ c.stage = s BY <1>1, <1>2 DEF Children
<1>4. child' = [child EXCEPT ![k] = c] BY <1>2 DEF Become
<1> QED BY <1>3, <1>4, WatchStage

(* Nothing but Fabric, the checkout, the workers' places or cancellations. *)
LEMMA WatchElsewhere ==
    ASSUME WatchInv, UNCHANGED <<job, disk, snapshot, child, parent, orphans>>
    PROVE  WatchInv'
BY WatchInvOf DEF KeepsTo, Left, Watches, Bound, Running

(* The stages of a child that the server registers, cancels or outlives.   *)
LEMMA WatchChild ==
    ASSUME IInv, WatchInv, NEW k \in Jobs,
           Register(k) \/ Cancel(k) \/ Child(k) \/ ChildFails(k)
    PROVE  WatchInv'
<1>0. {"failed", "checked", "ok"} \subseteq Stages BY DEF Stages
<1>1. CASE Register(k)
  <2>1. UNCHANGED <<job, disk, snapshot, parent, orphans>>
    BY <1>1 DEF Register, fabricVars
  <2> QED BY <1>0, <1>1, <2>1, WatchBecome, WatchElsewhere DEF Register, Alive
<1>2. CASE Cancel(k)
  <2>1. UNCHANGED <<job, disk, snapshot, parent, orphans>>
    BY <1>2 DEF Cancel, fabricVars
  <2> QED BY <1>0, <1>2, <2>1, WatchBecome, WatchElsewhere DEF Cancel, Alive
<1>3. CASE ChildChecks(k)
  BY <1>0, <1>3, WatchBecome DEF ChildChecks, Alive, fabricVars
<1>4. CASE ChildPosts(k)
  <2>1. child[k] \in Children /\ child[k] # None
    BY <1>4, Parts_of_IInv DEF JInv, TypeOK, ChildPosts, Alive
  <2>2. PICK c \in Children : c = [child[k] EXCEPT !.stage = "posted", !.run = k]
    BY <2>1 DEF Children, Stages
  <2>3. c.step = child[k].step /\ c.stage = "posted" BY <2>1, <2>2 DEF Children
  <2>4. child' = [child EXCEPT ![k] = c] BY <1>4, <2>2 DEF ChildPosts
  <2> QED BY <1>4, <2>1, <2>3, <2>4, WatchStage DEF ChildPosts
<1>5. CASE ChildSucceeds(k)
  BY <1>0, <1>5, WatchBecome DEF ChildSucceeds, Alive
<1>6. CASE ChildFails(k)
  BY <1>0, <1>6, WatchBecome DEF ChildFails, Alive, fabricVars
<1> QED BY <1>1, <1>2, <1>3, <1>4, <1>5, <1>6 DEF Child

(* A line of the child of the setup step is read, or it cannot be saved.   *)
LEMMA WatchRead ==
    ASSUME IInv, WatchInv, NEW k \in Jobs, Alive(k), NEW r \in Records, NEW s \in Stages,
           r.completed = job[k].completed, r.pending = job[k].pending,
           child[k].stage \in {"posted", "watching"}, s \notin {"live", "checked"}, Read(k, r, s)
    PROVE  WatchInv'
<1>1. TypeOK /\ PerJob(k) /\ child[k] # None BY Parts_of_IInv DEF JInv, Alive
<1>2. Running(k) BY <1>1 DEF PerJob, WorkerInv
<1>3. job[k] \in Records /\ disk[k] # None /\ child[k] \in Children
  BY <1>1, <1>2, RunningRecord DEF TypeOK
<1>4. child[k].step = Setup /\ r.completed = Sync /\ r.pending = {}
  BY <1>1, <1>3 DEF PerJob, ChildInv, Records, Setup, Sync, Notebooks
<1>5. Accepted(r) BY <1>4 DEF Accepted, Sync
<1>6. CASE Save(k, r) /\ Become(k, s)
  <2>1. PICK c \in Children : c = [child[k] EXCEPT !.stage = s]
    BY <1>3 DEF Children
  <2>2. c.step = Setup /\ c.stage = s /\ c # None
    BY <1>3, <1>4, <2>1, NoneIsApart DEF Children
  <2>3. child'[k] = c /\ job'[k] = r /\ disk'[k] = r /\ Alone(k)
    BY <1>1, <1>6, <2>1 DEF Read, Become, Save, Alone, TypeOK, fabricVars
  <2>4. Bound(k)' BY <2>2, <2>3 DEF Bound
  <2> QED BY <1>2, <1>5, <2>3, <2>4, NoneIsApart, RunningStep
<1>7. CASE Event /\ End(k, [r EXCEPT !.status = "failed"])
  <2>1. PICK q \in Records : q = [r EXCEPT !.status = "failed"]
    BY RecordUpdates DEF Ended
  <2>2. q.status = "failed" /\ Accepted(q) BY <1>5, <2>1 DEF Accepted, Records
  <2>3. Else BY <1>1, <1>7 DEF Read, Else, Event, TypeOK
  <2> QED BY <1>2, <1>7, <2>1, <2>2, <2>3, EndWatch DEF Ended
<1> QED BY <1>6, <1>7 DEF Read

(* Reading the accepted run binds the job to it; its outcome settles it.   *)
LEMMA WatchReads ==
    ASSUME IInv, WatchInv, NEW k \in Jobs, ReadUrl(k) \/ ReadOutcome(k) PROVE WatchInv'
<1>1. TypeOK /\ PerJob(k) /\ child[k] # None BY Parts_of_IInv DEF JInv, ReadUrl, ReadOutcome, Alive
<1>2. Running(k) BY <1>1 DEF PerJob, WorkerInv
<1>3. job[k] \in Records /\ child[k] \in Children BY <1>1, <1>2, RunningRecord DEF TypeOK
<1>4. "watching" \in Stages /\ "reported" \in Stages BY DEF Stages
<1>5. CASE ReadUrl(k)
  <2>1. child[k].run \in Jobs BY <1>1, <1>3, <1>5 DEF ReadUrl, PerJob, ChildInv, Children
  <2>2. PICK r \in Records : r = [job[k] EXCEPT !.url = child[k].run, !.state = None]
    BY <1>3, <2>1, RecordUpdates
  <2>3. r.completed = job[k].completed /\ r.pending = job[k].pending
    BY <1>3, <2>2 DEF Records
  <2> QED BY <1>4, <1>5, <2>2, <2>3, WatchRead DEF ReadUrl
<1>6. CASE ReadOutcome(k)
  <2>1. PICK s \in Terminal : s = run[child[k].run].state BY <1>6 DEF ReadOutcome
  <2>2. PICK r \in Records : r = [job[k] EXCEPT !.state = s] BY <1>3, RecordUpdates
  <2>3. r.completed = job[k].completed /\ r.pending = job[k].pending
    BY <1>3, <2>2 DEF Records
  <2> QED BY <1>4, <1>6, <2>1, <2>2, <2>3, WatchRead DEF ReadOutcome
<1> QED BY <1>5, <1>6

(* A step that is done advances the record: the notebooks of a job that    *)
(* watches are not pending before its setup step, which is done only once. *)
LEMMA WatchCollect == ASSUME IInv, WatchInv, NEW k \in Jobs, Collect(k) PROVE WatchInv'
<1>1. TypeOK /\ PerJob(k) BY Parts_of_IInv DEF JInv
<1>2. Running(k) /\ child[k] \in Children /\ child[k] # None
  BY <1>1 DEF PerJob, WorkerInv, Collect, TypeOK
<1>3. job[k] \in Records /\ disk[k] # None /\ Accepted(job[k]) BY <1>2, RunningRecord
<1>4. Else BY <1>1 DEF Collect, Else, Event, TypeOK
<1>5. CASE End(k, [job[k] EXCEPT !.status = Outcome(k)])
  <2>1. Outcome(k) \in Ended BY DEF Outcome, Ended
  <2> QED BY <1>2, <1>4, <1>5, <2>1, EndWatchAsItIs
<1>6. job[k].completed < Combined
      /\ child[k].step = (IF job[k].pending # {} THEN Notebooks ELSE job[k].completed + 1)
  BY <1>1, <1>2 DEF Collect, PerJob, WorkerInv, ChildInv
<1>7. PICK r \in Records :
        /\ r = Advanced(job[k], child[k].step) /\ r.url = job[k].url /\ r.pending = {}
        /\ r.completed >= job[k].completed
        /\ child[k].step # Notebooks => r.completed = child[k].step
  <2>1. CASE child[k].step = Notebooks
    <3>1. PICK r \in Records : r = [job[k] EXCEPT !.pending = {}] BY <1>3, RecordUpdates
    <3>2. r.completed = job[k].completed /\ r.url = job[k].url /\ r.pending = {}
      BY <1>3, <3>1 DEF Records
    <3>3. r.completed >= job[k].completed BY <1>3, <3>2 DEF Records
    <3> QED BY <2>1, <3>1, <3>2, <3>3 DEF Advanced
  <2>2. CASE child[k].step # Notebooks
    <3>1. child[k].step = job[k].completed + 1 /\ child[k].step \in 0..3 /\ job[k].pending = {}
      BY <1>3, <1>6, <2>2 DEF Records, Combined
    <3>2. PICK r \in Records : r = [job[k] EXCEPT !.completed = child[k].step]
      BY <1>3, <3>1, RecordUpdates
    <3>3. r.completed = child[k].step /\ r.url = job[k].url /\ r.pending = {}
      BY <1>3, <3>1, <3>2 DEF Records
    <3>4. r.completed >= job[k].completed BY <1>3, <3>1, <3>3 DEF Records
    <3> QED BY <2>2, <3>2, <3>3, <3>4 DEF Advanced
  <2> QED BY <2>1, <2>2
<1>8. Accepted(r) BY <1>3, <1>7 DEF Accepted, Records, Sync
<1>9. CASE End(k, [Advanced(job[k], child[k].step) EXCEPT !.status = "failed"])
  <2>1. PICK q \in Records : q = [r EXCEPT !.status = "failed"] BY RecordUpdates DEF Ended
  <2>2. q.status = "failed" /\ Accepted(q) BY <1>8, <2>1 DEF Accepted, Records
  <2> QED BY <1>2, <1>4, <1>7, <1>9, <2>1, <2>2, EndWatch DEF Ended
<1>10. CASE /\ Save(k, Advanced(job[k], child[k].step))
            /\ child' = [child EXCEPT ![k] = None]
  <2>1. job'[k] = r /\ disk'[k] = r /\ child'[k] = None /\ Alone(k)
    BY <1>1, <1>4, <1>7, <1>10 DEF Save, Alone, Else, TypeOK, fabricVars
  <2>2. Bound(k) => Bound(k)'
    <3>1. SUFFICES ASSUME Bound(k) PROVE r.completed >= Setup
      BY <2>1 DEF Bound
    <3>2. CASE job[k].completed >= Setup BY <1>3, <1>7, <3>2 DEF Records, Setup
    <3>3. CASE child[k].step = Setup BY <1>7, <3>3 DEF Setup, Notebooks
    <3> QED BY <1>2, <3>1, <3>2, <3>3 DEF Bound
  <2> QED BY <1>2, <1>8, <2>1, <2>2, NoneIsApart, RunningStep
<1> QED BY <1>5, <1>9, <1>10 DEF Collect

-----------------------------------------------------------------------------
(* The last save of a job, which may have been resumed meanwhile.          *)
LEMMA WatchTakeSnapshot ==
    ASSUME IInv, WatchInv, NEW k \in Jobs, TakeSnapshot(k) PROVE WatchInv'
<1>1. TypeOK /\ \A d \in Jobs : KeepsTo(d) BY Parts_of_IInv, WatchInvOf DEF JInv
<1>2. /\ snapshot'[k] = job[k] /\ \A d \in Jobs \ {k} : snapshot'[d] = snapshot[d]
      /\ UNCHANGED <<job, disk, child, parent, orphans>>
  BY <1>1 DEF TakeSnapshot, TypeOK, fabricVars
<1>3. ASSUME NEW d \in Jobs PROVE KeepsTo(d)'
  <2>1. parent[d] # None => Left(parent[d])' /\ Watches(d)'
    BY <1>1, <1>2 DEF KeepsTo, Left, Watches, Bound, Running
  <2>2. snapshot'[d] \in {snapshot[d], job[d]} BY <1>2
  <2> QED BY <1>1, <1>2, <2>1, <2>2 DEF KeepsTo, Accepted, SameRun
<1> QED BY <1>3, WatchInvOf

(* The late save writes the run that the resumed record already names.     *)
LEMMA WatchWriteSnapshot ==
    ASSUME IInv, WatchInv, NEW k \in Jobs, WriteSnapshot(k) PROVE WatchInv'
<1>1. TypeOK /\ PerJob(k) /\ \A d \in Jobs : KeepsTo(d) BY Parts_of_IInv, WatchInvOf DEF JInv
<1>2. snapshot[k] # None /\ ~Running(k) /\ disk[k] # None /\ job[k] # None
  BY <1>1 DEF WriteSnapshot, PerJob, WorkerInv
<1>3. SameRun(snapshot[k], job[k]) BY <1>1, <1>2 DEF KeepsTo
<1>4. /\ disk'[k] \in {disk[k], snapshot[k]} /\ \A d \in Jobs \ {k} : disk'[d] = disk[d]
      /\ snapshot'[k] = None /\ \A d \in Jobs \ {k} : snapshot'[d] = snapshot[d]
      /\ UNCHANGED <<job, child, parent, orphans>>
  BY <1>1 DEF WriteSnapshot, TypeOK, fabricVars
<1>5. \A d \in Jobs : Running(d)' <=> Running(d) BY <1>4 DEF Running
<1>6. ASSUME NEW d \in Jobs, parent[d] # None PROVE disk'[d] # None /\ Left(parent[d])' /\ Watches(d)'
  <2>1. parent[d] \in Jobs BY <1>1, <1>6 DEF TypeOK
  <2>2. disk[d] # None /\ Left(parent[d]) /\ Watches(d) BY <1>1, <1>6 DEF KeepsTo
  <2>3. /\ disk'[parent[d]] # None
        /\ disk'[parent[d]] # disk[parent[d]] =>
              parent[d] = k /\ disk'[parent[d]] = snapshot[k]
        /\ SameRun(disk'[parent[d]], disk[parent[d]])
    BY <1>2, <1>3, <1>4, <2>1, <2>2 DEF Left, SameRun
  <2>4. disk'[d] # None BY <1>2, <1>4, <2>2
  <2>5. Left(parent[d])' BY <1>4, <1>5, <2>1, <2>2, <2>3 DEF Left, SameRun
  <2>6. MonitorPending(disk'[parent[d]]) => MonitorPending(disk[parent[d]])
    BY <2>3 DEF SameRun, MonitorPending
  <2>7. Watches(d)' BY <1>4, <1>5, <2>2, <2>6 DEF Watches, Bound
  <2> QED BY <2>4, <2>5, <2>7
<1>7. ASSUME NEW d \in Jobs PROVE KeepsTo(d)'
  <2>1. snapshot'[d] # None => SameRun(snapshot[d], job[d]) /\ snapshot'[d] = snapshot[d]
    BY <1>1, <1>4 DEF KeepsTo
  <2>2. disk'[d] \in {disk[d], snapshot[d]} BY <1>4
  <2>3. \A r \in {job'[d], disk'[d], snapshot'[d]} \ {None} : Accepted(r)
    BY <1>1, <1>4, <2>1, <2>2 DEF KeepsTo
  <2> QED BY <1>4, <1>6, <2>1, <2>3 DEF KeepsTo, Accepted
<1> QED BY <1>7, WatchInvOf

-----------------------------------------------------------------------------
(* A new job, alone: it has no parent, and is nobody's.                    *)
LEMMA WatchStart == ASSUME IInv, WatchInv, NEW n \in Jobs, Start(n) PROVE WatchInv'
<1>1. TypeOK /\ \A d \in Jobs : KeepsTo(d) BY Parts_of_IInv, WatchInvOf DEF JInv
<1>2. Begin(n) /\ disk[n] = None BY DEF Start, Begin
<1>3. PICK r \in Records : r = NewJob(checkout) BY <1>1, NewRecord
<1>4. /\ job'[n] = r /\ disk'[n] = r /\ r # None
      /\ \A d \in Jobs \ {n} : job'[d] = job[d] /\ disk'[d] = disk[d]
      /\ UNCHANGED <<snapshot, child, parent, orphans>>
  BY <1>1, <1>2, <1>3, Fresh, NoneIsApart DEF Start, Save, TypeOK
<1>5. snapshot[n] = None BY <1>2, Fresh
<1>6. parent[n] = None /\ \A d \in Jobs : parent[d] # n
  BY <1>1, <1>2, NoneIsApart DEF KeepsTo, Left
<1>7. Accepted(r) BY <1>3 DEF NewJob, Accepted
<1>8. KeepsTo(n)' BY <1>4, <1>5, <1>6, <1>7 DEF KeepsTo, Accepted
<1>9. ASSUME NEW d \in Jobs \ {n} PROVE KeepsTo(d)'
  <2>1. parent[d] # None => parent[d] \in Jobs \ {n} BY <1>1, <1>6 DEF TypeOK
  <2> QED BY <1>1, <1>4, <2>1, KeptTo
<1> QED BY <1>8, <1>9, WatchInvOf

(* What a server knows of a checkpoint is claimed of Fabric too.           *)
LEMMA KnownClaims ==
    ASSUME IInv, NEW j \in Jobs, disk[j] # None PROVE Claims(Known(j))
<1>1. TypeOK /\ PerJob(j) BY Parts_of_IInv DEF JInv
<1>2. CASE job[j] # None BY <1>1, <1>2 DEF PerJob, Claimed, Known
<1>3. CASE job[j] = None
  <2>1. disk[j] \in Records /\ Claims(disk[j]) BY <1>1 DEF PerJob, Claimed, TypeOK
  <2> QED BY <1>3, <2>1 DEF Known, Claims, Records
<1> QED BY <1>2, <1>3

(* What a job takes over of an accepted run that is not settled.           *)
LEMMA InheritedWatch ==
    ASSUME NEW old \in Records, Accepted(old), NEW full \in BOOLEAN, CanResume(old),
           MonitorPending(old) => Changed(old) = {} /\ old.pending = {},
           full => Changed(old) # {} /\ old.completed >= Sync
    PROVE  /\ Accepted(Inherited(old, full))
           /\ MonitorPending(old) => MonitorPending(Inherited(old, full))
<1>1. PICK r : r = Inherited(old, full) OBVIOUS
<1>2. /\ r.completed = (IF full THEN 0
                        ELSE IF "core" \in Changed(old) /\ old.completed = Setup THEN Sync
                        ELSE old.completed)
      /\ r.pending = (IF full THEN {}
                      ELSE IF old.completed >= Sync THEN old.pending \cup Changed(old)
                      ELSE old.pending)
      /\ r.url = (IF MonitorPending(old) THEN old.url ELSE None)
      /\ r.state = (IF MonitorPending(old) THEN old.state ELSE None)
  BY <1>1 DEF Inherited, NewJob
<1>3. MonitorPending(old) => ~full /\ r.completed = old.completed /\ r.pending = {}
  BY <1>2
<1>4. Accepted(r) BY <1>2, <1>3 DEF Accepted, MonitorPending
<1>5. MonitorPending(old) => MonitorPending(r) BY <1>2, <1>3 DEF MonitorPending
<1> QED BY <1>1, <1>4, <1>5

(* A resumed checkpoint rests from now on, and its accepted run is inherited.*)
LEMMA WatchResume ==
    ASSUME IInv, WatchInv, NEW j \in Jobs, NEW n \in Jobs, Resume(j, n) PROVE WatchInv'
<1>1. TypeOK /\ PerJob(j) /\ \A d \in Jobs : KeepsTo(d) BY Parts_of_IInv, WatchInvOf DEF JInv
<1>2. Begin(n) /\ disk[n] = None /\ disk[j] # None /\ ResumeAfter(j, n, Known(j))
  BY DEF Resume, Begin
<1>3. j # n BY <1>2
<1>4. PICK old \in Records :
        /\ old = Known(j) /\ Accepted(old)
        /\ job[j] # None => SameRun(old, job[j])
        /\ job[j] = None => SameRun(old, disk[j])
  <2>1. CASE job[j] # None
    BY <1>1, <2>1 DEF KeepsTo, Known, TypeOK, SameRun
  <2>2. CASE job[j] = None
    <3>1. disk[j] \in Records /\ Accepted(disk[j]) BY <1>1, <1>2 DEF KeepsTo, TypeOK
    <3>2. PICK s \in Ended \cup {"running", "interrupted"} : Known(j) = [disk[j] EXCEPT !.status = s]
      BY <2>2 DEF Known
    <3>3. PICK q \in Records : q = [disk[j] EXCEPT !.status = s] BY <3>1, RecordUpdates
    <3> QED BY <2>2, <3>1, <3>2, <3>3 DEF SameRun, Accepted, Records
  <2> QED BY <2>1, <2>2
<1>5. /\ CanResume(old)
      /\ MonitorPending(old) => Changed(old) = {} /\ old.pending = {}
  BY <1>2, <1>4 DEF ResumeAfter
<1>6. PICK full \in BOOLEAN :
        /\ full => Changed(old) # {} /\ old.completed >= Sync
        /\ job' = [job EXCEPT ![j] = [old EXCEPT !.resumedBy = n], ![n] = Inherited(old, full)]
  BY <1>2, <1>4 DEF ResumeAfter
<1>7. PICK r : r = Inherited(old, full) OBVIOUS
<1>8. Accepted(r) /\ (MonitorPending(old) => MonitorPending(r)) /\ r.status = "running"
      /\ r # None
  <2>1. r.status = "running" /\ r \in Records
    BY <1>1, <1>2, <1>4, <1>5, <1>7, InheritedClaims, KnownClaims
  <2> QED BY <1>4, <1>5, <1>6, <1>7, <2>1, InheritedWatch, NoneIsApart
<1>9. PICK q \in Records : q = [old EXCEPT !.resumedBy = n] BY <1>4, RecordUpdates
<1>10. /\ SameRun(q, old) /\ Accepted(q) /\ q.status = old.status /\ q # None
       /\ MonitorPending(q) <=> MonitorPending(old)
  BY <1>4, <1>9, NoneIsApart DEF Records, SameRun, Accepted, MonitorPending
<1>11. /\ job'[j] = q /\ job'[n] = r /\ disk'[j] = q /\ disk'[n] = r
       /\ parent'[n] = j
       /\ \A d \in Jobs \ {n} : parent'[d] = parent[d]
       /\ \A d \in Jobs \ {n, j} : job'[d] = job[d] /\ disk'[d] = disk[d]
       /\ UNCHANGED <<snapshot, child, orphans>>
  <2>1. job' = [job EXCEPT ![j] = q, ![n] = r] BY <1>6, <1>7, <1>9
  <2>2. job'[j] = q /\ job'[n] = r BY <1>1, <1>3, <2>1 DEF TypeOK
  <2>3. disk' = [disk EXCEPT ![j] = q, ![n] = r] /\ parent' = [parent EXCEPT ![n] = j]
    BY <1>2, <2>2 DEF ResumeAfter
  <2> QED BY <1>1, <1>2, <1>3, <2>1, <2>2, <2>3, Fresh DEF TypeOK
<1>12. /\ n \notin orphans /\ child[n] = None /\ snapshot[n] = None
       /\ \A d \in Jobs : ~Running(d)
  BY <1>2, Fresh
<1>13. \A d \in Jobs : parent[d] # n BY <1>1, <1>2, NoneIsApart DEF KeepsTo, Left
<1>14. ~Running(j)' BY <1>5, <1>10, <1>11 DEF Running, CanResume
<1>15. Left(j)' BY <1>10, <1>11, <1>14 DEF Left, SameRun
<1>16. KeepsTo(n)'
  <2>1. Watches(n)' BY <1>8, <1>10, <1>11, <1>12 DEF Watches, Bound
  <2>2. \A x \in {job'[n], disk'[n], snapshot'[n]} \ {None} : Accepted(x)
    BY <1>8, <1>11, <1>12
  <2> QED BY <1>8, <1>11, <1>12, <1>15, <2>1, <2>2 DEF KeepsTo, Accepted
<1>17. ASSUME NEW d \in Jobs \ {n}, parent[d] # None
       PROVE  disk'[d] # None /\ Left(parent[d])' /\ Watches(d)'
  <2>1. parent[d] \in Jobs \ {n} BY <1>1, <1>13, <1>17 DEF TypeOK
  <2>2. disk[d] # None /\ Left(parent[d]) /\ Watches(d) BY <1>1, <1>17 DEF KeepsTo
  <2>3. SameRun(disk'[parent[d]], disk[parent[d]])
    BY <1>4, <1>10, <1>11, <2>1, <2>2 DEF Left, SameRun
  <2>4. ~Running(d)' BY <1>11, <1>12, <1>14 DEF Running
  <2>5. Left(parent[d])'
    <3>1. CASE parent[d] = j BY <1>11, <1>15, <3>1
    <3>2. CASE parent[d] # j BY <1>11, <2>1, <2>2, <3>2 DEF Left, Running
    <3> QED BY <3>1, <3>2
  <2>6. MonitorPending(disk'[parent[d]]) => MonitorPending(disk[parent[d]])
    BY <2>3 DEF SameRun, MonitorPending
  <2>7. Watches(d)' BY <1>11, <2>2, <2>4, <2>6 DEF Watches, Bound
  <2>8. disk'[d] # None BY <1>10, <1>11, <2>2
  <2> QED BY <2>5, <2>7, <2>8
<1>18. ASSUME NEW d \in Jobs \ {n} PROVE KeepsTo(d)'
  <2>1. \A x \in {job'[d], disk'[d], snapshot'[d]} \ {None} : Accepted(x)
    BY <1>1, <1>10, <1>11 DEF KeepsTo
  <2>2. snapshot'[d] # None => SameRun(snapshot[d], job'[d])
    <3>1. snapshot[d] # None => job[d] # None
      BY Parts_of_IInv DEF JInv, PerJob, WorkerInv
    <3> QED BY <1>1, <1>4, <1>10, <1>11, <3>1 DEF KeepsTo, SameRun
  <2> QED BY <1>11, <1>17, <2>1, <2>2 DEF KeepsTo, Accepted
<1> QED BY <1>16, <1>18, WatchInvOf

(* A stop takes no child of a resumed job that was about to submit.        *)
LEMMA WatchExit == ASSUME IInv, WatchInv, Exit PROVE WatchInv'
<1>1. \A d \in Jobs : PerJob(d) /\ KeepsTo(d) BY Parts_of_IInv, WatchInvOf DEF JInv
<1>2. /\ UNCHANGED <<disk, parent>>
      /\ \A d \in Jobs : /\ job'[d] = None /\ snapshot'[d] = None /\ child'[d] = None
                         /\ d \in orphans' <=>
                               d \in orphans \/ (child[d] # None /\ child[d].stage = "checked")
  BY DEF Exit
<1>3. \A d \in Jobs : ~Running(d)' BY <1>2 DEF Running
<1>4. TypeOK BY Parts_of_IInv DEF JInv
<1>5. ASSUME NEW d \in Jobs PROVE KeepsTo(d)'
  <2>1. parent[d] # None => Left(parent[d])'
    BY <1>1, <1>2, <1>3, <1>4 DEF KeepsTo, Left, TypeOK
  <2>2. parent[d] # None => Watches(d)'
    <3>1. SUFFICES ASSUME parent[d] # None, MonitorPending(disk[parent[d]])
                   PROVE  d \notin orphans'
      BY <1>2, <1>3 DEF Watches, Bound
    <3>2. d \notin orphans /\ Bound(d) BY <1>1, <3>1 DEF KeepsTo, Watches
    <3>3. ASSUME child[d] # None PROVE child[d].stage # "checked"
      BY <1>1, <1>4, <3>2, <3>3, RunningRecord
         DEF PerJob, WorkerInv, ChildInv, Bound, Records, Setup, Notebooks
    <3> QED BY <1>2, <3>2, <3>3
  <2> QED BY <1>1, <1>2, <2>1, <2>2 DEF KeepsTo, Accepted
<1> QED BY <1>5, WatchInvOf

(* WatchInv holds initially,                                               *)
LEMMA InitWatchInv == Init => WatchInv
BY DEF Init, WatchInv, MonitorPending

(* ... and every step keeps it, given IInv.                                *)
LEMMA NextWatchInv == IInv /\ WatchInv /\ [Next]_vars => WatchInv'
<1> SUFFICES ASSUME IInv, WatchInv, [Next]_vars PROVE WatchInv' OBVIOUS
<1>1. ASSUME NEW j \in Jobs, Worker(j) PROVE WatchInv'
  BY <1>1, WatchProceed, WatchLaunch, WatchChild, WatchReads, WatchCollect,
     WatchTakeSnapshot, WatchWriteSnapshot DEF Worker
<1>2. ASSUME NEW j \in Jobs, Child(j) \/ ChildFails(j) \/ Cancel(j) PROVE WatchInv'
  BY <1>2, WatchChild
<1>3. ASSUME NEW j \in Jobs, Start(j) \/ \E n \in Jobs : Resume(j, n) PROVE WatchInv'
  BY <1>3, WatchStart, WatchResume
<1>4. ASSUME NEW j \in Jobs, OrphanPosts(j) \/ RunEnds(j) PROVE WatchInv'
  BY <1>4, WatchElsewhere DEF OrphanPosts, RunEnds, serverVars
<1>5. ASSUME NEW p \in Parts, Edit(p) PROVE WatchInv'
  BY <1>5, WatchElsewhere DEF Edit, serverVars, fabricVars
<1>6. CASE UNCHANGED vars
  BY <1>6, WatchElsewhere DEF vars, serverVars, fabricVars
<1> QED BY <1>1, <1>2, <1>3, <1>4, <1>5, <1>6, WatchExit DEF Next

(* What a job could submit, it may: its parent's run is not to be watched. *)
LEMMA WatchedIsNotSubmitted ==
    IInv /\ WatchInv /\ [Next]_vars =>
        \A j \in Jobs : run[j].state = "none" /\ run'[j].state = "active" /\ parent[j] # None =>
            ~MonitorPending(disk[parent[j]])
<1> SUFFICES ASSUME IInv, WatchInv, [Next]_vars, NEW j \in Jobs, run[j].state = "none",
                    run'[j].state = "active", parent[j] # None, MonitorPending(disk[parent[j]])
             PROVE  FALSE
  OBVIOUS
<1>1. TypeOK /\ PerJob(j) BY Parts_of_IInv DEF JInv
<1>2. j \notin orphans /\ Bound(j) BY WatchInvOf DEF KeepsTo, Watches
<1>3. ChildPosts(j) \/ OrphanPosts(j)
  <2>1. PICK k \in Jobs : ChildPosts(k) \/ OrphanPosts(k) \/ RunEnds(k)
    BY DEF Next, Worker, Child, vars, serverVars, fabricVars, boundVars, Start, Begin, Cancel,
       Resume, Proceed, Launch, Register, ReadUrl, ReadOutcome, Read, Collect, TakeSnapshot,
       WriteSnapshot, ChildChecks, ChildSucceeds, ChildFails, Exit, Edit
  <2>2. ~RunEnds(k) \/ k # j BY DEF RunEnds, Active
  <2>3. k = j
    BY <1>1, <2>1 DEF ChildPosts, OrphanPosts, RunEnds, Submitted, TypeOK
  <2> QED BY <2>1, <2>2, <2>3
<1>4. child[j] # None /\ child[j].stage = "checked"
  BY <1>2, <1>3 DEF OrphanPosts, ChildPosts, Alive
<1>5. Running(j) /\ job[j] \in Records BY <1>1, <1>4, RunningRecord DEF PerJob, WorkerInv
<1> QED
  BY <1>1, <1>2, <1>4, <1>5 DEF PerJob, ChildInv, Bound, Records, Setup, Notebooks

(* A resumed job does not submit setup again over a run that its           *)
(* checkpoint had accepted and not settled.                                *)
THEOREM AcceptedRunsStayWatched == Spec => AcceptedRunsAreWatched
<1>1. ASSUME IInv, WatchInv, [Next]_vars, NEW j \in Jobs, run[j].state = "none",
             run'[j].state = "active", parent[j] # None,
             disk[parent[j]].url # None, disk[parent[j]].completed < Setup
      PROVE  disk[parent[j]].state \in {"Failed", "Cancelled"}
  <2>1. parent[j] \in Jobs /\ disk[parent[j]] \in Records
    BY <1>1, WatchInvOf DEF KeepsTo, Left, IInv, TypeOK
  <2> QED BY <1>1, <2>1, WatchedIsNotSubmitted DEF MonitorPending, Records, Terminal
<1>2. IInv /\ WatchInv /\ [Next]_vars =>
        [\A j \in Jobs : run[j].state = "none" /\ run'[j].state = "active" /\ parent[j] # None =>
          LET old == disk[parent[j]]
          IN  old.url # None /\ old.completed < Setup => old.state \in {"Failed", "Cancelled"}]_vars
  BY <1>1
<1> QED BY <1>2, Invariance, InitWatchInv, NextWatchInv, PTL DEF Spec, AcceptedRunsAreWatched

(* A checkpoint that has been resumed tells the same story for good: what  *)
(* a save of its own worker overwrites late is only who resumed it.        *)
THEOREM ResumedCheckpointsAreFinal == Spec => ResumedCheckpointsRest
<1>1. ASSUME IInv, WatchInv, [Next]_vars, NEW j \in Jobs, parent[j] # None
      PROVE  SameRun(disk'[parent[j]], disk[parent[j]])
  <2>1. PICK p \in Jobs : p = parent[j] BY <1>1 DEF IInv, TypeOK
  <2>2. TypeOK /\ PerJob(p) /\ KeepsTo(p) /\ Left(p)
    BY <1>1, <2>1, Parts_of_IInv, WatchInvOf DEF JInv, KeepsTo
  <2>3. ASSUME disk'[p] # disk[p] PROVE SameRun(disk'[p], disk[p])
    <3>1. PICK k \in Jobs : \/ Worker(k) \/ Start(k) \/ \E n \in Jobs : Resume(k, n)
      BY <1>1, <2>3 DEF Next, Child, Cancel, ChildFails, OrphanPosts, RunEnds, Exit, Edit,
         ChildChecks, ChildPosts, ChildSucceeds, vars, serverVars
    <3>2. CASE Start(k)
      BY <2>2, <2>3, <3>2 DEF Start, Begin, Save, Left, TypeOK
    <3>3. ASSUME NEW n \in Jobs, Resume(k, n) PROVE SameRun(disk'[p], disk[p])
      <4>1. Begin(n) /\ ResumeAfter(k, n, Known(k)) BY <3>3 DEF Resume
      <4>2. p # n /\ k # n BY <2>2, <3>3 DEF Resume, Begin, Left
      <4>3. p = k /\ disk'[p] = job'[p] BY <2>2, <2>3, <4>1, <4>2 DEF ResumeAfter, TypeOK
      <4>4. job'[p] = [Known(p) EXCEPT !.resumedBy = n]
        BY <2>2, <4>1, <4>2, <4>3 DEF ResumeAfter, TypeOK
      <4>5. SameRun(Known(p), disk[p]) /\ SameRun(job'[p], Known(p))
        <5>1. disk[p] \in Records /\ job[p] \in Records \cup {None} BY <2>2 DEF Left, TypeOK
        <5>2. CASE job[p] # None
          BY <2>2, <4>4, <5>1, <5>2 DEF Known, Left, SameRun, Records
        <5>3. CASE job[p] = None
          BY <4>4, <5>1, <5>3 DEF Known, SameRun, Records
        <5> QED BY <5>2, <5>3
      <4> QED BY <4>3, <4>5 DEF SameRun
    <3>4. CASE WriteSnapshot(k)
      <4>1. k = p /\ disk'[p] = snapshot[p]
        BY <2>2, <2>3, <3>4 DEF WriteSnapshot, TypeOK
      <4>2. snapshot[p] # None /\ job[p] # None
        BY <2>2, <3>4, <4>1 DEF WriteSnapshot, PerJob, WorkerInv
      <4> QED BY <2>2, <4>1, <4>2 DEF KeepsTo, Left, SameRun
    <3>5. CASE Worker(k) /\ ~WriteSnapshot(k)
      <4>1. k = p
        BY <2>2, <2>3, <3>5 DEF Worker, Proceed, Launch, Register, ReadUrl, ReadOutcome, Read,
           Collect, TakeSnapshot, End, Save, TypeOK
      <4>2. worker[p] \notin {"next", "launch", "launched", "monitor"}
        BY <2>2 DEF Left, PerJob, WorkerInv
      <4> QED
        BY <2>2, <2>3, <3>5, <4>1, <4>2 DEF Worker, Proceed, Launch, Register, ReadUrl,
           ReadOutcome, Read, Collect, TakeSnapshot
    <3> QED BY <3>1, <3>2, <3>3, <3>4, <3>5
  <2> QED BY <2>1, <2>3 DEF SameRun
<1>2. IInv /\ WatchInv /\ [Next]_vars =>
        [\A j \in Jobs : parent[j] # None => SameRun(disk'[parent[j]], disk[parent[j]])]_vars
  BY <1>1
<1> QED BY <1>2, Invariance, InitWatchInv, NextWatchInv, PTL DEF Spec, ResumedCheckpointsRest

=============================================================================
