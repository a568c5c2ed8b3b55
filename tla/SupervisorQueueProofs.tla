------------------------ MODULE SupervisorQueueProofs ------------------------
(***************************************************************************)
(* Proofs about SupervisorQueue for any finite set of keys, any capacity   *)
(* and queue limit, and every order of submissions, faults and restarts.   *)
(***************************************************************************)
EXTENDS SupervisorQueue, FiniteSetTheorems, TLAPS

(* What the invariant says of one run.                                     *)
PerRun(r) ==
    /\ TaskInv(r) /\ RunInv(r)
    /\ ~(answer[r] # None /\ failure[r])
    /\ answer[r] \in {None, request[r]}

(* The invariant, run by run.                                              *)
LEMMA Expand ==
    IInv => TypeOK /\ NoRunIsLost /\ RestartFits /\ \A r \in Runs : PerRun(r)
BY DEF IInv, PerRun, OneOutcome, AnswersTheRequest

(* Sets of runs are finite, and smaller sets have fewer members.           *)
LEMMA Counting ==
    ASSUME NEW S, S \subseteq Runs, NEW T, T \subseteq S
    PROVE  /\ IsFiniteSet(S) /\ Cardinality(S) \in Nat
           /\ Cardinality(T) \in Nat /\ Cardinality(T) <= Cardinality(S)
<1>1. IsFiniteSet(Runs) BY ConstantsAssumption, Zenon DEF ConstantsAssumption
<1>2. IsFiniteSet(S) /\ IsFiniteSet(T) BY <1>1, FS_Subset
<1>3. Cardinality(T) <= Cardinality(S) BY <1>2, FS_Subset
<1> QED BY <1>2, <1>3, FS_CardinalityType

(* None is no request and no task.                                         *)
LEMMA Fresh == /\ None \notin Requests /\ None \notin Tasks
               /\ QueueLimit \in Nat \ {0} /\ Capacity \in Nat \ {0}
BY ConstantsAssumption DEF ConstantsAssumption

(* A run that a step leaves alone keeps its part of the invariant.         *)
LEMMA Untouched ==
    ASSUME NEW r \in Runs, PerRun(r),
           request'[r] = request[r], answer'[r] = answer[r], failure'[r] = failure[r],
           task'[r] = task[r], r \in unrecorded => r \in unrecorded', service' = service
    PROVE  PerRun(r)'
BY DEF PerRun, TaskInv, RunInv, Settled, Scheduled

(* What a step of a task does to the table of tasks.                       *)
LEMMA AdvanceEffect ==
    ASSUME TypeOK, NEW r \in Scheduled, NEW s \in TaskStates, Advance(r, s)
    PROVE  /\ task' \in [Runs -> Tasks \cup {None}]
           /\ r \in Runs /\ task[r] \in Tasks
           /\ task'[r].state = s /\ task'[r].request = task[r].request
           /\ \A d \in Runs \ {r} : task'[d] = task[d]
           /\ Scheduled' = Scheduled
           /\ Holding' = IF s \in {"running", "committed"} THEN Holding \cup {r} ELSE Holding \ {r}
<1>1. r \in Runs /\ task[r] \in Tasks BY DEF Scheduled, TypeOK
<1>2. task' = [task EXCEPT ![r] = [task[r] EXCEPT !.state = s]] BY DEF Advance
<1>3. [task[r] EXCEPT !.state = s] \in Tasks BY <1>1 DEF Tasks
<1>4. /\ task'[r] = [task[r] EXCEPT !.state = s]
      /\ \A d \in Runs \ {r} : task'[d] = task[d]
  BY <1>1, <1>2 DEF TypeOK
<1>5. task'[r].state = s /\ task'[r].request = task[r].request BY <1>1, <1>4 DEF Tasks
<1>6. task' \in [Runs -> Tasks \cup {None}] BY <1>2, <1>3 DEF TypeOK
<1>7. Scheduled' = Scheduled BY <1>1, <1>3, <1>4, Fresh DEF Scheduled
<1>8. Holding' = IF s \in {"running", "committed"} THEN Holding \cup {r} ELSE Holding \ {r}
  <2>1. Holding = {d \in Scheduled : task[d].state \in {"running", "committed"}}
    BY DEF Holding, InState
  <2>2. Holding' = {d \in Scheduled : task'[d].state \in {"running", "committed"}}
    BY <1>7 DEF Holding, InState
  <2>3. \A d \in Scheduled : d \in Runs BY DEF Scheduled
  <2> QED BY <1>4, <1>5, <2>1, <2>2, <2>3
<1> QED BY <1>1, <1>4, <1>5, <1>6, <1>7, <1>8

(* What scheduling a run does to it.                                       *)
LEMMA ScheduleEffect ==
    ASSUME TypeOK, NEW r \in Runs, NEW q \in Requests, Schedule(r, q)
    PROVE  /\ task' \in [Runs -> Tasks \cup {None}]
           /\ task'[r].state = "waiting" /\ task'[r].request = q
           /\ \A d \in Runs \ {r} : task'[d] = task[d]
           /\ r \notin Scheduled /\ Scheduled' = Scheduled \cup {r}
           /\ Holding' = Holding
           /\ Cardinality(Scheduled') <= QueueLimit
           /\ unrecorded' = unrecorded \ {r}
<1>1. r \notin Scheduled /\ ~Full /\ unrecorded' = unrecorded \ {r} BY DEF Schedule
<1>2. task' = [task EXCEPT ![r] = NewTask(q)] BY DEF Schedule
<1>3. NewTask(q) \in Tasks /\ NewTask(q).state = "waiting" /\ NewTask(q).request = q
  BY DEF NewTask, Tasks, TaskStates
<1>4. task'[r] = NewTask(q) /\ \A d \in Runs \ {r} : task'[d] = task[d] BY <1>2 DEF TypeOK
<1>5. task' \in [Runs -> Tasks \cup {None}] BY <1>2, <1>3 DEF TypeOK
<1>6. Scheduled' = Scheduled \cup {r} BY <1>3, <1>4, Fresh DEF Scheduled
<1>7. Holding' = Holding
  <2>1. Holding = {d \in Scheduled : task[d].state \in {"running", "committed"}}
    BY DEF Holding, InState
  <2>2. Holding' = {d \in Scheduled' : task'[d].state \in {"running", "committed"}}
    BY DEF Holding, InState
  <2>3. \A d \in Scheduled : d \in Runs \ {r} BY <1>1 DEF Scheduled
  <2>4. task'[r].state = "waiting" BY <1>3, <1>4
  <2> QED BY <1>4, <1>6, <2>1, <2>2, <2>3, <2>4
<1>8. Cardinality(Scheduled') <= QueueLimit
  <2>1. Scheduled \subseteq Runs BY DEF Scheduled
  <2>2. IsFiniteSet(Scheduled) /\ Cardinality(Scheduled) \in Nat BY <2>1, Counting
  <2>3. Cardinality(Scheduled') = Cardinality(Scheduled) + 1 BY <1>1, <1>6, <2>2, FS_AddElement
  <2> QED BY <1>1, <2>2, <2>3, Fresh DEF Full
<1> QED BY <1>1, <1>3, <1>4, <1>5, <1>6, <1>7, <1>8

(* A run that gets a task, or a task a step nearer its end.                *)
LEMMA SubmitStep ==
    ASSUME IInv, NEW r \in Runs, NEW q \in Requests, Submit(r, q) \/ Resubmit(r, q)
    PROVE  IInv'
<1>0. TypeOK /\ NoRunIsLost /\ RestartFits /\ \A d \in Runs : PerRun(d) BY Expand
<1>1. /\ Schedule(r, q) /\ ~Settled(r) /\ service = "up"
      /\ UNCHANGED <<answer, failure, serviceVars, faults>>
  BY <1>0 DEF Submit, Resubmit, PerRun, RunInv, receiptVars
<1>2. /\ request' \in [Runs -> Requests \cup {None}] /\ request'[r] = q
      /\ \A d \in Runs \ {r} : request'[d] = request[d]
  BY <1>0 DEF Submit, Resubmit, receiptVars, TypeOK
<1>3. /\ task' \in [Runs -> Tasks \cup {None}]
      /\ task'[r].state = "waiting" /\ task'[r].request = q
      /\ \A d \in Runs \ {r} : task'[d] = task[d]
      /\ Scheduled' = Scheduled \cup {r} /\ Holding' = Holding
      /\ Cardinality(Scheduled') <= QueueLimit /\ unrecorded' = unrecorded \ {r}
  BY <1>0, <1>1, ScheduleEffect
<1>4. TypeOK' BY <1>0, <1>1, <1>2, <1>3 DEF TypeOK, serviceVars
<1>5. Unsettled' \subseteq Unsettled \cup {r} BY <1>1, <1>2 DEF Unsettled, Settled
<1>6. NoRunIsLost' BY <1>0, <1>1, <1>3, <1>5 DEF NoRunIsLost
<1>7. RestartFits'
  <2>1. Unsettled' \ unrecorded' \subseteq Scheduled'
    BY <1>0, <1>1, <1>3, <1>5 DEF NoRunIsLost
  <2>2. Scheduled' \subseteq Runs BY DEF Scheduled
  <2>3. /\ Cardinality(Scheduled') \in Nat /\ Cardinality(Unsettled' \ unrecorded') \in Nat
        /\ Cardinality(Unsettled' \ unrecorded') <= Cardinality(Scheduled')
    BY <2>1, <2>2, Counting
  <2> QED BY <1>3, <2>3, Fresh DEF RestartFits
<1>8. PerRun(r)'
  <2>1. q # None BY Fresh
  <2>2. answer[r] = None /\ ~failure[r] BY <1>1 DEF Settled
  <2> QED BY <1>1, <1>2, <1>3, <2>1, <2>2 DEF PerRun, TaskInv, RunInv, Settled, serviceVars
<1>9. ASSUME NEW d \in Runs \ {r} PROVE PerRun(d)'
  <2>1. d \in Runs /\ PerRun(d) BY <1>0
  <2>2. request'[d] = request[d] /\ task'[d] = task[d] BY <1>2, <1>3
  <2>3. answer'[d] = answer[d] /\ failure'[d] = failure[d] /\ service' = service
    BY <1>1 DEF serviceVars
  <2>4. d \in unrecorded => d \in unrecorded' BY <1>3
  <2> QED BY <2>1, <2>2, <2>3, <2>4, Untouched
<1>10. \A d \in Runs : PerRun(d)' BY <1>8, <1>9
<1> QED BY <1>4, <1>6, <1>7, <1>10
  DEF IInv, PerRun, OneOutcome, AnswersTheRequest

(* A task takes its permit, commits, returns or raises.                    *)
LEMMA ExecutionStep ==
    ASSUME IInv, NEW r \in Runs, Enter(r) \/ Commit(r) \/ Return(r) \/ Raise(r)
    PROVE  IInv'
<1>0. TypeOK /\ NoRunIsLost /\ RestartFits /\ \A d \in Runs : PerRun(d) BY Expand
<1>1. PICK s \in {"running", "committed", "over"} : Advance(r, s)
  BY DEF Enter, Commit, Return, Raise
<1>2. r \in Scheduled BY DEF Enter, Commit, Return, Raise, InState, Holding
<1>3. s \in TaskStates BY DEF TaskStates
<1>4. /\ task' \in [Runs -> Tasks \cup {None}] /\ task[r] \in Tasks
      /\ task'[r].state = s /\ task'[r].request = task[r].request
      /\ \A d \in Runs \ {r} : task'[d] = task[d]
      /\ Scheduled' = Scheduled
      /\ Holding' = IF s \in {"running", "committed"} THEN Holding \cup {r} ELSE Holding \ {r}
  BY <1>0, <1>1, <1>2, <1>3, AdvanceEffect
\* The permits: only Enter takes one.
<1>5. Cardinality(Holding') <= Capacity
  <2>0. Holding \subseteq Runs BY DEF Holding, InState, Scheduled
  <2>1. IsFiniteSet(Holding) /\ Cardinality(Holding) \in Nat BY <2>0, Counting
  <2>2. CASE Enter(r)
    <3>1. Cardinality(Holding) < Capacity BY <2>2 DEF Enter
    <3>2. Holding' \subseteq Holding \cup {r} BY <1>4
    <3>3. CASE r \in Holding
      <4>1. Holding' \subseteq Holding BY <3>2, <3>3
      <4>2. Cardinality(Holding') <= Cardinality(Holding) /\ Cardinality(Holding') \in Nat
        BY <2>0, <4>1, Counting
      <4> QED BY <2>1, <3>1, <4>2, Fresh
    <3>4. CASE r \notin Holding
      <4>1. Cardinality(Holding \cup {r}) = Cardinality(Holding) + 1
        BY <2>1, <3>4, FS_AddElement
      <4>2. Holding \cup {r} \subseteq Runs BY <2>0
      <4>3. Cardinality(Holding') <= Cardinality(Holding \cup {r}) /\ Cardinality(Holding') \in Nat
        BY <3>2, <4>2, Counting
      <4> QED BY <2>1, <3>1, <4>1, <4>3, Fresh
    <3> QED BY <3>3, <3>4
  <2>3. CASE Commit(r) \/ Return(r) \/ Raise(r)
    <3>1. r \in Holding BY <2>3 DEF Commit, Return, Raise, Holding
    <3>2. Holding' \subseteq Holding BY <1>4, <3>1
    <3>3. Cardinality(Holding') <= Cardinality(Holding) /\ Cardinality(Holding') \in Nat
      BY <2>0, <3>2, Counting
    <3>4. Cardinality(Holding) <= Capacity BY <1>0 DEF TypeOK
    <3> QED BY <2>1, <3>3, <3>4, Fresh
  <2> QED BY <2>2, <2>3
<1>6. UNCHANGED <<request, serviceVars>>
  BY DEF Enter, Commit, Return, Raise, receiptVars
\* The receipts: the run settles, or its failure could not be written.
<1>7. /\ answer' \in [Runs -> Requests \cup {None}] /\ failure' \in [Runs -> BOOLEAN]
      /\ unrecorded' \subseteq Runs /\ unrecorded \subseteq unrecorded' /\ faults' \in Nat
      /\ \A d \in Runs \ {r} : answer'[d] = answer[d] /\ failure'[d] = failure[d]
      /\ Settled(r) => Settled(r)'
      /\ PerRun(r)'
  <2>1. /\ PerRun(r) /\ task[r].request = request[r] /\ service' = service
        /\ request'[r] = request[r] /\ request[r] # None
    <3>1. PerRun(r) /\ task[r] # None BY <1>0, <1>2 DEF Scheduled
    <3> QED BY <1>2, <1>6, <3>1 DEF PerRun, TaskInv, RunInv, serviceVars
  <2>2. CASE Enter(r) \/ Return(r)
    <3>1. UNCHANGED <<receiptVars, faultVars>> BY <2>2 DEF Enter, Return
    <3>2. \/ task[r].state = "waiting" /\ s = "running"
          \/ task[r].state = "committed" /\ s = "over"
      BY <1>3, <1>4, <2>2 DEF Enter, Return, InState, Advance, TypeOK, Tasks, Scheduled
    <3>3. PerRun(r)'
      BY <1>2, <1>4, <2>1, <3>1, <3>2 DEF PerRun, TaskInv, RunInv, Settled, receiptVars, faultVars
    <3> QED BY <1>0, <3>1, <3>3 DEF TypeOK, receiptVars, faultVars, Settled
  <2>3. CASE Commit(r)
    <3>1. /\ task[r].state = "running" /\ task[r].request.source = source
          /\ answer' = [answer EXCEPT ![r] =
                IF @ = None THEN [body |-> task[r].request.body, source |-> source] ELSE @]
          /\ UNCHANGED <<failure, faultVars>>
      BY <2>3 DEF Commit, Refused, InState
    <3>2. [body |-> task[r].request.body, source |-> source] = task[r].request
      BY <1>4, <3>1 DEF Tasks, Requests
    <3>3. answer[r] = None /\ ~failure[r]
      BY <1>2, <2>1, <3>1 DEF PerRun, TaskInv, Settled
    <3>4. answer' = [answer EXCEPT ![r] = request[r]] BY <2>1, <3>1, <3>2, <3>3
    <3>5. request[r] \in Requests BY <1>0, <2>1 DEF TypeOK
    <3>6. /\ answer' \in [Runs -> Requests \cup {None}] /\ answer'[r] = request[r]
          /\ \A d \in Runs \ {r} : answer'[d] = answer[d]
      BY <1>0, <3>4, <3>5 DEF TypeOK
    <3>7. s = "committed"
      BY <1>4, <2>3, <1>0, <1>2 DEF Commit, Advance, TypeOK, Tasks, Scheduled
    <3>8. PerRun(r)'
      BY <1>2, <1>4, <2>1, <3>1, <3>3, <3>6, <3>7 DEF PerRun, TaskInv, RunInv, Settled, faultVars
    <3> QED BY <1>0, <2>1, <3>1, <3>6, <3>8 DEF TypeOK, Settled, faultVars
  <2>4. CASE Raise(r)
    <3>1. answer' = answer BY <2>4 DEF Raise
    <3>2. s = "over"
      BY <1>4, <2>4, <1>0, <1>2 DEF Raise, Advance, TypeOK, Tasks, Scheduled
    <3>3. CASE answer[r] # None /\ UNCHANGED <<failure, faultVars>>
      <4>1. PerRun(r)'
        BY <1>2, <1>4, <2>1, <3>1, <3>2, <3>3 DEF PerRun, TaskInv, RunInv, Settled, faultVars
      <4> QED BY <1>0, <3>1, <3>3, <4>1 DEF TypeOK, Settled, faultVars
    <3>4. CASE /\ answer[r] = None /\ failure' = [failure EXCEPT ![r] = TRUE]
               /\ UNCHANGED faultVars
      <4>0. failure'[r] /\ \A d \in Runs \ {r} : failure'[d] = failure[d]
        BY <1>0, <3>4 DEF TypeOK
      <4>1. PerRun(r)'
        BY <1>2, <1>4, <2>1, <3>1, <3>2, <3>4, <4>0 DEF PerRun, TaskInv, RunInv, Settled, faultVars
      <4> QED BY <1>0, <3>1, <3>4, <4>0, <4>1 DEF TypeOK, Settled, faultVars
    <3>5. CASE /\ answer[r] = None /\ faults' = faults + 1
               /\ unrecorded' = unrecorded \cup {r} /\ UNCHANGED failure
      <4>1. PerRun(r)'
        BY <1>2, <1>4, <2>1, <3>1, <3>2, <3>5 DEF PerRun, TaskInv, RunInv, Settled
      <4> QED BY <1>0, <3>1, <3>5, <4>1 DEF TypeOK, Settled
    <3> QED BY <2>4, <3>3, <3>4, <3>5 DEF Raise
  <2> QED BY <2>2, <2>3, <2>4
<1>8. TypeOK' BY <1>0, <1>4, <1>5, <1>6, <1>7 DEF TypeOK, serviceVars
<1>9. Unsettled' \subseteq Unsettled BY <1>6, <1>7 DEF Unsettled, Settled
<1>10. NoRunIsLost' BY <1>0, <1>4, <1>6, <1>7, <1>9 DEF NoRunIsLost, serviceVars
<1>11. RestartFits'
  <2>1. Unsettled' \ unrecorded' \subseteq Unsettled \ unrecorded BY <1>7, <1>9
  <2>2. Unsettled \ unrecorded \subseteq Runs BY DEF Unsettled
  <2> DEFINE S == Unsettled \ unrecorded
             T == Unsettled' \ unrecorded'
  <2>3. Cardinality(T) <= Cardinality(S) /\ Cardinality(S) \in Nat /\ Cardinality(T) \in Nat
    BY <2>1, <2>2, Counting
  <2> QED BY <1>0, <2>3, Fresh DEF RestartFits
<1>12. ASSUME NEW d \in Runs \ {r} PROVE PerRun(d)'
  <2>1. d \in Runs /\ PerRun(d) BY <1>0
  <2>2. request'[d] = request[d] /\ task'[d] = task[d] /\ service' = service
    BY <1>4, <1>6 DEF serviceVars
  <2>3. answer'[d] = answer[d] /\ failure'[d] = failure[d] BY <1>7
  <2>4. d \in unrecorded => d \in unrecorded' BY <1>7
  <2> QED BY <2>1, <2>2, <2>3, <2>4, Untouched
<1>13. \A d \in Runs : PerRun(d)' BY <1>7, <1>12
<1> QED BY <1>8, <1>10, <1>11, <1>13
  DEF IInv, PerRun, OneOutcome, AnswersTheRequest

(* The done callback removes a task that is over.                          *)
LEMMA FinishedStep ==
    ASSUME IInv, NEW r \in Runs, Finished(r)
    PROVE  IInv'
<1>0. TypeOK /\ NoRunIsLost /\ RestartFits /\ \A d \in Runs : PerRun(d) BY Expand
<1>1. /\ r \in Scheduled /\ task[r].state = "over"
      /\ task' = [task EXCEPT ![r] = None]
      /\ UNCHANGED <<receiptVars, serviceVars, faultVars>>
  BY DEF Finished, InState
<1>2. /\ task' \in [Runs -> Tasks \cup {None}] /\ task'[r] = None
      /\ \A d \in Runs \ {r} : task'[d] = task[d]
  BY <1>0, <1>1 DEF TypeOK
<1>3. Scheduled' = Scheduled \ {r} BY <1>2 DEF Scheduled
<1>4. Holding' \subseteq Holding
  <2>1. Holding = {d \in Scheduled : task[d].state \in {"running", "committed"}}
    BY DEF Holding, InState
  <2>2. Holding' = {d \in Scheduled' : task'[d].state \in {"running", "committed"}}
    BY DEF Holding, InState
  <2>3. \A d \in Scheduled' : d \in Runs \ {r} BY <1>3 DEF Scheduled
  <2> QED BY <1>2, <1>3, <2>1, <2>2, <2>3
<1>5. Cardinality(Holding') <= Capacity /\ Cardinality(Scheduled') <= QueueLimit
  <2>1. Holding \subseteq Runs /\ Scheduled \subseteq Runs BY DEF Holding, InState, Scheduled
  <2>2. /\ Cardinality(Holding) \in Nat /\ Cardinality(Holding') \in Nat
        /\ Cardinality(Holding') <= Cardinality(Holding)
    BY <1>4, <2>1, Counting
  <2>3. Scheduled' \subseteq Scheduled BY <1>3
  <2>4. /\ Cardinality(Scheduled) \in Nat /\ Cardinality(Scheduled') \in Nat
        /\ Cardinality(Scheduled') <= Cardinality(Scheduled)
    BY <2>1, <2>3, Counting
  <2>5. Cardinality(Holding) <= Capacity /\ Cardinality(Scheduled) <= QueueLimit
    BY <1>0 DEF TypeOK
  <2> QED BY <2>2, <2>4, <2>5, Fresh
<1>6. TypeOK' BY <1>0, <1>1, <1>2, <1>5 DEF TypeOK, receiptVars, serviceVars, faultVars
<1>7. Unsettled' = Unsettled BY <1>1 DEF Unsettled, Settled, receiptVars
<1>8. RestartFits' BY <1>0, <1>1, <1>7 DEF RestartFits, faultVars
<1>9. NoRunIsLost'
  <2>1. r \in Unsettled => r \in unrecorded
    BY <1>0, <1>1 DEF PerRun, TaskInv, Unsettled
  <2> QED BY <1>0, <1>1, <1>3, <1>7, <2>1 DEF NoRunIsLost, serviceVars, faultVars
<1>10. ASSUME NEW d \in Runs PROVE PerRun(d)'
  <2>1. CASE d = r
    BY <1>0, <1>1, <1>2, <2>1 DEF PerRun, TaskInv, RunInv, Settled, Scheduled, receiptVars
  <2>2. CASE d # r
    <3>1. d \in Runs /\ PerRun(d) /\ task'[d] = task[d] BY <1>0, <1>2, <2>2
    <3>2. /\ request'[d] = request[d] /\ answer'[d] = answer[d] /\ failure'[d] = failure[d]
          /\ service' = service /\ (d \in unrecorded => d \in unrecorded')
      BY <1>1 DEF receiptVars, serviceVars, faultVars
    <3> QED BY <3>1, <3>2, Untouched
  <2> QED BY <2>1, <2>2
<1> QED BY <1>6, <1>8, <1>9, <1>10 DEF IInv, PerRun, OneOutcome, AnswersTheRequest

(* Stopping, and starting with a set S of unfinished runs.                 *)
LEMMA StopStep == ASSUME IInv, Stop PROVE IInv'
<1>0. TypeOK /\ NoRunIsLost /\ RestartFits /\ \A d \in Runs : PerRun(d) BY Expand
<1>1. /\ service' = "down" /\ stops' \in Nat /\ task' = [d \in Runs |-> None]
      /\ UNCHANGED <<receiptVars, source, faultVars>>
  BY <1>0 DEF Stop, TypeOK
<1>2. Scheduled' = {} /\ Holding' = {} BY <1>1 DEF Scheduled, Holding, InState
<1>3. Cardinality(Holding') <= Capacity /\ Cardinality(Scheduled') <= QueueLimit
  BY <1>2, FS_EmptySet, Fresh
<1>4. TypeOK' BY <1>0, <1>1, <1>3 DEF TypeOK, receiptVars, faultVars
<1>5. NoRunIsLost' BY <1>1 DEF NoRunIsLost
<1>6. Unsettled' = Unsettled /\ unrecorded' = unrecorded
  BY <1>1 DEF Unsettled, Settled, receiptVars, faultVars
<1>7. RestartFits' BY <1>0, <1>6 DEF RestartFits
<1>8. \A d \in Runs : PerRun(d)'
  BY <1>0, <1>1, <1>2 DEF PerRun, TaskInv, RunInv, Settled, receiptVars
<1> QED BY <1>4, <1>5, <1>7, <1>8 DEF IInv, PerRun, OneOutcome, AnswersTheRequest

(* A restart makes tasks of unsettled runs and of nothing else.            *)
LEMMA RescheduleEffect ==
    ASSUME IInv, NEW S \in SUBSET Unsettled, Reschedule(S), UNCHANGED receiptVars,
           service' # "down", Cardinality(S) <= QueueLimit
    PROVE  /\ task' \in [Runs -> Tasks \cup {None}]
           /\ Scheduled' = S /\ Holding' = {}
           /\ Cardinality(Scheduled') <= QueueLimit /\ Cardinality(Holding') <= Capacity
           /\ Unsettled' = Unsettled
           /\ \A d \in Runs : PerRun(d)'
<1>0. TypeOK /\ \A d \in Runs : PerRun(d) BY Expand
<1>1. task' = [d \in Runs |-> IF d \in S THEN NewTask(request[d]) ELSE None] BY DEF Reschedule
<1>2. ASSUME NEW d \in S
      PROVE  /\ d \in Runs /\ ~Settled(d) /\ task'[d] \in Tasks
             /\ task'[d].request = request[d] /\ task'[d].state = "waiting"
  <2>1. d \in Runs /\ request[d] # None /\ ~Settled(d) BY DEF Unsettled
  <2>2. request[d] \in Requests BY <1>0, <2>1 DEF TypeOK
  <2>3. task'[d] = NewTask(request[d]) BY <1>1, <2>1
  <2>4. /\ NewTask(request[d]) \in Tasks /\ NewTask(request[d]).request = request[d]
        /\ NewTask(request[d]).state = "waiting"
    BY <2>2 DEF NewTask, Tasks, TaskStates
  <2> QED BY <2>1, <2>3, <2>4
<1>3. \A d \in Runs \ S : task'[d] = None BY <1>1
<1>4. task' \in [Runs -> Tasks \cup {None}] BY <1>1, <1>2, <1>3
<1>5. Scheduled' = S BY <1>2, <1>3, Fresh DEF Scheduled
<1>6. Holding' = {} BY <1>2, <1>5 DEF Holding, InState
<1>7. Unsettled' = Unsettled BY DEF Unsettled, Settled, receiptVars
<1>8. ASSUME NEW d \in Runs PROVE PerRun(d)'
  <2>1. PerRun(d) BY <1>0
  <2>2. CASE d \in S
    <3>1. request[d] # None BY <2>2 DEF Unsettled
    <3> QED BY <1>2, <2>1, <2>2, <3>1 DEF PerRun, TaskInv, RunInv, Settled, receiptVars
  <2>3. CASE d \notin S
    BY <1>3, <1>5, <2>1, <2>3 DEF PerRun, TaskInv, RunInv, Settled, receiptVars
  <2> QED BY <2>2, <2>3
<1>9. Cardinality(Holding') <= Capacity BY <1>6, FS_EmptySet, Fresh
<1> QED BY <1>4, <1>5, <1>6, <1>7, <1>8, <1>9

(* A restart that fits, and one that does not.                             *)
LEMMA RestartStep ==
    ASSUME IInv, NEW s \in Sources, Restart(s) \/ RestartRefused(s)
    PROVE  IInv'
<1>0. TypeOK /\ RestartFits BY Expand
<1>1. PICK S \in SUBSET Unsettled :
         /\ Reschedule(S) /\ Cardinality(S) <= QueueLimit
         /\ \/ S = Unsettled /\ service' = "up" /\ unrecorded' = {}
            \/ service' = "refused" /\ unrecorded' = unrecorded
  <2>1. CASE Restart(s) BY <2>1 DEF Restart
  <2>2. CASE RestartRefused(s)
    <3>1. PICK S \in SUBSET Unsettled : Cardinality(S) = QueueLimit /\ Reschedule(S)
      BY <2>2 DEF RestartRefused
    <3> QED BY <2>2, <3>1, Fresh DEF RestartRefused, faultVars
  <2> QED BY <2>1, <2>2
<1>2. /\ source' \in Sources /\ UNCHANGED <<receiptVars, stops, faults>>
      /\ service' \in {"up", "refused"}
  BY DEF Restart, RestartRefused, faultVars
<1>3. /\ task' \in [Runs -> Tasks \cup {None}]
      /\ Scheduled' = S /\ Unsettled' = Unsettled
      /\ Cardinality(Scheduled') <= QueueLimit /\ Cardinality(Holding') <= Capacity
      /\ \A d \in Runs : PerRun(d)'
  BY <1>1, <1>2, RescheduleEffect
<1>4. TypeOK' BY <1>0, <1>1, <1>2, <1>3 DEF TypeOK, receiptVars
<1>5. NoRunIsLost' BY <1>1, <1>3 DEF NoRunIsLost
<1>6. RestartFits'
  <2>1. CASE S = Unsettled /\ unrecorded' = {}
    <3>1. Unsettled' \ unrecorded' = S BY <1>3, <2>1
    <3> QED BY <1>1, <3>1 DEF RestartFits
  <2>2. CASE unrecorded' = unrecorded BY <1>0, <1>3, <2>2 DEF RestartFits
  <2> QED BY <1>1, <2>1, <2>2
<1> QED BY <1>3, <1>4, <1>5, <1>6 DEF IInv, PerRun, OneOutcome, AnswersTheRequest

(* The invariant holds initially and survives every step.                  *)
LEMMA InitInv == Init => IInv
<1> SUFFICES ASSUME Init PROVE IInv
  OBVIOUS
<1>1. Scheduled = {} /\ Holding = {} /\ Unsettled = {}
  BY DEF Init, Scheduled, Holding, InState, Unsettled
<1>2. /\ Cardinality(Scheduled) <= QueueLimit /\ Cardinality(Holding) <= Capacity
      /\ Cardinality(Unsettled \ unrecorded) <= QueueLimit
  <2>1. Unsettled \ unrecorded = {} BY <1>1
  <2>2. Cardinality({}) = 0 BY FS_EmptySet
  <2> QED BY <1>1, <2>1, <2>2, Fresh
<1>3. TypeOK BY <1>2 DEF Init, TypeOK
<1>4. \A r \in Runs : PerRun(r)
  BY <1>1 DEF Init, PerRun, TaskInv, RunInv, Settled
<1> QED BY <1>1, <1>2, <1>3, <1>4
  DEF IInv, PerRun, OneOutcome, AnswersTheRequest, NoRunIsLost, RestartFits

(* Every step keeps the invariant,                                         *)
LEMMA StepInv == IInv /\ [Next]_vars => IInv'
<1> SUFFICES ASSUME IInv, [Next]_vars PROVE IInv'
  OBVIOUS
<1>1. CASE UNCHANGED vars
  BY <1>1 DEF vars, receiptVars, serviceVars, faultVars, IInv, TypeOK, OneOutcome,
     AnswersTheRequest, NoRunIsLost, RestartFits, TaskInv, RunInv, Settled, Unsettled,
     Scheduled, Holding, InState
<1>2. ASSUME NEW r \in Runs, NEW q \in Requests, Submit(r, q) \/ Resubmit(r, q) PROVE IInv'
  BY <1>2, SubmitStep
<1>3. ASSUME NEW r \in Runs, Execution(r) PROVE IInv'
  BY <1>3, ExecutionStep, FinishedStep DEF Execution
<1>4. CASE Lifespan BY <1>4, StopStep, RestartStep DEF Lifespan
<1> QED BY <1>1, <1>2, <1>3, <1>4 DEF Next

(* ... and so it always holds.                                             *)
LEMMA Invariance == Spec => []IInv
BY InitInv, StepInv, PTL DEF Spec

(* Types, the permits of the semaphore and the length of the queue.        *)
THEOREM TypeCorrect == Spec => []TypeOK
<1>1. IInv => TypeOK BY DEF IInv
<1> QED BY <1>1, Invariance, PTL

(* No run is both completed and failed.                                    *)
THEOREM AlwaysOneOutcome == Spec => []OneOutcome
<1>1. IInv => OneOutcome BY DEF IInv
<1> QED BY <1>1, Invariance, PTL

(* An answer belongs to the body and the source of the key's first         *)
(* submission.                                                             *)
THEOREM AlwaysAnswersTheRequest == Spec => []AnswersTheRequest
<1>1. IInv => AnswersTheRequest BY DEF IInv
<1> QED BY <1>1, Invariance, PTL

(* While the service is up, runs without a task are settled or unrecorded. *)
THEOREM NoRunIsEverLost == Spec => []NoRunIsLost
<1>1. IInv => NoRunIsLost BY DEF IInv
<1> QED BY <1>1, Invariance, PTL

(* Only unwritten failure receipts can make the next start impossible.     *)
THEOREM RestartAlwaysFits == Spec => []RestartFits
<1>1. IInv => RestartFits BY DEF IInv
<1> QED BY <1>1, Invariance, PTL

(* Settled runs keep their receipts and get no task.                       *)
THEOREM SettledRunsAlwaysRest == Spec => SettledRunsRest
<1> DEFINE Rest == \A r \in Runs : Settled(r) =>
             /\ <<request[r], answer[r], failure[r]>>' = <<request[r], answer[r], failure[r]>>
             /\ task[r] = None => task'[r] = None
<1>1. ASSUME IInv, Next PROVE Rest
  <2> SUFFICES ASSUME NEW r \in Runs, Settled(r)
               PROVE  /\ <<request[r], answer[r], failure[r]>>' = <<request[r], answer[r], failure[r]>>
                      /\ task[r] = None => task'[r] = None
    OBVIOUS
  <2>0. TypeOK /\ \A d \in Runs : PerRun(d) BY <1>1, Expand
  <2>1. ASSUME NEW d \in Runs, NEW q \in Requests, Submit(d, q) \/ Resubmit(d, q)
        PROVE  /\ <<request[r], answer[r], failure[r]>>' = <<request[r], answer[r], failure[r]>>
               /\ task[r] = None => task'[r] = None
    <3>1. d # r BY <2>0, <2>1 DEF Submit, Resubmit, PerRun, RunInv
    <3>2. /\ task'[r] = task[r] /\ request'[r] = request[r]
          /\ answer' = answer /\ failure' = failure
      BY <2>0, <2>1, <3>1 DEF Submit, Resubmit, Schedule, receiptVars, TypeOK
    <3> QED BY <3>2
  <2>2. ASSUME NEW d \in Runs, Execution(d)
        PROVE  /\ <<request[r], answer[r], failure[r]>>' = <<request[r], answer[r], failure[r]>>
               /\ task[r] = None => task'[r] = None
    <3>1. request' = request
      BY <2>2 DEF Execution, Enter, Commit, Return, Raise, Finished, receiptVars
    <3>2. task[r] = None => task'[r] = None
      BY <2>0, <2>2 DEF Execution, Enter, Commit, Return, Raise, Finished, Advance,
         InState, Holding, Scheduled, TypeOK
    <3>3. answer'[r] = answer[r] /\ failure'[r] = failure[r]
      <4>1. CASE Enter(d) \/ Return(d) \/ Finished(d)
        BY <4>1 DEF Enter, Return, Finished, receiptVars
      <4>2. CASE Commit(d)
        <5>1. d # r BY <2>0, <4>2 DEF Commit, InState, PerRun, TaskInv
        <5> QED BY <2>0, <4>2, <5>1 DEF Commit, TypeOK
      <4>3. CASE Raise(d)
        <5>1. answer' = answer BY <4>3 DEF Raise
        <5>2. CASE failure' = failure BY <5>1, <5>2
        <5>3. CASE answer[d] = None /\ failure' = [failure EXCEPT ![d] = TRUE]
          <6>1. d = r => failure[r] BY <5>3 DEF Settled
          <6> QED BY <2>0, <5>1, <5>3, <6>1 DEF TypeOK
        <5> QED BY <4>3, <5>2, <5>3 DEF Raise
      <4> QED BY <2>2, <4>1, <4>2, <4>3 DEF Execution
    <3> QED BY <3>1, <3>2, <3>3
  <2>3. CASE Lifespan
    <3>1. UNCHANGED receiptVars BY <2>3 DEF Lifespan, Stop, Restart, RestartRefused
    <3>2. r \notin Unsettled BY DEF Unsettled
    <3>3. task[r] = None => task'[r] = None
      BY <2>3, <3>2 DEF Lifespan, Stop, Restart, RestartRefused, Reschedule
    <3> QED BY <3>1, <3>3 DEF receiptVars
  <2> QED BY <1>1, <2>1, <2>2, <2>3 DEF Next
<1>2. IInv /\ [Next]_vars => [Rest]_vars BY <1>1
<1> QED BY <1>2, Invariance, PTL DEF Spec, SettledRunsRest

=============================================================================
