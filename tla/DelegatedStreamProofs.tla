------------------------ MODULE DelegatedStreamProofs ------------------------
(***************************************************************************)
(* Proofs about DelegatedStream for any finite number of runs, any         *)
(* capacity and every order of disconnects, polls, faults and worker       *)
(* losses.                                                                 *)
(***************************************************************************)
EXTENDS DelegatedStream, FiniteSetTheorems, TLAPS

(* The model values are told apart from None.                              *)
LEMMA NoneIsFresh ==
    /\ None # "execution" /\ None # "interrupted"
    /\ None # "answer" /\ None # "error" /\ None # "unsaved"
<1>1. None \notin {"execution", "interrupted", "answer", "error", "unsaved"}
  BY ConstantsAssumption, Zenon DEF ConstantsAssumption
<1> QED BY <1>1

(* A run that a step leaves alone keeps its part of the invariant.         *)
LEMMA Untouched ==
    ASSUME NEW r \in Runs, FollowerInv(r) /\ ReceiptInv(r),
           admission'[r] = admission[r], answer'[r] = answer[r], failure'[r] = failure[r],
           handler'[r] = handler[r], task'[r] = task[r], lease'[r] = lease[r],
           told'[r] = told[r], r \in keeper' <=> r \in keeper,
           worker' = worker, up' = up
    PROVE  FollowerInv(r)' /\ ReceiptInv(r)'
<1>1. FollowerInv(r)' BY DEF FollowerInv, Active, Ended
<1>2. ReceiptInv(r)' BY DEF ReceiptInv
<1> QED BY <1>1, <1>2

(* Runs that do not execute hold no permit of the semaphore.               *)
LEMMA Permits ==
    ASSUME TypeOK, NEW S, S \subseteq Executing
    PROVE  IsFiniteSet(S) /\ Cardinality(S) \in Nat /\ Cardinality(S) <= Capacity
<1>1. IsFiniteSet(Runs) BY ConstantsAssumption, Zenon DEF ConstantsAssumption
<1>2. Executing \subseteq Runs BY DEF Executing
<1>3. IsFiniteSet(Executing) BY <1>1, <1>2, FS_Subset
<1>4. IsFiniteSet(S) /\ Cardinality(S) <= Cardinality(Executing) BY <1>3, FS_Subset
<1>5. Cardinality(S) \in Nat /\ Cardinality(Executing) \in Nat BY <1>3, <1>4, FS_CardinalityType
<1>6. Capacity \in Nat BY ConstantsAssumption
<1>7. Cardinality(Executing) <= Capacity BY DEF TypeOK
<1> QED BY <1>4, <1>5, <1>6, <1>7

(* What the failure receipt and the answer to the caller become.           *)
LEMMA SaveFailureEffect ==
    ASSUME TypeOK, NEW r \in Runs, SaveFailure(r)
    PROVE  /\ failure' \in [Runs -> {None, "execution", "interrupted"}]
           /\ faults' \in Nat
           /\ failure'[r] = "execution" \/ failure'[r] = failure[r]
           /\ failure[r] # None => failure'[r] = failure[r]
           /\ \A d \in Runs \ {r} : failure'[d] = failure[d]
<1>1. CASE /\ failure' = [failure EXCEPT ![r] = IF @ = None THEN "execution" ELSE @]
           /\ UNCHANGED faults
  BY <1>1 DEF TypeOK
<1>2. CASE faults < MaxFaults /\ faults' = faults + 1 /\ UNCHANGED failure
  BY <1>2 DEF TypeOK
<1> QED BY <1>1, <1>2 DEF SaveFailure

(* The caller learns of a failure only what was saved.                     *)
LEMMA FailedEffect ==
    ASSUME TypeOK, NEW r \in Runs, Failed(r)
    PROVE  /\ told' \in [Runs -> {None, "answer", "error", "unsaved"}]
           /\ \/ told'[r] = "error" /\ failure'[r] = "execution"
              \/ told'[r] = "unsaved"
           /\ \A d \in Runs \ {r} : told'[d] = told[d]
BY DEF TypeOK, Failed, Told

(* Types survive every step.                                               *)
LEMMA TypeStep == IInv /\ [Next]_vars => TypeOK'
<1> SUFFICES ASSUME IInv, [Next]_vars PROVE TypeOK'
  OBVIOUS
<1>0. TypeOK /\ \A r \in Runs : FollowerInv(r) /\ ReceiptInv(r) BY DEF IInv
<1>1. ASSUME NEW r \in Runs, Check(r) \/ RejectChat(r) \/ NeverOpened(r) \/ Announce(r)
      PROVE  TypeOK'
  <2>1. task' = task /\ Executing' = Executing
    BY <1>1 DEF Check, RejectChat, NeverOpened, Announce, Executing
  <2>2. handler' \in [Runs -> HandlerStates] /\ lease' \in [Runs -> {"none", "held", "closed"}]
    BY <1>0, <1>1 DEF Check, RejectChat, NeverOpened, Announce, TypeOK, HandlerStates
  <2>3. UNCHANGED <<receiptVars, keeper, told, workerVars, faults>>
    BY <1>1 DEF Check, RejectChat, NeverOpened, Announce
  <2> QED BY <1>0, <2>1, <2>2, <2>3 DEF TypeOK, receiptVars, workerVars
<1>2. ASSUME NEW r \in Runs, AdmitStream(r) PROVE TypeOK'
  <2>1. task' = task /\ Executing' = Executing BY <1>2 DEF AdmitStream, Executing
  <2> QED BY <1>0, <1>2, <2>1 DEF AdmitStream, TypeOK, HandlerStates, workerVars
<1>3. ASSUME NEW r \in Runs, RefuseStream(r) PROVE TypeOK'
  <2>1. task' = task /\ Executing' = Executing BY <1>3 DEF RefuseStream, Executing
  <2>2. PICK lost \in {1, 2} :
          /\ faults' = faults + lost
          /\ failure' = [failure EXCEPT ![r] = IF lost = 1 THEN "execution" ELSE None]
    BY <1>3 DEF RefuseStream
  <2>3. failure' \in [Runs -> {None, "execution", "interrupted"}] /\ faults' \in Nat
    BY <1>0, <2>2 DEF TypeOK
  <2>4. told' \in [Runs -> {None, "answer", "error", "unsaved"}]
    BY <1>0, <1>3 DEF RefuseStream, Told, TypeOK
  <2>5. handler' \in [Runs -> HandlerStates] /\ lease' \in [Runs -> {"none", "held", "closed"}]
    BY <1>0, <1>3 DEF RefuseStream, TypeOK, HandlerStates
  <2> QED BY <1>0, <1>3, <2>1, <2>3, <2>4, <2>5 DEF RefuseStream, TypeOK, workerVars
<1>4. ASSUME NEW r \in Runs, RunAttached(r) \/ OpenStream(r) PROVE TypeOK'
  <2>1. task' = [task EXCEPT ![r] = "waiting"] BY <1>4 DEF RunAttached, OpenStream
  <2>2. task' \in [Runs -> TaskStates] /\ Executing' \subseteq Executing
    BY <1>0, <2>1 DEF TypeOK, TaskStates, Executing
  <2>3. Cardinality(Executing') <= Capacity BY <1>0, <2>2, Permits
  <2>4. handler' \in [Runs -> HandlerStates]
    BY <1>0, <1>4 DEF RunAttached, OpenStream, TypeOK, HandlerStates
  <2>5. UNCHANGED <<receiptVars, keeper, lease, told, workerVars, faults>>
    BY <1>4 DEF RunAttached, OpenStream
  <2> QED BY <1>0, <2>2, <2>3, <2>4, <2>5 DEF TypeOK, receiptVars, workerVars
<1>5. ASSUME NEW r \in Runs, Acquire(r) PROVE TypeOK'
  <2>1. task[r] = "waiting" /\ task' = [task EXCEPT ![r] = "running"] BY <1>5 DEF Acquire
  <2>2. task' \in [Runs -> TaskStates] /\ Executing' = Executing \cup {r} /\ r \notin Executing
    BY <1>0, <2>1 DEF TypeOK, TaskStates, Executing
  <2>3. Cardinality(Executing') <= Capacity
    <3>1. IsFiniteSet(Executing) /\ Cardinality(Executing) \in Nat BY <1>0, Permits
    <3>2. Cardinality(Executing') = Cardinality(Executing) + 1
      BY <2>2, <3>1, FS_AddElement
    <3>3. Cardinality(Executing) < Capacity /\ Capacity \in Nat
      BY <1>5, ConstantsAssumption DEF Acquire
    <3> QED BY <3>1, <3>2, <3>3
  <2>4. UNCHANGED <<receiptVars, handler, keeper, lease, told, workerVars, faults>>
    BY <1>5 DEF Acquire
  <2> QED BY <1>0, <2>2, <2>3, <2>4 DEF TypeOK, receiptVars, workerVars
<1>6. ASSUME NEW r \in Runs, Commit(r) PROVE TypeOK'
  <2>1. task[r] = "running" /\ task' = [task EXCEPT ![r] = "committed"] BY <1>6 DEF Commit
  <2>2. task' \in [Runs -> TaskStates] /\ Executing' \subseteq Executing
    BY <1>0, <2>1 DEF TypeOK, TaskStates, Executing
  <2>3. Cardinality(Executing') <= Capacity BY <1>0, <2>2, Permits
  <2>4. answer' \in [Runs -> BOOLEAN]
    <3>1. answer' = [answer EXCEPT ![r] = TRUE] BY <1>6 DEF Commit
    <3> QED BY <1>0, <3>1 DEF TypeOK
  <2>5. UNCHANGED <<admission, failure, handler, keeper, lease, told, workerVars, faults>>
    BY <1>6 DEF Commit
  <2> QED BY <1>0, <2>2, <2>3, <2>4, <2>5 DEF TypeOK, workerVars
<1>7. ASSUME NEW r \in Runs, Return(r) \/ Raise(r) PROVE TypeOK'
  <2>1. PICK outcome \in {"answered", "refused", "failed"} : EndTask(r, outcome)
    BY <1>7 DEF Return, Raise
  <2>2. task' = [task EXCEPT ![r] = outcome] BY <2>1 DEF EndTask
  <2>3. task' \in [Runs -> TaskStates] /\ Executing' \subseteq Executing
    BY <1>0, <2>2 DEF TypeOK, TaskStates, Executing
  <2>4. Cardinality(Executing') <= Capacity BY <1>0, <2>3, Permits
  <2>5. UNCHANGED <<receiptVars, handler, keeper, lease, told, workerVars, faults>>
    BY <2>1 DEF EndTask
  <2> QED BY <1>0, <2>3, <2>4, <2>5 DEF TypeOK, receiptVars, workerVars
<1>8. ASSUME NEW r \in Runs, Certify(r) \/ Disconnect(r) PROVE TypeOK'
  <2>1. task' = task /\ Executing' = Executing BY <1>8 DEF Certify, Disconnect, Executing
  <2>2. handler' \in [Runs -> HandlerStates] /\ lease' \in [Runs -> {"none", "held", "closed"}]
    BY <1>0, <1>8 DEF Certify, Disconnect, Close, TypeOK, HandlerStates
  <2>3. told' \in [Runs -> {None, "answer", "error", "unsaved"}] /\ keeper' \subseteq Runs
    BY <1>0, <1>8 DEF Certify, Disconnect, TypeOK
  <2>4. UNCHANGED <<receiptVars, workerVars, faults>> BY <1>8 DEF Certify, Disconnect
  <2> QED BY <1>0, <2>1, <2>2, <2>3, <2>4 DEF TypeOK, receiptVars, workerVars
<1>9. ASSUME NEW r \in Runs, Report(r) PROVE TypeOK'
  <2>1. task' = task /\ Executing' = Executing BY <1>9 DEF Report, Executing
  <2>2. handler' \in [Runs -> HandlerStates] /\ lease' \in [Runs -> {"none", "held", "closed"}]
    BY <1>0, <1>9 DEF Report, Close, TypeOK, HandlerStates
  <2>3. Failed(r) /\ SaveFailure(r) BY <1>9 DEF Report, Failed
  <2>4. UNCHANGED <<admission, answer, keeper, workerVars>> BY <1>9 DEF Report
  <2> QED
    BY <1>0, <2>1, <2>2, <2>3, <2>4, SaveFailureEffect, FailedEffect DEF TypeOK, workerVars
<1>10. ASSUME NEW r \in Runs, KeepOutcome(r) PROVE TypeOK'
  <2>1. task' = task /\ Executing' = Executing BY <1>10 DEF KeepOutcome, Executing
  <2>2. failure' \in [Runs -> {None, "execution", "interrupted"}] /\ faults' \in Nat
    <3>1. CASE task[r] = "answered" BY <1>0, <1>10, <3>1 DEF KeepOutcome, TypeOK
    <3>2. CASE task[r] # "answered"
      BY <1>0, <1>10, <3>2, SaveFailureEffect DEF KeepOutcome
    <3> QED BY <3>1, <3>2
  <2>3. lease' \in [Runs -> {"none", "held", "closed"}] /\ keeper' \subseteq Runs
    BY <1>0, <1>10 DEF KeepOutcome, TypeOK
  <2>4. UNCHANGED <<admission, answer, handler, told, workerVars>> BY <1>10 DEF KeepOutcome
  <2> QED BY <1>0, <2>1, <2>2, <2>3, <2>4 DEF TypeOK, workerVars
<1>11. ASSUME NEW r \in Runs, Poll(r) PROVE TypeOK'
  <2>1. task' = task /\ Executing' = Executing BY <1>11 DEF Poll, Executing
  <2>2. /\ failure' \in [Runs -> {None, "execution", "interrupted"}]
        /\ told' \in [Runs -> {None, "answer", "error", "unsaved"}]
    BY <1>0, <1>11 DEF Poll, TypeOK
  <2>3. UNCHANGED <<admission, answer, handler, keeper, lease, workerVars, faults>>
    BY <1>11 DEF Poll
  <2> QED BY <1>0, <2>1, <2>2, <2>3 DEF TypeOK, workerVars
<1>12. CASE Crash
  <2>1. task' = [r \in Runs |-> "none"] /\ keeper' = {} BY <1>12 DEF Crash
  <2>2. Executing' \subseteq Executing BY <2>1 DEF Executing
  <2>3. Cardinality(Executing') <= Capacity BY <1>0, <2>2, Permits
  <2>4. handler' \in [Runs -> HandlerStates] /\ lease' \in [Runs -> {"none", "held", "closed"}]
    BY <1>0, <1>12 DEF Crash, TypeOK, HandlerStates
  <2>5. up' = FALSE /\ crashes' = crashes + 1 BY <1>12, Zenon DEF Crash
  <2>6. UNCHANGED <<receiptVars, told, worker, faults>> BY <1>12 DEF Crash
  <2>7. crashes' \in Nat BY <1>0, <2>5 DEF TypeOK
  <2>9. up' \in BOOLEAN BY <2>5
  <2>8. task' \in [Runs -> TaskStates] BY <2>1 DEF TaskStates
  <2> QED BY <1>0, <2>1, <2>3, <2>4, <2>6, <2>7, <2>8, <2>9 DEF TypeOK, receiptVars
<1>13. CASE Restart
  <2>1. task' = task /\ Executing' = Executing BY <1>13 DEF Restart, Executing
  <2>2. up' = TRUE /\ worker' = worker + 1 BY <1>13, Zenon DEF Restart
  <2>3. UNCHANGED <<receiptVars, handler, keeper, lease, told, crashes, faults>>
    BY <1>13 DEF Restart
  <2>4. up' \in BOOLEAN /\ worker' \in Nat BY <1>0, <2>2 DEF TypeOK
  <2> QED BY <1>0, <2>1, <2>3, <2>4 DEF TypeOK, receiptVars
<1>14. CASE UNCHANGED vars
  <2>1. Executing' = Executing BY <1>14 DEF vars, Executing
  <2> QED BY <1>0, <1>14, <2>1 DEF TypeOK, vars, receiptVars, workerVars
<1> QED
  BY <1>1, <1>2, <1>3, <1>4, <1>5, <1>6, <1>7, <1>8, <1>9, <1>10, <1>11, <1>12, <1>13, <1>14
  DEF Next, Admission, Execution, Delivery

-----------------------------------------------------------------------------
(* A step about one run keeps the invariant of all if it keeps its own.    *)
LEMMA OneRun ==
    ASSUME IInv, NEW r \in Runs,
           \A d \in Runs \ {r} :
              /\ admission'[d] = admission[d] /\ answer'[d] = answer[d]
              /\ failure'[d] = failure[d] /\ handler'[d] = handler[d]
              /\ task'[d] = task[d] /\ lease'[d] = lease[d] /\ told'[d] = told[d]
              /\ d \in keeper' <=> d \in keeper,
           worker' = worker, up' = up, FollowerInv(r)', ReceiptInv(r)'
    PROVE  \A d \in Runs : FollowerInv(d)' /\ ReceiptInv(d)'
<1>1. ASSUME NEW d \in Runs \ {r} PROVE FollowerInv(d)' /\ ReceiptInv(d)'
  <2>1. FollowerInv(d) /\ ReceiptInv(d) BY DEF IInv
  <2> QED BY <2>1, Untouched
<1> QED BY <1>1

(* Every step keeps the invariant.                                         *)
LEMMA InvStep ==
    IInv /\ [Next]_vars => \A r \in Runs : FollowerInv(r)' /\ ReceiptInv(r)'
<1> SUFFICES ASSUME IInv, [Next]_vars
             PROVE  \A r \in Runs : FollowerInv(r)' /\ ReceiptInv(r)'
  OBVIOUS
<1> DEFINE Goal == \A r \in Runs : FollowerInv(r)' /\ ReceiptInv(r)'
<1>0. TypeOK /\ \A r \in Runs : FollowerInv(r) /\ ReceiptInv(r) BY DEF IInv
<1>1. ASSUME NEW r \in Runs, Check(r) PROVE Goal
  <2> USE <1>0, <1>1 DEF Check, TypeOK, receiptVars, workerVars
  <2>1. worker' = worker /\ up' = up OBVIOUS
  <2>2. \A d \in Runs \ {r} :
           /\ admission'[d] = admission[d] /\ answer'[d] = answer[d]
           /\ failure'[d] = failure[d] /\ handler'[d] = handler[d]
           /\ task'[d] = task[d] /\ lease'[d] = lease[d] /\ told'[d] = told[d]
           /\ d \in keeper' <=> d \in keeper
    OBVIOUS
  <2>3. FollowerInv(r)' BY DEF FollowerInv, Active, Ended, Serving
  <2>4. ReceiptInv(r)' BY NoneIsFresh DEF ReceiptInv
  <2> QED BY <2>1, <2>2, <2>3, <2>4, OneRun
<1>2. ASSUME NEW r \in Runs, AdmitStream(r) PROVE Goal
  <2> USE <1>0, <1>2 DEF AdmitStream, TypeOK, receiptVars, workerVars
  <2>1. worker' = worker /\ up' = up OBVIOUS
  <2>2. \A d \in Runs \ {r} :
           /\ admission'[d] = admission[d] /\ answer'[d] = answer[d]
           /\ failure'[d] = failure[d] /\ handler'[d] = handler[d]
           /\ task'[d] = task[d] /\ lease'[d] = lease[d] /\ told'[d] = told[d]
           /\ d \in keeper' <=> d \in keeper
    OBVIOUS
  <2>3. FollowerInv(r)' BY DEF FollowerInv, Active, Ended, Serving
  <2>4. ReceiptInv(r)' BY NoneIsFresh DEF ReceiptInv
  <2> QED BY <2>1, <2>2, <2>3, <2>4, OneRun
<1>3. ASSUME NEW r \in Runs, RefuseStream(r) PROVE Goal
  <2> USE <1>0, <1>3 DEF RefuseStream, Told, TypeOK, receiptVars, workerVars
  <2>1. worker' = worker /\ up' = up OBVIOUS
  <2>2. \A d \in Runs \ {r} :
           /\ admission'[d] = admission[d] /\ answer'[d] = answer[d]
           /\ failure'[d] = failure[d] /\ handler'[d] = handler[d]
           /\ task'[d] = task[d] /\ lease'[d] = lease[d] /\ told'[d] = told[d]
           /\ d \in keeper' <=> d \in keeper
    OBVIOUS
  <2>3. FollowerInv(r)' BY DEF FollowerInv, Active, Ended, Serving
  <2>4. ReceiptInv(r)' BY NoneIsFresh DEF ReceiptInv, FollowerInv, Serving
  <2> QED BY <2>1, <2>2, <2>3, <2>4, OneRun
<1>4. ASSUME NEW r \in Runs, RejectChat(r) PROVE Goal
  <2> USE <1>0, <1>4 DEF RejectChat, TypeOK, receiptVars, workerVars
  <2>1. worker' = worker /\ up' = up OBVIOUS
  <2>2. \A d \in Runs \ {r} :
           /\ admission'[d] = admission[d] /\ answer'[d] = answer[d]
           /\ failure'[d] = failure[d] /\ handler'[d] = handler[d]
           /\ task'[d] = task[d] /\ lease'[d] = lease[d] /\ told'[d] = told[d]
           /\ d \in keeper' <=> d \in keeper
    OBVIOUS
  <2>3. FollowerInv(r)' BY DEF FollowerInv, Active, Ended, Serving
  <2>4. ReceiptInv(r)' BY NoneIsFresh DEF ReceiptInv
  <2> QED BY <2>1, <2>2, <2>3, <2>4, OneRun
<1>5. ASSUME NEW r \in Runs, RunAttached(r) PROVE Goal
  <2> USE <1>0, <1>5 DEF RunAttached, TypeOK, receiptVars, workerVars
  <2>1. worker' = worker /\ up' = up OBVIOUS
  <2>2. \A d \in Runs \ {r} :
           /\ admission'[d] = admission[d] /\ answer'[d] = answer[d]
           /\ failure'[d] = failure[d] /\ handler'[d] = handler[d]
           /\ task'[d] = task[d] /\ lease'[d] = lease[d] /\ told'[d] = told[d]
           /\ d \in keeper' <=> d \in keeper
    OBVIOUS
  <2>3. FollowerInv(r)' BY DEF FollowerInv, Active, Ended, Serving
  <2>4. ReceiptInv(r)' BY NoneIsFresh DEF ReceiptInv, FollowerInv, Serving
  <2> QED BY <2>1, <2>2, <2>3, <2>4, OneRun
<1>6. ASSUME NEW r \in Runs, OpenStream(r) PROVE Goal
  <2> USE <1>0, <1>6 DEF OpenStream, TypeOK, receiptVars, workerVars
  <2>1. worker' = worker /\ up' = up OBVIOUS
  <2>2. \A d \in Runs \ {r} :
           /\ admission'[d] = admission[d] /\ answer'[d] = answer[d]
           /\ failure'[d] = failure[d] /\ handler'[d] = handler[d]
           /\ task'[d] = task[d] /\ lease'[d] = lease[d] /\ told'[d] = told[d]
           /\ d \in keeper' <=> d \in keeper
    OBVIOUS
  <2>3. FollowerInv(r)' BY DEF FollowerInv, Active, Ended, Serving
  <2>4. ReceiptInv(r)' BY NoneIsFresh DEF ReceiptInv, FollowerInv, Serving
  <2> QED BY <2>1, <2>2, <2>3, <2>4, OneRun
<1>7. ASSUME NEW r \in Runs, NeverOpened(r) PROVE Goal
  <2> USE <1>0, <1>7 DEF NeverOpened, TypeOK, receiptVars, workerVars
  <2>1. worker' = worker /\ up' = up OBVIOUS
  <2>2. \A d \in Runs \ {r} :
           /\ admission'[d] = admission[d] /\ answer'[d] = answer[d]
           /\ failure'[d] = failure[d] /\ handler'[d] = handler[d]
           /\ task'[d] = task[d] /\ lease'[d] = lease[d] /\ told'[d] = told[d]
           /\ d \in keeper' <=> d \in keeper
    OBVIOUS
  <2>3. FollowerInv(r)' BY DEF FollowerInv, Active, Ended, Serving
  <2>4. ReceiptInv(r)' BY NoneIsFresh DEF ReceiptInv
  <2> QED BY <2>1, <2>2, <2>3, <2>4, OneRun
<1>8. ASSUME NEW r \in Runs, Acquire(r) PROVE Goal
  <2> USE <1>0, <1>8 DEF Acquire, TypeOK, receiptVars, workerVars
  <2>1. worker' = worker /\ up' = up OBVIOUS
  <2>2. \A d \in Runs \ {r} :
           /\ admission'[d] = admission[d] /\ answer'[d] = answer[d]
           /\ failure'[d] = failure[d] /\ handler'[d] = handler[d]
           /\ task'[d] = task[d] /\ lease'[d] = lease[d] /\ told'[d] = told[d]
           /\ d \in keeper' <=> d \in keeper
    OBVIOUS
  <2>3. FollowerInv(r)' BY DEF FollowerInv, Active, Ended, Serving
  <2>4. ReceiptInv(r)' BY NoneIsFresh DEF ReceiptInv
  <2> QED BY <2>1, <2>2, <2>3, <2>4, OneRun
<1>9. ASSUME NEW r \in Runs, Commit(r) PROVE Goal
  <2> USE <1>0, <1>9 DEF Commit, TypeOK, receiptVars, workerVars
  <2>1. worker' = worker /\ up' = up OBVIOUS
  <2>2. \A d \in Runs \ {r} :
           /\ admission'[d] = admission[d] /\ answer'[d] = answer[d]
           /\ failure'[d] = failure[d] /\ handler'[d] = handler[d]
           /\ task'[d] = task[d] /\ lease'[d] = lease[d] /\ told'[d] = told[d]
           /\ d \in keeper' <=> d \in keeper
    OBVIOUS
  <2>3. FollowerInv(r)' BY DEF FollowerInv, Active, Ended, Serving
  <2>4. ReceiptInv(r)' BY NoneIsFresh DEF ReceiptInv, FollowerInv, Serving
  <2> QED BY <2>1, <2>2, <2>3, <2>4, OneRun
<1>10. ASSUME NEW r \in Runs, Return(r) PROVE Goal
  <2> USE <1>0, <1>10 DEF Return, EndTask, TypeOK, receiptVars, workerVars
  <2>1. worker' = worker /\ up' = up OBVIOUS
  <2>2. \A d \in Runs \ {r} :
           /\ admission'[d] = admission[d] /\ answer'[d] = answer[d]
           /\ failure'[d] = failure[d] /\ handler'[d] = handler[d]
           /\ task'[d] = task[d] /\ lease'[d] = lease[d] /\ told'[d] = told[d]
           /\ d \in keeper' <=> d \in keeper
    OBVIOUS
  <2>3. FollowerInv(r)' BY DEF FollowerInv, Active, Ended, Serving
  <2>4. ReceiptInv(r)' BY NoneIsFresh DEF ReceiptInv
  <2> QED BY <2>1, <2>2, <2>3, <2>4, OneRun
<1>11. ASSUME NEW r \in Runs, Raise(r) PROVE Goal
  <2> USE <1>0, <1>11 DEF Raise, EndTask, TypeOK, receiptVars, workerVars
  <2>1. worker' = worker /\ up' = up OBVIOUS
  <2>2. \A d \in Runs \ {r} :
           /\ admission'[d] = admission[d] /\ answer'[d] = answer[d]
           /\ failure'[d] = failure[d] /\ handler'[d] = handler[d]
           /\ task'[d] = task[d] /\ lease'[d] = lease[d] /\ told'[d] = told[d]
           /\ d \in keeper' <=> d \in keeper
    OBVIOUS
  <2>3. FollowerInv(r)' BY DEF FollowerInv, Active, Ended, Serving
  <2>4. ReceiptInv(r)' BY NoneIsFresh DEF ReceiptInv
  <2> QED BY <2>1, <2>2, <2>3, <2>4, OneRun
<1>12. ASSUME NEW r \in Runs, Certify(r) PROVE Goal
  <2> USE <1>0, <1>12 DEF Certify, Close, TypeOK, receiptVars, workerVars
  <2>1. worker' = worker /\ up' = up OBVIOUS
  <2>2. \A d \in Runs \ {r} :
           /\ admission'[d] = admission[d] /\ answer'[d] = answer[d]
           /\ failure'[d] = failure[d] /\ handler'[d] = handler[d]
           /\ task'[d] = task[d] /\ lease'[d] = lease[d] /\ told'[d] = told[d]
           /\ d \in keeper' <=> d \in keeper
    OBVIOUS
  <2>3. FollowerInv(r)' BY DEF FollowerInv, Active, Ended, Serving
  <2>4. ReceiptInv(r)' BY NoneIsFresh DEF ReceiptInv
  <2> QED BY <2>1, <2>2, <2>3, <2>4, OneRun
<1>13. ASSUME NEW r \in Runs, Announce(r) PROVE Goal
  <2> USE <1>0, <1>13 DEF Announce, TypeOK, receiptVars, workerVars
  <2>1. worker' = worker /\ up' = up OBVIOUS
  <2>2. \A d \in Runs \ {r} :
           /\ admission'[d] = admission[d] /\ answer'[d] = answer[d]
           /\ failure'[d] = failure[d] /\ handler'[d] = handler[d]
           /\ task'[d] = task[d] /\ lease'[d] = lease[d] /\ told'[d] = told[d]
           /\ d \in keeper' <=> d \in keeper
    OBVIOUS
  <2>3. FollowerInv(r)' BY DEF FollowerInv, Active, Ended, Serving
  <2>4. ReceiptInv(r)' BY NoneIsFresh DEF ReceiptInv
  <2> QED BY <2>1, <2>2, <2>3, <2>4, OneRun
<1>14. ASSUME NEW r \in Runs, Report(r) PROVE Goal
  <2>1. /\ worker' = worker /\ up' = up /\ task' = task /\ keeper' = keeper
        /\ admission' = admission /\ answer' = answer
    BY <1>14 DEF Report, workerVars
  <2>2. Failed(r) /\ SaveFailure(r) BY <1>14 DEF Report, Failed
  <2>3. /\ handler'[r] = "over" /\ lease'[r] = "closed"
        /\ \A d \in Runs \ {r} : handler'[d] = handler[d] /\ lease'[d] = lease[d]
    BY <1>0, <1>14 DEF Report, Close, TypeOK
  <2>4. handler[r] \in {"open", "announced", "attached"} /\ Ended(r)
    BY <1>0, <1>14 DEF Report, FollowerInv, Ended
  <2>5. r \notin keeper /\ failure[r] # "interrupted"
    BY <1>0, <2>4 DEF FollowerInv, ReceiptInv, Serving
  <2>6. FollowerInv(r)' BY <2>1, <2>3, <2>4, <2>5 DEF FollowerInv, Active, Ended, Serving
  <2>7. ReceiptInv(r)'
    <3>1. failure'[r] \in {failure[r], "execution"} /\ failure'[r] # "interrupted"
      BY <1>0, <2>2, <2>5, SaveFailureEffect
    <3>2. told'[r] = "error" => failure'[r] # None
      BY <1>0, <2>2, FailedEffect, NoneIsFresh
    <3>3. told'[r] # "answer" BY <1>0, <2>2, FailedEffect
    <3> QED BY <1>0, <2>1, <2>3, <2>4, <2>5, <3>1, <3>2, <3>3 DEF ReceiptInv, Ended
  <2>8. \A d \in Runs \ {r} : failure'[d] = failure[d] /\ told'[d] = told[d]
    BY <1>0, <2>2, SaveFailureEffect, FailedEffect
  <2> QED BY <2>1, <2>3, <2>6, <2>7, <2>8, OneRun
<1>15. ASSUME NEW r \in Runs, Disconnect(r) PROVE Goal
  <2>1. /\ worker' = worker /\ up' = up /\ task' = task /\ told' = told
        /\ admission' = admission /\ answer' = answer /\ failure' = failure
    BY <1>15 DEF Disconnect, workerVars, receiptVars
  <2>2. /\ handler'[r] = "over"
        /\ \A d \in Runs \ {r} : handler'[d] = handler[d] /\ lease'[d] = lease[d]
        /\ \A d \in Runs \ {r} : d \in keeper' <=> d \in keeper
    BY <1>0, <1>15 DEF Disconnect, Close, TypeOK
  <2>3. /\ handler[r] \in {"open", "announced"} /\ task[r] # "none"
        /\ r \notin keeper /\ lease[r] = "held"
    BY <1>0, <1>15 DEF Disconnect, FollowerInv, Serving
  <2>4. FollowerInv(r)'
    <3>1. CASE Active(r)
      <4>1. r \in keeper' /\ lease' = lease BY <1>15, <3>1 DEF Disconnect
      <4> QED BY <2>1, <2>2, <2>3, <4>1 DEF FollowerInv, Active, Ended, Serving
    <3>2. CASE ~Active(r)
      <4>1. keeper' = keeper /\ lease'[r] = "closed"
        BY <1>0, <1>15, <3>2 DEF Disconnect, Close, TypeOK
      <4> QED BY <2>1, <2>2, <2>3, <3>2, <4>1 DEF FollowerInv, Active, Ended, Serving
    <3> QED BY <3>1, <3>2
  <2>5. ReceiptInv(r)' BY <1>0, <2>1, <2>2, <2>3 DEF ReceiptInv
  <2> QED BY <2>1, <2>2, <2>4, <2>5, OneRun
<1>16. ASSUME NEW r \in Runs, KeepOutcome(r) PROVE Goal
  <2>1. /\ worker' = worker /\ up' = up /\ task' = task /\ told' = told
        /\ admission' = admission /\ answer' = answer /\ handler' = handler
    BY <1>16 DEF KeepOutcome, workerVars
  <2>2. /\ keeper' = keeper \ {r} /\ lease'[r] = "closed" /\ Ended(r)
        /\ \A d \in Runs \ {r} : lease'[d] = lease[d]
    BY <1>0, <1>16 DEF KeepOutcome, TypeOK
  <2>3. handler[r] = "over" /\ task[r] # "none" /\ failure[r] # "interrupted"
    BY <1>0, <1>16 DEF KeepOutcome, FollowerInv, ReceiptInv
  <2>4. /\ failure'[r] \in {failure[r], "execution"}
        /\ failure[r] # None => failure'[r] = failure[r]
        /\ \A d \in Runs \ {r} : failure'[d] = failure[d]
    <3>1. CASE task[r] = "answered" BY <1>16, <3>1 DEF KeepOutcome
    <3>2. CASE SaveFailure(r) BY <1>0, <3>2, SaveFailureEffect
    <3> QED BY <1>16, <3>1, <3>2 DEF KeepOutcome
  <2>5. FollowerInv(r)' BY <2>1, <2>2, <2>3 DEF FollowerInv, Active, Ended, Serving
  <2>6. ReceiptInv(r)' BY <1>0, <2>1, <2>2, <2>3, <2>4, NoneIsFresh DEF ReceiptInv, Ended
  <2> QED BY <2>1, <2>2, <2>4, <2>5, <2>6, OneRun
<1>17. ASSUME NEW r \in Runs, Poll(r) PROVE Goal
  <2>1. /\ worker' = worker /\ up' = up /\ task' = task /\ keeper' = keeper
        /\ admission' = admission /\ answer' = answer /\ handler' = handler /\ lease' = lease
    BY <1>17 DEF Poll, workerVars
  <2>2. handler[r] = "over" /\ admission[r] # 0 BY <1>17 DEF Poll
  <2>3. \A d \in Runs \ {r} : failure'[d] = failure[d] /\ told'[d] = told[d]
    BY <1>0, <1>17 DEF Poll, TypeOK
  <2>4. \/ failure'[r] = failure[r] /\ failure[r] # None /\ told'[r] = "error"
        \/ failure'[r] = failure[r] /\ answer[r] /\ told'[r] = "answer"
        \/ /\ failure'[r] = "interrupted" /\ told'[r] = "error"
           /\ ~answer[r] /\ admission[r] # worker
    BY <1>0, <1>17 DEF Poll, TypeOK, Orphaned
  <2>5. FollowerInv(r)' BY <1>0, <2>1 DEF FollowerInv, Active, Ended
  <2>6. ReceiptInv(r)'
    <3>1. r \in keeper => failure'[r] = None /\ told'[r] \in {None, "answer"}
      BY <1>0, <1>17, <2>4 DEF Poll, FollowerInv, ReceiptInv
    <3> QED BY <1>0, <2>1, <2>2, <2>4, <3>1, NoneIsFresh DEF ReceiptInv
  <2> QED BY <2>1, <2>3, <2>5, <2>6, OneRun
<1>18. CASE Crash
  <2>1. /\ worker' = worker /\ keeper' = {} /\ told' = told
        /\ admission' = admission /\ answer' = answer /\ failure' = failure
    BY <1>18 DEF Crash, receiptVars
  <2>2. ASSUME NEW r \in Runs
        PROVE  /\ task'[r] = "none" /\ handler'[r] \in {"none", "over"}
               /\ handler'[r] = "none" <=> handler[r] = "none"
    BY <1>18 DEF Crash
  <2>3. ASSUME NEW r \in Runs PROVE FollowerInv(r)'
    BY <2>1, <2>2 DEF FollowerInv, Active, Ended, Serving
  <2>4. ASSUME NEW r \in Runs PROVE ReceiptInv(r)'
    BY <1>0, <2>1, <2>2 DEF ReceiptInv
  <2> QED BY <2>3, <2>4
<1>19. CASE Restart
  <2>1. /\ ~up /\ worker' = worker + 1 /\ keeper' = keeper /\ told' = told
        /\ admission' = admission /\ answer' = answer /\ failure' = failure
        /\ handler' = handler /\ task' = task /\ lease' = lease
    BY <1>19 DEF Restart, receiptVars
  <2>2. ASSUME NEW r \in Runs
        PROVE  task[r] = "none" /\ r \notin keeper /\ handler[r] \in {"none", "over"}
    BY <1>0, <2>1 DEF FollowerInv, ReceiptInv, Serving, TypeOK, HandlerStates
  <2>3. ASSUME NEW r \in Runs PROVE FollowerInv(r)'
    BY <2>1, <2>2 DEF FollowerInv, Active, Ended, Serving
  <2>4. ASSUME NEW r \in Runs PROVE ReceiptInv(r)'
    <3>1. admission[r] \in Nat /\ worker \in Nat BY <1>0 DEF TypeOK
    <3> QED BY <1>0, <2>1, <2>2, <3>1 DEF ReceiptInv
  <2> QED BY <2>3, <2>4
<1>20. CASE UNCHANGED vars
  <2>1. /\ worker' = worker /\ up' = up /\ task' = task /\ keeper' = keeper /\ told' = told
        /\ admission' = admission /\ answer' = answer /\ failure' = failure
        /\ handler' = handler /\ lease' = lease
    BY <1>20 DEF vars, receiptVars, workerVars
  <2> QED BY <1>0, <2>1, Untouched
<1> QED
  BY <1>1, <1>2, <1>3, <1>4, <1>5, <1>6, <1>7, <1>8, <1>9, <1>10, <1>11, <1>12, <1>13,
     <1>14, <1>15, <1>16, <1>17, <1>18, <1>19, <1>20
  DEF Next, Admission, Execution, Delivery

(* The invariant that the theorems below rest on.                          *)
LEMMA Inductive == Spec => []IInv
<1>1. Init => IInv
  <2> SUFFICES ASSUME Init PROVE IInv OBVIOUS
  <2>1. TypeOK
    <3>1. Executing = {} BY DEF Init, Executing
    <3>2. Cardinality(Executing) <= Capacity BY <3>1, FS_EmptySet, ConstantsAssumption
    <3>3. up \in BOOLEAN BY DEF Init
    <3>4. answer \in [Runs -> BOOLEAN] BY DEF Init
    <3> QED BY <3>2, <3>3, <3>4 DEF Init, TypeOK, HandlerStates, TaskStates
  <2>2. ASSUME NEW r \in Runs PROVE FollowerInv(r) /\ ReceiptInv(r)
    BY NoneIsFresh DEF Init, FollowerInv, ReceiptInv, Active, Ended, Serving
  <2> QED BY <2>1, <2>2 DEF IInv
<1>2. IInv /\ [Next]_vars => IInv' BY TypeStep, InvStep DEF IInv
<1> QED BY <1>1, <1>2, PTL DEF Spec

(* Types are kept, and no more runs execute than max_concurrent_runs,      *)
(* although admission reads the semaphore before it awaits.                *)
THEOREM TypeCorrect == Spec => []TypeOK
<1>1. IInv => TypeOK BY DEF IInv
<1> QED BY <1>1, Inductive, PTL

(* The result operation declares a run interrupted only if nothing will    *)
(* ever execute, answer or follow it again.                                *)
THEOREM InterruptedStaysOrphan == Spec => []InterruptedIsOrphan
<1>1. IInv => InterruptedIsOrphan
  <2> SUFFICES ASSUME IInv, NEW r \in Runs, failure[r] = "interrupted"
               PROVE  ~answer[r] /\ task[r] = "none" /\ handler[r] = "over" /\ r \notin keeper
    BY DEF InterruptedIsOrphan
  <2> QED BY DEF IInv, FollowerInv, ReceiptInv
<1> QED BY <1>1, Inductive, PTL

(* Every terminal answer a caller is given, on its stream or by polling,   *)
(* is backed by the receipt that the other operations read.                *)
THEOREM ToldStaysRecorded == Spec => []ToldIsRecorded
<1>1. IInv => ToldIsRecorded BY DEF IInv, ReceiptInv, ToldIsRecorded
<1> QED BY <1>1, Inductive, PTL

(* stream_run and complete_detached hand the delegated credential over     *)
(* without closing it under the run and without leaving it open after it.  *)
THEOREM LeaseAlwaysCoversRun == Spec => []LeaseCoversRun
<1>1. IInv => LeaseCoversRun
  <2> SUFFICES ASSUME IInv, NEW r \in Runs
               PROVE  /\ Active(r) => lease[r] = "held"
                      /\ Ended(r) /\ handler[r] = "over" => (lease[r] = "held" <=> r \in keeper)
    BY DEF LeaseCoversRun
  <2>1. TypeOK /\ FollowerInv(r) BY DEF IInv
  <2>2. Active(r) => lease[r] = "held"
    BY <2>1 DEF FollowerInv, Active, Serving, TypeOK, HandlerStates
  <2>3. Ended(r) /\ handler[r] = "over" => (lease[r] = "held" <=> r \in keeper)
    BY <2>1 DEF FollowerInv
  <2> QED BY <2>2, <2>3
<1> QED BY <1>1, Inductive, PTL

(* Where a run's handler, continuation or caller writes a receipt or says  *)
(* a terminal word, the run takes one step of HostedRun.                   *)
LEMMA OutcomeOfRun ==
    ASSUME IInv, NEW r \in Runs,
           RefuseStream(r) \/ Commit(r) \/ Certify(r) \/ Report(r) \/ KeepOutcome(r) \/ Poll(r)
    PROVE  /\ [Outcome(r)!Next]_(Outcome(r)!vars)
           /\ \A d \in Runs \ {r} : UNCHANGED <<answer[d], failure[d], told[d]>>
<1>0. TypeOK /\ FollowerInv(r) /\ ReceiptInv(r) BY DEF IInv
<1>1. CASE RefuseStream(r)
  <2>1. handler[r] = "checked" /\ answer' = answer BY <1>1 DEF RefuseStream
  <2>2. failure[r] = None /\ told[r] = None /\ ~answer[r] BY <1>0, <2>1 DEF ReceiptInv
  <2>3. /\ failure'[r] \in {None, "execution"}
        /\ told'[r] = IF failure'[r] = "execution" THEN "error" ELSE "unsaved"
        /\ \A d \in Runs \ {r} : failure'[d] = failure[d] /\ told'[d] = told[d]
    BY <1>0, <1>1 DEF RefuseStream, Told, TypeOK
  <2>4. CASE failure'[r] = "execution"
    <3>1. Outcome(r)!Fail BY <2>1, <2>2, <2>3, <2>4 DEF Outcome!Fail
    <3> QED BY <2>1, <2>3, <3>1 DEF Outcome!Next
  <2>5. CASE failure'[r] # "execution"
    <3>1. Outcome(r)!Tell BY <2>1, <2>2, <2>3, <2>5 DEF Outcome!Tell
    <3> QED BY <2>1, <2>3, <3>1 DEF Outcome!Next
  <2> QED BY <2>4, <2>5
<1>2. CASE Commit(r)
  <2>1. /\ task[r] = "running" /\ UNCHANGED <<failure, told>>
        /\ answer' = [answer EXCEPT ![r] = TRUE]
    BY <1>2 DEF Commit
  <2>2. ~answer[r] /\ (handler[r] # "over" \/ r \in keeper)
    BY <1>0, <2>1 DEF ReceiptInv, FollowerInv, Active
  <2>3. ~answer[r] /\ failure[r] = None /\ told[r] = None
    BY <1>0, <2>1, <2>2 DEF ReceiptInv
  <2>4. Outcome(r)!Answer BY <1>0, <2>1, <2>3 DEF Outcome!Answer, TypeOK
  <2> QED BY <1>0, <2>1, <2>4 DEF Outcome!Next, TypeOK
<1>3. CASE Certify(r)
  <2>1. /\ handler[r] \in {"open", "attached"} /\ task[r] = "answered"
        /\ told' = [told EXCEPT ![r] = "answer"] /\ UNCHANGED <<answer, failure>>
    BY <1>3 DEF Certify, receiptVars
  <2>2. answer[r] /\ failure[r] = None /\ told[r] = None BY <1>0, <2>1 DEF ReceiptInv
  <2>3. Outcome(r)!Tell BY <1>0, <2>1, <2>2 DEF Outcome!Tell, TypeOK
  <2> QED BY <1>0, <2>1, <2>3 DEF Outcome!Next, TypeOK
<1>4. CASE Report(r)
  <2>1. handler[r] \in {"open", "announced", "attached"} /\ answer' = answer /\ Failed(r)
    BY <1>4 DEF Report
  <2>2. failure[r] = None /\ told[r] = None BY <1>0, <2>1 DEF ReceiptInv
  <2>3. /\ failure'[r] \in {None, "execution"}
        /\ \A d \in Runs \ {r} : failure'[d] = failure[d]
    BY <1>0, <2>1, <2>2, SaveFailureEffect DEF Failed
  <2>4. /\ told'[r] = IF failure'[r] = "execution" THEN "error" ELSE "unsaved"
        /\ \A d \in Runs \ {r} : told'[d] = told[d]
    BY <1>0, <2>1 DEF Failed, Told, TypeOK
  <2>5. CASE failure'[r] # "execution"
    <3>1. Outcome(r)!Tell BY <2>1, <2>2, <2>3, <2>4, <2>5 DEF Outcome!Tell
    <3> QED BY <2>1, <2>3, <2>4, <3>1 DEF Outcome!Next
  <2>6. CASE failure'[r] = "execution" /\ answer[r]
    <3>1. Outcome(r)!Retract BY <2>1, <2>2, <2>4, <2>6 DEF Outcome!Retract
    <3> QED BY <2>1, <2>3, <2>4, <3>1 DEF Outcome!Next
  <2>7. CASE failure'[r] = "execution" /\ ~answer[r]
    <3>1. Outcome(r)!Fail BY <2>1, <2>2, <2>4, <2>7 DEF Outcome!Fail
    <3> QED BY <2>1, <2>3, <2>4, <3>1 DEF Outcome!Next
  <2> QED BY <2>5, <2>6, <2>7
<1>5. CASE KeepOutcome(r)
  <2>1. r \in keeper /\ UNCHANGED <<answer, told>> BY <1>5 DEF KeepOutcome
  <2>2. failure[r] = None /\ told[r] \in {None, "answer"} BY <1>0, <2>1 DEF ReceiptInv
  <2>3. CASE failure' = failure BY <2>1, <2>3 DEF Outcome!vars
  <2>4. CASE SaveFailure(r) /\ failure' # failure
    <3>1. /\ failure'[r] = "execution"
          /\ \A d \in Runs \ {r} : failure'[d] = failure[d]
      BY <1>0, <2>2, <2>4 DEF SaveFailure, TypeOK
    <3>2. CASE answer[r]
      <4>1. Outcome(r)!Retract BY <2>1, <2>2, <3>1, <3>2 DEF Outcome!Retract
      <4> QED BY <2>1, <3>1, <4>1 DEF Outcome!Next
    <3>3. CASE ~answer[r]
      <4>1. told[r] = None BY <1>0, <2>2, <3>3, NoneIsFresh DEF ReceiptInv
      <4>2. Outcome(r)!Fail BY <2>1, <2>2, <3>1, <3>3, <4>1 DEF Outcome!Fail
      <4> QED BY <2>1, <3>1, <4>2 DEF Outcome!Next
    <3> QED BY <3>2, <3>3
  <2> QED BY <1>5, <2>3, <2>4 DEF KeepOutcome
<1>6. CASE Poll(r)
  <2>1. told[r] = None /\ answer' = answer BY <1>6 DEF Poll
  <2>2. \A d \in Runs \ {r} : failure'[d] = failure[d] /\ told'[d] = told[d]
    BY <1>0, <1>6 DEF Poll, TypeOK
  <2>3. \/ failure'[r] = failure[r] /\ failure[r] # None /\ told'[r] = "error"
        \/ failure'[r] = failure[r] /\ failure[r] = None /\ answer[r] /\ told'[r] = "answer"
        \/ /\ failure[r] = None /\ failure'[r] = "interrupted" /\ told'[r] = "error"
           /\ ~answer[r]
    BY <1>0, <1>6 DEF Poll, TypeOK
  <2>4. Outcome(r)!Tell \/ Outcome(r)!Fail
    BY <2>1, <2>3 DEF Outcome!Tell, Outcome!Fail
  <2> QED BY <2>1, <2>2, <2>4 DEF Outcome!Next
<1> QED BY <1>1, <1>2, <1>3, <1>4, <1>5, <1>6

(* Each run of the endpoint, over handlers that end, workers that are      *)
(* lost, continuations and polls, implements HostedRun.                    *)
THEOREM RunKeepsOutcome == Spec => KeepsOutcome
<1>1. ASSUME IInv, [Next]_vars, NEW d \in Runs
      PROVE  [Outcome(d)!Next]_(Outcome(d)!vars)
  <2>1. ASSUME UNCHANGED <<answer, failure, told>> PROVE [Outcome(d)!Next]_(Outcome(d)!vars)
    BY <2>1 DEF Outcome!vars
  <2>2. ASSUME NEW r \in Runs,
               RefuseStream(r) \/ Commit(r) \/ Certify(r) \/ Report(r) \/ KeepOutcome(r) \/ Poll(r)
        PROVE  [Outcome(d)!Next]_(Outcome(d)!vars)
    <3>1. CASE r = d BY <1>1, <2>2, <3>1, OutcomeOfRun
    <3>2. CASE r # d
      <4>1. UNCHANGED <<answer[d], failure[d], told[d]>> BY <1>1, <2>2, <3>2, OutcomeOfRun
      <4> QED BY <4>1 DEF Outcome!vars
    <3> QED BY <3>1, <3>2
  <2>3. ASSUME NEW r \in Runs,
               \/ Check(r) \/ AdmitStream(r) \/ RejectChat(r) \/ RunAttached(r) \/ OpenStream(r)
               \/ NeverOpened(r) \/ Acquire(r) \/ Return(r) \/ Raise(r) \/ Announce(r)
               \/ Disconnect(r)
        PROVE  UNCHANGED <<answer, failure, told>>
    BY <2>3 DEF Check, AdmitStream, RejectChat, RunAttached, OpenStream, NeverOpened, Acquire,
                Return, Raise, EndTask, Announce, Disconnect, receiptVars
  <2>4. Crash \/ Restart \/ UNCHANGED vars => UNCHANGED <<answer, failure, told>>
    BY DEF Crash, Restart, vars, receiptVars
  <2> QED BY <1>1, <2>1, <2>2, <2>3, <2>4 DEF Next, Admission, Execution, Delivery
<1>2. IInv /\ [Next]_vars => [\A r \in Runs : [Outcome(r)!Next]_(Outcome(r)!vars)]_vars
  BY <1>1
<1> QED BY <1>2, Inductive, PTL DEF Spec, KeepsOutcome

=============================================================================
