--------------------------- MODULE DelegatedStream ---------------------------
(***************************************************************************)
(* The run and result operations of the hosted invocations endpoint        *)
(* (create_delegated_app in service.py): admission, the task that owns one *)
(* supervisor run, the NDJSON stream that follows it, its detached         *)
(* continuation once the client is gone, and recovery of the outcome by    *)
(* polling, also from the worker that replaces a lost one.                 *)
(*                                                                         *)
(* `admission', `answer' and `failure' are write-once journal receipts and *)
(* survive a crash; everything else but `told' dies with the worker.       *)
(***************************************************************************)
EXTENDS Naturals, FiniteSets

CONSTANTS
    Runs,
    Capacity,     \* max_concurrent_runs
    None,
    MaxCrashes,   \* bounds of the checked instances
    MaxFaults     \* receipts that cannot be written

ASSUME ConstantsAssumption ==
    /\ IsFiniteSet(Runs)
    /\ Capacity \in Nat \ {0} /\ MaxCrashes \in Nat /\ MaxFaults \in Nat
    /\ None \notin {"execution", "interrupted", "answer", "error", "unsaved"}

TaskStates == {"none", "waiting", "running", "committed", "answered", "refused", "failed"}
HandlerStates == {"none", "checked", "admitted", "open", "announced", "attached", "over"}

VARIABLES
    admission,   \* worker_instance_id of the admission receipt, 0: no receipt
    answer, failure,
    handler,     \* the HTTP request: its coroutine or its stream generator
    task,        \* asyncio task of execute(), or the handler's own await
    keeper,      \* runs whose complete_detached waits for the task
    lease,       \* the run's delegated credential
    told,        \* terminal frame or response the caller was given
    worker, up,
    crashes, faults

receiptVars == <<admission, answer, failure>>
workerVars == <<worker, up, crashes>>
vars == <<receiptVars, handler, task, keeper, lease, told, workerVars, faults>>

Init ==
    /\ admission = [r \in Runs |-> 0]
    /\ answer = [r \in Runs |-> FALSE]
    /\ failure = [r \in Runs |-> None]
    /\ handler = [r \in Runs |-> "none"]
    /\ task = [r \in Runs |-> "none"]
    /\ keeper = {}
    /\ lease = [r \in Runs |-> "none"]
    /\ told = [r \in Runs |-> None]
    /\ worker = 1 /\ up = TRUE /\ crashes = 0 /\ faults = 0

-----------------------------------------------------------------------------
Executing == {r \in Runs : task[r] \in {"running", "committed"}}
Active(r) == task[r] \in {"waiting", "running", "committed"}
Ended(r) == task[r] \in {"answered", "refused", "failed"}

\* asyncio.Semaphore.locked: no permit left, or someone already waits for one.
Locked == \/ Cardinality(Executing) >= Capacity
          \/ \E r \in Runs : task[r] = "waiting"

\* RunJournal.save of the failure receipt: write-once, and the disk may fail.
SaveFailure(r) ==
    \/ /\ failure' = [failure EXCEPT ![r] = IF @ = None THEN "execution" ELSE @]
       /\ UNCHANGED faults
    \/ /\ faults < MaxFaults /\ faults' = faults + 1
       /\ UNCHANGED failure

\* failed(): the caller is told whether the receipt could be saved.
Told(r) == IF failure'[r] = "execution" THEN "error" ELSE "unsaved"
FailedUnsaved(r) ==   \* mutant: the response does not wait for the receipt
    /\ told' = [told EXCEPT ![r] = "error"]
    /\ UNCHANGED <<failure, faults>>
Failed(r) ==
    /\ SaveFailure(r)
    /\ told' = [told EXCEPT ![r] = Told(r)]

-----------------------------------------------------------------------------
(* invoke, up to the point where the run starts.                           *)

Check(r) ==
    /\ up
    /\ handler[r] = "none"
    /\ ~Locked
    /\ handler' = [handler EXCEPT ![r] = "checked"]
    /\ lease' = [lease EXCEPT ![r] = "held"]
    /\ UNCHANGED <<receiptVars, task, keeper, told, workerVars, faults>>

\* normalize_chat was awaited since Check: the capacity may be gone.
AdmitStream(r) ==
    /\ handler[r] = "checked"
    /\ handler' = [handler EXCEPT ![r] = "admitted"]
    /\ admission' = [admission EXCEPT ![r] = worker]
    /\ UNCHANGED <<answer, failure, task, keeper, lease, told, workerVars, faults>>

\* The admission receipt cannot be written; the failure receipt still may.
RefuseStream(r) ==
    /\ handler[r] = "checked"
    /\ handler' = [handler EXCEPT ![r] = "over"]
    /\ lease' = [lease EXCEPT ![r] = "closed"]
    /\ \E lost \in {1, 2} :
          /\ faults + lost <= MaxFaults
          /\ faults' = faults + lost
          /\ failure' = [failure EXCEPT ![r] = IF lost = 1 THEN "execution" ELSE None]
    /\ told' = [told EXCEPT ![r] = Told(r)]
    /\ UNCHANGED <<admission, answer, task, keeper, workerVars>>

\* normalize_chat fails before a run identity exists: nothing is recorded.
RejectChat(r) ==
    /\ handler[r] = "checked"
    /\ handler' = [handler EXCEPT ![r] = "over"]
    /\ lease' = [lease EXCEPT ![r] = "closed"]
    /\ UNCHANGED <<receiptVars, task, keeper, told, workerVars, faults>>

\* A request without a stream: its handler awaits the supervisor itself.
RunAttached(r) ==
    /\ handler[r] = "checked"
    /\ handler' = [handler EXCEPT ![r] = "attached"]
    /\ task' = [task EXCEPT ![r] = "waiting"]
    /\ UNCHANGED <<receiptVars, keeper, lease, told, workerVars, faults>>

\* The response starts to be sent: stream_run's body runs to its first yield.
OpenStream(r) ==
    /\ handler[r] = "admitted"
    /\ handler' = [handler EXCEPT ![r] = "open"]
    /\ task' = [task EXCEPT ![r] = "waiting"]
    /\ UNCHANGED <<receiptVars, keeper, lease, told, workerVars, faults>>

\* The client left before that: a generator never started has no finally.
NeverOpened(r) ==
    /\ handler[r] = "admitted"
    /\ handler' = [handler EXCEPT ![r] = "over"]
    /\ UNCHANGED <<receiptVars, task, keeper, lease, told, workerVars, faults>>

-----------------------------------------------------------------------------
(* The task: execute() around FoundrySupervisor.run.                       *)

AcquireUnchecked(r) ==   \* mutant: admission's look at the capacity is trusted
    /\ task[r] = "waiting"
    /\ task' = [task EXCEPT ![r] = "running"]
    /\ UNCHANGED <<receiptVars, handler, keeper, lease, told, workerVars, faults>>
Acquire(r) ==
    /\ task[r] = "waiting"
    /\ Cardinality(Executing) < Capacity
    /\ task' = [task EXCEPT ![r] = "running"]
    /\ UNCHANGED <<receiptVars, handler, keeper, lease, told, workerVars, faults>>

Commit(r) ==
    /\ task[r] = "running"
    /\ answer' = [answer EXCEPT ![r] = TRUE]
    /\ task' = [task EXCEPT ![r] = "committed"]
    /\ UNCHANGED <<admission, failure, handler, keeper, lease, told, workerVars, faults>>

EndTask(r, outcome) ==
    /\ task' = [task EXCEPT ![r] = outcome]
    /\ UNCHANGED <<receiptVars, handler, keeper, lease, told, workerVars, faults>>

Return(r) == task[r] = "committed" /\ EndTask(r, "answered")

\* Refused sources, transport errors and timeouts have except clauses of their
\* own ("refused"); any other exception is "failed". Leaving the supervisor's
\* contexts may still raise once the answer is committed.
Raise(r) ==
    /\ task[r] \in {"running", "committed"}
    /\ EndTask(r, "refused") \/ EndTask(r, "failed")

-----------------------------------------------------------------------------
(* stream_run after its loop, and the response of an attached request.     *)

Close(r) ==
    /\ handler' = [handler EXCEPT ![r] = "over"]
    /\ lease' = [lease EXCEPT ![r] = "closed"]

Certify(r) ==
    /\ handler[r] \in {"open", "attached"}
    /\ task[r] = "answered"
    /\ told' = [told EXCEPT ![r] = "answer"]
    /\ Close(r)
    /\ UNCHANGED <<receiptVars, task, keeper, workerVars, faults>>

\* These branches yield the terminal event before they save the failure.
Announce(r) ==
    /\ handler[r] = "open"
    /\ task[r] = "refused"
    /\ handler' = [handler EXCEPT ![r] = "announced"]
    /\ UNCHANGED <<receiptVars, task, keeper, lease, told, workerVars, faults>>

Report(r) ==
    /\ \/ handler[r] = "announced"
       \/ handler[r] = "open" /\ task[r] = "failed"
       \/ handler[r] = "attached" /\ task[r] \in {"refused", "failed"}
    /\ Failed(r)
    /\ Close(r)
    /\ UNCHANGED <<admission, answer, task, keeper, workerVars>>

\* The client leaves: CancelledError or GeneratorExit, and stream_run's finally.
DisconnectClosing(r) ==   \* mutant: finally does not wait for the task
    /\ handler[r] \in {"open", "announced"}
    /\ Close(r)
    /\ keeper' = IF Active(r) THEN keeper \cup {r} ELSE keeper
    /\ UNCHANGED <<receiptVars, task, told, workerVars, faults>>
DisconnectForgetting(r) ==   \* mutant: no continuation is detached
    /\ handler[r] \in {"open", "announced"}
    /\ handler' = [handler EXCEPT ![r] = "over"]
    /\ UNCHANGED <<receiptVars, task, keeper, lease, told, workerVars, faults>>
Disconnect(r) ==
    /\ handler[r] \in {"open", "announced"}
    /\ IF Active(r)
       THEN /\ handler' = [handler EXCEPT ![r] = "over"]
            /\ keeper' = keeper \cup {r}
            /\ UNCHANGED lease
       ELSE Close(r) /\ UNCHANGED keeper
    /\ UNCHANGED <<receiptVars, task, told, workerVars, faults>>

\* complete_detached: no caller is left to be told.
KeepOutcome(r) ==
    /\ r \in keeper
    /\ Ended(r)
    /\ keeper' = keeper \ {r}
    /\ lease' = [lease EXCEPT ![r] = "closed"]
    /\ IF task[r] = "answered" THEN UNCHANGED <<failure, faults>> ELSE SaveFailure(r)
    /\ UNCHANGED <<admission, answer, handler, task, told, workerVars>>

-----------------------------------------------------------------------------
(* The result operation, and the life of the worker.                       *)

\* interrupted_worker_failure: another worker instance admitted the run.
AnyAdmission(r) == TRUE   \* mutant: the instance is not compared
Orphaned(r) == admission[r] # worker

\* A caller whose stream broke polls until it gets a terminal status.
Poll(r) ==
    /\ up
    /\ handler[r] = "over" /\ told[r] = None /\ admission[r] # 0
    /\ \/ /\ failure[r] # None
          /\ told' = [told EXCEPT ![r] = "error"]
          /\ UNCHANGED failure
       \/ /\ failure[r] = None /\ answer[r]
          /\ told' = [told EXCEPT ![r] = "answer"]
          /\ UNCHANGED failure
       \/ /\ failure[r] = None /\ ~answer[r] /\ Orphaned(r)
          /\ failure' = [failure EXCEPT ![r] = "interrupted"]
          /\ told' = [told EXCEPT ![r] = "error"]
    /\ UNCHANGED <<admission, answer, handler, task, keeper, lease, workerVars, faults>>

Crash ==
    /\ up
    /\ crashes < MaxCrashes
    /\ up' = FALSE
    /\ crashes' = crashes + 1
    /\ handler' = [r \in Runs |-> IF handler[r] = "none" THEN "none" ELSE "over"]
    /\ task' = [r \in Runs |-> "none"]
    /\ keeper' = {}
    /\ lease' = [r \in Runs |-> IF lease[r] = "none" THEN "none" ELSE "closed"]
    /\ UNCHANGED <<receiptVars, told, worker, faults>>

Restart ==
    /\ ~up
    /\ up' = TRUE
    /\ worker' = worker + 1
    /\ UNCHANGED <<receiptVars, handler, task, keeper, lease, told, crashes, faults>>

-----------------------------------------------------------------------------
Admission(r) ==
    \/ AdmitStream(r) \/ RefuseStream(r) \/ RejectChat(r) \/ RunAttached(r)
    \/ OpenStream(r) \/ NeverOpened(r)
Execution(r) == Acquire(r) \/ Commit(r) \/ Return(r) \/ Raise(r)
Delivery(r) == Certify(r) \/ Announce(r) \/ Report(r)

Next ==
    \/ \E r \in Runs :
          \/ Check(r) \/ Admission(r) \/ Execution(r) \/ Delivery(r)
          \/ Disconnect(r) \/ KeepOutcome(r) \/ Poll(r)
    \/ Crash \/ Restart

Spec == Init /\ [][Next]_vars

\* A started request goes on, a run ends within MAX_CHAT_RUN_DURATION, a lost
\* worker is replaced, and the caller keeps polling; it need not stay connected.
FairSpec ==
    /\ Spec
    /\ \A r \in Runs :
          /\ WF_vars(Admission(r)) /\ WF_vars(Execution(r)) /\ WF_vars(Delivery(r))
          /\ WF_vars(KeepOutcome(r)) /\ WF_vars(Poll(r))
    /\ WF_vars(Restart)

-----------------------------------------------------------------------------
(* Correctness.                                                            *)

\* Every variable keeps its type, and the semaphore's count is not exceeded
\* although admission looks at it one await before the run takes its permit.
TypeOK ==
    /\ admission \in [Runs -> Nat]
    /\ answer \in [Runs -> BOOLEAN]
    /\ failure \in [Runs -> {None, "execution", "interrupted"}]
    /\ handler \in [Runs -> HandlerStates]
    /\ task \in [Runs -> TaskStates]
    /\ keeper \subseteq Runs
    /\ lease \in [Runs -> {"none", "held", "closed"}]
    /\ told \in [Runs -> {None, "answer", "error", "unsaved"}]
    /\ worker \in Nat /\ up \in BOOLEAN
    /\ crashes \in Nat /\ faults \in Nat
    /\ Cardinality(Executing) <= Capacity

\* A run is declared interrupted only when the worker that executed it is gone:
\* it never executes again, nobody follows it, and it never gets an answer.
InterruptedIsOrphan ==
    \A r \in Runs : failure[r] = "interrupted" =>
        ~answer[r] /\ task[r] = "none" /\ handler[r] = "over" /\ r \notin keeper

\* What a caller was told, on the stream or by polling, is in the journal that
\* the result and evidence operations read: a certified answer, or a failure.
ToldIsRecorded ==
    \A r \in Runs :
        /\ told[r] = "answer" => answer[r]
        /\ told[r] = "error" => failure[r] # None

\* Whatever the handler, its continuation, a poll or another worker do with a
\* run, together they keep what HostedRun promises of it: nothing is written
\* twice, nothing follows a failure, and the one terminal word to the caller
\* agrees with the receipts at that moment. Only a run that raises after its
\* commit is `retracted'.
Outcome(r) == INSTANCE HostedRun WITH
    answer <- answer[r], failure <- failure[r], told <- told[r]

KeepsOutcome == [][\A r \in Runs : [Outcome(r)!Next]_(Outcome(r)!vars)]_vars

\* The delegated credential lives as long as the run that uses it, whoever
\* leaves first, and is closed once by whoever saw the run end.
LeaseCoversRun ==
    \A r \in Runs :
        /\ Active(r) => lease[r] = "held"
        /\ Ended(r) /\ handler[r] = "over" => (lease[r] = "held" <=> r \in keeper)

\* The run of a client that left it while it was executing goes on to a receipt
\* the client recovers, even if the worker is lost on the way, unless some receipt
\* could not be written.
AbandonedRunsAreTold ==
    \A r \in Runs :
        handler[r] = "over" /\ Active(r) /\ admission[r] # 0 ~> told[r] # None \/ faults > 0

\* HydroOperationsService/README.md:571-573: if the client disconnects "the
\* same-session server run continues and persists its certified answer or failure".
RunsEndRecorded ==
    \A r \in Runs : Ended(r) ~> answer[r] \/ failure[r] # None

-----------------------------------------------------------------------------
(* The strengthening that makes the state properties inductive.            *)

Serving == {"checked", "admitted", "open", "announced", "attached"}

\* Who follows the run's task: its handler, or else its continuation.
FollowerInv(r) ==
    /\ handler[r] \in Serving => up /\ lease[r] = "held" /\ r \notin keeper
    /\ handler[r] \in {"none", "checked", "admitted"} => task[r] = "none" /\ r \notin keeper
    /\ handler[r] \in {"open", "attached"} => task[r] # "none"
    /\ handler[r] = "announced" => task[r] = "refused"
    /\ handler[r] = "over" /\ Active(r) => r \in keeper
    /\ r \in keeper => handler[r] = "over" /\ task[r] # "none" /\ lease[r] = "held"
    /\ Ended(r) /\ handler[r] = "over" /\ r \notin keeper => lease[r] # "held"

\* Only the worker that admitted a run executes it.
ReceiptInv(r) ==
    /\ admission[r] <= worker
    /\ handler[r] \in {"none", "checked"} => admission[r] = 0 /\ failure[r] = None
    /\ handler[r] = "admitted" => admission[r] = worker
    /\ task[r] # "none" => up /\ admission[r] \in {0, worker}
    /\ task[r] \in {"committed", "answered"} => answer[r]
    /\ handler[r] \in {"none", "checked", "admitted"} \/ task[r] \in {"waiting", "running"}
          => ~answer[r]
    /\ handler[r] # "over" => failure[r] = None /\ told[r] = None
    /\ r \in keeper => failure[r] = None /\ told[r] \in {None, "answer"}
    /\ failure[r] = "interrupted" =>
          /\ admission[r] # 0 /\ admission[r] # worker
          /\ ~answer[r] /\ handler[r] = "over"
    /\ told[r] = "answer" => answer[r]
    /\ told[r] = "error" => failure[r] # None

IInv == TypeOK /\ \A r \in Runs : FollowerInv(r) /\ ReceiptInv(r)
=============================================================================
