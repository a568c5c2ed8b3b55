--------------------------- MODULE SupervisorQueue ---------------------------
(***************************************************************************)
(* The queued supervisor of the local service (SupervisorRunner and the    *)
(* /chat/runs handlers of create_app in service.py): a bounded table of    *)
(* asyncio tasks behind a semaphore, write-once receipts in the run's      *)
(* journal, and a lifespan that schedules unfinished runs again.           *)
(*                                                                         *)
(* `request', `answer' and `failure' are journal receipts and survive the  *)
(* process; `task' is SupervisorRunner.tasks and dies with it.             *)
(***************************************************************************)
EXTENDS Naturals, FiniteSets

CONSTANTS
    Runs,         \* idempotency keys
    Bodies,       \* ChatInput
    Sources,      \* SourceIdentity the service may be started with
    Capacity,     \* SupervisorRunner.capacity, 4
    QueueLimit,   \* SupervisorRunner.schedule, 32
    None,
    MaxStops, MaxFaults   \* bounds of the checked instances

Requests == [body : Bodies, source : Sources]   \* ChatRequest
TaskStates == {"waiting", "running", "committed", "over"}
Tasks == [request : Requests, state : TaskStates]

ASSUME ConstantsAssumption ==
    /\ IsFiniteSet(Runs)
    /\ Capacity \in Nat \ {0} /\ QueueLimit \in Nat \ {0}
    /\ MaxStops \in Nat /\ MaxFaults \in Nat
    /\ None \notin Requests \cup Tasks

VARIABLES
    request, answer, failure,
    task,         \* run -> None, or the request and progress of its task
    service,      \* "up", "down", or "refused": its lifespan raised
    source,       \* SupervisorRunner.source
    unrecorded,   \* runs whose last failure receipt could not be written
    stops, faults

receiptVars == <<request, answer, failure>>
serviceVars == <<service, source, stops>>
faultVars == <<unrecorded, faults>>
vars == <<receiptVars, task, serviceVars, faultVars>>

Init ==
    /\ request = [r \in Runs |-> None]
    /\ answer = [r \in Runs |-> None]
    /\ failure = [r \in Runs |-> FALSE]
    /\ task = [r \in Runs |-> None]
    /\ service = "up" /\ source \in Sources
    /\ unrecorded = {} /\ stops = 0 /\ faults = 0

-----------------------------------------------------------------------------
Settled(r) == answer[r] # None \/ failure[r]
Unsettled == {r \in Runs : request[r] # None /\ ~Settled(r)}

Scheduled == {r \in Runs : task[r] # None}
InState(s) == {r \in Scheduled : task[r].state = s}
Holding == InState("running") \cup InState("committed")
Full == Cardinality(Scheduled) >= QueueLimit

NewTask(q) == [request |-> q, state |-> "waiting"]
Advance(r, s) == task' = [task EXCEPT ![r].state = s]

-----------------------------------------------------------------------------
(* POST /chat/runs.                                                        *)

\* SupervisorRunner.schedule; where it does nothing (the run has a task) or
\* answers 429 (the queue is full), nothing changes.
Schedule(r, q) ==
    /\ r \notin Scheduled /\ ~Full
    /\ task' = [task EXCEPT ![r] = NewTask(q)]
    /\ unrecorded' = unrecorded \ {r}

SubmitSavesFirst(r, q) ==   \* mutant: the request is saved before the queue is looked at
    /\ service = "up" /\ q.source = source /\ request[r] = None
    /\ request' = [request EXCEPT ![r] = q]
    /\ IF Full THEN UNCHANGED <<task, unrecorded>> ELSE Schedule(r, q)
    /\ UNCHANGED <<answer, failure, serviceVars, faults>>
Submit(r, q) ==
    /\ service = "up" /\ q.source = source /\ request[r] = None
    /\ request' = [request EXCEPT ![r] = q]
    /\ Schedule(r, q)
    /\ UNCHANGED <<answer, failure, serviceVars, faults>>

\* The key again, with the same body and source: an interrupted run goes on.
Resubmit(r, q) ==
    /\ service = "up" /\ q.source = source /\ request[r] = q
    /\ ~Settled(r)
    /\ Schedule(r, q)
    /\ UNCHANGED <<receiptVars, serviceVars, faults>>

-----------------------------------------------------------------------------
(* SupervisorRunner.execute around FoundrySupervisor.run.                  *)

EnterUnchecked(r) ==   \* mutant: no semaphore
    /\ r \in InState("waiting")
    /\ Advance(r, "running")
    /\ UNCHANGED <<receiptVars, serviceVars, faultVars>>
Enter(r) ==
    /\ r \in InState("waiting")
    /\ Cardinality(Holding) < Capacity
    /\ Advance(r, "running")
    /\ UNCHANGED <<receiptVars, serviceVars, faultVars>>

RefusedUnlessSource(r) ==   \* mutant: the source identity is not compared
    request[r] # task[r].request \/ failure[r]
\* What owner.run refuses to execute (foundry_supervisor.py:4989-5008) and what it
\* commits (5645-5660, write-once): an answer that rests on evidence of the
\* configured source, whatever the request says.
Refused(r) ==
    \/ task[r].request.source # source
    \/ request[r] # task[r].request
    \/ failure[r]

Commit(r) ==
    /\ r \in InState("running")
    /\ ~Refused(r)
    /\ answer' = [answer EXCEPT ![r] =
                     IF @ = None THEN [body |-> task[r].request.body, source |-> source] ELSE @]
    /\ Advance(r, "committed")
    /\ UNCHANGED <<request, failure, serviceVars, faultVars>>

Return(r) ==
    /\ r \in InState("committed")
    /\ Advance(r, "over")
    /\ UNCHANGED <<receiptVars, serviceVars, faultVars>>

\* An exception, also one after the commit, and the except clause of execute:
\* a committed answer is left alone, else the failure is saved if the disk allows.
RaiseLate(r) ==   \* mutant: the committed answer is not looked at
    /\ r \in Holding
    /\ failure' = [failure EXCEPT ![r] = TRUE]
    /\ Advance(r, "over")
    /\ UNCHANGED <<request, answer, serviceVars, faultVars>>
Raise(r) ==
    /\ r \in Holding
    /\ Advance(r, "over")
    /\ \/ answer[r] # None /\ UNCHANGED <<failure, faultVars>>
       \/ /\ answer[r] = None
          /\ failure' = [failure EXCEPT ![r] = TRUE]
          /\ UNCHANGED faultVars
       \/ /\ answer[r] = None
          /\ faults < MaxFaults /\ faults' = faults + 1
          /\ unrecorded' = unrecorded \cup {r}
          /\ UNCHANGED failure
    /\ UNCHANGED <<request, answer, serviceVars>>

\* The done callback runs in a later turn of the event loop.
Finished(r) ==
    /\ r \in InState("over")
    /\ task' = [task EXCEPT ![r] = None]
    /\ UNCHANGED <<receiptVars, serviceVars, faultVars>>

-----------------------------------------------------------------------------
(* The lifespan.                                                           *)

\* SupervisorRunner.close cancels every task and saves nothing, like a kill.
Stop ==
    /\ \/ service = "up" /\ stops < MaxStops /\ stops' = stops + 1
       \/ service = "refused" /\ UNCHANGED stops
    /\ service' = "down"
    /\ task' = [r \in Runs |-> None]
    /\ UNCHANGED <<receiptVars, source, faultVars>>

Reschedule(S) == task' = [r \in Runs |-> IF r \in S THEN NewTask(request[r]) ELSE None]

RestartOnly(s) ==   \* mutant: only new requests are scheduled
    /\ service = "down" /\ Cardinality(Unsettled) <= QueueLimit
    /\ service' = "up" /\ source' = s
    /\ UNCHANGED <<receiptVars, task, faultVars, stops>>
Restart(s) ==
    /\ service = "down" /\ Cardinality(Unsettled) <= QueueLimit
    /\ service' = "up" /\ source' = s
    /\ Reschedule(Unsettled)
    /\ unrecorded' = {}
    /\ UNCHANGED <<receiptVars, stops, faults>>

\* One run too many: schedule raises 429 inside the lifespan. The tasks it had
\* created run until the process ends, but nothing is served.
RestartRefused(s) ==
    /\ service = "down" /\ Cardinality(Unsettled) > QueueLimit
    /\ service' = "refused" /\ source' = s
    /\ \E S \in SUBSET Unsettled : Cardinality(S) = QueueLimit /\ Reschedule(S)
    /\ UNCHANGED <<receiptVars, faultVars, stops>>

-----------------------------------------------------------------------------
Execution(r) == Enter(r) \/ Commit(r) \/ Return(r) \/ Raise(r) \/ Finished(r)
Lifespan == Stop \/ \E s \in Sources : Restart(s) \/ RestartRefused(s)

Next ==
    \/ \E r \in Runs :
          \/ \E q \in Requests : Submit(r, q) \/ Resubmit(r, q)
          \/ Execution(r)
    \/ Lifespan

Spec == Init /\ [][Next]_vars

\* A run ends by its deadline (FoundrySupervisor.run) and the service is
\* started again; no one need submit anything.
FairSpec ==
    /\ Spec
    /\ \A r \in Runs : WF_vars(Execution(r))
    /\ WF_vars(\E s \in Sources : Restart(s))

-----------------------------------------------------------------------------
(* Correctness.                                                            *)

\* Every variable keeps its type; neither the semaphore nor the queue is
\* exceeded, whether runs come from requests or from the lifespan.
TypeOK ==
    /\ request \in [Runs -> Requests \cup {None}]
    /\ answer \in [Runs -> Requests \cup {None}]
    /\ failure \in [Runs -> BOOLEAN]
    /\ task \in [Runs -> Tasks \cup {None}]
    /\ service \in {"up", "down", "refused"} /\ source \in Sources
    /\ unrecorded \subseteq Runs
    /\ stops \in Nat /\ faults \in Nat
    /\ Cardinality(Holding) <= Capacity
    /\ Cardinality(Scheduled) <= QueueLimit

\* A run ends in one way: an exception raised after the answer was committed
\* does not turn a completed run into a failed one.
OneOutcome == \A r \in Runs : ~(answer[r] # None /\ failure[r])

\* The answer of a key is to the body the key was first submitted with, on the
\* source the service had then, however often the service was reconfigured.
AnswersTheRequest == \A r \in Runs : answer[r] \in {None, request[r]}

\* While the service is up every accepted run is settled or has a task, except
\* those whose failure could not be written ("interrupted" in chat_status).
NoRunIsLost == service = "up" => Unsettled \subseteq Scheduled \cup unrecorded

\* The runs on disk fit into the queue of the next start, as far as failure
\* receipts could be written: only such a fault can make a start impossible.
RestartFits == Cardinality(Unsettled \ unrecorded) <= QueueLimit

\* A settled run is never given a task again, and its receipts do not change.
SettledRunsRest ==
    [][\A r \in Runs : Settled(r) =>
          /\ <<request[r], answer[r], failure[r]>>' = <<request[r], answer[r], failure[r]>>
          /\ task[r] = None => task'[r] = None]_vars

\* Every accepted run ends with an answer or a failure, across stops and
\* restarts, unless some failure receipt could not be written.
AcceptedRunsSettle ==
    \A r \in Runs : request[r] # None ~> Settled(r) \/ unrecorded # {}

-----------------------------------------------------------------------------
(* The strengthening that makes the state properties inductive.            *)

\* Tasks carry the request of their run, and what was settled is on its way out.
TaskInv(r) ==
    r \in Scheduled =>
        /\ service # "down"
        /\ task[r].request = request[r]
        /\ task[r].state \in {"waiting", "running"} => ~Settled(r)
        /\ task[r].state = "committed" => answer[r] # None
        /\ task[r].state = "over" => Settled(r) \/ r \in unrecorded

RunInv(r) == request[r] = None => ~Settled(r) /\ task[r] = None

IInv ==
    /\ TypeOK /\ OneOutcome /\ AnswersTheRequest /\ NoRunIsLost /\ RestartFits
    /\ \A r \in Runs : TaskInv(r) /\ RunInv(r)

=============================================================================
