----------------------------- MODULE SourceBridge -----------------------------
(***************************************************************************)
(* NodeSourceBridge (live_sources.py): concurrent calls multiplexed over   *)
(* one Node worker, which is replaced after a crash, after an unusable     *)
(* response and when the source configuration changes; the task that reads *)
(* the worker's responses; and serve() of local-fabric-sources.mjs.        *)
(*                                                                         *)
(* One event loop. A call starts at most one worker, so workers go by the  *)
(* name of the call that started them, and a call stands for the           *)
(* identifier that _sequence gave it, which is never given again.          *)
(***************************************************************************)
EXTENDS Naturals, FiniteSets

CONSTANTS
    Calls,
    Lifespan,     \* the application's lifespan, which closes the bridge on exit
    None,
    MaxFaults,    \* bounds of the checked instances: crashes, bad responses,
    MaxChanges    \* and changes of the source configuration

ASSUME ConstantsAssumption ==
    /\ None \notin Calls /\ Lifespan \notin Calls
    /\ MaxFaults \in Nat /\ MaxChanges \in Nat

Closers == Calls \cup {Lifespan}
Locked == {"closing", "spawning", "starting", "aborting"}
Waiting == Locked \cup {"ensuring", "draining", "sent"}
Over == {"answered", "failed", "gone"}
Failures == {"exited", "closed", "unusable"}

VARIABLES
    pc, future, served,     \* call: its progress, its future, the worker it wrote to
    pending, process, lock, \* _pending, _process, _lock
    closing,                \* closer: the worker its aclose waits for
    stage, stdin, reader,   \* worker: the child process, its pipe, its reader task
    bound, started,         \* worker: the configuration _ensure_worker read for it,
                            \* and the one it inherited when it was started
    job,                    \* call: its request in the worker
    lifespan, configuration, faults

callVars == <<pc, future, served>>
bridgeVars == <<pending, process, lock, closing>>
workerVars == <<stage, stdin, reader, bound, started>>
outerVars == <<lifespan, configuration, faults>>
vars == <<callVars, bridgeVars, workerVars, job, outerVars>>

Init ==
    /\ pc = [c \in Calls |-> "idle"]
    /\ future = [c \in Calls |-> "none"]
    /\ served = [c \in Calls |-> None]
    /\ pending = {} /\ process = None /\ lock = None
    /\ closing = [x \in Closers |-> None]
    /\ stage = [w \in Calls |-> "unborn"]
    /\ stdin = [w \in Calls |-> FALSE]
    /\ reader = [w \in Calls |-> "none"]
    /\ bound = [w \in Calls |-> 0]
    /\ started = [w \in Calls |-> 0]
    /\ job = [c \in Calls |-> "none"]
    /\ lifespan = "serving" /\ configuration = 0 /\ faults = 0

-----------------------------------------------------------------------------
Goto(c, s) == pc' = [pc EXCEPT ![c] = s]

\* _fail_pending: the table is emptied, and every call in it fails.
FailPending(reason) ==
    /\ pending' = {}
    /\ future' = [c \in Calls |-> IF c \in pending THEN reason ELSE future[c]]

\* aclose, up to its first await: nothing to do without a worker.
Aclose(x) ==
    /\ process' = None
    /\ closing' = [closing EXCEPT ![x] = process]
    /\ IF process = None
       THEN UNCHANGED <<pending, future, stdin>>
       ELSE /\ FailPending("closed")
            /\ stdin' = [stdin EXCEPT ![process] = FALSE]

\* ... and after its awaits: the process was waited for, and its reader.
Closed(w) == stage[w] = "reaped" /\ reader[w] = "done"

\* call, between _ensure_worker and its next await. A large request waits for
\* the pipe to drain, before the timeout of the call begins.
Write(c, w) ==
    /\ future' = [future EXCEPT ![c] = "open"]
    /\ pending' = pending \cup {c}
    /\ served' = [served EXCEPT ![c] = w]
    /\ job' = [job EXCEPT ![c] = "written"]
    /\ Goto(c, "draining") \/ Goto(c, "sent")

-----------------------------------------------------------------------------
(* _ensure_worker and call.                                                *)

Call(c) ==
    /\ pc[c] = "idle"
    /\ Goto(c, "ensuring")
    /\ UNCHANGED <<future, served, bridgeVars, workerVars, job, outerVars>>

HealthyAnyConfiguration(w) ==   \* mutant: the configuration is not compared
    w # None /\ stage[w] # "reaped"
Healthy(w) == w # None /\ stage[w] # "reaped" /\ bound[w] = configuration

Reuse(c) ==
    /\ pc[c] = "ensuring" /\ lock = None
    /\ Healthy(process)
    /\ Write(c, process)
    /\ UNCHANGED <<process, lock, closing, workerVars, outerVars>>

ReplaceUnlocked(c) ==   \* mutant: the worker is replaced without the lock
    /\ pc[c] = "ensuring"
    /\ ~Healthy(process)
    /\ bound' = [bound EXCEPT ![c] = configuration]
    /\ Aclose(c)
    /\ Goto(c, IF process = None THEN "spawning" ELSE "closing")
    /\ UNCHANGED <<served, lock, stage, reader, started, job, outerVars>>
Replace(c) ==
    /\ pc[c] = "ensuring" /\ lock = None
    /\ ~Healthy(process)
    /\ lock' = c
    /\ bound' = [bound EXCEPT ![c] = configuration]
    /\ Aclose(c)
    /\ Goto(c, IF process = None THEN "spawning" ELSE "closing")
    /\ UNCHANGED <<served, stage, reader, started, job, outerVars>>

CloseEnds(c) ==
    /\ pc[c] = "closing"
    /\ Closed(closing[c])
    /\ Goto(c, "spawning")
    /\ closing' = [closing EXCEPT ![c] = None]
    /\ UNCHANGED <<future, served, pending, process, lock, workerVars, job, outerVars>>

\* create_subprocess_exec forks the child, which inherits the environment of this
\* moment, and then waits until the pipes are connected; the bridge keeps the key
\* it read before it closed the previous worker.
Start(c) ==
    /\ pc[c] = "spawning"
    /\ Goto(c, "starting")
    /\ stage' = [stage EXCEPT ![c] = "alive"]
    /\ stdin' = [stdin EXCEPT ![c] = TRUE]
    /\ started' = [started EXCEPT ![c] = configuration]
    /\ UNCHANGED <<future, served, bridgeVars, reader, bound, job, outerVars>>

\* The call resumes, by when the child may have exited: then it sends nothing.
Started(c) ==
    /\ pc[c] = "starting"
    /\ reader' = [reader EXCEPT ![c] = "reading"]
    /\ process' = c /\ lock' = None
    /\ \/ stage[c] # "reaped" /\ Write(c, c)
       \/ /\ stage[c] = "reaped" /\ Goto(c, "failed")
          /\ UNCHANGED <<future, served, pending, job>>
    /\ UNCHANGED <<closing, stage, stdin, bound, started, outerVars>>

\* Cancelled before that, or a pipe is not connected: asyncio kills the child and
\* waits for its exit before the call leaves the lock.
Abort(c) ==
    /\ pc[c] = "starting"
    /\ Goto(c, "aborting")
    /\ stage' = [stage EXCEPT ![c] = IF @ = "alive" THEN "dead" ELSE @]
    /\ UNCHANGED <<future, served, bridgeVars, stdin, reader, bound, started, job, outerVars>>

AbortEnds(c) ==
    /\ pc[c] = "aborting" /\ stage[c] = "reaped"
    /\ Goto(c, "gone")
    /\ lock' = None
    /\ UNCHANGED <<future, served, pending, process, closing, workerVars, job, outerVars>>

SpawnFails(c) ==
    /\ pc[c] = "spawning"
    /\ Goto(c, "failed")
    /\ lock' = None
    /\ UNCHANGED <<future, served, pending, process, closing, workerVars, job, outerVars>>

\* stdin.drain returns, or raises because the process is gone.
Drain(c) ==
    /\ pc[c] = "draining"
    /\ \/ job[c] # "written" /\ Goto(c, "sent") /\ UNCHANGED pending
       \/ /\ stage[served[c]] # "alive"
          /\ Goto(c, "failed")
          /\ pending' = pending \ {c}
    /\ UNCHANGED <<future, served, process, lock, closing, workerVars, job, outerVars>>

Leave(c, s) ==
    /\ Goto(c, s)
    /\ pending' = pending \ {c}
    /\ UNCHANGED <<future, served, process, workerVars, job, outerVars>>

Wake(c) ==
    /\ pc[c] = "sent"
    /\ future[c] # "open"
    /\ Leave(c, IF future[c] = "answer" THEN "answered" ELSE "failed")
    /\ UNCHANGED <<lock, closing>>

\* call_timeout; it may also fire when the future is already resolved.
Timeout(c) ==
    /\ pc[c] = "sent"
    /\ Leave(c, "gone")
    /\ UNCHANGED <<lock, closing>>

\* The caller is cancelled at any other await. In aclose, once the process was waited
\* for, the cancellation first ends the reader that gather waits for.
CancelHoldingLock(c) ==   \* mutant: the lock is not released
    /\ pc[c] \in Waiting \ {"starting"}
    /\ pc[c] = "closing" => stage[closing[c]] # "reaped" \/ Closed(closing[c])
    /\ Leave(c, "gone")
    /\ closing' = [closing EXCEPT ![c] = None]
    /\ UNCHANGED lock
Cancel(c) ==
    /\ pc[c] \in Waiting \ {"starting"}
    /\ pc[c] = "closing" => stage[closing[c]] # "reaped" \/ Closed(closing[c])
    /\ Leave(c, "gone")
    /\ lock' = IF lock = c THEN None ELSE lock
    /\ closing' = [closing EXCEPT ![c] = None]

-----------------------------------------------------------------------------
(* _read_responses.                                                        *)

\* The response line of call c; that call may have left long ago.
Route(c) ==
    /\ job[c] = "replied" /\ reader[served[c]] = "reading"
    /\ job' = [job EXCEPT ![c] = "none"]
    /\ pending' = pending \ {c}
    /\ future' = [future EXCEPT ![c] = IF c \in pending THEN "answer" ELSE @]
    /\ UNCHANGED <<pc, served, process, lock, closing, workerVars, outerVars>>

\* The finally clause: no longer the bridge's worker, nobody left waiting, killed.
StopReadingKeeping(w, reason) ==   \* mutant: pending calls are left to time out
    /\ reader' = [reader EXCEPT ![w] = "waiting"]
    /\ process' = IF process = w THEN None ELSE process
    /\ stage' = [stage EXCEPT ![w] = IF @ = "alive" THEN "dead" ELSE @]
    /\ UNCHANGED <<pc, served, pending, future, lock, closing,
                   stdin, bound, started, job, lifespan, configuration>>
StopReading(w, reason) ==
    /\ reader' = [reader EXCEPT ![w] = "waiting"]
    /\ process' = IF process = w THEN None ELSE process
    /\ FailPending(reason)
    /\ stage' = [stage EXCEPT ![w] = IF @ = "alive" THEN "dead" ELSE @]
    /\ UNCHANGED <<pc, served, lock, closing,
                   stdin, bound, started, job, lifespan, configuration>>

\* Oversized, undecodable or unroutable output.
Unusable(w) ==
    /\ reader[w] = "reading" /\ stage[w] = "alive"
    /\ faults < MaxFaults /\ faults' = faults + 1
    /\ StopReading(w, "unusable")

\* End of file, after the lines the worker had still written.
EndOfFile(w) ==
    /\ reader[w] = "reading" /\ stage[w] \in {"dead", "reaped"}
    /\ \A c \in Calls : served[c] = w => job[c] # "replied"
    /\ StopReading(w, "exited")
    /\ UNCHANGED faults

ReaderEnds(w) ==
    /\ reader[w] = "waiting" /\ stage[w] = "reaped"
    /\ reader' = [reader EXCEPT ![w] = "done"]
    /\ UNCHANGED <<callVars, bridgeVars, stage, stdin, bound, started, job, outerVars>>

-----------------------------------------------------------------------------
(* The Node worker.                                                        *)

Job(c, from, to) ==
    /\ served[c] # None /\ job[c] = from /\ stage[served[c]] = "alive"
    /\ job' = [job EXCEPT ![c] = to]
    /\ UNCHANGED <<callVars, bridgeVars, workerVars, outerVars>>

Read(c) == Job(c, "written", "running")
Reply(c) == Job(c, "running", "replied")

Ends(w) ==
    /\ stage[w] = "alive"
    /\ stage' = [stage EXCEPT ![w] = "dead"]
    /\ UNCHANGED <<callVars, bridgeVars, stdin, reader, bound, started, job, lifespan, configuration>>

\* serve: stdin was closed and every request was answered.
Exit(w) ==
    /\ ~stdin[w]
    /\ \A c \in Calls : served[c] = w => job[c] \notin {"written", "running"}
    /\ Ends(w) /\ UNCHANGED faults

Die(w) == faults < MaxFaults /\ faults' = faults + 1 /\ Ends(w)

\* aclose: the worker did not exit within two seconds.
Kill(x) == closing[x] # None /\ Ends(closing[x]) /\ UNCHANGED faults

\* The event loop learns of the exit: process.returncode is set.
Reap(w) ==
    /\ stage[w] = "dead"
    /\ stage' = [stage EXCEPT ![w] = "reaped"]
    /\ UNCHANGED <<callVars, bridgeVars, stdin, reader, bound, started, job, outerVars>>

-----------------------------------------------------------------------------
(* The application around the bridge.                                      *)

\* aclose on exit takes no lock; detached runs may still be calling.
Release ==
    /\ lifespan = "serving"
    /\ Aclose(Lifespan)
    /\ lifespan' = IF process = None THEN "over" ELSE "closing"
    /\ UNCHANGED <<pc, served, lock, stage, reader, bound, started, job,
                   configuration, faults>>

ReleaseEnds ==
    /\ lifespan = "closing"
    /\ Closed(closing[Lifespan])
    /\ lifespan' = "over"
    /\ closing' = [closing EXCEPT ![Lifespan] = None]
    /\ UNCHANGED <<callVars, pending, process, lock, workerVars, job, configuration, faults>>

\* Every configuration is a new one: none is returned to.
Reconfigure ==
    /\ configuration < MaxChanges
    /\ configuration' = configuration + 1
    /\ UNCHANGED <<callVars, bridgeVars, workerVars, job, lifespan, faults>>

-----------------------------------------------------------------------------
Ensure(c) ==
    \/ Reuse(c) \/ Replace(c) \/ CloseEnds(c)
    \/ Start(c) \/ SpawnFails(c) \/ Started(c) \/ AbortEnds(c)
Await(c) == Drain(c) \/ Wake(c) \/ Timeout(c)
Reading(w) == EndOfFile(w) \/ ReaderEnds(w)
Outside == Release \/ ReleaseEnds \/ Reconfigure

Next ==
    \/ \E c \in Calls :
          \/ Call(c) \/ Ensure(c) \/ Abort(c) \/ Await(c) \/ Cancel(c)
          \/ Route(c) \/ Unusable(c) \/ Reading(c)
          \/ Read(c) \/ Reply(c) \/ Exit(c) \/ Die(c) \/ Reap(c)
    \/ \E x \in Closers : Kill(x)
    \/ Outside

Spec == Init /\ [][Next]_vars

\* The event loop runs its tasks and timers and a live worker reads its stdin;
\* that the worker answers, or exits by itself, is not assumed.
FairSpec ==
    /\ Spec
    /\ \A c \in Calls :
          /\ WF_vars(Ensure(c)) /\ WF_vars(Await(c))
          /\ WF_vars(Route(c)) /\ WF_vars(Reading(c)) /\ WF_vars(Read(c)) /\ WF_vars(Reap(c))
    /\ \A x \in Closers : WF_vars(Kill(x))

-----------------------------------------------------------------------------
(* Correctness.                                                            *)

\* Every variable keeps its type, and the lock belongs to a call that is
\* replacing the worker.
TypeOK ==
    /\ pc \in [Calls -> {"idle"} \cup Waiting \cup Over]
    /\ future \in [Calls -> {"none", "open", "answer"} \cup Failures]
    /\ served \in [Calls -> Calls \cup {None}]
    /\ pending \subseteq Calls /\ process \in Calls \cup {None}
    /\ lock \in Calls \cup {None}
    /\ closing \in [Closers -> Calls \cup {None}]
    /\ stage \in [Calls -> {"unborn", "alive", "dead", "reaped"}]
    /\ stdin \in [Calls -> BOOLEAN]
    /\ reader \in [Calls -> {"none", "reading", "waiting", "done"}]
    /\ bound \in [Calls -> Nat] /\ started \in [Calls -> Nat]
    /\ job \in [Calls -> {"none", "written", "running", "replied"}]
    /\ lifespan \in {"serving", "closing", "over"}
    /\ configuration \in Nat /\ faults \in Nat
    /\ \A c \in Calls : lock = c <=> pc[c] \in Locked

\* A call waiting for its response waits on the bridge's present worker, whose
\* reader is running: whatever ends that worker will also end the call.
PendingIsServed ==
    \A c \in pending :
        /\ pc[c] \in {"draining", "sent"} /\ future[c] = "open"
        /\ served[c] = process
        /\ stdin[process] /\ reader[process] = "reading"

\* A worker the bridge has let go, or never came to hold, is told to exit or has
\* been killed, however closing, starting, cancellation and failures fall together.
NoWorkerIsLeaked ==
    \A w \in Calls :
        stage[w] = "alive" /\ w # process => ~stdin[w] \/ pc[w] = "starting"

\* A request is given to a worker it finds only when that worker was started with
\* the configuration in force, although the bridge compares another value than the
\* child got. Only the request that started its worker may run under an older one:
\* one that changed while create_subprocess_exec was awaited (live_sources.py:172),
\* but never one older than the call compared under the lock.
ConfigurationIsFollowed ==
    [][\A c \in Calls : served[c] = None /\ served'[c] # None =>
          started'[served'[c]] >= IF served'[c] = c THEN bound[c] ELSE configuration]_vars

\* Every call ends, whether or not the worker answers.
CallsEnd == \A c \in Calls : pc[c] # "idle" ~> pc[c] \in Over

\* A call fails with "exited before returning a response" (live_sources.py:123)
\* only when the worker it was sent to has exited.
ExitIsTrue ==
    \A c \in Calls : future[c] = "exited" => stage[served[c]] # "alive"

\* What is true of it: a worker gives way to another only when its own exit was
\* seen, and then only after its reader has ended, unless the application closes
\* the bridge (service.py:349) or the configuration changes. Until then no call
\* fails for the end of a worker that it was not sent to.
Undisturbed == lifespan = "serving" /\ configuration = 0
ExitIsTrueUndisturbed == Undisturbed => ExitIsTrue

-----------------------------------------------------------------------------
(* The strengthening that makes the state properties inductive.            *)

WorkerInv(w) ==
    /\ stage[w] = "unborn" => reader[w] = "none"
    /\ stage[w] = "unborn" \/ pc[w] \notin {"idle", "ensuring", "closing", "spawning"}
    /\ pc[w] = "starting" => stage[w] # "unborn" /\ stdin[w]
    /\ bound[w] <= configuration /\ started[w] <= configuration
    /\ stage[w] # "unborn" => bound[w] <= started[w]
    /\ w = process => stdin[w] /\ reader[w] = "reading"

CallInv(c) ==
    /\ pc[c] \in Locked => process = None
    /\ c \in pending => process # None

IInv ==
    /\ TypeOK /\ PendingIsServed /\ NoWorkerIsLeaked
    /\ \A c \in Calls : WorkerInv(c) /\ CallInv(c)

\* Until the bridge is disturbed, a reader of another worker than the bridge's is
\* awaited by the call that replaces that worker, which has exited.
ReaderIsAwaited(w) ==
    reader[w] = "reading" /\ w # process =>
        stage[w] = "reaped" /\ \E c \in Calls : pc[c] = "closing" /\ closing[c] = w

ExitInv ==
    /\ \A c \in Calls : served[c] # None => stage[served[c]] # "unborn"
    /\ \A c \in Calls : future[c] # "none" => served[c] # None
    /\ Undisturbed => ExitIsTrue /\ \A w \in Calls : ReaderIsAwaited(w)

=============================================================================
