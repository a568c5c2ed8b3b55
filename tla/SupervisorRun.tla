----------------------------- MODULE SupervisorRun -----------------------------
(***************************************************************************)
(* The execution of one supervisor run (FoundrySupervisor._run): a graph   *)
(* of executors (the chief, one per planned step, the verifier, the        *)
(* presenter) over a journal of write-once receipts and a checkpoint that  *)
(* the workflow library saves after every executor.  The process may stop  *)
(* between any two writes; the next start resumes from the checkpoint.     *)
(*                                                                         *)
(* What a call returns is the number of the process start it was made in:  *)
(* a call made again returns something else (response identity, clock,     *)
(* duration), and a write-once receipt of it does not accept that.         *)
(***************************************************************************)
EXTENDS Naturals

CONSTANTS
    Steps,      \* executors between the chief and the verifier
    Roles,      \* specialists that are invoked as agents
    Reads,      \* PlannedRead of a reader step
    None,
    MaxStops    \* bound of the checked instances

Chief == 0
Verifier == Steps + 1
Presenter == Steps + 2
Terminal == Steps + 3    \* the checkpoint without messages

StepNumbers == 1..Steps
Keys == StepNumbers \X (Reads \cup Roles)     \* "tool:" and "delegate:" receipts
Evidence == [Keys -> Nat]                     \* the receipts in hand; 0: not in hand
Turns == [evidence : Evidence, verified : BOOLEAN]     \* SupervisorTurn
Answers == [evidence : Evidence, analysis : Nat]       \* PreparedAnswer
Checkpoints == [next : 0..Terminal, turn : Turns, digest : Answers \cup {None}]
Invocations == Roles \X StepNumbers           \* {role}:{delegations}

ASSUME ConstantsAssumption ==
    /\ Steps \in Nat /\ MaxStops \in Nat
    /\ {"reader", "skipped"} \cap Roles = {}
    /\ None \notin Evidence \cup Answers \cup Checkpoints \cup {"fault", "replaced"}

VARIABLES
    plan,         \* step -> a role, "reader", or "skipped" (its condition does not hold)
    turnSaved,    \* supervisor_turn
    asked,        \* specialist_input: the step it was written for, or 0
    replied,      \* specialist_attempt
    receipt,      \* tool reads and CachedHandoff
    stage,        \* specialist_stage
    verified,     \* verified_supervisor_turn
    analysis,     \* answer_analysis
    prepared,     \* prepared_answer
    filed,        \* evidence
    answer, failure,
    ckpt,         \* the latest checkpoint
    pc, at, turn, output,
    delegations,  \* FoundrySupervisor.delegations
    healthy,      \* ~RequiredCheckpointStorage.failure
    stops

callVars == <<asked, replied>>
progressVars == <<turnSaved, receipt, stage, verified, analysis>>
endVars == <<prepared, filed, answer, failure>>
memory == <<at, turn, output, delegations, healthy>>
vars == <<plan, callVars, progressVars, endVars, ckpt, pc, memory, stops>>

NoEvidence == [k \in Keys |-> 0]
Question == [evidence |-> NoEvidence, verified |-> FALSE]

Init ==
    /\ plan \in [StepNumbers -> Roles \cup {"reader", "skipped"}]
    /\ turnSaved = FALSE
    /\ asked = [i \in Invocations |-> 0] /\ replied = [i \in Invocations |-> 0]
    /\ receipt = NoEvidence
    /\ stage = [k \in StepNumbers |-> None]
    /\ verified = None /\ analysis = 0
    /\ prepared = None /\ filed = None /\ answer = None /\ failure = None
    /\ ckpt = None
    /\ pc = "waiting" /\ at = Chief /\ turn = Question /\ output = None
    /\ delegations = 0 /\ healthy = TRUE /\ stops = 0

-----------------------------------------------------------------------------
This == stops + 1     \* this start of the process

Needs(k) ==
    CASE plan[k] = "reader"  -> Reads
      [] plan[k] = "skipped" -> {}
      [] OTHER               -> {plan[k]}

\* The step's executor does its work; a turn that is already verified passes it by.
Working == pc = "run" /\ healthy /\ at \in StepNumbers /\ ~turn.verified

Advance == pc' = "sent" /\ at' = at + 1

\* An exception: owner.run ends and SupervisorRunner.execute records the failure.
Raise(reason) ==
    /\ failure' = reason /\ pc' = "over"
    /\ UNCHANGED <<plan, callVars, progressVars, prepared, filed, answer, ckpt, memory, stops>>

\* RunJournal.save of a value where `existing' is what the key holds.
Refused(existing, absent, value) == existing \notin {absent, value}

-----------------------------------------------------------------------------
(* Entering and leaving.                                                   *)

\* Nothing is resumed without the checkpoint the progress belongs to.
Unattested == ckpt = None /\ (turnSaved \/ prepared # None)

Enter ==
    /\ pc = "waiting" /\ pc' = "open"
    /\ UNCHANGED <<plan, callVars, progressVars, endVars, ckpt, memory, stops>>

Open ==
    /\ pc = "open" /\ ~Unattested
    /\ IF ckpt = None
       THEN at' = Chief /\ turn' = Question /\ pc' = "sent"
       ELSE /\ at' = ckpt.next /\ turn' = ckpt.turn
            /\ pc' = IF ckpt.next = Terminal THEN "done" ELSE "run"
    /\ UNCHANGED <<plan, callVars, progressVars, endVars, ckpt, output, delegations, healthy, stops>>

\* The library saves a checkpoint with the pending message and calls the next
\* executor; where saving fails the storage remembers it.
CheckpointIgnored ==   \* mutant: a failed save is forgotten, as the library does by itself
    /\ pc = "sent"
    /\ pc' = IF at = Terminal THEN "done" ELSE "run"
    /\ ckpt' \in {[next |-> at, turn |-> turn, digest |-> output], ckpt}
    /\ UNCHANGED <<plan, callVars, progressVars, endVars, memory, stops>>
Checkpoint ==
    /\ pc = "sent"
    /\ pc' = IF at = Terminal THEN "done" ELSE "run"
    /\ \/ healthy /\ ckpt' = [next |-> at, turn |-> turn, digest |-> output] /\ UNCHANGED healthy
       \/ healthy' = FALSE /\ UNCHANGED ckpt
    /\ UNCHANGED <<plan, callVars, progressVars, endVars, at, turn, output, delegations, stops>>

\* The deadline, a refused or failed call, invalid evidence, require_healthy, and
\* what Open refuses.
FailsLate ==   \* mutant: an exception after the commit is recorded, too
    /\ pc \notin {"stopped", "waiting", "over", "idle"}
    /\ Raise("fault")
Fails ==
    /\ pc \notin {"stopped", "waiting", "committed", "over", "idle"}
    /\ Raise("fault")

Finished ==
    /\ pc = "over" /\ pc' = "idle"
    /\ UNCHANGED <<plan, callVars, progressVars, endVars, ckpt, memory, stops>>

\* A kill, or close() with its CancelledError, which no except clause records.
Stop ==
    /\ pc # "stopped" /\ stops < MaxStops
    /\ stops' = stops + 1 /\ pc' = "stopped"
    /\ at' = Chief /\ turn' = Question /\ output' = None
    /\ delegations' = 0 /\ healthy' = TRUE
    /\ UNCHANGED <<plan, callVars, progressVars, endVars, ckpt>>

Restart ==
    /\ pc = "stopped"
    /\ pc' = IF answer = None /\ failure = None THEN "waiting" ELSE "idle"
    /\ UNCHANGED <<plan, callVars, progressVars, endVars, ckpt, memory, stops>>

-----------------------------------------------------------------------------
(* ExecuteSupervisor and ExecuteDelegation.                                *)

Recovered ==
    CASE prepared # None -> [evidence |-> prepared.evidence, verified |-> TRUE]
      [] prepared = None /\ verified # None -> [evidence |-> verified, verified |-> TRUE]
      [] OTHER -> Question

Plan ==
    /\ pc = "run" /\ healthy /\ at = Chief
    /\ turn' = Recovered
    /\ turnSaved' = TRUE
    /\ Advance
    /\ UNCHANGED <<plan, callVars, receipt, stage, verified, analysis, endVars, ckpt, output,
                   delegations, healthy, stops>>

\* governed_read: the reads of a step run side by side, each with its receipt.
ReadAgain(x) ==   \* mutant: the receipt of the read is not looked up
    /\ Working /\ plan[at] = "reader" /\ x \in Reads
    /\ receipt' = [receipt EXCEPT ![<<at, x>>] = This]
    /\ UNCHANGED <<plan, callVars, turnSaved, stage, verified, analysis, endVars, ckpt, pc, memory, stops>>
Read(x) ==
    /\ Working /\ plan[at] = "reader" /\ x \in Reads
    /\ receipt[<<at, x>>] = 0
    /\ receipt' = [receipt EXCEPT ![<<at, x>>] = This]
    /\ UNCHANGED <<plan, callVars, turnSaved, stage, verified, analysis, endVars, ckpt, pc, memory, stops>>

\* handoff without a CachedHandoff: the invocation is numbered within the process.
Number == delegations + 1
Invocation(n) == <<plan[at], n>>

Dispatch ==
    /\ Working /\ plan[at] \in Roles
    /\ receipt[<<at, plan[at]>>] = 0
    /\ IF Refused(asked[Invocation(Number)], 0, at)
       THEN Raise("replaced")
       ELSE /\ asked' = [asked EXCEPT ![Invocation(Number)] = at]
            /\ delegations' = Number /\ pc' = "invoking"
            /\ UNCHANGED <<plan, replied, progressVars, endVars, ckpt, at, turn, output, healthy, stops>>

Respond ==
    /\ pc = "invoking"
    /\ IF Refused(replied[Invocation(delegations)], 0, This)
       THEN Raise("replaced")
       ELSE /\ replied' = [replied EXCEPT ![Invocation(delegations)] = This]
            /\ pc' = "replied"
            /\ UNCHANGED <<plan, asked, progressVars, endVars, ckpt, memory, stops>>

SaveHandoff ==
    /\ pc = "replied"
    /\ receipt' = [receipt EXCEPT ![<<at, plan[at]>>] = This]
    /\ pc' = "received"
    /\ UNCHANGED <<plan, callVars, turnSaved, stage, verified, analysis, endVars, ckpt, memory, stops>>

\* The receipts of the step, new or found, go into the turn and its stage.
Complete(k) == \A x \in Needs(k) : receipt[<<k, x>>] # 0
Collected ==
    [k \in Keys |-> IF k[1] = at /\ k[2] \in Needs(at) THEN receipt[k] ELSE turn.evidence[k]]

CollectSome ==   \* mutant: the step goes on with the reads that have answered
    /\ Working /\ plan[at] = "reader"
    /\ stage' = [stage EXCEPT ![at] = Collected]
    /\ turn' = [turn EXCEPT !.evidence = Collected]
    /\ Advance
    /\ UNCHANGED <<plan, callVars, turnSaved, receipt, verified, analysis, endVars, ckpt, output,
                   delegations, healthy, stops>>
Collect ==
    /\ pc = "received" \/ Working
    /\ Complete(at)
    /\ IF Refused(stage[at], None, Collected)
       THEN Raise("replaced")
       ELSE /\ stage' = [stage EXCEPT ![at] = Collected]
            /\ turn' = [turn EXCEPT !.evidence = Collected]
            /\ delegations' = IF Working /\ plan[at] \in Roles THEN Number ELSE delegations
            /\ Advance
            /\ UNCHANGED <<plan, callVars, turnSaved, receipt, verified, analysis, endVars, ckpt,
                           output, healthy, stops>>

-----------------------------------------------------------------------------
(* VerifyEvidence, PresentGroundedAnswer and the commit.                   *)

Verify ==
    /\ pc = "run" /\ healthy /\ at = Verifier
    /\ verified' = IF verified = None THEN turn.evidence ELSE verified
    /\ turn' = [evidence |-> verified', verified |-> TRUE]
    /\ Advance
    /\ UNCHANGED <<plan, callVars, turnSaved, receipt, stage, analysis, endVars, ckpt, output,
                   delegations, healthy, stops>>

\* analysis_for, where a briefing is asked for and accepted.
Analyse ==
    /\ pc = "run" /\ healthy /\ at = Presenter /\ turn.verified
    /\ prepared = None /\ analysis = 0
    /\ analysis' = This
    /\ UNCHANGED <<plan, callVars, turnSaved, receipt, stage, verified, endVars, ckpt, pc, memory, stops>>

Present ==
    /\ pc = "run" /\ healthy /\ at = Presenter /\ turn.verified
    /\ prepared' = IF prepared = None
                   THEN [evidence |-> turn.evidence, analysis |-> analysis] ELSE prepared
    /\ output' = prepared'
    /\ Advance
    /\ UNCHANGED <<plan, callVars, progressVars, filed, answer, failure, ckpt, turn, delegations,
                   healthy, stops>>

\* The library does not emit an output again: a terminal checkpoint attests it.
Attest ==
    /\ pc = "done" /\ healthy /\ output = None
    /\ ckpt.digest = prepared
    /\ output' = prepared
    /\ UNCHANGED <<plan, callVars, progressVars, endVars, ckpt, pc, at, turn, delegations, healthy, stops>>

SaveEvidence ==
    /\ pc = "done" /\ healthy /\ output # None /\ output = prepared
    /\ IF Refused(filed, None, prepared.evidence)
       THEN Raise("replaced")
       ELSE /\ filed' = prepared.evidence /\ pc' = "filed"
            /\ UNCHANGED <<plan, callVars, progressVars, prepared, answer, failure, ckpt, memory, stops>>

SaveAnswer ==
    /\ pc = "filed"
    /\ answer' = output /\ pc' = "committed"
    /\ UNCHANGED <<plan, callVars, progressVars, prepared, filed, failure, ckpt, memory, stops>>

Return ==
    /\ pc = "committed" /\ pc' = "over"
    /\ UNCHANGED <<plan, callVars, progressVars, endVars, ckpt, memory, stops>>

-----------------------------------------------------------------------------
Handoff ==
    \/ Dispatch \/ Respond \/ SaveHandoff \/ Collect
    \/ \E x \in Reads : Read(x)
Execution ==
    \/ Enter \/ Open \/ Checkpoint \/ Plan \/ Handoff \/ Verify \/ Analyse \/ Present
    \/ Attest \/ SaveEvidence \/ SaveAnswer \/ Return \/ Finished

Next == Execution \/ Fails \/ Stop \/ Restart

Spec == Init /\ [][Next]_vars

-----------------------------------------------------------------------------
(* Correctness.                                                            *)

\* Every variable keeps its type; a run numbers no more invocations than the
\* steps it has come to (max_delegations is never what stops it).
TypeOK ==
    /\ plan \in [StepNumbers -> Roles \cup {"reader", "skipped"}]
    /\ turnSaved \in BOOLEAN
    /\ asked \in [Invocations -> 0..Steps] /\ replied \in [Invocations -> Nat]
    /\ receipt \in Evidence
    /\ stage \in [StepNumbers -> Evidence \cup {None}]
    /\ verified \in Evidence \cup {None} /\ analysis \in Nat
    /\ prepared \in Answers \cup {None} /\ filed \in Evidence \cup {None}
    /\ answer \in Answers \cup {None} /\ failure \in {None, "fault", "replaced"}
    /\ ckpt \in Checkpoints \cup {None}
    /\ pc \in {"stopped", "waiting", "open", "sent", "run", "invoking", "replied", "received",
               "done", "filed", "committed", "over", "idle"}
    /\ at \in Chief..Terminal /\ turn \in Turns /\ output \in Answers \cup {None}
    /\ delegations \in 0..at /\ healthy \in BOOLEAN /\ stops \in Nat

Reached(k) == ckpt # None /\ ckpt.next >= k

\* No receipt is more than one executor ahead of the checkpoint, whenever the
\* process stops and whatever save of a checkpoint fails: a restart resumes the
\* executor it stopped in, and never meets progress without its checkpoint.
ProgressIsCheckpointed ==
    /\ turnSaved => Reached(Chief)
    /\ \A k \in StepNumbers : stage[k] # None => Reached(k)
    /\ \A k \in Keys : receipt[k] # 0 => Reached(k[1])
    /\ verified # None => Reached(Verifier)
    /\ prepared # None => Reached(Presenter)
    /\ filed # None => Reached(Terminal)

\* What the turn holds when it comes to step k: the journal's receipts of the
\* steps before it.
Upto(k) ==
    [x \in Keys |-> IF x[1] < k /\ x[2] \in Needs(x[1]) THEN receipt[x] ELSE 0]
AllComplete(k) == \A j \in StepNumbers : j < k => Complete(j)

\* The answer is the one that was prepared, it is filed with its evidence, and
\* that is the receipt of every read and invocation of the plan, whichever start
\* of the process each was made in.
AnswersRestOnReceipts ==
    answer # None =>
        /\ answer = prepared /\ filed = answer.evidence
        /\ answer.evidence = Upto(Verifier) /\ AllComplete(Verifier)

\* No source is read and no specialist invoked for a step whose stage is saved or
\* whose receipts there are, nor anything once evidence was verified: a restart
\* repeats the one call it interrupted.
Calls(k) ==
    \/ \E x \in Needs(k) : receipt'[<<k, x>>] # receipt[<<k, x>>]
    \/ pc = "run" /\ pc' = "invoking" /\ at = k
CompletedWorkIsNotRepeated ==
    [][\A k \in StepNumbers : Calls(k) => ~Complete(k) /\ stage[k] = None /\ verified = None]_vars

\* RunJournal.save refuses another value for a key that exists. No step comes to
\* that where the code does not expect it: what was saved is not replaced by a
\* start that makes the call, the evidence or the answer again.
JournalIsWriteOnce ==
    [][/\ turnSaved => turnSaved'
       /\ \A i \in Invocations :
             /\ asked[i] # 0 => asked'[i] = asked[i]
             /\ replied[i] # 0 => replied'[i] = replied[i]
       /\ \A x \in Keys : receipt[x] # 0 => receipt'[x] = receipt[x]
       /\ \A k \in StepNumbers : stage[k] # None => stage'[k] = stage[k]
       /\ analysis # 0 => analysis' = analysis
       /\ verified # None => verified' = verified
       /\ prepared # None => prepared' = prepared
       /\ filed # None => filed' = filed]_vars

\* A run that was answered or has failed is over: neither its own tasks nor a
\* later start writes anything of it, the other outcome least of all.
SettledRunRests ==
    [][answer # None \/ failure # None =>
          UNCHANGED <<callVars, progressVars, endVars, ckpt>>]_vars

\* One run as SupervisorQueue sees it: its journal ends once, and only by a task
\* that executes it.
Body == "question"
Source == "source"
Request == [body |-> Body, source |-> Source]
TaskIn(state) == [request |-> Request, state |-> state]
ASSUME QueueAssumption ==
    /\ None # Request
    /\ \A state \in {"waiting", "running", "committed", "over"} : None # TaskIn(state)
Task ==
    CASE pc \in {"stopped", "idle"}              -> None
      [] pc \in {"waiting", "committed", "over"} -> TaskIn(pc)
      [] OTHER                                   -> TaskIn("running")
Queue == INSTANCE SupervisorQueue WITH
    Runs <- {"run"}, Bodies <- {Body}, Sources <- {Source}, Capacity <- 1, QueueLimit <- 1,
    MaxFaults <- 0,
    request <- [r \in {"run"} |-> Request],
    answer <- [r \in {"run"} |-> IF answer = None THEN None ELSE Request],
    failure <- [r \in {"run"} |-> failure # None],
    task <- [r \in {"run"} |-> Task],
    service <- IF pc = "stopped" THEN "down" ELSE "up",
    source <- Source, unrecorded <- {}, faults <- 0
ExecutesItsTask == [][Queue!Next]_Queue!vars

\* What the service's README (1280-1294) says of an interruption: it is recovered
\* from, so what the run itself saved before it is never why it fails.
InterruptedRunsRecover == failure # "replaced"

-----------------------------------------------------------------------------
(* The strengthening that makes the state properties inductive.            *)

\* A turn on its way to executor k holds the receipts before k.
TurnInv(t, k) ==
    IF t.verified
    THEN k > Verifier /\ t.evidence = verified
    ELSE k <= Verifier /\ t.evidence = Upto(k) /\ AllComplete(k)

Ahead == {"invoking", "replied", "received"}
Inside == {"sent", "run", "done", "filed"} \cup Ahead
Ended == {"stopped", "over", "idle"}

JournalInv ==
    /\ \A k \in StepNumbers :
          stage[k] # None => stage[k] = Upto(k + 1) /\ AllComplete(k + 1)
    /\ verified # None => verified = Upto(Verifier) /\ AllComplete(Verifier)
    /\ prepared # None =>
          /\ verified # None
          /\ prepared = [evidence |-> verified, analysis |-> analysis]
    /\ filed # None => prepared # None /\ filed = prepared.evidence
    /\ answer # None => filed # None /\ answer = prepared /\ failure = None

CheckpointInv ==
    ckpt # None =>
        /\ TurnInv(ckpt.turn, ckpt.next)
        /\ ckpt.next > Verifier => verified # None
        /\ ckpt.digest = IF ckpt.next = Terminal THEN prepared ELSE None
        /\ ckpt.next = Terminal => prepared # None

\* Where a process is in the graph, and that the checkpoint is just behind.
PositionInv ==
    /\ pc \in Inside => TurnInv(turn, at)
    /\ pc \in Inside => (at > Verifier => verified # None)
    /\ pc = "sent" => healthy /\ IF at = Chief THEN ckpt = None /\ ~turnSaved
                                 ELSE ckpt # None /\ ckpt.next = at - 1
    /\ pc = "sent" => output = (IF at = Terminal THEN prepared ELSE None)
    /\ pc = "sent" /\ at = Terminal => prepared # None
    /\ pc \in {"run", "done", "filed"} \cup Ahead /\ healthy => ckpt # None /\ ckpt.next = at
    /\ pc = "run" => at # Terminal /\ output = None
    /\ pc \in Ahead =>
          /\ at \in StepNumbers /\ plan[at] \in Roles /\ ~turn.verified /\ healthy
          /\ delegations >= 1 /\ output = None
          /\ (receipt[<<at, plan[at]>>] = 0) = (pc # "received")
          /\ stage[at] = None
    /\ pc \in {"done", "filed"} => at = Terminal /\ output \in {None, prepared}
    /\ pc = "filed" => healthy /\ output # None /\ filed # None
    /\ pc \in {"waiting", "open", "stopped"} =>
          at = Chief /\ turn = Question /\ output = None /\ delegations = 0 /\ healthy
    /\ pc \in Inside \ Ahead => delegations = 0 \/ delegations < at
    /\ pc = "committed" => answer # None
    /\ pc = "over" \/ pc = "idle" => answer # None \/ failure # None
    /\ answer # None => pc \in {"committed"} \cup Ended
    /\ failure # None => pc \in Ended

IInv == TypeOK /\ ProgressIsCheckpointed /\ JournalInv /\ CheckpointInv /\ PositionInv

=============================================================================
