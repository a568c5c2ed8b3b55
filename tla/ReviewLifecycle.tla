-------------------------- MODULE ReviewLifecycle --------------------------
(***************************************************************************)
(* What the durable maintenance review promises, whatever crashes,         *)
(* retries and faults its execution goes through: one irrevocable verdict  *)
(* per run, one result, a work record only as the effect of an approval,   *)
(* and a run that closes only after its result is recorded.                *)
(***************************************************************************)
CONSTANTS Runs, Proposals, Reviews, None

VARIABLES verdict, effect, result, closed
vars == <<verdict, effect, result, closed>>

Verdicts == [proposal : Proposals, approved : BOOLEAN]

Init ==
    /\ verdict = [r \in Runs |-> None]
    /\ effect = [r \in Runs |-> None]
    /\ result = [r \in Runs |-> None]
    /\ closed = [r \in Runs |-> FALSE]

\* The operator approves or rejects the proposal that is on display.
Judge(r) ==
    /\ verdict[r] = None /\ result[r] = None
    /\ verdict'[r] \in Verdicts
    /\ verdict' = [verdict EXCEPT ![r] = verdict'[r]]
    /\ UNCHANGED <<effect, result, closed>>

\* The effect of an approval and its receipt appear together.
Perform(r) ==
    /\ verdict[r] # None /\ verdict[r].approved
    /\ result[r] = None
    /\ effect' = [effect EXCEPT ![r] = verdict[r].proposal]
    /\ result' = [result EXCEPT ![r] = "validation_work_recorded"]
    /\ UNCHANGED <<verdict, closed>>

Decline(r) ==
    /\ verdict[r] # None /\ ~verdict[r].approved
    /\ result[r] = None
    /\ result' = [result EXCEPT ![r] = "rejected"]
    /\ UNCHANGED <<verdict, effect, closed>>

\* The review ends without a draft, and so without a verdict.
Conclude(r) ==
    /\ verdict[r] = None /\ result[r] = None
    /\ \E review \in Reviews : result' = [result EXCEPT ![r] = review]
    /\ UNCHANGED <<verdict, effect, closed>>

Close(r) ==
    /\ result[r] # None
    /\ closed' = [closed EXCEPT ![r] = TRUE]
    /\ UNCHANGED <<verdict, effect, result>>

Next == \E r \in Runs :
    Judge(r) \/ Perform(r) \/ Decline(r) \/ Conclude(r) \/ Close(r)

Spec == Init /\ [][Next]_vars
============================================================================
