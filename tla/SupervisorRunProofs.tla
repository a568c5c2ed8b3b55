-------------------------- MODULE SupervisorRunProofs --------------------------
(***************************************************************************)
(* Theorems about SupervisorRun, for every plan of any length, any sets of *)
(* roles and reads, and any number of stops.                               *)
(***************************************************************************)
EXTENDS SupervisorRun, TLAPS, FiniteSetTheorems

-----------------------------------------------------------------------------
(* Operators.                                                              *)

\* The numbering of the executors.
LEMMA Numbering ==
    /\ Chief = 0 /\ Chief \in Nat /\ Verifier \in Nat /\ Presenter \in Nat /\ Terminal \in Nat
    /\ Chief < Verifier /\ Verifier < Presenter /\ Presenter < Terminal
    /\ Presenter = Verifier + 1 /\ Terminal = Presenter + 1
    /\ \A k \in StepNumbers : k \in Nat /\ 0 < k /\ k < Verifier
    /\ \A k \in Nat : 0 < k /\ k < Verifier => k \in StepNumbers
BY ConstantsAssumption DEF Chief, Verifier, Presenter, Terminal, StepNumbers

\* A turn of the question is a turn without evidence.
LEMMA QuestionType == Question \in Turns /\ NoEvidence \in Evidence
BY DEF Question, NoEvidence, Turns, Evidence

\* What a step needs are keys of its own.
LEMMA NeedsKeys ==
    ASSUME TypeOK, NEW k \in StepNumbers, NEW x \in Needs(k)
    PROVE  <<k, x>> \in Keys
<1>1. plan[k] \in Roles \cup {"reader", "skipped"}
  BY DEF TypeOK
<1>2. x \in Reads \cup Roles
  BY <1>1 DEF Needs
<1> QED
  BY <1>2 DEF Keys

\* What Collect puts into the turn is evidence.
LEMMA CollectedType ==
    ASSUME TypeOK
    PROVE  Collected \in Evidence
BY DEF TypeOK, Collected, Evidence, Turns

\* Upto is a selection of receipts.
LEMMA UptoType ==
    ASSUME TypeOK, NEW k
    PROVE  Upto(k) \in Evidence
BY DEF TypeOK, Upto, Evidence

\* Before the first step there is no evidence, and nothing to complete.
LEMMA UptoChief ==
    ASSUME TypeOK, NEW k \in {0, 1}
    PROVE  Upto(k) = NoEvidence /\ AllComplete(k)
<1>1. \A j \in StepNumbers : ~(j < k)
  BY ConstantsAssumption DEF StepNumbers
<1>2. \A x \in Keys : x[1] \in StepNumbers
  BY DEF Keys
<1> QED
  BY <1>1, <1>2 DEF Upto, NoEvidence, AllComplete

\* With its own receipts a complete step takes the turn to the next one.
LEMMA UptoNext ==
    ASSUME TypeOK, at \in StepNumbers, turn.evidence = Upto(at), AllComplete(at), Complete(at)
    PROVE  Collected = Upto(at + 1) /\ AllComplete(at + 1)
<1>1. \A x \in Keys : x[1] \in StepNumbers
  BY DEF Keys
<1>2. ASSUME NEW x \in Keys
      PROVE  Collected[x] = Upto(at + 1)[x]
  <2>1. x[1] \in Nat /\ at \in Nat
    BY <1>1, Numbering
  <2>2. Collected[x] = IF x[1] = at /\ x[2] \in Needs(at) THEN receipt[x] ELSE turn.evidence[x]
    BY <1>2 DEF Collected
  <2>3. turn.evidence[x] = IF x[1] < at /\ x[2] \in Needs(x[1]) THEN receipt[x] ELSE 0
    BY <1>2 DEF Upto
  <2>4. Upto(at + 1)[x] = IF x[1] < at + 1 /\ x[2] \in Needs(x[1]) THEN receipt[x] ELSE 0
    BY <1>2 DEF Upto
  <2>5. x[1] < at + 1 <=> x[1] < at \/ x[1] = at
    BY <2>1
  <2>6. x[1] = at => ~(x[1] < at)
    BY <2>1
  <2> QED
    BY <2>2, <2>3, <2>4, <2>5, <2>6
<1>3. Collected = Upto(at + 1)
  BY <1>2 DEF Collected, Upto
<1>4. \A j \in StepNumbers : j < at + 1 => j < at \/ j = at
  BY Numbering
<1> QED
  BY <1>3, <1>4 DEF AllComplete

\* Evidence that was complete up to a step stays what it is.
Kept == \A k \in Nat : AllComplete(k) => Upto(k)' = Upto(k) /\ AllComplete(k)'

\* A step that saves no receipt keeps them all.
LEMMA KeptUnchanged ==
    ASSUME UNCHANGED <<receipt, plan>>
    PROVE  Kept
BY DEF Kept, AllComplete, Upto, Complete, Needs

\* A receipt is saved where there was none, in a step that was not complete.
LEMMA KeptSaving ==
    ASSUME TypeOK, UNCHANGED plan, at \in StepNumbers, NEW x \in Needs(at),
           receipt[<<at, x>>] = 0, receipt' = [receipt EXCEPT ![<<at, x>>] = This]
    PROVE  Kept
<1> SUFFICES ASSUME NEW k \in Nat, AllComplete(k)
             PROVE  Upto(k)' = Upto(k) /\ AllComplete(k)'
  BY DEF Kept
<1>1. ~Complete(at)
  BY DEF Complete
<1>2. ~(at < k)
  BY <1>1 DEF AllComplete
<1>3. receipt \in Evidence
  BY DEF TypeOK
<1>4. \A y \in Keys : y[1] < k => receipt'[y] = receipt[y]
  BY <1>2, <1>3 DEF Evidence, Keys
<1>5. \A j : Needs(j)' = Needs(j)
  BY DEF Needs
<1>6. Upto(k)' = Upto(k)
  BY <1>4, <1>5 DEF Upto
<1>7. ASSUME NEW j \in StepNumbers, j < k
      PROVE  Complete(j)'
  <2>1. Complete(j)
    BY <1>7 DEF AllComplete
  <2>2. \A y \in Needs(j) : <<j, y>> \in Keys /\ receipt'[<<j, y>>] = receipt[<<j, y>>]
    BY <1>7, <1>4, NeedsKeys
  <2> QED
    BY <2>1, <2>2, <1>5 DEF Complete
<1> QED
  BY <1>6, <1>7 DEF AllComplete

-----------------------------------------------------------------------------
(* Type correctness.                                                       *)

\* An exception changes the failure receipt and nothing else on disk.
LEMMA RaiseType ==
    ASSUME TypeOK, NEW reason \in {"fault", "replaced"}, Raise(reason)
    PROVE  TypeOK'
BY DEF Raise, TypeOK, callVars, progressVars, endVars, memory

\* Every action preserves the types; where a process is in the graph bounds the
\* number of its invocations.
LEMMA TypeStep ==
    ASSUME TypeOK, PositionInv, Next
    PROVE  TypeOK'
<1> USE ConstantsAssumption, Numbering, QuestionType
<1> This \in Nat
  BY DEF TypeOK, This
<1>1. CASE Enter \/ Finished \/ Restart \/ Return
  BY <1>1 DEF Enter, Finished, Restart, Return, TypeOK, callVars, progressVars, endVars, memory
<1>2. CASE Open
  BY <1>2 DEF Open, TypeOK, callVars, progressVars, endVars, PositionInv, Checkpoints
<1>3. CASE Checkpoint
  <2>1. [next |-> at, turn |-> turn, digest |-> output] \in Checkpoints
    BY DEF TypeOK, Checkpoints, Chief
  <2> QED
    BY <2>1, <1>3 DEF Checkpoint, TypeOK, callVars, progressVars, endVars
<1>4. CASE Plan
  <2>1. Recovered \in Turns
    BY DEF TypeOK, Recovered, Turns, Answers
  <2> QED
    BY <2>1, <1>4 DEF Plan, Advance, TypeOK, callVars, endVars
<1>5. CASE \E x \in Reads : Read(x)
  <2>1. PICK x \in Reads : Read(x)
    BY <1>5
  <2>2. receipt' \in Evidence
    BY <2>1 DEF Read, TypeOK, Evidence
  <2> QED
    BY <2>1, <2>2 DEF Read, TypeOK, callVars, endVars, memory
<1>6. CASE Dispatch
  <2>1. CASE Raise("replaced")
    BY <2>1, RaiseType
  <2>2. CASE ~Raise("replaced")
    <3>1. /\ asked' = [asked EXCEPT ![Invocation(Number)] = at]
          /\ at \in StepNumbers /\ delegations' = Number
      BY <2>2, <1>6 DEF Dispatch, Working
    <3>2. Number \in Nat /\ Number <= at
      BY <3>1, <1>6 DEF Dispatch, Working, PositionInv, Inside, Ahead, TypeOK, Number
    <3>3. asked' \in [Invocations -> 0..Steps]
      <4>1. at \in 0..Steps
        BY <3>1 DEF StepNumbers
      <4>2. asked \in [Invocations -> 0..Steps]
        BY DEF TypeOK
      <4> QED
        BY <3>1, <4>1, <4>2
    <3> QED
      BY <3>1, <3>2, <3>3, <2>2, <1>6 DEF Dispatch, TypeOK, callVars, progressVars, endVars
  <2> QED
    BY <2>1, <2>2
<1>7. CASE Respond
  <2>1. replied' \in [Invocations -> Nat]
    BY <1>7 DEF Respond, Raise, TypeOK, callVars
  <2> QED
    BY <2>1, <1>7 DEF Respond, Raise, TypeOK, callVars, progressVars, endVars, memory
<1>8. CASE SaveHandoff
  <2>1. receipt' \in Evidence
    BY <1>8 DEF SaveHandoff, TypeOK, Evidence
  <2> QED
    BY <2>1, <1>8 DEF SaveHandoff, TypeOK, callVars, endVars, memory
<1>9. CASE Collect
  <2>1. Collected \in Evidence
    BY CollectedType
  <2>2. CASE Raise("replaced")
    BY <2>2, RaiseType
  <2>3. CASE /\ stage' = [stage EXCEPT ![at] = Collected]
             /\ turn' = [turn EXCEPT !.evidence = Collected]
             /\ delegations' = IF Working /\ plan[at] \in Roles THEN Number ELSE delegations
             /\ Advance
             /\ UNCHANGED <<plan, callVars, turnSaved, receipt, verified, analysis, endVars, ckpt,
                            output, healthy, stops>>
    <3>1. stage' \in [StepNumbers -> Evidence \cup {None}] /\ turn' \in Turns
      BY <2>1, <2>3 DEF TypeOK, Turns
    <3>2. at \in StepNumbers /\ delegations' \in 0..at'
      BY <1>9, <2>3 DEF Collect, Working, PositionInv, Inside, Ahead, TypeOK, Number, Advance
    <3> QED
      BY <2>3, <3>1, <3>2 DEF Advance, TypeOK, callVars, endVars
  <2> QED
    BY <2>2, <2>3, <1>9 DEF Collect
<1>10. CASE Verify
  <2>1. verified' \in Evidence /\ turn' \in Turns
    BY <1>10 DEF Verify, TypeOK, Turns
  <2> QED
    BY <2>1, <1>10 DEF Verify, Advance, TypeOK, callVars, endVars
<1>11. CASE Analyse
  BY <1>11 DEF Analyse, TypeOK, callVars, endVars, memory
<1>12. CASE Present
  <2>1. prepared' \in Answers
    BY <1>12 DEF Present, TypeOK, Turns, Answers
  <2> QED
    BY <2>1, <1>12 DEF Present, Advance, TypeOK, callVars, progressVars
<1>13. CASE Attest
  BY <1>13 DEF Attest, TypeOK, callVars, progressVars, endVars
<1>14. CASE SaveEvidence
  <2>1. prepared \in Answers => prepared.evidence \in Evidence
    BY DEF Answers
  <2> QED
    BY <2>1, <1>14 DEF SaveEvidence, Raise, TypeOK, callVars, progressVars, endVars, memory
<1>15. CASE SaveAnswer
  BY <1>15 DEF SaveAnswer, TypeOK, callVars, progressVars, endVars, memory
<1>16. CASE Fails
  BY <1>16 DEF Fails, Raise, TypeOK, callVars, progressVars, endVars, memory
<1>17. CASE Stop
  BY <1>17 DEF Stop, TypeOK, callVars, progressVars, endVars, memory
<1> QED
  BY <1>1, <1>2, <1>3, <1>4, <1>5, <1>6, <1>7, <1>8, <1>9, <1>10, <1>11, <1>12, <1>13, <1>14,
     <1>15, <1>16, <1>17
  DEF Next, Execution, Handoff

-----------------------------------------------------------------------------
(* The inductive step.                                                     *)

\* No step changes a receipt of evidence that is complete.
LEMMA KeptStep ==
    ASSUME IInv, Next
    PROVE  Kept
<1> USE DEF IInv
<1>1. CASE \E x \in Reads : Read(x)
  <2>1. PICK x \in Reads : Read(x)
    BY <1>1
  <2>2. at \in StepNumbers /\ x \in Needs(at)
    BY <2>1 DEF Read, Working, Needs
  <2> QED
    BY <2>1, <2>2, KeptSaving DEF Read
<1>2. CASE SaveHandoff
  <2>1. at \in StepNumbers /\ plan[at] \in Needs(at) /\ receipt[<<at, plan[at]>>] = 0
    BY <1>2, ConstantsAssumption DEF SaveHandoff, PositionInv, Ahead, Needs
  <2> QED
    BY <1>2, <2>1, KeptSaving DEF SaveHandoff
<1>3. CASE Plan \/ Collect
  BY <1>3, KeptUnchanged DEF Plan, Collect, Raise, progressVars
<1>4. CASE ~(Plan \/ Collect \/ SaveHandoff \/ \E x \in Reads : Read(x))
  <2>1. UNCHANGED <<receipt, plan>>
    BY <1>4 DEF Next, Execution, Handoff, Enter, Open, Checkpoint, Fails, Finished, Stop, Restart,
       Dispatch, Respond, Raise, Verify, Analyse, Present, Attest, SaveEvidence, SaveAnswer,
       Return, progressVars
  <2> QED
    BY <2>1, KeptUnchanged
<1> QED
  BY <1>1, <1>2, <1>3, <1>4

\* The checkpoint only advances.
LEMMA CheckpointAdvances ==
    ASSUME IInv, Next
    PROVE  \A k \in Nat : Reached(k) => Reached(k)'
<1> USE DEF IInv, Reached
<1>1. CASE Checkpoint
  <2>1. CASE UNCHANGED ckpt
    BY <2>1
  <2>2. CASE ckpt' = [next |-> at, turn |-> turn, digest |-> output]
    <3>1. at \in Nat /\ (ckpt # None => ckpt.next = at - 1)
      BY <1>1, Numbering DEF Checkpoint, PositionInv, TypeOK
    <3>2. ckpt' # None /\ ckpt'.next = at
      BY <2>2, TypeStep, ConstantsAssumption DEF TypeOK, Checkpoints, Chief
    <3> QED
      BY <3>1, <3>2
  <2> QED
    BY <1>1, <2>1, <2>2 DEF Checkpoint
<1>2. CASE ~Checkpoint
  <2>1. UNCHANGED ckpt
    BY <1>2 DEF Next, Execution, Handoff, Enter, Open, Plan, Collect, SaveHandoff, Read, Fails,
       Finished, Stop, Restart, Dispatch, Respond, Raise, Verify, Analyse, Present, Attest,
       SaveEvidence, SaveAnswer, Return, endVars
  <2> QED
    BY <2>1
<1> QED
  BY <1>1, <1>2

\* A process that is at work has reached where it is.
LEMMA AtWork ==
    ASSUME IInv, pc \in {"run", "done", "filed"} \cup Ahead, healthy
    PROVE  at \in Nat /\ ckpt # None /\ ckpt.next = at /\ Reached(at) /\ Reached(Chief)
BY Numbering DEF IInv, PositionInv, TypeOK, Reached

\* ProgressIsCheckpointed: each save is made by an executor the checkpoint names.
LEMMA ProgressStep ==
    ASSUME IInv, Next
    PROVE  ProgressIsCheckpointed'
<1> USE Numbering
<1>0. ProgressIsCheckpointed
  BY DEF IInv
<1>1. \A k \in Nat : Reached(k) => Reached(k)'
  BY CheckpointAdvances
<1>2. turnSaved' => Reached(Chief)'
  <2>1. CASE Plan
    BY <2>1, <1>1, AtWork DEF Plan
  <2>2. CASE ~Plan
    <3>1. UNCHANGED turnSaved
      BY <2>2 DEF Next, Execution, Handoff, Enter, Open, Checkpoint, Collect, SaveHandoff, Read,
         Fails, Finished, Stop, Restart, Dispatch, Respond, Raise, Verify, Analyse, Present,
         Attest, SaveEvidence, SaveAnswer, Return, progressVars
    <3> QED
      BY <3>1, <1>0, <1>1 DEF ProgressIsCheckpointed
  <2> QED
    BY <2>1, <2>2
<1>3. ASSUME NEW k \in StepNumbers, stage'[k] # None
      PROVE  Reached(k)'
  <2>1. CASE stage'[k] = stage[k]
    BY <2>1, <1>3, <1>0, <1>1 DEF ProgressIsCheckpointed
  <2>2. CASE stage'[k] # stage[k]
    <3>1. Collect /\ k = at
      BY <2>2 DEF IInv, TypeOK, Next, Execution, Handoff, Plan, Enter, Open, Checkpoint, Collect,
         SaveHandoff, Read, Fails, Finished, Stop, Restart, Dispatch, Respond, Raise, Verify,
         Analyse, Present, Attest, SaveEvidence, SaveAnswer, Return, progressVars
    <3>2. pc \in {"run"} \cup Ahead /\ healthy
      BY <3>1 DEF Collect, Working, IInv, PositionInv, Ahead
    <3> QED
      BY <3>1, <3>2, <1>1, AtWork
  <2> QED
    BY <2>1, <2>2
<1>4. ASSUME NEW k \in Keys, receipt'[k] # 0
      PROVE  Reached(k[1])'
  <2>0. k[1] \in Nat
    BY DEF Keys
  <2>1. CASE receipt'[k] = receipt[k]
    BY <2>0, <2>1, <1>4, <1>0, <1>1 DEF ProgressIsCheckpointed
  <2>2. CASE receipt'[k] # receipt[k]
    <3>1. SaveHandoff \/ \E x \in Reads : Read(x)
      BY <2>2 DEF Next, Execution, Handoff, Plan, Enter, Open, Checkpoint, Collect, Fails, Finished,
         Stop, Restart, Dispatch, Respond, Raise, Verify, Analyse, Present, Attest, SaveEvidence,
         SaveAnswer, Return, progressVars
    <3>2. pc \in {"run"} \cup Ahead /\ healthy
      BY <3>1 DEF SaveHandoff, Read, Working, IInv, PositionInv, Ahead
    <3>3. \E x \in Reads \cup Roles : k = <<at, x>>
      <4>1. PICK x : receipt' = [receipt EXCEPT ![<<at, x>>] = This]
        BY <3>1 DEF SaveHandoff, Read
      <4>2. k = <<at, x>>
        BY <2>2, <4>1 DEF IInv, TypeOK, Evidence
      <4> QED
        BY <4>2 DEF Keys
    <3> QED
      BY <3>2, <3>3, <1>1, AtWork
  <2> QED
    BY <2>1, <2>2
<1>5. verified' # None => Reached(Verifier)'
  <2>1. CASE Verify
    BY <2>1, <1>1, AtWork DEF Verify
  <2>2. CASE ~Verify
    <3>1. UNCHANGED verified
      BY <2>2 DEF Next, Execution, Handoff, Plan, Enter, Open, Checkpoint, Collect, SaveHandoff,
         Read, Fails, Finished, Stop, Restart, Dispatch, Respond, Raise, Analyse, Present,
         Attest, SaveEvidence, SaveAnswer, Return, progressVars
    <3> QED
      BY <3>1, <1>0, <1>1 DEF ProgressIsCheckpointed
  <2> QED
    BY <2>1, <2>2
<1>6. prepared' # None => Reached(Presenter)'
  <2>1. CASE Present
    BY <2>1, <1>1, AtWork DEF Present
  <2>2. CASE ~Present
    <3>1. UNCHANGED prepared
      BY <2>2 DEF Next, Execution, Handoff, Plan, Enter, Open, Checkpoint, Collect, SaveHandoff,
         Read, Fails, Finished, Stop, Restart, Dispatch, Respond, Raise, Analyse, Verify,
         Attest, SaveEvidence, SaveAnswer, Return, endVars
    <3> QED
      BY <3>1, <1>0, <1>1 DEF ProgressIsCheckpointed
  <2> QED
    BY <2>1, <2>2
<1>7. filed' # None => Reached(Terminal)'
  <2>1. CASE SaveEvidence
    <3>1. at = Terminal
      BY <2>1 DEF SaveEvidence, IInv, PositionInv
    <3> QED
      BY <3>1, <2>1, <1>1, AtWork DEF SaveEvidence
  <2>2. CASE ~SaveEvidence
    <3>1. UNCHANGED filed
      BY <2>2 DEF Next, Execution, Handoff, Plan, Enter, Open, Checkpoint, Collect, SaveHandoff,
         Read, Fails, Finished, Stop, Restart, Dispatch, Respond, Raise, Analyse, Verify, Present,
         Attest, SaveAnswer, Return, endVars
    <3> QED
      BY <3>1, <1>0, <1>1 DEF ProgressIsCheckpointed
  <2> QED
    BY <2>1, <2>2
<1> QED
  BY <1>2, <1>3, <1>4, <1>5, <1>6, <1>7 DEF ProgressIsCheckpointed

\* JournalInv: receipts agree with each other, in the order they are saved.
LEMMA JournalStep ==
    ASSUME IInv, Next
    PROVE  JournalInv'
<1> USE Numbering
<1>0. JournalInv /\ Kept /\ TypeOK
  BY KeptStep DEF IInv
<1>1. CASE UNCHANGED <<stage, verified, analysis, prepared, filed, answer, failure>>
  BY <1>0, <1>1 DEF JournalInv, Kept
<1>2. ASSUME NEW reason, Raise(reason), pc \in Inside \cup {"open"}
      PROVE  JournalInv'
  <2>1. answer = None
    BY <1>2 DEF IInv, PositionInv, Inside, Ahead, Ended
  <2> QED
    BY <1>0, <1>2, <2>1 DEF Raise, JournalInv, Kept, progressVars
<1>3. CASE Collect
  <2>1. CASE Raise("replaced")
    BY <2>1, <1>2, <1>3 DEF Collect, Working, Inside, Ahead
  <2>2. CASE ~Raise("replaced")
    <3>1. /\ at \in StepNumbers /\ pc \in Inside /\ ~turn.verified
          /\ stage' = [stage EXCEPT ![at] = Collected]
          /\ UNCHANGED <<verified, analysis, prepared, filed, answer, failure>>
      BY <1>3, <2>2 DEF Collect, Working, IInv, PositionInv, Inside, Ahead, endVars
    <3>2. turn.evidence = Upto(at) /\ AllComplete(at) /\ Complete(at)
      BY <3>1, <1>3 DEF IInv, PositionInv, TurnInv, Collect
    <3>3. Collected = Upto(at + 1) /\ AllComplete(at + 1)
      BY <1>0, <3>1, <3>2, UptoNext
    <3>4. \A k \in StepNumbers :
            stage'[k] # None => stage'[k] = Upto(k + 1) /\ AllComplete(k + 1)
      BY <1>0, <3>1, <3>3 DEF JournalInv, TypeOK
    <3> QED
      BY <1>0, <3>1, <3>4 DEF JournalInv, Kept
  <2> QED
    BY <2>1, <2>2
<1>4. CASE Dispatch \/ Respond \/ Fails \/ SaveEvidence
  <2>1. CASE \E reason : Raise(reason)
    BY <2>1, <1>2, <1>4 DEF Dispatch, Respond, Fails, SaveEvidence, Working, Inside, Ahead,
       IInv, TypeOK
  <2>2. CASE ~\E reason : Raise(reason)
    <3>1. CASE Dispatch \/ Respond
      BY <1>1, <2>2, <3>1 DEF Dispatch, Respond, progressVars, endVars
    <3>2. CASE SaveEvidence
      <4>1. /\ prepared # None /\ filed' = prepared.evidence
            /\ UNCHANGED <<stage, verified, analysis, prepared, answer, failure>>
        BY <2>2, <3>2 DEF SaveEvidence, progressVars
      <4>2. answer = None
        BY <3>2 DEF SaveEvidence, IInv, PositionInv, Ended
      <4> QED
        BY <1>0, <4>1, <4>2 DEF JournalInv, Kept
    <3> QED
      BY <1>4, <2>2, <3>1, <3>2 DEF Fails
  <2> QED
    BY <2>1, <2>2
<1>5. CASE Verify
  <2>1. CASE verified # None
    BY <1>1, <1>5, <2>1 DEF Verify, endVars
  <2>2. CASE verified = None
    <3>1. /\ at = Verifier /\ pc \in Inside /\ verified' = turn.evidence
          /\ UNCHANGED <<stage, analysis, prepared, filed, answer, failure>>
      BY <1>5, <2>2 DEF Verify, Inside, endVars
    <3>2. turn.evidence = Upto(Verifier) /\ AllComplete(Verifier)
      BY <3>1 DEF IInv, PositionInv, TurnInv
    <3>3. prepared = None /\ filed = None /\ answer = None
      BY <1>0, <2>2 DEF JournalInv
    <3> QED
      BY <1>0, <3>1, <3>2, <3>3 DEF JournalInv, Kept
  <2> QED
    BY <2>1, <2>2
<1>6. CASE Analyse
  <2>1. prepared = None /\ UNCHANGED <<stage, verified, prepared, filed, answer, failure>>
    BY <1>6 DEF Analyse, endVars
  <2> QED
    BY <1>0, <2>1 DEF JournalInv, Kept
<1>7. CASE Present
  <2>1. CASE prepared # None
    BY <1>1, <1>7, <2>1 DEF Present, progressVars
  <2>2. CASE prepared = None
    <3>1. /\ at = Presenter /\ pc \in Inside /\ turn.verified
          /\ prepared' = [evidence |-> turn.evidence, analysis |-> analysis]
          /\ UNCHANGED <<stage, verified, analysis, filed, answer, failure>>
      BY <1>7, <2>2 DEF Present, Inside, progressVars
    <3>2. verified # None /\ turn.evidence = verified
      BY <3>1 DEF IInv, PositionInv, TurnInv
    <3>3. filed = None /\ answer = None
      BY <1>0, <2>2 DEF JournalInv
    <3> QED
      BY <1>0, <3>1, <3>2, <3>3 DEF JournalInv, Kept
  <2> QED
    BY <2>1, <2>2
<1>8. CASE SaveAnswer
  <2>1. /\ filed # None /\ output = prepared /\ failure = None
        /\ answer' = output /\ UNCHANGED <<stage, verified, analysis, prepared, filed, failure>>
    BY <1>8 DEF SaveAnswer, IInv, PositionInv, Ended, progressVars
  <2> QED
    BY <1>0, <2>1 DEF JournalInv, Kept
<1>9. CASE Enter \/ Open \/ Checkpoint \/ Finished \/ Stop \/ Restart \/ Return \/ Plan \/ Attest
           \/ SaveHandoff \/ \E x \in Reads : Read(x)
  BY <1>1, <1>9 DEF Enter, Open, Checkpoint, Finished, Stop, Restart, Return, Plan, Attest,
     SaveHandoff, Read, progressVars, endVars
<1> QED
  BY <1>3, <1>4, <1>5, <1>6, <1>7, <1>8, <1>9 DEF Next, Execution, Handoff

\* CheckpointInv: the checkpoint holds the turn it was saved with, which stays
\* the turn of the receipts before its executor.
LEMMA CheckpointStep ==
    ASSUME IInv, Next
    PROVE  CheckpointInv'
<1> USE Numbering
<1>0. CheckpointInv /\ Kept /\ TypeOK /\ ProgressIsCheckpointed /\ JournalInv
  BY KeptStep DEF IInv
<1>1. CASE UNCHANGED <<ckpt, verified, prepared>>
  BY <1>0, <1>1 DEF CheckpointInv, TurnInv, Kept, TypeOK, Checkpoints
<1>2. CASE Checkpoint
  <2>1. CASE UNCHANGED ckpt
    BY <2>1, <1>1, <1>2 DEF Checkpoint, progressVars, endVars
  <2>2. CASE ckpt' # ckpt
    <3>1. /\ ckpt' = [next |-> at, turn |-> turn, digest |-> output]
          /\ UNCHANGED <<verified, prepared>> /\ at \in Nat
      BY <1>0, <1>2, <2>2 DEF Checkpoint, progressVars, endVars, TypeOK
    <3>2. /\ TurnInv(turn, at) /\ (at > Verifier => verified # None)
          /\ output = (IF at = Terminal THEN prepared ELSE None)
          /\ at = Terminal => prepared # None
      BY <1>2 DEF Checkpoint, IInv, PositionInv, Inside
    <3> QED
      BY <1>0, <3>1, <3>2 DEF CheckpointInv, TurnInv, Kept
  <2> QED
    BY <2>1, <2>2
<1>3. CASE Verify
  <2>1. CASE verified # None
    BY <1>1, <1>3, <2>1 DEF Verify, endVars
  <2>2. CASE verified = None
    <3>1. verified' # None /\ UNCHANGED <<ckpt, prepared>> /\ ckpt # None /\ ckpt.next = Verifier
      BY <1>0, <1>3, <2>2, AtWork, ConstantsAssumption DEF Verify, endVars, TypeOK, Turns
    <3> QED
      BY <1>0, <3>1 DEF CheckpointInv, TurnInv, Kept
  <2> QED
    BY <2>1, <2>2
<1>4. CASE Present
  <2>1. CASE prepared # None
    BY <1>1, <1>4, <2>1 DEF Present, progressVars
  <2>2. CASE prepared = None
    <3>1. UNCHANGED <<ckpt, verified>> /\ ckpt # None /\ ckpt.next = Presenter
      BY <1>4, AtWork DEF Present, progressVars
    <3> QED
      BY <1>0, <3>1 DEF CheckpointInv, TurnInv, Kept, TypeOK, Checkpoints
  <2> QED
    BY <2>1, <2>2
<1>5. CASE ~(Checkpoint \/ Verify \/ Present)
  <2>1. UNCHANGED <<ckpt, verified, prepared>>
    BY <1>5 DEF Next, Execution, Handoff, Plan, Enter, Open, Collect, SaveHandoff, Read, Fails,
       Finished, Stop, Restart, Dispatch, Respond, Raise, Analyse, Attest, SaveEvidence,
       SaveAnswer, Return, progressVars, endVars
  <2> QED
    BY <2>1, <1>1
<1> QED
  BY <1>2, <1>3, <1>4, <1>5

\* PositionInv, one case per place in the graph a step comes to.
LEMMA PositionStep ==
    ASSUME IInv, Next
    PROVE  PositionInv'
<1> USE Numbering DEF Inside, Ahead, Ended
<1>0. PositionInv /\ Kept /\ TypeOK /\ ProgressIsCheckpointed /\ JournalInv /\ CheckpointInv
  BY KeptStep DEF IInv
<1>t. TypeOK'
  BY TypeStep DEF IInv
<1>k. \A k \in Nat : AllComplete(k) => Upto(k)' = Upto(k) /\ AllComplete(k)'
  BY <1>0 DEF Kept
<1>1. ASSUME NEW reason \in {"fault", "replaced"}, Raise(reason), pc \in Inside \cup {"open"}
      PROVE  PositionInv'
  BY <1>0, <1>1, ConstantsAssumption DEF Raise, PositionInv, memory
<1>2. CASE Enter
  BY <1>0, <1>2 DEF Enter, PositionInv, endVars, memory
<1>3. CASE Open
  <2>1. CASE ckpt = None
    <3>1. Upto(Chief) = NoEvidence /\ AllComplete(Chief) /\ ~turnSaved
      BY <1>0, <1>3, <2>1, UptoChief DEF Open, Unattested
    <3> QED
      BY <1>0, <1>3, <1>k, <2>1, <3>1
      DEF Open, PositionInv, TurnInv, Question, endVars, progressVars
  <2>2. CASE ckpt # None
    <3>1. /\ ckpt.next \in Nat /\ TurnInv(ckpt.turn, ckpt.next)
          /\ ckpt.next > Verifier => verified # None
      BY <1>0, <2>2 DEF CheckpointInv, TypeOK, Checkpoints, Chief
    <3>2. TurnInv(turn, at)'
      BY <1>3, <1>k, <2>2, <3>1 DEF Open, TurnInv, progressVars
    <3> QED
      BY <1>0, <1>3, <2>2, <3>1, <3>2 DEF Open, PositionInv, endVars, progressVars
  <2> QED
    BY <2>1, <2>2
<1>4. CASE Checkpoint
  <2>1. TurnInv(turn, at)'
    BY <1>0, <1>k, <1>4 DEF Checkpoint, PositionInv, TurnInv, TypeOK, progressVars
  <2>2. healthy' => ckpt' # None /\ ckpt'.next = at
    <3>1. [next |-> at, turn |-> turn, digest |-> output] \in Checkpoints
      BY <1>0 DEF TypeOK, Checkpoints, Chief
    <3> QED
      BY <3>1, <1>4, ConstantsAssumption DEF Checkpoint
  <2> QED
    BY <1>0, <1>4, <2>1, <2>2 DEF Checkpoint, PositionInv, progressVars, endVars
<1>5. CASE Finished \/ Return \/ Restart
  BY <1>0, <1>5 DEF Finished, Return, Restart, PositionInv, endVars, memory
<1>6. CASE Stop
  BY <1>0, <1>6 DEF Stop, PositionInv, endVars
<1>7. CASE Fails
  BY <1>0, <1>1, <1>7 DEF Fails, TypeOK
<1>8. CASE Plan
  <2>1. /\ at = Chief /\ ckpt # None /\ ckpt.next = Chief /\ healthy /\ output = None
        /\ delegations = 0
    BY <1>0, <1>8, AtWork DEF Plan, PositionInv, TypeOK
  <2>2. verified = None /\ prepared = None
    BY <1>0, <2>1 DEF ProgressIsCheckpointed, Reached
  <2>3. Upto(1) = NoEvidence /\ AllComplete(1)
    BY <1>0, UptoChief
  <2>4. at' = 1 /\ turn' = Question /\ pc' = "sent"
    BY <1>8, <2>1, <2>2 DEF Plan, Advance, Recovered
  <2>5. TurnInv(turn, at)'
    BY <1>k, <2>3, <2>4 DEF TurnInv, Question
  <2> QED
    BY <1>0, <1>8, <2>1, <2>2, <2>4, <2>5 DEF Plan, PositionInv, endVars
<1>9. CASE \E x \in Reads : Read(x)
  <2>1. PICK x \in Reads : Read(x)
    BY <1>9
  <2>2. TurnInv(turn, at)'
    BY <1>0, <1>k, <2>1 DEF Read, Working, PositionInv, TurnInv, TypeOK, memory
  <2> QED
    BY <1>0, <2>1, <2>2 DEF Read, Working, PositionInv, endVars, memory
<1>10. CASE Dispatch
  <2>1. CASE Raise("replaced")
    BY <1>1, <1>10, <2>1 DEF Dispatch, Working
  <2>2. CASE ~Raise("replaced")
    <3>1. /\ Working /\ plan[at] \in Roles /\ receipt[<<at, plan[at]>>] = 0
          /\ delegations' = delegations + 1 /\ pc' = "invoking"
          /\ UNCHANGED <<plan, replied, progressVars, endVars, ckpt, at, turn, output, healthy, stops>>
      BY <1>10, <2>2 DEF Dispatch, Number
    <3>2. plan[at] \in Needs(at) /\ ~Complete(at)
      BY <3>1, ConstantsAssumption DEF Needs, Complete
    <3>3. stage[at] = None
      <4>1. SUFFICES ASSUME stage[at] # None
                     PROVE  FALSE
        OBVIOUS
      <4>2. AllComplete(at + 1) /\ at \in StepNumbers
        BY <1>0, <3>1, <4>1 DEF JournalInv, Working
      <4> QED
        BY <3>2, <4>2 DEF AllComplete
    <3>4. TurnInv(turn, at)'
      BY <1>0, <1>k, <3>1 DEF Working, PositionInv, TurnInv, TypeOK, progressVars
    <3> QED
      BY <1>0, <3>1, <3>3, <3>4 DEF Working, PositionInv, TypeOK, endVars, progressVars
  <2> QED
    BY <2>1, <2>2
<1>11. CASE Respond
  <2>1. CASE Raise("replaced")
    BY <1>1, <1>11, <2>1 DEF Respond
  <2>2. CASE ~Raise("replaced")
    <3>1. /\ pc = "invoking" /\ pc' = "replied"
          /\ UNCHANGED <<plan, asked, progressVars, endVars, ckpt, memory, stops>>
      BY <1>11, <2>2 DEF Respond
    <3>2. TurnInv(turn, at)'
      BY <1>0, <1>k, <3>1 DEF PositionInv, TurnInv, TypeOK, progressVars, memory
    <3> QED
      BY <1>0, <3>1, <3>2 DEF PositionInv, endVars, progressVars, memory
  <2> QED
    BY <2>1, <2>2
<1>12. CASE SaveHandoff
  <2>1. TurnInv(turn, at)'
    BY <1>0, <1>k, <1>12 DEF SaveHandoff, PositionInv, TurnInv, TypeOK, memory
  <2>2. <<at, plan[at]>> \in Keys
    BY <1>0, <1>12 DEF SaveHandoff, PositionInv, Keys
  <2>3. receipt'[<<at, plan[at]>>] # 0
    BY <1>0, <1>12, <2>2 DEF SaveHandoff, TypeOK, Evidence, This
  <2> QED
    BY <1>0, <1>12, <2>1, <2>3 DEF SaveHandoff, PositionInv, endVars, memory
<1>13. CASE Collect
  <2>1. CASE Raise("replaced")
    BY <1>1, <1>13, <2>1 DEF Collect, Working
  <2>2. CASE ~Raise("replaced")
    <3>1. /\ at \in StepNumbers /\ ~turn.verified /\ healthy /\ output = None
          /\ ckpt # None /\ ckpt.next = at
          /\ Complete(at) /\ turn' = [turn EXCEPT !.evidence = Collected]
          /\ pc' = "sent" /\ at' = at + 1
          /\ UNCHANGED <<plan, callVars, turnSaved, receipt, verified, analysis, endVars, ckpt, output,
                         healthy, stops>>
      BY <1>0, <1>13, <2>2 DEF Collect, Advance, Working, PositionInv
    <3>2. turn.evidence = Upto(at) /\ AllComplete(at)
      BY <1>0, <1>13, <3>1 DEF Collect, Working, PositionInv, TurnInv
    <3>3. Collected = Upto(at + 1) /\ AllComplete(at + 1)
      BY <1>0, <3>1, <3>2, UptoNext
    <3>4. turn'.evidence = Collected /\ ~turn'.verified
      BY <1>0, <3>1 DEF TypeOK, Turns
    <3>5. TurnInv(turn, at)'
      BY <1>k, <3>1, <3>3, <3>4 DEF TurnInv
    <3>6. delegations' < at'
      BY <1>0, <1>13, <2>2, <3>1 DEF Collect, Working, PositionInv, TypeOK, Number
    <3>7. answer = None /\ failure = None
      BY <1>0, <1>13 DEF Collect, Working, PositionInv
    <3> QED
      BY <3>1, <3>5, <3>6, <3>7 DEF PositionInv, endVars
  <2> QED
    BY <2>1, <2>2
<1>14. CASE Verify
  <2>1. at = Verifier /\ healthy /\ output = None /\ ckpt # None /\ ckpt.next = Verifier
    BY <1>0, <1>14, AtWork DEF Verify, PositionInv
  <2>2. verified' # None /\ TurnInv(turn, at)'
    BY <1>0, <1>14, <2>1, ConstantsAssumption DEF Verify, Advance, TurnInv, TypeOK, Turns
  <2> QED
    BY <1>0, <1>14, <2>1, <2>2 DEF Verify, Advance, PositionInv, TypeOK, endVars
<1>15. CASE Analyse
  <2>1. TurnInv(turn, at)'
    BY <1>0, <1>15 DEF Analyse, PositionInv, TurnInv, memory
  <2> QED
    BY <1>0, <1>15, <2>1 DEF Analyse, PositionInv, endVars, memory
<1>16. CASE Present
  <2>1. at = Presenter /\ healthy /\ ckpt # None /\ ckpt.next = Presenter
    BY <1>0, <1>16, AtWork DEF Present
  <2>2. prepared' # None /\ output' = prepared' /\ TurnInv(turn, at)'
    BY <1>0, <1>t, <1>16, <2>1, ConstantsAssumption
    DEF Present, Advance, PositionInv, TurnInv, TypeOK, Turns, Answers, progressVars
  <2> QED
    BY <1>0, <1>16, <2>1, <2>2 DEF Present, Advance, PositionInv, TypeOK, progressVars
<1>17. CASE Attest
  <2>1. TurnInv(turn, at)'
    BY <1>0, <1>k, <1>17 DEF Attest, PositionInv, TurnInv, TypeOK, progressVars
  <2> QED
    BY <1>0, <1>17, <2>1 DEF Attest, PositionInv, endVars, progressVars
<1>18. CASE SaveEvidence
  <2>1. CASE Raise("replaced")
    BY <1>1, <1>18, <2>1 DEF SaveEvidence
  <2>2. CASE ~Raise("replaced")
    <3>1. /\ pc = "done" /\ healthy /\ output # None
          /\ filed' = prepared.evidence /\ pc' = "filed"
          /\ UNCHANGED <<plan, callVars, progressVars, prepared, answer, failure, ckpt, memory, stops>>
      BY <1>18, <2>2 DEF SaveEvidence
    <3>2. TurnInv(turn, at)'
      BY <1>0, <1>k, <3>1 DEF PositionInv, TurnInv, TypeOK, progressVars, memory
    <3>3. filed' # None
      BY <1>0, <1>18, <3>1, ConstantsAssumption DEF SaveEvidence, TypeOK, Answers
    <3> QED
      BY <1>0, <3>1, <3>2, <3>3 DEF PositionInv, memory, progressVars
  <2> QED
    BY <2>1, <2>2
<1>19. CASE SaveAnswer
  BY <1>0, <1>19 DEF SaveAnswer, PositionInv, memory
<1> QED
  BY <1>2, <1>3, <1>4, <1>5, <1>6, <1>7, <1>8, <1>9, <1>10, <1>11, <1>12, <1>13, <1>14, <1>15,
     <1>16, <1>17, <1>18, <1>19
  DEF Next, Execution, Handoff

-----------------------------------------------------------------------------
(* The theorems.                                                           *)

\* At the start the turn is the question and nothing is on disk.
LEMMA InitIInv == Init => IInv
<1> SUFFICES ASSUME Init PROVE IInv
  OBVIOUS
<1> USE ConstantsAssumption, Numbering DEF Init
<1>1. TypeOK
  <2>1. 0 \in 0..Steps /\ Chief \in Chief..Terminal /\ 0 \in 0..Chief
    OBVIOUS
  <2>2. asked \in [Invocations -> 0..Steps] /\ replied \in [Invocations -> Nat]
    BY <2>1
  <2>3. stage \in [StepNumbers -> Evidence \cup {None}]
    OBVIOUS
  <2> QED
    BY <2>1, <2>2, <2>3, QuestionType DEF TypeOK
<1>2. ProgressIsCheckpointed /\ JournalInv /\ CheckpointInv
  BY QuestionType DEF ProgressIsCheckpointed, JournalInv, CheckpointInv, NoEvidence
<1>3. PositionInv
  BY DEF PositionInv, Inside, Ahead, Ended
<1> QED
  BY <1>1, <1>2, <1>3 DEF IInv

\* Every step preserves the invariant.
LEMMA NextIInv == IInv /\ [Next]_vars => IInv'
<1> SUFFICES ASSUME IInv, [Next]_vars PROVE IInv'
  OBVIOUS
<1>1. CASE Next
  BY <1>1, TypeStep, ProgressStep, JournalStep, CheckpointStep, PositionStep DEF IInv
<1>2. CASE UNCHANGED vars
  <2>1. Kept /\ TypeOK
    BY <1>2, KeptUnchanged DEF vars, progressVars, IInv
  <2>2. TypeOK'
    BY <1>2 DEF vars, callVars, progressVars, endVars, memory, IInv, TypeOK
  <2>3. ProgressIsCheckpointed'
    BY <1>2 DEF vars, progressVars, endVars, IInv, ProgressIsCheckpointed, Reached
  <2>4. JournalInv'
    BY <1>2, <2>1, Numbering DEF vars, progressVars, endVars, IInv, JournalInv, Kept
  <2>5. CheckpointInv'
    BY <1>2, <2>1 DEF vars, progressVars, endVars, IInv, CheckpointInv, TurnInv, Kept, TypeOK,
       Checkpoints,
       Chief
  <2>6. PositionInv'
    <3>1. pc \in Inside => TurnInv(turn, at)'
      BY <1>2, <2>1 DEF vars, progressVars, memory, IInv, PositionInv, TurnInv, Kept, TypeOK, Chief
    <3> QED
      BY <1>2, <3>1 DEF vars, progressVars, endVars, memory, IInv, PositionInv
  <2> QED
    BY <2>2, <2>3, <2>4, <2>5, <2>6 DEF IInv
<1> QED
  BY <1>1, <1>2

\* The invariant holds in every reachable state.
LEMMA AlwaysIInv == Spec => []IInv
BY InitIInv, NextIInv, PTL DEF Spec

\* For every plan, every variable keeps its type and a run numbers at most one
\* invocation for each step it has come to.
THEOREM TypeCorrect == Spec => []TypeOK
BY AlwaysIInv, PTL DEF IInv

\* Progress on disk is never more than one executor ahead of the checkpoint, for
\* every number of stops and failed saves.
THEOREM ProgressStaysCheckpointed == Spec => []ProgressIsCheckpointed
BY AlwaysIInv, PTL DEF IInv

\* A committed answer is the prepared one, filed with the receipts of every step
\* of its plan.
THEOREM AnswersAreGrounded == Spec => []AnswersRestOnReceipts
<1>1. IInv => AnswersRestOnReceipts
  BY DEF IInv, JournalInv, AnswersRestOnReceipts
<1> QED
  BY <1>1, AlwaysIInv, PTL

\* Reads and invocations are only made for a step that has neither its receipts
\* nor its stage, before evidence is verified.
THEOREM CallsAreNotRepeated == Spec => CompletedWorkIsNotRepeated
<1>1. ASSUME IInv, [Next]_vars
      PROVE  [\A k \in StepNumbers :
                 Calls(k) => ~Complete(k) /\ stage[k] = None /\ verified = None]_vars
  <2>1. SUFFICES ASSUME NEW k \in StepNumbers, Next, Calls(k)
                 PROVE  ~Complete(k) /\ stage[k] = None /\ verified = None
    BY <1>1
  <2>2. ~Complete(k)
    <3>1. CASE \E x \in Needs(k) : receipt'[<<k, x>>] # receipt[<<k, x>>]
      <4>1. PICK x \in Needs(k) : receipt'[<<k, x>>] # receipt[<<k, x>>]
        BY <3>1
      <4>2. <<k, x>> \in Keys /\ Kept
        BY <1>1, <2>1, KeptStep, NeedsKeys DEF IInv
      <4>3. receipt[<<k, x>>] = 0
        <5>1. PICK y : receipt' = [receipt EXCEPT ![<<at, y>>] = This] /\ receipt[<<at, y>>] = 0
          BY <1>1, <2>1, <4>1 DEF IInv, PositionInv, Ahead, Next, Execution, Handoff, Plan, Enter,
             Open, Checkpoint, Collect, SaveHandoff, Read, Fails, Finished, Stop, Restart, Dispatch,
             Respond, Raise, Verify, Analyse, Present, Attest, SaveEvidence, SaveAnswer, Return,
             progressVars
        <5>2. <<k, x>> = <<at, y>>
          BY <1>1, <4>1, <4>2, <5>1 DEF IInv, TypeOK, Evidence
        <5> QED
          BY <5>1, <5>2
      <4> QED
        BY <4>3 DEF Complete
    <3>2. CASE pc = "run" /\ pc' = "invoking" /\ at = k
      <4>1. plan[k] \in Roles /\ receipt[<<k, plan[k]>>] = 0
        BY <1>1, <2>1, <3>2 DEF Next, Execution, Handoff, Plan, Enter,
             Open, Checkpoint, Collect, SaveHandoff, Read, Fails, Finished, Stop, Restart, Dispatch,
             Respond, Raise, Verify, Analyse, Present, Attest, SaveEvidence, SaveAnswer, Return,
             Advance
      <4> QED
        BY <4>1, ConstantsAssumption DEF Needs, Complete
    <3> QED
      BY <2>1, <3>1, <3>2 DEF Calls
  <2>3. \A j \in Nat : k < j => ~AllComplete(j)
    BY <2>2 DEF AllComplete
  <2>4. k < k + 1 /\ k + 1 \in Nat /\ k < Verifier /\ Verifier \in Nat
    BY Numbering
  <2> QED
    BY <1>1, <2>2, <2>3, <2>4 DEF IInv, JournalInv
<1> QED
  BY <1>1, AlwaysIInv, PTL DEF Spec, CompletedWorkIsNotRepeated

-----------------------------------------------------------------------------
(* The journal.                                                            *)

\* The writes that change one entry of a table of receipts.
LEMMA TablesAreWriteOnce ==
    ASSUME IInv, Next
    PROVE  /\ \A i \in Invocations :
                 /\ asked[i] # 0 => asked'[i] = asked[i]
                 /\ replied[i] # 0 => replied'[i] = replied[i]
           /\ \A x \in Keys : receipt[x] # 0 => receipt'[x] = receipt[x]
           /\ \A k \in StepNumbers : stage[k] # None => stage'[k] = stage[k]
<1>0. TypeOK /\ PositionInv
  BY DEF IInv
<1>1. CASE Dispatch \/ Respond
  <2>1. UNCHANGED <<receipt, stage>>
    BY <1>1 DEF Dispatch, Respond, Raise, progressVars
  <2>2. \A i \in Invocations : asked[i] # 0 => asked'[i] = asked[i]
    BY <1>0, <1>1 DEF TypeOK, Dispatch, Respond, Refused, Raise, callVars
  <2>3. \A i \in Invocations : replied[i] # 0 => replied'[i] = replied[i]
    BY <1>0, <1>1 DEF TypeOK, Dispatch, Respond, Refused, Raise, callVars
  <2> QED
    BY <2>1, <2>2, <2>3
<1>2. CASE Collect
  <2>1. UNCHANGED <<asked, replied, receipt>>
    BY <1>2 DEF Collect, Raise, callVars, progressVars
  <2>2. \A k \in StepNumbers : stage[k] # None => stage'[k] = stage[k]
    BY <1>0, <1>2 DEF TypeOK, Collect, Refused, Raise, progressVars
  <2> QED
    BY <2>1, <2>2
<1>3. CASE SaveHandoff \/ \E x \in Reads : Read(x)
  <2>1. UNCHANGED <<asked, replied, stage>>
    BY <1>3 DEF SaveHandoff, Read, callVars
  <2>2. PICK x : receipt' = [receipt EXCEPT ![<<at, x>>] = This] /\ receipt[<<at, x>>] = 0
    BY <1>0, <1>3 DEF SaveHandoff, Read, PositionInv, Ahead
  <2>3. \A y \in Keys : receipt[y] # 0 => receipt'[y] = receipt[y]
    BY <1>0, <2>2 DEF TypeOK, Evidence
  <2> QED
    BY <2>1, <2>3
<1>4. CASE ~(Dispatch \/ Respond \/ Collect \/ SaveHandoff \/ \E x \in Reads : Read(x))
  <2>1. UNCHANGED <<asked, replied, receipt, stage>>
    BY <1>4 DEF Next, Execution, Handoff, Enter, Open, Checkpoint, Fails, Finished, Stop, Restart,
       Plan, Raise, Verify, Analyse, Present, Attest, SaveEvidence, SaveAnswer, Return,
       callVars, progressVars
  <2> QED
    BY <2>1
<1> QED
  BY <1>1, <1>2, <1>3, <1>4

\* No key of a run's journal is ever given another value, for every plan and every
\* order of stops: the write-once check of RunJournal.save is met only where the
\* model says so (Refused).
THEOREM JournalStaysWritten == Spec => JournalIsWriteOnce
<1>1. ASSUME IInv, Next
      PROVE  /\ turnSaved => turnSaved'
             /\ analysis # 0 => analysis' = analysis
             /\ verified # None => verified' = verified
             /\ prepared # None => prepared' = prepared
             /\ filed # None => filed' = filed
  <2>1. CASE Plan \/ Verify \/ Analyse \/ Present
    BY <2>1 DEF Plan, Verify, Analyse, Present, progressVars, endVars
  <2>2. CASE SaveEvidence
    BY <2>2 DEF SaveEvidence, Refused, Raise, progressVars
  <2>3. CASE Handoff
    <3>1. CASE Dispatch \/ Respond
      BY <3>1 DEF Dispatch, Respond, Raise, progressVars, endVars
    <3>2. CASE Collect
      BY <3>2 DEF Collect, Raise, progressVars, endVars
    <3>3. CASE SaveHandoff \/ \E x \in Reads : Read(x)
      <4>1. UNCHANGED <<turnSaved, verified, analysis>> /\ UNCHANGED endVars
        BY <3>3 DEF SaveHandoff, Read
      <4> QED
        BY <4>1 DEF endVars
    <3> QED
      BY <2>3, <3>1, <3>2, <3>3 DEF Handoff
  <2>4. CASE Enter \/ Open \/ Checkpoint \/ Attest \/ SaveAnswer \/ Return \/ Finished \/ Stop \/ Restart
    BY <2>4 DEF Enter, Open, Checkpoint, Attest, SaveAnswer, Return, Finished, Stop, Restart,
       progressVars, endVars
  <2>5. CASE Fails
    BY <2>5 DEF Fails, Raise, progressVars
  <2> QED
    BY <1>1, <2>1, <2>2, <2>3, <2>4, <2>5 DEF Next, Execution
<1>2. IInv /\ [Next]_vars =>
         [/\ turnSaved => turnSaved'
          /\ \A i \in Invocations :
                /\ asked[i] # 0 => asked'[i] = asked[i]
                /\ replied[i] # 0 => replied'[i] = replied[i]
          /\ \A x \in Keys : receipt[x] # 0 => receipt'[x] = receipt[x]
          /\ \A k \in StepNumbers : stage[k] # None => stage'[k] = stage[k]
          /\ analysis # 0 => analysis' = analysis
          /\ verified # None => verified' = verified
          /\ prepared # None => prepared' = prepared
          /\ filed # None => filed' = filed]_vars
  BY <1>1, TablesAreWriteOnce
<1> QED
  BY <1>2, AlwaysIInv, PTL DEF Spec, JournalIsWriteOnce

\* Nothing is written of a run that has its answer or its failure, by its own
\* process or by a later one.
THEOREM SettledRunStaysSettled == Spec => SettledRunRests
<1>1. ASSUME IInv, Next, answer # None \/ failure # None
      PROVE  UNCHANGED <<callVars, progressVars, endVars, ckpt>>
  <2>1. pc \in {"committed", "stopped", "over", "idle"}
    BY <1>1 DEF IInv, PositionInv, Ended
  <2>2. Return \/ Finished \/ Stop \/ Restart
    BY <1>1, <2>1 DEF Next, Execution, Handoff, Enter, Open, Checkpoint, Fails, Plan, Dispatch,
       Respond, SaveHandoff, Collect, Read, Working, Verify, Analyse, Present, Attest,
       SaveEvidence, SaveAnswer
  <2> QED
    BY <2>2 DEF Return, Finished, Stop, Restart
<1>2. IInv /\ [Next]_vars =>
         [answer # None \/ failure # None =>
             UNCHANGED <<callVars, progressVars, endVars, ckpt>>]_vars
  BY <1>1
<1> QED
  BY <1>2, AlwaysIInv, PTL DEF Spec, SettledRunRests

-----------------------------------------------------------------------------
(* The run as a task of the queue.                                         *)

\* What the queue does not see is a stutter of it.
LEMMA QueueStutter ==
    ASSUME UNCHANGED <<Task, answer = None, failure = None, pc = "stopped", stops>>
    PROVE  UNCHANGED Queue!vars
BY DEF Queue!vars, Queue!receiptVars, Queue!serviceVars, Queue!faultVars

\* The module counts as FiniteSets does.
LEMMA QueueCardinality == Queue!Cardinality({}) = 0 /\ Queue!Cardinality({"run"}) = 1
<1>1. \A S : Queue!Cardinality(S) = Cardinality(S)
  BY DEF Queue!Cardinality, Cardinality
<1> QED
  BY <1>1, FS_EmptySet, FS_Singleton

\* The queue's tasks are none or this one.
LEMMA QueueTasks ==
    /\ Queue!Scheduled = IF Task = None THEN {} ELSE {"run"}
    /\ \A s : Queue!InState(s) =
                  IF Task # None /\ Task.state = s THEN {"run"} ELSE {}
BY DEF Queue!Scheduled, Queue!InState

\* The task of each place in the graph.
LEMMA TaskOfPlace ==
    ASSUME TypeOK
    PROVE  /\ pc \in {"stopped", "idle"} => Task = None
           /\ pc \in {"waiting", "committed", "over"} => Task = TaskIn(pc)
           /\ pc \in Inside \cup {"open"} => Task = TaskIn("running")
           /\ pc \notin {"stopped", "idle"} => Task # None /\ Task.request = Request
BY QueueAssumption DEF Task, TaskIn, Inside, Ahead, TypeOK

\* A task advances by its state alone.
LEMMA TaskAdvances ==
    ASSUME NEW s, NEW t, Task = TaskIn(s), Task' = TaskIn(t)
    PROVE  Queue!Advance("run", t)
<1>1. TaskIn(t) = [TaskIn(s) EXCEPT !.state = t]
  BY DEF TaskIn
<1> QED
  BY <1>1 DEF Queue!Advance

\* Every step of a run is a step of the queue or none of its business.
LEMMA QueueStep ==
    ASSUME IInv, Next
    PROVE  Queue!Next \/ UNCHANGED Queue!vars
<1> USE QueueAssumption DEF TaskIn
<1>0. TypeOK /\ TypeOK' /\ PositionInv /\ JournalInv
  BY TypeStep DEF IInv
<1>t. /\ pc' \in {"stopped", "idle"} => Task' = None
      /\ pc' \in {"waiting", "committed", "over"} => Task' = TaskIn(pc')
      /\ pc' \in Inside \cup {"open"} => Task' = TaskIn("running")
  BY <1>0 DEF Task, Inside, Ahead
<1>1. ASSUME UNCHANGED <<answer, failure, stops>>,
             pc \in Inside \cup {"open"}, pc' \in Inside \cup {"open"}
      PROVE  UNCHANGED Queue!vars
  <2>1. Task' = Task /\ (pc' = "stopped") = (pc = "stopped")
    BY <1>0, <1>t, <1>1, TaskOfPlace DEF Inside, Ahead
  <2> QED
    BY <1>1, <2>1, QueueStutter
<1>2. ASSUME NEW reason \in {"fault", "replaced"}, Raise(reason), pc \in Inside \cup {"open"}
      PROVE  Queue!Next
  <2>1. answer = None /\ failure = None
    BY <1>0, <1>2 DEF PositionInv, Inside, Ahead, Ended
  <2>2. "run" \in Queue!Holding /\ Queue!Advance("run", "over")
    BY <1>0, <1>t, <1>2, TaskOfPlace, QueueTasks, TaskAdvances
    DEF Raise, Inside, Ahead, Queue!Holding
  <2>3. failure' # None /\ UNCHANGED answer /\ pc # "stopped" /\ pc' # "stopped" /\ UNCHANGED stops
    BY <1>2, ConstantsAssumption DEF Raise, Inside, Ahead
  <2>4. Queue!Raise("run")
    BY <2>1, <2>2, <2>3 DEF Queue!Raise, Queue!serviceVars, Queue!faultVars
  <2> QED
    BY <2>4 DEF Queue!Next, Queue!Execution
<1>3. CASE Enter
  <2>1. Queue!Holding = {} /\ Queue!Cardinality({}) = 0
    BY <1>0, <1>3, TaskOfPlace, QueueTasks, QueueCardinality DEF Enter, Queue!Holding
  <2>2. "run" \in Queue!InState("waiting") /\ Queue!Advance("run", "running")
    BY <1>0, <1>t, <1>3, TaskOfPlace, QueueTasks, TaskAdvances DEF Enter
  <2>3. Queue!Enter("run")
    BY <1>3, <2>1, <2>2 DEF Enter, Queue!Enter, Queue!receiptVars, Queue!serviceVars,
       Queue!faultVars, endVars
  <2> QED
    BY <2>3 DEF Queue!Next, Queue!Execution
<1>4. CASE Open \/ Checkpoint \/ Plan \/ Verify \/ Analyse \/ Present \/ Attest
           \/ SaveHandoff \/ \E x \in Reads : Read(x)
  BY <1>0, <1>1, <1>4 DEF Open, Checkpoint, Plan, Verify, Analyse, Present, Attest, SaveHandoff,
     Read, Working, Advance, Inside, Ahead, endVars, memory
<1>5. CASE Dispatch \/ Respond \/ Collect \/ SaveEvidence \/ Fails
  <2>1. CASE \E reason \in {"fault", "replaced"} : Raise(reason)
    BY <1>0, <1>2, <1>5, <2>1 DEF Dispatch, Respond, Collect, SaveEvidence, Fails, Working, Inside,
       Ahead, TypeOK
  <2>2. CASE ~\E reason \in {"fault", "replaced"} : Raise(reason)
    BY <1>1, <1>5, <2>2 DEF Dispatch, Respond, Collect, SaveEvidence, Fails, Working, Advance,
       Inside, Ahead, endVars, memory
  <2> QED
    BY <2>1, <2>2
<1>6. CASE SaveAnswer
  <2>1. answer = None /\ failure = None /\ answer' # None
    BY <1>0, <1>6 DEF SaveAnswer, PositionInv, Ended, Inside, Ahead, JournalInv
  <2>2. Task = TaskIn("running") /\ Task' = TaskIn("committed") /\ Task.request = Request
    BY <1>0, <1>t, <1>6, TaskOfPlace DEF SaveAnswer, Inside
  <2>4. ~Queue!Refused("run")
    BY <2>1, <2>2 DEF Queue!Refused, Request
  <2>5. "run" \in Queue!InState("running") /\ Queue!Advance("run", "committed")
    BY <2>2, QueueTasks, TaskAdvances
  <2>3. Queue!Commit("run")
    BY <1>6, <2>1, <2>2, <2>4, <2>5
    DEF SaveAnswer, Queue!Commit, Queue!serviceVars, Queue!faultVars, Request
  <2> QED
    BY <2>3 DEF Queue!Next, Queue!Execution
<1>7. CASE Return
  <2>1. Queue!Return("run")
    BY <1>0, <1>t, <1>7, TaskOfPlace, QueueTasks
    DEF Return, Queue!Return, Queue!Advance, Queue!receiptVars, Queue!serviceVars,
        Queue!faultVars, endVars
  <2> QED
    BY <2>1 DEF Queue!Next, Queue!Execution
<1>8. CASE Finished
  <2>1. Queue!Finished("run")
    BY <1>0, <1>t, <1>8, TaskOfPlace, QueueTasks
    DEF Finished, Queue!Finished, Queue!receiptVars, Queue!serviceVars, Queue!faultVars, endVars
  <2> QED
    BY <2>1 DEF Queue!Next, Queue!Execution
<1>9. CASE Stop
  <2>1. Queue!Stop
    BY <1>0, <1>t, <1>9 DEF Stop, Queue!Stop, Queue!receiptVars, Queue!faultVars, endVars
  <2> QED
    BY <2>1 DEF Queue!Next, Queue!Lifespan
<1>10. CASE Restart
  <2>1. Queue!Unsettled = IF answer = None /\ failure = None THEN {"run"} ELSE {}
    BY DEF Queue!Unsettled, Queue!Settled
  <2>2. Queue!Cardinality(Queue!Unsettled) <= 1
    BY <2>1, QueueCardinality
  <2>3. Queue!Reschedule(Queue!Unsettled)
    BY <1>0, <1>t, <1>10, <2>1 DEF Restart, Queue!Reschedule, Queue!NewTask
  <2>4. Queue!Restart(Source)
    BY <1>0, <1>10, <2>2, <2>3 DEF Restart, Queue!Restart, Queue!receiptVars, endVars
  <2> QED
    BY <2>4 DEF Queue!Next, Queue!Lifespan
<1> QED
  BY <1>3, <1>4, <1>5, <1>6, <1>7, <1>8, <1>9, <1>10 DEF Next, Execution, Handoff

\* A run does to its task and its receipts only what SupervisorQueue lets a run do.
THEOREM RunExecutesItsTask == Spec => ExecutesItsTask
<1>1. ASSUME IInv, [Next]_vars
      PROVE  [Queue!Next]_Queue!vars
  <2>1. CASE Next
    BY <1>1, <2>1, QueueStep
  <2>2. CASE UNCHANGED vars
    BY <2>2, QueueStutter DEF vars, endVars, Task
  <2> QED
    BY <1>1, <2>1, <2>2
<1> QED
  BY <1>1, AlwaysIInv, PTL DEF Spec, ExecutesItsTask

=============================================================================
