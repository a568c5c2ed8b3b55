------------------------------ MODULE HostedRun ------------------------------
(***************************************************************************)
(* What one hosted run promises to whoever asked for it: write-once        *)
(* receipts, at most one terminal word, and that word taken from them.     *)
(***************************************************************************)
CONSTANT None

VARIABLES answer, failure, told
vars == <<answer, failure, told>>

Init == answer = FALSE /\ failure = None /\ told = None

Answer ==
    /\ ~answer /\ failure = None /\ told = None
    /\ answer' = TRUE
    /\ UNCHANGED <<failure, told>>

\* The caller is told as the failure is saved, or asks for it later. A run
\* that is declared interrupted is never answered.
Fail ==
    /\ ~answer /\ failure = None /\ told = None
    /\ failure' \in {"execution", "interrupted"}
    /\ told' \in {None, "error"}
    /\ UNCHANGED answer

\* A run that raises after it has committed its answer: the failure receipt
\* is saved beside it and hides it from the next reader.
Retract ==
    /\ answer /\ failure = None
    /\ failure' = "execution"
    /\ \/ told = None /\ told' \in {None, "error"}
       \/ told = "answer" /\ UNCHANGED told
    /\ UNCHANGED answer

Tell ==
    /\ told = None
    /\ \/ failure = None /\ answer /\ told' = "answer"
       \/ failure = None /\ told' = "unsaved"   \* no receipt could be written
       \/ failure # None /\ told' = "error"
    /\ UNCHANGED <<answer, failure>>

Next == Answer \/ Fail \/ Retract \/ Tell

Spec == Init /\ [][Next]_vars
==============================================================================
