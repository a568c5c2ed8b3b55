---------------------------- MODULE WorkOrderCard ----------------------------
(***************************************************************************)
(* What one work-order approval card promises: a single irrevocable        *)
(* decision, at most one SQL work order, which has the approved fields,    *)
(* and one receipt, which certifies a creation only after it happened.     *)
(***************************************************************************)
CONSTANTS Edits, Reject, None

VARIABLES verdict, order, receipt
vars == <<verdict, order, receipt>>

Init == verdict = None /\ order = None /\ receipt = None

Judge ==
    /\ verdict = None
    /\ verdict' \in Edits \cup {Reject}
    /\ UNCHANGED <<order, receipt>>

Perform ==
    /\ verdict \in Edits
    /\ order = None
    /\ order' = verdict
    /\ UNCHANGED <<verdict, receipt>>

\* A blocked receipt only says that this card certifies no creation.
Certify ==
    /\ receipt = None
    /\ \/ verdict = Reject /\ receipt' = "rejected"
       \/ verdict \in Edits /\ order = verdict /\ receipt' = "created"
       \/ verdict \in Edits /\ receipt' = "blocked"
    /\ UNCHANGED <<verdict, order>>

Next == Judge \/ Perform \/ Certify

Spec == Init /\ [][Next]_vars
==============================================================================
