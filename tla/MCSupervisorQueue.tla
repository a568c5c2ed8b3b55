-------------------------- MODULE MCSupervisorQueue --------------------------
(***************************************************************************)
(* The instance of SupervisorQueue that TLC checks: a queue one shorter    *)
(* than the number of keys, so that it fills up and one lost failure       *)
(* receipt overfills the next start.                                       *)
(***************************************************************************)
EXTENDS SupervisorQueue

CONSTANTS r1, r2, r3, b1, b2, s1, s2

=============================================================================
