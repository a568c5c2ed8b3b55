---------------------------- MODULE MCSupervisorRun ----------------------------
(***************************************************************************)
(* The instances of SupervisorRun that TLC checks: every plan of three     *)
(* steps with two roles (so that one may be delegated to twice) and two    *)
(* reads to a reader step.                                                 *)
(***************************************************************************)
EXTENDS SupervisorRun

CONSTANTS qa, rca, x1, x2

=============================================================================
