------------------------ MODULE MCWorkOrderDecision ------------------------
(* Instances of WorkOrderDecision for TLC: the model values its .cfg files  *)
(* name.                                                                    *)
EXTENDS WorkOrderDecision

CONSTANTS c1, c2, c3, e1, e2
=============================================================================
