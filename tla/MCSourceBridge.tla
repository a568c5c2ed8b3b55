---------------------------- MODULE MCSourceBridge ----------------------------
(* Instances of SourceBridge for TLC: the model values its .cfg files name.  *)
EXTENDS SourceBridge

CONSTANTS c1, c2
=============================================================================
