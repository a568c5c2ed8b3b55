-------------------------- MODULE MCDelegatedStream --------------------------
(* Instances of DelegatedStream for TLC: the model values its .cfg files     *)
(* name.                                                                     *)
EXTENDS DelegatedStream

CONSTANTS r1, r2
==============================================================================
