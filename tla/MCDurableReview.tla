--------------------------- MODULE MCDurableReview ---------------------------
(* Instances of DurableReview for TLC: the model values its .cfg files name. *)
EXTENDS DurableReview

CONSTANTS r1, r2, b1, b2, s1, s2, d1, d2
=============================================================================
