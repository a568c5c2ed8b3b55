----------------------------- MODULE MCSetupJob -----------------------------
(* Instances of SetupJob for TLC, made by the .cfg files.                    *)
EXTENDS SetupJob
=============================================================================
