------------------------ MODULE MCHostedConversation ------------------------
(***************************************************************************)
(* The instances of HostedConversation that TLC checks: two questions, the *)
(* second a follow-up of the first or asked after the account changed.     *)
(***************************************************************************)
EXTENDS HostedConversation

CONSTANTS q1, q2

=============================================================================
