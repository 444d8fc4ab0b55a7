-------------------------- MODULE MCRabbitConfirm --------------------------
(***************************************************************************)
(* Instances of RabbitConfirm for TLC.  EmitLogTopic publishes ten         *)
(* messages; with four a single and a multiple confirm can overtake and    *)
(* cover each other, and two outages can leave numbers of three channels.  *)
(***************************************************************************)
EXTENDS RabbitConfirm

=============================================================================
