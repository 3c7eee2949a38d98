---------------------------- MODULE MCProvisioning ----------------------------
(* Instances of Provisioning for TLC; the cfg files choose the bounds. *)
EXTENDS Provisioning
=============================================================================
