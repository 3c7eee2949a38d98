---------------------------- MODULE MCMqttSession -----------------------------
(* Instances of MqttSession for TLC; the cfg files choose the retry limit. *)
EXTENDS MqttSession
=============================================================================
