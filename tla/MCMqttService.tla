----------------------------- MODULE MCMqttService ------------------------------
(* MqttService with one loop thread, two clients and two peers. *)
EXTENDS MqttService
=============================================================================
