---------------------------- MODULE MCMqttBridge ----------------------------
(***************************************************************************)
(* Small instances of MqttBridge.                                          *)
(***************************************************************************)
EXTENDS MqttBridge
=============================================================================
