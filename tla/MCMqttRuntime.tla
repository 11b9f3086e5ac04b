---------------------------- MODULE MCMqttRuntime ----------------------------
(* MqttRuntime for TLC.                                                    *)
EXTENDS MqttRuntime

CONSTANTS e1, e2

MCTimes == 1 .. 2
MCEvents == {e1, e2}
=============================================================================
