------------------------------- MODULE MCMqtt -------------------------------
(* The instance of Mqtt the runs check.                                    *)
EXTENDS Mqtt
=============================================================================
