----------------------------- MODULE MCMqttLink -----------------------------
(* Instances of MqttLink for TLC.                                          *)
EXTENDS MqttLink, TLC

CONSTANTS c1, c2

OneClient  == {c1}
TwoClients == {c1, c2}

AnyClient == Permutations(TwoClients)
=============================================================================
