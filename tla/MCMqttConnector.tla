-------------------------- MODULE MCMqttConnector --------------------------
(* Instances of MqttConnector for TLC. *)
EXTENDS MqttConnector, TLC

Symmetry == Permutations(Threads) \union Permutations(Topics)
              \union Permutations(Clients)
=============================================================================
