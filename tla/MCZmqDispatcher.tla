-------------------------- MODULE MCZmqDispatcher --------------------------
(* Instances of ZmqDispatcher for TLC. *)
EXTENDS ZmqDispatcher, TLC

Symmetry == Permutations(Threads) \union Permutations(Workers)
              \union Permutations(Sockets)
=============================================================================
