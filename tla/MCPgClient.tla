----------------------------- MODULE MCPgClient -----------------------------
(* Instances of PgClient for TLC. *)
EXTENDS PgClient, TLC

Symmetry == Permutations(Threads) \union Permutations(Pools)
              \union Permutations(Conns)
=============================================================================
