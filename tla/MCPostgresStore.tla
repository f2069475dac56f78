-------------------------- MODULE MCPostgresStore --------------------------
(* A small instance of PostgresStore for TLC.                              *)
EXTENDS PostgresStore, TLC

Twins == Permutations(Channels) \cup Permutations(Values)
            \cup Permutations(Passphrases)
=============================================================================
