------------------------- MODULE MCNetworkLifecycle -------------------------
(* Small instances of NetworkLifecycle for TLC.                            *)
EXTENDS NetworkLifecycle, TLC

Anything == AllInputs

(* The storage never fails: the memory backend, or a database that is up.  *)
NoOutage == AllInputs \ {"outage"}

(* Networks that only the start of the process and its reconnect loops     *)
(* connect, and that a PATCH changes only together with the connection.    *)
NoManualConnect == AllInputs \ {"connect", "patch"}

Identities == Permutations(NetObjs) \cup Permutations(Clients)
                  \cup Permutations(Requests)
=============================================================================
