------------------------- MODULE MCDatabaseMonitor -------------------------
(* A small instance of DatabaseMonitor for TLC.                            *)
EXTENDS DatabaseMonitor

CONSTANTS n, c

MCFilters == {[networks |-> {}, channels |-> {}],
              [networks |-> {n}, channels |-> {c}]}

(* The network is created and deleted in behaviours without streams, what  *)
(* is cut short beside streams comes in the shorter behaviours, and        *)
(* messages without a channel come where there is a filter.                *)
OneConcern ==
    /\ have # {} \/ since # [m \in Networks |-> 0] \/ subscribers # {} =>
           /\ networks = <<n>> /\ rows = {n} /\ leftover = {}
           /\ cut # {} => now < MaxTime
    /\ \A f \in StoredFacts :
          f.kind = "message" /\ f.channel = None => filter.channels # {}

MCSpec == Init /\ [][Next /\ OneConcern']_vars /\ Fairness
=============================================================================
