---------------------------- MODULE MCMessageLog ----------------------------
(* A small instance of MessageLog for TLC.                                 *)
EXTENDS MessageLog, TLC

SameClients == Permutations(Clients)

SomebodyPolls ==
    pointers # NoPointers \/ \E u \in Clients : local[u] # NoPointers

SomethingToFind ==
    \E k \in DOMAIN log : \E m \in Range(log[k]) : m.hit

(* Polling, catching up and searching do not change what another of them   *)
(* sees, so a behaviour explores one of them, each with as many messages   *)
(* as it takes to forget some that it is about; lists of four are read in  *)
(* pages of one or two.  A message that is sent is on its way beside the   *)
(* polls, where the network may be deleted and created again meanwhile.    *)
OneConcern ==
    /\ sending # <<>> => reader = NobodyReads /\ counter < MaxId - 2
    /\ reader # NobodyReads => reader.limit <= 2
    /\ SomebodyPolls => reader = NobodyReads /\ counter < MaxId - 1
    /\ SomethingToFind =>
          ~SomebodyPolls /\ reader = NobodyReads /\ counter < MaxId

MCSpec == Init /\ [][Next /\ OneConcern']_vars
=============================================================================
