------------------------- MODULE MCChannelTracking -------------------------
(* Small instances of ChannelTracking for TLC.                             *)
EXTENDS ChannelTracking, TLC

CONSTANTS alice, alice_, bob

Twins == Permutations(Channels) \cup Permutations(Requests)

NextNick == [n \in Nicks |-> IF n = alice THEN alice_ ELSE n]

(* The server never holds our nick for somebody else when we register.     *)
NoGhost == AllInputs \ {"ghost"}

OnlyJoins == {"join", "ghost", "drop"}

(* Two requests that wait together wait for the same channel, where they   *)
(* meet, and have the IRC network to themselves: joins of other users do   *)
(* not answer a request.                                                   *)
WaitingTogether ==
    \A r, s \in Requests :
        r # s /\ req[r] # None /\ req[s] # None =>
            req[r] = req[s] /\ users = {}

MCSpec == Init /\ [][Next /\ WaitingTogether']_vars

NoGhostNoSend == AllInputs \ {"ghost", "send"}
=============================================================================
