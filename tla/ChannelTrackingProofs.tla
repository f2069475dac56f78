----------------------- MODULE ChannelTrackingProofs -----------------------
(***************************************************************************)
(* The stored row of a network names only channels that the network holds  *)
(* as joined, for any channels, nicks and requests.                        *)
(***************************************************************************)
EXTENDS ChannelTracking, TLAPS

(* Every known channel is a record of a joined flag and members, so that   *)
(* a change of its members leaves the flag as it is.                       *)
ChannelRecords ==
    \A c \in DOMAIN channels :
        channels[c] = [joined |-> channels[c].joined,
                       members |-> channels[c].members]

SavedInv == ChannelRecords /\ SavedIsJoined

-----------------------------------------------------------------------------
(* The ways in which a step changes the channels and the row.              *)

LEMMA NothingChanges == SavedInv /\ UNCHANGED <<channels, saved>> => SavedInv'
  BY DEF SavedInv, ChannelRecords, SavedIsJoined, Joined

(* No flag is taken back, and the row stays.                               *)
LEMMA FlagsStay ==
    ASSUME SavedInv, UNCHANGED saved, ChannelRecords',
           \A c \in DOMAIN channels : /\ c \in DOMAIN channels'
                                      /\ channels[c].joined =>
                                             channels'[c].joined
    PROVE  SavedInv'
  BY DEF SavedInv, SavedIsJoined, Joined

(* The row is made of the new channels.                                    *)
LEMMA RowFollows ==
    ASSUME saved' = Persisted(channels'), ChannelRecords'
    PROVE  SavedInv'
  BY DEF SavedInv, SavedIsJoined, Joined, Persisted

(* Only the members of channels change.                                    *)
LEMMA MembersChange ==
    ASSUME SavedInv, UNCHANGED saved, NEW M,
           channels' = [c \in DOMAIN channels |->
                           [channels[c] EXCEPT !.members = M[c]]]
    PROVE  SavedInv'
  <1>1. \A c \in DOMAIN channels :
           channels'[c] = [joined |-> channels[c].joined, members |-> M[c]]
    BY DEF SavedInv, ChannelRecords
  <1>2. ChannelRecords'
    BY <1>1 DEF ChannelRecords
  <1>3. QED
    BY <1>1, <1>2, FlagsStay

LEMMA ReplaceMembers ==
    ASSUME NEW r, NEW m, r = [joined |-> r.joined, members |-> r.members]
    PROVE  [r EXCEPT !.members = m] = [joined |-> r.joined, members |-> m]
  OBVIOUS

(* One channel is added or replaced.                                       *)
LEMMA WithChannelRecords ==
    ASSUME ChannelRecords, NEW c, NEW j, NEW m,
           channels' = WithChannel(c, [joined |-> j, members |-> m])
    PROVE  /\ ChannelRecords'
           /\ DOMAIN channels' = DOMAIN channels \cup {c}
           /\ channels'[c].joined = j
           /\ \A d \in DOMAIN channels \ {c} : channels'[d] = channels[d]
  BY DEF ChannelRecords, WithChannel

LEMMA KnownOrNewRecord ==
    ASSUME ChannelRecords, NEW c
    PROVE  /\ KnownOrNew(c) = [joined |-> KnownOrNew(c).joined,
                               members |-> KnownOrNew(c).members]
           /\ c \in DOMAIN channels =>
                 KnownOrNew(c).joined = channels[c].joined
  BY DEF ChannelRecords, KnownOrNew, NewChannel

-----------------------------------------------------------------------------
LEMMA SavedInit == Init => SavedInv
  BY DEF Init, SavedInv, ChannelRecords, SavedIsJoined

LEMMA JoinStep == ASSUME SavedInv, OnJoin PROVE SavedInv'
  <1> DEFINE n == Head(wire).nick
             c == Head(wire).chan
             old == KnownOrNew(c)
  <1>1. channels' = WithChannel(c, [joined |-> old.joined \/ n = nick,
                                    members |-> old.members \cup {n}])
    BY DEF OnJoin
  <1>2. ChannelRecords
    BY DEF SavedInv
  <1>3. /\ ChannelRecords'
        /\ DOMAIN channels' = DOMAIN channels \cup {c}
        /\ channels'[c].joined = (old.joined \/ n = nick)
        /\ \A d \in DOMAIN channels \ {c} : channels'[d] = channels[d]
    BY <1>1, <1>2, WithChannelRecords
  <1>4. CASE n = nick
    BY <1>3, <1>4, RowFollows DEF OnJoin
  <1>5. CASE n # nick
    <2>1. UNCHANGED saved
      BY <1>5 DEF OnJoin
    <2>2. c \in DOMAIN channels => old.joined = channels[c].joined
      BY <1>2, KnownOrNewRecord
    <2>3. QED
      BY <1>3, <2>1, <2>2, FlagsStay
  <1>6. QED
    BY <1>4, <1>5

LEMMA PartStep == ASSUME SavedInv, OnPart PROVE SavedInv'
  <1> DEFINE n == Head(wire).nick
             c == Head(wire).chan
  <1>1. CASE c \notin DOMAIN channels
    BY <1>1, NothingChanges DEF OnPart
  <1>2. CASE c \in DOMAIN channels /\ n = nick
    <2>1. /\ channels' = WithChannel(c, [joined |-> FALSE, members |-> {}])
          /\ saved' = Persisted(channels')
      BY <1>2 DEF OnPart
    <2>2. ChannelRecords'
      BY <2>1, WithChannelRecords DEF SavedInv
    <2>3. QED
      BY <2>1, <2>2, RowFollows
  <1>3. CASE c \in DOMAIN channels /\ n # nick
    <2> DEFINE m == channels[c].members \ {n}
    <2>1. /\ channels' = WithChannel(c, [channels[c] EXCEPT !.members = m])
          /\ UNCHANGED saved
      BY <1>3 DEF OnPart
    <2>2. channels[c] = [joined |-> channels[c].joined,
                         members |-> channels[c].members]
      BY <1>3 DEF SavedInv, ChannelRecords
    <2>3. channels' = WithChannel(c, [joined |-> channels[c].joined,
                                      members |-> m])
      BY <2>1, <2>2, ReplaceMembers
    <2>4. /\ ChannelRecords'
          /\ DOMAIN channels' = DOMAIN channels \cup {c}
          /\ channels'[c].joined = channels[c].joined
          /\ \A d \in DOMAIN channels \ {c} : channels'[d] = channels[d]
      BY <2>3, WithChannelRecords DEF SavedInv
    <2>5. QED
      BY <1>3, <2>1, <2>4, FlagsStay
  <1>4. QED
    BY <1>1, <1>2, <1>3

LEMMA KickStep == ASSUME SavedInv, OnKick PROVE SavedInv'
  <1> DEFINE n == Head(wire).nick
             c == Head(wire).chan
  <1>1. CASE c \notin DOMAIN channels
    BY <1>1, NothingChanges DEF OnKick
  <1>2. CASE c \in DOMAIN channels /\ n = nick
    <2>1. /\ channels' = [d \in DOMAIN channels \ {c} |-> channels[d]]
          /\ saved' = Persisted(channels')
      BY <1>2 DEF OnKick
    <2>2. ChannelRecords'
      BY <2>1 DEF SavedInv, ChannelRecords
    <2>3. QED
      BY <2>1, <2>2, RowFollows
  <1>3. CASE c \in DOMAIN channels /\ n # nick
    <2> DEFINE m == channels[c].members \ {n}
    <2>1. /\ channels' = WithChannel(c, [channels[c] EXCEPT !.members = m])
          /\ UNCHANGED saved
      BY <1>3 DEF OnKick
    <2>2. channels[c] = [joined |-> channels[c].joined,
                         members |-> channels[c].members]
      BY <1>3 DEF SavedInv, ChannelRecords
    <2>3. channels' = WithChannel(c, [joined |-> channels[c].joined,
                                      members |-> m])
      BY <2>1, <2>2, ReplaceMembers
    <2>4. /\ ChannelRecords'
          /\ DOMAIN channels' = DOMAIN channels \cup {c}
          /\ channels'[c].joined = channels[c].joined
          /\ \A d \in DOMAIN channels \ {c} : channels'[d] = channels[d]
      BY <2>3, WithChannelRecords DEF SavedInv
    <2>5. QED
      BY <1>3, <2>1, <2>4, FlagsStay
  <1>4. QED
    BY <1>1, <1>2, <1>3

LEMMA NamesStep == ASSUME SavedInv, OnNames PROVE SavedInv'
  <1> DEFINE c == Head(wire).chan
             old == KnownOrNew(c)
             m == old.members \cup Head(wire).names
  <1>1. /\ channels' = WithChannel(c, [old EXCEPT !.members = m])
        /\ UNCHANGED saved
    BY DEF OnNames
  <1>2. /\ ChannelRecords
        /\ old = [joined |-> old.joined, members |-> old.members]
        /\ c \in DOMAIN channels => old.joined = channels[c].joined
    BY KnownOrNewRecord DEF SavedInv
  <1>3. channels' = WithChannel(c, [joined |-> old.joined, members |-> m])
    BY <1>1, <1>2, ReplaceMembers
  <1>4. /\ ChannelRecords'
        /\ DOMAIN channels' = DOMAIN channels \cup {c}
        /\ channels'[c].joined = old.joined
        /\ \A d \in DOMAIN channels \ {c} : channels'[d] = channels[d]
    BY <1>2, <1>3, WithChannelRecords
  <1>5. QED
    BY <1>1, <1>2, <1>4, FlagsStay

LEMMA SavedStep == SavedInv /\ [Next]_vars => SavedInv'
  <1> SUFFICES ASSUME SavedInv, [Next]_vars
               PROVE  SavedInv'
    OBVIOUS
  <1>1. ChannelRecords /\ SavedIsJoined
    BY DEF SavedInv
  <1>2. ASSUME Drop
        PROVE  SavedInv'
    <2> DEFINE M == [c \in DOMAIN channels |-> {}]
    <2>1. /\ channels' = [c \in DOMAIN channels |->
                             [channels[c] EXCEPT !.members = M[c]]]
          /\ UNCHANGED saved
      BY <1>2 DEF Drop, MembersCleared
    <2> HIDE DEF M
    <2>2. QED
      BY <2>1, MembersChange
  <1>3. ASSUME SaveNetwork
        PROVE  SavedInv'
    BY <1>1, <1>3, RowFollows DEF SaveNetwork, ChannelRecords
  <1>4. ASSUME Restart
        PROVE  SavedInv'
    BY <1>4 DEF Restart, SavedInv, ChannelRecords, SavedIsJoined, Joined,
                NewChannel
  <1>5. ASSUME NEW c \in Channels, SendChannelMessage(c)
        PROVE  SavedInv'
    BY <1>1, <1>5, FlagsStay, WithChannelRecords
       DEF SendChannelMessage, NewChannel
  <1>6. ASSUME OnQuit
        PROVE  SavedInv'
    <2> DEFINE M == [c \in DOMAIN channels |->
                        channels[c].members \ {Head(wire).nick}]
    <2>1. /\ channels' = [c \in DOMAIN channels |->
                             [channels[c] EXCEPT !.members = M[c]]]
          /\ UNCHANGED saved
      BY <1>6 DEF OnQuit
    <2> HIDE DEF M
    <2>2. QED
      BY <2>1, MembersChange
  <1>7. ASSUME OnNick
        PROVE  SavedInv'
    <2> DEFINE M == [c \in DOMAIN channels |->
                        Renamed(channels[c].members, Head(wire).nick,
                                Head(wire).new)]
    <2>1. /\ channels' = [c \in DOMAIN channels |->
                             [channels[c] EXCEPT !.members = M[c]]]
          /\ UNCHANGED saved
      BY <1>7 DEF OnNick
    <2> HIDE DEF M
    <2>2. QED
      BY <2>1, MembersChange
  <1>8. ASSUME UNCHANGED <<channels, saved>>
        PROVE  SavedInv'
    BY <1>8, NothingChanges
  <1>9. QED
    BY <1>2, <1>3, <1>4, <1>5, <1>6, <1>7, <1>8,
       JoinStep, PartStep, KickStep, NamesStep
       DEF Next, Request, Event, Server, User, vars, proxyVars, serverVars,
           Connect, JoinChannel, JoinTimesOut, PartChannel, ChangeNick,
           OnWelcome, OnNickInUse, OnJoinError, ServerTakesNick,
           ServerTakesJoin, ServerRefusesJoin, ServerTakesPart, UserArrives,
           UserJoins, UserParts, Kick, UserQuits, UserRenames

(* At whatever moment the process dies, the row restores no channel that   *)
(* was parted or that we were kicked from.                                 *)
THEOREM SavedCorrect == Spec => []SavedIsJoined
  <1>1. SavedInv => SavedIsJoined
    BY DEF SavedInv
  <1>2. QED
    BY <1>1, SavedInit, SavedStep, PTL DEF Spec
=============================================================================
