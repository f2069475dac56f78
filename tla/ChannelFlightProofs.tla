------------------------ MODULE ChannelFlightProofs ------------------------
(***************************************************************************)
(* What the proxy knows of its channels and of its nick is what the server *)
(* has, for any finite set of channels, any nicks and requests and any     *)
(* number of messages under way.  The argument follows the messages that   *)
(* are in flight: when all of them are handled, the proxy is up to date.   *)
(***************************************************************************)
EXTENDS ChannelTrackingProofs, FiniteSetTheorems, SequenceTheorems

-----------------------------------------------------------------------------
(* What messages and commands carry.                                       *)

LEMMA MessageIs ==
    ASSUME NEW m \in Messages
    PROVE  /\ m.cmd \in {"JOIN", "PART", "KICK"} =>
                 m.nick \in Nicks /\ m.chan \in Channels
           /\ m.cmd \in {"QUIT", "001"} => m.nick \in Nicks
           /\ m.cmd = "NICK" => m.nick \in Nicks /\ m.new \in Nicks
           /\ m.cmd = "353" => m.chan \in Channels /\ m.names \subseteq Nicks
           /\ m.cmd = "473" => m.chan \in Channels
BY DEF Messages

LEMMA CommandIs ==
    ASSUME NEW m \in Commands
    PROVE  /\ m.cmd \in {"JOIN", "PART"} => m.chan \in Channels
           /\ m.cmd = "NICK" => m.nick \in Nicks
           /\ m.cmd \in {"JOIN", "PART", "NICK"}
BY DEF Commands

LEMMA NoneIs ==
    /\ None \notin Nicks /\ None \notin Channels /\ None \notin Requests
    /\ MyNick \in Nicks
    /\ \A n \in Nicks : Underscored[n] \in Nicks
BY ChannelAssumption

-----------------------------------------------------------------------------
(* Types.                                                                  *)

(* A server that does not know us has welcomed nobody and is asked for     *)
(* nothing but a nick.                                                     *)
LinkInv ==
    /\ link = "down" => me = None
    /\ me = None => /\ link # "up"
                    /\ \A i \in DOMAIN wire : wire[i].cmd # "001"
                    /\ \A i \in DOMAIN out : out[i].cmd = "NICK"

ChannelsOK ==
    /\ DOMAIN channels \subseteq Channels
    /\ \A c \in DOMAIN channels :
          channels[c] \in [joined : BOOLEAN, members : SUBSET Nicks]

LinkOK ==
    /\ link \in {"down", "registering", "up"}
    /\ wire \in Seq(Messages)
    /\ out \in Seq(Commands)

ServerOK ==
    /\ me \in Nicks \cup {None}
    /\ users \subseteq Nicks /\ me \notin users
    /\ inside \in [Channels -> SUBSET Nicks]

ProxyOK ==
    /\ nick \in Nicks /\ client_nick \in Nicks
    /\ saved \in [nick : Nicks, channels : SUBSET Channels]
    /\ waiters \in [Channels -> Requests \cup {None}]
    /\ req \in [Requests -> Channels \cup {None}]

TypeInv == ProxyOK /\ ChannelsOK /\ LinkOK /\ ServerOK /\ LinkInv

(* A request that waits has the future of its channel, or was overtaken.   *)
WaitingOK ==
    /\ overtaken \subseteq Requests
    /\ \A r \in Requests \ overtaken :
          req[r] # None => waiters[req[r]] = r

LEMMA TypeInvIs == TypeInv /\ WaitingOK => TypeOK
BY DEF TypeInv, TypeOK, ProxyOK, ChannelsOK, LinkOK, ServerOK, WaitingOK

LEMMA TypeInit == Init => TypeInv
BY NoneIs DEF Init, TypeInv, ProxyOK, ChannelsOK, LinkOK, ServerOK, LinkInv

(* A row that is made of channels that have their type has its type.       *)
LEMMA PersistedIs ==
    ASSUME NEW chs, DOMAIN chs \subseteq Channels, nick \in Nicks
    PROVE  Persisted(chs) \in [nick : Nicks, channels : SUBSET Channels]
BY DEF Persisted

LEMMA WithChannelIs ==
    ASSUME ChannelsOK, NEW c \in Channels, NEW j \in BOOLEAN,
           NEW m \in SUBSET Nicks,
           channels' = WithChannel(c, [joined |-> j, members |-> m])
    PROVE  ChannelsOK'
BY DEF ChannelsOK, WithChannel

LEMMA KnownOrNewIs ==
    ASSUME ChannelsOK, NEW c
    PROVE  /\ KnownOrNew(c) \in [joined : BOOLEAN, members : SUBSET Nicks]
           /\ KnownOrNew(c).joined \in BOOLEAN
           /\ KnownOrNew(c).members \subseteq Nicks
BY DEF ChannelsOK, KnownOrNew, NewChannel

(* The head of the wire is a message, and what follows it was in the wire. *)
LEMMA ReceivesIs ==
    ASSUME LinkOK, NEW cmd, Receives(cmd)
    PROVE  /\ Head(wire) \in Messages /\ Head(wire).cmd = cmd
           /\ wire' \in Seq(Messages)
           /\ wire # <<>> /\ wire' = Tail(wire)
           /\ Head(wire) = wire[1] /\ 1 \in DOMAIN wire
           /\ \A i \in DOMAIN wire' :
                 wire'[i] = wire[i + 1] /\ i + 1 \in DOMAIN wire
BY DEF LinkOK, Receives

LEMMA TakesIs ==
    ASSUME LinkOK, NEW cmd, Takes(cmd)
    PROVE  /\ Head(out) \in Commands /\ Head(out).cmd = cmd
           /\ out' \in Seq(Commands)
           /\ Head(out) = out[1] /\ 1 \in DOMAIN out
           /\ \A i \in DOMAIN out' :
                 out'[i] = out[i + 1] /\ i + 1 \in DOMAIN out
BY DEF LinkOK, Takes

LEMMA ForgetsIs ==
    ASSUME ServerOK, ServerForgetsUs
    PROVE  ServerOK' /\ me' = None
<1>1. CASE "ghost" \in Inputs /\ me # None
  BY <1>1, NoneIs DEF ServerOK, ServerForgetsUs
<1>2. CASE ~("ghost" \in Inputs /\ me # None)
  BY <1>2, NoneIs DEF ServerOK, ServerForgetsUs
<1>3. QED
  BY <1>1, <1>2

(* A step of the server or of the users that has these effects.            *)
LEMMA ServerTypes ==
    ASSUME TypeInv, UNCHANGED <<proxyVars, link>>, ServerOK', LinkOK',
           me = None \/ me' # None, link # "down" \/ UNCHANGED me,
           me' = None => /\ \A i \in DOMAIN wire' : wire'[i].cmd # "001"
                         /\ \A i \in DOMAIN out' : out'[i].cmd = "NICK"
    PROVE  TypeInv'
<1>1. ProxyOK' /\ ChannelsOK'
  BY DEF TypeInv, ProxyOK, ChannelsOK, proxyVars
<1>2. LinkInv'
  BY DEF TypeInv, LinkInv, proxyVars
<1>3. QED
  BY <1>1, <1>2 DEF TypeInv

(* Something is told, or nothing.                                          *)
LEMMA ToldIs ==
    ASSUME LinkOK, UNCHANGED link, out' \in Seq(Commands),
           NEW messages \in Seq(Messages),
           Tells(messages) \/ UNCHANGED wire
    PROVE  LinkOK'
BY ConcatProperties DEF LinkOK, Tells

LEMMA ConnectTypes == ASSUME TypeInv, Connect PROVE TypeInv'
<1>1. /\ link = "down" /\ link' = "registering" /\ client_nick' = nick
      /\ out' = <<[cmd |-> "NICK", nick |-> nick]>> /\ wire' = <<>>
      /\ UNCHANGED <<nick, channels, saved, waiters, req, me, users, inside>>
  BY DEF Connect
<1>2. nick \in Nicks
  BY DEF TypeInv, ProxyOK
<1>3. [cmd |-> "NICK", nick |-> nick] \in Commands
  BY <1>2 DEF Commands
<1>4. LinkOK'
  BY <1>1, <1>3 DEF LinkOK
<1>5. ProxyOK' /\ ChannelsOK' /\ ServerOK'
  BY <1>1 DEF TypeInv, ProxyOK, ChannelsOK, ServerOK
<1>6. LinkInv'
  BY <1>1 DEF LinkInv
<1>7. QED
  BY <1>4, <1>5, <1>6 DEF TypeInv

LEMMA DropTypes == ASSUME TypeInv, Drop PROVE TypeInv'
<1>1. ServerOK' /\ me' = None
  BY ForgetsIs DEF TypeInv, Drop
<1>2. ChannelsOK'
  BY DEF TypeInv, Drop, MembersCleared, ChannelsOK
<1>3. LinkOK' /\ LinkInv'
  BY <1>1 DEF Drop, LinkOK, LinkInv
<1>4. ProxyOK'
  BY DEF TypeInv, Drop, ProxyOK
<1>5. QED
  BY <1>1, <1>2, <1>3, <1>4 DEF TypeInv

LEMMA RestartTypes == ASSUME TypeInv, Restart PROVE TypeInv'
<1>1. ServerOK' /\ me' = None
  BY ForgetsIs DEF TypeInv, Restart
<1>2. ChannelsOK' /\ ProxyOK'
  BY NoneIs DEF TypeInv, Restart, ChannelsOK, ProxyOK, NewChannel
<1>3. LinkOK' /\ LinkInv'
  BY <1>1 DEF Restart, LinkOK, LinkInv
<1>4. QED
  BY <1>1, <1>2, <1>3 DEF TypeInv

(* A handler of the network or a request that changes nothing of the       *)
(* server, and sends what it sends while the link is up.                   *)
LEMMA RequestTypes ==
    ASSUME TypeInv, ProxyOK', ChannelsOK',
           UNCHANGED <<link, wire, serverVars>>,
           \/ UNCHANGED out
           \/ link = "up" /\ \E command \in Commands : Sends(command)
    PROVE  TypeInv'
<1>1. LinkOK' /\ ServerOK'
  BY DEF TypeInv, LinkOK, ServerOK, serverVars, Sends
<1>2. LinkInv'
  BY DEF TypeInv, LinkInv, serverVars
<1>3. QED
  BY <1>1, <1>2 DEF TypeInv

LEMMA RequestStepTypes ==
    ASSUME TypeInv, SaveNetwork \/ Request
    PROVE  TypeInv'
<1>1. CASE SaveNetwork
  <2>1. saved' \in [nick : Nicks, channels : SUBSET Channels]
    BY <1>1, PersistedIs DEF SaveNetwork, TypeInv, ProxyOK, ChannelsOK
  <2>2. ProxyOK' /\ ChannelsOK'
    BY <1>1, <2>1 DEF SaveNetwork, TypeInv, ProxyOK, ChannelsOK
  <2>3. QED
    BY <1>1, <2>2, RequestTypes DEF SaveNetwork, serverVars
<1>2. ASSUME NEW r \in Requests, NEW c \in Channels, JoinChannel(r, c)
      PROVE  TypeInv'
  <2>1. ProxyOK' /\ ChannelsOK'
    BY <1>2 DEF JoinChannel, TypeInv, ProxyOK, ChannelsOK
  <2>2. [cmd |-> "JOIN", chan |-> c] \in Commands
    BY DEF Commands
  <2>3. QED
    BY <1>2, <2>1, <2>2, RequestTypes DEF JoinChannel, serverVars
<1>3. ASSUME NEW r \in Requests, JoinTimesOut(r)
      PROVE  TypeInv'
  <2>1. ProxyOK' /\ ChannelsOK'
    BY <1>3 DEF JoinTimesOut, TypeInv, ProxyOK, ChannelsOK
  <2>2. QED
    BY <1>3, <2>1, RequestTypes DEF JoinTimesOut, serverVars
<1>4. ASSUME NEW c \in Channels, PartChannel(c)
      PROVE  TypeInv'
  <2>1. ProxyOK' /\ ChannelsOK'
    BY <1>4 DEF PartChannel, TypeInv, ProxyOK, ChannelsOK, proxyVars
  <2>2. [cmd |-> "PART", chan |-> c] \in Commands
    BY DEF Commands
  <2>3. QED
    BY <1>4, <2>1, <2>2, RequestTypes DEF PartChannel, serverVars
<1>5. ASSUME NEW c \in Channels, SendChannelMessage(c)
      PROVE  TypeInv'
  <2>1. ProxyOK'
    BY <1>5 DEF SendChannelMessage, TypeInv, ProxyOK
  <2>2. ChannelsOK /\ {} \in SUBSET Nicks /\ TRUE \in BOOLEAN
    BY DEF TypeInv
  <2>3. channels' = WithChannel(c, [joined |-> TRUE, members |-> {}])
    BY <1>5 DEF SendChannelMessage, NewChannel
  <2>4. ChannelsOK'
    BY <2>2, <2>3, WithChannelIs
  <2>5. QED
    BY <1>5, <2>1, <2>4, RequestTypes DEF SendChannelMessage, serverVars
<1>6. ASSUME NEW n \in Nicks, ChangeNick(n)
      PROVE  TypeInv'
  <2>1. ProxyOK' /\ ChannelsOK'
    BY <1>6 DEF ChangeNick, TypeInv, ProxyOK, ChannelsOK, proxyVars
  <2>2. [cmd |-> "NICK", nick |-> n] \in Commands
    BY DEF Commands
  <2>3. QED
    BY <1>6, <2>1, <2>2, RequestTypes DEF ChangeNick, serverVars
<1>7. QED
  BY <1>1, <1>2, <1>3, <1>4, <1>5, <1>6 DEF Request

(* A message that is handled and that the server is not asked about.       *)
LEMMA EventTypes ==
    ASSUME TypeInv, NEW cmd, Receives(cmd), ProxyOK', ChannelsOK',
           UNCHANGED <<link, out, serverVars>>
    PROVE  TypeInv'
<1>1. /\ wire' \in Seq(Messages)
      /\ \A i \in DOMAIN wire' :
            wire'[i] = wire[i + 1] /\ i + 1 \in DOMAIN wire
  BY ReceivesIs DEF TypeInv
<1>2. LinkOK' /\ ServerOK'
  BY <1>1 DEF TypeInv, LinkOK, ServerOK, serverVars
<1>3. LinkInv'
  BY <1>1 DEF TypeInv, LinkInv, serverVars
<1>4. QED
  BY <1>2, <1>3 DEF TypeInv

LEMMA ArrayIsSeq ==
    ASSUME NEW S, NEW n \in Nat, NEW s \in [1..n -> S]
    PROVE  s \in Seq(S)
BY SeqDef

LEMMA WelcomeTypes ==
    ASSUME TypeInv, IsFiniteSet(Channels), OnWelcome
    PROVE  TypeInv'
<1>1. /\ Receives("001") /\ link' = "up" /\ client_nick' = Head(wire).nick
      /\ UNCHANGED <<nick, channels, saved, waiters, req, me, users, inside>>
  BY DEF OnWelcome, serverVars
<1>2. /\ wire' \in Seq(Messages)
      /\ \A i \in DOMAIN wire' :
            wire'[i] = wire[i + 1] /\ i + 1 \in DOMAIN wire
      /\ Head(wire) \in Messages /\ Head(wire).cmd = "001"
      /\ Head(wire) = wire[1] /\ 1 \in DOMAIN wire
  BY <1>1, ReceivesIs DEF TypeInv
<1>3. me # None
  BY <1>2 DEF TypeInv, LinkInv
<1>4. Head(wire).nick \in Nicks
  BY <1>2, MessageIs
<1>5. out' \in Seq(Commands)
  <2> DEFINE S == {c \in Channels : Joined(c)}
  <2>1. PICK order \in SetToSeqs(S) :
           out' = out \o [i \in DOMAIN order |->
                             [cmd |-> "JOIN", chan |-> order[i]]]
    BY DEF OnWelcome
  <2> DEFINE joins == [i \in DOMAIN order |->
                          [cmd |-> "JOIN", chan |-> order[i]]]
  <2>2. Cardinality(S) \in Nat
    BY FS_Subset, FS_CardinalityType
  <2>3. order \in [1..Cardinality(S) -> S]
    BY <2>1 DEF SetToSeqs
  <2>4. \A i \in 1..Cardinality(S) :
           [cmd |-> "JOIN", chan |-> order[i]] \in Commands
    BY <2>3 DEF Commands
  <2>5. joins \in [1..Cardinality(S) -> Commands]
    BY <2>3, <2>4
  <2> HIDE DEF joins
  <2>6. joins \in Seq(Commands)
    BY <2>2, <2>5, ArrayIsSeq
  <2>7. QED
    BY <2>1, <2>6, ConcatProperties DEF TypeInv, LinkOK, joins
<1>6. LinkOK' /\ ServerOK' /\ ChannelsOK' /\ ProxyOK'
  BY <1>1, <1>2, <1>4, <1>5
     DEF TypeInv, LinkOK, ServerOK, ChannelsOK, ProxyOK
<1>7. LinkInv'
  BY <1>1, <1>3 DEF LinkInv
<1>8. QED
  BY <1>6, <1>7 DEF TypeInv

LEMMA NickInUseTypes == ASSUME TypeInv, OnNickInUse PROVE TypeInv'
<1> DEFINE command == [cmd |-> "NICK", nick |-> client_nick']
<1>1. /\ Receives("433") /\ client_nick' = Underscored[client_nick]
      /\ out' = Append(out, command)
      /\ UNCHANGED <<nick, channels, saved, waiters, req, link, me, users,
                     inside>>
  BY DEF OnNickInUse, serverVars
<1>2. /\ wire' \in Seq(Messages)
      /\ \A i \in DOMAIN wire' :
            wire'[i] = wire[i + 1] /\ i + 1 \in DOMAIN wire
  BY <1>1, ReceivesIs DEF TypeInv
<1>3. client_nick' \in Nicks
  BY <1>1, NoneIs DEF TypeInv, ProxyOK
<1>4. command \in Commands /\ command.cmd = "NICK"
  BY <1>3 DEF Commands
<1> HIDE DEF command
<1>5. /\ out' \in Seq(Commands)
      /\ \A i \in DOMAIN out' :
            out'[i] = command \/ (i \in DOMAIN out /\ out'[i] = out[i])
  BY <1>1, <1>4 DEF TypeInv, LinkOK
<1>6. LinkOK' /\ ServerOK' /\ ChannelsOK' /\ ProxyOK'
  BY <1>1, <1>2, <1>3, <1>5
     DEF TypeInv, LinkOK, ServerOK, ChannelsOK, ProxyOK
<1>7. LinkInv'
  BY <1>1, <1>2, <1>4, <1>5 DEF TypeInv, LinkInv
<1>8. QED
  BY <1>6, <1>7 DEF TypeInv

(* Resolving a join leaves the tables of requests with their types.        *)
LEMMA ResolvedTypes ==
    ASSUME ProxyOK, NEW c, ResolveJoin(c)
    PROVE  /\ waiters' \in [Channels -> Requests \cup {None}]
           /\ req' \in [Requests -> Channels \cup {None}]
BY DEF ProxyOK, ResolveJoin

LEMMA JoinTypes == ASSUME TypeInv, OnJoin PROVE TypeInv'
<1> DEFINE n == Head(wire).nick
           c == Head(wire).chan
           old == KnownOrNew(c)
<1>1. /\ Receives("JOIN")
      /\ channels' = WithChannel(c, [joined |-> old.joined \/ n = nick,
                                     members |-> old.members \cup {n}])
      /\ IF n = nick
           THEN ResolveJoin(c) /\ saved' = Persisted(channels')
           ELSE UNCHANGED <<waiters, req, saved>>
      /\ UNCHANGED <<nick, client_nick, link, out, serverVars>>
  BY DEF OnJoin
<1>2. n \in Nicks /\ c \in Channels
  BY <1>1, ReceivesIs, MessageIs DEF TypeInv
<1>3. old.joined \in BOOLEAN /\ old.members \subseteq Nicks
  BY KnownOrNewIs DEF TypeInv
<1> DEFINE j == old.joined \/ n = nick
           m == old.members \cup {n}
<1>4. j \in BOOLEAN /\ m \in SUBSET Nicks
  BY <1>2, <1>3
<1>5. channels' = WithChannel(c, [joined |-> j, members |-> m])
  BY <1>1
<1>6. ProxyOK /\ ChannelsOK
  BY DEF TypeInv
<1> HIDE DEF j, m, c, old
<1>7. ChannelsOK'
  BY <1>2, <1>4, <1>5, <1>6, WithChannelIs
<1>8. saved' \in [nick : Nicks, channels : SUBSET Channels]
  <2>1. saved' = saved \/ saved' = Persisted(channels')
    BY <1>1
  <2>2. QED
    BY <1>6, <1>7, <2>1, PersistedIs DEF ProxyOK, ChannelsOK
<1>9. /\ waiters' \in [Channels -> Requests \cup {None}]
      /\ req' \in [Requests -> Channels \cup {None}]
  <2>1. CASE n = nick
    BY <1>1, <1>6, <2>1, ResolvedTypes
  <2>2. CASE n # nick
    BY <1>1, <1>6, <2>2 DEF ProxyOK
  <2>3. QED
    BY <2>1, <2>2
<1>10. ProxyOK'
  BY <1>1, <1>6, <1>8, <1>9 DEF ProxyOK
<1>11. QED
  BY <1>1, <1>7, <1>10, EventTypes

LEMMA PartTypes == ASSUME TypeInv, OnPart PROVE TypeInv'
<1> DEFINE n == Head(wire).nick
           c == Head(wire).chan
<1>1. /\ Receives("PART")
      /\ UNCHANGED <<nick, client_nick, waiters, req, link, out, serverVars>>
      /\ saved' = saved \/ saved' = Persisted(channels')
  BY DEF OnPart
<1>2. n \in Nicks /\ c \in Channels
  BY <1>1, ReceivesIs, MessageIs DEF TypeInv
<1>3. ChannelsOK'
  <2>1. CASE c \notin DOMAIN channels
    BY <2>1 DEF OnPart, TypeInv, ChannelsOK
  <2>2. CASE c \in DOMAIN channels /\ n = nick
    <3>1. channels' = WithChannel(c, [joined |-> FALSE, members |-> {}])
      BY <2>2 DEF OnPart
    <3>2. ChannelsOK /\ FALSE \in BOOLEAN /\ {} \in SUBSET Nicks
      BY DEF TypeInv
    <3> HIDE DEF c
    <3>3. QED
      BY <1>2, <3>1, <3>2, WithChannelIs
  <2>3. CASE c \in DOMAIN channels /\ n # nick
    BY <1>2, <2>3 DEF OnPart, TypeInv, ChannelsOK, WithChannel
  <2>4. QED
    BY <2>1, <2>2, <2>3
<1>4. ProxyOK'
  BY <1>1, <1>3, PersistedIs DEF TypeInv, ProxyOK, ChannelsOK
<1>5. QED
  BY <1>1, <1>3, <1>4, EventTypes

LEMMA KickTypes == ASSUME TypeInv, OnKick PROVE TypeInv'
<1> DEFINE n == Head(wire).nick
           c == Head(wire).chan
<1>1. /\ Receives("KICK")
      /\ UNCHANGED <<nick, client_nick, waiters, req, link, out, serverVars>>
      /\ saved' = saved \/ saved' = Persisted(channels')
  BY DEF OnKick
<1>2. n \in Nicks /\ c \in Channels
  BY <1>1, ReceivesIs, MessageIs DEF TypeInv
<1>3. ChannelsOK'
  <2>1. CASE c \notin DOMAIN channels
    BY <2>1 DEF OnKick, TypeInv, ChannelsOK
  <2>2. CASE c \in DOMAIN channels
    BY <1>2, <2>2 DEF OnKick, TypeInv, ChannelsOK, WithChannel
  <2>3. QED
    BY <2>1, <2>2
<1>4. ProxyOK'
  BY <1>1, <1>3, PersistedIs DEF TypeInv, ProxyOK, ChannelsOK
<1>5. QED
  BY <1>1, <1>3, <1>4, EventTypes

LEMMA EventStepTypes ==
    ASSUME TypeInv, IsFiniteSet(Channels), Event
    PROVE  TypeInv'
<1>1. CASE OnJoinError
  <2>1. Receives("473") /\ ProxyOK' /\ ChannelsOK'
    BY <1>1, ResolvedTypes DEF OnJoinError, TypeInv, ProxyOK, ChannelsOK
  <2>2. QED
    BY <1>1, <2>1, EventTypes DEF OnJoinError
<1>2. CASE OnQuit
  <2>1. Receives("QUIT") /\ ProxyOK' /\ ChannelsOK'
    BY <1>2 DEF OnQuit, TypeInv, ProxyOK, ChannelsOK
  <2>2. QED
    BY <1>2, <2>1, EventTypes DEF OnQuit
<1>3. CASE OnNick
  <2>1. /\ Receives("NICK")
        /\ Head(wire).nick \in Nicks /\ Head(wire).new \in Nicks
    BY <1>3, ReceivesIs, MessageIs DEF OnNick, TypeInv
  <2>2. ChannelsOK'
    BY <1>3, <2>1 DEF OnNick, TypeInv, ChannelsOK, Renamed
  <2>3. ProxyOK'
    BY <1>3, <2>1 DEF OnNick, TypeInv, ProxyOK, NickAfter
  <2>4. QED
    BY <1>3, <2>1, <2>2, <2>3, EventTypes DEF OnNick
<1>4. CASE OnNames
  <2> DEFINE c == Head(wire).chan
             old == KnownOrNew(c)
             m == old.members \cup Head(wire).names
  <2>1. /\ Receives("353")
        /\ c \in Channels /\ Head(wire).names \subseteq Nicks
    BY <1>4, ReceivesIs, MessageIs DEF OnNames, TypeInv
  <2>2. /\ old \in [joined : BOOLEAN, members : SUBSET Nicks]
        /\ old.joined \in BOOLEAN /\ old.members \subseteq Nicks
    BY KnownOrNewIs DEF TypeInv
  <2>3. channels' = WithChannel(c, [joined |-> old.joined, members |-> m])
    BY <1>4, <2>2 DEF OnNames
  <2>4. ChannelsOK'
    BY <2>1, <2>2, <2>3, WithChannelIs DEF TypeInv
  <2>5. ProxyOK'
    BY <1>4 DEF OnNames, TypeInv, ProxyOK
  <2>6. QED
    BY <1>4, <2>1, <2>4, <2>5, EventTypes DEF OnNames
<1>5. QED
  BY <1>1, <1>2, <1>3, <1>4, WelcomeTypes, NickInUseTypes, JoinTypes,
     PartTypes, KickTypes DEF Event

(* A server takes a command: what is left of the commands was there.       *)
LEMMA TakenTypes ==
    ASSUME TypeInv, NEW cmd, Takes(cmd), UNCHANGED <<proxyVars, link>>,
           ServerOK', me = None \/ me' # None,
           \/ UNCHANGED wire
           \/ \E messages \in Seq(Messages) : Tells(messages),
           me' = None => UNCHANGED wire \/ Tells(<<[cmd |-> "433"]>>)
    PROVE  TypeInv'
<1>1. /\ out' \in Seq(Commands)
      /\ \A i \in DOMAIN out' : out'[i] = out[i + 1] /\ i + 1 \in DOMAIN out
  BY TakesIs DEF TypeInv
<1>2. LinkOK'
  <2>1. LinkOK /\ UNCHANGED link
    BY DEF TypeInv
  <2>2. CASE UNCHANGED wire
    BY <1>1, <2>1, <2>2 DEF LinkOK
  <2>3. ASSUME NEW messages \in Seq(Messages), Tells(messages)
        PROVE  LinkOK'
    BY <1>1, <2>1, <2>3, ToldIs
  <2>4. QED
    BY <2>2, <2>3
<1>3. ASSUME me' = None
      PROVE  /\ \A i \in DOMAIN wire' : wire'[i].cmd # "001"
             /\ \A i \in DOMAIN out' : out'[i].cmd = "NICK"
  <2>1. /\ \A i \in DOMAIN wire : wire[i].cmd # "001"
        /\ \A i \in DOMAIN out : out[i].cmd = "NICK"
    BY <1>3 DEF TypeInv, LinkInv
  <2>2. CASE UNCHANGED wire
    BY <1>1, <2>1, <2>2
  <2>3. CASE Tells(<<[cmd |-> "433"]>>)
    <3>1. /\ wire' = wire \o <<[cmd |-> "433"]>> /\ wire \in Seq(Messages)
          /\ "433" # "001"
      BY <2>3 DEF Tells, TypeInv, LinkOK
    <3>2. \A i \in DOMAIN wire' :
             wire'[i].cmd = "433" \/ (i \in DOMAIN wire /\ wire'[i] = wire[i])
      BY <3>1
    <3>3. QED
      BY <1>1, <2>1, <3>1, <3>2
  <2>4. QED
    BY <1>3, <2>2, <2>3
<1>4. link # "down"
  BY DEF Takes
<1>5. QED
  BY <1>2, <1>3, <1>4, ServerTypes

LEMMA ServerStepTypes == ASSUME TypeInv, Server PROVE TypeInv'
<1>1. CASE ServerTakesNick
  <2> DEFINE n == Head(out).nick
  <2>1. /\ Takes("NICK") /\ UNCHANGED <<proxyVars, link>>
        /\ n \in Nicks /\ n # None
    BY <1>1, TakesIs, CommandIs, NoneIs DEF ServerTakesNick, TypeInv
  <2>2. ServerOK
    BY DEF TypeInv
  <2>3. CASE n = me
    <3>1. UNCHANGED <<wire, me, users, inside>>
      BY <1>1, <2>3 DEF ServerTakesNick, serverVars
    <3>2. QED
      BY <2>1, <2>2, <3>1, TakenTypes DEF ServerOK
  <2>4. CASE n # me /\ n \in users
    <3>1. UNCHANGED <<me, users, inside>> /\ Tells(<<[cmd |-> "433"]>>)
      BY <1>1, <2>4 DEF ServerTakesNick, serverVars
    <3>2. <<[cmd |-> "433"]>> \in Seq(Messages)
      BY DEF Messages
    <3>3. QED
      BY <2>1, <2>2, <3>1, <3>2, TakenTypes DEF ServerOK
  <2>5. CASE n # me /\ n \notin users
    <3>1. /\ me' = n /\ UNCHANGED users
          /\ inside' = [c \in Channels |-> Replaced(inside[c], me, n)]
          /\ Tells(IF me = None
                     THEN <<[cmd |-> "001", nick |-> n]>>
                     ELSE <<[cmd |-> "NICK", nick |-> me, new |-> n]>>)
      BY <1>1, <2>5 DEF ServerTakesNick
    <3>2. ServerOK' /\ me' # None
      BY <2>1, <2>2, <2>5, <3>1 DEF ServerOK, Replaced
    <3>3. CASE me = None
      <4>1. <<[cmd |-> "001", nick |-> n]>> \in Seq(Messages)
        BY <2>1 DEF Messages
      <4>2. QED
        BY <2>1, <3>1, <3>2, <3>3, <4>1, TakenTypes
    <3>4. CASE me # None
      <4>1. me \in Nicks
        BY <2>2, <3>4 DEF ServerOK
      <4>2. <<[cmd |-> "NICK", nick |-> me, new |-> n]>> \in Seq(Messages)
        BY <2>1, <4>1 DEF Messages
      <4>3. QED
        BY <2>1, <3>1, <3>2, <3>4, <4>2, TakenTypes
    <3>5. QED
      BY <3>3, <3>4
  <2>6. QED
    BY <2>3, <2>4, <2>5
<1>2. ASSUME NEW cmd \in {"JOIN", "PART"}, Takes(cmd)
      PROVE  me # None /\ me \in Nicks /\ Head(out).chan \in Channels
  <2>1. /\ Head(out) = out[1] /\ 1 \in DOMAIN out /\ Head(out).cmd = cmd
        /\ Head(out) \in Commands
    BY <1>2, TakesIs DEF TypeInv
  <2>2. me # None
    BY <2>1 DEF TypeInv, LinkInv
  <2>3. QED
    BY <2>1, <2>2, CommandIs DEF TypeInv, ServerOK
<1>3. CASE ServerTakesJoin
  <2> DEFINE c == Head(out).chan
  <2>1. Takes("JOIN") /\ UNCHANGED <<proxyVars, link>>
    BY <1>3 DEF ServerTakesJoin
  <2>2. ServerOK /\ me # None /\ me \in Nicks /\ c \in Channels
    BY <1>2, <2>1 DEF TypeInv
  <2>3. CASE me \in inside[c]
    <3>1. UNCHANGED <<wire, me, users, inside>>
      BY <1>3, <2>3 DEF ServerTakesJoin, serverVars
    <3>2. QED
      BY <2>1, <2>2, <3>1, TakenTypes DEF ServerOK
  <2>4. CASE me \notin inside[c]
    <3>1. /\ inside' = [inside EXCEPT ![c] = @ \cup {me}]
          /\ Tells(<<[cmd |-> "JOIN", nick |-> me, chan |-> c],
                     [cmd |-> "353", chan |-> c, names |-> inside'[c]]>>)
          /\ UNCHANGED <<me, users>>
      BY <1>3, <2>4 DEF ServerTakesJoin
    <3>2. ServerOK' /\ inside'[c] \subseteq Nicks
      BY <2>2, <3>1 DEF ServerOK
    <3>3. /\ [cmd |-> "JOIN", nick |-> me, chan |-> c] \in Messages
          /\ [cmd |-> "353", chan |-> c, names |-> inside'[c]] \in Messages
      BY <2>2, <3>2 DEF Messages
    <3>4. <<[cmd |-> "JOIN", nick |-> me, chan |-> c],
            [cmd |-> "353", chan |-> c, names |-> inside'[c]]>>
             \in Seq(Messages)
      BY <3>3
    <3>5. QED
      BY <2>1, <2>2, <3>1, <3>2, <3>4, TakenTypes
  <2>5. QED
    BY <2>3, <2>4
<1>4. CASE ServerRefusesJoin
  <2>1. /\ Takes("JOIN") /\ UNCHANGED <<proxyVars, link, me, users, inside>>
        /\ Tells(<<[cmd |-> "473", chan |-> Head(out).chan]>>)
    BY <1>4 DEF ServerRefusesJoin, serverVars
  <2>2. ServerOK /\ me # None /\ Head(out).chan \in Channels
    BY <1>2, <2>1 DEF TypeInv
  <2>3. <<[cmd |-> "473", chan |-> Head(out).chan]>> \in Seq(Messages)
    BY <2>2 DEF Messages
  <2>4. ServerOK'
    BY <2>1, <2>2 DEF ServerOK
  <2>5. QED
    BY <2>1, <2>2, <2>3, <2>4, TakenTypes
<1>5. CASE ServerTakesPart
  <2> DEFINE c == Head(out).chan
  <2>1. Takes("PART") /\ UNCHANGED <<proxyVars, link>>
    BY <1>5 DEF ServerTakesPart
  <2>2. ServerOK /\ me # None /\ me \in Nicks /\ c \in Channels
    BY <1>2, <2>1 DEF TypeInv
  <2>3. CASE me \notin inside[c]
    <3>1. UNCHANGED <<wire, me, users, inside>>
      BY <1>5, <2>3 DEF ServerTakesPart, serverVars
    <3>2. QED
      BY <2>1, <2>2, <3>1, TakenTypes DEF ServerOK
  <2>4. CASE me \in inside[c]
    <3>1. /\ inside' = [inside EXCEPT ![c] = @ \ {me}]
          /\ Tells(<<[cmd |-> "PART", nick |-> me, chan |-> c]>>)
          /\ UNCHANGED <<me, users>>
      BY <1>5, <2>4 DEF ServerTakesPart
    <3>2. ServerOK'
      BY <2>2, <3>1 DEF ServerOK
    <3>3. <<[cmd |-> "PART", nick |-> me, chan |-> c]>> \in Seq(Messages)
      BY <2>2 DEF Messages
    <3>4. QED
      BY <2>1, <2>2, <3>1, <3>2, <3>3, TakenTypes
  <2>5. QED
    BY <2>3, <2>4
<1>6. QED
  BY <1>1, <1>3, <1>4, <1>5 DEF Server

(* What another user does, and whether we hear of it.                      *)
LEMMA HeardTypes ==
    ASSUME TypeInv, UNCHANGED <<proxyVars, link, out, me>>, ServerOK',
           NEW told \in BOOLEAN, NEW message, Hears(told, message),
           told => message \in Messages /\ message.cmd # "001"
    PROVE  TypeInv'
<1>1. CASE told
  <2>1. Tells(<<message>>) /\ <<message>> \in Seq(Messages)
    BY <1>1 DEF Hears
  <2>2. LinkOK /\ UNCHANGED link /\ out' \in Seq(Commands)
    BY DEF TypeInv, LinkOK
  <2>3. LinkOK'
    BY <2>1, <2>2, ToldIs
  <2>4. wire' = wire \o <<message>> /\ wire \in Seq(Messages)
    BY <2>1 DEF Tells, TypeInv, LinkOK
  <2>5. \A i \in DOMAIN wire' :
           wire'[i] = message \/ (i \in DOMAIN wire /\ wire'[i] = wire[i])
    BY <2>4
  <2>6. LinkInv'
    BY <1>1, <2>5 DEF TypeInv, LinkInv
  <2>7. QED
    BY <2>3, <2>6 DEF TypeInv, ProxyOK, ChannelsOK, proxyVars
<1>2. CASE ~told
  <2>1. UNCHANGED wire
    BY <1>2 DEF Hears
  <2>2. LinkOK' /\ LinkInv'
    BY <2>1 DEF TypeInv, LinkOK, LinkInv
  <2>3. QED
    BY <2>2 DEF TypeInv, ProxyOK, ChannelsOK, proxyVars
<1>3. QED
  BY <1>1, <1>2

LEMMA UserStepTypes == ASSUME TypeInv, User PROVE TypeInv'
<1>1. ServerOK
  BY DEF TypeInv
<1>2. ASSUME NEW n \in Nicks, UserArrives(n)
      PROVE  TypeInv'
  <2>1. ServerOK'
    BY <1>1, <1>2 DEF UserArrives, FreeNicks, ServerOK
  <2>2. LinkOK' /\ LinkInv'
    BY <1>2 DEF UserArrives, TypeInv, LinkOK, LinkInv
  <2>3. QED
    BY <1>2, <2>1, <2>2
       DEF UserArrives, TypeInv, ProxyOK, ChannelsOK, proxyVars
<1>3. ASSUME NEW n \in Nicks, UserQuits(n)
      PROVE  TypeInv'
  <2>1. ServerOK'
    BY <1>1, <1>3 DEF UserQuits, ServerOK
  <2>2. /\ [cmd |-> "QUIT", nick |-> n] \in Messages
        /\ "QUIT" # "001" /\ Shares(n) \in BOOLEAN
    BY DEF Messages, Shares
  <2>3. QED
    BY <1>3, <2>1, <2>2, HeardTypes DEF UserQuits
<1>4. ASSUME NEW n \in Nicks, NEW c \in Channels,
             UserJoins(n, c) \/ UserParts(n, c) \/ Kick(n, c)
      PROVE  TypeInv'
  <2>1. ServerOK'
    BY <1>1, <1>4 DEF UserJoins, UserParts, Kick, ServerOK
  <2>2. /\ [cmd |-> "JOIN", nick |-> n, chan |-> c] \in Messages
        /\ [cmd |-> "PART", nick |-> n, chan |-> c] \in Messages
        /\ [cmd |-> "KICK", nick |-> n, chan |-> c] \in Messages
        /\ (me \in inside[c]) \in BOOLEAN
    BY DEF Messages
  <2>3. CASE UserJoins(n, c)
    BY <2>1, <2>2, <2>3, HeardTypes DEF UserJoins
  <2>4. CASE UserParts(n, c)
    BY <2>1, <2>2, <2>4, HeardTypes DEF UserParts
  <2>5. CASE Kick(n, c)
    BY <2>1, <2>2, <2>5, HeardTypes DEF Kick
  <2>6. QED
    BY <1>4, <2>3, <2>4, <2>5
<1>5. ASSUME NEW n \in Nicks, NEW new \in Nicks, UserRenames(n, new)
      PROVE  TypeInv'
  <2>1. ServerOK'
    BY <1>1, <1>5 DEF UserRenames, FreeNicks, ServerOK, Replaced
  <2>2. /\ [cmd |-> "NICK", nick |-> n, new |-> new] \in Messages
        /\ "NICK" # "001" /\ Shares(n) \in BOOLEAN
    BY DEF Messages, Shares
  <2>3. QED
    BY <1>5, <2>1, <2>2, HeardTypes DEF UserRenames
<1>6. QED
  BY <1>2, <1>3, <1>4, <1>5 DEF User

LEMMA TypeStep ==
    ASSUME TypeInv, IsFiniteSet(Channels), [Next]_vars
    PROVE  TypeInv'
<1>1. CASE UNCHANGED vars
  BY <1>1 DEF vars, TypeInv, ProxyOK, ChannelsOK, LinkOK, ServerOK, LinkInv
<1>2. CASE Next
  BY <1>2, ConnectTypes, DropTypes, RestartTypes, RequestStepTypes,
     EventStepTypes, ServerStepTypes, UserStepTypes DEF Next
<1>3. QED
  BY <1>1, <1>2

(* An answer goes to the request that has the future, and to nobody else.  *)
LEMMA ResolvedWaiting ==
    ASSUME WaitingOK, NEW c, ResolveJoin(c), UNCHANGED overtaken, ProxyOK
    PROVE  WaitingOK'
<1>1. ASSUME NEW r \in Requests \ overtaken, req'[r] # None
      PROVE  waiters'[req'[r]] = r
  <2>1. waiters[c] # r /\ req'[r] = req[r]
    BY <1>1, NoneIs DEF ResolveJoin
  <2>2. waiters[req[r]] = r /\ req[r] \in Channels
    BY <1>1, <2>1 DEF WaitingOK, ProxyOK
  <2>3. QED
    BY <2>1, <2>2 DEF ResolveJoin, ProxyOK
<1>2. QED
  BY <1>1 DEF WaitingOK

LEMMA JoinWaiting ==
    ASSUME WaitingOK, ProxyOK, NEW r \in Requests, NEW c \in Channels,
           JoinChannel(r, c)
    PROVE  WaitingOK'
<1>1. /\ waiters' = [waiters EXCEPT ![c] = r]
      /\ req' = [req EXCEPT ![r] = c]
      /\ overtaken' = overtaken \cup ({waiters[c]} \ {None})
  BY DEF JoinChannel
<1>2. overtaken' \subseteq Requests
  BY <1>1 DEF WaitingOK, ProxyOK
<1>3. ASSUME NEW s \in Requests \ overtaken', req'[s] # None
      PROVE  waiters'[req'[s]] = s
  <2>1. CASE s = r
    BY <1>1, <2>1 DEF ProxyOK
  <2>2. CASE s # r
    <3>1. /\ req'[s] = req[s] /\ req[s] \in Channels
          /\ waiters[req[s]] = s
      BY <1>1, <1>3, <2>2 DEF WaitingOK, ProxyOK
    <3>2. req[s] # c
      BY <1>1, <1>3, <3>1, NoneIs
    <3>3. QED
      BY <1>1, <3>1, <3>2 DEF ProxyOK
  <2>3. QED
    BY <2>1, <2>2
<1>4. QED
  BY <1>2, <1>3 DEF WaitingOK

LEMMA TimeoutWaiting ==
    ASSUME WaitingOK, ProxyOK, NEW r \in Requests, JoinTimesOut(r)
    PROVE  WaitingOK'
<1>1. ASSUME NEW s \in Requests \ overtaken', req'[s] # None
      PROVE  waiters'[req'[s]] = s
  <2>1. s # r /\ req'[s] = req[s] /\ s \notin overtaken
    BY <1>1 DEF JoinTimesOut, ProxyOK
  <2>2. waiters[req[s]] = s /\ req[s] \in Channels
    BY <1>1, <2>1 DEF WaitingOK, ProxyOK
  <2>3. QED
    BY <2>1, <2>2 DEF JoinTimesOut
<1>2. QED
  BY <1>1 DEF WaitingOK, JoinTimesOut

LEMMA WaitingStep ==
    ASSUME TypeInv, WaitingOK, [Next]_vars
    PROVE  WaitingOK'
<1>1. ProxyOK
  BY DEF TypeInv
<1>2. CASE UNCHANGED <<waiters, req, overtaken>>
  BY <1>2 DEF WaitingOK
<1>3. CASE OnJoin \/ OnJoinError
  <2>1. \/ UNCHANGED <<waiters, req, overtaken>>
        \/ UNCHANGED overtaken /\ \E c : ResolveJoin(c)
    BY <1>3 DEF OnJoin, OnJoinError
  <2>2. QED
    BY <1>1, <1>2, <2>1, ResolvedWaiting
<1>4. CASE Restart
  BY <1>4 DEF Restart, WaitingOK
<1>5. CASE Connect \/ Drop \/ SaveNetwork
  BY <1>2, <1>5 DEF Connect, Drop, SaveNetwork
<1>6. CASE Request
  <2>1. ASSUME NEW c \in Channels, PartChannel(c) \/ SendChannelMessage(c)
        PROVE  WaitingOK'
    BY <1>2, <2>1 DEF PartChannel, SendChannelMessage, proxyVars
  <2>2. ASSUME NEW n \in Nicks, ChangeNick(n)
        PROVE  WaitingOK'
    BY <1>2, <2>2 DEF ChangeNick, proxyVars
  <2>3. QED
    BY <1>1, <1>6, <2>1, <2>2, JoinWaiting, TimeoutWaiting DEF Request
<1>7. CASE Event
  <2>1. CASE OnWelcome \/ OnNickInUse \/ OnPart \/ OnKick
    BY <1>2, <2>1 DEF OnWelcome, OnNickInUse, OnPart, OnKick
  <2>2. CASE OnQuit \/ OnNick \/ OnNames
    BY <1>2, <2>2 DEF OnQuit, OnNick, OnNames
  <2>3. QED
    BY <1>3, <1>7, <2>1, <2>2 DEF Event
<1>8. CASE Server
  BY <1>2, <1>8 DEF Server, ServerTakesNick, ServerTakesJoin,
                    ServerRefusesJoin, ServerTakesPart, proxyVars
<1>9. CASE User
  BY <1>2, <1>9 DEF User, UserArrives, UserQuits, UserJoins, UserParts, Kick,
                    UserRenames, proxyVars
<1>10. CASE UNCHANGED vars
  BY <1>2, <1>10 DEF vars
<1>11. QED
  BY <1>3, <1>4, <1>5, <1>6, <1>7, <1>8, <1>9, <1>10 DEF Next

LEMMA WaitingInit == Init => WaitingOK
BY DEF Init, WaitingOK

(* Every variable keeps its type: members of channels are nicks, and what  *)
(* the server tells of us it tells when it knows us.  The channels must be *)
(* finitely many, so that those which are joined again are a sequence.     *)
THEOREM TypeCorrect ==
    ASSUME IsFiniteSet(Channels)
    PROVE  Spec => []TypeOK
<1>1. TypeInv /\ WaitingOK /\ [Next]_vars => TypeInv' /\ WaitingOK'
  BY TypeStep, WaitingStep
<1>2. QED
  BY <1>1, TypeInit, WaitingInit, TypeInvIs, PTL DEF Spec

-----------------------------------------------------------------------------
(* What the proxy will know.  A view is a nick and the members of every    *)
(* channel; a message changes it as its handler changes the state.         *)

Views == [nick : Nicks, roster : [Channels -> SUBSET Nicks]]

AfterNick(v, m) == IF m.cmd = "NICK" /\ m.nick = v.nick THEN m.new ELSE v.nick

AfterMembers(v, m, c) ==
    CASE m.cmd = "JOIN" /\ m.chan = c -> v.roster[c] \cup {m.nick}
      [] m.cmd \in {"PART", "KICK"} /\ m.chan = c ->
            IF m.nick = v.nick THEN {} ELSE v.roster[c] \ {m.nick}
      [] m.cmd = "QUIT" -> v.roster[c] \ {m.nick}
      [] m.cmd = "NICK" -> Renamed(v.roster[c], m.nick, m.new)
      [] m.cmd = "353" /\ m.chan = c -> v.roster[c] \cup m.names
      [] OTHER -> v.roster[c]

After(v, m) == [nick   |-> AfterNick(v, m),
                roster |-> [c \in Channels |-> AfterMembers(v, m, c)]]

(* A message that tells of our own coming or going.                        *)
IsOwnJoin(v, m, c) == m.cmd = "JOIN" /\ m.chan = c /\ m.nick = v.nick

IsOwnLeave(v, m, c) ==
    m.cmd \in {"PART", "KICK"} /\ m.chan = c /\ m.nick = v.nick

(* The views while the messages w are handled one after another.           *)
IsRun(h, v, w) ==
    /\ h \in [0..Len(w) -> Views]
    /\ h[0] = v
    /\ \A i \in 1..Len(w) : h[i] = After(h[i - 1], w[i])

(* A nick is the one we have now or one that a message gives us.           *)
Named(h, w) ==
    \A i \in 0..Len(w) : \E j \in 0..i :
        /\ \A k \in j..i : h[k].nick = h[i].nick
        /\ j = 0 \/ (w[j].cmd = "NICK" /\ w[j].new = h[j].nick)

Leaving(h, w, c) == \E i \in 1..Len(w) : IsOwnLeave(h[i - 1], w[i], c)

Joining(h, w, c) == \E i \in 1..Len(w) : IsOwnJoin(h[i - 1], w[i], c)

(* We join the channel and do not leave it after that.                     *)
Arriving(h, w, c) ==
    \E i \in 1..Len(w) :
        /\ IsOwnJoin(h[i - 1], w[i], c)
        /\ \A j \in (i + 1)..Len(w) : ~IsOwnLeave(h[j - 1], w[j], c)

LEMMA AfterIs ==
    ASSUME NEW v \in Views, NEW m \in Messages
    PROVE  /\ After(v, m) \in Views
           /\ After(v, m).nick = AfterNick(v, m)
           /\ After(v, m).nick # v.nick =>
                 m.cmd = "NICK" /\ m.new = After(v, m).nick
           /\ \A c \in Channels :
                 After(v, m).roster[c] = AfterMembers(v, m, c)
<1>1. /\ m.cmd \in {"JOIN", "PART", "KICK", "QUIT", "NICK"} => m.nick \in Nicks
      /\ m.cmd = "NICK" => m.new \in Nicks
      /\ m.cmd = "353" => m.names \subseteq Nicks
  BY MessageIs
<1>2. AfterNick(v, m) \in Nicks
  BY <1>1 DEF AfterNick, Views
<1>3. ASSUME NEW c \in Channels
      PROVE  AfterMembers(v, m, c) \in SUBSET Nicks
  BY <1>1 DEF AfterMembers, Views, Renamed
<1>4. QED
  BY <1>2, <1>3 DEF After, Views, AfterNick

(* The run when the first message is handled.                              *)
Rest(h, w) == [i \in 0..Len(Tail(w)) |-> h[i + 1]]

LEMMA RestIs ==
    ASSUME NEW h, NEW w \in Seq(Messages), w # <<>>
    PROVE  /\ Len(w) \in Nat /\ Len(w) >= 1
           /\ Len(Tail(w)) = Len(w) - 1
           /\ \A i \in 0..(Len(w) - 1) : Rest(h, w)[i] = h[i + 1]
           /\ \A i \in 1..(Len(w) - 1) : Tail(w)[i] = w[i + 1]
BY DEF Rest

LEMMA RunTail ==
    ASSUME NEW h, NEW v, NEW w \in Seq(Messages), w # <<>>, IsRun(h, v, w)
    PROVE  /\ IsRun(Rest(h, w), After(v, w[1]), Tail(w))
           /\ Rest(h, w)[Len(Tail(w))] = h[Len(w)]
<1> DEFINE r == Rest(h, w)
           n == Len(w)
<1>1. /\ n \in Nat /\ n >= 1 /\ Len(Tail(w)) = n - 1
      /\ \A i \in 0..(n - 1) : r[i] = h[i + 1]
      /\ \A i \in 1..(n - 1) : Tail(w)[i] = w[i + 1]
  BY RestIs
<1>2. /\ h \in [0..n -> Views] /\ h[0] = v
      /\ \A i \in 1..n : h[i] = After(h[i - 1], w[i])
  BY DEF IsRun
<1>3. r = [i \in 0..(n - 1) |-> h[i + 1]]
  BY <1>1 DEF Rest
<1> HIDE DEF r, n
<1>4. r \in [0..(n - 1) -> Views]
  <2>1. \A i \in 0..(n - 1) : i + 1 \in 0..n
    BY <1>1
  <2>2. \A i \in 0..(n - 1) : h[i + 1] \in Views
    BY <1>2, <2>1
  <2>3. QED
    BY <1>3, <2>2
<1>5. r[0] = After(v, w[1])
  <2>1. 0 \in 0..(n - 1) /\ 1 \in 1..n /\ 0 + 1 = 1 /\ 1 - 1 = 0
    BY <1>1
  <2>2. QED
    BY <1>1, <1>2, <2>1
<1>6. ASSUME NEW i \in 1..(n - 1)
      PROVE  r[i] = After(r[i - 1], Tail(w)[i])
  <2>1. /\ i \in 0..(n - 1) /\ i - 1 \in 0..(n - 1) /\ i + 1 \in 1..n
        /\ (i + 1) - 1 = i /\ (i - 1) + 1 = i
    BY <1>1
  <2>2. r[i] = h[i + 1] /\ r[i - 1] = h[i] /\ Tail(w)[i] = w[i + 1]
    BY <1>1, <2>1
  <2>3. QED
    BY <1>2, <2>1, <2>2
<1>7. r[n - 1] = h[n]
  <2>1. n - 1 \in 0..(n - 1) /\ (n - 1) + 1 = n
    BY <1>1
  <2>2. QED
    BY <1>1, <2>1
<1>8. QED
  BY <1>1, <1>4, <1>5, <1>6, <1>7 DEF IsRun, r, n

LEMMA NamedTail ==
    ASSUME NEW h, NEW w \in Seq(Messages), w # <<>>, Named(h, w)
    PROVE  Named(Rest(h, w), Tail(w))
<1> DEFINE r == Rest(h, w)
           n == Len(w)
<1>1. /\ n \in Nat /\ n >= 1 /\ Len(Tail(w)) = n - 1
      /\ \A i \in 0..(n - 1) : r[i] = h[i + 1]
      /\ \A i \in 1..(n - 1) : Tail(w)[i] = w[i + 1]
  BY RestIs
<1> HIDE DEF r
<1>2. ASSUME NEW i \in 0..(n - 1)
      PROVE  \E j \in 0..i :
                /\ \A k \in j..i : r[k].nick = r[i].nick
                /\ j = 0 \/ (Tail(w)[j].cmd = "NICK"
                             /\ Tail(w)[j].new = r[j].nick)
  <2>1. i + 1 \in 0..n
    BY <1>1
  <2>2. PICK j \in 0..(i + 1) :
           /\ \A k \in j..(i + 1) : h[k].nick = h[i + 1].nick
           /\ j = 0 \/ (w[j].cmd = "NICK" /\ w[j].new = h[j].nick)
    BY <2>1 DEF Named
  <2>3. ASSUME NEW k \in 0..i, k >= j - 1
        PROVE  r[k].nick = r[i].nick
    <3>1. k + 1 \in j..(i + 1) /\ k \in 0..(n - 1)
      BY <2>2, <2>3, <1>1
    <3>2. QED
      BY <1>1, <2>2, <3>1
  <2>4. CASE j \in {0, 1}
    <3>1. \A k \in 0..i : r[k].nick = r[i].nick
      BY <2>3, <2>4
    <3>2. QED
      BY <3>1
  <2>5. CASE j > 1
    <3>1. /\ j - 1 \in 0..i /\ j - 1 \in 1..(n - 1) /\ j - 1 \in 0..(n - 1)
          /\ (j - 1) + 1 = j
      BY <1>1, <2>5
    <3>2. Tail(w)[j - 1] = w[j] /\ r[j - 1] = h[j]
      BY <1>1, <3>1
    <3>3. \A k \in (j - 1)..i : r[k].nick = r[i].nick
      BY <2>3, <3>1
    <3>4. QED
      BY <2>2, <2>5, <3>1, <3>2, <3>3
  <2>6. QED
    BY <2>4, <2>5
<1>3. QED
  BY <1>1, <1>2 DEF Named, r

(* Who comes and goes in the rest of the messages.                         *)
LEMMA ComingTail ==
    ASSUME NEW h, NEW w \in Seq(Messages), w # <<>>, NEW c
    PROVE  /\ ~Leaving(h, w, c) =>
                 /\ ~IsOwnLeave(h[0], w[1], c)
                 /\ ~Leaving(Rest(h, w), Tail(w), c)
           /\ Joining(h, w, c) =>
                 \/ IsOwnJoin(h[0], w[1], c)
                 \/ Joining(Rest(h, w), Tail(w), c)
           /\ Arriving(h, w, c) =>
                 \/ /\ IsOwnJoin(h[0], w[1], c)
                    /\ ~Leaving(Rest(h, w), Tail(w), c)
                 \/ Arriving(Rest(h, w), Tail(w), c)
<1> DEFINE r == Rest(h, w)
           n == Len(w)
           t == Tail(w)
<1>1. /\ n \in Nat /\ n >= 1 /\ Len(t) = n - 1
      /\ \A i \in 0..(n - 1) : r[i] = h[i + 1]
      /\ \A i \in 1..(n - 1) : t[i] = w[i + 1]
  BY RestIs
<1> HIDE DEF r, t, n
<1>2. \A i \in 1..(n - 1) : /\ r[i - 1] = h[(i + 1) - 1]
                            /\ t[i] = w[i + 1] /\ i + 1 \in 1..n
  <2> SUFFICES ASSUME NEW i \in 1..(n - 1)
               PROVE  /\ r[i - 1] = h[(i + 1) - 1]
                      /\ t[i] = w[i + 1] /\ i + 1 \in 1..n
    OBVIOUS
  <2>1. /\ i - 1 \in 0..(n - 1) /\ (i - 1) + 1 = (i + 1) - 1
        /\ i + 1 \in 1..n
    BY <1>1
  <2>2. QED
    BY <1>1, <2>1
<1>3. 1 \in 1..n /\ h[1 - 1] = h[0]
  BY <1>1
<1>4. ~Leaving(h, w, c) =>
         ~IsOwnLeave(h[0], w[1], c) /\ ~Leaving(r, t, c)
  <2>1. ASSUME NEW i \in 1..(n - 1), IsOwnLeave(r[i - 1], t[i], c)
        PROVE  Leaving(h, w, c)
    BY <1>2, <2>1 DEF Leaving, n
  <2>2. Leaving(r, t, c) => Leaving(h, w, c)
    BY <1>1, <2>1 DEF Leaving
  <2>3. QED
    BY <1>3, <2>2 DEF Leaving, n
<1>5. \A i \in 1..n : i = 1 \/ (i - 1 \in 1..(n - 1) /\ (i - 1) + 1 = i)
  BY <1>1
<1>6. Joining(h, w, c) => IsOwnJoin(h[0], w[1], c) \/ Joining(r, t, c)
  <2> SUFFICES ASSUME NEW i \in 1..n, IsOwnJoin(h[i - 1], w[i], c)
               PROVE  IsOwnJoin(h[0], w[1], c) \/ Joining(r, t, c)
    BY DEF Joining, n
  <2>1. CASE i = 1
    BY <1>3, <2>1
  <2>2. CASE i # 1
    BY <1>1, <1>2, <1>5, <2>2 DEF Joining
  <2>3. QED
    BY <2>1, <2>2
<1>7. Arriving(h, w, c) =>
         \/ IsOwnJoin(h[0], w[1], c) /\ ~Leaving(r, t, c)
         \/ Arriving(r, t, c)
  <2> SUFFICES ASSUME NEW i \in 1..n, IsOwnJoin(h[i - 1], w[i], c),
                      \A j \in (i + 1)..n : ~IsOwnLeave(h[j - 1], w[j], c)
               PROVE  \/ IsOwnJoin(h[0], w[1], c) /\ ~Leaving(r, t, c)
                      \/ Arriving(r, t, c)
    BY DEF Arriving, n
  <2>1. ASSUME NEW j \in 1..(n - 1), j >= i
        PROVE  ~IsOwnLeave(r[j - 1], t[j], c)
    <3>1. j + 1 \in (i + 1)..n
      BY <1>1, <2>1
    <3>2. QED
      BY <1>2, <3>1
  <2>2. CASE i = 1
    BY <1>1, <1>3, <2>1, <2>2 DEF Leaving
  <2>3. CASE i # 1
    <3>1. i - 1 \in 1..(n - 1) /\ (i - 1) + 1 = i
      BY <1>5, <2>3
    <3>2. IsOwnJoin(r[(i - 1) - 1], t[i - 1], c)
      BY <1>2, <3>1
    <3>3. \A j \in ((i - 1) + 1)..(n - 1) : ~IsOwnLeave(r[j - 1], t[j], c)
      BY <1>1, <2>1, <3>1
    <3>4. QED
      BY <1>1, <3>1, <3>2, <3>3 DEF Arriving
  <2>4. QED
    BY <2>2, <2>3
<1>8. QED
  BY <1>4, <1>6, <1>7 DEF r, t

(* The run when one more message is on its way.                            *)
Longer(h, w, m) ==
    [i \in 0..Len(Append(w, m)) |->
        IF i = Len(Append(w, m)) THEN After(h[Len(w)], m) ELSE h[i]]

LEMMA LongerIs ==
    ASSUME NEW h, NEW w \in Seq(Messages), NEW m
    PROVE  /\ Len(w) \in Nat
           /\ Len(Append(w, m)) = Len(w) + 1
           /\ Longer(h, w, m)[Len(w) + 1] = After(h[Len(w)], m)
           /\ Append(w, m)[Len(w) + 1] = m
           /\ \A i \in 0..Len(w) : Longer(h, w, m)[i] = h[i]
           /\ \A i \in 1..Len(w) : Append(w, m)[i] = w[i]
<1>1. /\ Len(w) \in Nat /\ Len(Append(w, m)) = Len(w) + 1
      /\ Append(w, m)[Len(w) + 1] = m
      /\ \A i \in 1..Len(w) : Append(w, m)[i] = w[i]
  BY AppendProperties
<1>2. Longer(h, w, m) =
         [i \in 0..(Len(w) + 1) |->
             IF i = Len(w) + 1 THEN After(h[Len(w)], m) ELSE h[i]]
  BY <1>1 DEF Longer
<1> HIDE DEF Longer
<1>3. Len(w) + 1 \in 0..(Len(w) + 1)
  BY <1>1
<1>4. \A i \in 0..Len(w) : i \in 0..(Len(w) + 1) /\ i # Len(w) + 1
  BY <1>1
<1>5. QED
  BY <1>1, <1>2, <1>3, <1>4

LEMMA RunAppend ==
    ASSUME NEW h, NEW v, NEW w \in Seq(Messages), NEW m \in Messages,
           IsRun(h, v, w), Named(h, w)
    PROVE  /\ IsRun(Longer(h, w, m), v, Append(w, m))
           /\ Named(Longer(h, w, m), Append(w, m))
<1> DEFINE e == Longer(h, w, m)
           a == Append(w, m)
           n == Len(w)
           last == h[n]
<1>1. /\ n \in Nat /\ Len(a) = n + 1
      /\ e[n + 1] = After(last, m) /\ a[n + 1] = m
      /\ \A i \in 0..n : e[i] = h[i]
      /\ \A i \in 1..n : a[i] = w[i]
  BY LongerIs
<1>2. e = [i \in 0..(n + 1) |-> IF i = n + 1 THEN After(last, m) ELSE h[i]]
  BY <1>1 DEF Longer
<1>3. /\ h \in [0..n -> Views] /\ h[0] = v
      /\ \A i \in 1..n : h[i] = After(h[i - 1], w[i])
  BY DEF IsRun
<1> HIDE DEF e, a, n
<1>4. last \in Views
  BY <1>1, <1>3
<1> HIDE DEF last
<1>5. \A i \in 0..(n + 1) : i = n + 1 \/ i \in 0..n
  BY <1>1
<1>6. e \in [0..(n + 1) -> Views]
  BY <1>2, <1>3, <1>4, <1>5, AfterIs
<1>7. e[0] = v
  BY <1>1, <1>3
<1>8. ASSUME NEW i \in 1..(n + 1)
      PROVE  e[i] = After(e[i - 1], a[i])
  <2>1. CASE i = n + 1
    <3>1. n \in 0..n /\ (n + 1) - 1 = n
      BY <1>1
    <3>2. QED
      BY <1>1, <2>1, <3>1 DEF last
  <2>2. CASE i # n + 1
    <3>1. i \in 1..n /\ i \in 0..n /\ i - 1 \in 0..n
      BY <1>1, <2>2
    <3>2. QED
      BY <1>1, <1>3, <3>1
  <2>3. QED
    BY <2>1, <2>2
<1>9. ASSUME NEW i \in 0..n
      PROVE  \E j \in 0..i :
                /\ \A k \in j..i : e[k].nick = e[i].nick
                /\ j = 0 \/ (a[j].cmd = "NICK" /\ a[j].new = e[j].nick)
  <2>1. PICK j \in 0..i :
           /\ \A k \in j..i : h[k].nick = h[i].nick
           /\ j = 0 \/ (w[j].cmd = "NICK" /\ w[j].new = h[j].nick)
    BY DEF Named, n
  <2>2. /\ \A k \in j..i : k \in 0..n
        /\ j \in 0..n /\ (j = 0 \/ j \in 1..n)
    BY <1>1
  <2>3. QED
    BY <1>1, <2>1, <2>2
<1>10. \E j \in 0..(n + 1) :
          /\ \A k \in j..(n + 1) : e[k].nick = e[n + 1].nick
          /\ j = 0 \/ (a[j].cmd = "NICK" /\ a[j].new = e[j].nick)
  <2>1. CASE e[n + 1].nick = last.nick
    <3>1. n \in 0..n /\ e[n] = last
      BY <1>1 DEF last
    <3>2. PICK j \in 0..n :
             /\ \A k \in j..n : e[k].nick = e[n].nick
             /\ j = 0 \/ (a[j].cmd = "NICK" /\ a[j].new = e[j].nick)
      BY <1>9, <3>1
    <3>3. /\ j \in 0..(n + 1)
          /\ \A k \in j..(n + 1) : k = n + 1 \/ k \in j..n
      BY <1>1
    <3>4. QED
      BY <2>1, <3>1, <3>2, <3>3
  <2>2. CASE e[n + 1].nick # last.nick
    <3>1. m.cmd = "NICK" /\ m.new = e[n + 1].nick
      BY <1>1, <1>4, <2>2, AfterIs
    <3>2. n + 1 \in 0..(n + 1) /\ \A k \in (n + 1)..(n + 1) : k = n + 1
      BY <1>1
    <3>3. QED
      BY <1>1, <3>1, <3>2
  <2>3. QED
    BY <2>1, <2>2
<1>11. IsRun(e, v, a)
  BY <1>1, <1>6, <1>7, <1>8 DEF IsRun
<1>12. Named(e, a)
  BY <1>1, <1>5, <1>9, <1>10 DEF Named
<1>13. QED
  BY <1>11, <1>12 DEF e, a

(* Who comes and goes when one more message is on its way.                 *)
LEMMA ComingAppend ==
    ASSUME NEW h, NEW w \in Seq(Messages), NEW m, NEW c
    PROVE  LET e == Longer(h, w, m)
               a == Append(w, m)
               last == h[Len(w)]
           IN /\ Joining(h, w, c) => Joining(e, a, c)
              /\ IsOwnJoin(last, m, c) => Joining(e, a, c) /\ Arriving(e, a, c)
              /\ ~IsOwnLeave(last, m, c) =>
                    /\ ~Leaving(h, w, c) => ~Leaving(e, a, c)
                    /\ Arriving(h, w, c) => Arriving(e, a, c)
<1> DEFINE e == Longer(h, w, m)
           a == Append(w, m)
           n == Len(w)
           last == h[n]
<1>1. /\ n \in Nat /\ Len(a) = n + 1 /\ a[n + 1] = m
      /\ \A i \in 0..n : e[i] = h[i]
      /\ \A i \in 1..n : a[i] = w[i]
  BY LongerIs
<1> HIDE DEF e, a, n
<1>2. /\ n + 1 \in 1..(n + 1) /\ e[(n + 1) - 1] = last
      /\ \A i \in 1..(n + 1) : i = n + 1 \/ i \in 1..n
      /\ \A i \in 1..n : /\ i \in 1..(n + 1)
                         /\ e[i - 1] = h[i - 1] /\ a[i] = w[i]
  <2>1. n + 1 \in 1..(n + 1) /\ (n + 1) - 1 = n /\ n \in 0..n
    BY <1>1
  <2>2. /\ \A i \in 1..(n + 1) : i = n + 1 \/ i \in 1..n
        /\ \A i \in 1..n : i \in 1..(n + 1) /\ i - 1 \in 0..n
    BY <1>1
  <2>3. QED
    BY <1>1, <2>1, <2>2
<1> HIDE DEF last
<1>3. Joining(h, w, c) => Joining(e, a, c)
  BY <1>1, <1>2 DEF Joining, n
<1>4. IsOwnJoin(last, m, c) => Joining(e, a, c) /\ Arriving(e, a, c)
  <2>1. \A j \in ((n + 1) + 1)..(n + 1) : FALSE
    BY <1>1
  <2>2. QED
    BY <1>1, <1>2, <2>1 DEF Joining, Arriving
<1>5. ASSUME ~IsOwnLeave(last, m, c), ~Leaving(h, w, c)
      PROVE  ~Leaving(e, a, c)
  BY <1>1, <1>2, <1>5 DEF Leaving, n
<1>6. ASSUME ~IsOwnLeave(last, m, c), Arriving(h, w, c)
      PROVE  Arriving(e, a, c)
  <2>1. PICK i \in 1..n :
           /\ IsOwnJoin(h[i - 1], w[i], c)
           /\ \A j \in (i + 1)..n : ~IsOwnLeave(h[j - 1], w[j], c)
    BY <1>6 DEF Arriving, n
  <2>2. \A j \in (i + 1)..(n + 1) :
           j = n + 1 \/ (j \in (i + 1)..n /\ j \in 1..n)
    BY <1>1
  <2>3. \A j \in (i + 1)..(n + 1) : ~IsOwnLeave(e[j - 1], a[j], c)
    BY <1>1, <1>2, <1>6, <2>1, <2>2
  <2>4. QED
    BY <1>1, <1>2, <2>1, <2>3 DEF Arriving
<1>7. QED
  BY <1>3, <1>4, <1>5, <1>6 DEF e, a, last, n

-----------------------------------------------------------------------------
(* The messages in flight bring the proxy to where the server is.          *)

Members(c) == IF c \in DOMAIN channels THEN channels[c].members ELSE {}

Present == [nick |-> nick, roster |-> [c \in Channels |-> Members(c)]]

Kept(c) == Joined(c) /\ c \in saved.channels

(* The view is that of a server that knows us by the name n.               *)
UpToDate(v, n, ins) ==
    /\ n # None => v.nick = n
    /\ \A c \in Channels : v.roster[c] = IF n \in ins[c] THEN ins[c] ELSE {}

(* The messages w lead to a server with the users us that knows us as n,   *)
(* and no user has a nick we have on the way.                              *)
FlightOf(h, w, n, us, ins) ==
    /\ IsRun(h, Present, w)
    /\ Named(h, w)
    /\ \A i \in 0..Len(w) : h[i].nick \notin us
    /\ UpToDate(h[Len(w)], n, ins)
    /\ \A c \in Channels : n \in ins[c] =>
          (Kept(c) /\ ~Leaving(h, w, c)) \/ Arriving(h, w, c)
    /\ \A c \in Channels : n \in ins[c] /\ waiters[c] # None =>
          Joining(h, w, c)

FlightInv == \E h : FlightOf(h, wire, me, users, inside)

(* A server that does not know us has told us nothing; where the row would *)
(* register again is free.                                                 *)
RegisterInv ==
    /\ me = None => /\ wire = <<>>
                    /\ out = IF link = "down" THEN <<>>
                             ELSE <<[cmd |-> "NICK", nick |-> nick]>>
    /\ saved.nick \notin users
    /\ \A c \in Channels : inside[c] \subseteq users \cup {me}

FullInv == TypeInv /\ RegisterInv /\ FlightInv

LEMMA MembersIs ==
    ASSUME ChannelsOK, NEW c
    PROVE  Members(c) \subseteq Nicks
BY DEF ChannelsOK, Members

LEMMA PresentIs ==
    ASSUME TypeInv
    PROVE  /\ Present \in Views
           /\ Present.nick = nick
           /\ \A c \in Channels : Present.roster[c] = Members(c)
BY MembersIs DEF Present, Views, TypeInv, ProxyOK

LEMMA WireIs ==
    ASSUME TypeInv
    PROVE  /\ wire \in Seq(Messages) /\ Len(wire) \in Nat
           /\ me \in Nicks \cup {None}
           /\ \A c \in Channels : inside[c] \subseteq Nicks
           /\ \A c \in Channels : me \in inside[c] => me # None
BY NoneIs DEF TypeInv, LinkOK, ServerOK

(* Nothing is under way.                                                   *)
LEMMA EmptyRun ==
    ASSUME NEW v \in Views
    PROVE  \E h : /\ IsRun(h, v, <<>>) /\ Named(h, <<>>)
                  /\ Len(<<>>) = 0
                  /\ \A i \in 0..0 : h[i] = v
                  /\ h[0] = v
<1> DEFINE h == [i \in 0..0 |-> v]
<1>1. /\ Len(<<>>) = 0 /\ 0..0 = {0} /\ 1..0 = {}
      /\ h[0] = v /\ h \in [0..0 -> Views]
  OBVIOUS
<1> HIDE DEF h
<1>2. IsRun(h, v, <<>>)
  BY <1>1 DEF IsRun
<1>3. Named(h, <<>>)
  BY <1>1 DEF Named
<1>4. QED
  BY <1>1, <1>2, <1>3

(* The names that a user cannot take include all that we will have.        *)
LEMMA NamesAreOurs ==
    ASSUME TypeInv, NEW h, FlightOf(h, wire, me, users, inside),
           NEW i \in 0..Len(wire)
    PROVE  h[i].nick \in OurNames
<1>1. PICK j \in 0..i :
         /\ \A k \in j..i : h[k].nick = h[i].nick
         /\ j = 0 \/ (wire[j].cmd = "NICK" /\ wire[j].new = h[j].nick)
  BY DEF FlightOf, Named
<1>2. h[j].nick = h[i].nick
  BY <1>1
<1>3. CASE j = 0
  <2>1. h[0].nick = nick
    BY DEF FlightOf, IsRun, Present
  <2>2. QED
    BY <1>2, <1>3, <2>1 DEF OurNames
<1>4. CASE j # 0
  <2>1. j \in DOMAIN wire /\ wire[j].cmd = "NICK" /\ wire[j].new = h[i].nick
    BY <1>1, <1>2, <1>4, WireIs
  <2>2. wire[j] \in {x \in Range(wire) : x.cmd = "NICK"}
    BY <2>1 DEF Range
  <2>3. wire[j].new \in {message.new : message \in
                            {x \in Range(wire) : x.cmd = "NICK"}}
    BY <2>2
  <2>4. QED
    BY <2>1, <2>3 DEF OurNames
<1>5. QED
  BY <1>3, <1>4

LEMMA OurNickIsFree ==
    ASSUME TypeInv, FlightInv
    PROVE  nick \notin users
<1>1. PICK h : FlightOf(h, wire, me, users, inside)
  BY DEF FlightInv
<1>2. 0 \in 0..Len(wire)
  BY WireIs
<1>3. QED
  BY <1>1, <1>2 DEF FlightOf, IsRun, Present

(* A step of the proxy that receives no message and changes no member.     *)
LEMMA ProxyFlight ==
    ASSUME TypeInv, FlightInv, UNCHANGED <<wire, me, users, inside>>,
           Present' = Present,
           \A c \in Channels : Kept(c) => Kept(c)',
           \A c \in Channels :
              waiters'[c] # None => waiters[c] # None \/ ~Kept(c)
    PROVE  FlightInv'
<1>1. PICK h : FlightOf(h, wire, me, users, inside)
  BY DEF FlightInv
<1>2. \A c \in Channels : me \in inside[c] =>
         (Kept(c)' /\ ~Leaving(h, wire, c)) \/ Arriving(h, wire, c)
  BY <1>1 DEF FlightOf
<1>3. \A c \in Channels : Arriving(h, wire, c) => Joining(h, wire, c)
  BY DEF Arriving, Joining
<1>4. \A c \in Channels : me \in inside[c] /\ waiters'[c] # None =>
         Joining(h, wire, c)
  BY <1>1, <1>3 DEF FlightOf
<1>5. FlightOf(h, wire, me, users, inside)'
  BY <1>1, <1>2, <1>4 DEF FlightOf
<1>6. QED
  BY <1>5 DEF FlightInv

(* A message is handled.                                                   *)
LEMMA EventFlight ==
    ASSUME TypeInv, FlightInv, NEW cmd, Receives(cmd), UNCHANGED serverVars,
           Present' = After(Present, Head(wire)),
           \A c \in Channels :
              /\ Kept(c) /\ ~IsOwnLeave(Present, Head(wire), c) => Kept(c)'
              /\ IsOwnJoin(Present, Head(wire), c) =>
                    Kept(c)' /\ waiters'[c] = None
              /\ waiters'[c] # None => waiters[c] # None
    PROVE  FlightInv'
<1>1. PICK h : FlightOf(h, wire, me, users, inside)
  BY DEF FlightInv
<1>0. PICK r : r = Rest(h, wire)
  OBVIOUS
<1> DEFINE n == Len(wire)
<1>2. /\ wire \in Seq(Messages) /\ wire # <<>>
      /\ wire' = Tail(wire) /\ Head(wire) = wire[1]
      /\ UNCHANGED <<me, users, inside>>
  BY ReceivesIs DEF TypeInv, LinkOK, serverVars
<1>3. /\ n \in Nat /\ n >= 1 /\ Len(wire') = n - 1
      /\ \A i \in 0..(n - 1) : r[i] = h[i + 1]
  BY <1>0, <1>2, RestIs
<1>4. /\ IsRun(h, Present, wire) /\ Named(h, wire) /\ h[0] = Present
      /\ \A i \in 0..n : h[i].nick \notin users
      /\ UpToDate(h[n], me, inside)
  BY <1>1 DEF FlightOf, IsRun
<1>5. /\ IsRun(r, Present', wire')
      /\ r[Len(wire')] = h[n]
  BY <1>0, <1>2, <1>4, RunTail
<1>6. Named(r, wire')
  BY <1>0, <1>2, <1>4, NamedTail
<1>7. ASSUME NEW c \in Channels
      PROVE  /\ ~Leaving(h, wire, c) =>
                   ~IsOwnLeave(Present, Head(wire), c) /\ ~Leaving(r, wire', c)
             /\ Joining(h, wire, c) =>
                   IsOwnJoin(Present, Head(wire), c) \/ Joining(r, wire', c)
             /\ Arriving(h, wire, c) =>
                   \/ /\ IsOwnJoin(Present, Head(wire), c)
                      /\ ~Leaving(r, wire', c)
                   \/ Arriving(r, wire', c)
  BY <1>0, <1>2, <1>4, ComingTail
<1> HIDE DEF n
<1>8. \A i \in 0..Len(wire') : r[i].nick \notin users
  <2>1. \A i \in 0..(n - 1) : i + 1 \in 0..n
    BY <1>3
  <2>2. QED
    BY <1>3, <1>4, <2>1
<1>9. ASSUME NEW c \in Channels, me \in inside[c]
      PROVE  \/ Kept(c)' /\ ~Leaving(r, wire', c)
             \/ Arriving(r, wire', c)
  <2>1. (Kept(c) /\ ~Leaving(h, wire, c)) \/ Arriving(h, wire, c)
    BY <1>1, <1>9 DEF FlightOf
  <2>2. QED
    BY <1>7, <2>1
<1>10. ASSUME NEW c \in Channels, me \in inside[c], waiters'[c] # None
       PROVE  Joining(r, wire', c)
  <2>1. Joining(h, wire, c) /\ ~IsOwnJoin(Present, Head(wire), c)
    BY <1>1, <1>10 DEF FlightOf
  <2>2. QED
    BY <1>7, <2>1
<1>11. FlightOf(r, wire, me, users, inside)'
  BY <1>2, <1>4, <1>5, <1>6, <1>8, <1>9, <1>10 DEF FlightOf, UpToDate
<1>12. QED
  BY <1>11 DEF FlightInv

(* One more message is on its way, from a server with other members.       *)
LEMMA OneMore ==
    ASSUME NEW h, NEW w \in Seq(Messages), NEW m \in Messages,
           NEW n, NEW us, NEW ins, FlightOf(h, w, n, us, ins),
           NEW n2, NEW us2, NEW ins2,
           \A i \in 0..Len(w) : h[i].nick \notin us2,
           After(h[Len(w)], m).nick \notin us2,
           UpToDate(After(h[Len(w)], m), n2, ins2),
           \A c \in Channels : n2 \in ins2[c] =>
              \/ n \in ins[c] /\ ~IsOwnLeave(h[Len(w)], m, c)
              \/ IsOwnJoin(h[Len(w)], m, c)
    PROVE  FlightOf(Longer(h, w, m), Append(w, m), n2, us2, ins2)
<1> DEFINE e == Longer(h, w, m)
           a == Append(w, m)
           last == h[Len(w)]
<1>1. /\ Len(w) \in Nat /\ Len(a) = Len(w) + 1
      /\ e[Len(w) + 1] = After(last, m)
      /\ \A i \in 0..Len(w) : e[i] = h[i]
  BY LongerIs
<1>2. IsRun(e, Present, a) /\ Named(e, a)
  BY RunAppend DEF FlightOf
<1>3. ASSUME NEW c \in Channels
      PROVE  /\ Joining(h, w, c) => Joining(e, a, c)
             /\ IsOwnJoin(last, m, c) => Joining(e, a, c) /\ Arriving(e, a, c)
             /\ ~IsOwnLeave(last, m, c) =>
                   /\ ~Leaving(h, w, c) => ~Leaving(e, a, c)
                   /\ Arriving(h, w, c) => Arriving(e, a, c)
  BY ComingAppend
<1> HIDE DEF e, a, last
<1>4. \A i \in 0..Len(a) : e[i].nick \notin us2
  <2>1. \A i \in 0..Len(a) : i = Len(w) + 1 \/ i \in 0..Len(w)
    BY <1>1
  <2>2. QED
    BY <1>1, <2>1 DEF last
<1>5. UpToDate(e[Len(a)], n2, ins2)
  BY <1>1 DEF last
<1>6. ASSUME NEW c \in Channels, n2 \in ins2[c]
      PROVE  /\ (Kept(c) /\ ~Leaving(e, a, c)) \/ Arriving(e, a, c)
             /\ waiters[c] # None => Joining(e, a, c)
  <2>1. CASE IsOwnJoin(last, m, c)
    BY <1>3, <2>1
  <2>2. CASE n \in ins[c] /\ ~IsOwnLeave(last, m, c)
    <3>1. /\ (Kept(c) /\ ~Leaving(h, w, c)) \/ Arriving(h, w, c)
          /\ waiters[c] # None => Joining(h, w, c)
      BY <2>2 DEF FlightOf
    <3>2. QED
      BY <1>3, <2>2, <3>1
  <2>3. QED
    BY <1>6, <2>1, <2>2 DEF last
<1>7. FlightOf(e, a, n2, us2, ins2)
  BY <1>2, <1>4, <1>5, <1>6 DEF FlightOf
<1>8. QED
  BY <1>7 DEF e, a

(* The server changes, and we are told of it if need be: what a flight of  *)
(* the present proxy leads to, it leads to after a step that leaves the    *)
(* proxy alone.                                                            *)
LEMMA SameProxy ==
    ASSUME UNCHANGED proxyVars, NEW h,
           FlightOf(h, wire', me', users', inside')
    PROVE  FlightInv'
<1>1. FlightOf(h, wire, me, users, inside)'
  BY DEF proxyVars, FlightOf, Present, Members, Kept, Joined, UpToDate
<1>2. QED
  BY <1>1 DEF FlightInv

(* Nothing is told.                                                        *)
LEMMA Untold ==
    ASSUME UNCHANGED <<proxyVars, wire>>, NEW h,
           FlightOf(h, wire, me, users, inside),
           \A i \in 0..Len(wire) : h[i].nick \notin users',
           UpToDate(h[Len(wire)], me', inside'),
           \A c \in Channels : me' \in inside'[c] => me \in inside[c]
    PROVE  FlightInv'
<1>1. FlightOf(h, wire', me', users', inside')
  BY DEF FlightOf
<1>2. UNCHANGED proxyVars
  BY DEF proxyVars
<1>3. QED
  BY <1>1, <1>2, SameProxy

-----------------------------------------------------------------------------
(* The handlers do what the views say.                                     *)

LEMMA PresentAfter ==
    ASSUME TypeInv, NEW m, nick' = AfterNick(Present, m),
           \A c \in Channels : Members(c)' = AfterMembers(Present, m, c)
    PROVE  Present' = After(Present, m)
BY DEF Present, After

LEMMA AfterOther ==
    ASSUME TypeInv, NEW m, m.cmd \in {"001", "433", "473"}
    PROVE  /\ After(Present, m) = Present
           /\ \A c : ~IsOwnJoin(Present, m, c) /\ ~IsOwnLeave(Present, m, c)
<1>1. AfterNick(Present, m) = nick
  BY PresentIs DEF AfterNick
<1>2. \A c \in Channels : AfterMembers(Present, m, c) = Members(c)
  BY PresentIs DEF AfterMembers
<1>3. QED
  BY <1>1, <1>2 DEF After, Present, IsOwnJoin, IsOwnLeave

(* One channel is added or replaced.                                       *)
LEMMA WithChannelMembers ==
    ASSUME NEW c, NEW j, NEW m,
           channels' = WithChannel(c, [joined |-> j, members |-> m])
    PROVE  /\ Members(c)' = m
           /\ Joined(c)' <=> j
           /\ \A d : d # c => /\ Members(d)' = Members(d)
                              /\ Joined(d)' <=> Joined(d)
BY DEF WithChannel, Members, Joined

LEMMA KnownOrNewMembers ==
    ASSUME NEW c
    PROVE  /\ KnownOrNew(c).members = Members(c)
           /\ Joined(c) => KnownOrNew(c).joined
BY DEF KnownOrNew, NewChannel, Members, Joined

(* The row that is made of the channels keeps those that are joined.       *)
LEMMA RowKeeps ==
    ASSUME saved' = Persisted(channels'), NEW c, Joined(c)'
    PROVE  Kept(c)'
BY DEF Persisted, Kept, Joined

LEMMA JoinFlight == ASSUME TypeInv, FlightInv, OnJoin PROVE FlightInv'
<1>0. PICK m : m = Head(wire)
  OBVIOUS
<1> DEFINE n == m.nick
           c == m.chan
           old == KnownOrNew(c)
<1>1. /\ Receives("JOIN")
      /\ channels' = WithChannel(c, [joined |-> old.joined \/ n = nick,
                                     members |-> old.members \cup {n}])
      /\ IF n = nick
           THEN ResolveJoin(c) /\ saved' = Persisted(channels')
           ELSE UNCHANGED <<waiters, req, saved>>
      /\ UNCHANGED <<nick, serverVars>>
  BY <1>0 DEF OnJoin
<1>2. m \in Messages /\ m.cmd = "JOIN"
  BY <1>0, <1>1, ReceivesIs DEF TypeInv
<1>3. old.members = Members(c) /\ (Joined(c) => old.joined)
  BY KnownOrNewMembers
<1>4. /\ Members(c)' = old.members \cup {n}
      /\ Joined(c)' <=> (old.joined \/ n = nick)
      /\ \A d : d # c => /\ Members(d)' = Members(d)
                         /\ Joined(d)' <=> Joined(d)
  BY <1>1, WithChannelMembers
<1>5. waiters \in [Channels -> Requests \cup {None}]
  BY DEF TypeInv, ProxyOK
<1> HIDE DEF n, c, old
<1>6. Present' = After(Present, m)
  <2>1. nick' = AfterNick(Present, m)
    BY <1>1, <1>2, PresentIs DEF AfterNick
  <2>2. ASSUME NEW d \in Channels
        PROVE  Members(d)' = AfterMembers(Present, m, d)
    BY <1>2, <1>3, <1>4, PresentIs DEF AfterMembers, n, c
  <2>3. QED
    BY <2>1, <2>2, PresentAfter
<1>7. \A d : Joined(d) => Joined(d)'
  BY <1>3, <1>4
<1>8. \A d : Kept(d) => Kept(d)'
  <2>1. CASE n = nick
    BY <1>1, <1>7, <2>1, RowKeeps DEF Kept
  <2>2. CASE n # nick
    BY <1>1, <1>7, <2>2 DEF Kept
  <2>3. QED
    BY <2>1, <2>2
<1>9. ASSUME NEW d \in Channels, IsOwnJoin(Present, m, d)
      PROVE  Kept(d)' /\ waiters'[d] = None
  <2>1. d = c /\ n = nick
    BY <1>9, PresentIs DEF IsOwnJoin, c, n
  <2>2. Joined(d)'
    BY <1>4, <2>1
  <2>3. Kept(d)'
    BY <1>1, <2>1, <2>2, RowKeeps
  <2>4. waiters'[d] = None
    BY <1>1, <1>5, <2>1 DEF ResolveJoin
  <2>5. QED
    BY <2>3, <2>4
<1>10. \A d \in Channels : waiters'[d] # None => waiters[d] # None
  BY <1>1, <1>5 DEF ResolveJoin
<1>11. QED
  BY <1>1, <1>6, <1>8, <1>9, <1>10, <1>0, EventFlight

LEMMA PartFlight == ASSUME TypeInv, FlightInv, OnPart PROVE FlightInv'
<1>0. PICK m : m = Head(wire)
  OBVIOUS
<1> DEFINE n == m.nick
           c == m.chan
<1>1. /\ Receives("PART") /\ UNCHANGED <<nick, waiters, serverVars>>
      /\ saved' = saved \/ saved' = Persisted(channels')
  BY <1>0 DEF OnPart
<1>2. m \in Messages /\ m.cmd = "PART"
  BY <1>0, <1>1, ReceivesIs DEF TypeInv
<1>3. /\ Members(c)' = IF n = nick THEN {} ELSE Members(c) \ {n}
      /\ n # nick => (Joined(c)' <=> Joined(c))
      /\ \A d : d # c => /\ Members(d)' = Members(d)
                         /\ Joined(d)' <=> Joined(d)
  <2>1. CASE c \notin DOMAIN channels
    BY <1>0, <2>1 DEF OnPart, Members, Joined
  <2>2. CASE c \in DOMAIN channels /\ n = nick
    <3>1. channels' = WithChannel(c, [joined |-> FALSE, members |-> {}])
      BY <1>0, <2>2 DEF OnPart
    <3> HIDE DEF c, n
    <3>2. QED
      BY <2>2, <3>1, WithChannelMembers
  <2>3. CASE c \in DOMAIN channels /\ n # nick
    <3>1. /\ channels' = WithChannel(c,
                [channels[c] EXCEPT !.members = channels[c].members \ {n}])
          /\ channels[c] = [joined |-> channels[c].joined,
                            members |-> channels[c].members]
      BY <1>0, <2>3 DEF OnPart, TypeInv, ChannelsOK
    <3> HIDE DEF c, n
    <3>2. channels' = WithChannel(c, [joined |-> channels[c].joined,
                                      members |-> channels[c].members \ {n}])
      BY <3>1, ReplaceMembers
    <3>3. /\ Members(c) = channels[c].members
          /\ Joined(c) <=> channels[c].joined
      BY <2>3 DEF Members, Joined
    <3>4. QED
      BY <2>3, <3>2, <3>3, WithChannelMembers
  <2>4. QED
    BY <2>1, <2>2, <2>3
<1> HIDE DEF n, c
<1>4. Present' = After(Present, m)
  <2>1. nick' = AfterNick(Present, m)
    BY <1>1, <1>2, PresentIs DEF AfterNick
  <2>2. ASSUME NEW d \in Channels
        PROVE  Members(d)' = AfterMembers(Present, m, d)
    BY <1>2, <1>3, PresentIs DEF AfterMembers, n, c
  <2>3. QED
    BY <2>1, <2>2, PresentAfter
<1>5. ASSUME NEW d \in Channels, Kept(d), ~IsOwnLeave(Present, m, d)
      PROVE  Kept(d)'
  <2>1. d # c \/ n # nick
    BY <1>2, <1>5, PresentIs DEF IsOwnLeave, c, n
  <2>2. Joined(d)'
    BY <1>3, <1>5, <2>1 DEF Kept
  <2>3. CASE saved' = saved
    BY <1>5, <2>2, <2>3 DEF Kept
  <2>4. CASE saved' = Persisted(channels')
    BY <2>2, <2>4, RowKeeps
  <2>5. QED
    BY <1>1, <2>3, <2>4
<1>6. \A d : ~IsOwnJoin(Present, m, d)
  BY <1>2 DEF IsOwnJoin
<1>7. QED
  BY <1>1, <1>4, <1>5, <1>6, <1>0, EventFlight

LEMMA KickFlight == ASSUME TypeInv, FlightInv, OnKick PROVE FlightInv'
<1>0. PICK m : m = Head(wire)
  OBVIOUS
<1> DEFINE n == m.nick
           c == m.chan
<1>1. /\ Receives("KICK") /\ UNCHANGED <<nick, waiters, serverVars>>
      /\ saved' = saved \/ saved' = Persisted(channels')
  BY <1>0 DEF OnKick
<1>2. m \in Messages /\ m.cmd = "KICK"
  BY <1>0, <1>1, ReceivesIs DEF TypeInv
<1>3. /\ Members(c)' = IF n = nick THEN {} ELSE Members(c) \ {n}
      /\ n # nick => (Joined(c)' <=> Joined(c))
      /\ \A d : d # c => /\ Members(d)' = Members(d)
                         /\ Joined(d)' <=> Joined(d)
  <2>1. CASE c \notin DOMAIN channels
    BY <1>0, <2>1 DEF OnKick, Members, Joined
  <2>2. CASE c \in DOMAIN channels /\ n = nick
    <3>1. channels' = [d \in DOMAIN channels \ {c} |-> channels[d]]
      BY <1>0, <2>2 DEF OnKick
    <3> HIDE DEF c, n
    <3>2. QED
      BY <2>2, <3>1 DEF Members, Joined
  <2>3. CASE c \in DOMAIN channels /\ n # nick
    <3>1. /\ channels' = WithChannel(c,
                [channels[c] EXCEPT !.members = channels[c].members \ {n}])
          /\ channels[c] = [joined |-> channels[c].joined,
                            members |-> channels[c].members]
      BY <1>0, <2>3 DEF OnKick, TypeInv, ChannelsOK
    <3> HIDE DEF c, n
    <3>2. channels' = WithChannel(c, [joined |-> channels[c].joined,
                                      members |-> channels[c].members \ {n}])
      BY <3>1, ReplaceMembers
    <3>3. /\ Members(c) = channels[c].members
          /\ Joined(c) <=> channels[c].joined
      BY <2>3 DEF Members, Joined
    <3>4. QED
      BY <2>3, <3>2, <3>3, WithChannelMembers
  <2>4. QED
    BY <2>1, <2>2, <2>3
<1> HIDE DEF n, c
<1>4. Present' = After(Present, m)
  <2>1. nick' = AfterNick(Present, m)
    BY <1>1, <1>2, PresentIs DEF AfterNick
  <2>2. ASSUME NEW d \in Channels
        PROVE  Members(d)' = AfterMembers(Present, m, d)
    BY <1>2, <1>3, PresentIs DEF AfterMembers, n, c
  <2>3. QED
    BY <2>1, <2>2, PresentAfter
<1>5. ASSUME NEW d \in Channels, Kept(d), ~IsOwnLeave(Present, m, d)
      PROVE  Kept(d)'
  <2>1. d # c \/ n # nick
    BY <1>2, <1>5, PresentIs DEF IsOwnLeave, c, n
  <2>2. Joined(d)'
    BY <1>3, <1>5, <2>1 DEF Kept
  <2>3. CASE saved' = saved
    BY <1>5, <2>2, <2>3 DEF Kept
  <2>4. CASE saved' = Persisted(channels')
    BY <2>2, <2>4, RowKeeps
  <2>5. QED
    BY <1>1, <2>3, <2>4
<1>6. \A d : ~IsOwnJoin(Present, m, d)
  BY <1>2 DEF IsOwnJoin
<1>7. QED
  BY <1>1, <1>4, <1>5, <1>6, <1>0, EventFlight

(* Only members change.                                                    *)
LEMMA MembersOnly ==
    ASSUME NEW M, channels' = [c \in DOMAIN channels |->
                                  [channels[c] EXCEPT !.members = M[c]]],
           ChannelsOK
    PROVE  \A c : /\ Joined(c)' <=> Joined(c)
                  /\ c \in DOMAIN channels => Members(c)' = M[c]
                  /\ c \notin DOMAIN channels => Members(c)' = {}
<1>1. \A c \in DOMAIN channels :
         channels'[c] = [joined |-> channels[c].joined, members |-> M[c]]
  BY DEF ChannelsOK
<1>2. QED
  BY <1>1 DEF Joined, Members

LEMMA QuitFlight == ASSUME TypeInv, FlightInv, OnQuit PROVE FlightInv'
<1>0. PICK m : m = Head(wire)
  OBVIOUS
<1>1. PICK M : M = [c \in DOMAIN channels |-> channels[c].members \ {m.nick}]
  OBVIOUS
<1>2. /\ Receives("QUIT") /\ UNCHANGED <<nick, saved, waiters, serverVars>>
      /\ channels' = [c \in DOMAIN channels |->
                         [channels[c] EXCEPT !.members = M[c]]]
  BY <1>0, <1>1 DEF OnQuit
<1>3. m \in Messages /\ m.cmd = "QUIT"
  BY <1>0, <1>2, ReceivesIs DEF TypeInv
<1>4. \A c : /\ Joined(c)' <=> Joined(c)
             /\ c \in DOMAIN channels => Members(c)' = M[c]
             /\ c \notin DOMAIN channels => Members(c)' = {}
  BY <1>2, MembersOnly DEF TypeInv
<1>5. \A c : Members(c)' = Members(c) \ {m.nick}
  BY <1>1, <1>4 DEF Members
<1>6. Present' = After(Present, m)
  <2>1. nick' = AfterNick(Present, m)
    BY <1>2, <1>3, PresentIs DEF AfterNick
  <2>2. \A d \in Channels : Members(d)' = AfterMembers(Present, m, d)
    BY <1>3, <1>5, PresentIs DEF AfterMembers
  <2>3. QED
    BY <2>1, <2>2, PresentAfter
<1>7. \A d : Kept(d) => Kept(d)'
  BY <1>2, <1>4 DEF Kept
<1>8. \A d : ~IsOwnJoin(Present, m, d)
  BY <1>3 DEF IsOwnJoin
<1>9. QED
  BY <1>0, <1>2, <1>6, <1>7, <1>8, EventFlight

LEMMA NickFlight == ASSUME TypeInv, FlightInv, OnNick PROVE FlightInv'
<1>0. PICK m : m = Head(wire)
  OBVIOUS
<1>1. PICK M : M = [c \in DOMAIN channels |->
                       Renamed(channels[c].members, m.nick, m.new)]
  OBVIOUS
<1>2. /\ Receives("NICK") /\ UNCHANGED <<saved, waiters, serverVars>>
      /\ nick' = NickAfter(m.nick, m.new)
      /\ channels' = [c \in DOMAIN channels |->
                         [channels[c] EXCEPT !.members = M[c]]]
  BY <1>0, <1>1 DEF OnNick
<1>3. m \in Messages /\ m.cmd = "NICK"
  BY <1>0, <1>2, ReceivesIs DEF TypeInv
<1>4. \A c : /\ Joined(c)' <=> Joined(c)
             /\ c \in DOMAIN channels => Members(c)' = M[c]
             /\ c \notin DOMAIN channels => Members(c)' = {}
  BY <1>2, MembersOnly DEF TypeInv
<1>5. \A c : Members(c)' = Renamed(Members(c), m.nick, m.new)
  BY <1>1, <1>4 DEF Members, Renamed
<1>6. Present' = After(Present, m)
  <2>1. nick' = AfterNick(Present, m)
    BY <1>2, <1>3, PresentIs DEF AfterNick, NickAfter
  <2>2. \A d \in Channels : Members(d)' = AfterMembers(Present, m, d)
    BY <1>3, <1>5, PresentIs DEF AfterMembers
  <2>3. QED
    BY <2>1, <2>2, PresentAfter
<1>7. \A d : Kept(d) => Kept(d)'
  BY <1>2, <1>4 DEF Kept
<1>8. \A d : ~IsOwnJoin(Present, m, d)
  BY <1>3 DEF IsOwnJoin
<1>9. QED
  BY <1>0, <1>2, <1>6, <1>7, <1>8, EventFlight

LEMMA NamesFlight == ASSUME TypeInv, FlightInv, OnNames PROVE FlightInv'
<1>0. PICK m : m = Head(wire)
  OBVIOUS
<1> DEFINE c == m.chan
           old == KnownOrNew(c)
<1>1. /\ Receives("353") /\ UNCHANGED <<nick, saved, waiters, serverVars>>
      /\ channels' = WithChannel(c,
            [old EXCEPT !.members = old.members \cup m.names])
  BY <1>0 DEF OnNames
<1>2. m \in Messages /\ m.cmd = "353"
  BY <1>0, <1>1, ReceivesIs DEF TypeInv
<1>3. old = [joined |-> old.joined, members |-> old.members]
  BY KnownOrNewIs DEF TypeInv
<1>4. old.members = Members(c) /\ (Joined(c) => old.joined)
  BY KnownOrNewMembers
<1> HIDE DEF c, old
<1>5. channels' = WithChannel(c, [joined |-> old.joined,
                                  members |-> old.members \cup m.names])
  BY <1>1, <1>3, ReplaceMembers
<1>6. /\ Members(c)' = Members(c) \cup m.names
      /\ \A d : Joined(d) => Joined(d)'
      /\ \A d : d # c => Members(d)' = Members(d)
  BY <1>4, <1>5, WithChannelMembers DEF c
<1>7. Present' = After(Present, m)
  <2>1. nick' = AfterNick(Present, m)
    BY <1>1, <1>2, PresentIs DEF AfterNick
  <2>2. \A d \in Channels : Members(d)' = AfterMembers(Present, m, d)
    BY <1>2, <1>6, PresentIs DEF AfterMembers, c
  <2>3. QED
    BY <2>1, <2>2, PresentAfter
<1>8. \A d : Kept(d) => Kept(d)'
  BY <1>1, <1>6 DEF Kept
<1>9. \A d : ~IsOwnJoin(Present, m, d)
  BY <1>2 DEF IsOwnJoin
<1>10. QED
  BY <1>0, <1>1, <1>7, <1>8, <1>9, EventFlight

LEMMA OtherFlight ==
    ASSUME TypeInv, FlightInv, OnWelcome \/ OnNickInUse \/ OnJoinError
    PROVE  FlightInv'
<1>1. PICK cmd \in {"001", "433", "473"} : Receives(cmd)
  BY DEF OnWelcome, OnNickInUse, OnJoinError
<1>2. UNCHANGED <<nick, channels, saved, serverVars>>
  BY DEF OnWelcome, OnNickInUse, OnJoinError
<1>3. Head(wire).cmd \in {"001", "433", "473"}
  BY <1>1, ReceivesIs DEF TypeInv
<1>4. Present' = Present
  BY <1>2 DEF Present, Members
<1>5. /\ After(Present, Head(wire)) = Present
      /\ \A c : /\ ~IsOwnJoin(Present, Head(wire), c)
                /\ ~IsOwnLeave(Present, Head(wire), c)
  BY <1>3, AfterOther
<1>6. \A c : Kept(c) => Kept(c)'
  BY <1>2 DEF Kept, Joined
<1>7. \A c \in Channels : waiters'[c] # None => waiters[c] # None
  BY DEF OnWelcome, OnNickInUse, OnJoinError, ResolveJoin, TypeInv, ProxyOK
<1>8. QED
  BY <1>1, <1>2, <1>4, <1>5, <1>6, <1>7, EventFlight

LEMMA EventStepFlight == ASSUME TypeInv, FlightInv, Event PROVE FlightInv'
BY JoinFlight, PartFlight, KickFlight, QuitFlight, NickFlight, NamesFlight,
   OtherFlight DEF Event

-----------------------------------------------------------------------------
(* The connection and the requests.                                        *)

LEMMA FlightInit == Init => TypeInv /\ RegisterInv /\ FlightInv
<1> SUFFICES ASSUME Init
             PROVE  TypeInv /\ RegisterInv /\ FlightInv
  OBVIOUS
<1>1. TypeInv
  BY TypeInit
<1>2. RegisterInv
  BY DEF Init, RegisterInv
<1>3. PICK h : /\ IsRun(h, Present, <<>>) /\ Named(h, <<>>)
               /\ Len(<<>>) = 0
               /\ \A i \in 0..0 : h[i] = Present
               /\ h[0] = Present
  BY <1>1, PresentIs, EmptyRun
<1>4. /\ wire = <<>> /\ me = None /\ users = {}
      /\ \A c \in Channels : inside[c] = {} /\ Members(c) = {}
  BY DEF Init, Members
<1>5. UpToDate(Present, me, inside)
  BY <1>1, <1>4, PresentIs DEF UpToDate
<1>6. FlightOf(h, wire, me, users, inside)
  BY <1>3, <1>4, <1>5 DEF FlightOf
<1>7. QED
  BY <1>1, <1>2, <1>6 DEF FlightInv

(* The connection is gone, with all that was under way.                    *)
LEMMA LostFlight ==
    ASSUME TypeInv', wire' = <<>>, me' = None, nick' \notin users',
           \A c \in Channels : Members(c)' = {}
    PROVE  FlightInv'
<1>1. PICK v : v = [nick |-> nick', roster |-> [c \in Channels |-> {}]]
  OBVIOUS
<1>2. nick' \in Nicks /\ inside' \in [Channels -> SUBSET Nicks]
  BY DEF TypeInv, ProxyOK, ServerOK
<1>3. v \in Views /\ v.nick = nick' /\ \A c \in Channels : v.roster[c] = {}
  BY <1>1, <1>2 DEF Views
<1>4. Present' = v
  BY <1>1 DEF Present
<1>5. PICK h : /\ IsRun(h, v, <<>>) /\ Named(h, <<>>)
               /\ Len(<<>>) = 0
               /\ \A i \in 0..0 : h[i] = v
               /\ h[0] = v
  BY <1>3, EmptyRun
<1>6. \A c \in Channels : me' \notin inside'[c]
  BY <1>2, NoneIs
<1>7. FlightOf(h, wire, me, users, inside)'
  BY <1>3, <1>4, <1>5, <1>6 DEF FlightOf, UpToDate
<1>8. QED
  BY <1>7 DEF FlightInv

(* Without a ghost the server forgets us altogether.                       *)
LEMMA ForgottenIs ==
    ASSUME TypeInv, RegisterInv, "ghost" \notin Inputs, ServerForgetsUs
    PROVE  /\ me' = None /\ UNCHANGED users
           /\ \A c \in Channels : inside'[c] \subseteq users
BY DEF ServerForgetsUs, RegisterInv

LEMMA DropFlight ==
    ASSUME FullInv, "ghost" \notin Inputs, Drop
    PROVE  RegisterInv' /\ FlightInv'
<1>1. /\ ServerForgetsUs /\ wire' = <<>> /\ out' = <<>> /\ link' = "down"
      /\ channels' = MembersCleared /\ UNCHANGED <<nick, saved>>
  BY DEF Drop
<1>2. TypeInv'
  BY DropTypes DEF FullInv
<1>3. /\ me' = None /\ UNCHANGED users
      /\ \A c \in Channels : inside'[c] \subseteq users
  BY <1>1, ForgottenIs DEF FullInv
<1>4. nick' \notin users'
  BY <1>1, <1>3, OurNickIsFree DEF FullInv
<1>5. \A c \in Channels : Members(c)' = {}
  BY <1>1 DEF MembersCleared, Members, FullInv, TypeInv, ChannelsOK
<1>6. RegisterInv'
  BY <1>1, <1>3 DEF RegisterInv, FullInv
<1>7. QED
  BY <1>1, <1>2, <1>3, <1>4, <1>5, <1>6, LostFlight

LEMMA RestartFlight ==
    ASSUME FullInv, "ghost" \notin Inputs, Restart
    PROVE  RegisterInv' /\ FlightInv'
<1>1. /\ ServerForgetsUs /\ wire' = <<>> /\ out' = <<>> /\ link' = "down"
      /\ channels' = [c \in saved.channels |-> NewChannel]
      /\ nick' = saved.nick /\ UNCHANGED saved
  BY DEF Restart
<1>2. TypeInv'
  BY RestartTypes DEF FullInv
<1>3. /\ me' = None /\ UNCHANGED users
      /\ \A c \in Channels : inside'[c] \subseteq users
  BY <1>1, ForgottenIs DEF FullInv
<1>4. nick' \notin users'
  BY <1>1, <1>3 DEF FullInv, RegisterInv
<1>5. \A c \in Channels : Members(c)' = {}
  BY <1>1 DEF Members, NewChannel
<1>6. RegisterInv'
  BY <1>1, <1>3 DEF RegisterInv, FullInv
<1>7. QED
  BY <1>1, <1>2, <1>3, <1>4, <1>5, <1>6, LostFlight

LEMMA ConnectFlight ==
    ASSUME FullInv, Connect
    PROVE  RegisterInv' /\ FlightInv'
<1>1. /\ link = "down" /\ link' = "registering" /\ wire' = <<>>
      /\ out' = <<[cmd |-> "NICK", nick |-> nick]>>
      /\ UNCHANGED <<nick, channels, saved, waiters, me, users, inside>>
  BY DEF Connect
<1>2. me = None /\ wire = <<>>
  BY <1>1 DEF FullInv, TypeInv, LinkInv, RegisterInv
<1>3. RegisterInv'
  BY <1>1, <1>2 DEF FullInv, RegisterInv
<1>4. Present' = Present
  BY <1>1 DEF Present, Members
<1>5. \A c : Kept(c) => Kept(c)'
  BY <1>1 DEF Kept, Joined
<1>6. FlightInv'
  BY <1>1, <1>2, <1>4, <1>5, ProxyFlight DEF FullInv
<1>7. QED
  BY <1>3, <1>6

LEMMA SendFlight ==
    ASSUME FullInv, NEW c \in Channels, SendChannelMessage(c)
    PROVE  FlightInv'
<1>1. /\ channels' = WithChannel(c, [joined |-> TRUE, members |-> {}])
      /\ c \notin DOMAIN channels
      /\ UNCHANGED <<nick, saved, waiters, wire, me, users, inside>>
  BY DEF SendChannelMessage, NewChannel, serverVars
<1>2. /\ Members(c)' = {} /\ Members(c) = {} /\ Joined(c)'
      /\ \A d : d # c => /\ Members(d)' = Members(d)
                         /\ Joined(d)' <=> Joined(d)
  BY <1>1, WithChannelMembers DEF Members
<1>3. Present' = Present
  BY <1>1, <1>2 DEF Present
<1>4. \A d : Kept(d) => Kept(d)'
  BY <1>1, <1>2 DEF Kept
<1>5. QED
  BY <1>1, <1>3, <1>4, ProxyFlight DEF FullInv

LEMMA RequestFlight ==
    ASSUME FullInv, SaveNetwork \/ Request
    PROVE  RegisterInv' /\ FlightInv'
<1>1. CASE SaveNetwork
  <2>1. /\ saved' = Persisted(channels)
        /\ UNCHANGED <<nick, channels, waiters, link, wire, out, me, users,
                       inside>>
    BY <1>1 DEF SaveNetwork, serverVars
  <2>2. Present' = Present
    BY <2>1 DEF Present, Members
  <2>3. \A c : Kept(c) => Kept(c)'
    BY <2>1 DEF Kept, Joined, Persisted
  <2>4. saved'.nick = nick /\ nick \notin users
    BY <2>1, OurNickIsFree DEF FullInv, Persisted
  <2>5. RegisterInv'
    BY <2>1, <2>4 DEF FullInv, RegisterInv
  <2>6. QED
    BY <2>1, <2>2, <2>3, <2>5, ProxyFlight DEF FullInv
<1>2. ASSUME Request, UNCHANGED <<nick, channels, saved, link, wire, me, users,
                                  inside>>,
             link = "up" \/ UNCHANGED out,
             \A c \in Channels :
                waiters'[c] # None => waiters[c] # None \/ ~Joined(c)
      PROVE  RegisterInv' /\ FlightInv'
  <2>1. Present' = Present
    BY <1>2 DEF Present, Members
  <2>2. \A c : Kept(c) => Joined(c) /\ Kept(c)'
    BY <1>2 DEF Kept, Joined
  <2>3. RegisterInv'
    BY <1>2 DEF FullInv, RegisterInv, TypeInv, LinkInv
  <2>4. QED
    BY <1>2, <2>1, <2>2, <2>3, ProxyFlight DEF FullInv
<1>3. ASSUME NEW r \in Requests, NEW c \in Channels, JoinChannel(r, c)
      PROVE  RegisterInv' /\ FlightInv'
  <2>1. \A d \in Channels :
           waiters'[d] # None => waiters[d] # None \/ ~Joined(d)
    BY <1>3 DEF JoinChannel, FullInv, TypeInv, ProxyOK
  <2>2. QED
    BY <1>2, <1>3, <2>1 DEF JoinChannel, Request
<1>4. ASSUME NEW r \in Requests, JoinTimesOut(r)
      PROVE  RegisterInv' /\ FlightInv'
  <2>1. \A d \in Channels :
           waiters'[d] # None => waiters[d] # None \/ ~Joined(d)
    BY <1>4 DEF JoinTimesOut
  <2>2. QED
    BY <1>2, <1>4, <2>1 DEF JoinTimesOut, Request
<1>5. ASSUME NEW c \in Channels, PartChannel(c)
      PROVE  RegisterInv' /\ FlightInv'
    BY <1>2, <1>5 DEF PartChannel, Request, proxyVars, serverVars
<1>6. ASSUME NEW c \in Channels, SendChannelMessage(c)
      PROVE  RegisterInv' /\ FlightInv'
  <2>1. RegisterInv'
    BY <1>6 DEF SendChannelMessage, serverVars, FullInv, RegisterInv
  <2>2. QED
    BY <1>6, <2>1, SendFlight
<1>7. ASSUME NEW n \in Nicks, ChangeNick(n)
      PROVE  RegisterInv' /\ FlightInv'
    BY <1>2, <1>7 DEF ChangeNick, Request, proxyVars, serverVars
<1>8. QED
  BY <1>1, <1>3, <1>4, <1>5, <1>6, <1>7 DEF Request

(* A message is there to be handled, so the server knows us.               *)
LEMMA EventRegister ==
    ASSUME FullInv, Event
    PROVE  RegisterInv'
<1>1. wire # <<>> /\ UNCHANGED <<me, users, inside>>
  BY DEF Event, OnWelcome, OnNickInUse, OnJoin, OnJoinError, OnPart, OnKick,
         OnQuit, OnNick, OnNames, Receives, serverVars
<1>2. me # None
  BY <1>1 DEF FullInv, RegisterInv
<1>3. saved' = saved \/ saved'.nick = nick
  <2>1. CASE OnJoin
    BY <2>1 DEF OnJoin, Persisted
  <2>2. CASE OnPart
    BY <2>2 DEF OnPart, Persisted
  <2>3. CASE OnKick
    BY <2>3 DEF OnKick, Persisted
  <2>4. QED
    BY <2>1, <2>2, <2>3
       DEF Event, OnWelcome, OnNickInUse, OnJoinError, OnQuit, OnNick, OnNames
<1>4. nick \notin users /\ saved.nick \notin users
  BY OurNickIsFree DEF FullInv, RegisterInv
<1>5. QED
  BY <1>1, <1>2, <1>3, <1>4 DEF FullInv, RegisterInv

-----------------------------------------------------------------------------
(* The server and the other users.                                         *)

(* The facts about a flight that every step of the server needs.           *)
LEMMA LastIs ==
    ASSUME TypeInv, NEW h, FlightOf(h, wire, me, users, inside)
    PROVE  /\ h[Len(wire)] \in Views
           /\ h[Len(wire)].nick \notin users
           /\ me # None => h[Len(wire)].nick = me
           /\ \A c \in Channels :
                 h[Len(wire)].roster[c] =
                     IF me \in inside[c] THEN inside[c] ELSE {}
<1>1. Len(wire) \in 0..Len(wire)
  BY WireIs
<1>2. QED
  BY <1>1 DEF FlightOf, IsRun, UpToDate

(* One message is told.                                                    *)
LEMMA ToldFlight ==
    ASSUME TypeInv, UNCHANGED proxyVars, NEW m \in Messages, Tells(<<m>>),
           NEW h, FlightOf(h, wire, me, users, inside),
           \A i \in 0..Len(wire) : h[i].nick \notin users',
           After(h[Len(wire)], m).nick \notin users',
           UpToDate(After(h[Len(wire)], m), me', inside'),
           \A c \in Channels : me' \in inside'[c] =>
              \/ me \in inside[c] /\ ~IsOwnLeave(h[Len(wire)], m, c)
              \/ IsOwnJoin(h[Len(wire)], m, c)
    PROVE  FlightInv'
<1>1. wire \in Seq(Messages)
  BY WireIs
<1>2. wire' = Append(wire, m)
  BY <1>1 DEF Tells
<1>3. FlightOf(Longer(h, wire, m), Append(wire, m), me', users', inside')
  BY <1>1, OneMore
<1>4. PICK e : FlightOf(e, wire', me', users', inside')
  BY <1>2, <1>3
<1>5. QED
  BY <1>4, SameProxy

LEMMA TakesNickFlight ==
    ASSUME FullInv, ServerTakesNick
    PROVE  RegisterInv' /\ FlightInv'
<1>0. PICK n : n = Head(out).nick
  OBVIOUS
<1>1. /\ Takes("NICK") /\ UNCHANGED <<proxyVars, link>>
      /\ TypeInv /\ n \in Nicks /\ n # None
  BY <1>0, TakesIs, CommandIs, NoneIs DEF ServerTakesNick, FullInv, TypeInv
<1>2. PICK h : FlightOf(h, wire, me, users, inside)
  BY DEF FullInv, FlightInv
<1>3. /\ h[Len(wire)] \in Views
      /\ me # None => h[Len(wire)].nick = me
      /\ \A c \in Channels :
            h[Len(wire)].roster[c] = IF me \in inside[c] THEN inside[c] ELSE {}
  BY <1>1, <1>2, LastIs
<1>4. UNCHANGED <<saved, nick, link>>
  BY <1>1 DEF proxyVars
(* The server knows us, or it is asked for the nick of the network.        *)
<1>5. me = None => n = nick /\ wire = <<>> /\ n \notin users
  <2> SUFFICES ASSUME me = None
               PROVE  n = nick /\ wire = <<>> /\ n \notin users
    OBVIOUS
  <2>1. out = <<[cmd |-> "NICK", nick |-> nick]>> /\ wire = <<>>
    BY <1>1 DEF FullInv, RegisterInv, Takes
  <2>2. Head(out).nick = nick
    BY <2>1
  <2>3. QED
    BY <1>0, <1>1, <2>1, <2>2, OurNickIsFree DEF FullInv
<1>6. CASE n = me
  <2>1. UNCHANGED <<wire, me, users, inside>>
    BY <1>0, <1>6 DEF ServerTakesNick, serverVars
  <2>2. FlightInv'
    BY <1>1, <1>2, <2>1, SameProxy
  <2>3. RegisterInv'
    BY <1>1, <1>4, <1>6, <2>1 DEF FullInv, RegisterInv
  <2>4. QED
    BY <2>2, <2>3
<1>7. CASE n # me /\ n \in users
  <2>1. UNCHANGED <<me, users, inside>> /\ Tells(<<[cmd |-> "433"]>>)
    BY <1>0, <1>7 DEF ServerTakesNick, serverVars
  <2>2. me # None
    BY <1>5, <1>7
  <2>3. PICK m : m = [cmd |-> "433"]
    OBVIOUS
  <2>4. m \in Messages /\ m.cmd = "433" /\ Tells(<<m>>)
    BY <2>1, <2>3 DEF Messages
  <2>5. /\ AfterNick(h[Len(wire)], m) = h[Len(wire)].nick
        /\ \A c : AfterMembers(h[Len(wire)], m, c) = h[Len(wire)].roster[c]
        /\ \A c : ~IsOwnLeave(h[Len(wire)], m, c)
    BY <2>4 DEF AfterNick, AfterMembers, IsOwnLeave
  <2>6. UpToDate(After(h[Len(wire)], m), me', inside')
    BY <1>3, <2>1, <2>4, <2>5, AfterIs DEF UpToDate
  <2>7. After(h[Len(wire)], m).nick \notin users'
    BY <1>1, <1>2, <1>3, <2>1, <2>4, <2>5, AfterIs, LastIs
  <2>8. \A i \in 0..Len(wire) : h[i].nick \notin users'
    BY <1>2, <2>1 DEF FlightOf
  <2>9. FlightInv'
    BY <1>1, <1>2, <2>1, <2>4, <2>5, <2>6, <2>7, <2>8, ToldFlight
  <2>10. RegisterInv'
    BY <1>4, <2>1, <2>2 DEF FullInv, RegisterInv
  <2>11. QED
    BY <2>9, <2>10
<1>8. CASE n # me /\ n \notin users
  <2>1. /\ me' = n /\ UNCHANGED users
        /\ inside' = [c \in Channels |-> Replaced(inside[c], me, n)]
        /\ Tells(IF me = None
                   THEN <<[cmd |-> "001", nick |-> n]>>
                   ELSE <<[cmd |-> "NICK", nick |-> me, new |-> n]>>)
    BY <1>0, <1>8 DEF ServerTakesNick
  <2>2. \A c \in Channels : inside[c] \subseteq users \cup {me}
    BY DEF FullInv, RegisterInv
  <2>3. RegisterInv'
    BY <1>1, <1>4, <2>1, <2>2 DEF FullInv, RegisterInv, Replaced
  <2>4. PICK m : m = IF me = None
                       THEN [cmd |-> "001", nick |-> n]
                       ELSE [cmd |-> "NICK", nick |-> me, new |-> n]
    OBVIOUS
  <2>5. Tells(<<m>>)
    BY <2>1, <2>4
  <2>6. \A i \in 0..Len(wire) : h[i].nick \notin users'
    BY <1>2, <2>1 DEF FlightOf
  <2>7. CASE me = None
    <3>1. m \in Messages /\ m.cmd = "001"
      BY <1>1, <2>4, <2>7 DEF Messages
    <3>2. /\ AfterNick(h[Len(wire)], m) = h[Len(wire)].nick
          /\ \A c : AfterMembers(h[Len(wire)], m, c) = h[Len(wire)].roster[c]
      BY <3>1 DEF AfterNick, AfterMembers
    <3>3. \A c \in Channels : me \notin inside[c]
      BY <1>1, <2>7, WireIs
    <3>4. \A c \in Channels : me' \notin inside'[c]
      BY <1>8, <2>1, <2>2, <2>7, <3>3 DEF Replaced
    <3>5. h[Len(wire)].nick = n
      BY <1>1, <1>2, <1>5, <2>7 DEF FlightOf, IsRun, Present
    <3>6. UpToDate(After(h[Len(wire)], m), me', inside')
      BY <1>3, <2>1, <3>1, <3>2, <3>3, <3>4, <3>5, AfterIs DEF UpToDate
    <3>7. After(h[Len(wire)], m).nick \notin users'
      BY <1>3, <1>8, <2>1, <3>1, <3>2, <3>5, AfterIs
    <3>8. QED
      BY <1>1, <1>2, <2>3, <2>5, <2>6, <3>1, <3>4, <3>6, <3>7, ToldFlight
  <2>8. CASE me # None
    <3>1. /\ m \in Messages /\ m.cmd = "NICK" /\ m.nick = me /\ m.new = n
          /\ me \in Nicks /\ me \notin users
      BY <1>1, <2>4, <2>8 DEF Messages, TypeInv, ServerOK
    <3>2. AfterNick(h[Len(wire)], m) = n
      BY <1>3, <2>8, <3>1 DEF AfterNick
    <3>3. \A c \in Channels :
             /\ AfterMembers(h[Len(wire)], m, c) =
                    Renamed(h[Len(wire)].roster[c], me, n)
             /\ ~IsOwnLeave(h[Len(wire)], m, c)
      BY <3>1 DEF AfterMembers, IsOwnLeave
    <3>4. \A c \in Channels : n \in inside'[c] <=> me \in inside[c]
      BY <1>8, <2>1, <2>2 DEF Replaced
    <3>5. UpToDate(After(h[Len(wire)], m), me', inside')
      <4>1. After(h[Len(wire)], m).nick = n
        BY <1>3, <3>1, <3>2, AfterIs
      <4>2. ASSUME NEW c \in Channels
            PROVE  After(h[Len(wire)], m).roster[c] =
                       IF me' \in inside'[c] THEN inside'[c] ELSE {}
        <5>1. After(h[Len(wire)], m).roster[c] =
                  Renamed(h[Len(wire)].roster[c], me, n)
          BY <1>3, <3>1, <3>3, AfterIs
        <5>2. CASE me \in inside[c]
          BY <1>3, <2>1, <3>4, <5>1, <5>2 DEF Renamed, Replaced
        <5>3. CASE me \notin inside[c]
          BY <1>3, <2>1, <3>4, <5>1, <5>3 DEF Renamed
        <5>4. QED
          BY <5>2, <5>3
      <4>3. QED
        BY <2>1, <4>1, <4>2 DEF UpToDate
    <3>6. After(h[Len(wire)], m).nick \notin users'
      BY <1>3, <1>8, <2>1, <3>1, <3>2, AfterIs
    <3>7. QED
      BY <1>1, <1>2, <2>1, <2>3, <2>5, <2>6, <3>1, <3>3, <3>4, <3>5, <3>6,
         ToldFlight
  <2>9. QED
    BY <2>7, <2>8
<1>9. QED
  BY <1>6, <1>7, <1>8

(* A command that is no NICK comes from somebody whom the server knows.    *)
LEMMA KnownTaker ==
    ASSUME TypeInv, NEW cmd \in {"JOIN", "PART"}, Takes(cmd)
    PROVE  me # None /\ me \in Nicks /\ Head(out).chan \in Channels
<1>1. /\ Head(out) = out[1] /\ 1 \in DOMAIN out /\ Head(out).cmd = cmd
      /\ Head(out) \in Commands
  BY TakesIs DEF TypeInv
<1>2. me # None
  BY <1>1 DEF TypeInv, LinkInv
<1>3. QED
  BY <1>1, <1>2, CommandIs DEF TypeInv, ServerOK

LEMMA TakesJoinFlight ==
    ASSUME FullInv, ServerTakesJoin
    PROVE  RegisterInv' /\ FlightInv'
<1>0. PICK c : c = Head(out).chan
  OBVIOUS
<1>1. /\ TypeInv /\ Takes("JOIN") /\ UNCHANGED <<proxyVars, link>>
      /\ UNCHANGED saved
  BY DEF FullInv, ServerTakesJoin, proxyVars
<1>2. me # None /\ me \in Nicks /\ c \in Channels
  BY <1>0, <1>1, KnownTaker
<1>3. PICK h : FlightOf(h, wire, me, users, inside)
  BY DEF FullInv, FlightInv
<1>4. CASE me \in inside[c]
  <2>1. UNCHANGED <<wire, me, users, inside>>
    BY <1>0, <1>4 DEF ServerTakesJoin, serverVars
  <2>2. FlightInv'
    BY <1>1, <1>3, <2>1, SameProxy
  <2>3. RegisterInv'
    BY <1>1, <1>2, <2>1 DEF FullInv, RegisterInv
  <2>4. QED
    BY <2>2, <2>3
<1>5. CASE me \notin inside[c]
  <2>1. PICK all : all = inside[c] \cup {me}
    OBVIOUS
  <2>2. PICK join, names : /\ join = [cmd |-> "JOIN", nick |-> me, chan |-> c]
                           /\ names = [cmd |-> "353", chan |-> c,
                                       names |-> all]
    OBVIOUS
  <2>3. inside \in [Channels -> SUBSET Nicks]
    BY <1>1 DEF TypeInv, ServerOK
  <2>4. /\ inside' = [inside EXCEPT ![c] = all] /\ inside'[c] = all
        /\ UNCHANGED <<me, users>>
    BY <1>0, <1>2, <1>5, <2>1, <2>3 DEF ServerTakesJoin
  <2>5. Tells(<<join, names>>)
    BY <1>0, <1>5, <2>2, <2>4 DEF ServerTakesJoin
  <2>6. /\ join \in Messages /\ names \in Messages
        /\ join.cmd = "JOIN" /\ join.nick = me /\ join.chan = c
        /\ names.cmd = "353" /\ names.chan = c /\ names.names = all
    BY <1>2, <2>1, <2>2, <2>3 DEF Messages
  (* First we are in the channel alone, then with those who are named.     *)
  <2>7. PICK alone : alone = [inside EXCEPT ![c] = {me}]
    OBVIOUS
  <2>8. PICK e : e = Longer(h, wire, join)
    OBVIOUS
  <2>9. wire \in Seq(Messages)
    BY <1>1, WireIs
  <2> DEFINE last == h[Len(wire)]
             w == Append(wire, join)
             next == e[Len(w)]
  <2>10. /\ last \in Views /\ last.nick = me /\ last.nick \notin users
         /\ \A d \in Channels :
               last.roster[d] = IF me \in inside[d] THEN inside[d] ELSE {}
    BY <1>1, <1>2, <1>3, LastIs
  <2>11. /\ w \in Seq(Messages) /\ Len(w) \in Nat
         /\ next = After(last, join)
         /\ wire' = Append(w, names)
    <3>1. Len(w) = Len(wire) + 1 /\ e[Len(wire) + 1] = After(last, join)
      BY <2>8, <2>9, LongerIs
    <3>2. QED
      BY <2>5, <2>6, <2>9, <3>1 DEF Tells
  <2> HIDE DEF last, w, next
  <2>12. /\ next \in Views /\ next.nick = me
         /\ \A d \in Channels :
               next.roster[d] = IF me \in alone[d] THEN alone[d] ELSE {}
    <3>1. AfterNick(last, join) = me
      BY <2>6, <2>10 DEF AfterNick
    <3>2. ASSUME NEW d \in Channels
          PROVE  AfterMembers(last, join, d) =
                     IF me \in alone[d] THEN alone[d] ELSE {}
      BY <1>2, <1>5, <2>3, <2>6, <2>7, <2>10 DEF AfterMembers
    <3>3. QED
      BY <2>6, <2>10, <2>11, <3>1, <3>2, AfterIs
  <2>13. FlightOf(e, w, me, users, alone)
    <3>1. \A i \in 0..Len(wire) : h[i].nick \notin users
      BY <1>3 DEF FlightOf
    <3>2. UpToDate(After(last, join), me, alone)
      BY <2>11, <2>12 DEF UpToDate
    <3>3. After(last, join).nick \notin users
      BY <2>10, <2>11, <2>12
    <3>4. ASSUME NEW d \in Channels, me \in alone[d]
          PROVE  \/ me \in inside[d] /\ ~IsOwnLeave(last, join, d)
                 \/ IsOwnJoin(last, join, d)
      BY <2>3, <2>6, <2>7, <2>10, <3>4 DEF IsOwnLeave, IsOwnJoin
    <3>5. QED
      BY <1>3, <2>6, <2>8, <2>9, <3>1, <3>2, <3>3, <3>4, OneMore DEF last, w
  <2>14. /\ After(next, names).nick = me
         /\ UpToDate(After(next, names), me, inside')
    <3>1. AfterNick(next, names) = me
      BY <2>6, <2>12 DEF AfterNick
    <3>2. ASSUME NEW d \in Channels
          PROVE  AfterMembers(next, names, d) =
                     IF me \in inside'[d] THEN inside'[d] ELSE {}
      <4>1. CASE d = c
        <5>1. alone[c] = {me} /\ inside'[c] = all /\ me \in all
          BY <1>2, <2>1, <2>3, <2>4, <2>7
        <5>2. next.roster[c] = {me}
          BY <1>2, <2>12, <5>1
        <5>3. QED
          BY <2>1, <2>6, <4>1, <5>1, <5>2 DEF AfterMembers
      <4>2. CASE d # c
        <5>1. alone[d] = inside[d] /\ inside'[d] = inside[d]
          BY <2>3, <2>4, <2>7, <4>2
        <5>2. QED
          BY <2>6, <2>12, <4>2, <5>1 DEF AfterMembers
      <4>3. QED
        BY <4>1, <4>2
    <3>3. QED
      BY <2>6, <2>12, <3>1, <3>2, AfterIs DEF UpToDate
  <2>15. ASSUME NEW d \in Channels, me \in inside'[d]
         PROVE  me \in alone[d] /\ ~IsOwnLeave(next, names, d)
    BY <2>3, <2>4, <2>6, <2>7, <2>15 DEF IsOwnLeave
  <2>16. \A i \in 0..Len(w) : e[i].nick \notin users
    BY <2>13 DEF FlightOf
  <2>17. FlightOf(Longer(e, w, names), Append(w, names), me, users, inside')
    <3>1. PICK ins : ins = inside'
      OBVIOUS
    <3>2. UpToDate(After(next, names), me, ins)
      BY <2>14, <3>1
    <3>3. After(next, names).nick \notin users
      BY <2>10, <2>14
    <3>4. FlightOf(Longer(e, w, names), Append(w, names), me, users, ins)
      BY <2>6, <2>11, <2>13, <2>15, <2>16, <3>1, <3>2, <3>3, OneMore DEF next
    <3>5. QED
      BY <3>1, <3>4
  <2>18. PICK l : FlightOf(l, wire', me', users', inside')
    BY <2>4, <2>11, <2>17
  <2>19. FlightInv'
    BY <1>1, <2>18, SameProxy
  <2>20. RegisterInv'
    BY <1>1, <1>2, <2>1, <2>3, <2>4 DEF FullInv, RegisterInv
  <2>21. QED
    BY <2>19, <2>20
<1>6. QED
  BY <1>4, <1>5

LEMMA RefusesJoinFlight ==
    ASSUME FullInv, ServerRefusesJoin
    PROVE  RegisterInv' /\ FlightInv'
<1>1. /\ TypeInv /\ Takes("JOIN")
      /\ UNCHANGED <<proxyVars, link, saved, me, users, inside>>
      /\ Tells(<<[cmd |-> "473", chan |-> Head(out).chan]>>)
  BY DEF FullInv, ServerRefusesJoin, proxyVars, serverVars
<1>2. me # None /\ Head(out).chan \in Channels
  BY <1>1, KnownTaker
<1>3. PICK h : FlightOf(h, wire, me, users, inside)
  BY DEF FullInv, FlightInv
<1>4. PICK m : m = [cmd |-> "473", chan |-> Head(out).chan]
  OBVIOUS
<1>5. m \in Messages /\ m.cmd = "473" /\ Tells(<<m>>)
  BY <1>1, <1>2, <1>4 DEF Messages
<1>6. PICK last : last = h[Len(wire)]
  OBVIOUS
<1>7. /\ last \in Views /\ last.nick = me /\ last.nick \notin users
      /\ \A d \in Channels :
            last.roster[d] = IF me \in inside[d] THEN inside[d] ELSE {}
  BY <1>1, <1>2, <1>3, <1>6, LastIs
<1>8. /\ AfterNick(last, m) = last.nick
      /\ \A c : AfterMembers(last, m, c) = last.roster[c]
      /\ \A c : ~IsOwnLeave(last, m, c)
  BY <1>5 DEF AfterNick, AfterMembers, IsOwnLeave
<1>9. /\ UpToDate(After(last, m), me', inside')
      /\ After(last, m).nick \notin users'
  BY <1>1, <1>5, <1>7, <1>8, AfterIs DEF UpToDate
<1>10. \A i \in 0..Len(wire) : h[i].nick \notin users'
  BY <1>1, <1>3 DEF FlightOf
<1>11. FlightInv'
  BY <1>1, <1>3, <1>5, <1>6, <1>8, <1>9, <1>10, ToldFlight
<1>12. RegisterInv'
  BY <1>1, <1>2 DEF FullInv, RegisterInv
<1>13. QED
  BY <1>11, <1>12

LEMMA TakesPartFlight ==
    ASSUME FullInv, ServerTakesPart
    PROVE  RegisterInv' /\ FlightInv'
<1>0. PICK c : c = Head(out).chan
  OBVIOUS
<1>1. /\ TypeInv /\ Takes("PART") /\ UNCHANGED <<proxyVars, link, saved>>
  BY DEF FullInv, ServerTakesPart, proxyVars
<1>2. /\ me # None /\ me \in Nicks /\ c \in Channels
      /\ inside \in [Channels -> SUBSET Nicks]
  BY <1>0, <1>1, KnownTaker DEF TypeInv, ServerOK
<1>3. PICK h : FlightOf(h, wire, me, users, inside)
  BY DEF FullInv, FlightInv
<1>4. CASE me \notin inside[c]
  <2>1. UNCHANGED <<wire, me, users, inside>>
    BY <1>0, <1>4 DEF ServerTakesPart, serverVars
  <2>2. FlightInv'
    BY <1>1, <1>3, <2>1, SameProxy
  <2>3. RegisterInv'
    BY <1>1, <1>2, <2>1 DEF FullInv, RegisterInv
  <2>4. QED
    BY <2>2, <2>3
<1>5. CASE me \in inside[c]
  <2>1. PICK m : m = [cmd |-> "PART", nick |-> me, chan |-> c]
    OBVIOUS
  <2>2. /\ inside' = [inside EXCEPT ![c] = @ \ {me}]
        /\ Tells(<<m>>) /\ UNCHANGED <<me, users>>
    BY <1>0, <1>5, <2>1 DEF ServerTakesPart
  <2>3. m \in Messages /\ m.cmd = "PART" /\ m.nick = me /\ m.chan = c
    BY <1>2, <2>1 DEF Messages
  <2>4. PICK last : last = h[Len(wire)]
    OBVIOUS
  <2>5. /\ last \in Views /\ last.nick = me /\ last.nick \notin users
        /\ \A d \in Channels :
              last.roster[d] = IF me \in inside[d] THEN inside[d] ELSE {}
    BY <1>1, <1>2, <1>3, <2>4, LastIs
  <2>6. AfterNick(last, m) = me
    BY <2>3, <2>5 DEF AfterNick
  <2>7. \A d \in Channels : AfterMembers(last, m, d) =
                                IF me \in inside'[d] THEN inside'[d] ELSE {}
    BY <1>2, <2>2, <2>3, <2>5 DEF AfterMembers
  <2>8. /\ UpToDate(After(last, m), me', inside')
        /\ After(last, m).nick \notin users'
    BY <2>2, <2>3, <2>5, <2>6, <2>7, AfterIs DEF UpToDate
  <2>9. \A i \in 0..Len(wire) : h[i].nick \notin users'
    BY <1>3, <2>2 DEF FlightOf
  <2>10. \A d \in Channels : me' \in inside'[d] =>
            me \in inside[d] /\ ~IsOwnLeave(last, m, d)
    BY <1>2, <2>2, <2>3 DEF IsOwnLeave
  <2>11. FlightInv'
    BY <1>1, <1>3, <2>2, <2>3, <2>4, <2>8, <2>9, <2>10, ToldFlight
  <2>12. RegisterInv'
    BY <1>1, <1>2, <2>2 DEF FullInv, RegisterInv
  <2>13. QED
    BY <2>11, <2>12
<1>6. QED
  BY <1>4, <1>5

(* Somebody does something, and we hear of it where we are.                *)
LEMMA HeardFlight ==
    ASSUME TypeInv, UNCHANGED <<proxyVars, me>>, NEW told \in BOOLEAN,
           NEW m \in Messages, Hears(told, m),
           NEW h, FlightOf(h, wire, me, users, inside),
           \A i \in 0..Len(wire) : h[i].nick \notin users',
           told => /\ me # None /\ AfterNick(h[Len(wire)], m) = me
                   /\ \A c \in Channels :
                         /\ AfterMembers(h[Len(wire)], m, c) =
                                IF me \in inside'[c] THEN inside'[c] ELSE {}
                         /\ me \in inside'[c] =>
                               /\ me \in inside[c]
                               /\ ~IsOwnLeave(h[Len(wire)], m, c),
           ~told => \A c \in Channels :
                       /\ me \in inside[c] <=> me \in inside'[c]
                       /\ me \in inside[c] => inside'[c] = inside[c]
    PROVE  FlightInv'
<1>1. PICK last : last = h[Len(wire)]
  OBVIOUS
<1>2. /\ last \in Views /\ last.nick \notin users
      /\ me # None => last.nick = me
      /\ \A c \in Channels :
            last.roster[c] = IF me \in inside[c] THEN inside[c] ELSE {}
      /\ last.nick \notin users'
  BY <1>1, LastIs, WireIs
<1>3. CASE told
  <2>1. Tells(<<m>>)
    BY <1>3 DEF Hears
  <2>2. UpToDate(After(last, m), me', inside')
    BY <1>1, <1>2, <1>3, AfterIs DEF UpToDate
  <2>3. After(last, m).nick \notin users'
    BY <1>1, <1>2, <1>3, AfterIs
  <2>4. \A c \in Channels : me' \in inside'[c] =>
           me \in inside[c] /\ ~IsOwnLeave(last, m, c)
    BY <1>1, <1>3
  <2>5. QED
    BY <1>1, <2>1, <2>2, <2>3, <2>4, ToldFlight DEF proxyVars
<1>4. CASE ~told
  <2>1. UNCHANGED wire
    BY <1>4 DEF Hears
  <2>2. UpToDate(last, me', inside')
    BY <1>2, <1>4 DEF UpToDate
  <2>3. QED
    BY <1>1, <1>4, <2>1, <2>2, Untold DEF proxyVars
<1>5. QED
  BY <1>3, <1>4

(* A nick that is free is not one that we have on the way.                 *)
LEMMA FreeIs ==
    ASSUME TypeInv, "ghost" \notin Inputs, NEW n \in FreeNicks,
           NEW h, FlightOf(h, wire, me, users, inside)
    PROVE  /\ n # me /\ n # saved.nick /\ n \notin users
           /\ \A i \in 0..Len(wire) : h[i].nick # n
<1>1. n \notin OurNames /\ n # me /\ n \notin users
  BY DEF FreeNicks
<1>2. saved.nick \in OurNames
  BY DEF OurNames
<1>3. QED
  BY <1>1, <1>2, NamesAreOurs

LEMMA UserFlight ==
    ASSUME FullInv, "ghost" \notin Inputs, User
    PROVE  RegisterInv' /\ FlightInv'
<1>1. PICK h : FlightOf(h, wire, me, users, inside)
  BY DEF FullInv, FlightInv
<1>2. PICK last : last = h[Len(wire)]
  OBVIOUS
<1>3. /\ TypeInv
      /\ \A i \in 0..Len(wire) : h[i].nick \notin users
      /\ last \in Views /\ last.nick \notin users
      /\ me # None => last.nick = me
      /\ \A c \in Channels :
            last.roster[c] = IF me \in inside[c] THEN inside[c] ELSE {}
  BY <1>1, <1>2, LastIs DEF FullInv, FlightOf
<1>4. /\ inside \in [Channels -> SUBSET Nicks] /\ me \notin users
      /\ \A c \in Channels : inside[c] \subseteq users \cup {me}
      /\ \A c \in Channels : me \in inside[c] => me # None
      /\ me = None => wire = <<>>
      /\ saved.nick \notin users
  BY <1>3, WireIs DEF FullInv, RegisterInv, TypeInv, ServerOK
(* We hear of something only if the server knows us.                       *)
<1>5. ASSUME UNCHANGED <<proxyVars, link, out, me>>,
             NEW told \in BOOLEAN, NEW m, Hears(told, m), told => me # None,
             saved.nick \notin users',
             \A c \in Channels : inside'[c] \subseteq users' \cup {me}
      PROVE  RegisterInv'
  <2>1. UNCHANGED <<nick, saved>>
    BY <1>5 DEF proxyVars
  <2>2. me = None => UNCHANGED wire
    BY <1>5 DEF Hears
  <2>3. QED
    BY <1>5, <2>1, <2>2 DEF FullInv, RegisterInv
<1>6. ASSUME NEW n \in Nicks, UserArrives(n)
      PROVE  RegisterInv' /\ FlightInv'
  <2>1. /\ n \in FreeNicks /\ users' = users \cup {n}
        /\ UNCHANGED <<proxyVars, link, wire, out, me, inside>>
    BY <1>6 DEF UserArrives
  <2>2. /\ n # me /\ n # saved.nick
        /\ \A i \in 0..Len(wire) : h[i].nick # n
    BY <1>1, <1>3, <2>1, FreeIs
  <2>3. \A i \in 0..Len(wire) : h[i].nick \notin users'
    BY <1>3, <2>1, <2>2
  <2>4. UpToDate(h[Len(wire)], me', inside')
    BY <1>1, <2>1 DEF FlightOf
  <2>5. FlightInv'
    BY <1>1, <2>1, <2>3, <2>4, Untold DEF proxyVars
  <2>6. RegisterInv'
    BY <1>4, <2>1, <2>2 DEF FullInv, RegisterInv, proxyVars
  <2>7. QED
    BY <2>5, <2>6
<1>7. ASSUME NEW n \in Nicks, UserQuits(n)
      PROVE  RegisterInv' /\ FlightInv'
  <2>1. PICK m : m = [cmd |-> "QUIT", nick |-> n]
    OBVIOUS
  <2>2. PICK told \in BOOLEAN : told = Shares(n)
    BY DEF Shares
  <2>3. /\ m \in Messages /\ m.cmd = "QUIT" /\ m.nick = n /\ Hears(told, m)
        /\ n \in users /\ users' = users \ {n}
        /\ inside' = [c \in Channels |-> inside[c] \ {n}]
        /\ UNCHANGED <<proxyVars, link, out, me>>
        /\ n # me
    BY <1>4, <1>7, <2>1, <2>2 DEF UserQuits, Messages
  <2>4. told <=> (me # None /\ \E c \in Channels : {me, n} \subseteq inside[c])
    BY <2>2 DEF Shares
  <2>5. /\ \A i \in 0..Len(wire) : h[i].nick \notin users'
        /\ saved.nick \notin users'
        /\ \A c \in Channels : inside'[c] \subseteq users' \cup {me}
    BY <1>3, <1>4, <2>3
  <2>6. told => /\ me # None /\ AfterNick(last, m) = me
                /\ \A c \in Channels :
                      /\ AfterMembers(last, m, c) =
                             IF me \in inside'[c] THEN inside'[c] ELSE {}
                      /\ me \in inside'[c] =>
                            me \in inside[c] /\ ~IsOwnLeave(last, m, c)
    BY <1>3, <2>3, <2>4 DEF AfterNick, AfterMembers, IsOwnLeave
  <2>7. ~told => \A c \in Channels :
                    /\ me \in inside[c] <=> me \in inside'[c]
                    /\ me \in inside[c] => inside'[c] = inside[c]
    BY <1>4, <2>3, <2>4
  <2>8. FlightInv'
    BY <1>1, <1>2, <1>3, <2>3, <2>5, <2>6, <2>7, HeardFlight DEF proxyVars
  <2>9. RegisterInv'
    BY <1>5, <2>3, <2>4, <2>5
  <2>10. QED
    BY <2>8, <2>9
<1>8. ASSUME NEW n \in Nicks, NEW c \in Channels, UserJoins(n, c)
      PROVE  RegisterInv' /\ FlightInv'
  <2>1. PICK m : m = [cmd |-> "JOIN", nick |-> n, chan |-> c]
    OBVIOUS
  <2>2. PICK told \in BOOLEAN : told <=> me \in inside[c]
    <3>1. CASE me \in inside[c]
      BY <3>1
    <3>2. CASE me \notin inside[c]
      BY <3>2
    <3>3. QED
      BY <3>1, <3>2
  <2>3. /\ m \in Messages /\ m.cmd = "JOIN" /\ m.nick = n /\ m.chan = c
        /\ Hears(told, m) /\ n \in users
        /\ inside' = [inside EXCEPT ![c] = @ \cup {n}]
        /\ UNCHANGED <<proxyVars, link, out, me, users>>
        /\ n # me
    BY <1>4, <1>8, <2>1, <2>2 DEF UserJoins, Messages
  <2>4. /\ \A i \in 0..Len(wire) : h[i].nick \notin users'
        /\ saved.nick \notin users'
        /\ \A d \in Channels : inside'[d] \subseteq users' \cup {me}
    BY <1>3, <1>4, <2>3
  <2>5. told => /\ me # None /\ AfterNick(last, m) = me
                /\ \A d \in Channels :
                      /\ AfterMembers(last, m, d) =
                             IF me \in inside'[d] THEN inside'[d] ELSE {}
                      /\ me \in inside'[d] =>
                            me \in inside[d] /\ ~IsOwnLeave(last, m, d)
    BY <1>3, <1>4, <2>2, <2>3 DEF AfterNick, AfterMembers, IsOwnLeave
  <2>6. ~told => \A d \in Channels :
                    /\ me \in inside[d] <=> me \in inside'[d]
                    /\ me \in inside[d] => inside'[d] = inside[d]
    BY <1>4, <2>2, <2>3
  <2>7. FlightInv'
    BY <1>1, <1>2, <1>3, <2>3, <2>4, <2>5, <2>6, HeardFlight DEF proxyVars
  <2>8. RegisterInv'
    BY <1>4, <1>5, <2>2, <2>3, <2>4
  <2>9. QED
    BY <2>7, <2>8
(* A part and a kick change the same.                                      *)
<1>9. ASSUME NEW n \in Nicks, NEW c \in Channels, UserParts(n, c) \/ Kick(n, c)
      PROVE  RegisterInv' /\ FlightInv'
  <2>1. PICK m : m = IF UserParts(n, c)
                       THEN [cmd |-> "PART", nick |-> n, chan |-> c]
                       ELSE [cmd |-> "KICK", nick |-> n, chan |-> c]
    OBVIOUS
  <2>2. PICK told \in BOOLEAN : told <=> me \in inside[c]
    <3>1. CASE me \in inside[c]
      BY <3>1
    <3>2. CASE me \notin inside[c]
      BY <3>2
    <3>3. QED
      BY <3>1, <3>2
  <2>3. /\ m \in Messages /\ m.cmd \in {"PART", "KICK"}
        /\ m.nick = n /\ m.chan = c
        /\ Hears(told, m) /\ n \in inside[c]
        /\ inside' = [inside EXCEPT ![c] = @ \ {n}]
        /\ UNCHANGED <<proxyVars, link, out, me, users>>
    <3>1. CASE UserParts(n, c)
      BY <2>1, <2>2, <3>1 DEF UserParts, Messages
    <3>2. CASE ~UserParts(n, c)
      BY <1>9, <2>1, <2>2, <3>2 DEF Kick, Messages
    <3>3. QED
      BY <3>1, <3>2
  <2>4. /\ \A i \in 0..Len(wire) : h[i].nick \notin users'
        /\ saved.nick \notin users'
        /\ \A d \in Channels : inside'[d] \subseteq users' \cup {me}
    BY <1>3, <1>4, <2>3
  <2>5. told => me # None /\ AfterNick(last, m) = me
    BY <1>3, <1>4, <2>2, <2>3 DEF AfterNick
  <2>6. ASSUME told, NEW d \in Channels
        PROVE  /\ AfterMembers(last, m, d) =
                      IF me \in inside'[d] THEN inside'[d] ELSE {}
               /\ me \in inside'[d] =>
                     me \in inside[d] /\ ~IsOwnLeave(last, m, d)
    <3>1. last.nick = me /\ me \in inside[c]
      BY <1>3, <2>2, <2>5, <2>6
    <3>2. CASE d = c
      BY <1>3, <1>4, <2>3, <3>1, <3>2 DEF AfterMembers, IsOwnLeave
    <3>3. CASE d # c
      BY <1>3, <1>4, <2>3, <3>3 DEF AfterMembers, IsOwnLeave
    <3>4. QED
      BY <3>2, <3>3
  <2>7. ~told => \A d \in Channels :
                    /\ me \in inside[d] <=> me \in inside'[d]
                    /\ me \in inside[d] => inside'[d] = inside[d]
    BY <1>4, <2>2, <2>3
  <2>8. FlightInv'
    BY <1>1, <1>2, <1>3, <2>3, <2>4, <2>5, <2>6, <2>7, HeardFlight
       DEF proxyVars
  <2>9. RegisterInv'
    BY <1>5, <2>3, <2>4, <2>5
  <2>10. QED
    BY <2>8, <2>9
<1>10. ASSUME NEW n \in Nicks, NEW new \in Nicks, UserRenames(n, new)
       PROVE  RegisterInv' /\ FlightInv'
  <2>1. PICK m : m = [cmd |-> "NICK", nick |-> n, new |-> new]
    OBVIOUS
  <2>2. PICK told \in BOOLEAN : told = Shares(n)
    BY DEF Shares
  <2>3. /\ m \in Messages /\ m.cmd = "NICK" /\ m.nick = n /\ m.new = new
        /\ Hears(told, m)
        /\ n \in users /\ new \in FreeNicks
        /\ users' = (users \ {n}) \cup {new}
        /\ inside' = [c \in Channels |-> Replaced(inside[c], n, new)]
        /\ UNCHANGED <<proxyVars, link, out, me>>
        /\ n # me
    BY <1>4, <1>10, <2>1, <2>2 DEF UserRenames, Messages
  <2>4. /\ new # me /\ new # saved.nick
        /\ \A i \in 0..Len(wire) : h[i].nick # new
    BY <1>1, <1>3, <2>3, FreeIs
  <2>5. told <=> (me # None /\ \E c \in Channels : {me, n} \subseteq inside[c])
    BY <2>2 DEF Shares
  <2>6. /\ \A i \in 0..Len(wire) : h[i].nick \notin users'
        /\ saved.nick \notin users'
        /\ \A c \in Channels : inside'[c] \subseteq users' \cup {me}
    BY <1>3, <1>4, <2>3, <2>4 DEF Replaced
  <2>7. \A c \in Channels : me \in inside'[c] <=> me \in inside[c]
    BY <2>3, <2>4 DEF Replaced
  <2>8. told => /\ me # None /\ AfterNick(last, m) = me
                /\ \A c \in Channels :
                      /\ AfterMembers(last, m, c) =
                             IF me \in inside'[c] THEN inside'[c] ELSE {}
                      /\ me \in inside'[c] =>
                            me \in inside[c] /\ ~IsOwnLeave(last, m, c)
    <3>1. told => me # None /\ AfterNick(last, m) = me
      BY <1>3, <2>3, <2>5 DEF AfterNick
    <3>2. ASSUME NEW c \in Channels
          PROVE  /\ AfterMembers(last, m, c) =
                        IF me \in inside'[c] THEN inside'[c] ELSE {}
                 /\ ~IsOwnLeave(last, m, c)
      BY <1>3, <2>3, <2>7 DEF AfterMembers, IsOwnLeave, Renamed, Replaced
    <3>3. QED
      BY <2>7, <3>1, <3>2
  <2>9. ~told => \A c \in Channels :
                    /\ me \in inside[c] <=> me \in inside'[c]
                    /\ me \in inside[c] => inside'[c] = inside[c]
    BY <1>4, <2>3, <2>5, <2>7 DEF Replaced
  <2>10. FlightInv'
    BY <1>1, <1>2, <1>3, <2>3, <2>6, <2>8, <2>9, HeardFlight DEF proxyVars
  <2>11. RegisterInv'
    BY <1>5, <2>3, <2>5, <2>6
  <2>12. QED
    BY <2>10, <2>11
<1>11. QED
  BY <1>6, <1>7, <1>8, <1>9, <1>10 DEF User

-----------------------------------------------------------------------------
(* The theorems.                                                           *)

LEMMA FullStep ==
    ASSUME FullInv, IsFiniteSet(Channels), "ghost" \notin Inputs, [Next]_vars
    PROVE  FullInv'
<1>1. TypeInv'
  BY TypeStep DEF FullInv
<1>2. ASSUME UNCHANGED vars
      PROVE  RegisterInv' /\ FlightInv'
  <2>1. /\ UNCHANGED proxyVars
        /\ UNCHANGED <<nick, saved, link, wire, out, me, users, inside>>
    BY <1>2 DEF vars, proxyVars
  <2>2. PICK h : FlightOf(h, wire, me, users, inside)
    BY DEF FullInv, FlightInv
  <2>3. FlightInv'
    BY <2>1, <2>2, SameProxy
  <2>4. RegisterInv'
    BY <2>1 DEF FullInv, RegisterInv
  <2>5. QED
    BY <2>3, <2>4
<1>3. ASSUME Event
      PROVE  RegisterInv' /\ FlightInv'
  BY <1>3, EventRegister, EventStepFlight DEF FullInv
<1>4. ASSUME Server
      PROVE  RegisterInv' /\ FlightInv'
  BY <1>4, TakesNickFlight, TakesJoinFlight, RefusesJoinFlight,
     TakesPartFlight DEF Server
<1>5. RegisterInv' /\ FlightInv'
  BY <1>2, <1>3, <1>4, ConnectFlight, DropFlight, RestartFlight,
     RequestFlight, UserFlight DEF Next
<1>6. QED
  BY <1>1, <1>5 DEF FullInv

(* When nothing is under way, the view we have is the last one.            *)
LEMMA QuietIs ==
    ASSUME FullInv, Quiet
    PROVE  /\ nick = me
           /\ \A c \in Channels :
                 /\ Members(c) = IF me \in inside[c] THEN inside[c] ELSE {}
                 /\ me \in inside[c] => Kept(c) /\ waiters[c] = None
<1>1. PICK h : FlightOf(h, wire, me, users, inside)
  BY DEF FullInv, FlightInv
<1>2. wire = <<>> /\ Len(wire) = 0 /\ me # None
  BY DEF Quiet, FullInv, TypeInv, LinkInv
<1>3. h[Len(wire)] = Present /\ UpToDate(Present, me, inside)
  BY <1>1, <1>2 DEF FlightOf, IsRun
<1>4. \A c : ~Arriving(h, wire, c) /\ ~Joining(h, wire, c)
  BY <1>2 DEF Arriving, Joining
<1>5. QED
  BY <1>1, <1>2, <1>3, <1>4, PresentIs DEF FlightOf, UpToDate, FullInv

LEMMA FullIsWanted ==
    ASSUME FullInv, WaitingOK
    PROVE  RosterMatches /\ MembershipKnown /\ NickKnown
               /\ ConfirmedJoinIsAnswered
<1>1. DOMAIN channels \subseteq Channels
  BY DEF FullInv, TypeInv, ChannelsOK
<1>2. CASE Quiet
  <2>1. RosterMatches /\ MembershipKnown /\ NickKnown
    BY <1>1, <1>2, QuietIs
       DEF RosterMatches, MembershipKnown, NickKnown, Members, Kept
  <2>2. ASSUME NEW r \in Requests \ overtaken, req[r] # None
        PROVE  me \notin inside[req[r]]
    <3>1. req[r] \in Channels /\ waiters[req[r]] = r
      BY <2>2 DEF FullInv, TypeInv, ProxyOK, WaitingOK
    <3>2. QED
      BY <1>2, <3>1, QuietIs, NoneIs
  <2>3. QED
    BY <2>1, <2>2 DEF ConfirmedJoinIsAnswered
<1>3. CASE ~Quiet
  BY <1>3 DEF RosterMatches, MembershipKnown, NickKnown,
              ConfirmedJoinIsAnswered
<1>4. QED
  BY <1>2, <1>3

LEMMA FullHolds ==
    ASSUME IsFiniteSet(Channels), "ghost" \notin Inputs
    PROVE  Spec => [](FullInv /\ WaitingOK)
<1>1. Init => FullInv /\ WaitingOK
  BY FlightInit, WaitingInit DEF FullInv
<1>2. FullInv /\ WaitingOK /\ [Next]_vars => FullInv' /\ WaitingOK'
  BY FullStep, WaitingStep DEF FullInv
<1>3. QED
  BY <1>1, <1>2, PTL DEF Spec

(* The members a channel reports are the users in it, through any order of *)
(* joins, parts, kicks, quits and renames, ours and theirs, for any number *)
(* of channels, users and messages on their way.                           *)
THEOREM RosterCorrect ==
    ASSUME IsFiniteSet(Channels), "ghost" \notin Inputs
    PROVE  Spec => []RosterMatches
BY FullHolds, FullIsWanted, PTL

(* A channel the server has us in is joined for the proxy and in its row.  *)
THEOREM MembershipCorrect ==
    ASSUME IsFiniteSet(Channels), "ghost" \notin Inputs
    PROVE  Spec => []MembershipKnown
BY FullHolds, FullIsWanted, PTL

(* The nick the API reports is the one the server knows us by, as long as  *)
(* nobody else has it when we register.                                    *)
THEOREM NickCorrect ==
    ASSUME IsFiniteSet(Channels), "ghost" \notin Inputs
    PROVE  Spec => []NickKnown
BY FullHolds, FullIsWanted, PTL

(***************************************************************************)
(* When nothing is under way and the server has us in a channel, no join   *)
(* request for it waits, but one that a later request has overtaken, for   *)
(* any number of requests that wait together.                              *)
(***************************************************************************)
THEOREM AnswerCorrect ==
    ASSUME IsFiniteSet(Channels), "ghost" \notin Inputs
    PROVE  Spec => []ConfirmedJoinIsAnswered
BY FullHolds, FullIsWanted, PTL
=============================================================================
