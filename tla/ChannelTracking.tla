-------------------------- MODULE ChannelTracking --------------------------
(***************************************************************************)
(* What a network knows of its channels: the events of the IRC connection  *)
(* that ProxyState.handle_irc_event turns into NetworkState.channels, the  *)
(* nick (NetworkState.nick and IRCClient.nick), the requests that join,    *)
(* part and write to a channel, the futures on which join requests wait,   *)
(* the channels that are joined again after a reconnection or a restart,   *)
(* and the channels the stored row keeps.                                  *)
(*                                                                         *)
(* The IRC server is outside the program; it is modelled by what RFC 2812  *)
(* makes it send: commands and messages travel in order, in "out" and in   *)
(* "wire", and are lost with the connection.  One event is handled without *)
(* interruption, because nothing that its handler awaits suspends.         *)
(***************************************************************************)
EXTENDS Naturals, SequencesExt

CONSTANTS
    Nicks,         \* the nicks of the IRC network, ours among them
    MyNick,        \* the configured nick
    Channels,
    Requests,      \* join requests that can wait together
    None,
    Underscored,   \* nick + "_": the next nick to try for each nick
    UnderWayMax,   \* bound: what requests and users add to wire and out
    Inputs         \* what the environment of this instance does

AllInputs == {"join", "part", "send", "nick", "refuse", "ghost", "drop",
              "crash"}

ASSUME ChannelAssumption ==
    /\ MyNick \in Nicks
    /\ Underscored \in [Nicks -> Nicks]
    /\ None \notin Nicks \cup Channels \cup Requests
    /\ UnderWayMax \in Nat
    /\ Inputs \subseteq AllInputs

VARIABLES
    nick,         \* NetworkState.nick
    client_nick,  \* IRCClient.nick of the connection
    channels,     \* NetworkState.channels: joined and members of each
    saved,        \* the stored row: its nick and its channels
    waiters,      \* ProxyState._join_waiters: whose future is pending
    req,          \* the channel each join request waits for, or None
    overtaken,    \* history: waiting requests that have no future any more
    link,         \* "down", "registering" or "up"
    wire,         \* messages on their way from the server
    out,          \* commands on their way to the server
    me,           \* the nick the server knows us by, or None
    users,        \* the nicks of the other users
    inside        \* who is in each channel

proxyVars == <<nick, client_nick, channels, saved, waiters, req, overtaken>>
serverVars == <<me, users, inside>>
vars == <<nick, client_nick, channels, saved, waiters, req, overtaken, link,
          wire, out, me, users, inside>>

UnderWay == Len(wire) + Len(out)

Joined(c) == c \in DOMAIN channels /\ channels[c].joined

NewChannel == [joined |-> TRUE, members |-> {}]

KnownOrNew(c) == IF c \in DOMAIN channels THEN channels[c] ELSE NewChannel

WithChannel(c, ch) ==
    [d \in DOMAIN channels \cup {c} |-> IF d = c THEN ch ELSE channels[d]]

(* _persist_network keeps the channels that are joined.                    *)
Persisted(chs) ==
    [nick |-> nick, channels |-> {c \in DOMAIN chs : chs[c].joined}]

Messages ==
    [cmd : {"JOIN", "PART", "KICK"}, nick : Nicks, chan : Channels]
        \cup [cmd : {"QUIT", "001"}, nick : Nicks]
        \cup [cmd : {"NICK"}, nick : Nicks, new : Nicks]
        \cup [cmd : {"353"}, chan : Channels, names : SUBSET Nicks]
        \cup [cmd : {"433"}]
        \cup [cmd : {"473"}, chan : Channels]

Commands ==
    [cmd : {"JOIN", "PART"}, chan : Channels]
        \cup [cmd : {"NICK"}, nick : Nicks]

Init ==
    /\ nick = MyNick /\ client_nick = MyNick
    /\ channels = <<>>
    /\ saved = [nick |-> MyNick, channels |-> {}]
    /\ waiters = [c \in Channels |-> None]
    /\ req = [r \in Requests |-> None]
    /\ overtaken = {}
    /\ link = "down"
    /\ wire = <<>> /\ out = <<>>
    /\ me = None
    /\ users = {}
    /\ inside = [c \in Channels |-> {}]

-----------------------------------------------------------------------------
(* The connection.                                                         *)

(* A new IRCClient registers with the nick of the network.                 *)
Connect ==
    /\ link = "down"
    /\ link' = "registering"
    /\ client_nick' = nick
    /\ out' = <<[cmd |-> "NICK", nick |-> nick]>>
    /\ wire' = <<>>
    /\ UNCHANGED <<nick, channels, saved, waiters, req, overtaken, me, users,
                   inside>>

(* The server drops us; one that has not noticed yet keeps our old nick.   *)
ServerForgetsUs ==
    /\ me' = None
    /\ IF "ghost" \in Inputs /\ me # None
         THEN users' = users \cup {me} /\ UNCHANGED inside
         ELSE users' = users /\ inside' = [c \in Channels |-> inside[c] \ {me}]

(* Mutant: the members of the channels stay.                               *)
MembersKept == channels

MembersCleared ==
    [c \in DOMAIN channels |-> [channels[c] EXCEPT !.members = {}]]

(* The read loop ends: the "disconnected" event.                           *)
Drop ==
    /\ "drop" \in Inputs
    /\ link # "down"
    /\ link' = "down"
    /\ wire' = <<>> /\ out' = <<>>
    /\ channels' = MembersCleared
    /\ ServerForgetsUs
    /\ UNCHANGED <<nick, client_nick, saved, waiters, req, overtaken>>

(* The handlers of the network save its row as well: POST connect and      *)
(* disconnect, PATCH.                                                      *)
SaveNetwork ==
    /\ saved' = Persisted(channels)
    /\ UNCHANGED <<nick, client_nick, channels, waiters, req, overtaken, link,
                   wire, out, serverVars>>

(* The process restarts: restore_networks builds the network from its row. *)
Restart ==
    /\ "crash" \in Inputs
    /\ nick' = saved.nick /\ client_nick' = saved.nick
    /\ channels' = [c \in saved.channels |-> NewChannel]
    /\ waiters' = [c \in Channels |-> None]
    /\ req' = [r \in Requests |-> None]
    /\ overtaken' = {}
    /\ link' = "down"
    /\ wire' = <<>> /\ out' = <<>>
    /\ ServerForgetsUs
    /\ UNCHANGED saved

-----------------------------------------------------------------------------
(* Requests.  All need a network that is connected.                        *)

Sends(command) ==
    /\ UnderWay < UnderWayMax
    /\ out' = Append(out, command)

JoinChannel(r, c) ==
    /\ "join" \in Inputs
    /\ link = "up"
    /\ req[r] = None
    /\ ~Joined(c)
    /\ waiters' = [waiters EXCEPT ![c] = r]    \* an older future is forgotten
    /\ req' = [req EXCEPT ![r] = c]
    /\ overtaken' = overtaken \cup ({waiters[c]} \ {None})
    /\ Sends([cmd |-> "JOIN", chan |-> c])
    /\ UNCHANGED <<nick, client_nick, channels, saved, link, wire, me, users,
                   inside>>

(* wait_for cancels the future when the five seconds are over.             *)
JoinTimesOut(r) ==
    /\ req[r] # None
    /\ req' = [req EXCEPT ![r] = None]
    /\ waiters' = [c \in Channels |->
                      IF waiters[c] = r THEN None ELSE waiters[c]]
    /\ overtaken' = overtaken \ {r}
    /\ UNCHANGED <<nick, client_nick, channels, saved, link, wire, out, me,
                   users, inside>>

PartChannel(c) ==
    /\ "part" \in Inputs
    /\ link = "up"
    /\ Sends([cmd |-> "PART", chan |-> c])
    /\ UNCHANGED <<proxyVars, link, wire, serverVars>>

(* A message to a channel nobody has joined makes it a channel of ours.    *)
SendChannelMessage(c) ==
    /\ "send" \in Inputs
    /\ link = "up"
    /\ c \notin DOMAIN channels
    /\ channels' = WithChannel(c, NewChannel)
    /\ UNCHANGED <<nick, client_nick, saved, waiters, req, overtaken, link,
                   wire, out, serverVars>>

ChangeNick(n) ==
    /\ "nick" \in Inputs
    /\ link = "up"
    /\ Sends([cmd |-> "NICK", nick |-> n])
    /\ UNCHANGED <<proxyVars, link, wire, serverVars>>

-----------------------------------------------------------------------------
(* Events.  The read loop handles the messages of the server in order.     *)

Receives(cmd) ==
    /\ link # "down"
    /\ wire # <<>>
    /\ Head(wire).cmd = cmd
    /\ wire' = Tail(wire)

(* Mutant: the future stays in the table and is never resolved.            *)
UnresolvedJoin(c) == UNCHANGED <<waiters, req>>

(* _resolve_join: the request whose future is registered is answered.      *)
ResolveJoin(c) ==
    /\ waiters' = [waiters EXCEPT ![c] = None]
    /\ req' = [r \in Requests |-> IF waiters[c] = r THEN None ELSE req[r]]

(* The 001: the client takes the nick the server tells, and the channels   *)
(* that are joined are joined again.                                       *)
OnWelcome ==
    /\ Receives("001")
    /\ link' = "up"
    /\ client_nick' = Head(wire).nick
    /\ \E order \in SetToSeqs({c \in Channels : Joined(c)}) :
          out' = out \o [i \in DOMAIN order |->
                            [cmd |-> "JOIN", chan |-> order[i]]]
    /\ UNCHANGED <<nick, channels, saved, waiters, req, overtaken, serverVars>>

OnNickInUse ==
    /\ Receives("433")
    /\ client_nick' = Underscored[client_nick]
    /\ out' = Append(out, [cmd |-> "NICK", nick |-> client_nick'])
    /\ UNCHANGED <<nick, channels, saved, waiters, req, overtaken, link,
                   serverVars>>

(* Mutant: our own join of a channel we had parted leaves it parted.       *)
OnJoinByDefault ==
    /\ Receives("JOIN")
    /\ LET n == Head(wire).nick
           c == Head(wire).chan
       IN /\ channels' = WithChannel(c,
                [KnownOrNew(c) EXCEPT !.members = @ \cup {n}])
          /\ IF n = nick
               THEN ResolveJoin(c) /\ saved' = Persisted(channels')
               ELSE UNCHANGED <<waiters, req, saved>>
    /\ UNCHANGED <<nick, client_nick, overtaken, link, out, serverVars>>

OnJoin ==
    /\ Receives("JOIN")
    /\ LET n == Head(wire).nick
           c == Head(wire).chan
           old == KnownOrNew(c)
       IN /\ channels' = WithChannel(c,
                [joined |-> old.joined \/ n = nick,
                 members |-> old.members \cup {n}])
          /\ IF n = nick
               THEN ResolveJoin(c) /\ saved' = Persisted(channels')
               ELSE UNCHANGED <<waiters, req, saved>>
    /\ UNCHANGED <<nick, client_nick, overtaken, link, out, serverVars>>

(* 403, 405, 471, 473, 474, 475 or 476: the join is refused.               *)
OnJoinError ==
    /\ Receives("473")
    /\ ResolveJoin(Head(wire).chan)
    /\ UNCHANGED <<nick, client_nick, channels, saved, overtaken, link, out,
                   serverVars>>

(* Mutant: the row is not saved.                                           *)
OnPartUnsaved ==
    /\ Receives("PART")
    /\ LET n == Head(wire).nick
           c == Head(wire).chan
       IN IF c \in DOMAIN channels
            THEN channels' = WithChannel(c,
                    IF n = nick THEN [joined |-> FALSE, members |-> {}]
                    ELSE [channels[c] EXCEPT !.members = @ \ {n}])
            ELSE UNCHANGED channels
    /\ UNCHANGED <<nick, client_nick, saved, waiters, req, overtaken, link,
                   out, serverVars>>

OnPart ==
    /\ Receives("PART")
    /\ LET n == Head(wire).nick
           c == Head(wire).chan
       IN /\ IF c \in DOMAIN channels
               THEN channels' = WithChannel(c,
                       IF n = nick THEN [joined |-> FALSE, members |-> {}]
                       ELSE [channels[c] EXCEPT !.members = @ \ {n}])
               ELSE UNCHANGED channels
          /\ saved' = IF c \in DOMAIN channels /\ n = nick
                        THEN Persisted(channels') ELSE saved
    /\ UNCHANGED <<nick, client_nick, waiters, req, overtaken, link, out,
                   serverVars>>

OnKick ==
    /\ Receives("KICK")
    /\ LET n == Head(wire).nick
           c == Head(wire).chan
       IN IF c \notin DOMAIN channels
            THEN UNCHANGED <<channels, saved>>
            ELSE IF n = nick
            THEN /\ channels' = [d \in DOMAIN channels \ {c} |-> channels[d]]
                 /\ saved' = Persisted(channels')
            ELSE /\ channels' = WithChannel(c,
                       [channels[c] EXCEPT !.members = @ \ {n}])
                 /\ UNCHANGED saved
    /\ UNCHANGED <<nick, client_nick, waiters, req, overtaken, link, out,
                   serverVars>>

OnQuit ==
    /\ Receives("QUIT")
    /\ channels' = [c \in DOMAIN channels |->
                       [channels[c] EXCEPT !.members = @ \ {Head(wire).nick}]]
    /\ UNCHANGED <<nick, client_nick, saved, waiters, req, overtaken, link,
                   out, serverVars>>

(* Mutant: a nick that nobody has.                                         *)
RenamedToNothing(members, old, new) ==
    IF old \in members THEN (members \ {old}) \cup {None} ELSE members

Renamed(members, old, new) ==
    IF old \in members THEN (members \ {old}) \cup {new} ELSE members

(* Mutant: only the client learns our new nick.                            *)
NickAfterKept(old, new) == nick

NickAfter(old, new) == IF old = nick THEN new ELSE nick

OnNick ==
    /\ Receives("NICK")
    /\ LET old == Head(wire).nick
           new == Head(wire).new
       IN /\ client_nick' = IF old = client_nick THEN new ELSE client_nick
          /\ nick' = NickAfter(old, new)
          /\ channels' = [c \in DOMAIN channels |->
                             [channels[c] EXCEPT !.members =
                                 Renamed(@, old, new)]]
    /\ UNCHANGED <<saved, waiters, req, overtaken, link, out, serverVars>>

OnNames ==
    /\ Receives("353")
    /\ LET c == Head(wire).chan
       IN channels' = WithChannel(c,
             [KnownOrNew(c) EXCEPT !.members = @ \cup Head(wire).names])
    /\ UNCHANGED <<nick, client_nick, saved, waiters, req, overtaken, link,
                   out, serverVars>>

-----------------------------------------------------------------------------
(* The server (external): it takes our commands in order.                  *)

Replaced(set, old, new) ==
    IF old \in set THEN (set \ {old}) \cup {new} ELSE set

Takes(cmd) ==
    /\ link # "down"
    /\ out # <<>>
    /\ Head(out).cmd = cmd
    /\ out' = Tail(out)

Tells(messages) == wire' = wire \o messages

ServerTakesNick ==
    /\ Takes("NICK")
    /\ LET n == Head(out).nick
       IN IF n = me THEN UNCHANGED <<wire, serverVars>>
          ELSE IF n \in users
          THEN /\ Tells(<<[cmd |-> "433"]>>)
               /\ UNCHANGED serverVars
          ELSE /\ me' = n
               /\ inside' = [c \in Channels |-> Replaced(inside[c], me, n)]
               /\ Tells(IF me = None
                          THEN <<[cmd |-> "001", nick |-> n]>>
                          ELSE <<[cmd |-> "NICK", nick |-> me, new |-> n]>>)
               /\ UNCHANGED users
    /\ UNCHANGED <<proxyVars, link>>

ServerTakesJoin ==
    /\ Takes("JOIN")
    /\ LET c == Head(out).chan
       IN IF me \in inside[c] THEN UNCHANGED <<wire, serverVars>>
          ELSE /\ inside' = [inside EXCEPT ![c] = @ \cup {me}]
               /\ Tells(<<[cmd |-> "JOIN", nick |-> me, chan |-> c],
                          [cmd |-> "353", chan |-> c, names |-> inside'[c]]>>)
               /\ UNCHANGED <<me, users>>
    /\ UNCHANGED <<proxyVars, link>>

ServerRefusesJoin ==
    /\ "refuse" \in Inputs
    /\ Takes("JOIN")
    /\ me \notin inside[Head(out).chan]
    /\ Tells(<<[cmd |-> "473", chan |-> Head(out).chan]>>)
    /\ UNCHANGED <<proxyVars, link, serverVars>>

ServerTakesPart ==
    /\ Takes("PART")
    /\ LET c == Head(out).chan
       IN IF me \notin inside[c] THEN UNCHANGED <<wire, serverVars>>
          ELSE /\ inside' = [inside EXCEPT ![c] = @ \ {me}]
               /\ Tells(<<[cmd |-> "PART", nick |-> me, chan |-> c]>>)
               /\ UNCHANGED <<me, users>>
    /\ UNCHANGED <<proxyVars, link>>

-----------------------------------------------------------------------------
(* The other users (external).  We hear of what happens where we are.      *)

Shares(n) == me # None /\ \E c \in Channels : {me, n} \subseteq inside[c]

Hears(told, message) ==
    IF told THEN UnderWay < UnderWayMax /\ Tells(<<message>>)
    ELSE UNCHANGED wire

(* The nicks we have, have asked for or may register with next.            *)
OurNames ==
    {nick, client_nick, saved.nick, me}
        \cup {command.nick : command \in {x \in Range(out) : x.cmd = "NICK"}}
        \cup {message.new : message \in {x \in Range(wire) : x.cmd = "NICK"}}

FreeNicks == {n \in Nicks \ users : n # me /\
                 ("ghost" \in Inputs \/ n \notin OurNames)}

UserArrives(n) ==
    /\ n \in FreeNicks
    /\ users' = users \cup {n}
    /\ UNCHANGED <<proxyVars, link, wire, out, me, inside>>

UserJoins(n, c) ==
    /\ n \in users \ inside[c]
    /\ Hears(me \in inside[c], [cmd |-> "JOIN", nick |-> n, chan |-> c])
    /\ inside' = [inside EXCEPT ![c] = @ \cup {n}]
    /\ UNCHANGED <<proxyVars, link, out, me, users>>

UserParts(n, c) ==
    /\ n \in users \cap inside[c]
    /\ Hears(me \in inside[c], [cmd |-> "PART", nick |-> n, chan |-> c])
    /\ inside' = [inside EXCEPT ![c] = @ \ {n}]
    /\ UNCHANGED <<proxyVars, link, out, me, users>>

(* Somebody, we or another user, is thrown out of the channel.             *)
Kick(n, c) ==
    /\ n \in inside[c]
    /\ Hears(me \in inside[c], [cmd |-> "KICK", nick |-> n, chan |-> c])
    /\ inside' = [inside EXCEPT ![c] = @ \ {n}]
    /\ UNCHANGED <<proxyVars, link, out, me, users>>

UserQuits(n) ==
    /\ n \in users
    /\ Hears(Shares(n), [cmd |-> "QUIT", nick |-> n])
    /\ users' = users \ {n}
    /\ inside' = [c \in Channels |-> inside[c] \ {n}]
    /\ UNCHANGED <<proxyVars, link, out, me>>

UserRenames(n, new) ==
    /\ n \in users
    /\ new \in FreeNicks
    /\ Hears(Shares(n), [cmd |-> "NICK", nick |-> n, new |-> new])
    /\ users' = (users \ {n}) \cup {new}
    /\ inside' = [c \in Channels |-> Replaced(inside[c], n, new)]
    /\ UNCHANGED <<proxyVars, link, out, me>>

-----------------------------------------------------------------------------
Request ==
    \/ \E r \in Requests, c \in Channels : JoinChannel(r, c)
    \/ \E r \in Requests : JoinTimesOut(r)
    \/ \E c \in Channels : PartChannel(c) \/ SendChannelMessage(c)
    \/ \E n \in Nicks : ChangeNick(n)

Event ==
    \/ OnWelcome \/ OnNickInUse
    \/ OnJoin \/ OnJoinError \/ OnPart \/ OnKick \/ OnQuit \/ OnNick \/ OnNames

Server ==
    \/ ServerTakesNick \/ ServerTakesJoin \/ ServerRefusesJoin
    \/ ServerTakesPart

User ==
    \/ \E n \in Nicks : UserArrives(n) \/ UserQuits(n)
    \/ \E n \in Nicks, c \in Channels :
          UserJoins(n, c) \/ UserParts(n, c) \/ Kick(n, c)
    \/ \E n, new \in Nicks : UserRenames(n, new)

Next ==
    \/ Connect \/ Drop \/ SaveNetwork \/ Restart
    \/ Request \/ Event \/ Server \/ User

Spec == Init /\ [][Next]_vars

-----------------------------------------------------------------------------
(* Every variable has its type; channels is a partial function.            *)
TypeOK ==
    /\ nick \in Nicks /\ client_nick \in Nicks
    /\ DOMAIN channels \subseteq Channels
    /\ \A c \in DOMAIN channels :
          channels[c] \in [joined : BOOLEAN, members : SUBSET Nicks]
    /\ saved \in [nick : Nicks, channels : SUBSET Channels]
    /\ waiters \in [Channels -> Requests \cup {None}]
    /\ req \in [Requests -> Channels \cup {None}]
    /\ overtaken \subseteq Requests
    /\ link \in {"down", "registering", "up"}
    /\ wire \in Seq(Messages)
    /\ out \in Seq(Commands)
    /\ me \in Nicks \cup {None}
    /\ users \subseteq Nicks /\ me \notin users
    /\ inside \in [Channels -> SUBSET Nicks]

(* Nothing is under way between us and the server.                         *)
Quiet == link = "up" /\ wire = <<>> /\ out = <<>>

(***************************************************************************)
(* The members a channel reports are the users in it, through any order of *)
(* joins, parts, kicks, quits and renames, ours and theirs, and through    *)
(* reconnections; a channel we are not in reports nobody.                  *)
(***************************************************************************)
RosterMatches ==
    Quiet => \A c \in DOMAIN channels :
        channels[c].members = IF me \in inside[c] THEN inside[c] ELSE {}

(***************************************************************************)
(* A channel the server has us in is joined for the proxy, and its row     *)
(* will join it again after a restart.                                     *)
(***************************************************************************)
MembershipKnown ==
    Quiet => \A c \in Channels :
        me \in inside[c] => Joined(c) /\ c \in saved.channels

(* The row restores no channel that was parted or that we were kicked from,*)
(* at whatever moment the process dies.                                    *)
SavedIsJoined == \A c \in saved.channels : Joined(c)

(* The nick the API reports is the one the server knows us by.             *)
NickKnown == Quiet => nick = me

(***************************************************************************)
(* A join request is answered when the server has confirmed the join, and  *)
(* does not run into its timeout, whatever is joined, parted, refused and  *)
(* timed out before.  The exception is a request that was overtaken: a     *)
(* later one has put its own future in the place of this one's, which then *)
(* waits for its timeout although the channel is joined (state.py 115).    *)
(***************************************************************************)
ConfirmedJoinIsAnswered ==
    Quiet => \A r \in Requests \ overtaken :
        req[r] # None => me \notin inside[req[r]]

(* A channel that is reported as joined is one that the server has us in.  *)
JoinedIsReal == Quiet => \A c \in Channels : Joined(c) => me \in inside[c]
=============================================================================
