----------------------------- MODULE MessageLog -----------------------------
(***************************************************************************)
(* The stored messages of a network, as MemoryBackend keeps them, and the  *)
(* clients that read them: a bounded list for every channel and every      *)
(* private peer and one for the notes of the network, the session pointers *)
(* that all clients share, the background poll, and a client that catches  *)
(* up over several requests after its event stream was lost.               *)
(*                                                                         *)
(* The id of a message is taken and the message appended with no await     *)
(* between the two; but a request that sends one awaits the connection     *)
(* first, and does not look at the network again.  Networks share only the *)
(* counter of ids, so one network is enough.                               *)
(***************************************************************************)
EXTENDS MessagePages

CONSTANTS
    Channels,
    Peers,        \* nicks with whom there are private conversations
    Meta,         \* the key of the notes of the network
    Clients,
    Senders,      \* requests that can send a message at the same time
    Backlog,      \* max_backlog: the length at which a list forgets
    PollLimit,    \* _POLL_LIMIT
    PageLimits,   \* the limits that clients ask for
    MaxId         \* bound: messages that are stored in one behaviour

Targets == Channels \cup Peers
Keys == Targets \cup {Meta}

ASSUME LogAssumption ==
    /\ Channels \cap Peers = {} /\ Meta \notin Targets
    /\ Backlog \in Nat \ {0} /\ PollLimit \in Nat \ {0} /\ MaxId \in Nat
    /\ PageLimits \subseteq Nat \ {0}

VARIABLES
    counter,    \* MemoryBackend._msg_counter
    exists,     \* the network is in ProxyState.networks
    channels,   \* its NetworkState.channels: TRUE when joined
    sending,    \* of a request whose message is on its way: where to, and
                \* whether the network it has looked up is still the one
    log,        \* _channel_msgs, _private_msgs and _meta_msgs
    pointers,   \* MemoryBackend._pointers, 0 when there is none
    local,      \* the pointers that each client works with
    shown,      \* history: ids some client was shown up to its pointer
    reader      \* the catching up that is under way

storeVars == <<counter, exists, channels, sending, log>>
clientVars == <<pointers, local, shown>>
vars == <<counter, exists, channels, sending, log, pointers, local, shown,
          reader>>

Ids == 1..MaxId
Message == [id : Ids, meta : BOOLEAN, hit : BOOLEAN]
NoPointers == [t \in Targets |-> 0]
NobodyReads == [pc |-> "idle"]
Readers ==
    [pc : {"reading", "done"}, target : Targets, limit : PageLimits,
     last : Ids, oldest : Ids \cup {0}, got : SUBSET Ids, due : SUBSET Ids]

Stored(k) == IF k \in DOMAIN log THEN log[k] ELSE <<>>
IdsIn(msgs) == {msgs[i].id : i \in DOMAIN msgs}
View(t) == Merged(Stored(t), Stored(Meta))

Init ==
    /\ counter = 0
    /\ exists = FALSE
    /\ channels = <<>>
    /\ sending = <<>>
    /\ log = <<>>
    /\ pointers = NoPointers
    /\ local = [u \in Clients |-> NoPointers]
    /\ shown = {}
    /\ reader = NobodyReads

-----------------------------------------------------------------------------
(* The network comes and goes.                                             *)

CreateNetwork ==
    /\ ~exists
    /\ exists' = TRUE
    /\ channels' = <<>>
    /\ UNCHANGED <<counter, sending, log, clientVars, reader>>

(* remove_network_data removes the lists of every kind, the session        *)
(* pointers of the network stay.                                           *)
DeleteNetwork ==
    /\ exists
    /\ exists' = FALSE
    /\ channels' = <<>>
    /\ sending' = [s \in DOMAIN sending |->
                      [sending[s] EXCEPT !.current = FALSE]]
    /\ log' = <<>>
    /\ UNCHANGED <<counter, clientVars, reader>>

-----------------------------------------------------------------------------
(* Messages are stored.                                                    *)

(* Mutant: a list that never forgets.                                      *)
AppendedForEver(msgs, m) == Append(msgs, m)

(* Mutant: a list that is full puts the message in the place of its last.  *)
AppendedOverLast(msgs, m) ==
    Append(SubSeq(msgs, 1, Min({Len(msgs), Backlog - 1})), m)

(* append of a deque with maxlen.                                          *)
Appended(msgs, m) == Newest(Append(msgs, m), Backlog)

Store(k, meta, hit) ==
    /\ counter < MaxId
    /\ counter' = counter + 1
    /\ LET m == [id |-> counter', meta |-> meta, hit |-> hit]
       IN log' = [j \in DOMAIN log \cup {k} |->
                     IF j = k THEN Appended(Stored(k), m) ELSE log[j]]
    /\ UNCHANGED <<exists, clientVars, reader>>

WithChannel(c, joined) ==
    [d \in DOMAIN channels \cup {c} |-> IF d = c THEN joined ELSE channels[d]]

(* A message to an unknown channel makes it one that we have joined.       *)
ChannelsWith(t) ==
    IF t \in Peers \cup DOMAIN channels THEN channels ELSE WithChannel(t, TRUE)

(* send_channel_message, send_private_message up to the await.             *)
SendBegins(s, t) ==
    /\ exists
    /\ s \notin DOMAIN sending
    /\ sending' = [r \in DOMAIN sending \cup {s} |->
                      IF r = s THEN [to |-> t, current |-> TRUE]
                      ELSE sending[r]]
    /\ UNCHANGED <<counter, exists, channels, log, clientVars, reader>>

SendEnds(s) == sending' = [r \in DOMAIN sending \ {s} |-> sending[r]]

(* The connection is lost, or has been closed.                             *)
SendFails(s) ==
    /\ s \in DOMAIN sending
    /\ SendEnds(s)
    /\ UNCHANGED <<counter, exists, channels, log, clientVars, reader>>

(* The message is stored under the name of the network, whatever has that  *)
(* name now; the channel becomes known to the network that was looked up.  *)
SendStores(s, hit) ==
    /\ s \in DOMAIN sending
    /\ SendEnds(s)
    /\ Store(sending[s].to, FALSE, hit)
    /\ channels' = IF sending[s].current THEN ChannelsWith(sending[s].to)
                   ELSE channels

(* An event of the connection; it is dropped when there is no network.     *)
EventStores(k, meta, hit) ==
    exists /\ Store(k, meta, hit) /\ UNCHANGED sending

(* A PRIVMSG or NOTICE from the server.                                    *)
MessageArrives(t, hit) ==
    /\ EventStores(t, FALSE, hit)
    /\ channels' = ChannelsWith(t)

(* _inject_meta: the note of a connection, a disconnection or a dial.      *)
NetworkNote == EventStores(Meta, TRUE, FALSE) /\ UNCHANGED channels

(* _inject_channel_meta: joins, parts, quits and kicks of other users.     *)
ChannelNote(c) ==
    /\ c \in DOMAIN channels
    /\ EventStores(c, TRUE, FALSE)
    /\ UNCHANGED channels

OwnJoin(c) ==
    EventStores(c, TRUE, FALSE) /\ channels' = WithChannel(c, TRUE)

OwnPart(c) ==
    /\ EventStores(c, TRUE, FALSE)
    /\ channels' = IF c \in DOMAIN channels THEN WithChannel(c, FALSE)
                   ELSE channels

(* The messages of a channel we were kicked from stay.                     *)
OwnKick(c) ==
    /\ EventStores(c, TRUE, FALSE)
    /\ channels' = [d \in DOMAIN channels \ {c} |-> channels[d]]

-----------------------------------------------------------------------------
(* Requests about messages.  Reading creates a list that is not there.     *)

Readable(t) == exists /\ t \in DOMAIN channels \cup Peers

Touched(t) == [k \in DOMAIN log \cup {t, Meta} |-> Stored(k)]

CloseQuery(p) ==
    /\ exists
    /\ log' = [k \in DOMAIN log \ {p} |-> log[k]]
    /\ UNCHANGED <<counter, exists, channels, sending, clientVars, reader>>

(* A client shows a conversation to its user, who then has read it.        *)
OpenConversation(u, t) ==
    /\ Readable(t)
    /\ log' = Touched(t)
    /\ local' = [local EXCEPT ![u][t] =
                    IF View(t) = <<>> THEN @ ELSE Last(View(t)).id]
    /\ shown' = shown \cup IdsIn(Stored(t))
    /\ UNCHANGED <<counter, exists, channels, sending, pointers, reader>>

GetSession(u) ==
    /\ local' = [local EXCEPT ![u] = pointers]
    /\ UNCHANGED <<storeVars, pointers, shown, reader>>

(* The pointers of the request are merged into the stored ones.            *)
PutSession(u) ==
    /\ pointers' = [t \in Targets |->
                       IF local[u][t] # 0 THEN local[u][t] ELSE pointers[t]]
    /\ UNCHANGED <<storeVars, local, shown, reader>>

-----------------------------------------------------------------------------
(* The background poll.                                                    *)

Polled ==
    IF exists THEN {c \in DOMAIN channels : channels[c]}
                       \cup (DOMAIN log \cap Peers)
    ELSE {}

PollItems(ptrs) ==
    FirstItems(UNION {{[target |-> t, id |-> m.id] :
                          m \in Since(Stored(t), ptrs[t])} : t \in Polled},
               PollLimit)

(* The client notifies its user and advances the pointers.                 *)
Poll(u) ==
    LET items == PollItems(local[u])
        ids(t) == {x.id : x \in {y \in items : y.target = t}}
    IN /\ local' = [local EXCEPT ![u] = [t \in Targets |->
                       IF ids(t) = {} THEN @[t] ELSE Max(ids(t))]]
       /\ shown' = shown \cup {x.id : x \in items}
       /\ log' = [k \in DOMAIN log \cup (Polled \cap Channels) |-> Stored(k)]
       /\ UNCHANGED <<counter, exists, channels, sending, pointers, reader>>

-----------------------------------------------------------------------------
(* Catching up: GET ?after=<last> and, as long as there is more,           *)
(* GET ?after=<last>&before=<oldest of the page>.  The last message that   *)
(* the client has is one of the conversation, perhaps a forgotten one.     *)

Received(page, r) ==
    [r EXCEPT !.pc = IF page.has_more THEN "reading" ELSE "done",
              !.oldest = IF page.messages = <<>> THEN @
                         ELSE Head(page.messages).id,
              !.got = @ \cup IdsIn(page.messages)]

CatchUp(t, limit, last) ==
    /\ reader = NobodyReads
    /\ Readable(t)
    /\ last \in 1..counter
    /\ \A other \in Targets \ {t} : last \notin IdsIn(Stored(other))
    /\ log' = Touched(t)
    /\ reader' = Received(Page(View(t), limit, 0, last),
          [pc |-> "reading", target |-> t, limit |-> limit, last |-> last,
           oldest |-> 0, got |-> {},
           due |-> {id \in IdsIn(View(t)) : id > last}])
    /\ UNCHANGED <<counter, exists, channels, sending, clientVars>>

NextPage ==
    /\ reader.pc = "reading"
    /\ Readable(reader.target)
    /\ log' = Touched(reader.target)
    /\ reader' = Received(Page(View(reader.target), reader.limit,
                               reader.oldest, reader.last), reader)
    /\ UNCHANGED <<counter, exists, channels, sending, clientVars>>

(* The client is up to date, or what it reads is gone and it gets a 404.   *)
StopReading ==
    /\ \/ reader.pc = "done"
       \/ reader.pc = "reading" /\ ~Readable(reader.target)
    /\ reader' = NobodyReads
    /\ UNCHANGED <<storeVars, clientVars>>

-----------------------------------------------------------------------------
StoreMessage ==
    \/ \E s \in Senders, hit \in BOOLEAN : SendStores(s, hit)
    \/ \E t \in Targets, hit \in BOOLEAN : MessageArrives(t, hit)
    \/ NetworkNote
    \/ \E c \in Channels :
          ChannelNote(c) \/ OwnJoin(c) \/ OwnPart(c) \/ OwnKick(c)

ClientRequest ==
    \/ \E s \in Senders : SendFails(s) \/ \E t \in Targets : SendBegins(s, t)
    \/ \E p \in Peers : CloseQuery(p)
    \/ \E u \in Clients :
          \/ \E t \in Targets : OpenConversation(u, t)
          \/ GetSession(u) \/ PutSession(u) \/ Poll(u)
    \/ \E t \in Targets, limit \in PageLimits, last \in Ids :
          CatchUp(t, limit, last)
    \/ NextPage \/ StopReading

Next == CreateNetwork \/ DeleteNetwork \/ StoreMessage \/ ClientRequest

Spec == Init /\ [][Next]_vars

-----------------------------------------------------------------------------
(* Every variable has its type, and no list is longer than the backlog.    *)
TypeOK ==
    /\ counter \in 0..MaxId
    /\ exists \in BOOLEAN
    /\ DOMAIN channels \subseteq Channels
    /\ \A c \in DOMAIN channels : channels[c] \in BOOLEAN
    /\ DOMAIN sending \subseteq Senders
    /\ \A s \in DOMAIN sending : sending[s] \in [to : Targets, current : BOOLEAN]
    /\ DOMAIN log \subseteq Keys
    /\ \A k \in DOMAIN log : log[k] \in Seq(Message) /\ Len(log[k]) <= Backlog
    /\ pointers \in [Targets -> 0..MaxId]
    /\ local \in [Clients -> [Targets -> 0..MaxId]]
    /\ shown \subseteq Ids
    /\ reader \in Readers \cup {NobodyReads}

(***************************************************************************)
(* The poll skips nothing: a message that is stored and that lies behind   *)
(* a pointer, a client's or the session's, was shown to somebody.  Clients *)
(* that share the session, the limit of the poll over all conversations,   *)
(* channels left and joined again and the notes between the messages do    *)
(* not make a client advance over a message it never got.                  *)
(***************************************************************************)
PollSkipsNothing ==
    \A t \in Targets :
        LET behind == Max({pointers[t]} \cup {local[u][t] : u \in Clients})
        IN \A i \in DOMAIN Stored(t) :
              LET m == Stored(t)[i]
              IN m.id <= behind /\ ~m.meta => m.id \in shown

(***************************************************************************)
(* A client that pages backwards with after and before until there is no   *)
(* more has got every message that was due when it began, except those     *)
(* that were forgotten meanwhile, although messages are stored and         *)
(* forgotten between its requests, the one its page begins with included.  *)
(***************************************************************************)
CatchUpIsComplete ==
    reader.pc = "done" =>
        reader.due \cap IdsIn(View(reader.target)) \subseteq reader.got

(***************************************************************************)
(* The page around a message is full as far as there are messages, holds   *)
(* the message, and has as many messages before it as behind it, up to     *)
(* the one that an even limit leaves over, unless it touches an end.       *)
(***************************************************************************)
PageAroundIsCentred ==
    \A t \in Targets :
        LET all == View(t)
        IN \A limit \in PageLimits, m \in Range(all) :
              LET page == PageAround(all, limit, 0, 0, m.id).messages
                  earlier == Cardinality({x \in Range(page) : x.id < m.id})
                  later == Cardinality({x \in Range(page) : x.id > m.id})
              IN /\ m \in Range(page)
                 /\ Len(page) = Min({limit, Len(all)})
                 /\ earlier > later + 1 => Last(page) = Last(all)
                 /\ later > earlier => Head(page) = Head(all)

(***************************************************************************)
(* Searching from any message, every other match is found in exactly one   *)
(* of the two directions, and repeating the search from the last match of  *)
(* an answer goes on where the answer ended.                               *)
(***************************************************************************)
SearchReachesEveryMatch ==
    \A t \in Targets :
        LET all == View(t)
            matches == {m \in Range(all) : m.hit}
            Found(from, way, n) == Search(all, from, way, n)
            Ways == {"backward", "forward"}
        IN \A m \in matches :
              /\ \A anchor \in IdsIn(all) \ {m.id} :
                    Cardinality({way \in Ways : m \in
                       Range(Found(anchor, way, Len(all)).messages)}) = 1
              /\ \A way \in Ways, anchor \in Ids, limit \in PageLimits :
                    LET page == Found(anchor, way, limit)
                    IN page.has_more =>
                          Found(anchor, way, limit + 1).messages =
                              page.messages \o
                              Found(Last(page.messages).id, way, 1).messages

-----------------------------------------------------------------------------
(* What is stored, and in which list.                                      *)
Kept ==
    UNION {{[id |-> m.id, place |-> k, what |-> m] : m \in Range(log[k])} :
              k \in DOMAIN log}

Abstract == INSTANCE MessageStore WITH messages <- Kept, last <- counter

(***************************************************************************)
(* The lists of the memory backend implement MessageStore: a message that  *)
(* is appended has the highest id of all, those of deleted lists included, *)
(* and a full list forgets the oldest message it has.                      *)
(***************************************************************************)
ImplementsStore == Abstract!Spec
=============================================================================
