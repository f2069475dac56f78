---------------------------- MODULE EventStream ----------------------------
(***************************************************************************)
(* EventBus and GET /events: publishers put events into one bounded queue  *)
(* per response, and the generator of the response takes them out.  The    *)
(* client that follows is outside the program: it does what the protocol   *)
(* asks of it, and after a lost connection it opens another stream and     *)
(* then asks for the messages after the last one it has.                   *)
(*                                                                         *)
(* Clients have nothing in common but the bus, which treats queues alike:  *)
(* one client is enough.  It may leave responses behind it, however, whose *)
(* generators have not noticed yet.  What is stored and who publishes is   *)
(* for the module that extends this one to say.                            *)
(***************************************************************************)
EXTENDS Naturals, FiniteSets, Sequences

CONSTANTS
    Networks,
    Channels,
    Streams,   \* responses to GET /events, used again when they have ended
    Filters,   \* [networks, channels] of the request; {} does not filter
    None,
    QueueMax   \* maxsize of a queue

ASSUME StreamAssumption ==
    /\ None \notin Channels \cup Streams
    /\ QueueMax \in Nat \ {0}
    /\ \A f \in Filters : /\ f.networks \subseteq Networks
                          /\ f.channels \subseteq Channels

VARIABLES
    subscribers,  \* EventBus._subscribers: whose queues are filled
    queue,        \* the queue of each response
    generator,    \* where the generator of each response is
    filter,       \* what the client asks for
    current,      \* the response that the client reads, None without one
    behind,       \* networks it has not caught up with on this stream
    since,        \* of each network the last id it has everything up to
    have,         \* what it has: facts, under whatever id
    dropped       \* history: facts that a full queue kept from the client

streamVars == <<subscribers, queue, generator, filter, current, behind, since,
                have, dropped>>

(***************************************************************************)
(* A fact is what a message says, and an event or an entry of the log is a *)
(* fact under an id.  Id 0 stands for the temporary ids of the monitor.    *)
(***************************************************************************)
Kinds == {"message", "note", "lost", "restored", "started"}
Fact == [kind : Kinds, network : Networks, channel : Channels \cup {None},
         at : Nat]
Event == [id : Nat, fact : Fact]

FactsOf(es) == {es[i].fact : i \in DOMAIN es}

(* What the client asks for; an event without a channel passes no filter   *)
(* of channels.                                                            *)
Passes(fact) ==
    /\ filter.networks = {} \/ fact.network \in filter.networks
    /\ filter.channels = {} \/ fact.channel \in filter.channels

StreamInit ==
    /\ subscribers = {}
    /\ queue = [s \in Streams |-> <<>>]
    /\ generator = [s \in Streams |-> "ended"]
    /\ filter \in Filters
    /\ current = None /\ behind = {}
    /\ since = [n \in Networks |-> 0]
    /\ have = {} /\ dropped = {}

-----------------------------------------------------------------------------
(* EventBus.                                                               *)

(* Mutant: the queue has no bound.                                         *)
FittingAlways(q, es) == q \o es

(* Mutant: a full queue forgets its oldest event, as a deque would.        *)
FittingNewest(q, es) ==
    SubSeq(q \o es, IF Len(q \o es) < QueueMax
                      THEN 1 ELSE Len(q \o es) - QueueMax + 1, Len(q \o es))

(* What a queue holds after some events are put into it one by one; those  *)
(* that find it full are lost.                                             *)
Fitting(q, es) == SubSeq(q \o es, 1, IF Len(q \o es) < QueueMax
                                       THEN Len(q \o es) ELSE QueueMax)

(* Publishing some events, one after the other, suspends nowhere.          *)
Publish(es) ==
    /\ queue' = [s \in Streams |-> IF s \in subscribers
                                     THEN Fitting(queue[s], es) ELSE queue[s]]
    /\ dropped' =
          IF current \in subscribers
            THEN dropped \cup (FactsOf(es) \ FactsOf(queue'[current]))
            ELSE dropped
    /\ UNCHANGED <<subscribers, generator, filter, current, behind, since,
                   have>>

Unsubscribe(s) ==
    /\ subscribers' = subscribers \ {s}
    /\ queue' = [queue EXCEPT ![s] = <<>>]
    /\ generator' = [generator EXCEPT ![s] = "ended"]

-----------------------------------------------------------------------------
(* GET /events.                                                            *)

(* The handler subscribes and returns the response.                        *)
OpenStream(s) ==
    /\ current = None /\ generator[s] = "ended"
    /\ subscribers' = subscribers \cup {s}
    /\ queue' = [queue EXCEPT ![s] = <<>>]
    /\ generator' = [generator EXCEPT ![s] = "created"]
    /\ current' = s /\ behind' = Networks
    /\ UNCHANGED <<filter, since, have, dropped>>

ResponseStarts(s) ==
    /\ generator[s] = "created"
    /\ generator' = [generator EXCEPT ![s] = "checking"]
    /\ UNCHANGED <<subscribers, queue, filter, current, behind, since, have,
                   dropped>>

(* The client is gone before the response starts: the body of a generator  *)
(* that never ran has no finally, and its queue stays subscribed.          *)
ResponseNeverStarts(s) ==
    /\ generator[s] = "created" /\ current # s
    /\ generator' = [generator EXCEPT ![s] = "forgotten"]
    /\ UNCHANGED <<subscribers, queue, filter, current, behind, since, have,
                   dropped>>

(* request.is_disconnected()                                               *)
Checks(s) ==
    /\ generator[s] = "checking"
    /\ IF current = s
         THEN /\ generator' = [generator EXCEPT ![s] = "waiting"]
              /\ UNCHANGED <<subscribers, queue>>
         ELSE Unsubscribe(s)
    /\ UNCHANGED <<filter, current, behind, since, have, dropped>>

(* What the client does with an event: what it is up to date with, it      *)
(* remembers under the id.                                                 *)
Receive(event) ==
    /\ have' = have \cup {event.fact}
    /\ since' =
          IF event.fact.network \notin behind
                /\ event.id > since[event.fact.network]
            THEN [since EXCEPT ![event.fact.network] = event.id] ELSE since

Gets(s) ==
    /\ generator[s] = "waiting" /\ queue[s] # <<>>
    /\ queue' = [queue EXCEPT ![s] = Tail(@)]
    /\ generator' = [generator EXCEPT ![s] = "checking"]
    /\ IF current = s /\ Passes(Head(queue[s]).fact)
         THEN Receive(Head(queue[s])) ELSE UNCHANGED <<have, since>>
    /\ UNCHANGED <<subscribers, filter, current, behind, dropped>>

(* Mutant: after a keepalive the generator waits for an event again.       *)
KeepsWaiting(s) ==
    /\ generator[s] = "waiting" /\ queue[s] = <<>>
    /\ UNCHANGED streamVars

(* Nothing came for thirty seconds: a keepalive.                           *)
TimesOut(s) ==
    /\ generator[s] = "waiting" /\ queue[s] = <<>>
    /\ generator' = [generator EXCEPT ![s] = "checking"]
    /\ UNCHANGED <<subscribers, queue, filter, current, behind, since, have,
                   dropped>>

(* The response of a client that is gone may be cancelled at an await.     *)
Cancelled(s) ==
    /\ generator[s] \in {"checking", "waiting"} /\ current # s
    /\ Unsubscribe(s)
    /\ UNCHANGED <<filter, current, behind, since, have, dropped>>

-----------------------------------------------------------------------------
(* The client.                                                             *)

ClientLeaves ==
    /\ current # None
    /\ current' = None /\ behind' = {}
    /\ UNCHANGED <<subscribers, queue, generator, filter, since, have,
                   dropped>>

(* The pages of a network after an id, of what is stored; paging until     *)
(* there is no more is CatchUpIsComplete of MessageLog.                    *)
CatchUp(n, log) ==
    LET news == {e \in log : e.fact.network = n /\ e.id > since[n]}
        live == {e \in log : e.fact.network = n /\ e.fact \in have}
        ids == {since[n]} \cup {e.id : e \in news \cup live}
    IN /\ n \in behind
       /\ behind' = behind \ {n}
       /\ have' = have \cup {e.fact : e \in news}
       /\ \E id \in ids : /\ \A other \in ids : other <= id
                          /\ since' = [since EXCEPT ![n] = id]
       /\ UNCHANGED <<subscribers, queue, generator, filter, current, dropped>>

(* The process ends, and all responses with it.                            *)
StreamsEnd ==
    /\ subscribers' = {}
    /\ queue' = [s \in Streams |-> <<>>]
    /\ generator' = [s \in Streams |-> "ended"]
    /\ current' = None /\ behind' = {}
    /\ UNCHANGED <<filter, since, have, dropped>>

GeneratorStep(s) == ResponseStarts(s) \/ Checks(s) \/ Gets(s) \/ TimesOut(s)

StreamStep(log) ==
    \/ \E s \in Streams :
          \/ OpenStream(s) \/ GeneratorStep(s)
          \/ ResponseNeverStarts(s) \/ Cancelled(s)
    \/ ClientLeaves
    \/ \E n \in Networks : CatchUp(n, log)

(* The event loop runs every generator that can run; a response whose      *)
(* client is gone may be dropped before it starts.                         *)
StreamFairness == \A s \in Streams : WF_streamVars(GeneratorStep(s))

-----------------------------------------------------------------------------
StreamTypeOK ==
    /\ subscribers \subseteq Streams
    /\ queue \in [Streams -> Seq(Event)]
    /\ \A s \in Streams : Len(queue[s]) <= QueueMax
    /\ generator \in [Streams -> {"ended", "created", "checking", "waiting",
                                  "forgotten"}]
    /\ filter \in Filters
    /\ current \in Streams \cup {None}
    /\ behind \subseteq Networks
    /\ since \in [Networks -> Nat]
    /\ have \subseteq Fact /\ dropped \subseteq Fact

(***************************************************************************)
(* The generator of a response whose client is gone ends and gives its     *)
(* queue back, if it has ever started.                                     *)
(***************************************************************************)
AbandonedStreamsEnd ==
    \A s \in Streams :
        generator[s] \in {"checking", "waiting"} /\ current # s
            ~> s \notin subscribers
=============================================================================
