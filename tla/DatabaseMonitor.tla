-------------------------- MODULE DatabaseMonitor --------------------------
(***************************************************************************)
(* The database monitor with the event streams: while the database is down *)
(* its notes for the log wait in _pending_db_meta and go to the streams    *)
(* under temporary ids; when it is back they are stored under real ones.   *)
(* Messages of the networks, and clients that follow them, in between.     *)
(*                                                                         *)
(* The database is outside the program.  A statement may fail at any time, *)
(* and may have been executed when it fails; PostgresStore is about how    *)
(* that comes about.  A failure leaves the database down until it is back. *)
(***************************************************************************)
EXTENDS EventStream

CONSTANT MaxTime  \* bound: messages, failures and restarts of a behaviour

ASSUME MonitorAssumption == MaxTime \in Nat

VARIABLES
    dbUp,      \* storage calls succeed
    db_ok,     \* _db_ok
    networks,  \* proxy.networks: the names in the order of the table
    rows,      \* the stored networks
    pending,   \* _pending_db_meta, as the facts that wait
    log,       \* the tables of messages
    last_id,   \* the sequence of the message ids
    now,       \* how many messages, failures and restarts there were
    noticed,   \* history: losses noted for networks that are still there
    forgotten, \* history: facts that waited when a process ended, unwritten
    cut,       \* history: facts written in a step in which the database failed
    stalled,   \* history: the notes that wait were tried, and not all written
    leftover   \* history: networks that left something behind

monitorVars == <<dbUp, db_ok, networks, rows, pending, log, last_id, now,
                 noticed, forgotten, cut, stalled, leftover>>
vars == <<streamVars, monitorVars>>

NewFact(kind, n, ch) ==
    [kind |-> kind, network |-> n, channel |-> ch, at |-> now]

(* A fact of one kind for each network of the table.                       *)
Facts(kind) ==
    [i \in DOMAIN networks |-> NewFact(kind, networks[i], None)]

(* Mutant: the facts that are written together get the same id.            *)
EntriesAlike(facts) ==
    [i \in DOMAIN facts |-> [id |-> last_id + 1, fact |-> facts[i]]]

(* Entries for some facts, under the ids that the store gives out next.    *)
Entries(facts) ==
    [i \in DOMAIN facts |-> [id |-> last_id + i, fact |-> facts[i]]]

Temporary(facts) == [i \in DOMAIN facts |-> [id |-> 0, fact |-> facts[i]]]

Elements(q) == {q[i] : i \in DOMAIN q}

StoredFacts == {e.fact : e \in log}

(* ORDER BY name                                                           *)
Ordered(S) ==
    CHOOSE q \in [1..Cardinality(S) -> S] : Elements(q) = S

Init ==
    /\ StreamInit
    /\ dbUp = TRUE /\ db_ok = TRUE
    /\ networks = <<>> /\ rows = {} /\ pending = <<>>
    /\ log = {} /\ last_id = 0 /\ now = 0
    /\ noticed = {} /\ forgotten = {} /\ cut = {} /\ stalled = FALSE
    /\ leftover = {}

Tick == now < MaxTime /\ now' = now + 1

(* A failure is the beginning of an outage.                                *)
DatabaseFails == dbUp /\ Tick /\ dbUp' = FALSE

-----------------------------------------------------------------------------
(* Handlers and events.                                                    *)

(* A message that is sent or received, in a channel or with a peer.        *)
Message(n, ch) ==
    LET fact == NewFact("message", n, ch)
        entries == Entries(<<fact>>)
    IN /\ dbUp /\ Tick
       /\ n \in Elements(networks)
       /\ log' = log \cup Elements(entries)
       /\ last_id' = last_id + 1
       /\ Publish(entries)
       /\ UNCHANGED <<dbUp, db_ok, networks, rows, pending, noticed,
                      forgotten, cut, stalled, leftover>>

(* The insert is executed and raises, so that nothing is published.        *)
MessageUnanswered(n, ch) ==
    LET fact == NewFact("message", n, ch)
    IN /\ DatabaseFails
       /\ n \in Elements(networks)
       /\ log' = log \cup Elements(Entries(<<fact>>))
       /\ last_id' = last_id + 1
       /\ cut' = cut \cup {fact}
       /\ UNCHANGED <<streamVars, db_ok, networks, rows, pending, noticed,
                      forgotten, stalled, leftover>>

(* _inject_meta stores and does not publish.                               *)
Note(n) ==
    LET fact == NewFact("note", n, None)
    IN /\ dbUp /\ Tick
       /\ n \in Elements(networks)
       /\ log' = log \cup Elements(Entries(<<fact>>))
       /\ last_id' = last_id + 1
       /\ UNCHANGED <<streamVars, dbUp, db_ok, networks, rows, pending,
                      noticed, forgotten, cut, stalled, leftover>>

(* save_network raises when the database is down; the process has the      *)
(* network all the same.                                                   *)
CreateNetwork(n) ==
    /\ n \notin Elements(networks)
    /\ networks' = Append(networks, n)
    /\ rows' = IF dbUp THEN rows \cup {n} ELSE rows
    /\ UNCHANGED <<streamVars, dbUp, db_ok, pending, log, last_id, now,
                   noticed, forgotten, cut, stalled, leftover>>

(* Mutant: the messages of the network stay.                               *)
LogAfterRowOnly(n, statements) == log

(* The log after some statements of delete_network, remove_network_data.   *)
LogAfterDelete(n, statements) ==
    IF statements = 2 THEN {e \in log : e.fact.network # n} ELSE log

(* The network leaves the process first; when the database fails or is     *)
(* down, the deletion ends after some statements.                          *)
DeleteNetwork(n, statements) ==
    /\ n \in Elements(networks)
    /\ \/ dbUp /\ statements = 2 /\ UNCHANGED <<dbUp, now>>
       \/ ~dbUp /\ statements = 0 /\ UNCHANGED <<dbUp, now>>
       \/ DatabaseFails
    /\ \E i \in DOMAIN networks :
          /\ networks[i] = n
          /\ networks' = SubSeq(networks, 1, i - 1)
                             \o SubSeq(networks, i + 1, Len(networks))
    /\ rows' = IF statements > 0 THEN rows \ {n} ELSE rows
    /\ log' = LogAfterDelete(n, statements)
    /\ leftover' =
          IF \/ statements < 2 /\ \E f \in StoredFacts : f.network = n
             \/ \E f \in Elements(pending) : f.network = n
            THEN leftover \cup {n} ELSE leftover \ {n}
    /\ noticed' = {f \in noticed : f.network # n}
    /\ UNCHANGED <<streamVars, db_ok, pending, last_id, forgotten, cut,
                   stalled>>

-----------------------------------------------------------------------------
(* The monitor.                                                            *)

(* _on_db_lost: the notes wait, and are published under temporary ids.     *)
ProbeLost ==
    /\ ~dbUp /\ db_ok
    /\ db_ok' = FALSE
    /\ pending' = pending \o Facts("lost")
    /\ noticed' = noticed \cup Elements(Facts("lost"))
    /\ Publish(Temporary(Facts("lost")))
    /\ UNCHANGED <<dbUp, networks, rows, log, last_id, now, forgotten, cut,
                   stalled, leftover>>

(* Mutant: the notes are forgotten, written or not.                        *)
PendingForgotten(fails) == <<>>

(* Mutant: the notes are kept.                                             *)
PendingKept(fails) == pending

(* The notes that wait are forgotten when all of them are written.         *)
PendingAfter(fails) == IF fails > Len(pending) THEN <<>> ELSE pending

(* Mutant: nothing is done when no note waits.                             *)
ReturnWithNotes == dbUp /\ ~db_ok /\ pending # <<>>

ReturnNoticed == dbUp /\ ~db_ok

(***************************************************************************)
(* _on_db_restored: the notes that wait are written, and then "restored"   *)
(* is written and published for each network.  The database may fail at    *)
(* any of them, which is written or not; an exception ends the probe, and  *)
(* _db_ok is TRUE already.  "fails" is the place of the failure, one       *)
(* beyond the end when there is none.                                      *)
(***************************************************************************)
ProbeRestored(fails, written) ==
    LET all == Entries(pending \o Facts("restored"))
        entries == SubSeq(all, 1, written)
        published == SubSeq(all, Len(pending) + 1, fails - 1)
    IN /\ ReturnNoticed
       /\ fails \in 1..(Len(all) + 1)
       /\ written \in {fails - 1, fails} /\ written <= Len(all)
       /\ IF fails > Len(all) THEN UNCHANGED <<dbUp, now, cut>>
          ELSE DatabaseFails /\ cut' = cut \cup FactsOf(entries)
       /\ db_ok' = TRUE
       /\ pending' = PendingAfter(fails)
       /\ stalled' = (pending' # <<>>)
       /\ log' = log \cup Elements(entries)
       /\ last_id' = last_id + written
       /\ Publish(published)
       /\ UNCHANGED <<networks, rows, noticed, forgotten, leftover>>

ProbeUnchanged == dbUp = db_ok /\ UNCHANGED vars

Probe ==
    \/ ProbeUnchanged \/ ProbeLost
    \/ \E fails \in 1..(Len(pending) + Len(networks) + 1) :
          \E written \in {fails - 1, fails} : ProbeRestored(fails, written)

-----------------------------------------------------------------------------
(* The database, and the process.                                          *)

OutageBegins ==
    /\ DatabaseFails
    /\ UNCHANGED <<streamVars, db_ok, networks, rows, pending, log, last_id,
                   noticed, forgotten, cut, stalled, leftover>>

OutageEnds ==
    /\ ~dbUp
    /\ dbUp' = TRUE
    /\ UNCHANGED <<streamVars, db_ok, networks, rows, pending, log, last_id,
                   now, noticed, forgotten, cut, stalled, leftover>>

(* A new process restores the networks that have a row, and notes that in  *)
(* their logs.  The notes that waited were only in the memory of the old.  *)
Restart ==
    LET facts == [i \in 1..Cardinality(rows) |->
                     NewFact("started", Ordered(rows)[i], None)]
    IN /\ dbUp /\ Tick
       /\ StreamsEnd
       /\ networks' = Ordered(rows)
       /\ pending' = <<>> /\ db_ok' = TRUE
       /\ log' = log \cup Elements(Entries(facts))
       /\ last_id' = last_id + Cardinality(rows)
       /\ forgotten' = forgotten \cup (Elements(pending) \ StoredFacts)
       /\ leftover' = leftover
             \cup {f.network : f \in {g \in StoredFacts :
                                         g.network \notin rows}}
       /\ stalled' = FALSE
       /\ UNCHANGED <<dbUp, rows, noticed, cut>>

MonitorStep ==
    \/ \E n \in Networks, ch \in Channels \cup {None} :
          Message(n, ch) \/ MessageUnanswered(n, ch)
    \/ \E n \in Networks :
          \/ Note(n) \/ CreateNetwork(n)
          \/ \E statements \in 0..2 : DeleteNetwork(n, statements)
    \/ Probe \/ OutageBegins \/ OutageEnds \/ Restart

Next == MonitorStep \/ (StreamStep(log) /\ UNCHANGED monitorVars)

Spec == Init /\ [][Next]_vars

(* The monitor probes for ever, every thirty seconds.                      *)
Fairness == StreamFairness /\ WF_vars(Probe)

FairSpec == Spec /\ Fairness

-----------------------------------------------------------------------------
(* Every variable has its type, those of the streams included.             *)
TypeOK ==
    /\ StreamTypeOK
    /\ dbUp \in BOOLEAN /\ db_ok \in BOOLEAN /\ stalled \in BOOLEAN
    /\ networks \in Seq(Networks) /\ rows \subseteq Networks
    /\ pending \in Seq(Fact)
    /\ log \subseteq Event
    /\ last_id \in Nat /\ now \in 0..MaxTime
    /\ noticed \subseteq Fact /\ forgotten \subseteq Fact /\ cut \subseteq Fact
    /\ leftover \subseteq Networks

(***************************************************************************)
(* A client that has opened a stream and then caught up with a network has *)
(* everything that its filter lets through, or finds it in the queue, even *)
(* if it has lost streams before.  What it may lack is what a full queue   *)
(* has dropped and what was stored without being published: the notes of   *)
(* _inject_meta, those of the monitor when they are stored at last, and a  *)
(* message whose insert raised.                                            *)
(***************************************************************************)
FollowerMissesNothing ==
    current # None =>
        \A fact \in StoredFacts :
            \/ fact.network \in behind \/ ~Passes(fact)
            \/ fact \in have \cup FactsOf(queue[current])
            \/ fact \in dropped \cup cut
            \/ fact.kind \in {"note", "started", "lost"}

(***************************************************************************)
(* A loss of the database that was noted for a network that is still there *)
(* waits or is in its log, however often the database fails again while    *)
(* the notes are being written.  Nothing but the end of a process forgets  *)
(* one: it takes those with it that wait for a process that writes them.   *)
(***************************************************************************)
NoLossForgotten ==
    noticed \subseteq Elements(pending) \cup StoredFacts \cup forgotten

(***************************************************************************)
(* Nothing is in the log twice, and nothing that is there still waits to   *)
(* be written, but for the notes that were being written when the database *)
(* failed.                                                                 *)
(***************************************************************************)
NotedOnce ==
    /\ \A e1, e2 \in log :
          e1.fact = e2.fact => e1 = e2 \/ e1.fact \in cut
    /\ Elements(pending) \cap StoredFacts \subseteq cut

(***************************************************************************)
(* The log has nothing of a network that was deleted, but what the         *)
(* deletion could not remove because the database failed, the notes of the *)
(* monitor that waited for it and are written later, and what a network    *)
(* had whose row could never be written, when the process starts again.    *)
(***************************************************************************)
DeletedStayGone ==
    \A fact \in StoredFacts :
        fact.network \in Elements(networks) \cup leftover

(***************************************************************************)
(* When the database stays up or down, the monitor notices in the end; and *)
(* then no note waits, unless the database failed while they were written  *)
(* and was up again before the next probe: these wait for the next outage. *)
(***************************************************************************)
MonitorFollowsDatabase ==
    /\ <>[]dbUp => <>[](db_ok /\ (pending = <<>> \/ stalled))
    /\ <>[]~dbUp => <>[]~db_ok

-----------------------------------------------------------------------------
(* The entries of the log, in the logs of their networks.                  *)
Kept ==
    {[id |-> e.id, place |-> e.fact.network, what |-> e.fact] : e \in log}

Abstract == INSTANCE MessageStore WITH messages <- Kept, last <- last_id

(***************************************************************************)
(* What the handlers, the monitor and the start of a process write         *)
(* together implements MessageStore: the notes that waited for the         *)
(* database are stored above everything that was stored while they waited, *)
(* several of them at once or only some, and one by one under their own    *)
(* ids.                                                                    *)
(***************************************************************************)
ImplementsStore == Abstract!Spec
=============================================================================
