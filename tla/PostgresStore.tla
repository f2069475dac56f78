--------------------------- MODULE PostgresStore ---------------------------
(***************************************************************************)
(* PostgresBackend: the storage calls of the handlers, each a few SQL      *)
(* statements on one connection, which commits every statement by itself.  *)
(* _run executes a call a second time, from its first statement and over a *)
(* new connection, when anything in it raises.                             *)
(*                                                                         *)
(* The database server and the network to it are outside the program: a    *)
(* statement may be executed and answered, executed without the answer     *)
(* getting back, or not executed.  The process may die at any moment.      *)
(* Storage calls block the event loop, so one handler at a time has calls  *)
(* to make; what runs beside the process is pg_admin passwd.               *)
(*                                                                         *)
(* What the process holds of a network changes without a save (the nick,   *)
(* the channels of messages), so a save may ask for any configuration.     *)
(* Handlers that waited for a client go on after their network has been    *)
(* deleted, and still save it and store notes of it.                       *)
(***************************************************************************)
EXTENDS Naturals, FiniteSets, Sequences

CONSTANTS
    Networks,
    Channels,
    Targets,      \* what messages and pointers of a network are kept for
    Values,       \* of the fields of a network, its passwords among them
    Passphrases,  \* values of LIPSERVICE_PASS
    None,
    MaxId         \* bound: ids drawn in one behaviour

ASSUME StoreAssumption ==
    /\ IsFiniteSet(Channels)
    /\ None \notin Values \cup Passphrases
    /\ MaxId \in Nat

VARIABLES
    db,        \* the tables, as committed
    serverUp,  \* the database server accepts connections
    conn,      \* PostgresBackend._conn: "broken" ones look open
    secret,    \* _passphrase of the running process, None without one
    serving,   \* restore_networks has read the networks
    networks,  \* those of the process
    former,    \* those that this process has deleted
    calls,     \* what the running handler calls, the current call first
    attempt,   \* of _run for the current call
    done,      \* the statements of this attempt that were answered
    drawn,     \* the id that next_message_id returned last
    rekey,     \* what pg_admin passwd has read
    saved,     \* history: the networks as last read or asked to be saved
    answer,    \* history: how the last call ended
    failures,  \* history: connections the last call lost, at most 2
    torn,      \* history: networks a failed call may have left half written
    outdated   \* history: networks saved beside or after a passwd run

heldVars == <<serving, networks, former, saved>>
procVars == <<secret, heldVars, calls, attempt, done, drawn, answer, failures,
              torn>>
vars == <<db, serverUp, conn, procVars, rekey, outdated>>

Ids == 1..MaxId
Message == [id : Ids, network : Networks, target : Targets]
Pointer == [network : Networks, target : Targets, id : Ids]
Config == [value : Values, channels : SUBSET Channels]
Row == [value : Values, key : Passphrases]
NotRunning == [new |-> None, seen |-> <<>>]

Partial(D, R) == UNION {[S -> R] : S \in SUBSET D}

With(f, x, y) == [z \in DOMAIN f \cup {x} |-> IF z = x THEN y ELSE f[z]]

Without(f, x) == [z \in DOMAIN f \ {x} |-> f[z]]

NextId == [op |-> "next_message_id"]
AppendMessage(n, t) == [op |-> "append_message", network |-> n, target |-> t]
ClosePeer(n, t) == [op |-> "remove_private_peer", network |-> n, target |-> t]
SetPointer(n, t) == [op |-> "set_pointer", network |-> n, target |-> t]
Save(n, config) == [op |-> "save_network", network |-> n, config |-> config]
Delete(n) == [op |-> "delete_network", network |-> n]
RemoveData(n) == [op |-> "remove_network_data", network |-> n]
SetSession == [op |-> "set_session"]
Select == [op |-> "select"]
ListNetworks == [op |-> "list_networks"]

Calls ==
    {NextId, SetSession, Select, ListNetworks}
        \cup {AppendMessage(n, t) : n \in Networks, t \in Targets}
        \cup {ClosePeer(n, t) : n \in Networks, t \in Targets}
        \cup {SetPointer(n, t) : n \in Networks, t \in Targets}
        \cup {Save(n, config) : n \in Networks, config \in Config}
        \cup {Delete(n) : n \in Networks}
        \cup {RemoveData(n) : n \in Networks}

Pending == [how |-> "pending", op |-> None]
Returned == [how |-> "returned", op |-> Head(calls).op]
Raised == [how |-> "raised", op |-> Head(calls).op]

(* After a failure these may have written the network, or half of it.      *)
Writers == {"save_network", "delete_network"}

WrittenBy(cs) ==
    {cs[i].network : i \in {j \in DOMAIN cs : cs[j].op \in Writers}}

Init ==
    /\ \E p \in Passphrases :
          db = [seq |-> 0, messages |-> {}, rows |-> <<>>,
                channels |-> [n \in Networks |-> {}], pointers |-> {},
                probe |-> p]
    /\ serverUp = TRUE
    /\ conn = "closed"
    /\ secret = None /\ serving = FALSE
    /\ networks = {} /\ former = {} /\ saved = <<>>
    /\ calls = <<>> /\ attempt = 1 /\ done = {}
    /\ drawn = 0
    /\ rekey = NotRunning
    /\ answer = Pending /\ failures = 0
    /\ torn = {} /\ outdated = {}

-----------------------------------------------------------------------------
(* SQL.                                                                    *)

Statement(at, what) == [at |-> at, do |-> what]

StatementsOfRemoval ==
    {Statement(1, "remove_messages"), Statement(2, "remove_pointers")}

Adds(at, S) == {[at |-> at, do |-> "add", channel |-> ch] : ch \in S}

(* Mutant: the channels are deleted after the new ones are inserted.       *)
StatementsClearingLast(c) ==
    IF c.op = "save_network"
      THEN {Statement(1, "upsert"), Statement(3, "clear")}
              \cup Adds(2, c.config.channels)
    ELSE IF c.op = "remove_network_data" THEN StatementsOfRemoval
    ELSE {Statement(1, c.op)}

(* The statements of a call, by their places; those of one place have no   *)
(* order that matters.                                                     *)
Statements(c) ==
    IF c.op = "save_network"
      THEN {Statement(1, "upsert"), Statement(2, "clear")}
              \cup Adds(3, c.config.channels)
    ELSE IF c.op = "remove_network_data" THEN StatementsOfRemoval
    ELSE {Statement(1, c.op)}

(* The tables after a statement of a call.                                 *)
MessagesAfter(c, s) ==
    IF s.do = "append_message"
      THEN db.messages \cup
               {[id |-> drawn, network |-> c.network, target |-> c.target]}
    ELSE IF s.do = "remove_private_peer"
      THEN {m \in db.messages :
               m.network # c.network \/ m.target # c.target}
    ELSE IF s.do = "remove_messages"
      THEN {m \in db.messages : m.network # c.network}
    ELSE db.messages

RowsAfter(c, s) ==
    IF s.do = "upsert"
      THEN With(db.rows, c.network,
                [value |-> c.config.value, key |-> secret])
    ELSE IF s.do = "delete_network" THEN Without(db.rows, c.network)
    ELSE db.rows

ChannelsAfter(c, s) ==
    IF s.do \in {"clear", "delete_network"}
      THEN [db.channels EXCEPT ![c.network] = {}]
    ELSE IF s.do = "add"
      THEN [db.channels EXCEPT ![c.network] = @ \cup {s.channel}]
    ELSE db.channels

PointersAfter(c, s) ==
    IF s.do = "set_pointer"
      THEN {p \in db.pointers :
               p.network # c.network \/ p.target # c.target}
           \cup {[network |-> c.network, target |-> c.target, id |-> drawn]}
    ELSE IF s.do = "remove_pointers"
      THEN {p \in db.pointers : p.network # c.network}
    ELSE db.pointers

(* Mutant: the id is the next after those of the messages that are there.  *)
AfterCounting(c, s) ==
    [seq |-> IF s.do = "next_message_id" THEN Cardinality(db.messages) + 1
             ELSE db.seq,
     messages |-> MessagesAfter(c, s), rows |-> RowsAfter(c, s),
     channels |-> ChannelsAfter(c, s), pointers |-> PointersAfter(c, s),
     probe |-> db.probe]

After(c, s) ==
    [seq |-> IF s.do = "next_message_id" THEN db.seq + 1 ELSE db.seq,
     messages |-> MessagesAfter(c, s), rows |-> RowsAfter(c, s),
     channels |-> ChannelsAfter(c, s), pointers |-> PointersAfter(c, s),
     probe |-> db.probe]

(* The key of the messages rejects an id that is there; the passwords of   *)
(* the rows are decrypted inside the call.                                 *)
Rejected(s) ==
    \/ /\ s.do = "append_message"
       /\ \E m \in db.messages : m.id = drawn
    \/ /\ s.do = "list_networks"
       /\ \E n \in DOMAIN db.rows : db.rows[n].key # secret

(* A row that is saved while passwd works on what it has read, or under a  *)
(* passphrase that is no longer the probe's.                               *)
OutdatedAfter(c, s) ==
    IF s.do = "upsert"
      THEN IF rekey # NotRunning \/ secret # db.probe
             THEN outdated \cup {c.network} ELSE outdated \ {c.network}
      ELSE IF s.do = "delete_network" THEN outdated \ {c.network}
      ELSE outdated

-----------------------------------------------------------------------------
(* _run.                                                                   *)

Due ==
    LET rest == Statements(Head(calls)) \ done
    IN {s \in rest : \A t \in rest : s.at <= t.at}

Execute(s) ==
    /\ s.do = "next_message_id" => db.seq < MaxId
    /\ db' = After(Head(calls), s)
    /\ outdated' = OutdatedAfter(Head(calls), s)

Reconnect ==
    /\ calls # <<>> /\ conn = "closed" /\ serverUp
    /\ conn' = "open"
    /\ UNCHANGED <<db, serverUp, procVars, rekey, outdated>>

(* The call returns when its last statement is answered.                   *)
Answered(s) ==
    /\ calls # <<>> /\ conn = "open"
    /\ s \in Due /\ s.do # "list_networks" /\ ~Rejected(s)
    /\ Execute(s)
    /\ drawn' = IF s.do = "next_message_id" THEN db'.seq ELSE drawn
    /\ IF Statements(Head(calls)) \subseteq done \cup {s}
         THEN /\ calls' = Tail(calls)
              /\ attempt' = 1 /\ done' = {}
              /\ answer' = Returned
              /\ torn' = IF Head(calls).op \in Writers
                           THEN torn \ {Head(calls).network} ELSE torn
         ELSE /\ done' = done \cup {s}
              /\ UNCHANGED <<calls, attempt, answer, torn>>
    /\ failures' = IF calls' = calls THEN failures ELSE 0
    /\ UNCHANGED <<serverUp, conn, secret, heldVars, rekey>>

(* list_networks is answered, and restore_networks makes what it returned  *)
(* the networks of the process.                                            *)
Listed(s) ==
    /\ calls # <<>> /\ conn = "open"
    /\ s \in Due /\ s.do = "list_networks" /\ ~Rejected(s)
    /\ calls' = Tail(calls) /\ attempt' = 1 /\ done' = {}
    /\ answer' = Returned /\ failures' = 0
    /\ serving' = TRUE
    /\ networks' = DOMAIN db.rows
    /\ saved' = [n \in DOMAIN db.rows |->
                    [value |-> db.rows[n].value,
                     channels |-> db.channels[n]]]
    /\ torn' = torn \ DOMAIN db.rows
    /\ outdated' = IF rekey = NotRunning /\ secret = db.probe
                     THEN {} ELSE outdated
    /\ UNCHANGED <<db, serverUp, conn, secret, former, drawn, rekey>>

(* The exception reaches the handler, which makes no further call.         *)
Raise ==
    /\ calls' = <<>>
    /\ attempt' = 1 /\ done' = {}
    /\ answer' = Raised
    /\ torn' = torn \cup WrittenBy(calls)

Retry ==
    /\ attempt' = 2 /\ done' = {}
    /\ UNCHANGED <<calls, answer, torn>>

(* Mutant: there is no second attempt.                                     *)
AttemptFailsAtOnce == conn' = "closed" /\ Raise

(* Mutant: there is a third attempt.                                       *)
AttemptFailsTwice ==
    /\ conn' = "closed"
    /\ IF attempt <= 2
         THEN attempt' = attempt + 1 /\ done' = {} /\ UNCHANGED
                  <<calls, answer, torn>>
         ELSE Raise

(* Mutant: the second failure is taken for an answer.                      *)
AttemptFailsSilently ==
    /\ conn' = "closed"
    /\ IF attempt = 1 THEN Retry
       ELSE /\ calls' = Tail(calls) /\ attempt' = 1 /\ done' = {}
            /\ answer' = Returned /\ UNCHANGED torn

AttemptFails ==
    /\ conn' = "closed"
    /\ IF attempt = 1 THEN Retry ELSE Raise

(* The connection breaks before the statement is executed, or it had been  *)
(* broken before.                                                          *)
StatementLost ==
    /\ calls # <<>> /\ conn \in {"open", "broken"}
    /\ AttemptFails
    /\ failures' = IF failures = 0 THEN 1 ELSE 2
    /\ UNCHANGED <<db, serverUp, secret, heldVars, drawn, rekey, outdated>>

AnswerLost(s) ==
    /\ calls # <<>> /\ conn = "open"
    /\ s \in Due /\ ~Rejected(s)
    /\ Execute(s)
    /\ AttemptFails
    /\ failures' = IF failures = 0 THEN 1 ELSE 2
    /\ UNCHANGED <<serverUp, secret, heldVars, drawn, rekey>>

StatementRejected(s) ==
    /\ calls # <<>> /\ conn = "open"
    /\ s \in Due /\ Rejected(s)
    /\ AttemptFails
    /\ UNCHANGED <<db, serverUp, secret, heldVars, drawn, rekey, failures,
                   outdated>>

(* psycopg.connect raises, and _run with it: it is outside the try.        *)
ConnectionRefused ==
    /\ calls # <<>> /\ conn = "closed"
    /\ Raise
    /\ failures' = 2
    /\ UNCHANGED <<db, serverUp, conn, secret, heldVars, drawn, rekey,
                   outdated>>

Run ==
    \/ Reconnect \/ StatementLost \/ ConnectionRefused
    \/ \E s \in Due :
          \/ Answered(s) \/ Listed(s)
          \/ AnswerLost(s) \/ StatementRejected(s)

-----------------------------------------------------------------------------
(* Handlers: what they do to the networks of the process, and the calls    *)
(* they make then.                                                         *)

Begin(cs) ==
    /\ serving
    /\ calls = <<>>
    /\ calls' = cs
    /\ answer' = Pending /\ failures' = 0
    /\ UNCHANGED <<db, serverUp, conn, secret, serving, attempt, done, drawn,
                   rekey, torn, outdated>>

(* Messages are stored for a network that was there before the handler     *)
(* waited for its client, and notes of the database for one that was there *)
(* when it was lost.                                                       *)
StoreMessage(n, t) ==
    /\ n \in networks \cup former
    /\ Begin(<<NextId, AppendMessage(n, t)>>)
    /\ UNCHANGED <<networks, former, saved>>

CreateNetwork(n, value) ==
    LET config == [value |-> value, channels |-> {}]
    IN /\ n \notin networks
       /\ Begin(<<Save(n, config)>>)
       /\ networks' = networks \cup {n}
       /\ saved' = With(saved, n, config)
       /\ UNCHANGED former

(* PATCH of a network, connect, disconnect, own joins and parts: what the  *)
(* network has become, saved or not, since it was read.                    *)
SaveNetwork(n, config) ==
    /\ n \in networks \cup former
    /\ Begin(<<Save(n, config)>>)
    /\ saved' = With(saved, n, config)
    /\ UNCHANGED <<networks, former>>

DeleteNetwork(n) ==
    /\ n \in networks
    /\ Begin(<<Delete(n), RemoveData(n)>>)
    /\ networks' = networks \ {n}
    /\ former' = former \cup {n}
    /\ saved' = Without(saved, n)

CloseQuery(n, t) ==
    /\ n \in networks
    /\ Begin(<<ClosePeer(n, t)>>)
    /\ UNCHANGED <<networks, former, saved>>

(* Clients take their pointers from the messages they are shown.  What is  *)
(* selected, which set_session stores, is left out.                        *)
PutSession(n, t) ==
    /\ drawn > 0
    /\ Begin(<<SetSession, SetPointer(n, t)>>)
    /\ UNCHANGED <<networks, former, saved>>

(* Pages, searches, the poll, and the ping of the monitor.                 *)
Read == Begin(<<Select>>) /\ UNCHANGED <<networks, former, saved>>

Handle ==
    \/ \E n \in Networks, t \in Targets :
          StoreMessage(n, t) \/ CloseQuery(n, t) \/ PutSession(n, t)
    \/ \E n \in Networks, value \in Values : CreateNetwork(n, value)
    \/ \E n \in Networks, config \in Config : SaveNetwork(n, config)
    \/ \E n \in Networks : DeleteNetwork(n)
    \/ Read

-----------------------------------------------------------------------------
(* The process, the server, and pg_admin passwd beside them.               *)

(* _verify_probe decrypts the probe; with another passphrase it raises.    *)
ProbeFits(p) == p = db.probe

(* The constructor connects and verifies the probe; the process does not   *)
(* start when that fails.  Then it reads the networks, and when that       *)
(* raises the process ends, which is a Crash here.                         *)
Boot(p) ==
    /\ secret = None /\ serverUp
    /\ ProbeFits(p)
    /\ secret' = p
    /\ conn' = "open"
    /\ calls' = <<ListNetworks>>
    /\ answer' = Pending /\ failures' = 0
    /\ UNCHANGED <<db, serverUp, heldVars, attempt, done, drawn, rekey, torn,
                   outdated>>

Crash ==
    /\ secret # None
    /\ secret' = None /\ serving' = FALSE
    /\ conn' = "closed"
    /\ networks' = {} /\ former' = {}
    /\ calls' = <<>> /\ attempt' = 1 /\ done' = {}
    /\ drawn' = 0 /\ answer' = Pending /\ failures' = 0
    /\ torn' = torn \cup WrittenBy(calls)
    /\ UNCHANGED <<db, serverUp, saved, rekey, outdated>>

(* Every connection to the server breaks, unnoticed until it is used.      *)
Broken == IF conn = "open" THEN "broken" ELSE conn

ServerStops ==
    /\ serverUp
    /\ serverUp' = FALSE
    /\ conn' = Broken
    /\ rekey' = NotRunning
    /\ UNCHANGED <<db, procVars, outdated>>

ServerStarts ==
    /\ ~serverUp
    /\ serverUp' = TRUE
    /\ UNCHANGED <<db, conn, procVars, rekey, outdated>>

(* passwd reads the rows once it knows that the old passphrase fits them.  *)
PasswdReads(p) ==
    /\ serverUp /\ rekey = NotRunning
    /\ p # db.probe
    /\ \A n \in DOMAIN db.rows : db.rows[n].key = db.probe
    /\ rekey' = [new |-> p,
                 seen |-> [n \in DOMAIN db.rows |-> db.rows[n].value]]
    /\ UNCHANGED <<db, serverUp, conn, procVars, outdated>>

Rekeyed(S) ==
    [n \in DOMAIN db.rows |->
        IF n \in DOMAIN rekey.seen \cap S
          THEN [value |-> rekey.seen[n], key |-> rekey.new] ELSE db.rows[n]]

(* Mutant: without a transaction passwd may die between two updates.       *)
PasswdWithoutTransaction ==
    /\ rekey # NotRunning
    /\ \E S \in SUBSET Networks : db' = [db EXCEPT !.rows = Rekeyed(S)]
    /\ rekey' = NotRunning
    /\ UNCHANGED <<serverUp, conn, procVars, outdated>>

(* One transaction: the passwords that were read, and the probe.           *)
PasswdCommits ==
    /\ rekey # NotRunning
    /\ db' = [db EXCEPT !.rows = Rekeyed(Networks), !.probe = rekey.new]
    /\ rekey' = NotRunning
    /\ UNCHANGED <<serverUp, conn, procVars, outdated>>

PasswdAborts ==
    /\ rekey # NotRunning
    /\ rekey' = NotRunning
    /\ UNCHANGED <<db, serverUp, conn, procVars, outdated>>

Surroundings ==
    \/ Crash \/ ServerStops \/ ServerStarts \/ PasswdCommits \/ PasswdAborts
    \/ \E p \in Passphrases : Boot(p) \/ PasswdReads(p)

Next == (calls # <<>> /\ Run) \/ Handle \/ Surroundings

Spec == Init /\ [][Next]_vars

-----------------------------------------------------------------------------
Tables == [seq : 0..MaxId, messages : SUBSET Message,
           rows : Partial(Networks, Row),
           channels : [Networks -> SUBSET Channels],
           pointers : SUBSET Pointer, probe : Passphrases]

Rekey == {NotRunning}
            \cup [new : Passphrases, seen : Partial(Networks, Values)]

(* Every variable has its type.                                            *)
TypeOK ==
    /\ db \in Tables
    /\ serverUp \in BOOLEAN
    /\ conn \in {"open", "broken", "closed"}
    /\ secret \in Passphrases \cup {None}
    /\ serving \in BOOLEAN /\ (serving => secret # None)
    /\ networks \subseteq Networks /\ former \subseteq Networks
    /\ saved \in Partial(Networks, Config)
    /\ calls \in Seq(Calls) /\ Len(calls) <= 2
    /\ calls # <<>> => secret # None
    /\ attempt \in {1, 2}
    /\ done \subseteq (IF calls = <<>> THEN {} ELSE Statements(Head(calls)))
    /\ drawn \in 0..MaxId
    /\ rekey \in Rekey
    /\ answer.how \in {"pending", "returned", "raised"}
    /\ failures \in 0..2
    /\ torn \subseteq Networks /\ outdated \subseteq Networks

(***************************************************************************)
(* Between two calls the tables hold every network as it was last read or  *)
(* saved, with exactly the channels of that save, and nothing of a network *)
(* whose last call was a deletion: no call about another network or about  *)
(* messages, no lost connection, no end of the process and no passwd       *)
(* undoes it.  Excused are the networks a save or deletion of which raised *)
(* or was cut off by the end of the process, until another succeeds or     *)
(* they are read, and those saved beside passwd.                           *)
(***************************************************************************)
LastCallStands ==
    calls = <<>> =>
        \A n \in Networks \ (torn \cup outdated) :
            IF n \in DOMAIN saved
              THEN /\ n \in DOMAIN db.rows
                   /\ db.rows[n].value = saved[n].value
                   /\ db.channels[n] = saved[n].channels
              ELSE /\ n \notin DOMAIN db.rows
                   /\ db.channels[n] = {}

(***************************************************************************)
(* A call of a handler raises only when it lost two connections, the one   *)
(* that had died unnoticed before included, or when the server takes none; *)
(* or when it inserts a message whose first insert was executed and not    *)
(* answered: one loss makes the insert raise then, and the message is      *)
(* stored although the handler fails.                                      *)
(***************************************************************************)
OneLossIsSurvived ==
    answer.how = "raised" /\ answer.op # "list_networks" =>
        \/ failures = 2
        \/ /\ failures = 1 /\ answer.op = "append_message"
           /\ \E m \in db.messages : m.id = drawn

(***************************************************************************)
(* All passwords can be read with the passphrase of the probe, so that a   *)
(* process with that passphrase starts, wherever passwd dies; except those *)
(* that a running process saved beside passwd or after it.                 *)
(***************************************************************************)
KeysAgree ==
    \A n \in DOMAIN db.rows \ outdated : db.rows[n].key = db.probe

(* What a call that returned has done, whichever attempt did it.           *)
Effect(c) ==
    /\ c.op = "next_message_id" => \A m \in db.messages : m.id < drawn
    /\ c.op = "append_message" =>
          [id |-> drawn, network |-> c.network, target |-> c.target]
              \in db.messages
    /\ c.op = "save_network" =>
          /\ db.channels[c.network] = c.config.channels
          /\ c.network \notin outdated =>
                 /\ c.network \in DOMAIN db.rows
                 /\ db.rows[c.network].value = c.config.value
    /\ c.op = "delete_network" =>
          c.network \notin DOMAIN db.rows /\ db.channels[c.network] = {}
    /\ c.op = "remove_network_data" =>
          /\ \A m \in db.messages : m.network # c.network
          /\ \A p \in db.pointers : p.network # c.network

(***************************************************************************)
(* A call that returns has had its whole effect, also when its first       *)
(* attempt was cut off in the middle, and an id that it returns is above   *)
(* those of all stored messages, whatever was restarted in between.        *)
(***************************************************************************)
ReturnedIsDone ==
    [][\A c \in Calls :
          calls # <<>> /\ c = Head(calls) /\ answer' = Returned
             /\ calls' = Tail(calls) => Effect(c)']_vars

-----------------------------------------------------------------------------
(* The messages of the table, in the place that a request reads.           *)
Kept ==
    {[id |-> m.id, place |-> <<m.network, m.target>>] : m \in db.messages}

(* An id is taken when its message is stored, or when the handler that     *)
(* drew it makes no further call.                                          *)
LastTaken ==
    IF /\ calls # <<>> /\ Head(calls).op = "append_message"
       /\ \A m \in db.messages : m.id # drawn
      THEN drawn - 1 ELSE db.seq

Abstract == INSTANCE MessageStore WITH messages <- Kept, last <- LastTaken

(***************************************************************************)
(* The tables implement MessageStore although the id and the insert are    *)
(* calls of their own, each of which may be lost, executed twice or cut    *)
(* off by the end of the process: the ids of the messages follow the order *)
(* in which they are stored, and no id is used again.                      *)
(***************************************************************************)
ImplementsStore == Abstract!Spec
=============================================================================
