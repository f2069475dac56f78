# A verification of lipservice in TLA+

lipservice is an IRC proxy with a REST API: it holds connections to IRC
servers, tracks their channels, stores messages, and serves clients that come
and go.  This directory models the parts of it in which several actors change
shared state, checks them with TLC on small instances, and proves the core of
it with TLAPS.  Paths below are relative to `src/`; `state.py`, `routes.py`
and so on stand for `lipservice/state.py`, `lipservice/routes.py`.

## 1. The system

Everything runs in one process on one asyncio event loop.  Code is interrupted
only where it awaits something that really suspends; everything between two
such points is one atomic step.  Storage calls are synchronous.

| Component | State | Operations | Interacts through | What makes it correct |
|---|---|---|---|---|
| Network lifecycle (`routes.py` 164-272, `irc.py` 92-139 and 199-224, `state.py` 255-289 and 457-548, `app.py`) | registry of networks; of each its state, client, `auto_reconnect`, back-off and reconnect task; stored row | create, patch, delete, connect, disconnect; loss of a connection; reconnect loop; start, stop, crash | `net.client`, events delivered *by network name*, the row | "connecting" and "connected" are true, a lost connection is dialled again, one connection per network, deleted means gone |
| Channels, members, nick (`state.py` 319-438, `irc.py` 226-411) | `net.channels`, `net.nick`, `client.nick` | events of the IRC connection, PUT nick | events, the row | what the proxy reports is what the server has |
| Join waiters (`state.py` 110-127, `routes.py` 308-339) | table of futures by network and channel | join request, its timeout, join and join_error | futures | a confirmed join is answered, unless another request for the same channel has overtaken it |
| Storage contract and memory store (`storage.py`) | counter, bounded lists, pointers, rows | append, get, remove | called by handlers and events | ids grow, the lists forget the oldest only |
| Messages, pagination, search (`routes.py` 388-609) | none | send; list before, after, around; search | storage | a client that pages gets everything once |
| Background poll (`routes.py` 726-782) | none | poll with the client's pointers | storage, `net.channels` | no pointer passes a message nobody was shown |
| Session (`routes.py` 705-723) | three registers and a map of pointers | get, put (merge) | storage | merging keeps the other keys |
| Event bus and event stream (`state.py` 66-93, `routes.py` 663-700) | bounded queue per stream | publish, subscribe, leave, keepalive | called by every event | a client that follows and catches up lacks only what a full queue dropped; queues go with their stream |
| Database monitor (`state.py` 139-217) | `_db_ok`, waiting notes | probe, lost, restored | storage, event bus | each loss is noted in the end, and once |
| PostgreSQL store (`pg_backend.py`) | one connection | each call is retried once | database | what returned is done, what raised had lost two connections or had been executed, the tables hold what was last saved |
| Administration, encryption (`pg_admin.py`, `crypto.py`) | database | setup, migrate, passwd, teardown | database, beside a running server | rows stay readable with one passphrase |
| Authentication (`auth.py`) | table of tokens | create, validate, revoke | every request | expired means refused |
| IRC parsing and formatting, configuration, models, status | none | pure functions and views | | |

What is hard to test is listed, line by line, in `PROJECT.json` under
`hazards`.  The main sources of trouble are: handlers that use `net` after an
await; events that carry a name and not an object; an IRC client whose
`connect()` is still under way when somebody disconnects it; two variables for
one nick; lists that forget while a client pages through them; and a database
that executes a statement and loses its answer, or fails between two writes.

## 2. The modules

| Module | What it is |
|---|---|
| `NetworkView` | abstract: the states a client of the API sees of one network and the steps between them |
| `NetworkLifecycle` | the core: handlers, clients, reconnect loops, row, process; implements `NetworkView` |
| `NetworkLifecycleProofs` | eleven theorems about it, for every value of the constants |
| `ChannelTracking` | channels, members, nicks, join waiters and the stored channels, against an IRC server |
| `ChannelTrackingProofs` | a theorem about it: the stored row |
| `ChannelFlightProofs` | five more: its other invariants, by way of the messages in flight |
| `MessagePages` | pure operators: merging, pages, search, poll |
| `MessageLog` | the memory store with the clients that read it, built on `MessagePages` |
| `MessagePagesProofs` | lemmas about the operators: what merging, cutting and the pages return for lists of any length |
| `MessageLogProofs` | six theorems about the store and its clients |
| `MessageStore` | abstract: what readers take for granted of the stored messages, whichever backend keeps them; implemented by `MessageLog`, `PostgresStore` and `DatabaseMonitor` |
| `MessageStoreProofs` | two theorems about it: an id stands for one message, and what is new comes last |
| `PostgresStore` | `PostgresBackend`, statement by statement, with a database server, a process that dies, and `pg_admin passwd` beside it |
| `PostgresStoreProofs` | six theorems about it: all properties of its run |
| `EventStream` | the event bus, the generators of GET /events, and a client that follows |
| `DatabaseMonitor` | extends `EventStream` with the monitor, what is stored and published, an unreliable database and restarts |
| `DatabaseMonitorProofs` | six theorems about the two: all safety properties of their run |
| `MCNetworkLifecycle`, `MCChannelTracking`, `MCMessageLog`, `MCPostgresStore`, `MCDatabaseMonitor` | instances for TLC |

The models meet at the storage.  `NetworkLifecycle` has one row and calls that
raise while the database is down; `PostgresStore` is about when a call raises
and what it has done then; `DatabaseMonitor` takes from it that a statement
may be executed and raise (`MessageUnanswered`, `ProbeRestored`).  The three
models with messages implement one `MessageStore`.

### MessageStore

Paging, the poll and the catching up of clients (`after` the last id) rely on
something that no backend states: ids come in the order of storing and are
never used again, messages do not change, and a place (a channel, a private
conversation, the notes of a network) forgets its oldest messages first or all
of them.  `MessageStore` says that of a set of messages and the last id that
was taken.  Each model has the refinement mapping (`Kept`, `ImplementsStore`)
at its end.  In `MessageLog` and `DatabaseMonitor` the last id is the counter.
In `PostgresStore` it depends on the state (`LastTaken`): `next_message_id`
and `append_message` are two calls, and an id that is drawn is taken when its
message is inserted.  If the answer to the first call is lost, the handler
draws another one, and if the process dies or the insert raises, the id is
taken for nothing: `Store` may leave ids out.

### NetworkLifecycle

One network name is enough: networks share no state but the event loop and the
storage, and no handler touches two of them.  What the name *denotes* matters
very much: `registry` is the object that `proxy.networks` holds, and a deleted
network and the one created after it are two objects of `NetObjs`.  An
identity is used again when nothing refers to it (`NetInUse`, `ClientInUse`),
so behaviours are not bounded in length.

- `state`, `client`, `auto_reconnect`, `reconnect_delay`, `loop` are the fields
  of `NetworkState`.  `loop[n]` is the task in `reconnect_task`, asleep or
  inside `client.connect()`; a cancelled task is gone.
- `phase[c]` is the life of one `IRCClient`: nothing, opening its socket,
  reading, registered, or dropped (its read loop has ended, `disconnect()` was
  not called yet).
- `req[h]` is a handler that is suspended, with what it has looked up.  The
  start and stop of the process (`Lifespan`) are a handler too.
- `saved` is the row: absent, or its `auto_connect`.  `dbUp` says whether
  storage calls raise.

| Code | Action |
|---|---|
| POST, PATCH, DELETE network | `CreateNetwork`, `UpdateConnection` and `UpdateFields`, `DeleteNetwork` |
| POST connect, disconnect | `ConnectNetwork`, `DisconnectNetwork` |
| a handler after `await client.disconnect()` | `FinishForget`, `FinishDelete`, `FinishConnect`, or `CloseRaises` when another handler closed the same client meanwhile (`irc.py` 124-136) |
| a handler after `await client.connect()` | `RequestOpens`, `RequestOpenFails` |
| 001, end of the read loop, own join, part or kick | `Welcome`, `ReadLoopEnds`, `OwnMembershipChanges` |
| `_reconnect_loop` | `LoopGivesUp`, `LoopDials`, `LoopOpens`, `LoopOpenFails` |
| lifespan | `Boot*`, `Restore*`, `Shutdown*`, `FinishShutdown`, `Crash` |
| database | `OutageBegins`, `OutageEnds` |

### ChannelTracking

The variables on the program's side are `nick`, `client_nick`, `channels`,
`saved`, `waiters` and `req`.  `link`, `wire` and `out` are the connection:
commands and messages stay in order and are lost together.  The IRC server and
the other users are outside the program and marked external in `PROJECT.json`;
they do what the code relies on: acknowledge our commands in order, tell us
what happens in channels we are in, answer 433 to a nick that is taken and one
of the join errors to a join they refuse.  Requests are the `Request` actions,
messages of the server the `On...` actions, one per branch of
`handle_irc_event` together with the `irc.py` handler that produces it.
`Restart` may come at any moment and keeps only `saved`.

Events are atomic here: nothing their handlers await suspends (publishing
puts into queues without waiting, storage is synchronous), except `send`,
whose bytes are already buffered in order when it waits.

`waiters` is the table of futures, `req` what each request waits for.  A
second request for a channel puts its future in the place of the first's
(`state.py` 115), which from then on only its timeout can end: the history
variable `overtaken` remembers such requests.

`RosterMatches`, `MembershipKnown`, `NickKnown`, `ConfirmedJoinIsAnswered`,
and `JoinedIsReal` compare the two sides when nothing is under way (`Quiet`);
`ConfirmedJoinIsAnswered` is about the requests that were not overtaken.
`SavedIsJoined` holds at every moment, since a crash may come at any.

### MessagePages and MessageLog

A message is its id, whether it is a note (`type = "meta"`) and whether a
search would find it.  `log` is a partial function from channels, peers and
the network's own notes to lists: that reading creates a list is visible
(`Touched`).  `channels` maps the known channels to their joined flag, which
decides what the poll covers.

An event looks its network up and stores in one step (`EventStores`).  A
request that sends a message looks the network up, awaits the connection, and
then stores under the name without another look (`routes.py` 485-504,
555-572): `SendBegins`, and later `SendStores` or `SendFails`.  The network may
be deleted in between, and created again; `sending` keeps where a message goes
and whether the network it has looked up is still the one of that name, for
only then does an unknown channel become known to it (`ChannelsWith`).

Three kinds of clients use the store.  Some poll, with pointers they take from
and put into the shared session (`GetSession`, `Poll`, `PutSession`,
`OpenConversation`).  One catches up after its stream was lost, with `after`,
and with `before` as long as the answer says there is more (`CatchUp`,
`NextPage`).  Searching and the page around a message are single requests and
are checked as operators in every state that arises.  The history variable
`shown` remembers the ids that some client has shown.

### PostgresStore

A storage call blocks the event loop, so one handler at a time makes calls:
`calls` is what it has yet to call, `done` the statements of the current
attempt that were answered.  `conn` is `_conn`; a connection that has died is
"broken" and looks open until it is used.  `db` is what the server has
committed, which is every statement by itself (autocommit).  `networks` are the
names that the process has, `former` those that it has deleted: handlers that
waited for a client go on for them.  What the process holds of a network is no
variable, because it also changes without a save (`state.py` 302-303 and
409-410, `routes.py` 502-503, the state): a save may ask for any configuration,
and `saved` remembers what was read or asked for last.  A message id is a
number, a password with the other fields of a network a value, encryption the
key it was done with.

| Code | Action |
|---|---|
| `_run` 60-77: first and second attempt | `Reconnect`, `Answered`, `StatementLost`, `AnswerLost`, `StatementRejected`, `ConnectionRefused`; after an exception `AttemptFails`, that is `Retry` or `Raise` |
| the statements of each call, in their order | `Statements`, `After` |
| handlers and events: which calls they make | `StoreMessage` (also for a network deleted meanwhile), `CreateNetwork`, `SaveNetwork` (PATCH, connect, disconnect, own joins, parts and kicks; also for a network deleted meanwhile), `DeleteNetwork`, `CloseQuery`, `PutSession`, `Read` |
| `__init__` with `_verify_probe` | `Boot`, `ProbeFits` |
| `restore_networks` with `list_networks` | `Listed` |
| `pg_admin passwd` 182-231 | `PasswdReads`, `PasswdCommits`, `PasswdAborts` |
| outside: server and process | `ServerStops`, `ServerStarts`, `Crash` |

`failures`, `answer`, `saved`, `torn` and `outdated` are history: how the last
call went, what the networks were when they were last read or saved, which of
them a failed call may have left half written, and which were saved beside
`passwd`.

### EventStream and DatabaseMonitor

`subscribers` and `queue` are the event bus.  `generator[s]` is where the
response `s` is: created, checking `is_disconnected()`, waiting at
`queue.get()` with its thirty seconds, ended, or forgotten (it never started,
and its `finally` never runs).  `current` is the response that the client
reads, `behind` the networks it has not caught up with on it; `since` and
`have` are the client's own memory, `filter` its request.  The client is
outside the program and does what `doc/client-protocol.md` asks of it: open
the stream first, then list what came after the last id it has.  Clients share
nothing but the bus, so one is enough; it may leave several responses behind.

A *fact* is what a message or a note says; an entry of the log or an event is
a fact under an id, 0 standing for the `tmp_` ids of `_emit_db_meta`.  `at`
counts messages, failures and restarts, so that two facts are the same only if
one was written twice.

| Code | Action |
|---|---|
| `EventBus` | `Publish` with `Fitting`, `Unsubscribe` |
| GET /events 663-700 | `OpenStream`, `ResponseStarts`, `ResponseNeverStarts`, `Checks`, `Gets`, `TimesOut`, `Cancelled` |
| a message, stored and published | `Message`; `MessageUnanswered` when the insert is executed and raises |
| `_inject_meta` 129-137 | `Note`: stored, not published |
| `_db_monitor_loop`, `_on_db_lost`, `_on_db_restored` | `ProbeUnchanged`, `ProbeLost`, `ProbeRestored`, which may fail at any of its writes |
| POST, DELETE network | `CreateNetwork`, `DeleteNetwork`, which may fail at either statement |
| outside: client, database, process | `ClientLeaves`, `CatchUp`, `OutageBegins`, `OutageEnds`, `Restart` |

`cut`, `noticed`, `forgotten`, `stalled`, `leftover` and `dropped` are history.
A restart leaves `noticed` alone: the losses that waited to be written are in
memory only (`state.py` 106), and those that a restart takes away are in
`forgotten` from then on.

## 3. The runs

| Run | Bounds | Shows |
|---|---|---|
| `lifecycle_safety` | 2 network objects, 3 clients, 2 requests in progress, `DelayMax` 2, no outage | type, `ConnectingIsBacked`, `ConnectedIsBacked`, `BackoffReset`, `Ownership`, `ReconnectPending`, `LoopHasReason` |
| `lifecycle_attached` | the same with `DelayMax` 4, no POST connect, no PATCH of other fields, outages | `EveryConnectionIsAttached`, `AtMostOneConnection`, `ConnectedIsSavedAsAuto`, and that `NetworkView` is implemented |
| `lifecycle_eventually` | 1 object, 3 clients, 2 requests, fairness | `RequestsFinish`, `ReconnectEventually` |
| `lifecycle_two_connections`, `lifecycle_delete`, `lifecycle_outage` | | three findings, below |
| `channels_safety` | 2 channels, 3 nicks (one is the other user or our `nick_`), 2 requests, at most 2 messages under way before somebody adds one; two requests wait together only for the same channel and with no other user around (`MCSpec`) | all properties of the module but `JoinedIsReal` |
| `channels_nick_in_use`, `channels_rejoin_refused` | 1 channel | two findings |
| `log_safety` | 1 channel, 1 peer, 2 clients, 1 message on its way at a time, lists of 2, poll limit 1, pages of 1 to 3 (of 1 and 2 when catching up), 5 messages | poll, catching up, pages, search, with networks deleted under all of them; `MessageStore` is implemented |
| `store_safety` | 1 network with 2 channels, 1 target, 2 values, 2 passphrases, 2 message ids | `LastCallStands`, `OneLossIsSurvived`, `KeysAgree`, `ReturnedIsDone`; `MessageStore` is implemented |
| `monitor_and_streams` | 1 network, 1 channel, 1 response at a time, a queue of 1, 3 messages, failures and restarts together, with and without a filter | `FollowerMissesNothing`, `NoLossForgotten`, `NotedOnce`, `DeletedStayGone`, that `MessageStore` is implemented, and with fairness `AbandonedStreamsEnd`, `MonitorFollowsDatabase` |

Why the bounds are enough.  *Lifecycle*: the races are between a handler, a
second handler, the loop and a stale client; two requests, one loop per object
and three clients (the current, the previous, the one being dialled) contain
each of them, and two objects contain "deleted and created again".
`DelayMax` 2 reaches the maximum of the back-off after one failure, 4 after
two.  *Channels*: channels are independent but for the nick, the connection and
the order of the joins after a reconnection, so two suffice; the third nick
makes renames, kicks of others and a nick that is taken possible.
`UnderWayMax` limits what requests and other users add; answers always get
through.  Two waiting requests influence one another only through the waiters
of one channel, which `WaitingTogether` keeps.  *Log*: five messages and lists of two make a list forget the message
a page began with while another that is due is still there; a poll limit of
one with two conversations cuts off in every poll with two new items.
`OneConcern` lets each behaviour explore polling, catching up or searching,
which do not influence one another; polls use three messages, searches four.
Messages are on their way beside the polls: one at a time, since what matters
is where the network has gone when it is stored.
*Store*: a call fails for good after two attempts, so a server that stops and
starts freely gives every pattern of failures; two channels make a
`save_network` of four statements, which can be cut off at each; a second id
is drawn when the answer to the first was lost.  Networks do not share
statements.  *Monitor*: a queue of one is full after one event; three units of
time hold two outages, of which the second cuts off the return from the first,
or a message before, in and after an outage.  `OneConcern` in
`MCDatabaseMonitor` keeps the creation and deletion of networks apart from the
streams, and the longest behaviours with failures in the middle of a write
too; the theorems have none of these bounds.
Symmetry is used for identities that no constant distinguishes, and in no run
with a liveness property.

Two assumptions are more than bounds.  `channels_safety` runs without "ghost":
no other user holds or takes a nick that is ours or that we have asked for;
what happens otherwise is the finding of `channels_nick_in_use`.
`lifecycle_attached` runs without POST connect and without a PATCH that leaves
the connection alone, because with them its properties do not hold
(`lifecycle_two_connections`, and the hazard at `routes.py:205`: such a PATCH
during the back-off saves that the network is not to be connected).

Fairness (`SchedulerFairness`): the event loop runs every task that is ready,
so handlers and loops resume; `open_connection` returns or raises, by the
operating system's timeout at the latest; a client being closed sees its read
loop end, since its socket is closed.  It is weak fairness of the program's
own steps.  Requests, failures and the IRC server are free.  For
`ReconnectEventually`, and only there, `ServerFairness` is a *premise*: of
dials tried again and again one succeeds, and is welcomed.  There
`OutOfClients` excuses the instance that has no identity left for one more
client, which is a bound of the model and not of the code.

In `DatabaseMonitor` the event loop runs every generator that can run, one
that waits in vain for thirty seconds included (`StreamFairness`), and the
monitor loop probes for ever (`WF_vars(Probe)`): `state.py` 155-170 catches
whatever a probe raises.  A response that was created need not start when its
client is gone.  The database owes nothing: `MonitorFollowsDatabase` says what
follows if it stays up, or down.

## 4. What is proved

`NetworkLifecycleProofs` shows, for any number of network objects, clients and
requests and any `DelayMax`:

| Theorem | Statement |
|---|---|
| `TypeCorrect` | `Spec => []TypeOK` |
| `OwnershipCorrect` | `Spec => []Ownership` |
| `ConnectingCorrect` | `Spec => []ConnectingIsBacked` |
| `ConnectedCorrect` | `Spec => []ConnectedIsBacked` |
| `BackoffCorrect` | `Spec => []BackoffReset` |
| `ReconnectCorrect` | the same for `ReconnectPending`, if the storage never fails (`"outage" \notin Inputs`) |
| `LoopReasonCorrect` | the same for `LoopHasReason`, under the same assumption |
| `AttachedCorrect` | `Spec => []EveryConnectionIsAttached`, if no request connects (`"connect" \notin Inputs`) |
| `OneConnectionCorrect` | the same for `AtMostOneConnection` |
| `SavedCorrect` | the same for `ConnectedIsSavedAsAuto`, if no PATCH changes other fields either (`"patch" \notin Inputs`) |
| `ViewCorrect` | `Spec => ImplementsView`: the refinement of `NetworkView`, if no request connects |

They assume `ConstantsAssumption`: the constants are distinct and `DelayMax` is
at least one.  The argument: "connecting" can only be left behind wrongly if a
dial ends and its end is reported to another network than the one that waits
for it.  So the inductive invariant is `Ownership`: every dial has one owner,
the owner of the dial that a network holds reports to that very object, a
process that is down remembers nothing, and while the process restores its
networks no request runs.  It is inductive together with `TypeOK`; the other
invariants are inductive relative to the two.  `ReconnectPending` needs
`LoopHasReason` as well: a loop that dials must not find somebody else's lost
client.  Each step lemma has one step per action.

The last four hold also while the storage fails.  They cannot do without their
assumption: `lifecycle_two_connections` shows what a POST connect during the
back-off does.  Their invariant is `SoleConnection`: loops run only for the
network that is there and is to be reconnected; a handler that closes a client
has turned the reconnection off for good; a client with a connection or a dial
is the client of the network, whose state tells how far it has come; a dial
belongs to the loop or to the start; and while a loop sleeps nobody has a
connection.  So a 001 finds its network "connecting", and a loop that dials
finds it "disconnected" (`ConnectingIsBacked` and `ConnectedIsBacked` exclude
the rest): the two steps of the refinement that are not plain.  `WantedIsSaved`
adds that what is to be reconnected or has a connection is stored as such.

`ChannelTrackingProofs` shows `SavedCorrect`, `Spec => []SavedIsJoined`, for
any channels, nicks, requests, inputs and queues, and needs no assumption.
The inductive invariant is `SavedInv`: `SavedIsJoined`, and every known channel
is a record of a flag and members (`ChannelRecords`), so that a change of its
members leaves its flag alone.  The lemmas at the top are the ways in which a
step may change the two variables: nothing changes, no flag is taken back, only
members change, or the row is made of the new channels; each action is one of
them, and those that take a flag back are all of the last kind.

`ChannelFlightProofs` shows the other invariants of `channels_safety`, for any
finite set of channels (the joins after a welcome are a sequence) and any
nicks, requests and number of messages under way.  The last four assume
`"ghost" \notin Inputs`, as the run does:

| Theorem | Statement |
|---|---|
| `TypeCorrect` | `Spec => []TypeOK` |
| `RosterCorrect` | `Spec => []RosterMatches` |
| `MembershipCorrect` | `Spec => []MembershipKnown` |
| `NickCorrect` | `Spec => []NickKnown` |
| `AnswerCorrect` | `Spec => []ConfirmedJoinIsAnswered` |

All four speak of a moment when nothing is under way, which no step can be
judged by: the invariant has to say what the messages in flight will do.  A
*view* is a nick with the members of every channel; `After` changes it as the
handler of a message changes the state, and each `On...` action is shown to do
just that (`JoinFlight`, `PartFlight`, ...).  `FlightInv` says that the views
through which the messages of `wire` lead, from what the proxy knows now
(`Present`), end where the server is (`UpToDate`); that no other user has a
nick that we have on the way; that a channel we are in is either joined, in the
row and not about to be left, or about to be joined (`Arriving`); and that
whoever waits for it and was not overtaken has that join still to come.  The views are a function
that is asked for, not computed, so no recursion is needed: a handled message
takes the first one off (`Rest`, `RunTail`, `ComingTail`), a message that is
told adds one (`Longer`, `RunAppend`, `ComingAppend`).  `RegisterInv` is about
the start of a connection.  `WaitingTogether`, by which the run is bounded, is
not assumed.

`MessageLogProofs` shows, for any channels, peers, clients, backlog, limits and
number of messages, under `LogAssumption`:

| Theorem | Statement |
|---|---|
| `TypeCorrect` | `Spec => []TypeOK` |
| `PollCorrect` | `Spec => []PollSkipsNothing` |
| `CatchUpCorrect` | `Spec => []CatchUpIsComplete` |
| `AroundCorrect` | `Spec => []PageAroundIsCentred` |
| `SearchCorrect` | `Spec => []SearchReachesEveryMatch` |
| `StoreCorrect` | `Spec => ImplementsStore`: the refinement of `MessageStore` |

`LogInv` says that the ids in the lists were given out and that each names one
place of one list; `OnlyNewOnes` says what a step may do to the lists: messages
go, and those that come are new.  Every other invariant is carried over a step
by these two.  `PollInv`: no pointer is ahead of the store and what lies behind
it was shown; a poll keeps it because its items are closed under smaller ids
(`FirstItemsAreClosed`), over all conversations.  `ReadInv`: a client that
catches up has all that was due and is visible from the oldest message it got
on; a page is a stretch of the list (`PageIs`) that ends where the client
already has everything, also when the message it begins with is forgotten.

`MessagePagesProofs` holds what they need about the operators.  That merging
two lists gives all their messages in order, with no place left over, rests on
`RankOnto`: of finitely many things with different numbers, some one has i
below it, for every i.  It is shown by counting (an injection into a set of the
same size is onto), since induction is out of the prover's reach.  The messages that
a search finds are those of the list at the places of a set, in order
(`MatchingIs`); `SearchGoesOn` follows an answer from its last message to the
next search.

For the refinement, a step of `MessageLog` is one that stores a message under
the next id at the end of one list (`StoresOne`) or one that stores none
(`StoresNone`); with `InOrder`, that the ids in a list ascend, a list that is
cut at its beginning forgets its oldest message.

`PostgresStoreProofs` shows every property of `store_safety` for any networks,
channels, targets, values, passphrases and number of ids, under
`StoreAssumption` (the channels are finite, `None` is no value):

| Theorem | Statement |
|---|---|
| `TypeCorrect` | `Spec => []TypeOK` |
| `PasswordsReadable` | `Spec => []KeysAgree` |
| `LossSurvived` | `Spec => []OneLossIsSurvived` |
| `ReturnedDone` | `Spec => ReturnedIsDone` |
| `LastCallKept` | `Spec => []LastCallStands` |
| `StoreCorrect` | `Spec => ImplementsStore`: the refinement of `MessageStore` |

Everything rests on `Shape`: a handler is always somewhere in one of a few
sequences of calls, so that what is still to be called says what has been
asked for already.  `SeenAgrees` (what `passwd` has read is of rows that it
could read) carries the keys; `LossInv` adds that ids are drawn in order and
that `failures` counts the losses of the current call; `ProgressMade` says what the statements
in `done` have done to the tables, which a second attempt from the first
statement does not undo; `MatchInv` says for each call how far the tables may
be behind what was asked for while it runs.  What the process holds does not
enter: a save is compared with what it was given.  Each is inductive relative to those
before it.  The refinement needs `LatestDrawn`: while an insert is due, nothing
was drawn after its id, since one handler at a time makes calls.  So a step
stores the one message that waits (`Appends`), or it stores none, removes
whole places, and can only move `LastTaken` up (`AppendsNot`).

`DatabaseMonitorProofs` shows every safety property of `monitor_and_streams`,
for any networks, channels, responses, filters, size of the queues and number
of failures, under `StreamAssumption` and `MonitorAssumption`:

| Theorem | Statement |
|---|---|
| `TypeCorrect` | `Spec => []TypeOK`, the bound of the queues included |
| `LossesKept` | `Spec => []NoLossForgotten` |
| `DeletedGone` | `Spec => []DeletedStayGone` |
| `OnlyOnce` | `Spec => []NotedOnce` |
| `NothingMissed` | `Spec => []FollowerMissesNothing` |
| `StoreCorrect` | `Spec => ImplementsStore`: the refinement of `MessageStore` |

`NetworksOK` (the names are distinct, the rows finitely many) goes with the
types.  `LossInv` is that a loss that was noted waits, is in the log, or waited when a
process ended (`forgotten`, which nothing else enters); and that what waits
belongs to a network that is there or left something behind.  `OnceInv` is about time: a fact of the present is a
loss that was noticed or a return (`Timely`), so a note that is written now
was not written before, and no loss waits twice (`Waiting`).  `FollowInv` is
the argument about the client: it is subscribed as long as it reads; the
events in a queue have ascending ids that the store has given out, and none is
in the log under a smaller id (`QueueOK`); and what is in the log up to the id
that the client remembers, it has.  The last is what makes it safe to ask only
for what came later.  The refinement needs no more than the types: what a step
adds has the ids after `last_id`, one each (`AddedIsStored`), also when a
return is cut off by the next failure (`RestoredStores`).

`MessageStoreProofs` shows what follows from `MessageStore` alone, and so for
the three models: `IdsStandForOne` (`Spec => []OneMessageForAnId`) and
`NewestComeLast` (`Spec => NewComesLast`), by the invariant that all ids were
taken (`IdsTaken`).

Only model-checked: liveness (`RequestsFinish`, `ReconnectEventually`,
`AbandonedStreamsEnd`, `MonitorFollowsDatabase`), since the prover cannot
reason about enabledness.  Every invariant and every safety property that a
passing run checks is also the statement of a theorem.

## 5. Findings

- `lifecycle_two_connections`: POST connect during the back-off does not cancel
  the reconnect loop, which then opens a second connection and overwrites
  `net.client`; nobody can use or close the first.
- `lifecycle_delete`: DELETE while `connect()` is still opening its socket
  closes nothing; the connection comes up without a network, and the connect
  handler saves the deleted row again.
- `lifecycle_outage`: a connection lost while the database is down is never
  dialled again, because the note for the log raises before the loop starts.
- `channels_nick_in_use`: after a 433 at the registration the network does not
  know its nick; joins are confirmed and nevertheless end in 504.
- `channels_rejoin_refused`: a channel whose join is refused after a
  reconnection stays joined, and every join request gets 409.

Two more disagreements have no run of their own; history variables show them in
the passing runs, whose properties excuse them:

- Of two requests that join the same channel at a time the first ends in 504
  although the server confirms the join, for the second has replaced its
  future (`overtaken`): `doc/client-protocol.md` 227 says "Returns `201 Created`
  with the channel object once the server confirms the join", and nothing of a
  request beside it.
- A queue that is full drops events, and the client that goes on reading
  remembers a later id: it never asks for them again (`dropped`), though
  "Without filters, all events for all networks are delivered"
  (`doc/client-protocol.md` 550).

Behaviour that is no contradiction to a document, but which the properties had
to make room for:

- What `_inject_meta` stores is not published, and of the notes of the monitor
  that are stored late only their temporary form was: a client that follows
  the stream has them only when it lists messages again
  (`FollowerMissesNothing`).
- A message that is on its way to the IRC server when its network is deleted
  is stored afterwards, and a network created under the same name shows it
  (`SendStores`; in the memory store and in the tables).  A handler that waits
  for a connection may save the row of a network that was deleted meanwhile.
- A loss of the database that is still to be written is forgotten when the
  process ends before the database is back (`forgotten`).
- `_on_db_restored` forgets the notes when all are written.  If the database
  fails in between, those written are written again; if it is back before the
  next probe, the probe sees no change and the rest waits for the next outage
  (`stalled`, in `NotedOnce` and `MonitorFollowsDatabase`).
- Notes that wait for a network that is deleted are written for it later, and
  a DELETE that fails leaves messages which a network created under the same
  name shows (`leftover`).
- A message whose insert was executed and not answered is inserted again,
  which its key rejects: the request fails and the message is stored, and is
  not published (`OneLossIsSurvived`, `MessageUnanswered`).
- A network whose save failed half way keeps its row without its channels
  until the next save, and one whose DELETE failed keeps its row though
  the process has it no longer (`torn`); its messages stay when only the second
  call of the DELETE fails.  A
  network saved beside `passwd` or after it is written under the old
  passphrase, and the next start fails (`outdated`).
- A response whose generator never starts keeps its queue on the bus until the
  process ends (`ResponseNeverStarts`).
- Reading the conversation with a nick makes it a query in the memory store.

## 6. What is not modelled

- In `NetworkLifecycle`: a `connect()` that fails after the socket is open
  (while it sends PASS, NICK or USER); cancelling a loop between the opening
  of a socket and its return; time, of which only the order of the delays
  matters; events other than `network_state` and own membership.
- In `ChannelTracking`: topics, modes, prefixes, user@host, NickServ; a PATCH
  of the nick while the network is down; a storage that raises in the middle
  of an event; events of a second connection of the same network.
- In `MessageLog`: the restart of the process, with which the memory store
  loses everything and starts its ids over; texts and times.
- In `PostgresStore`: what a SELECT returns, beyond that it may fail; of the
  session all but the pointers; ciphers, of which only the key matters.
- In `EventStream` and `DatabaseMonitor`: events that are no messages (they
  pass through the same queues); temporary ids that a client stores as a
  pointer.  TLC explores one network at a time, the theorems any number.
- `pg_admin` setup, migrate and teardown: scripts of SQL statements that an
  administrator runs while no server does.
- `auth.py`, `crypto.py`, `config.py`, `models.py`, the parsing and formatting
  of IRC lines and the read-only views: pure functions or tables in which no
  two operations interact.

## 7. Plan

1. The events of `ChannelTracking` under a storage that raises (`state.py`
   354), with `PostgresStore` for what is saved.
2. A client that outlives the process in `MessageLog`: the memory store starts
   its ids over (`storage.py` 89), so that `MessageStore` holds between two
   starts only.
