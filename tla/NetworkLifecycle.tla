-------------------------- MODULE NetworkLifecycle --------------------------
(***************************************************************************)
(* The life of one network of the proxy: the request handlers of           *)
(* routes.py that create, change, connect, disconnect and delete it, the   *)
(* IRC connections they and the reconnect loop open (irc.py), the          *)
(* "network_state" events that those connections deliver (state.py), the   *)
(* row of the storage that survives a restart, and the start and the stop  *)
(* of the process (app.py).                                                *)
(*                                                                         *)
(* Everything runs on one asyncio event loop, so a handler is interrupted  *)
(* only where it awaits something that suspends: IRCClient.connect() while *)
(* the socket opens, IRCClient.disconnect() of a client that has a socket, *)
(* and the sleep of the reconnect loop.  An action is the code between two *)
(* such points.                                                            *)
(***************************************************************************)
EXTENDS Naturals, FiniteSets

CONSTANTS
    NetObjs,     \* identities of NetworkState objects; deleted ones are reused
    Clients,     \* identities of IRCClient objects; dropped ones are reused
    Requests,    \* request handlers that can be in progress together
    Lifespan,    \* the handler of the start and the stop of the process
    None,
    DelayMax,    \* _RECONNECT_DELAY_MAX
    Inputs       \* what the environment of this instance does

AllInputs == {"create", "connect", "disconnect", "update", "patch", "delete",
              "stop", "crash", "outage"}

ASSUME ConstantsAssumption ==
    /\ Lifespan \notin Requests
    /\ None \notin NetObjs \cup Clients
    /\ DelayMax \in Nat /\ DelayMax >= 1
    /\ Inputs \subseteq AllInputs

Handlers == Requests \cup {Lifespan}

VARIABLES
    running,          \* "down", "starting", "serving" or "stopping"
    dbUp,             \* the storage answers; when not, its methods raise
    saved,            \* the stored row: absent, or its auto_connect flag
    registry,         \* the object ProxyState.networks holds, or None
    state,            \* NetworkState.state
    client,           \* NetworkState.client
    auto_reconnect,   \* NetworkState.auto_reconnect
    reconnect_delay,  \* NetworkState.reconnect_delay
    loop,             \* NetworkState.reconnect_task: one _reconnect_loop
    phase,            \* what became of each IRCClient
    req               \* the handlers in progress

vars == <<running, dbUp, saved, registry, state, client, auto_reconnect,
          reconnect_delay, loop, phase, req>>

NetStates == {"disconnected", "connecting", "connected"}

(***************************************************************************)
(* An IRCClient is "none" before connect() and after disconnect(),         *)
(* "opening" while open_connection runs, "up" when its read loop runs,     *)
(* "registered" from the 001 on, and "dropped" when its read loop ended    *)
(* and nobody has called disconnect() yet.                                 *)
(***************************************************************************)
Phases == {"none", "opening", "up", "registered", "dropped"}

Live(c) == phase[c] \in {"up", "registered"}

IdleLoop == [pc |-> "idle", net |-> None, client |-> None]
SleepingLoop == [pc |-> "sleep", net |-> None, client |-> None]
OpeningLoop(n, c) == [pc |-> "open", net |-> n, client |-> c]
Loops == {IdleLoop, SleepingLoop}
            \cup {OpeningLoop(n, c) : n \in NetObjs, c \in Clients}

Ops == {"connect", "disconnect", "update", "delete", "restore", "shutdown"}
IdleReq == [op |-> "idle", pc |-> "idle", net |-> None, client |-> None]
Suspended(op, pc, n, c) == [op |-> op, pc |-> pc, net |-> n, client |-> c]
Reqs == {IdleReq}
           \cup {Suspended(op, pc, n, c) :
                    op \in Ops, pc \in {"closing", "opening"},
                    n \in NetObjs, c \in Clients}

Init ==
    /\ running = "down"
    /\ dbUp = TRUE
    /\ saved \in {"absent", "manual", "auto"}
    /\ registry = None
    /\ state = [n \in NetObjs |-> "disconnected"]
    /\ client = [n \in NetObjs |-> None]
    /\ auto_reconnect = [n \in NetObjs |-> FALSE]
    /\ reconnect_delay = [n \in NetObjs |-> 1]
    /\ loop = [n \in NetObjs |-> IdleLoop]
    /\ phase = [c \in Clients |-> "none"]
    /\ req = [h \in Handlers |-> IdleReq]

-----------------------------------------------------------------------------
(* Objects.  A name for a new object is one that nothing alive refers to.  *)

NetInUse(n) ==
    \/ registry = n
    \/ loop[n] # IdleLoop
    \/ \E m \in NetObjs : loop[m].net = n
    \/ \E h \in Handlers : req[h].net = n

ClientInUse(c) ==
    \/ Live(c) \/ phase[c] = "opening"
    \/ \E n \in NetObjs : NetInUse(n) /\ client[n] = c
    \/ \E n \in NetObjs : loop[n].client = c
    \/ \E h \in Handlers : req[h].client = c

(* Mutant: only "connecting" counts as wanting a connection.               *)
StoredWhenConnecting(st) ==
    IF ~dbUp THEN saved ELSE IF st = "connecting" THEN "auto" ELSE "manual"

(* _net_config and _persist_network: what save_network stores when the     *)
(* network is in state st.  A storage that is down raises instead.         *)
Stored(st) ==
    IF ~dbUp THEN saved
    ELSE IF st \in {"connected", "connecting"} THEN "auto" ELSE "manual"

(* Mutant: the delay is never reset.                                       *)
DelayKept(n) == reconnect_delay

DelayReset(n) == [reconnect_delay EXCEPT ![n] = 1]

(* Mutants: the task is not cancelled; a running task is not restarted.    *)
LoopsKept(n) == loop
LoopsStartedOnce(n) ==
    IF loop[n] = IdleLoop THEN [loop EXCEPT ![n] = SleepingLoop] ELSE loop

(* cancel_reconnect and _start_reconnect cancel the task of n.  A task     *)
(* cancelled inside open_connection leaves a client without a connection.  *)
LoopsWithout(n) == [loop EXCEPT ![n] = IdleLoop]
LoopsRestarted(n) == [loop EXCEPT ![n] = SleepingLoop]
PhaseWithoutLoop(n) ==
    [c \in Clients |-> IF loop[n].client = c THEN "none" ELSE phase[c]]

-----------------------------------------------------------------------------
(* Requests.  Each is one handler of routes.py.                            *)

Arrives(h, input) ==
    /\ input \in Inputs
    /\ running = "serving"
    /\ req[h] = IdleReq

(* What a handler does after the client it had to disconnect is gone.  ph  *)
(* is what the handler has made of the clients so far.                     *)

ForgetClientAndSave(h, n, ph) ==
    /\ client' = [client EXCEPT ![n] = None]
    /\ state' = [state EXCEPT ![n] = "disconnected"]
    /\ saved' = Stored("disconnected")
    /\ phase' = ph
    /\ req' = [req EXCEPT ![h] = IdleReq]
    /\ UNCHANGED registry

(* "del networks[name]" raises when another request has deleted it.        *)
RemoveNetwork(h, ph) ==
    /\ registry' = None
    /\ saved' = IF registry # None /\ dbUp THEN "absent" ELSE saved
    /\ phase' = ph
    /\ req' = [req EXCEPT ![h] = IdleReq]
    /\ UNCHANGED <<state, client>>

DialFrom(h, n, ph) ==
    \E c \in Clients :
        /\ ~ClientInUse(c)
        /\ client' = [client EXCEPT ![n] = c]
        /\ state' = [state EXCEPT ![n] = "connecting"]
        /\ auto_reconnect' = [auto_reconnect EXCEPT ![n] = TRUE]
        /\ reconnect_delay' = DelayReset(n)
        /\ phase' = [ph EXCEPT ![c] = "opening"]
        /\ req' = [req EXCEPT ![h] = Suspended("connect", "opening", n, c)]
        /\ UNCHANGED <<saved, registry>>

(* Mutant: a connection that is not registered yet is not closed.          *)
IsRegistered(c, ph) == c # None /\ ph[c] \in {"registered", "dropped"}

(* client.disconnect() suspends only a handler whose client has a socket:  *)
(* while the socket is still opening there is nothing to close.            *)
HasSocket(c, ph) == c # None /\ ph[c] \in {"up", "registered", "dropped"}

Suspend(h, op, n, ph) ==
    /\ req' = [req EXCEPT ![h] = Suspended(op, "closing", n, client[n])]
    /\ phase' = ph
    /\ UNCHANGED <<saved, registry, state, client>>

CreateNetwork(h) ==
    /\ Arrives(h, "create")
    /\ registry = None
    /\ \E n \in NetObjs :
          /\ ~NetInUse(n)
          /\ registry' = n
          /\ state' = [state EXCEPT ![n] = "disconnected"]
          /\ client' = [client EXCEPT ![n] = None]
          /\ auto_reconnect' = [auto_reconnect EXCEPT ![n] = FALSE]
          /\ reconnect_delay' = [reconnect_delay EXCEPT ![n] = 1]
    /\ saved' = Stored("disconnected")
    /\ UNCHANGED <<running, dbUp, loop, phase, req>>

(* PATCH of host, port, tls, nick or server_password with a client there.  *)
UpdateConnection(h) ==
    /\ Arrives(h, "update")
    /\ registry # None /\ client[registry] # None
    /\ LET n == registry
           ph == PhaseWithoutLoop(n)
       IN /\ auto_reconnect' = [auto_reconnect EXCEPT ![n] = FALSE]
          /\ loop' = LoopsWithout(n)
          /\ \/ /\ HasSocket(client[n], ph)
                /\ Suspend(h, "update", n, ph)
             \/ /\ ~HasSocket(client[n], ph)
                /\ ForgetClientAndSave(h, n, ph)
    /\ UNCHANGED <<running, dbUp, reconnect_delay>>

(* PATCH of another field, or of any field when there is no client.        *)
UpdateFields(h) ==
    /\ Arrives(h, "patch")
    /\ registry # None
    /\ saved' = Stored(state[registry])
    /\ UNCHANGED <<running, dbUp, registry, state, client, auto_reconnect,
                   reconnect_delay, loop, phase, req>>

DeleteNetwork(h) ==
    /\ Arrives(h, "delete")
    /\ registry # None
    /\ LET n == registry
           ph == PhaseWithoutLoop(n)
       IN /\ auto_reconnect' = [auto_reconnect EXCEPT ![n] = FALSE]
          /\ loop' = LoopsWithout(n)
          /\ \/ /\ HasSocket(client[n], ph)
                /\ Suspend(h, "delete", n, ph)
             \/ /\ ~HasSocket(client[n], ph)
                /\ RemoveNetwork(h, ph)
    /\ UNCHANGED <<running, dbUp, reconnect_delay>>

(* Returns at once when the network is connected or connecting.            *)
ConnectNetwork(h) ==
    /\ Arrives(h, "connect")
    /\ registry # None
    /\ state[registry] = "disconnected" \/ client[registry] = None
    /\ \/ /\ HasSocket(client[registry], phase)
          /\ Suspend(h, "connect", registry, phase)
          /\ UNCHANGED <<auto_reconnect, reconnect_delay>>
       \/ /\ ~HasSocket(client[registry], phase)
          /\ DialFrom(h, registry, phase)
    /\ UNCHANGED <<running, dbUp, loop>>

DisconnectNetwork(h) ==
    /\ Arrives(h, "disconnect")
    /\ registry # None
    /\ LET n == registry
           ph == PhaseWithoutLoop(n)
       IN /\ auto_reconnect' = [auto_reconnect EXCEPT ![n] = FALSE]
          /\ loop' = LoopsWithout(n)
          /\ \/ /\ HasSocket(client[n], ph)
                /\ Suspend(h, "disconnect", n, ph)
             \/ /\ ~HasSocket(client[n], ph)
                /\ ForgetClientAndSave(h, n, ph)
    /\ UNCHANGED <<running, dbUp, reconnect_delay>>

-----------------------------------------------------------------------------
(* client.disconnect() returns when the read loop of the client has ended  *)
(* and delivered its event; the handler then runs to its end.              *)

Closed(h) ==
    /\ req[h].pc = "closing"
    /\ phase[req[h].client] \in {"dropped", "none"}

PhaseClosed(h) == [phase EXCEPT ![req[h].client] = "none"]

FinishForget(h) ==
    /\ Closed(h)
    /\ req[h].op \in {"update", "disconnect"}
    /\ ForgetClientAndSave(h, req[h].net, PhaseClosed(h))
    /\ UNCHANGED <<running, dbUp, auto_reconnect, reconnect_delay, loop>>

FinishDelete(h) ==
    /\ Closed(h)
    /\ req[h].op = "delete"
    /\ RemoveNetwork(h, PhaseClosed(h))
    /\ UNCHANGED <<running, dbUp, auto_reconnect, reconnect_delay, loop>>

(* Mutant: the handler waits for the reconnect loop of the network.        *)
FinishConnectAfterLoop(h) ==
    /\ Closed(h)
    /\ req[h].op = "connect"
    /\ loop[req[h].net] = IdleLoop
    /\ DialFrom(h, req[h].net, PhaseClosed(h))
    /\ UNCHANGED <<running, dbUp, loop>>

FinishConnect(h) ==
    /\ Closed(h)
    /\ req[h].op = "connect"
    /\ DialFrom(h, req[h].net, PhaseClosed(h))
    /\ UNCHANGED <<running, dbUp, loop>>

(* Two handlers in disconnect() of one client: the one that resumes second *)
(* may find _writer reset to None, and its request fails.                  *)
CloseRaises(h) ==
    /\ req[h].pc = "closing" /\ h # Lifespan
    /\ phase[req[h].client] = "none"
    /\ req' = [req EXCEPT ![h] = IdleReq]
    /\ UNCHANGED <<running, dbUp, saved, registry, state, client,
                   auto_reconnect, reconnect_delay, loop, phase>>

-----------------------------------------------------------------------------
(* client.connect() of a handler returns or raises.                        *)

RequestOpens(h) ==
    /\ req[h].pc = "opening" /\ h # Lifespan
    /\ phase' = [phase EXCEPT ![req[h].client] = "up"]
    /\ saved' = Stored(state[req[h].net])
    /\ req' = [req EXCEPT ![h] = IdleReq]
    /\ UNCHANGED <<running, dbUp, registry, state, client, auto_reconnect,
                   reconnect_delay, loop>>

(* Mutant: the state is not taken back.                                    *)
OpenFailsSilently(h) ==
    /\ phase' = [phase EXCEPT ![req[h].client] = "none"]
    /\ client' = [client EXCEPT ![req[h].net] = None]
    /\ req' = [req EXCEPT ![h] = IdleReq]
    /\ UNCHANGED state

OpenFails(h) ==
    /\ phase' = [phase EXCEPT ![req[h].client] = "none"]
    /\ state' = [state EXCEPT ![req[h].net] = "disconnected"]
    /\ client' = [client EXCEPT ![req[h].net] = None]
    /\ req' = [req EXCEPT ![h] = IdleReq]

RequestOpenFails(h) ==
    /\ req[h].pc = "opening" /\ h # Lifespan
    /\ OpenFails(h)
    /\ UNCHANGED <<running, dbUp, saved, registry, auto_reconnect,
                   reconnect_delay, loop>>

-----------------------------------------------------------------------------
(* Events of a connection.  An event carries the name of the network, not  *)
(* the client it comes from: whatever object has the name receives it.     *)

Welcome(c) ==
    /\ phase[c] = "up"
    /\ phase' = [phase EXCEPT ![c] = "registered"]
    /\ IF registry = None
         THEN UNCHANGED <<state, reconnect_delay>>
         ELSE /\ state' = [state EXCEPT ![registry] = "connected"]
              /\ reconnect_delay' = DelayReset(registry)
    /\ UNCHANGED <<running, dbUp, saved, registry, client, auto_reconnect,
                   loop, req>>

(* Mutant: only a network that holds a client hears of the end of one.     *)
LostIfAttached(n) ==
    IF client[n] = None THEN state ELSE [state EXCEPT ![n] = "disconnected"]

Lost(n) == [state EXCEPT ![n] = "disconnected"]

(* The read loop ends: end of file, a socket error, the keepalive closing  *)
(* a silent connection, or disconnect().                                   *)
ReadLoopEnds(c) ==
    /\ Live(c)
    /\ \/ /\ registry = None
          /\ phase' = [phase EXCEPT ![c] = "dropped"]
          /\ UNCHANGED <<state, loop>>
       \/ /\ registry # None
          /\ state' = Lost(registry)
          /\ \/ /\ auto_reconnect[registry]
                /\ dbUp \/ state[registry] = "disconnected"
                /\ loop' = LoopsRestarted(registry)
                /\ phase' = [PhaseWithoutLoop(registry)
                                EXCEPT ![c] = "dropped"]
             \/ \* nothing to start, or the note for the log raised first
                /\ \/ ~auto_reconnect[registry]
                   \/ ~dbUp /\ state[registry] # "disconnected"
                /\ phase' = [phase EXCEPT ![c] = "dropped"]
                /\ UNCHANGED loop
    /\ UNCHANGED <<running, dbUp, saved, registry, client, auto_reconnect,
                   reconnect_delay, req>>

(* Our own JOIN, PART or KICK: handle_irc_event persists the network.      *)
OwnMembershipChanges(c) ==
    /\ phase[c] = "registered"
    /\ registry # None
    /\ saved' = Stored(state[registry])
    /\ UNCHANGED <<running, dbUp, registry, state, client, auto_reconnect,
                   reconnect_delay, loop, phase, req>>

-----------------------------------------------------------------------------
(* The reconnect loop of n.  It looks the network up by name when it       *)
(* wakes, so it may serve another object than the one that started it.     *)

MayReconnect == registry # None /\ auto_reconnect[registry]

LoopGivesUp(n) ==
    /\ loop[n].pc = "sleep"
    /\ ~MayReconnect \/ ~dbUp    \* ~dbUp: the note for the log raises
    /\ loop' = LoopsWithout(n)
    /\ UNCHANGED <<running, dbUp, saved, registry, state, client,
                   auto_reconnect, reconnect_delay, phase, req>>

(* Mutant: the state is left as it is while the loop dials.                *)
LoopDialsSilently(n) ==
    /\ loop[n].pc = "sleep"
    /\ MayReconnect /\ dbUp
    /\ \E c \in Clients :
          /\ ~ClientInUse(c)
          /\ client' = [client EXCEPT ![registry] = c]
          /\ phase' = [phase EXCEPT ![c] = "opening"]
          /\ loop' = [loop EXCEPT ![n] = OpeningLoop(registry, c)]
    /\ UNCHANGED <<running, dbUp, saved, registry, state, auto_reconnect,
                   reconnect_delay, req>>

LoopDials(n) ==
    /\ loop[n].pc = "sleep"
    /\ MayReconnect /\ dbUp
    /\ \E c \in Clients :
          /\ ~ClientInUse(c)
          /\ client' = [client EXCEPT ![registry] = c]
          /\ phase' = [phase EXCEPT ![c] = "opening"]
          /\ loop' = [loop EXCEPT ![n] = OpeningLoop(registry, c)]
    /\ state' = [state EXCEPT ![registry] = "connecting"]
    /\ UNCHANGED <<running, dbUp, saved, registry, auto_reconnect,
                   reconnect_delay, req>>

(* Mutant: the loop goes on after a dial that succeeded.                   *)
LoopOpensAndRepeats(n) ==
    /\ loop[n].pc = "open"
    /\ phase' = [phase EXCEPT ![loop[n].client] = "up"]
    /\ loop' = LoopsRestarted(n)
    /\ UNCHANGED <<running, dbUp, saved, registry, state, client,
                   auto_reconnect, reconnect_delay, req>>

LoopOpens(n) ==
    /\ loop[n].pc = "open"
    /\ phase' = [phase EXCEPT ![loop[n].client] = "up"]
    /\ loop' = LoopsWithout(n)
    /\ UNCHANGED <<running, dbUp, saved, registry, state, client,
                   auto_reconnect, reconnect_delay, req>>

(* Mutant: the delay has no maximum.                                       *)
DoubledUncapped(d) == 2 * d

Doubled(d) == IF 2 * d > DelayMax THEN DelayMax ELSE 2 * d

(* Mutant: a dial that fails ends the loop.                                *)
LoopOpenFailsOnce(n) ==
    /\ loop[n].pc = "open"
    /\ LET m == loop[n].net
       IN /\ phase' = [phase EXCEPT ![loop[n].client] = "none"]
          /\ state' = [state EXCEPT ![m] = "disconnected"]
          /\ client' = [client EXCEPT ![m] = None]
          /\ reconnect_delay' =
                [reconnect_delay EXCEPT ![m] = Doubled(reconnect_delay[m])]
    /\ loop' = LoopsWithout(n)
    /\ UNCHANGED <<running, dbUp, saved, registry, auto_reconnect, req>>

LoopOpenFails(n) ==
    /\ loop[n].pc = "open"
    /\ LET m == loop[n].net
       IN /\ phase' = [phase EXCEPT ![loop[n].client] = "none"]
          /\ state' = [state EXCEPT ![m] = "disconnected"]
          /\ client' = [client EXCEPT ![m] = None]
          /\ reconnect_delay' =
                [reconnect_delay EXCEPT ![m] = Doubled(reconnect_delay[m])]
    /\ loop' = IF MayReconnect THEN LoopsRestarted(n) ELSE LoopsWithout(n)
    /\ UNCHANGED <<running, dbUp, saved, registry, auto_reconnect, req>>

-----------------------------------------------------------------------------
(* The process.  restore_networks runs before the first request is served, *)
(* shutdown after the last one.                                            *)

BootEmpty ==
    /\ running = "down" /\ dbUp /\ saved = "absent"
    /\ running' = "serving"
    /\ UNCHANGED <<dbUp, saved, registry, state, client, auto_reconnect,
                   reconnect_delay, loop, phase, req>>

BootIdle ==
    /\ running = "down" /\ dbUp /\ saved = "manual"
    /\ running' = "serving"
    /\ registry' \in NetObjs
    /\ UNCHANGED <<dbUp, saved, state, client, auto_reconnect,
                   reconnect_delay, loop, phase, req>>

BootConnecting ==
    /\ running = "down" /\ dbUp /\ saved = "auto"
    /\ running' = "starting"
    /\ \E n \in NetObjs, c \in Clients :
          /\ registry' = n
          /\ client' = [client EXCEPT ![n] = c]
          /\ state' = [state EXCEPT ![n] = "connecting"]
          /\ auto_reconnect' = [auto_reconnect EXCEPT ![n] = TRUE]
          /\ phase' = [phase EXCEPT ![c] = "opening"]
          /\ req' = [req EXCEPT ![Lifespan] =
                        Suspended("restore", "opening", n, c)]
    /\ UNCHANGED <<dbUp, saved, reconnect_delay, loop>>

RestoreOpens ==
    /\ req[Lifespan].op = "restore"
    /\ running' = "serving"
    /\ phase' = [phase EXCEPT ![req[Lifespan].client] = "up"]
    /\ req' = [req EXCEPT ![Lifespan] = IdleReq]
    /\ UNCHANGED <<dbUp, saved, registry, state, client, auto_reconnect,
                   reconnect_delay, loop>>

RestoreOpenFails ==
    /\ req[Lifespan].op = "restore"
    /\ running' = "serving"
    /\ OpenFails(Lifespan)
    /\ loop' = LoopsRestarted(registry)
    /\ UNCHANGED <<dbUp, saved, registry, auto_reconnect, reconnect_delay>>

(* The process is gone, and with it everything but the storage.            *)
Vanish ==
    /\ running' = "down"
    /\ registry' = None
    /\ state' = [n \in NetObjs |-> "disconnected"]
    /\ client' = [n \in NetObjs |-> None]
    /\ auto_reconnect' = [n \in NetObjs |-> FALSE]
    /\ reconnect_delay' = [n \in NetObjs |-> 1]
    /\ loop' = [n \in NetObjs |-> IdleLoop]
    /\ phase' = [c \in Clients |-> "none"]
    /\ req' = [h \in Handlers |-> IdleReq]
    /\ UNCHANGED <<dbUp, saved>>

(* A shutdown that finds nothing to close, or whose note for the log       *)
(* raises because the storage is down, ends the process at once.           *)
ShutdownAtOnce ==
    /\ "stop" \in Inputs
    /\ running = "serving"
    /\ \A h \in Handlers : req[h] = IdleReq
    /\ \/ registry = None
       \/ ~dbUp
       \/ /\ registry # None
          /\ ~HasSocket(client[registry], PhaseWithoutLoop(registry))
    /\ Vanish

Shutdown ==
    /\ "stop" \in Inputs
    /\ running = "serving"
    /\ \A h \in Handlers : req[h] = IdleReq
    /\ registry # None /\ dbUp
    /\ LET n == registry
           ph == PhaseWithoutLoop(n)
       IN /\ HasSocket(client[n], ph)
          /\ running' = "stopping"
          /\ auto_reconnect' = [auto_reconnect EXCEPT ![n] = FALSE]
          /\ loop' = LoopsWithout(n)
          /\ Suspend(Lifespan, "shutdown", n, ph)
    /\ UNCHANGED <<dbUp, reconnect_delay>>

FinishShutdown ==
    /\ Closed(Lifespan)
    /\ Vanish

Crash ==
    /\ "crash" \in Inputs
    /\ running # "down"
    /\ Vanish

OutageBegins ==
    /\ "outage" \in Inputs
    /\ dbUp
    /\ dbUp' = FALSE
    /\ UNCHANGED <<running, saved, registry, state, client, auto_reconnect,
                   reconnect_delay, loop, phase, req>>

OutageEnds ==
    /\ ~dbUp
    /\ dbUp' = TRUE
    /\ UNCHANGED <<running, saved, registry, state, client, auto_reconnect,
                   reconnect_delay, loop, phase, req>>

-----------------------------------------------------------------------------
RequestStep(h) ==
    \/ CreateNetwork(h)
    \/ UpdateConnection(h)
    \/ UpdateFields(h)
    \/ DeleteNetwork(h)
    \/ ConnectNetwork(h)
    \/ DisconnectNetwork(h)

HandlerResumes(h) ==
    \/ FinishForget(h)
    \/ FinishDelete(h)
    \/ FinishConnect(h)
    \/ CloseRaises(h)
    \/ RequestOpens(h)
    \/ RequestOpenFails(h)

ClientStep(c) ==
    \/ Welcome(c)
    \/ ReadLoopEnds(c)
    \/ OwnMembershipChanges(c)

LoopWakes(n) == LoopGivesUp(n) \/ LoopDials(n)

LoopReturns(n) == LoopOpens(n) \/ LoopOpenFails(n)

Restore == RestoreOpens \/ RestoreOpenFails

ProcessStep ==
    \/ BootEmpty \/ BootIdle \/ BootConnecting
    \/ Restore
    \/ ShutdownAtOnce \/ Shutdown \/ FinishShutdown
    \/ Crash
    \/ OutageBegins \/ OutageEnds

Next ==
    \/ \E h \in Requests : RequestStep(h) \/ HandlerResumes(h)
    \/ \E c \in Clients : ClientStep(c)
    \/ \E n \in NetObjs : LoopWakes(n) \/ LoopReturns(n)
    \/ ProcessStep

Spec == Init /\ [][Next]_vars

(***************************************************************************)
(* Fairness.  The event loop runs every task that is ready, open_connection*)
(* returns or raises in the end (the operating system's timeout), and a    *)
(* connection whose socket a handler has closed ends.  Requests, the IRC   *)
(* server and the failures of the environment are free.                    *)
(***************************************************************************)
BeingClosed(c) ==
    \E h \in Handlers : req[h].pc = "closing" /\ req[h].client = c

SchedulerFairness ==
    /\ \A h \in Requests : WF_vars(HandlerResumes(h))
    /\ \A n \in NetObjs : WF_vars(LoopWakes(n)) /\ WF_vars(LoopReturns(n))
    /\ \A c \in Clients : WF_vars(BeingClosed(c) /\ ReadLoopEnds(c))
    /\ WF_vars(Restore) /\ WF_vars(FinishShutdown)

(***************************************************************************)
(* An IRC server that keeps working: of the dials tried again and again    *)
(* one succeeds, and of the connections made again and again one is        *)
(* welcomed.                                                               *)
(***************************************************************************)
ServerFairness ==
    /\ \A n \in NetObjs : SF_vars(LoopOpens(n))
    /\ \A c \in Clients : SF_vars(Welcome(c))

FairSpec == Spec /\ SchedulerFairness

-----------------------------------------------------------------------------
(* Every variable has its type: the states the code can build.             *)
TypeOK ==
    /\ running \in {"down", "starting", "serving", "stopping"}
    /\ dbUp \in BOOLEAN
    /\ saved \in {"absent", "manual", "auto"}
    /\ registry \in NetObjs \cup {None}
    /\ state \in [NetObjs -> NetStates]
    /\ client \in [NetObjs -> Clients \cup {None}]
    /\ auto_reconnect \in [NetObjs -> BOOLEAN]
    /\ reconnect_delay \in [NetObjs -> 1..DelayMax]
    /\ loop \in [NetObjs -> Loops]
    /\ phase \in [Clients -> Phases]
    /\ req \in [Handlers -> Reqs]

(***************************************************************************)
(* A network that answers "connecting" has a client that is dialling or    *)
(* whose connection is up: no interleaving of handlers, reconnect loop and *)
(* late events leaves "connecting" behind a client that is already gone    *)
(* (connect_network would then refuse to dial again, for ever).            *)
(***************************************************************************)
ConnectingIsBacked ==
    registry # None /\ state[registry] = "connecting" =>
        /\ client[registry] # None
        /\ phase[client[registry]] \in {"opening", "up", "registered"}

(***************************************************************************)
(* A network that answers "connected" has a connection that the server has *)
(* welcomed and that has not ended.  Events are delivered by name, so it   *)
(* need not be the client of the network.                                  *)
(***************************************************************************)
ConnectedIsBacked ==
    registry # None /\ state[registry] = "connected" =>
        \E c \in Clients : phase[c] = "registered"

(***************************************************************************)
(* The back-off starts over with every registration: a connected network   *)
(* that is dropped is dialled again after the shortest delay.              *)
(***************************************************************************)
BackoffReset ==
    registry # None /\ state[registry] = "connected" =>
        reconnect_delay[registry] = 1

(***************************************************************************)
(* A connection that was lost while auto_reconnect was set has a reconnect *)
(* loop working for it, whatever requests came in between.                 *)
(***************************************************************************)
LostConnection(n) ==
    /\ registry = n
    /\ auto_reconnect[n]
    /\ state[n] = "disconnected"
    /\ client[n] # None

ReconnectPending == \A n \in NetObjs : LostConnection(n) => loop[n] # IdleLoop

-----------------------------------------------------------------------------
(* What the properties above rest on: who is dialling, and for whom.       *)

HandlerDials(h) == req[h].pc = "opening"
LoopDialling(n) == loop[n].pc = "open"

(* Every dial in progress has one owner, a handler or a loop.              *)
DialsHaveOneOwner ==
    /\ \A h \in Handlers : HandlerDials(h) => phase[req[h].client] = "opening"
    /\ \A n \in NetObjs : LoopDialling(n) => phase[loop[n].client] = "opening"
    /\ \A g, h \in Handlers :
          HandlerDials(g) /\ HandlerDials(h) /\ req[g].client = req[h].client
             => g = h
    /\ \A m, n \in NetObjs :
          LoopDialling(m) /\ LoopDialling(n) /\ loop[m].client = loop[n].client
             => m = n
    /\ \A h \in Handlers, n \in NetObjs :
          HandlerDials(h) /\ LoopDialling(n) => req[h].client # loop[n].client

(* The owner of the dial whose client a network holds will report its end  *)
(* to that very network, though networks come and go under one name.       *)
DialsReportToTheirNetwork ==
    registry # None =>
        /\ \A h \in Handlers :
              HandlerDials(h) /\ client[registry] = req[h].client
                 => req[h].net = registry
        /\ \A n \in NetObjs :
              LoopDialling(n) /\ client[registry] = loop[n].client
                 => loop[n].net = registry
        /\ LoopDialling(registry) => loop[registry].net = registry

(* A process that is down has nothing in memory.                           *)
DownIsReset ==
    running = "down" =>
        /\ registry = None
        /\ \A n \in NetObjs : /\ state[n] = "disconnected"
                              /\ client[n] = None
                              /\ ~auto_reconnect[n]
                              /\ reconnect_delay[n] = 1
                              /\ loop[n] = IdleLoop
        /\ \A c \in Clients : phase[c] = "none"
        /\ \A h \in Handlers : req[h] = IdleReq

(* Until the restored network has been dialled nothing else happens.       *)
StartingIsRestoring ==
    /\ running = "starting" =>
          /\ req[Lifespan].op = "restore"
          /\ registry # None /\ auto_reconnect[registry]
          /\ \A h \in Requests : req[h] = IdleReq
    /\ req[Lifespan].op = "restore" =>
          running = "starting" /\ req[Lifespan].pc = "opening"

Ownership ==
    /\ DialsHaveOneOwner
    /\ DialsReportToTheirNetwork
    /\ DownIsReset
    /\ StartingIsRestoring

(* The loop of the network runs on behalf of its auto_reconnect, and while *)
(* it dials nobody else leaves a lost client behind.                       *)
LoopHasReason ==
    registry # None =>
        /\ loop[registry] # IdleLoop => auto_reconnect[registry]
        /\ LoopDialling(registry) /\ state[registry] = "disconnected"
              => client[registry] = None

-----------------------------------------------------------------------------
(* What a reader of the API expects between two requests.                  *)

Quiet == running = "serving" /\ \A h \in Handlers : req[h] = IdleReq

(* A network has one connection at most, and the proxy holds a reference   *)
(* to it: a second one could be neither used nor closed.                   *)
EveryConnectionIsAttached ==
    \A c \in Clients : Live(c) /\ running = "serving" =>
        registry # None /\ client[registry] = c

(* A network is one connection to an IRC server, never two at a time.      *)
AtMostOneConnection == \A c, d \in Clients : Live(c) /\ Live(d) => c = d

(* A network that was deleted has left nothing behind: no connection, and  *)
(* no row that would bring it back with the next start.                    *)
DeleteLeavesNothing ==
    Quiet /\ registry = None =>
        saved = "absent" /\ \A c \in Clients : ~Live(c)

(* A network that is connected is stored so that the next start connects   *)
(* it again.                                                               *)
ConnectedIsSavedAsAuto ==
    Quiet /\ registry # None /\ state[registry] = "connected" => saved = "auto"

(* What GET /networks/:name answers, and the promise about its changes.    *)
ViewNow ==
    IF running = "down" THEN "down"
    ELSE IF registry = None THEN "absent" ELSE state[registry]

View == INSTANCE NetworkView WITH view <- ViewNow

(***************************************************************************)
(* The network implements the life promised by NetworkView: no event of a  *)
(* connection, no step of a loop makes it skip a state (a network that is  *)
(* disconnected becomes connected only by way of a dial of its own).       *)
(***************************************************************************)
ImplementsView == View!Spec

-----------------------------------------------------------------------------
(* The bound on Clients is reached: the next dial has to wait for it.      *)
OutOfClients == \A c \in Clients : ClientInUse(c)

(* Every request that has been accepted is answered.                       *)
RequestsFinish ==
    \A h \in Requests :
        req[h] # IdleReq ~> req[h] = IdleReq \/ OutOfClients

(***************************************************************************)
(* With a server that keeps working, a lost connection comes back, unless  *)
(* somebody turns the reconnection off, deletes the network or stops the   *)
(* process.                                                                *)
(***************************************************************************)
ReconnectEventually ==
    ServerFairness =>
        \A n \in NetObjs :
            LostConnection(n) ~> \/ registry # n
                                 \/ ~auto_reconnect[n]
                                 \/ state[n] = "connected"
                                 \/ OutOfClients
=============================================================================
