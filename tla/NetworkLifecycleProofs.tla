----------------------- MODULE NetworkLifecycleProofs -----------------------
(***************************************************************************)
(* Theorems about NetworkLifecycle, for every set of objects, clients and  *)
(* requests, every longest delay and every choice of inputs.               *)
(***************************************************************************)
EXTENDS NetworkLifecycle, TLAPS

-----------------------------------------------------------------------------
(* Type correctness.                                                       *)

(* What the record of a handler in progress, and of an opening loop, holds.*)
LEMMA RecordTypes ==
    ASSUME TypeOK
    PROVE  /\ \A h \in Handlers : req[h] # IdleReq =>
                 /\ req[h].op \in Ops
                 /\ req[h].pc \in {"closing", "opening"}
                 /\ req[h].net \in NetObjs
                 /\ req[h].client \in Clients
           /\ \A h \in Handlers : req[h].pc \in {"closing", "opening"} =>
                 req[h] # IdleReq
           /\ \A h \in Handlers : req[h].op \in Ops => req[h] # IdleReq
           /\ \A n \in NetObjs : loop[n].pc = "open" =>
                 /\ loop[n].net \in NetObjs
                 /\ loop[n].client \in Clients
           /\ \A n \in NetObjs : loop[n].pc # "open" =>
                 loop[n] \in {IdleLoop, SleepingLoop}
           /\ \A n \in NetObjs : loop[n].pc = "idle" <=> loop[n] = IdleLoop
  BY DEF TypeOK, Reqs, IdleReq, Suspended, Ops, Loops, IdleLoop, SleepingLoop,
         OpeningLoop

(* The functions the actions assign have the types of the variables.       *)
LEMMA NetUpdateTypes ==
    ASSUME TypeOK
    PROVE  /\ \A n : /\ LoopsWithout(n) \in [NetObjs -> Loops]
                     /\ LoopsRestarted(n) \in [NetObjs -> Loops]
                     /\ DelayReset(n) \in [NetObjs -> 1..DelayMax]
                     /\ Lost(n) \in [NetObjs -> NetStates]
                     /\ PhaseWithoutLoop(n) \in [Clients -> Phases]
           /\ \A st : Stored(st) \in {"absent", "manual", "auto"}
  <1>1. IdleLoop \in Loops /\ SleepingLoop \in Loops
    BY DEF Loops
  <1>2. 1 \in 1..DelayMax
    BY ConstantsAssumption
  <1>3. QED
    BY <1>1, <1>2
       DEF TypeOK, LoopsWithout, LoopsRestarted, PhaseWithoutLoop, DelayReset,
           Lost, Stored, Phases, NetStates

LEMMA ReqUpdateTypes ==
    ASSUME TypeOK, NEW h \in Handlers
    PROVE  /\ PhaseClosed(h) \in [Clients -> Phases]
           /\ [req EXCEPT ![h] = IdleReq] \in [Handlers -> Reqs]
           /\ \A op \in Ops, pc \in {"closing", "opening"},
                 n \in NetObjs, c \in Clients :
                 [req EXCEPT ![h] = Suspended(op, pc, n, c)]
                    \in [Handlers -> Reqs]
  <1>1. IdleReq \in Reqs
    BY DEF Reqs
  <1>2. \A op \in Ops, pc \in {"closing", "opening"},
           n \in NetObjs, c \in Clients : Suspended(op, pc, n, c) \in Reqs
    BY DEF Reqs
  <1>3. QED
    BY <1>1, <1>2 DEF TypeOK, PhaseClosed, Phases

LEMMA TypeInit == Init => TypeOK
  BY ConstantsAssumption
     DEF Init, TypeOK, NetStates, Phases, Loops, Reqs

(* The continuations that several handlers share.                          *)
LEMMA ForgetTypes ==
    ASSUME TypeOK, NEW h \in Handlers, NEW n \in NetObjs,
           NEW ph \in [Clients -> Phases], ForgetClientAndSave(h, n, ph)
    PROVE  /\ saved' \in {"absent", "manual", "auto"}
           /\ registry' \in NetObjs \cup {None}
           /\ state' \in [NetObjs -> NetStates]
           /\ client' \in [NetObjs -> Clients \cup {None}]
           /\ phase' \in [Clients -> Phases]
           /\ req' \in [Handlers -> Reqs]
  BY NetUpdateTypes, ReqUpdateTypes DEF TypeOK, ForgetClientAndSave, NetStates

LEMMA RemoveTypes ==
    ASSUME TypeOK, NEW h \in Handlers,
           NEW ph \in [Clients -> Phases], RemoveNetwork(h, ph)
    PROVE  /\ saved' \in {"absent", "manual", "auto"}
           /\ registry' \in NetObjs \cup {None}
           /\ state' \in [NetObjs -> NetStates]
           /\ client' \in [NetObjs -> Clients \cup {None}]
           /\ phase' \in [Clients -> Phases]
           /\ req' \in [Handlers -> Reqs]
  BY DEF TypeOK, RemoveNetwork, Reqs

LEMMA DialTypes ==
    ASSUME TypeOK, NEW h \in Handlers, NEW n \in NetObjs,
           NEW ph \in [Clients -> Phases], DialFrom(h, n, ph)
    PROVE  /\ saved' \in {"absent", "manual", "auto"}
           /\ registry' \in NetObjs \cup {None}
           /\ state' \in [NetObjs -> NetStates]
           /\ client' \in [NetObjs -> Clients \cup {None}]
           /\ auto_reconnect' \in [NetObjs -> BOOLEAN]
           /\ reconnect_delay' \in [NetObjs -> 1..DelayMax]
           /\ phase' \in [Clients -> Phases]
           /\ req' \in [Handlers -> Reqs]
  BY NetUpdateTypes, ReqUpdateTypes DEF TypeOK, DialFrom, NetStates, Phases,
                                        Ops

LEMMA SuspendTypes ==
    ASSUME TypeOK, NEW h \in Handlers, NEW n \in NetObjs, NEW op \in Ops,
           NEW ph \in [Clients -> Phases], HasSocket(client[n], ph),
           Suspend(h, op, n, ph)
    PROVE  /\ saved' \in {"absent", "manual", "auto"}
           /\ registry' \in NetObjs \cup {None}
           /\ state' \in [NetObjs -> NetStates]
           /\ client' \in [NetObjs -> Clients \cup {None}]
           /\ phase' \in [Clients -> Phases]
           /\ req' \in [Handlers -> Reqs]
  <1>1. client[n] \in Clients
    BY DEF TypeOK, HasSocket
  <1>2. QED
    BY <1>1, ReqUpdateTypes DEF TypeOK, Suspend

LEMMA VanishTypes == ASSUME TypeOK, Vanish PROVE TypeOK'
  BY ConstantsAssumption
     DEF TypeOK, Vanish, NetStates, Phases, Loops, Reqs

LEMMA TypeStep == TypeOK /\ [Next]_vars => TypeOK'
  <1> SUFFICES ASSUME TypeOK, [Next]_vars
               PROVE  TypeOK'
    OBVIOUS
  <1>0. Requests \subseteq Handlers /\ Lifespan \in Handlers
    BY DEF Handlers
  <1>1. ASSUME NEW h \in Requests, CreateNetwork(h)
        PROVE  TypeOK'
    BY <1>1, ConstantsAssumption DEF CreateNetwork, TypeOK, NetStates, Stored
  <1>2. ASSUME NEW h \in Requests, UpdateConnection(h)
        PROVE  TypeOK'
    <2>1. registry \in NetObjs /\ "update" \in Ops
      BY <1>2 DEF UpdateConnection, TypeOK, Ops
    <2>2. QED
      BY NetUpdateTypes, <1>0, <1>2, <2>1, ForgetTypes, SuspendTypes
         DEF UpdateConnection, TypeOK
  <1>3. ASSUME NEW h \in Requests, UpdateFields(h)
        PROVE  TypeOK'
    BY <1>3 DEF UpdateFields, TypeOK, Stored
  <1>4. ASSUME NEW h \in Requests, DeleteNetwork(h)
        PROVE  TypeOK'
    <2>1. registry \in NetObjs /\ "delete" \in Ops
      BY <1>4 DEF DeleteNetwork, TypeOK, Ops
    <2>2. QED
      BY NetUpdateTypes, <1>0, <1>4, <2>1, RemoveTypes, SuspendTypes
         DEF DeleteNetwork, TypeOK
  <1>5. ASSUME NEW h \in Requests, ConnectNetwork(h)
        PROVE  TypeOK'
    <2>1. registry \in NetObjs /\ "connect" \in Ops
      BY <1>5 DEF ConnectNetwork, TypeOK, Ops
    <2>2. phase \in [Clients -> Phases]
      BY DEF TypeOK
    <2>3. QED
      BY <1>0, <1>5, <2>1, <2>2, DialTypes, SuspendTypes
         DEF ConnectNetwork, TypeOK
  <1>6. ASSUME NEW h \in Requests, DisconnectNetwork(h)
        PROVE  TypeOK'
    <2>1. registry \in NetObjs /\ "disconnect" \in Ops
      BY <1>6 DEF DisconnectNetwork, TypeOK, Ops
    <2>2. QED
      BY NetUpdateTypes, <1>0, <1>6, <2>1, ForgetTypes, SuspendTypes
         DEF DisconnectNetwork, TypeOK
  <1>7. ASSUME NEW h \in Requests, FinishForget(h)
        PROVE  TypeOK'
    <2>1. req[h].net \in NetObjs
      BY <1>0, <1>7, RecordTypes DEF FinishForget, Closed
    <2>2. QED
      BY ReqUpdateTypes, <1>0, <1>7, <2>1, ForgetTypes DEF FinishForget, TypeOK
  <1>8. ASSUME NEW h \in Requests, FinishDelete(h)
        PROVE  TypeOK'
    <2>1. req[h].net \in NetObjs
      BY <1>0, <1>8, RecordTypes DEF FinishDelete, Closed
    <2>2. QED
      BY ReqUpdateTypes, <1>0, <1>8, <2>1, RemoveTypes DEF FinishDelete, TypeOK
  <1>9. ASSUME NEW h \in Requests, FinishConnect(h)
        PROVE  TypeOK'
    <2>1. req[h].net \in NetObjs
      BY <1>0, <1>9, RecordTypes DEF FinishConnect, Closed
    <2>2. QED
      BY ReqUpdateTypes, <1>0, <1>9, <2>1, DialTypes DEF FinishConnect, TypeOK
  <1>10. ASSUME NEW h \in Requests, CloseRaises(h)
         PROVE  TypeOK'
    BY ReqUpdateTypes, <1>0, <1>10 DEF CloseRaises, TypeOK
  <1>11. ASSUME NEW h \in Requests, RequestOpens(h)
         PROVE  TypeOK'
    BY NetUpdateTypes, ReqUpdateTypes, <1>0, <1>11
       DEF RequestOpens, TypeOK, Phases
  <1>12. ASSUME NEW h \in Requests, RequestOpenFails(h)
         PROVE  TypeOK'
    BY ReqUpdateTypes, <1>0, <1>12
       DEF RequestOpenFails, OpenFails, TypeOK, Phases, NetStates
  <1>13. ASSUME NEW c \in Clients, Welcome(c)
         PROVE  TypeOK'
    BY NetUpdateTypes, <1>13 DEF Welcome, TypeOK, Phases, NetStates
  <1>14. ASSUME NEW c \in Clients, ReadLoopEnds(c)
         PROVE  TypeOK'
    BY NetUpdateTypes, <1>14 DEF ReadLoopEnds, TypeOK, Phases
  <1>15. ASSUME NEW c \in Clients, OwnMembershipChanges(c)
         PROVE  TypeOK'
    BY <1>15 DEF OwnMembershipChanges, TypeOK, Stored
  <1>16. ASSUME NEW n \in NetObjs, LoopGivesUp(n)
         PROVE  TypeOK'
    BY NetUpdateTypes, <1>16 DEF LoopGivesUp, TypeOK
  <1>17. ASSUME NEW n \in NetObjs, LoopDials(n)
         PROVE  TypeOK'
    BY NetUpdateTypes, <1>17 DEF LoopDials, MayReconnect, TypeOK, Phases,
                                 NetStates, Loops
  <1>18. ASSUME NEW n \in NetObjs, LoopOpens(n)
         PROVE  TypeOK'
    BY NetUpdateTypes, <1>18 DEF LoopOpens, TypeOK, Phases
  <1>19. ASSUME NEW n \in NetObjs, LoopOpenFails(n)
         PROVE  TypeOK'
    <2>1. loop[n].net \in NetObjs /\ loop[n].client \in Clients
      BY <1>19, RecordTypes DEF LoopOpenFails
    <2>2. \A d \in 1..DelayMax : Doubled(d) \in 1..DelayMax
      BY ConstantsAssumption DEF Doubled
    <2>3. reconnect_delay' \in [NetObjs -> 1..DelayMax]
      BY <1>19, <2>1, <2>2 DEF LoopOpenFails, TypeOK
    <2>4. QED
      BY NetUpdateTypes, <1>19, <2>1, <2>3
         DEF LoopOpenFails, TypeOK, Phases, NetStates
  <1>20. ASSUME BootEmpty \/ BootIdle
         PROVE  TypeOK'
    BY <1>20 DEF BootEmpty, BootIdle, TypeOK
  <1>21. ASSUME BootConnecting
         PROVE  TypeOK'
    BY ReqUpdateTypes, <1>0, <1>21
       DEF BootConnecting, TypeOK, Phases, NetStates, Ops
  <1>22. ASSUME RestoreOpens
         PROVE  TypeOK'
    BY ReqUpdateTypes, <1>0, <1>22 DEF RestoreOpens, TypeOK, Phases
  <1>23. ASSUME RestoreOpenFails
         PROVE  TypeOK'
    BY NetUpdateTypes, ReqUpdateTypes, <1>0, <1>23
       DEF RestoreOpenFails, OpenFails, TypeOK, Phases, NetStates
  <1>24. ASSUME ShutdownAtOnce \/ FinishShutdown \/ Crash
         PROVE  TypeOK'
    BY <1>24, VanishTypes DEF ShutdownAtOnce, FinishShutdown, Crash
  <1>25. ASSUME Shutdown
         PROVE  TypeOK'
    <2>1. registry \in NetObjs /\ "shutdown" \in Ops
      BY <1>25 DEF Shutdown, TypeOK, Ops
    <2>2. QED
      BY NetUpdateTypes, <1>0, <1>25, <2>1, SuspendTypes DEF Shutdown, TypeOK
  <1>26. ASSUME OutageBegins \/ OutageEnds
         PROVE  TypeOK'
    BY <1>26 DEF OutageBegins, OutageEnds, TypeOK
  <1>27. ASSUME UNCHANGED vars
         PROVE  TypeOK'
    BY <1>27 DEF vars, TypeOK
  <1>28. QED
    BY <1>1, <1>2, <1>3, <1>4, <1>5, <1>6, <1>7, <1>8, <1>9, <1>10, <1>11,
       <1>12, <1>13, <1>14, <1>15, <1>16, <1>17, <1>18, <1>19, <1>20, <1>21,
       <1>22, <1>23, <1>24, <1>25, <1>26, <1>27
       DEF Next, RequestStep, HandlerResumes, ClientStep, LoopWakes,
           LoopReturns, ProcessStep, Restore

(* Every state the process reaches is of the type TypeOK states.           *)
THEOREM TypeCorrect == Spec => []TypeOK
  BY TypeInit, TypeStep, PTL DEF Spec
-----------------------------------------------------------------------------
(* Ownership: every dial in progress has one owner, who reports its end to *)
(* the network that holds the client.                                      *)

LEMMA OwnershipInit == Init => Ownership
  <1> SUFFICES ASSUME Init PROVE Ownership
    OBVIOUS
  <1>1. /\ \A h \in Handlers : req[h] = IdleReq
        /\ \A n \in NetObjs : loop[n] = IdleLoop
        /\ Lifespan \in Handlers
    BY DEF Init, Handlers
  <1>2. DialsHaveOneOwner
    BY <1>1 DEF DialsHaveOneOwner, HandlerDials, LoopDialling, IdleReq,
                IdleLoop
  <1>3. DialsReportToTheirNetwork
    BY DEF Init, DialsReportToTheirNetwork
  <1>4. DownIsReset
    BY <1>1 DEF Init, DownIsReset
  <1>5. StartingIsRestoring
    BY <1>1 DEF Init, StartingIsRestoring, IdleReq
  <1>6. QED
    BY <1>2, <1>3, <1>4, <1>5 DEF Ownership

LEMMA VanishOwnership ==
    ASSUME Vanish
    PROVE  Ownership' /\ LoopHasReason'
  <1>1. /\ \A h \in Handlers : req'[h] = IdleReq
        /\ \A n \in NetObjs : loop'[n] = IdleLoop
        /\ Lifespan \in Handlers
        /\ running' = "down" /\ registry' = None
    BY DEF Vanish, Handlers
  <1>2. DialsHaveOneOwner' /\ DialsReportToTheirNetwork' /\ LoopHasReason'
    BY <1>1 DEF DialsHaveOneOwner, HandlerDials, LoopDialling, IdleReq,
                IdleLoop, DialsReportToTheirNetwork, LoopHasReason
  <1>3. DownIsReset'
    BY <1>1 DEF Vanish, DownIsReset
  <1>4. StartingIsRestoring'
    BY <1>1 DEF StartingIsRestoring, IdleReq
  <1>5. QED
    BY <1>2, <1>3, <1>4 DEF Ownership

LEMMA OneOwnerUnchanged ==
    ASSUME DialsHaveOneOwner, UNCHANGED <<loop, phase, req>>
    PROVE  DialsHaveOneOwner'
  BY DEF DialsHaveOneOwner, HandlerDials, LoopDialling

(* Cancelling the loop of n touches no dial but its own.                   *)
LEMMA CancelSparesOthers ==
    ASSUME TypeOK, DialsHaveOneOwner, NEW n \in NetObjs
    PROVE  /\ \A h \in Handlers : HandlerDials(h) =>
                 PhaseWithoutLoop(n)[req[h].client] = "opening"
           /\ \A m \in NetObjs : LoopDialling(m) /\ m # n =>
                 PhaseWithoutLoop(n)[loop[m].client] = "opening"
           /\ \A m \in NetObjs : LoopsWithout(n)[m] =
                 IF m = n THEN IdleLoop ELSE loop[m]
           /\ \A m \in NetObjs : LoopsRestarted(n)[m] =
                 IF m = n THEN SleepingLoop ELSE loop[m]
  <1>1. \A m \in NetObjs : ~LoopDialling(m) => loop[m].client = None
    BY RecordTypes DEF LoopDialling, IdleLoop, SleepingLoop
  <1>2. \A c \in Clients : PhaseWithoutLoop(n)[c] =
           IF loop[n].client = c THEN "none" ELSE phase[c]
    BY DEF PhaseWithoutLoop
  <1>3. \A h \in Handlers : HandlerDials(h) => req[h].client \in Clients
    BY RecordTypes DEF HandlerDials
  <1>4. \A m \in NetObjs : LoopDialling(m) => loop[m].client \in Clients
    BY RecordTypes DEF LoopDialling
  <1>5. \A c \in Clients : c # None
    BY ConstantsAssumption
  <1>6. QED
    BY <1>1, <1>2, <1>3, <1>4, <1>5
       DEF DialsHaveOneOwner, LoopsWithout, LoopsRestarted, TypeOK

LEMMA CancelKeepsOwners ==
    ASSUME TypeOK, DialsHaveOneOwner, NEW n \in NetObjs,
           loop' = LoopsWithout(n), phase' = PhaseWithoutLoop(n),
           \A h \in Handlers : req'[h].pc = "opening" => req'[h] = req[h]
    PROVE  DialsHaveOneOwner'
  <1>1. \A h \in Handlers : HandlerDials(h)' =>
           /\ HandlerDials(h)
           /\ req'[h].client = req[h].client
           /\ phase'[req'[h].client] = "opening"
    BY CancelSparesOthers DEF HandlerDials
  <1>2. \A m \in NetObjs : LoopDialling(m)' =>
           /\ LoopDialling(m)
           /\ loop'[m].client = loop[m].client
           /\ phase'[loop'[m].client] = "opening"
    BY CancelSparesOthers DEF LoopDialling, IdleLoop
  <1>3. QED
    BY <1>1, <1>2 DEF DialsHaveOneOwner

(* A dial of a client that nobody knew keeps its owners apart.             *)
LEMMA DialKeepsOwners ==
    ASSUME TypeOK, DialsHaveOneOwner,
           NEW h \in Handlers, NEW n \in NetObjs,
           NEW ph \in [Clients -> Phases],
           \A d \in Clients : phase[d] = "opening" => ph[d] = "opening",
           DialFrom(h, n, ph), UNCHANGED loop
    PROVE  DialsHaveOneOwner'
  <1>1. PICK c \in Clients :
           /\ ~ClientInUse(c)
           /\ phase' = [ph EXCEPT ![c] = "opening"]
           /\ req' = [req EXCEPT ![h] = Suspended("connect", "opening", n, c)]
    BY DEF DialFrom
  <1>2. /\ \A g \in Handlers : req[g].client # c
        /\ \A m \in NetObjs : loop[m].client # c
    BY <1>1 DEF ClientInUse
  <1>3. /\ req'[h].client = c
        /\ \A g \in Handlers : g # h => req'[g] = req[g]
        /\ phase'[c] = "opening"
        /\ \A d \in Clients : phase[d] = "opening" => phase'[d] = "opening"
    BY <1>1 DEF TypeOK, Suspended
  <1>4. \A g \in Handlers : HandlerDials(g) => req[g].client \in Clients
    BY RecordTypes DEF HandlerDials
  <1>5. \A m \in NetObjs : LoopDialling(m) => loop[m].client \in Clients
    BY RecordTypes DEF LoopDialling
  <1>6. QED
    BY <1>2, <1>3, <1>4, <1>5
       DEF DialsHaveOneOwner, HandlerDials, LoopDialling

LEMMA OneOwnerStep ==
    ASSUME TypeOK, Ownership, ~Vanish, [Next]_vars
    PROVE  DialsHaveOneOwner'
  <1> USE DEF DialsHaveOneOwner, HandlerDials, LoopDialling
  <1>0. /\ Requests \subseteq Handlers /\ Lifespan \in Handlers
        /\ Lifespan \notin Requests
    BY ConstantsAssumption DEF Handlers
  <1>1. DialsHaveOneOwner
    BY DEF Ownership
  <1>2. ASSUME NEW h \in Requests, UpdateConnection(h)
        PROVE  DialsHaveOneOwner'
    <2>1. registry \in NetObjs
      BY <1>2 DEF UpdateConnection, TypeOK
    <2>2. \A g \in Handlers : req'[g].pc = "opening" => req'[g] = req[g]
      BY <1>0, <1>2 DEF UpdateConnection, Suspend, ForgetClientAndSave,
                        Suspended,
                         IdleReq, TypeOK
    <2>3. loop' = LoopsWithout(registry)
          /\ phase' = PhaseWithoutLoop(registry)
      BY <1>2 DEF UpdateConnection, Suspend, ForgetClientAndSave
    <2>4. QED
      BY <1>1, <2>1, <2>2, <2>3, CancelKeepsOwners
  <1>3. ASSUME NEW h \in Requests, DisconnectNetwork(h)
        PROVE  DialsHaveOneOwner'
    <2>1. registry \in NetObjs
      BY <1>3 DEF DisconnectNetwork, TypeOK
    <2>2. \A g \in Handlers : req'[g].pc = "opening" => req'[g] = req[g]
      BY <1>0, <1>3 DEF DisconnectNetwork, Suspend, ForgetClientAndSave,
                        Suspended,
                         IdleReq, TypeOK
    <2>3. loop' = LoopsWithout(registry)
          /\ phase' = PhaseWithoutLoop(registry)
      BY <1>3 DEF DisconnectNetwork, Suspend, ForgetClientAndSave
    <2>4. QED
      BY <1>1, <2>1, <2>2, <2>3, CancelKeepsOwners
  <1>4. ASSUME NEW h \in Requests, DeleteNetwork(h)
        PROVE  DialsHaveOneOwner'
    <2>1. registry \in NetObjs
      BY <1>4 DEF DeleteNetwork, TypeOK
    <2>2. \A g \in Handlers : req'[g].pc = "opening" => req'[g] = req[g]
      BY <1>0, <1>4 DEF DeleteNetwork, Suspend, RemoveNetwork, Suspended,
                         IdleReq, TypeOK
    <2>3. loop' = LoopsWithout(registry)
          /\ phase' = PhaseWithoutLoop(registry)
      BY <1>4 DEF DeleteNetwork, Suspend, RemoveNetwork
    <2>4. QED
      BY <1>1, <2>1, <2>2, <2>3, CancelKeepsOwners
  <1>5. ASSUME NEW h \in Requests, ConnectNetwork(h)
        PROVE  DialsHaveOneOwner'
    <2>1. registry \in NetObjs /\ UNCHANGED loop /\ h \in Handlers
      BY <1>5 DEF ConnectNetwork, TypeOK, Handlers
    <2>2. CASE Suspend(h, "connect", registry, phase)
      BY <1>0, <1>1, <2>1, <2>2, RecordTypes
         DEF Suspend, TypeOK, Suspended
    <2>3. CASE DialFrom(h, registry, phase)
      BY <1>1, <2>1, <2>3, DialKeepsOwners DEF TypeOK
    <2>4. QED
      BY <1>5, <2>2, <2>3 DEF ConnectNetwork
  <1>6. ASSUME NEW h \in Requests, FinishForget(h)
        PROVE  DialsHaveOneOwner'
    BY <1>0, <1>1, <1>6, RecordTypes
       DEF FinishForget, Closed, PhaseClosed, ForgetClientAndSave, TypeOK,
           Suspended, IdleReq, IdleLoop
  <1>7. ASSUME NEW h \in Requests, FinishDelete(h)
        PROVE  DialsHaveOneOwner'
    BY <1>0, <1>1, <1>7, RecordTypes
       DEF FinishDelete, Closed, PhaseClosed, RemoveNetwork, TypeOK,
           Suspended, IdleReq, IdleLoop
  <1>8. ASSUME NEW h \in Requests, FinishConnect(h)
        PROVE  DialsHaveOneOwner'
    <2>1. /\ h \in Handlers /\ UNCHANGED loop
          /\ req[h].net \in NetObjs
      BY <1>8, RecordTypes DEF FinishConnect, Closed, Handlers
    <2>2. /\ PhaseClosed(h) \in [Clients -> Phases]
          /\ \A d \in Clients :
                phase[d] = "opening" => PhaseClosed(h)[d] = "opening"
      BY <1>8, <2>1, RecordTypes, ReqUpdateTypes
         DEF FinishConnect, Closed, PhaseClosed, TypeOK
    <2>3. QED
      BY <1>1, <1>8, <2>1, <2>2, DialKeepsOwners DEF FinishConnect
  <1>9. ASSUME NEW h \in Requests, CloseRaises(h)
        PROVE  DialsHaveOneOwner'
    BY <1>0, <1>1, <1>9, RecordTypes
       DEF CloseRaises, TypeOK, Suspended, IdleReq, IdleLoop
  <1>10. ASSUME NEW h \in Requests, RequestOpens(h)
         PROVE  DialsHaveOneOwner'
    BY <1>0, <1>1, <1>10, RecordTypes
       DEF RequestOpens, TypeOK, Suspended, IdleReq, IdleLoop
  <1>11. ASSUME NEW h \in Requests, RequestOpenFails(h)
         PROVE  DialsHaveOneOwner'
    BY <1>0, <1>1, <1>11, RecordTypes
       DEF RequestOpenFails, OpenFails, TypeOK, Suspended, IdleReq, IdleLoop
  <1>12. ASSUME NEW c \in Clients, Welcome(c)
         PROVE  DialsHaveOneOwner'
    BY <1>0, <1>1, <1>12, RecordTypes
       DEF Welcome, TypeOK, Suspended, IdleReq, IdleLoop
  <1>13. ASSUME NEW c \in Clients, ReadLoopEnds(c)
         PROVE  DialsHaveOneOwner'
    <2>1. CASE phase' = [phase EXCEPT ![c] = "dropped"] /\ UNCHANGED loop
      BY <1>0, <1>1, <1>13, <2>1, RecordTypes DEF ReadLoopEnds, Live, TypeOK
    <2>2. CASE /\ registry # None
               /\ loop' = LoopsRestarted(registry)
               /\ phase' = [PhaseWithoutLoop(registry)
                               EXCEPT ![c] = "dropped"]
      <3>1. registry \in NetObjs
        BY <2>2 DEF TypeOK
      <3>2. PhaseWithoutLoop(registry) \in [Clients -> Phases]
        BY NetUpdateTypes
      <3>3. phase[c] # "opening" /\ UNCHANGED req
        BY <1>13 DEF ReadLoopEnds, Live
      <3>4. QED
        BY <1>0, <1>1, <2>2, <3>1, <3>2, <3>3, CancelSparesOthers, RecordTypes
           DEF SleepingLoop
    <2>3. QED
      BY <1>13, <2>1, <2>2 DEF ReadLoopEnds
  <1>14. ASSUME NEW n \in NetObjs, LoopGivesUp(n)
         PROVE  DialsHaveOneOwner'
    BY <1>0, <1>1, <1>14, RecordTypes
       DEF LoopGivesUp, LoopsWithout, TypeOK, Suspended, IdleReq, IdleLoop
  <1>15. ASSUME NEW n \in NetObjs, LoopDials(n)
         PROVE  DialsHaveOneOwner'
    BY <1>0, <1>1, <1>15, RecordTypes
       DEF LoopDials, ClientInUse, OpeningLoop, TypeOK, Suspended, IdleReq,
           IdleLoop
  <1>16. ASSUME NEW n \in NetObjs, LoopOpens(n)
         PROVE  DialsHaveOneOwner'
    BY <1>0, <1>1, <1>16, RecordTypes
       DEF LoopOpens, LoopsWithout, TypeOK, Suspended, IdleReq, IdleLoop
  <1>17. ASSUME NEW n \in NetObjs, LoopOpenFails(n)
         PROVE  DialsHaveOneOwner'
    BY <1>0, <1>1, <1>17, RecordTypes
       DEF LoopOpenFails, LoopsWithout, LoopsRestarted, SleepingLoop, TypeOK,
           Suspended, IdleReq, IdleLoop
  <1>18. ASSUME BootConnecting
         PROVE  DialsHaveOneOwner'
    BY <1>0, <1>1, <1>18, RecordTypes
       DEF BootConnecting, Ownership, DownIsReset, TypeOK, Suspended, IdleReq,
           IdleLoop
  <1>19. ASSUME RestoreOpens
         PROVE  DialsHaveOneOwner'
    BY <1>0, <1>1, <1>19, RecordTypes
       DEF RestoreOpens, Ownership, StartingIsRestoring, TypeOK, IdleReq
  <1>20. ASSUME RestoreOpenFails
         PROVE  DialsHaveOneOwner'
    BY <1>0, <1>1, <1>20, RecordTypes
       DEF RestoreOpenFails, OpenFails, Ownership, StartingIsRestoring, TypeOK,
           IdleReq, LoopsRestarted, SleepingLoop
  <1>21. ASSUME Shutdown
         PROVE  DialsHaveOneOwner'
    <2>1. registry \in NetObjs
      BY <1>21 DEF Shutdown, TypeOK
    <2>2. \A g \in Handlers : req'[g].pc = "opening" => req'[g] = req[g]
      BY <1>0, <1>21 DEF Shutdown, Suspend, Suspended, TypeOK
    <2>3. loop' = LoopsWithout(registry)
          /\ phase' = PhaseWithoutLoop(registry)
      BY <1>21 DEF Shutdown, Suspend
    <2>4. QED
      BY <1>1, <2>1, <2>2, <2>3, CancelKeepsOwners
  <1> HIDE DEF DialsHaveOneOwner, HandlerDials, LoopDialling
  <1>22. ASSUME UNCHANGED <<loop, phase, req>>
         PROVE  DialsHaveOneOwner'
    BY <1>1, <1>22, OneOwnerUnchanged
  <1>23. QED
    BY <1>2, <1>3, <1>4, <1>5, <1>6, <1>7, <1>8, <1>9, <1>10, <1>11, <1>12,
       <1>13, <1>14, <1>15, <1>16, <1>17, <1>18, <1>19, <1>20, <1>21, <1>22
       DEF Next, RequestStep, HandlerResumes, ClientStep, LoopWakes,
           LoopReturns, ProcessStep, Restore, CreateNetwork, UpdateFields,
           OwnMembershipChanges, BootEmpty, BootIdle, ShutdownAtOnce,
           FinishShutdown, Crash, OutageBegins, OutageEnds, vars

LEMMA ReportUnchanged ==
    ASSUME DialsReportToTheirNetwork, UNCHANGED <<registry, client, loop, req>>
    PROVE  DialsReportToTheirNetwork'
  BY DEF DialsReportToTheirNetwork, HandlerDials, LoopDialling

LEMMA ReportStep ==
    ASSUME TypeOK, Ownership, ~Vanish, [Next]_vars
    PROVE  DialsReportToTheirNetwork'
  <1> USE DEF DialsReportToTheirNetwork, HandlerDials, LoopDialling
  <1>0. /\ Requests \subseteq Handlers /\ Lifespan \in Handlers
        /\ Lifespan \notin Requests
        /\ None \notin NetObjs /\ None \notin Clients
    BY ConstantsAssumption DEF Handlers
  <1>1. DialsReportToTheirNetwork
    BY DEF Ownership
  <1>2. ASSUME NEW h \in Requests, CreateNetwork(h)
        PROVE  DialsReportToTheirNetwork'
    BY <1>0, <1>1, <1>2, RecordTypes
       DEF CreateNetwork, NetInUse, TypeOK, Suspended, IdleReq, IdleLoop
  <1>3. ASSUME NEW h \in Requests, UpdateConnection(h)
        PROVE  DialsReportToTheirNetwork'
    BY <1>0, <1>1, <1>3, RecordTypes
       DEF UpdateConnection, Suspend, ForgetClientAndSave, LoopsWithout,
           TypeOK, Suspended, IdleReq, IdleLoop
  <1>4. ASSUME NEW h \in Requests, DisconnectNetwork(h)
        PROVE  DialsReportToTheirNetwork'
    BY <1>0, <1>1, <1>4, RecordTypes
       DEF DisconnectNetwork, Suspend, ForgetClientAndSave, LoopsWithout,
           TypeOK, Suspended, IdleReq, IdleLoop
  <1>5. ASSUME NEW h \in Requests, DeleteNetwork(h)
        PROVE  DialsReportToTheirNetwork'
    BY <1>0, <1>1, <1>5, RecordTypes
       DEF DeleteNetwork, Suspend, RemoveNetwork, LoopsWithout, TypeOK,
           Suspended, IdleReq, IdleLoop
  <1>6. ASSUME NEW h \in Requests, ConnectNetwork(h)
        PROVE  DialsReportToTheirNetwork'
    BY <1>0, <1>1, <1>6, RecordTypes
       DEF ConnectNetwork, Suspend, DialFrom, ClientInUse, NetInUse, TypeOK,
           Suspended, IdleReq, IdleLoop
  <1>7. ASSUME NEW h \in Requests, FinishForget(h)
        PROVE  DialsReportToTheirNetwork'
    BY <1>0, <1>1, <1>7, RecordTypes
       DEF FinishForget, Closed, PhaseClosed, ForgetClientAndSave, TypeOK,
           Suspended, IdleReq, IdleLoop
  <1>8. ASSUME NEW h \in Requests, FinishDelete(h)
        PROVE  DialsReportToTheirNetwork'
    BY <1>0, <1>1, <1>8, RecordTypes
       DEF FinishDelete, Closed, PhaseClosed, RemoveNetwork, TypeOK,
           Suspended, IdleReq, IdleLoop
  <1>9. ASSUME NEW h \in Requests, FinishConnect(h)
        PROVE  DialsReportToTheirNetwork'
    BY <1>0, <1>1, <1>9, RecordTypes
       DEF FinishConnect, Closed, PhaseClosed, DialFrom, ClientInUse,
           NetInUse, TypeOK, Suspended, IdleReq, IdleLoop
  <1>10. ASSUME NEW h \in Requests, CloseRaises(h)
         PROVE  DialsReportToTheirNetwork'
    BY <1>0, <1>1, <1>10, RecordTypes
       DEF CloseRaises, TypeOK, Suspended, IdleReq, IdleLoop
  <1>11. ASSUME NEW h \in Requests, RequestOpens(h)
         PROVE  DialsReportToTheirNetwork'
    BY <1>0, <1>1, <1>11, RecordTypes
       DEF RequestOpens, TypeOK, Suspended, IdleReq, IdleLoop
  <1>12. ASSUME NEW h \in Requests, RequestOpenFails(h)
         PROVE  DialsReportToTheirNetwork'
    BY <1>0, <1>1, <1>12, RecordTypes
       DEF RequestOpenFails, OpenFails, TypeOK, Suspended, IdleReq, IdleLoop
  <1>13. ASSUME NEW c \in Clients, ReadLoopEnds(c)
         PROVE  DialsReportToTheirNetwork'
    BY <1>0, <1>1, <1>13, RecordTypes
       DEF ReadLoopEnds, Live, LoopsRestarted, SleepingLoop, TypeOK,
           Suspended, IdleReq, IdleLoop
  <1>14. ASSUME NEW n \in NetObjs, LoopGivesUp(n)
         PROVE  DialsReportToTheirNetwork'
    BY <1>0, <1>1, <1>14, RecordTypes
       DEF LoopGivesUp, LoopsWithout, TypeOK, Suspended, IdleReq, IdleLoop
  <1>15. ASSUME NEW n \in NetObjs, LoopDials(n)
         PROVE  DialsReportToTheirNetwork'
    BY <1>0, <1>1, <1>15, RecordTypes
       DEF LoopDials, ClientInUse, NetInUse, OpeningLoop, TypeOK, Suspended,
           IdleReq, IdleLoop
  <1>16. ASSUME NEW n \in NetObjs, LoopOpens(n)
         PROVE  DialsReportToTheirNetwork'
    BY <1>0, <1>1, <1>16, RecordTypes
       DEF LoopOpens, LoopsWithout, TypeOK, Suspended, IdleReq, IdleLoop
  <1>17. ASSUME NEW n \in NetObjs, LoopOpenFails(n)
         PROVE  DialsReportToTheirNetwork'
    BY <1>0, <1>1, <1>17, RecordTypes
       DEF LoopOpenFails, LoopsWithout, LoopsRestarted, SleepingLoop, TypeOK,
           Suspended, IdleReq, IdleLoop
  <1>18. ASSUME BootIdle \/ BootConnecting
         PROVE  DialsReportToTheirNetwork'
    BY <1>0, <1>18
       DEF BootIdle, BootConnecting, Ownership, DownIsReset, TypeOK, Suspended,
           IdleReq, IdleLoop
  <1>19. ASSUME RestoreOpens
         PROVE  DialsReportToTheirNetwork'
    BY <1>0, <1>1, <1>19, RecordTypes
       DEF RestoreOpens, TypeOK, IdleReq
  <1>20. ASSUME RestoreOpenFails
         PROVE  DialsReportToTheirNetwork'
    BY <1>0, <1>1, <1>20, RecordTypes
       DEF RestoreOpenFails, OpenFails, TypeOK, IdleReq, LoopsRestarted,
           SleepingLoop
  <1>21. ASSUME Shutdown
         PROVE  DialsReportToTheirNetwork'
    BY <1>0, <1>1, <1>21, RecordTypes
       DEF Shutdown, Suspend, LoopsWithout, TypeOK, Suspended, IdleLoop
  <1> HIDE DEF DialsReportToTheirNetwork, HandlerDials, LoopDialling
  <1>22. ASSUME UNCHANGED <<registry, client, loop, req>>
         PROVE  DialsReportToTheirNetwork'
    BY <1>1, <1>22, ReportUnchanged
  <1>23. QED
    BY <1>2, <1>3, <1>4, <1>5, <1>6, <1>7, <1>8, <1>9, <1>10, <1>11, <1>12,
       <1>13, <1>14, <1>15, <1>16, <1>17, <1>18, <1>19, <1>20, <1>21, <1>22
       DEF Next, RequestStep, HandlerResumes, ClientStep, LoopWakes,
           LoopReturns, ProcessStep, Restore, UpdateFields, Welcome,
           OwnMembershipChanges, BootEmpty, ShutdownAtOnce, FinishShutdown,
           Crash, OutageBegins, OutageEnds, vars

(* Of a process that is down nothing moves but the storage's outages, until*)
(* it boots; and no step but the end of the process brings it down.        *)
LEMMA DownStep ==
    ASSUME TypeOK, Ownership, ~Vanish, [Next]_vars
    PROVE  DownIsReset'
  <1> SUFFICES ASSUME running' = "down"
               PROVE  DownIsReset'
    BY DEF DownIsReset
  <1>1. running = "down"
    BY DEF Next, RequestStep, HandlerResumes, ClientStep, LoopWakes,
           LoopReturns, ProcessStep, Restore, CreateNetwork, UpdateConnection,
           UpdateFields, DeleteNetwork, ConnectNetwork, DisconnectNetwork,
           FinishForget, FinishDelete, FinishConnect, CloseRaises,
           RequestOpens, RequestOpenFails, Welcome, ReadLoopEnds,
           OwnMembershipChanges, LoopGivesUp, LoopDials, LoopOpens,
           LoopOpenFails, BootEmpty, BootIdle, BootConnecting, RestoreOpens,
           RestoreOpenFails, ShutdownAtOnce, Shutdown, FinishShutdown, Crash,
           OutageBegins, OutageEnds, vars
  <1>2. DownIsReset
    BY DEF Ownership
  <1>3. /\ \A h \in Handlers : req[h].pc = "idle" /\ req[h].op = "idle"
        /\ \A n \in NetObjs : loop[n].pc = "idle"
        /\ \A c \in Clients : phase[c] = "none"
    BY <1>1, <1>2 DEF DownIsReset, IdleReq, IdleLoop
  <1>4. Requests \subseteq Handlers /\ Lifespan \in Handlers
    BY DEF Handlers
  <1>5. /\ \A h \in Requests : ~RequestStep(h)
        /\ \A h \in Requests : ~HandlerResumes(h)
        /\ \A c \in Clients : ~ClientStep(c)
        /\ \A n \in NetObjs : ~LoopWakes(n) /\ ~LoopReturns(n)
    BY <1>1, <1>3, <1>4
       DEF RequestStep, HandlerResumes, ClientStep, LoopWakes, LoopReturns,
           CreateNetwork, UpdateConnection, UpdateFields, DeleteNetwork,
           ConnectNetwork, DisconnectNetwork, Arrives, FinishForget,
           FinishDelete, FinishConnect, Closed, CloseRaises, RequestOpens,
           RequestOpenFails, Welcome, ReadLoopEnds, Live,
           OwnMembershipChanges, LoopGivesUp, LoopDials, LoopOpens,
           LoopOpenFails
  <1>6. UNCHANGED <<running, registry, state, client, auto_reconnect,
                    reconnect_delay, loop, phase, req>>
    BY <1>1, <1>3, <1>4, <1>5
       DEF Next, ProcessStep, Restore, BootEmpty, BootIdle, BootConnecting,
           RestoreOpens, RestoreOpenFails, ShutdownAtOnce, Shutdown,
           FinishShutdown, Closed, Crash, OutageBegins, OutageEnds, vars
  <1>7. QED
    BY <1>2, <1>6 DEF DownIsReset

LEMMA StartingStep ==
    ASSUME TypeOK, Ownership, ~Vanish, [Next]_vars
    PROVE  StartingIsRestoring'
  <1>0. /\ Requests \subseteq Handlers /\ Lifespan \in Handlers
        /\ Lifespan \notin Requests
    BY ConstantsAssumption DEF Handlers
  <1>1. StartingIsRestoring
    BY DEF Ownership
  <1>2. CASE running = "starting"
    <2>1. /\ \A h \in Requests : req[h].pc = "idle" /\ req[h].op = "idle"
          /\ req[Lifespan].op = "restore" /\ req[Lifespan].pc = "opening"
          /\ registry # None /\ auto_reconnect[registry]
          /\ \A h \in Requests : req[h] = IdleReq
      BY <1>1, <1>2 DEF StartingIsRestoring, IdleReq
    <2>2. \A h \in Requests : ~RequestStep(h) /\ ~HandlerResumes(h)
      BY <1>2, <2>1
         DEF RequestStep, HandlerResumes, CreateNetwork, UpdateConnection,
             UpdateFields, DeleteNetwork, ConnectNetwork, DisconnectNetwork,
             Arrives, FinishForget, FinishDelete, FinishConnect, Closed,
             CloseRaises, RequestOpens, RequestOpenFails
    <2>3. CASE Restore
      BY <1>0, <2>1, <2>3
         DEF Restore, RestoreOpens, RestoreOpenFails, OpenFails,
             StartingIsRestoring, IdleReq, TypeOK
    <2>4. ASSUME ~Restore
          PROVE  UNCHANGED <<running, registry, auto_reconnect, req>>
      BY <1>2, <2>1, <2>2, <2>4
         DEF Next, ClientStep, Welcome, ReadLoopEnds, OwnMembershipChanges,
             LoopWakes, LoopGivesUp, LoopDials, LoopReturns, LoopOpens,
             LoopOpenFails, ProcessStep, BootEmpty, BootIdle, BootConnecting,
             ShutdownAtOnce, Shutdown, FinishShutdown, Closed, Crash,
             OutageBegins, OutageEnds, vars
    <2>5. QED
      BY <1>1, <2>3, <2>4 DEF StartingIsRestoring
  <1>3. CASE running # "starting" /\ BootConnecting
    <2>1. registry' # None /\ auto_reconnect'[registry']
      BY <1>3, ConstantsAssumption DEF BootConnecting, TypeOK
    <2>2. \A h \in Handlers : req[h] = IdleReq
      BY <1>3 DEF BootConnecting, Ownership, DownIsReset
    <2>3. /\ req'[Lifespan].op = "restore" /\ req'[Lifespan].pc = "opening"
          /\ \A h \in Requests : req'[h] = IdleReq
      BY <1>0, <1>3, <2>2 DEF BootConnecting, Suspended, TypeOK
    <2>4. running' = "starting"
      BY <1>3 DEF BootConnecting
    <2>5. QED
      BY <2>1, <2>3, <2>4 DEF StartingIsRestoring
  <1>4. CASE running # "starting" /\ ~BootConnecting
    <2>1. req[Lifespan].op # "restore"
      BY <1>1, <1>4 DEF StartingIsRestoring
    <2>2. running' # "starting"
      BY <1>4, <2>1
         DEF Next, RequestStep, HandlerResumes, ClientStep, LoopWakes,
             LoopReturns, ProcessStep, Restore, CreateNetwork,
             UpdateConnection, UpdateFields, DeleteNetwork, ConnectNetwork,
             DisconnectNetwork, FinishForget, FinishDelete, FinishConnect,
             CloseRaises, RequestOpens, RequestOpenFails, Welcome,
             ReadLoopEnds, OwnMembershipChanges, LoopGivesUp, LoopDials,
             LoopOpens, LoopOpenFails, BootEmpty, BootIdle, RestoreOpens,
             RestoreOpenFails, ShutdownAtOnce, Shutdown, FinishShutdown,
             Crash, OutageBegins, OutageEnds, vars
    <2>3. req'[Lifespan].op # "restore"
      <3>1. \A h \in Requests :
               RequestStep(h) \/ HandlerResumes(h) =>
                  req'[Lifespan] = req[Lifespan]
        BY <1>0
           DEF RequestStep, HandlerResumes, CreateNetwork, UpdateConnection,
               UpdateFields, DeleteNetwork, ConnectNetwork, DisconnectNetwork,
               FinishForget, FinishDelete, FinishConnect, CloseRaises,
               RequestOpens, RequestOpenFails, OpenFails, Suspend,
               ForgetClientAndSave, RemoveNetwork, DialFrom, TypeOK
      <3>2. Shutdown => req'[Lifespan].op # "restore"
        BY <1>0 DEF Shutdown, Suspend, Suspended, TypeOK
      <3>3. QED
        BY <1>4, <2>1, <3>1, <3>2
           DEF Next, ClientStep, LoopWakes, LoopReturns, ProcessStep, Restore,
               Welcome, ReadLoopEnds, OwnMembershipChanges, LoopGivesUp,
               LoopDials, LoopOpens, LoopOpenFails, BootEmpty, BootIdle,
               RestoreOpens, RestoreOpenFails, ShutdownAtOnce, FinishShutdown,
               Crash, OutageBegins, OutageEnds, vars
    <2>4. QED
      BY <2>2, <2>3 DEF StartingIsRestoring
  <1>5. QED
    BY <1>2, <1>3, <1>4

LEMMA OwnershipStep == TypeOK /\ Ownership /\ [Next]_vars => Ownership'
  <1> SUFFICES ASSUME TypeOK, Ownership, [Next]_vars
               PROVE  Ownership'
    OBVIOUS
  <1>1. CASE Vanish
    BY <1>1, VanishOwnership
  <1>2. CASE ~Vanish
    BY <1>2, OneOwnerStep, ReportStep, DownStep, StartingStep DEF Ownership
  <1>3. QED
    BY <1>1, <1>2

(* Every dial in progress belongs to one handler or one loop, and its end  *)
(* is reported to the network that holds the client.                       *)
THEOREM OwnershipCorrect == Spec => []Ownership
  BY TypeCorrect, OwnershipInit, OwnershipStep, PTL DEF Spec

-----------------------------------------------------------------------------
(* What the states of a network mean.                                      *)

LEMMA ConnectingStep ==
    ASSUME TypeOK, Ownership, ConnectingIsBacked, [Next]_vars
    PROVE  ConnectingIsBacked'
  <1> USE DEF ConnectingIsBacked
  <1>0. /\ Requests \subseteq Handlers /\ Lifespan \in Handlers
        /\ None \notin NetObjs /\ None \notin Clients
        /\ DialsHaveOneOwner /\ DialsReportToTheirNetwork
    BY ConstantsAssumption DEF Handlers, Ownership
  <1>1. registry # None /\ state[registry] = "connecting" =>
            /\ client[registry] \in Clients
            /\ phase[client[registry]] \in {"opening", "up", "registered"}
    BY DEF TypeOK
  <1>2. ASSUME NEW h \in Requests, CreateNetwork(h)
        PROVE  ConnectingIsBacked'
    BY <1>0, <1>1, <1>2, RecordTypes
       DEF CreateNetwork, TypeOK
  <1>3. ASSUME NEW h \in Requests, UpdateConnection(h)
        PROVE  ConnectingIsBacked'
    BY <1>0, <1>1, <1>3, RecordTypes
       DEF UpdateConnection, Suspend, ForgetClientAndSave, HasSocket,
           PhaseWithoutLoop,
           TypeOK
  <1>4. ASSUME NEW h \in Requests, DisconnectNetwork(h)
        PROVE  ConnectingIsBacked'
    BY <1>0, <1>1, <1>4, RecordTypes
       DEF DisconnectNetwork, Suspend, ForgetClientAndSave, HasSocket,
           PhaseWithoutLoop,
           TypeOK
  <1>5. ASSUME NEW h \in Requests, DeleteNetwork(h)
        PROVE  ConnectingIsBacked'
    BY <1>0, <1>1, <1>5, RecordTypes
       DEF DeleteNetwork, Suspend, RemoveNetwork, HasSocket, PhaseWithoutLoop,
           TypeOK
  <1>6. ASSUME NEW h \in Requests, ConnectNetwork(h)
        PROVE  ConnectingIsBacked'
    BY <1>0, <1>1, <1>6, RecordTypes
       DEF ConnectNetwork, Suspend, DialFrom, ClientInUse, NetInUse, TypeOK
  <1>7. ASSUME NEW h \in Requests, FinishForget(h)
        PROVE  ConnectingIsBacked'
    BY <1>0, <1>1, <1>7, RecordTypes
       DEF FinishForget, Closed, PhaseClosed, ForgetClientAndSave, TypeOK
  <1>8. ASSUME NEW h \in Requests, FinishDelete(h)
        PROVE  ConnectingIsBacked'
    BY <1>0, <1>1, <1>8, RecordTypes
       DEF FinishDelete, RemoveNetwork
  <1>9. ASSUME NEW h \in Requests, FinishConnect(h)
        PROVE  ConnectingIsBacked'
    BY <1>0, <1>1, <1>9, RecordTypes
       DEF FinishConnect, Closed, PhaseClosed, DialFrom, ClientInUse,
           NetInUse, TypeOK
  <1>10. ASSUME NEW h \in Requests, RequestOpens(h)
         PROVE  ConnectingIsBacked'
    BY <1>0, <1>1, <1>10, RecordTypes
       DEF RequestOpens, TypeOK
  <1>11. ASSUME NEW h \in Requests, RequestOpenFails(h)
         PROVE  ConnectingIsBacked'
    BY <1>0, <1>1, <1>11, RecordTypes
       DEF RequestOpenFails, OpenFails, TypeOK,
           DialsHaveOneOwner, DialsReportToTheirNetwork, HandlerDials,
           LoopDialling
  <1>12. ASSUME NEW c \in Clients, Welcome(c)
         PROVE  ConnectingIsBacked'
    BY <1>0, <1>1, <1>12, RecordTypes
       DEF Welcome, TypeOK
  <1>13. ASSUME NEW c \in Clients, ReadLoopEnds(c)
         PROVE  ConnectingIsBacked'
    BY <1>0, <1>1, <1>13, RecordTypes
       DEF ReadLoopEnds, Lost, TypeOK
  <1>14. ASSUME NEW n \in NetObjs, LoopDials(n)
         PROVE  ConnectingIsBacked'
    BY <1>0, <1>1, <1>14, RecordTypes
       DEF LoopDials, MayReconnect, ClientInUse, NetInUse, TypeOK
  <1>15. ASSUME NEW n \in NetObjs, LoopOpens(n)
         PROVE  ConnectingIsBacked'
    BY <1>0, <1>1, <1>15, RecordTypes
       DEF LoopOpens, TypeOK
  <1>16. ASSUME NEW n \in NetObjs, LoopOpenFails(n)
         PROVE  ConnectingIsBacked'
    BY <1>0, <1>1, <1>16, RecordTypes
       DEF LoopOpenFails, TypeOK,
           DialsHaveOneOwner, DialsReportToTheirNetwork, HandlerDials,
           LoopDialling
  <1>17. ASSUME BootIdle
         PROVE  ConnectingIsBacked'
    BY <1>0, <1>1, <1>17, RecordTypes
       DEF BootIdle, Ownership, DownIsReset, TypeOK
  <1>18. ASSUME BootConnecting
         PROVE  ConnectingIsBacked'
    BY <1>0, <1>1, <1>18, RecordTypes
       DEF BootConnecting, TypeOK
  <1>19. ASSUME RestoreOpens
         PROVE  ConnectingIsBacked'
    BY <1>0, <1>1, <1>19, RecordTypes
       DEF RestoreOpens, TypeOK
  <1>20. ASSUME RestoreOpenFails
         PROVE  ConnectingIsBacked'
    BY <1>0, <1>1, <1>20, RecordTypes
       DEF RestoreOpenFails, OpenFails, Ownership,
           StartingIsRestoring, TypeOK, DialsHaveOneOwner,
           DialsReportToTheirNetwork, HandlerDials, LoopDialling
  <1>21. ASSUME Vanish
         PROVE  ConnectingIsBacked'
    BY <1>0, <1>1, <1>21, RecordTypes
       DEF Vanish
  <1>22. ASSUME Shutdown
         PROVE  ConnectingIsBacked'
    BY <1>0, <1>1, <1>22, RecordTypes
       DEF Shutdown, Suspend, HasSocket, PhaseWithoutLoop, TypeOK
  <1>23. ASSUME UNCHANGED <<registry, state, client, phase>>
         PROVE  ConnectingIsBacked'
    BY <1>1, <1>23
  <1>24. QED
    BY <1>2, <1>3, <1>4, <1>5, <1>6, <1>7, <1>8, <1>9, <1>10, <1>11, <1>12,
       <1>13, <1>14, <1>15, <1>16, <1>17, <1>18, <1>19, <1>20, <1>21, <1>22,
       <1>23
       DEF Next, RequestStep, HandlerResumes, ClientStep, LoopWakes,
           LoopReturns, ProcessStep, Restore, UpdateFields,
           CloseRaises, OwnMembershipChanges, LoopGivesUp, BootEmpty,
           ShutdownAtOnce, FinishShutdown, Crash, OutageBegins, OutageEnds,
           vars

(* A network that answers "connecting" has a client that is dialling or up.*)
THEOREM ConnectingCorrect == Spec => []ConnectingIsBacked
  <1>1. Init => ConnectingIsBacked
    BY DEF Init, ConnectingIsBacked
  <1>2. QED
    BY <1>1, ConnectingStep, TypeCorrect, OwnershipCorrect, PTL DEF Spec

LEMMA ConnectedStep ==
    ASSUME TypeOK, Ownership, ConnectedIsBacked, [Next]_vars
    PROVE  ConnectedIsBacked'
  <1> USE DEF ConnectedIsBacked
  <1>0. /\ Requests \subseteq Handlers /\ Lifespan \in Handlers
        /\ None \notin NetObjs /\ None \notin Clients
        /\ DialsHaveOneOwner
    BY ConstantsAssumption DEF Handlers, Ownership
  <1>1. registry # None /\ state[registry] = "connected" =>
            \E c \in Clients : phase[c] = "registered"
    OBVIOUS
  <1>2. \A n \in NetObjs, c \in Clients :
           phase[c] = "registered" => PhaseWithoutLoop(n)[c] = "registered"
    <2>1. \A n \in NetObjs, c \in Clients :
             phase[c] = "registered" => loop[n].client # c
      BY <1>0, RecordTypes
         DEF DialsHaveOneOwner, LoopDialling, IdleLoop, SleepingLoop
    <2>2. QED
      BY <2>1 DEF PhaseWithoutLoop
  <1>3. ASSUME NEW h \in Requests, CreateNetwork(h)
        PROVE  ConnectedIsBacked'
    BY <1>0, <1>1, <1>3, <1>2
       DEF CreateNetwork, TypeOK
  <1>4. ASSUME NEW h \in Requests, UpdateConnection(h)
        PROVE  ConnectedIsBacked'
    BY <1>0, <1>1, <1>4, <1>2
       DEF UpdateConnection, Suspend, ForgetClientAndSave, TypeOK
  <1>5. ASSUME NEW h \in Requests, DisconnectNetwork(h)
        PROVE  ConnectedIsBacked'
    BY <1>0, <1>1, <1>5, <1>2
       DEF DisconnectNetwork, Suspend, ForgetClientAndSave, TypeOK
  <1>6. ASSUME NEW h \in Requests, DeleteNetwork(h)
        PROVE  ConnectedIsBacked'
    BY <1>0, <1>1, <1>6, <1>2
       DEF DeleteNetwork, Suspend, RemoveNetwork, TypeOK
  <1>7. ASSUME NEW h \in Requests, ConnectNetwork(h)
        PROVE  ConnectedIsBacked'
    BY <1>0, <1>1, <1>7, <1>2
       DEF ConnectNetwork, Suspend, DialFrom, ClientInUse, Live, TypeOK
  <1>8. ASSUME NEW h \in Requests, FinishForget(h)
        PROVE  ConnectedIsBacked'
    BY <1>0, <1>1, <1>8, RecordTypes
       DEF FinishForget, Closed, PhaseClosed, ForgetClientAndSave, TypeOK
  <1>9. ASSUME NEW h \in Requests, FinishDelete(h)
        PROVE  ConnectedIsBacked'
    BY <1>0, <1>1, <1>9, <1>2
       DEF FinishDelete, RemoveNetwork
  <1>10. ASSUME NEW h \in Requests, FinishConnect(h)
         PROVE  ConnectedIsBacked'
    BY <1>0, <1>1, <1>10, RecordTypes
       DEF FinishConnect, Closed, PhaseClosed, DialFrom, ClientInUse,
           Live, TypeOK
  <1>11. ASSUME NEW h \in Requests, RequestOpens(h)
         PROVE  ConnectedIsBacked'
    BY <1>0, <1>1, <1>11, RecordTypes
       DEF RequestOpens, TypeOK, DialsHaveOneOwner, HandlerDials, LoopDialling
  <1>12. ASSUME NEW h \in Requests, RequestOpenFails(h)
         PROVE  ConnectedIsBacked'
    BY <1>0, <1>1, <1>12, RecordTypes
       DEF RequestOpenFails, OpenFails, TypeOK, DialsHaveOneOwner,
           HandlerDials, LoopDialling
  <1>13. ASSUME NEW c \in Clients, Welcome(c)
         PROVE  ConnectedIsBacked'
    BY <1>0, <1>1, <1>13, <1>2
       DEF Welcome, TypeOK
  <1>14. ASSUME NEW c \in Clients, ReadLoopEnds(c)
         PROVE  ConnectedIsBacked'
    BY <1>0, <1>1, <1>14, <1>2
       DEF ReadLoopEnds, Lost, TypeOK
  <1>15. ASSUME NEW n \in NetObjs, LoopDials(n)
         PROVE  ConnectedIsBacked'
    BY <1>0, <1>1, <1>15, <1>2
       DEF LoopDials, MayReconnect, TypeOK
  <1>16. ASSUME NEW n \in NetObjs, LoopOpens(n)
         PROVE  ConnectedIsBacked'
    BY <1>0, <1>1, <1>16, RecordTypes
       DEF LoopOpens, TypeOK, DialsHaveOneOwner, HandlerDials, LoopDialling
  <1>17. ASSUME NEW n \in NetObjs, LoopOpenFails(n)
         PROVE  ConnectedIsBacked'
    BY <1>0, <1>1, <1>17, RecordTypes
       DEF LoopOpenFails, TypeOK, DialsHaveOneOwner, HandlerDials, LoopDialling
  <1>18. ASSUME BootIdle
         PROVE  ConnectedIsBacked'
    BY <1>0, <1>1, <1>18, <1>2
       DEF BootIdle, Ownership, DownIsReset, TypeOK
  <1>19. ASSUME BootConnecting
         PROVE  ConnectedIsBacked'
    BY <1>0, <1>1, <1>19, <1>2
       DEF BootConnecting, TypeOK
  <1>20. ASSUME RestoreOpens
         PROVE  ConnectedIsBacked'
    BY <1>0, <1>1, <1>20, RecordTypes
       DEF RestoreOpens, Ownership, StartingIsRestoring, TypeOK,
           DialsHaveOneOwner, HandlerDials, LoopDialling
  <1>21. ASSUME RestoreOpenFails
         PROVE  ConnectedIsBacked'
    BY <1>0, <1>1, <1>21, RecordTypes
       DEF RestoreOpenFails, OpenFails, Ownership,
           StartingIsRestoring, TypeOK, DialsHaveOneOwner, HandlerDials,
           LoopDialling
  <1>22. ASSUME Vanish
         PROVE  ConnectedIsBacked'
    BY <1>0, <1>1, <1>22, <1>2
       DEF Vanish
  <1>23. ASSUME Shutdown
         PROVE  ConnectedIsBacked'
    BY <1>0, <1>1, <1>23, <1>2
       DEF Shutdown, Suspend, TypeOK
  <1>24. ASSUME UNCHANGED <<registry, state, phase>>
         PROVE  ConnectedIsBacked'
    BY <1>1, <1>24
  <1>25. QED
    BY <1>3, <1>4, <1>5, <1>6, <1>7, <1>8, <1>9, <1>10, <1>11, <1>12, <1>13,
       <1>14, <1>15, <1>16, <1>17, <1>18, <1>19, <1>20, <1>21, <1>22, <1>23,
       <1>24
       DEF Next, RequestStep, HandlerResumes, ClientStep, LoopWakes,
           LoopReturns, ProcessStep, Restore, UpdateFields,
           CloseRaises, OwnMembershipChanges, LoopGivesUp, BootEmpty,
           ShutdownAtOnce, FinishShutdown, Crash, OutageBegins, OutageEnds,
           vars

(* A network that answers "connected" has a connection the server welcomed.*)
THEOREM ConnectedCorrect == Spec => []ConnectedIsBacked
  <1>1. Init => ConnectedIsBacked
    BY DEF Init, ConnectedIsBacked
  <1>2. QED
    BY <1>1, ConnectedStep, TypeCorrect, OwnershipCorrect, PTL DEF Spec

LEMMA BackoffStep ==
    ASSUME TypeOK, Ownership, BackoffReset, [Next]_vars
    PROVE  BackoffReset'
  <1> USE DEF BackoffReset
  <1>0. Requests \subseteq Handlers /\ Lifespan \in Handlers
        /\ None \notin NetObjs
    BY ConstantsAssumption DEF Handlers
  <1>1. registry # None /\ state[registry] = "connected" =>
            reconnect_delay[registry] = 1
    OBVIOUS
  <1>2. ASSUME NEW h \in Requests, CreateNetwork(h)
        PROVE  BackoffReset'
    BY <1>0, <1>1, <1>2
       DEF CreateNetwork, TypeOK
  <1>3. ASSUME NEW h \in Requests, UpdateConnection(h)
        PROVE  BackoffReset'
    BY <1>0, <1>1, <1>3
       DEF UpdateConnection, Suspend, ForgetClientAndSave, TypeOK
  <1>4. ASSUME NEW h \in Requests, DisconnectNetwork(h)
        PROVE  BackoffReset'
    BY <1>0, <1>1, <1>4
       DEF DisconnectNetwork, Suspend, ForgetClientAndSave, TypeOK
  <1>5. ASSUME NEW h \in Requests, DeleteNetwork(h)
        PROVE  BackoffReset'
    BY <1>0, <1>1, <1>5
       DEF DeleteNetwork, Suspend, RemoveNetwork, TypeOK
  <1>6. ASSUME NEW h \in Requests, ConnectNetwork(h)
        PROVE  BackoffReset'
    BY <1>0, <1>1, <1>6
       DEF ConnectNetwork, Suspend, DialFrom, DelayReset, TypeOK
  <1>7. ASSUME NEW h \in Requests, FinishForget(h)
        PROVE  BackoffReset'
    BY <1>0, <1>1, <1>7
       DEF FinishForget, ForgetClientAndSave, TypeOK
  <1>8. ASSUME NEW h \in Requests, FinishDelete(h)
        PROVE  BackoffReset'
    BY <1>0, <1>1, <1>8
       DEF FinishDelete, RemoveNetwork
  <1>9. ASSUME NEW h \in Requests, FinishConnect(h)
        PROVE  BackoffReset'
    BY <1>0, <1>1, <1>9, RecordTypes
       DEF FinishConnect, Closed, DialFrom, DelayReset, TypeOK
  <1>10. ASSUME NEW h \in Requests, RequestOpenFails(h)
         PROVE  BackoffReset'
    BY <1>0, <1>1, <1>10
       DEF RequestOpenFails, OpenFails, TypeOK
  <1>11. ASSUME NEW c \in Clients, Welcome(c)
         PROVE  BackoffReset'
    BY <1>0, <1>1, <1>11
       DEF Welcome, DelayReset, TypeOK
  <1>12. ASSUME NEW c \in Clients, ReadLoopEnds(c)
         PROVE  BackoffReset'
    BY <1>0, <1>1, <1>12
       DEF ReadLoopEnds, Lost, TypeOK
  <1>13. ASSUME NEW n \in NetObjs, LoopDials(n)
         PROVE  BackoffReset'
    BY <1>0, <1>1, <1>13
       DEF LoopDials, MayReconnect, TypeOK
  <1>14. ASSUME NEW n \in NetObjs, LoopOpenFails(n)
         PROVE  BackoffReset'
    BY <1>0, <1>1, <1>14, RecordTypes
       DEF LoopOpenFails, TypeOK
  <1>15. ASSUME BootIdle
         PROVE  BackoffReset'
    BY <1>0, <1>1, <1>15
       DEF BootIdle, Ownership, DownIsReset, TypeOK
  <1>16. ASSUME BootConnecting
         PROVE  BackoffReset'
    BY <1>0, <1>1, <1>16
       DEF BootConnecting, TypeOK
  <1>17. ASSUME RestoreOpenFails
         PROVE  BackoffReset'
    BY <1>0, <1>1, <1>17
       DEF RestoreOpenFails, OpenFails, TypeOK
  <1>18. ASSUME Vanish
         PROVE  BackoffReset'
    BY <1>0, <1>1, <1>18
       DEF Vanish
  <1>19. ASSUME Shutdown
         PROVE  BackoffReset'
    BY <1>0, <1>1, <1>19
       DEF Shutdown, Suspend, TypeOK
  <1>20. ASSUME UNCHANGED <<registry, state, reconnect_delay>>
         PROVE  BackoffReset'
    BY <1>1, <1>20
  <1>21. QED
    BY <1>2, <1>3, <1>4, <1>5, <1>6, <1>7, <1>8, <1>9, <1>10, <1>11, <1>12,
       <1>13, <1>14, <1>15, <1>16, <1>17, <1>18, <1>19, <1>20
       DEF Next, RequestStep, HandlerResumes, ClientStep, LoopWakes,
           LoopReturns, ProcessStep, Restore, UpdateFields,
           CloseRaises, RequestOpens, OwnMembershipChanges, LoopGivesUp,
           LoopOpens, BootEmpty, RestoreOpens, ShutdownAtOnce, FinishShutdown,
           Crash, OutageBegins, OutageEnds, vars

(* A network that is connected has the shortest delay before its next dial.*)
THEOREM BackoffCorrect == Spec => []BackoffReset
  <1>1. Init => BackoffReset
    BY DEF Init, BackoffReset
  <1>2. QED
    BY <1>1, BackoffStep, TypeCorrect, OwnershipCorrect, PTL DEF Spec

-----------------------------------------------------------------------------
(* Reconnection, of a process whose storage never fails.                   *)

LEMMA StorageStep ==
    ASSUME "outage" \notin Inputs, dbUp, [Next]_vars
    PROVE  dbUp'
  BY DEF Next, RequestStep, HandlerResumes, ClientStep, LoopWakes,
         LoopReturns, ProcessStep, Restore, CreateNetwork, UpdateConnection,
         UpdateFields, DeleteNetwork, ConnectNetwork, DisconnectNetwork,
         FinishForget, FinishDelete, FinishConnect, CloseRaises,
         RequestOpens, RequestOpenFails, Welcome, ReadLoopEnds,
         OwnMembershipChanges, LoopGivesUp, LoopDials, LoopOpens,
         LoopOpenFails, BootEmpty, BootIdle, BootConnecting, RestoreOpens,
         RestoreOpenFails, ShutdownAtOnce, Shutdown, FinishShutdown, Crash,
         Vanish, OutageBegins, OutageEnds, vars

LEMMA ReconnectStep ==
    ASSUME TypeOK, Ownership, dbUp, LoopHasReason, ReconnectPending,
           [Next]_vars
    PROVE  LoopHasReason' /\ ReconnectPending'
  <1> DEFINE Good == LoopHasReason /\ ReconnectPending
  <1> USE DEF LoopHasReason, ReconnectPending, LostConnection, LoopDialling
  <1>0. /\ Requests \subseteq Handlers /\ Lifespan \in Handlers
        /\ None \notin NetObjs /\ None \notin Clients
        /\ DialsReportToTheirNetwork /\ dbUp
        /\ IdleLoop.pc = "idle" /\ SleepingLoop.pc = "sleep"
        /\ IdleLoop # SleepingLoop
        /\ \A n \in NetObjs, c \in Clients : OpeningLoop(n, c).pc = "open"
    BY ConstantsAssumption
       DEF Handlers, Ownership, IdleLoop, SleepingLoop, OpeningLoop
  <1>1. /\ registry # None =>
             /\ loop[registry] # IdleLoop => auto_reconnect[registry]
             /\ loop[registry].pc = "open" /\ state[registry] = "disconnected"
                   => client[registry] = None
             /\ /\ auto_reconnect[registry] /\ state[registry] = "disconnected"
                /\ client[registry] # None
                => loop[registry] # IdleLoop
    BY DEF TypeOK
  <1>2. ASSUME NEW h \in Requests, CreateNetwork(h)
        PROVE  Good'
    BY <1>0, <1>1, <1>2, RecordTypes
       DEF CreateNetwork, NetInUse, TypeOK
  <1>3. ASSUME NEW h \in Requests, UpdateConnection(h)
        PROVE  Good'
    BY <1>0, <1>1, <1>3, RecordTypes
       DEF UpdateConnection, Suspend, ForgetClientAndSave, LoopsWithout, TypeOK
  <1>4. ASSUME NEW h \in Requests, DisconnectNetwork(h)
        PROVE  Good'
    BY <1>0, <1>1, <1>4, RecordTypes
       DEF DisconnectNetwork, Suspend, ForgetClientAndSave, LoopsWithout,
           TypeOK
  <1>5. ASSUME NEW h \in Requests, DeleteNetwork(h)
        PROVE  Good'
    BY <1>0, <1>1, <1>5, RecordTypes
       DEF DeleteNetwork, Suspend, RemoveNetwork, LoopsWithout, TypeOK
  <1>6. ASSUME NEW h \in Requests, ConnectNetwork(h)
        PROVE  Good'
    BY <1>0, <1>1, <1>6, RecordTypes
       DEF ConnectNetwork, Suspend, DialFrom, TypeOK
  <1>7. ASSUME NEW h \in Requests, FinishForget(h)
        PROVE  Good'
    BY <1>0, <1>1, <1>7, RecordTypes
       DEF FinishForget, Closed, ForgetClientAndSave, TypeOK
  <1>8. ASSUME NEW h \in Requests, FinishDelete(h)
        PROVE  Good'
    BY <1>0, <1>1, <1>8, RecordTypes
       DEF FinishDelete, RemoveNetwork, TypeOK
  <1>9. ASSUME NEW h \in Requests, FinishConnect(h)
        PROVE  Good'
    BY <1>0, <1>1, <1>9, RecordTypes
       DEF FinishConnect, Closed, DialFrom, TypeOK
  <1>10. ASSUME NEW h \in Requests, RequestOpenFails(h)
         PROVE  Good'
    BY <1>0, <1>1, <1>10, RecordTypes
       DEF RequestOpenFails, OpenFails, TypeOK
  <1>11. ASSUME NEW c \in Clients, Welcome(c)
         PROVE  Good'
    BY <1>0, <1>1, <1>11, RecordTypes
       DEF Welcome, TypeOK
  <1>12. ASSUME NEW c \in Clients, ReadLoopEnds(c)
         PROVE  Good'
    BY <1>0, <1>1, <1>12, RecordTypes
       DEF ReadLoopEnds, Lost, LoopsRestarted, TypeOK
  <1>13. ASSUME NEW n \in NetObjs, LoopGivesUp(n)
         PROVE  Good'
    BY <1>0, <1>1, <1>13, RecordTypes
       DEF LoopGivesUp, MayReconnect, LoopsWithout, TypeOK
  <1>14. ASSUME NEW n \in NetObjs, LoopDials(n)
         PROVE  Good'
    BY <1>0, <1>1, <1>14, RecordTypes
       DEF LoopDials, MayReconnect, TypeOK
  <1>15. ASSUME NEW n \in NetObjs, LoopOpens(n)
         PROVE  Good'
    BY <1>0, <1>1, <1>15, RecordTypes
       DEF LoopOpens, LoopsWithout, TypeOK
  <1>16. ASSUME NEW n \in NetObjs, LoopOpenFails(n)
         PROVE  Good'
    BY <1>0, <1>1, <1>16, RecordTypes
       DEF LoopOpenFails, MayReconnect, LoopsWithout, LoopsRestarted,
           DialsReportToTheirNetwork, LoopDialling, TypeOK
  <1>17. ASSUME BootIdle
         PROVE  Good'
    <2>1. /\ registry' \in NetObjs
          /\ \A n \in NetObjs : loop'[n] = IdleLoop /\ ~auto_reconnect'[n]
      BY <1>17 DEF BootIdle, Ownership, DownIsReset
    <2>2. QED
      BY <1>0, <2>1
  <1>18. ASSUME BootConnecting
         PROVE  Good'
    <2>1. /\ registry' \in NetObjs
          /\ \A n \in NetObjs : loop'[n] = IdleLoop
      BY <1>18 DEF BootConnecting, Ownership, DownIsReset
    <2>2. state'[registry'] = "connecting"
      BY <1>18 DEF BootConnecting, TypeOK
    <2>3. QED
      BY <1>0, <2>1, <2>2
  <1>19. ASSUME RestoreOpens
         PROVE  Good'
    BY <1>0, <1>1, <1>19, RecordTypes
       DEF RestoreOpens, TypeOK
  <1>20. ASSUME RestoreOpenFails
         PROVE  Good'
    BY <1>0, <1>1, <1>20, RecordTypes
       DEF RestoreOpenFails, OpenFails, LoopsRestarted, Ownership,
           StartingIsRestoring, TypeOK
  <1>21. ASSUME Vanish
         PROVE  Good'
    BY <1>0, <1>1, <1>21, RecordTypes
       DEF Vanish
  <1>22. ASSUME Shutdown
         PROVE  Good'
    BY <1>0, <1>1, <1>22, RecordTypes
       DEF Shutdown, Suspend, LoopsWithout, TypeOK
  <1>23. ASSUME UNCHANGED <<registry, state, client, auto_reconnect, loop>>
         PROVE  Good'
    BY <1>1, <1>23
  <1>24. QED
    BY <1>2, <1>3, <1>4, <1>5, <1>6, <1>7, <1>8, <1>9, <1>10, <1>11, <1>12,
       <1>13, <1>14, <1>15, <1>16, <1>17, <1>18, <1>19, <1>20, <1>21, <1>22,
       <1>23
       DEF Next, RequestStep, HandlerResumes, ClientStep, LoopWakes,
           LoopReturns, ProcessStep, Restore, UpdateFields,
           CloseRaises, RequestOpens, OwnMembershipChanges, BootEmpty,
           ShutdownAtOnce, FinishShutdown, Crash, OutageBegins, OutageEnds,
           vars

(* A connection lost while auto_reconnect was set has a loop at work on it.*)
THEOREM ReconnectCorrect ==
    ASSUME "outage" \notin Inputs
    PROVE  Spec => []ReconnectPending
  <1>1. Init => dbUp /\ LoopHasReason /\ ReconnectPending
    BY ConstantsAssumption
       DEF Init, LoopHasReason, ReconnectPending, LostConnection
  <1>2. dbUp /\ [Next]_vars => dbUp'
    BY StorageStep
  <1>3. TypeOK /\ Ownership /\ dbUp /\ LoopHasReason /\ ReconnectPending
           /\ [Next]_vars => LoopHasReason' /\ ReconnectPending'
    BY ReconnectStep
  <1>4. QED
    BY <1>1, <1>2, <1>3, TypeCorrect, OwnershipCorrect, PTL DEF Spec

(***************************************************************************)
(* A reconnect loop runs only for a network whose auto_reconnect is set,   *)
(* and while it dials nobody else leaves a lost client behind, which its   *)
(* result would hide (state.py, _reconnect_loop).  As in ReconnectCorrect, *)
(* the storage must not fail.                                              *)
(***************************************************************************)
THEOREM LoopReasonCorrect ==
    ASSUME "outage" \notin Inputs
    PROVE  Spec => []LoopHasReason
  <1>1. Init => dbUp /\ LoopHasReason /\ ReconnectPending
    BY ConstantsAssumption
       DEF Init, LoopHasReason, ReconnectPending, LostConnection
  <1>2. dbUp /\ [Next]_vars => dbUp'
    BY StorageStep
  <1>3. TypeOK /\ Ownership /\ dbUp /\ LoopHasReason /\ ReconnectPending
           /\ [Next]_vars => LoopHasReason' /\ ReconnectPending'
    BY ReconnectStep
  <1>4. QED
    BY <1>1, <1>2, <1>3, TypeCorrect, OwnershipCorrect, PTL DEF Spec

-----------------------------------------------------------------------------
(* One connection at a time, and the life that NetworkView promises, when  *)
(* no request connects: the start of the process and the reconnect loops   *)
(* do (app.py, state.py).                                                  *)

Active(c) == phase[c] \in {"opening", "up", "registered"}

NoRequestDials ==
    /\ \A h \in Requests : req[h].op # "connect" /\ req[h].pc # "opening"
    /\ req[Lifespan].pc = "opening" => req[Lifespan].op = "restore"

(* Loops run for the network that is there, never for a deleted one, and   *)
(* only while it is to be reconnected.                                     *)
LoopsAreCurrent ==
    \A n \in NetObjs :
        loop[n] # IdleLoop => n = registry /\ auto_reconnect[registry]

(* A handler that closes a client has turned the reconnection off, and the *)
(* network has got no other client since.                                  *)
ClosingIsFinal ==
    \A h \in Handlers : req[h].pc = "closing" /\ registry # None =>
        /\ ~auto_reconnect[registry]
        /\ client[registry] \in {None, req[h].client}

(* The client of the network is the only one with a connection, or with a  *)
(* dial, and the state of the network tells how far it has come.           *)
ActiveIsAttached ==
    \A c \in Clients : Active(c) =>
        /\ registry # None /\ client[registry] = c
        /\ state[registry] =
              IF phase[c] = "registered" THEN "connected" ELSE "connecting"

(* A dial belongs to the loop of the network or to the start.              *)
OpeningIsOwned ==
    \A c \in Clients : phase[c] = "opening" =>
        \/ loop[registry].pc = "open" /\ loop[registry].client = c
        \/ req[Lifespan].pc = "opening" /\ req[Lifespan].client = c

SleepingIsAlone ==
    \A n \in NetObjs, c \in Clients : loop[n].pc = "sleep" => ~Active(c)

SoleConnection ==
    /\ NoRequestDials
    /\ LoopsAreCurrent
    /\ ClosingIsFinal
    /\ ActiveIsAttached
    /\ OpeningIsOwned
    /\ SleepingIsAlone

LEMMA SoleInit == Init => SoleConnection
  BY ConstantsAssumption
     DEF Init, SoleConnection, NoRequestDials, LoopsAreCurrent,
         ClosingIsFinal, ActiveIsAttached, OpeningIsOwned, SleepingIsAlone,
         Active, IdleLoop, IdleReq, Handlers

(* After the end of the process, or of the closing of the only connection, *)
(* there is none.                                                          *)
LEMMA VanishSole == ASSUME Vanish PROVE SoleConnection'
  BY ConstantsAssumption
     DEF Vanish, SoleConnection, NoRequestDials, LoopsAreCurrent,
         ClosingIsFinal, ActiveIsAttached, OpeningIsOwned, SleepingIsAlone,
         Active, IdleLoop, IdleReq, Handlers

LEMMA ClosedLeavesNone ==
    ASSUME TypeOK, SoleConnection, NEW h \in Handlers, Closed(h),
           registry # None
    PROVE  \A c \in Clients : ~Active(c)
  <1>1. req[h].client \in Clients /\ None \notin Clients
    BY RecordTypes, ConstantsAssumption DEF Closed
  <1>2. client[registry] \in {None, req[h].client}
    BY DEF SoleConnection, ClosingIsFinal, Closed
  <1>3. QED
    BY <1>1, <1>2 DEF SoleConnection, ActiveIsAttached, Active, Closed

(* Cancelling the loop of a network without a socket leaves no connection. *)
LEMMA CancelLeavesNone ==
    ASSUME TypeOK, Ownership, SoleConnection, running = "serving",
           registry # None
    PROVE  \A c \in Clients :
              PhaseWithoutLoop(registry)[c]
                    \in {"opening", "up", "registered"} =>
                 /\ HasSocket(client[registry], PhaseWithoutLoop(registry))
                 /\ PhaseWithoutLoop(registry)[c] = phase[c]
                 /\ phase[c] \in {"up", "registered"}
  <1> SUFFICES ASSUME NEW c \in Clients,
                      PhaseWithoutLoop(registry)[c]
                         \in {"opening", "up", "registered"}
               PROVE  /\ HasSocket(client[registry],
                                   PhaseWithoutLoop(registry))
                      /\ PhaseWithoutLoop(registry)[c] = phase[c]
                      /\ phase[c] \in {"up", "registered"}
    OBVIOUS
  <1>1. PhaseWithoutLoop(registry)[c] = phase[c] /\ loop[registry].client # c
    BY DEF PhaseWithoutLoop
  <1>2. req[Lifespan].pc # "opening"
    BY DEF SoleConnection, NoRequestDials, Ownership, StartingIsRestoring
  <1>3. phase[c] # "opening"
    BY <1>1, <1>2 DEF SoleConnection, OpeningIsOwned
  <1>4. client[registry] = c
    BY <1>1 DEF SoleConnection, ActiveIsAttached, Active
  <1>5. c # None
    BY ConstantsAssumption
  <1>6. QED
    BY <1>1, <1>3, <1>4, <1>5 DEF HasSocket

LEMMA SoleStep ==
    ASSUME TypeOK, Ownership, SoleConnection, [Next]_vars,
           "connect" \notin Inputs
    PROVE  SoleConnection'
  <1> DEFINE Parts == /\ NoRequestDials' /\ LoopsAreCurrent'
                      /\ ClosingIsFinal' /\ ActiveIsAttached'
                      /\ OpeningIsOwned' /\ SleepingIsAlone'
  <1> SUFFICES Parts
    BY DEF SoleConnection
  <1> USE DEF NoRequestDials, LoopsAreCurrent, ClosingIsFinal,
              ActiveIsAttached, OpeningIsOwned, SleepingIsAlone, Active
  <1>0. /\ Requests \subseteq Handlers /\ Lifespan \in Handlers
        /\ Lifespan \notin Requests
        /\ None \notin NetObjs /\ None \notin Clients
        /\ NoRequestDials /\ LoopsAreCurrent /\ ClosingIsFinal
        /\ ActiveIsAttached /\ OpeningIsOwned /\ SleepingIsAlone
        /\ registry \in NetObjs \cup {None}
        /\ \A h \in Handlers : IdleReq.pc = "idle" /\ IdleReq.op = "idle"
        /\ IdleLoop.pc = "idle" /\ SleepingLoop.pc = "sleep"
    BY ConstantsAssumption
       DEF Handlers, SoleConnection, TypeOK, IdleReq, IdleLoop, SleepingLoop
  <1>1. ASSUME NEW h \in Requests, CreateNetwork(h)
        PROVE  Parts
    BY <1>0, <1>1, RecordTypes DEF CreateNetwork, TypeOK
  <1>2. ASSUME NEW h \in Requests,
               UpdateConnection(h) \/ DisconnectNetwork(h) \/ DeleteNetwork(h)
        PROVE  Parts
    <2> DEFINE n == registry
               ph == PhaseWithoutLoop(n)
    <2>1. /\ n \in NetObjs /\ running = "serving" /\ req[h] = IdleReq
          /\ auto_reconnect' = [auto_reconnect EXCEPT ![n] = FALSE]
          /\ loop' = LoopsWithout(n)
          /\ phase' = ph
      BY <1>0, <1>2
         DEF UpdateConnection, DisconnectNetwork, DeleteNetwork, Arrives,
             Suspend, ForgetClientAndSave, RemoveNetwork
    <2>2. /\ \A c \in Clients : Active(c)' =>
                /\ HasSocket(client[n], ph)
                /\ phase'[c] = phase[c]
                /\ phase[c] \in {"up", "registered"}
          /\ req[Lifespan].pc # "opening"
      BY <1>0, <2>1, CancelLeavesNone
         DEF Ownership, StartingIsRestoring
    <2>3. \A m \in NetObjs : loop'[m] = IdleLoop
      BY <1>0, <2>1 DEF LoopsWithout, TypeOK
    <2>4. /\ ~auto_reconnect'[n]
          /\ \/ /\ HasSocket(client[n], ph)
                /\ \E op \in {"update", "disconnect", "delete"} :
                      req' = [req EXCEPT ![h] =
                                 Suspended(op, "closing", n, client[n])]
                /\ UNCHANGED <<registry, state, client>>
             \/ /\ ~HasSocket(client[n], ph)
                /\ req' = [req EXCEPT ![h] = IdleReq]
                /\ \/ registry' = None
                   \/ /\ UNCHANGED registry
                      /\ client' = [client EXCEPT ![n] = None]
      BY <1>2, <2>1
         DEF UpdateConnection, DisconnectNetwork, DeleteNetwork, Suspend,
             ForgetClientAndSave, RemoveNetwork, TypeOK
    <2>5. CASE /\ HasSocket(client[n], ph)
               /\ \E op \in {"update", "disconnect", "delete"} :
                     req' = [req EXCEPT ![h] =
                                Suspended(op, "closing", n, client[n])]
               /\ UNCHANGED <<registry, state, client>>
      BY <1>0, <2>1, <2>2, <2>3, <2>4, <2>5 DEF Suspended, TypeOK
    <2>6. CASE /\ ~HasSocket(client[n], ph)
               /\ req' = [req EXCEPT ![h] = IdleReq]
               /\ \/ registry' = None
                  \/ /\ UNCHANGED registry
                     /\ client' = [client EXCEPT ![n] = None]
      BY <1>0, <2>1, <2>2, <2>3, <2>4, <2>6 DEF TypeOK
    <2>7. QED
      BY <2>4, <2>5, <2>6
  <1>3. ASSUME NEW h \in Requests, ConnectNetwork(h)
        PROVE  Parts
    BY <1>3 DEF ConnectNetwork, Arrives
  <1>4. ASSUME NEW h \in Requests, FinishForget(h)
        PROVE  Parts
    <2>1. \A c \in Clients : ~Active(c)'
      BY <1>0, <1>4, ClosedLeavesNone, RecordTypes
         DEF FinishForget, ForgetClientAndSave, PhaseClosed, Closed, TypeOK
    <2>2. QED
      BY <1>0, <1>4, <2>1, RecordTypes
         DEF FinishForget, ForgetClientAndSave, PhaseClosed, Closed, TypeOK
  <1>5. ASSUME NEW h \in Requests, FinishDelete(h)
        PROVE  Parts
    <2>1. \A c \in Clients : ~Active(c)'
      BY <1>0, <1>5, ClosedLeavesNone, RecordTypes
         DEF FinishDelete, RemoveNetwork, PhaseClosed, Closed, TypeOK
    <2>2. \A n \in NetObjs : loop[n] = IdleLoop
      BY <1>0, <1>5, RecordTypes DEF FinishDelete, Closed
    <2>3. QED
      BY <1>0, <1>5, <2>1, <2>2, RecordTypes
         DEF FinishDelete, RemoveNetwork, PhaseClosed, Closed, TypeOK
  <1>6. ASSUME NEW h \in Requests, FinishConnect(h)
        PROVE  Parts
    BY <1>0, <1>6 DEF FinishConnect
  <1>7. ASSUME NEW h \in Requests, CloseRaises(h)
        PROVE  Parts
    BY <1>0, <1>7 DEF CloseRaises, TypeOK
  <1>8. ASSUME NEW h \in Requests, RequestOpens(h) \/ RequestOpenFails(h)
        PROVE  Parts
    BY <1>0, <1>8 DEF RequestOpens, RequestOpenFails
  <1>9. ASSUME NEW c \in Clients, Welcome(c)
        PROVE  Parts
    BY <1>0, <1>9 DEF Welcome, TypeOK
  <1>10. ASSUME NEW c \in Clients, ReadLoopEnds(c)
         PROVE  Parts
    <2>1. registry \in NetObjs /\ \A d \in Clients : Active(d) => d = c
      BY <1>0, <1>10 DEF ReadLoopEnds, Live
    <2>2. \A d \in Clients : ~Active(d)'
      BY <1>0, <1>10, <2>1 DEF ReadLoopEnds, PhaseWithoutLoop, TypeOK
    <2>3. QED
      BY <1>0, <1>10, <2>1, <2>2 DEF ReadLoopEnds, LoopsRestarted, TypeOK
  <1>11. ASSUME NEW n \in NetObjs, LoopGivesUp(n)
         PROVE  Parts
    BY <1>0, <1>11 DEF LoopGivesUp, LoopsWithout, TypeOK
  <1>12. ASSUME NEW n \in NetObjs, LoopDials(n)
         PROVE  Parts
    <2>1. n = registry /\ auto_reconnect[n] /\ \A c \in Clients : ~Active(c)
      BY <1>0, <1>12 DEF LoopDials, MayReconnect
    <2>2. PICK c \in Clients :
             /\ client' = [client EXCEPT ![n] = c]
             /\ phase' = [phase EXCEPT ![c] = "opening"]
             /\ loop' = [loop EXCEPT ![n] = OpeningLoop(n, c)]
      BY <1>12, <2>1 DEF LoopDials
    <2>3. /\ state' = [state EXCEPT ![n] = "connecting"]
          /\ UNCHANGED <<registry, auto_reconnect, req>>
      BY <1>12, <2>1 DEF LoopDials
    <2>4. /\ loop'[n].pc = "open" /\ loop'[n].client = c
          /\ \A m \in NetObjs \ {n} : loop'[m] = loop[m]
      BY <2>2 DEF OpeningLoop, TypeOK
    <2>5. QED
      BY <1>0, <2>1, <2>2, <2>3, <2>4 DEF TypeOK
  <1>13. ASSUME NEW n \in NetObjs, LoopOpens(n)
         PROVE  Parts
    BY <1>0, <1>13, RecordTypes
       DEF LoopOpens, LoopsWithout, TypeOK, Ownership, DialsHaveOneOwner,
           LoopDialling
  <1>14. ASSUME NEW n \in NetObjs, LoopOpenFails(n)
         PROVE  Parts
    <2>1. /\ n = registry
          /\ loop[n].client \in Clients
          /\ phase[loop[n].client] = "opening"
          /\ loop[n].net = n
      BY <1>0, <1>14, RecordTypes
         DEF LoopOpenFails, Ownership, DialsHaveOneOwner,
             DialsReportToTheirNetwork, LoopDialling
    <2>2. \A c \in Clients : ~Active(c)'
      BY <1>0, <1>14, <2>1 DEF LoopOpenFails, TypeOK
    <2>3. QED
      BY <1>0, <1>14, <2>1, <2>2
         DEF LoopOpenFails, LoopsRestarted, LoopsWithout, TypeOK
  <1>15. ASSUME BootIdle
         PROVE  Parts
    BY <1>0, <1>15 DEF BootIdle, Ownership, DownIsReset
  <1>16. ASSUME BootConnecting
         PROVE  Parts
    <2>1. /\ \A c \in Clients : phase[c] = "none"
          /\ \A n \in NetObjs : loop[n] = IdleLoop
          /\ \A h \in Handlers : req[h] = IdleReq
      BY <1>16 DEF BootConnecting, Ownership, DownIsReset
    <2>2. QED
      BY <1>0, <1>16, <2>1 DEF BootConnecting, Suspended, TypeOK
  <1>17. ASSUME RestoreOpens \/ RestoreOpenFails
         PROVE  Parts
    <2>1. /\ registry \in NetObjs /\ auto_reconnect[registry]
          /\ req[Lifespan].client \in Clients
          /\ phase[req[Lifespan].client] = "opening"
          /\ client[registry] = req[Lifespan].client
          /\ req[Lifespan].net = registry
      BY <1>0, <1>17, RecordTypes
         DEF RestoreOpens, RestoreOpenFails, Ownership, StartingIsRestoring,
             DialsHaveOneOwner, DialsReportToTheirNetwork, HandlerDials
    <2>2. CASE RestoreOpens
      BY <1>0, <2>1, <2>2 DEF RestoreOpens, TypeOK
    <2>3. CASE RestoreOpenFails
      <3>1. \A c \in Clients : ~Active(c)'
        BY <1>0, <2>1, <2>3 DEF RestoreOpenFails, OpenFails, TypeOK
      <3>2. QED
        BY <1>0, <2>1, <2>3, <3>1
           DEF RestoreOpenFails, OpenFails, LoopsRestarted, TypeOK
    <2>4. QED
      BY <1>17, <2>2, <2>3
  <1>18. ASSUME Vanish
         PROVE  Parts
    BY <1>18, VanishSole DEF SoleConnection
  <1>19. ASSUME Shutdown
         PROVE  Parts
    <2> DEFINE n == registry
    <2>1. /\ n \in NetObjs /\ running = "serving"
          /\ ~auto_reconnect'[n]
          /\ loop' = LoopsWithout(n)
          /\ phase' = PhaseWithoutLoop(n)
          /\ req' = [req EXCEPT ![Lifespan] =
                        Suspended("shutdown", "closing", n, client[n])]
          /\ UNCHANGED <<registry, state, client>>
          /\ \A h \in Handlers : req[h] = IdleReq
      BY <1>0, <1>19 DEF Shutdown, Suspend, TypeOK
    <2>2. \A c \in Clients : Active(c)' =>
             phase'[c] = phase[c] /\ phase[c] \in {"up", "registered"}
      BY <2>1, <1>0, CancelLeavesNone
    <2>3. \A m \in NetObjs : loop'[m] = IdleLoop
      BY <1>0, <2>1 DEF LoopsWithout, TypeOK
    <2>4. QED
      BY <1>0, <2>1, <2>2, <2>3 DEF Suspended, TypeOK
  <1>20. ASSUME UNCHANGED <<registry, state, client, auto_reconnect, loop,
                            phase, req>>
         PROVE  Parts
    BY <1>0, <1>20
  <1>21. QED
    BY <1>1, <1>2, <1>3, <1>4, <1>5, <1>6, <1>7, <1>8, <1>9, <1>10, <1>11,
       <1>12, <1>13, <1>14, <1>15, <1>16, <1>17, <1>18, <1>19, <1>20
       DEF Next, RequestStep, HandlerResumes, ClientStep, LoopWakes,
           LoopReturns, ProcessStep, Restore, UpdateFields,
           OwnMembershipChanges, BootEmpty,
           ShutdownAtOnce, FinishShutdown, Crash, OutageBegins, OutageEnds,
           vars

LEMMA SoleCorrect ==
    ASSUME "connect" \notin Inputs
    PROVE  Spec => []SoleConnection
  <1>1. TypeOK /\ Ownership /\ SoleConnection /\ [Next]_vars
           => SoleConnection'
    BY SoleStep
  <1>2. QED
    BY <1>1, SoleInit, TypeCorrect, OwnershipCorrect, PTL DEF Spec

(***************************************************************************)
(* Without requests that connect, every connection is the client of the    *)
(* network of that moment: deleting, creating and reconnecting, with       *)
(* events that arrive by name, never leave a connection nobody refers to   *)
(* (state.py, _reconnect_loop and handle_irc_event; routes.py).            *)
(***************************************************************************)
THEOREM AttachedCorrect ==
    ASSUME "connect" \notin Inputs
    PROVE  Spec => []EveryConnectionIsAttached
  <1>1. SoleConnection => EveryConnectionIsAttached
    BY DEF SoleConnection, ActiveIsAttached, Active, Live,
           EveryConnectionIsAttached
  <1>2. QED
    BY <1>1, SoleCorrect, PTL

(***************************************************************************)
(* Without requests that connect there are never two connections to the    *)
(* server at a time: a reconnect loop dials only when the last one is gone *)
(* (state.py, _reconnect_loop).                                            *)
(***************************************************************************)
THEOREM OneConnectionCorrect ==
    ASSUME "connect" \notin Inputs
    PROVE  Spec => []AtMostOneConnection
  <1>1. SoleConnection => AtMostOneConnection
    BY DEF SoleConnection, ActiveIsAttached, Active, Live,
           AtMostOneConnection
  <1>2. QED
    BY <1>1, SoleCorrect, PTL

(* What is to be reconnected, or has a connection, is stored as such.      *)
WantedIsSaved ==
    registry # None /\ (auto_reconnect[registry] \/ \E c \in Clients : Active(c))
        => saved = "auto"

LEMMA SavedStep ==
    ASSUME TypeOK, Ownership, SoleConnection, WantedIsSaved, [Next]_vars,
           "connect" \notin Inputs, "patch" \notin Inputs
    PROVE  WantedIsSaved'
  <1> USE DEF WantedIsSaved
  <1>0. /\ Requests \subseteq Handlers /\ Lifespan \in Handlers
        /\ None \notin NetObjs /\ None \notin Clients
        /\ NoRequestDials /\ LoopsAreCurrent /\ ClosingIsFinal
        /\ ActiveIsAttached
        /\ registry \in NetObjs \cup {None}
    BY ConstantsAssumption DEF Handlers, SoleConnection, TypeOK
  <1>1. ASSUME NEW h \in Requests, CreateNetwork(h)
        PROVE  WantedIsSaved'
    BY <1>0, <1>1 DEF CreateNetwork, ActiveIsAttached, Active, TypeOK
  <1>2. ASSUME NEW h \in Requests,
               UpdateConnection(h) \/ DisconnectNetwork(h) \/ DeleteNetwork(h)
        PROVE  WantedIsSaved'
    <2>1. /\ registry \in NetObjs /\ running = "serving"
          /\ auto_reconnect' = [auto_reconnect EXCEPT ![registry] = FALSE]
          /\ phase' = PhaseWithoutLoop(registry)
          /\ \/ /\ HasSocket(client[registry], PhaseWithoutLoop(registry))
                /\ UNCHANGED <<registry, saved>>
             \/ /\ ~HasSocket(client[registry], PhaseWithoutLoop(registry))
                /\ registry' \in {registry, None}
      BY <1>0, <1>2
         DEF UpdateConnection, DisconnectNetwork, DeleteNetwork, Arrives,
             Suspend, ForgetClientAndSave, RemoveNetwork
    <2>2. ~auto_reconnect'[registry]
      BY <2>1 DEF TypeOK
    <2>3. \A c \in Clients : Active(c)' =>
             /\ HasSocket(client[registry], PhaseWithoutLoop(registry))
             /\ Active(c)
      BY <1>0, <2>1, CancelLeavesNone DEF Active
    <2>4. QED
      BY <1>0, <2>1, <2>2, <2>3
  <1>3. ASSUME NEW h \in Requests, FinishForget(h) \/ FinishDelete(h)
        PROVE  WantedIsSaved'
    <2>1. registry # None =>
             /\ ~auto_reconnect[registry]
             /\ \A c \in Clients : ~Active(c)
      BY <1>0, <1>3, ClosedLeavesNone
         DEF FinishForget, FinishDelete, Closed, ClosingIsFinal
    <2>2. /\ phase' = PhaseClosed(h)
          /\ UNCHANGED auto_reconnect
          /\ registry' \in {registry, None}
      BY <1>3 DEF FinishForget, FinishDelete, ForgetClientAndSave,
                  RemoveNetwork
    <2>3. \A c \in Clients : Active(c)' => Active(c)
      BY <2>2 DEF Active, PhaseClosed, TypeOK
    <2>4. QED
      BY <2>1, <2>2, <2>3
  <1>4. ASSUME NEW c \in Clients, Welcome(c)
        PROVE  WantedIsSaved'
    BY <1>0, <1>4 DEF Welcome, Active, TypeOK
  <1>5. ASSUME NEW c \in Clients, ReadLoopEnds(c)
        PROVE  WantedIsSaved'
    BY <1>0, <1>5 DEF ReadLoopEnds, Live, Active, TypeOK
  <1>6. ASSUME NEW c \in Clients, OwnMembershipChanges(c)
        PROVE  WantedIsSaved'
    BY <1>0, <1>6
       DEF OwnMembershipChanges, Stored, ActiveIsAttached, Active
  <1>7. ASSUME NEW n \in NetObjs, LoopDials(n)
        PROVE  WantedIsSaved'
    BY <1>0, <1>7 DEF LoopDials, MayReconnect
  <1>8. ASSUME NEW n \in NetObjs, LoopOpens(n)
        PROVE  WantedIsSaved'
    BY <1>0, <1>8, RecordTypes
       DEF LoopOpens, LoopsAreCurrent, IdleLoop, TypeOK
  <1>9. ASSUME NEW n \in NetObjs, LoopOpenFails(n)
        PROVE  WantedIsSaved'
    BY <1>0, <1>9, RecordTypes DEF LoopOpenFails, Active, TypeOK
  <1>10. ASSUME BootIdle \/ BootEmpty
         PROVE  WantedIsSaved'
    BY <1>0, <1>10 DEF BootIdle, BootEmpty, Ownership, DownIsReset, Active
  <1>11. ASSUME BootConnecting
         PROVE  WantedIsSaved'
    BY <1>11 DEF BootConnecting
  <1>12. ASSUME RestoreOpens \/ RestoreOpenFails
         PROVE  WantedIsSaved'
    BY <1>12
       DEF RestoreOpens, RestoreOpenFails, Ownership, StartingIsRestoring
  <1>13. ASSUME Vanish
         PROVE  WantedIsSaved'
    BY <1>13 DEF Vanish
  <1>14. ASSUME Shutdown
         PROVE  WantedIsSaved'
    <2>1. /\ registry \in NetObjs
          /\ auto_reconnect' = [auto_reconnect EXCEPT ![registry] = FALSE]
          /\ phase' = PhaseWithoutLoop(registry)
          /\ UNCHANGED <<registry, saved>>
      BY <1>0, <1>14 DEF Shutdown, Suspend
    <2>2. \A c \in Clients : Active(c)' => Active(c)
      BY <2>1 DEF Active, PhaseWithoutLoop, TypeOK
    <2>3. QED
      BY <2>1, <2>2 DEF TypeOK
  <1>15. ASSUME UNCHANGED <<registry, auto_reconnect, phase, saved>>
         PROVE  WantedIsSaved'
    BY <1>15 DEF Active
  <1>16. ASSUME NEW h \in Requests,
                \/ ConnectNetwork(h) \/ UpdateFields(h) \/ FinishConnect(h)
                \/ RequestOpens(h) \/ RequestOpenFails(h)
         PROVE  FALSE
    BY <1>0, <1>16
       DEF NoRequestDials, ConnectNetwork, UpdateFields, Arrives,
           FinishConnect, RequestOpens, RequestOpenFails
  <1>17. QED
    BY <1>1, <1>2, <1>3, <1>4, <1>5, <1>6, <1>7, <1>8, <1>9, <1>10, <1>11,
       <1>12, <1>13, <1>14, <1>15, <1>16
       DEF Next, RequestStep, HandlerResumes, ClientStep, LoopWakes,
           LoopReturns, ProcessStep, Restore,
           CloseRaises, LoopGivesUp,
           ShutdownAtOnce, FinishShutdown, Crash, OutageBegins, OutageEnds,
           vars

(***************************************************************************)
(* Without requests that connect and PATCHes of other fields, a network    *)
(* that is connected is stored so that the next start connects it again    *)
(* (state.py, _persist_network; app.py, restore_networks).                 *)
(***************************************************************************)
THEOREM SavedCorrect ==
    ASSUME "connect" \notin Inputs, "patch" \notin Inputs
    PROVE  Spec => []ConnectedIsSavedAsAuto
  <1>1. Init => WantedIsSaved
    BY DEF Init, WantedIsSaved
  <1>2. TypeOK /\ Ownership /\ SoleConnection /\ WantedIsSaved /\ [Next]_vars
           => WantedIsSaved'
    BY SavedStep
  <1>3. ConnectedIsBacked /\ WantedIsSaved => ConnectedIsSavedAsAuto
    BY DEF ConnectedIsBacked, WantedIsSaved, ConnectedIsSavedAsAuto, Active
  <1>4. QED
    BY <1>1, <1>2, <1>3, TypeCorrect, OwnershipCorrect, ConnectedCorrect,
       SoleCorrect, PTL DEF Spec

-----------------------------------------------------------------------------
(* The refinement.                                                         *)

(* A process that is down stays down, unless it is started.                *)
LEMMA DownView ==
    ASSUME running = "down", running' = running
    PROVE  UNCHANGED ViewNow
  BY DEF ViewNow

(* A network that ends up disconnected was lost, or was so before.         *)
LEMMA LostView ==
    ASSUME TypeOK, registry # None,
           UNCHANGED <<running, registry>>,
           state'[registry] = "disconnected"
    PROVE  [View!Next]_ViewNow
  BY DEF TypeOK, NetStates, ViewNow, View!Next, View!Lose

(* Steps that end in "disconnected" or leave the states alone.             *)
LEMMA ForgottenView ==
    ASSUME TypeOK, NEW n \in NetObjs,
           UNCHANGED <<running, registry>>,
           state' = [state EXCEPT ![n] = "disconnected"]
    PROVE  [View!Next]_ViewNow
  <1>1. CASE registry = n
    BY <1>1, LostView, ConstantsAssumption DEF TypeOK
  <1>2. CASE registry # n
    <2>1. registry # None => state'[registry] = state[registry]
      BY <1>2 DEF TypeOK
    <2>2. UNCHANGED ViewNow
      BY <2>1 DEF ViewNow
    <2>3. QED
      BY <2>2
  <1>3. QED
    BY <1>1, <1>2

LEMMA RemovedView ==
    ASSUME TypeOK, UNCHANGED running, registry' = None
    PROVE  [View!Next]_ViewNow
  BY DEF TypeOK, NetStates, ViewNow, View!Next, View!Delete, View!States

LEMMA ViewStep ==
    ASSUME TypeOK, Ownership, ConnectingIsBacked, ConnectedIsBacked,
           SoleConnection, [Next]_vars, "connect" \notin Inputs
    PROVE  [View!Next]_ViewNow
  <1>0. /\ Requests \subseteq Handlers /\ Lifespan \in Handlers
        /\ None \notin NetObjs /\ None \notin Clients
        /\ NoRequestDials /\ LoopsAreCurrent /\ ActiveIsAttached
        /\ SleepingIsAlone
    BY ConstantsAssumption DEF Handlers, SoleConnection
  <1>1. ASSUME NEW h \in Requests, CreateNetwork(h)
        PROVE  [View!Next]_ViewNow
    <2>1. ViewNow = "absent" /\ ViewNow' = "disconnected"
      BY <1>0, <1>1 DEF CreateNetwork, Arrives, ViewNow, TypeOK
    <2>2. QED
      BY <2>1 DEF View!Next, View!Create
  <1>2. ASSUME NEW h \in Requests, UpdateConnection(h) \/ DisconnectNetwork(h)
        PROVE  [View!Next]_ViewNow
    <2>1. UNCHANGED <<running, registry>> /\ registry \in NetObjs
      BY <1>2 DEF UpdateConnection, DisconnectNetwork, Suspend,
                  ForgetClientAndSave, TypeOK
    <2>2. UNCHANGED state \/ state' = [state EXCEPT ![registry] = "disconnected"]
      BY <1>2 DEF UpdateConnection, DisconnectNetwork, Suspend,
                  ForgetClientAndSave
    <2>3. QED
      BY <2>1, <2>2, ForgottenView DEF ViewNow
  <1>3. ASSUME NEW h \in Requests, DeleteNetwork(h)
        PROVE  [View!Next]_ViewNow
    <2>1. UNCHANGED running
      BY <1>3 DEF DeleteNetwork
    <2>2. registry' = None \/ UNCHANGED <<registry, state>>
      BY <1>3 DEF DeleteNetwork, Suspend, RemoveNetwork
    <2>3. QED
      BY <2>1, <2>2, RemovedView DEF ViewNow
  <1>4. ASSUME NEW h \in Requests, FinishForget(h)
        PROVE  [View!Next]_ViewNow
    BY <1>0, <1>4, RecordTypes, ForgottenView
       DEF FinishForget, Closed, ForgetClientAndSave
  <1>5. ASSUME NEW h \in Requests, FinishDelete(h)
        PROVE  [View!Next]_ViewNow
    BY <1>5, RemovedView DEF FinishDelete, RemoveNetwork
  <1>6. ASSUME NEW c \in Clients, Welcome(c)
        PROVE  [View!Next]_ViewNow
    <2>1. registry \in NetObjs /\ state[registry] = "connecting"
      BY <1>0, <1>6 DEF Welcome, ActiveIsAttached, Active, TypeOK
    <2>2. /\ state' = [state EXCEPT ![registry] = "connected"]
          /\ UNCHANGED <<running, registry>>
      BY <1>0, <1>6, <2>1 DEF Welcome
    <2>3. CASE running = "down"
      BY <2>2, <2>3, DownView
    <2>4. CASE running # "down"
      <3>1. ViewNow = "connecting" /\ ViewNow' = "connected"
        BY <1>0, <2>1, <2>2, <2>4 DEF ViewNow, TypeOK
      <3>2. QED
        BY <3>1 DEF View!Next, View!Register
    <2>5. QED
      BY <2>3, <2>4
  <1>7. ASSUME NEW c \in Clients, ReadLoopEnds(c)
        PROVE  [View!Next]_ViewNow
    <2>1. /\ registry \in NetObjs /\ UNCHANGED <<running, registry>>
          /\ state' = [state EXCEPT ![registry] = "disconnected"]
      BY <1>0, <1>7
         DEF ReadLoopEnds, Live, Lost, ActiveIsAttached, Active, TypeOK
    <2>2. QED
      BY <2>1, ForgottenView
  <1>8. ASSUME NEW n \in NetObjs, LoopDials(n)
        PROVE  [View!Next]_ViewNow
    <2>1. registry = n /\ \A c \in Clients : ~Active(c)
      BY <1>0, <1>8 DEF LoopDials, MayReconnect, SleepingIsAlone,
                        LoopsAreCurrent, IdleLoop
    <2>2. state[n] = "disconnected"
      BY <1>0, <2>1
         DEF ConnectingIsBacked, ConnectedIsBacked, Active, TypeOK, NetStates
    <2>3. /\ state' = [state EXCEPT ![n] = "connecting"]
          /\ UNCHANGED <<running, registry>>
      BY <1>8, <2>1 DEF LoopDials
    <2>4. CASE running = "down"
      BY <2>3, <2>4, DownView
    <2>5. CASE running # "down"
      <3>1. ViewNow = "disconnected" /\ ViewNow' = "connecting"
        BY <1>0, <2>1, <2>2, <2>3, <2>5 DEF ViewNow, TypeOK
      <3>2. QED
        BY <3>1 DEF View!Next, View!Dial
    <2>6. QED
      BY <2>4, <2>5
  <1>9. ASSUME NEW n \in NetObjs, LoopOpenFails(n)
        PROVE  [View!Next]_ViewNow
    BY <1>9, RecordTypes, ForgottenView DEF LoopOpenFails
  <1>10. ASSUME BootEmpty \/ BootIdle \/ BootConnecting
         PROVE  [View!Next]_ViewNow
    <2>1. /\ ViewNow = "down"
          /\ registry = None
          /\ \A n \in NetObjs : state[n] = "disconnected"
      BY <1>10 DEF BootEmpty, BootIdle, BootConnecting, ViewNow, Ownership,
                   DownIsReset
    <2>2. ViewNow' \in {"absent", "disconnected", "connecting"}
      BY <1>0, <1>10, <2>1
         DEF BootEmpty, BootIdle, BootConnecting, ViewNow, TypeOK
    <2>3. QED
      BY <2>1, <2>2 DEF View!Next, View!Start
  <1>11. ASSUME RestoreOpens
         PROVE  [View!Next]_ViewNow
    BY <1>11 DEF RestoreOpens, Ownership, StartingIsRestoring, ViewNow
  <1>12. ASSUME RestoreOpenFails
         PROVE  [View!Next]_ViewNow
    <2>1. /\ registry \in NetObjs
          /\ running = "starting" /\ running' = "serving"
          /\ UNCHANGED registry
          /\ state' = [state EXCEPT ![req[Lifespan].net] = "disconnected"]
      BY <1>12 DEF RestoreOpenFails, OpenFails, Ownership,
                   StartingIsRestoring, TypeOK
    <2>2. \/ state'[registry] = state[registry]
          \/ state'[registry] = "disconnected"
      BY <2>1 DEF TypeOK
    <2>3. ViewNow = state[registry] /\ ViewNow' = state'[registry]
      BY <1>0, <2>1 DEF ViewNow
    <2>4. QED
      BY <2>1, <2>2, <2>3 DEF View!Next, View!Lose, TypeOK, NetStates
  <1>13. ASSUME Vanish
         PROVE  [View!Next]_ViewNow
    BY <1>13 DEF Vanish, ViewNow, View!Next, View!Stop
  <1>14. ASSUME Shutdown
         PROVE  [View!Next]_ViewNow
    BY <1>14 DEF Shutdown, Suspend, ViewNow
  <1>15. ASSUME UNCHANGED <<running, registry, state>>
         PROVE  [View!Next]_ViewNow
    BY <1>15 DEF ViewNow
  <1>16. ASSUME NEW h \in Requests,
                \/ ConnectNetwork(h) \/ FinishConnect(h)
                \/ RequestOpens(h) \/ RequestOpenFails(h)
         PROVE  FALSE
    BY <1>0, <1>16
       DEF NoRequestDials, ConnectNetwork, Arrives, FinishConnect,
           RequestOpens, RequestOpenFails
  <1>17. QED
    BY <1>1, <1>2, <1>3, <1>4, <1>5, <1>6, <1>7, <1>8, <1>9, <1>10, <1>11,
       <1>12, <1>13, <1>14, <1>15, <1>16
       DEF Next, RequestStep, HandlerResumes, ClientStep, LoopWakes,
           LoopReturns, ProcessStep, Restore, UpdateFields,
           CloseRaises, OwnMembershipChanges, LoopGivesUp, LoopOpens,
           ShutdownAtOnce, FinishShutdown, Crash, OutageBegins, OutageEnds,
           vars

(***************************************************************************)
(* Without requests that connect, the network lives the life promised by   *)
(* NetworkView: it is connected only by way of a dial of its own, and only *)
(* a network that is disconnected is dialled (state.py, handle_irc_event   *)
(* and _reconnect_loop; routes.py).                                        *)
(***************************************************************************)
THEOREM ViewCorrect ==
    ASSUME "connect" \notin Inputs
    PROVE  Spec => ImplementsView
  <1>1. Init => View!Init
    BY DEF Init, ViewNow, View!Init
  <1>2. TypeOK /\ Ownership /\ ConnectingIsBacked /\ ConnectedIsBacked
           /\ SoleConnection /\ [Next]_vars => [View!Next]_ViewNow
    BY ViewStep
  <1>3. QED
    BY <1>1, <1>2, TypeCorrect, OwnershipCorrect, ConnectingCorrect,
       ConnectedCorrect, SoleCorrect, PTL DEF Spec, ImplementsView, View!Spec
=============================================================================
