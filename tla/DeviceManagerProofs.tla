------------------------ MODULE DeviceManagerProofs ------------------------
(***************************************************************************)
(* The threads around the engine, for any number of devices and of threads *)
(* that open and close them: proofs about module DeviceManager.            *)
(*                                                                         *)
(* What makes the invariants inductive is that the manager's mutex is held *)
(* by at most one thread, so that a step of a thread in the middle of an   *)
(* operation finds every other one outside; and, for a session that is     *)
(* being initialised, that the player is outside its calls.                *)
(***************************************************************************)
EXTENDS DeviceManager, TLAPS

MgrRecord ==
    [pc : ManagerPlaces, op : Operations \cup {"none"}, dev : SUBSET Devices,
     todo : SUBSET Devices, then : {"idle", "check", "deactivate", "next"}]

\* At most one thread holds the manager's mutex.
Exclusive == \A m, n \in Managers : HoldsMutex(m) /\ HoldsMutex(n) => m = n

ManagerStep(m) == ManagerBegins(m) \/ ManagerContinues(m)

EngineStep ==
    \/ SenderNext
    \/ PlayerContinues
    \/ ManagersAllowPlayer /\ PlayerBegins
    \/ \E d \in Lossy : ConnectionDrops(d)

-----------------------------------------------------------------------------
(***************************************************************************)
(* Steps and types.                                                        *)
(***************************************************************************)
\* A step is one of the engine's threads or of the network, or of a manager.
LEMMA StepForms ==
    ASSUME [Next]_vars
    PROVE  \/ EngineStep /\ UNCHANGED <<known, mgr>>
           \/ \E m \in Managers : ManagerStep(m)
           \/ UNCHANGED vars
  BY DEF Next, EngineStep, ManagerStep

LEMMA InitTypes == Init => ThreadsTypeOK /\ Exclusive
<1> SUFFICES ASSUME Init PROVE ThreadsTypeOK /\ Exclusive
  OBVIOUS
<1>1. Idle \in MgrRecord
  BY DEF Idle, MgrRecord, ManagerPlaces, Operations
<1>2. mgr \in [Managers -> MgrRecord] /\ \A m \in Managers : mgr[m] = Idle
  BY <1>1 DEF Init
<1>3. Exclusive
  BY <1>2 DEF Exclusive, HoldsMutex, Idle
<1>4. client \in [Devices -> ClientStates]
  BY DEF Init, EngineInit, ClientStates
<1>5. player \in [pc : PlayerPlaces, todo : SUBSET Devices, dev : SUBSET Devices]
      /\ player.pc = "idle"
  BY DEF Init, EngineInit, PlayerPlaces
<1>6. QED
  BY <1>2, <1>3, <1>4, <1>5 DEF Init, EngineInit, ThreadsTypeOK, MgrRecord

\* What a step of manager m does to the places of the managers.
LEMMA ManagerMoves ==
    ASSUME ThreadsTypeOK, NEW m \in Managers, ManagerStep(m)
    PROVE  /\ mgr'[m] \in MgrRecord
           /\ mgr' = [mgr EXCEPT ![m] = mgr'[m]]
           /\ HoldsMutex(m) \/ MutexIsFree
<1>1. /\ mgr \in [Managers -> MgrRecord] /\ mgr[m] \in MgrRecord
      /\ known \subseteq Devices
  BY DEF ThreadsTypeOK, MgrRecord
<1> USE DEF MgrRecord, Becomes, Goes, Idle, At, AtDevice, ManagerPlaces, Operations
<1>2. ASSUME NEW d \in Devices, OpenBegins(m, d)
      PROVE  mgr'[m] \in MgrRecord /\ mgr' = [mgr EXCEPT ![m] = mgr'[m]] /\ MutexIsFree
  BY <1>1, <1>2 DEF OpenBegins, MayBegin
<1>3. ASSUME NEW d \in Devices, NEW op \in {"open", "lose"}, Destroys(m, d, op)
      PROVE  mgr'[m] \in MgrRecord /\ mgr' = [mgr EXCEPT ![m] = mgr'[m]]
  <2>1. [Idle EXCEPT !.pc = "close", !.op = op, !.dev = {d}] \in MgrRecord /\ Idle \in MgrRecord
    OBVIOUS
  <2>2. PICK r \in MgrRecord : mgr' = [mgr EXCEPT ![m] = r]
    BY <1>3, <2>1 DEF Destroys
  <2>3. QED
    BY <1>1, <2>2
<1>4. ASSUME CloseAllBegins(m)
      PROVE  mgr'[m] \in MgrRecord /\ mgr' = [mgr EXCEPT ![m] = mgr'[m]] /\ MutexIsFree
  BY <1>1, <1>4 DEF CloseAllBegins, MayBegin
<1>5. ASSUME CloseAllContinues(m)
      PROVE  mgr'[m] \in MgrRecord /\ mgr' = [mgr EXCEPT ![m] = mgr'[m]] /\ HoldsMutex(m)
  <2>1. HoldsMutex(m)
    BY <1>5 DEF CloseAllContinues, HoldsMutex
  <2>2. CASE mgr[m].todo = {}
    BY <1>1, <1>5, <2>1, <2>2 DEF CloseAllContinues
  <2>3. CASE mgr[m].todo # {}
    <3>1. PICK d \in mgr[m].todo :
            mgr' = [mgr EXCEPT ![m].pc = "close", ![m].dev = {d}, ![m].todo = @ \ {d}]
      BY <1>5, <2>3 DEF CloseAllContinues
    <3>2. d \in Devices /\ mgr[m].todo \subseteq Devices
      BY <1>1
    <3>3. mgr'[m] = [pc |-> "close", op |-> mgr[m].op, dev |-> {d},
                     todo |-> mgr[m].todo \ {d}, then |-> mgr[m].then]
      BY <1>1, <3>1
    <3>4. \A n \in Managers : n # m => mgr'[n] = mgr[n]
      BY <1>1, <3>1
    <3>5. mgr' = [mgr EXCEPT ![m] = mgr'[m]]
      BY <1>1, <3>1, <3>4
    <3>6. mgr'[m] \in MgrRecord
      BY <1>1, <3>2, <3>3
    <3>7. QED
      BY <2>1, <3>5, <3>6
  <2>4. QED
    BY <2>2, <2>3
<1>6. ASSUME NEW pc \in ManagerPlaces, Goes(m, pc)
      PROVE  mgr'[m] \in MgrRecord /\ mgr' = [mgr EXCEPT ![m] = mgr'[m]]
  BY <1>1, <1>6
<1>7. ASSUME Becomes(m, Idle)
      PROVE  mgr'[m] \in MgrRecord /\ mgr' = [mgr EXCEPT ![m] = mgr'[m]]
  BY <1>1, <1>7
<1>8. ASSUME GoesBack(m)
      PROVE  mgr'[m] \in MgrRecord /\ mgr' = [mgr EXCEPT ![m] = mgr'[m]]
  BY <1>1, <1>8 DEF GoesBack
<1>9. ASSUME NEW d \in Devices, TestsDevice(m, d)
      PROVE  mgr'[m] \in MgrRecord /\ mgr' = [mgr EXCEPT ![m] = mgr'[m]] /\ HoldsMutex(m)
  BY <1>1, <1>9 DEF TestsDevice, HoldsMutex
<1>10. CASE \E d \in Devices : DestroyBegins(m, d)
  BY <1>3, <1>10 DEF DestroyBegins, MayBegin
<1>11. CASE \E d \in Devices : DestroysAfterFailure(m, d)
  BY <1>3, <1>11 DEF DestroysAfterFailure
<1>12. CASE \E d \in Devices : FailsToConnect(m, d) \/ OpensDevice(m, d)
  BY <1>6, <1>12 DEF FailsToConnect, OpensDevice, HoldsMutex
<1>13. CASE \E d \in Devices : FindsDeviceOpen(m, d)
  BY <1>6, <1>7, <1>13 DEF FindsDeviceOpen, HoldsMutex
<1>14. CASE \E d \in Devices : JoinsOpenDevices(m, d) \/ ReinitStops(m, d)
  BY <1>6, <1>14 DEF JoinsOpenDevices, ReinitStops, HoldsMutex
<1>15. CASE \E d \in Devices : AttachesDevice(m, d) \/ ClosesConnection(m, d)
  BY <1>6, <1>15 DEF AttachesDevice, ClosesConnection, HoldsMutex
<1>16. CASE \E d \in Devices : DetachesDevice(m, d)
  BY <1>6, <1>8, <1>16 DEF DetachesDevice, HoldsMutex
<1>17. CASE ReinitJoins(m) \/ ReinitBegins(m) \/ ReinitEnds(m)
  BY <1>6, <1>17 DEF ReinitJoins, ReinitBegins, ReinitEnds, HoldsMutex
<1>18. CASE OpenEnds(m) \/ DetachJoins(m)
  BY <1>6, <1>7, <1>8, <1>18 DEF OpenEnds, DetachJoins, HoldsMutex
<1>19. QED
  BY <1>2, <1>4, <1>5, <1>9, <1>10, <1>11, <1>12, <1>13, <1>14, <1>15, <1>16, <1>17, <1>18
  DEF ManagerStep, ManagerBegins, ManagerContinues

\* What a step of the engine's threads does to their variables.
LEMMA EngineTypes ==
    ASSUME ThreadsTypeOK, EngineStep, UNCHANGED <<known, mgr>>
    PROVE  ThreadsTypeOK'
<1> USE DEF ThreadsTypeOK
<1> DEFINE PlayerType == [pc : PlayerPlaces, todo : SUBSET Devices, dev : SUBSET Devices]
<1>1. Listeners \subseteq Devices /\ Listeners \subseteq attached
  BY DEF Listeners
<1>2. CASE SenderTest
  BY <1>2 DEF SenderTest
<1>3. CASE SenderSends \/ SenderWaits
  <2>1. synced' \subseteq Devices /\ early' \subseteq Devices
    BY <1>1, <1>3 DEF SenderSends, SenderWaits, SenderTurnBegins, SyncStep, Listeners
  <2>2. QED
    BY <1>3, <2>1 DEF SenderSends, SenderWaits, SenderTurnBegins, SyncStep
<1>4. CASE PlayerWrites
  <2>1. player' \in PlayerType /\ player'.pc = "idle" /\ player.pc = "write"
    BY <1>4 DEF PlayerWrites, PlayerGoes, PlayerAt, PlayerPlaces
  <2>2. stopSending' \in BOOLEAN /\ sender' \in {"off", "test", "turn"}
    BY <1>4 DEF PlayerWrites, Start
  <2>3. QED
    BY <1>4, <2>1, <2>2 DEF PlayerWrites
<1>5. CASE PlayerAsks \/ PlayerResets \/ PlayerJoins
  <2>1. player' \in PlayerType /\ player'.pc \in {"write", "join", "lock"}
        /\ player.pc \in {"idle", "join"}
    BY <1>5 DEF PlayerAsks, PlayerResets, PlayerJoins, PlayerGoes, PlayerAt, PlayerPlaces
  <2>2. QED
    BY <1>5, <2>1 DEF PlayerAsks, PlayerResets, PlayerJoins, Stop
<1>6. CASE PlayerFlushes
  BY <1>1, <1>6 DEF PlayerFlushes
<1>7. CASE PlayerLocks
  <2>1. player' \in PlayerType /\ player'.pc = "flush"
    BY <1>7 DEF PlayerLocks, PlayerPlaces
  <2>2. QED
    BY <1>7, <2>1 DEF PlayerLocks
<1>8. CASE \E d \in Devices : PlayerLooksAt(d)
  <2>1. player' \in PlayerType /\ player'.pc \in {"flush", "flushDevice"} /\ player.pc = "flush"
    BY <1>8 DEF PlayerLooksAt, PlayerAt, PlayerPlaces
  <2>2. QED
    BY <1>8, <2>1 DEF PlayerLooksAt
<1>9. CASE PlayerFlushesDevice
  <2>1. player' \in PlayerType /\ player'.pc = "flush" /\ player.pc = "flushDevice"
    BY <1>9 DEF PlayerFlushesDevice, PlayerAt, PlayerPlaces
  <2>2. QED
    BY <1>9, <2>1 DEF PlayerFlushesDevice
<1>10. CASE PlayerRewinds
  <2>1. player' \in PlayerType /\ player'.pc = "idle"
    BY <1>10 DEF PlayerRewinds, PlayerGoes, PlayerPlaces
  <2>2. QED
    BY <1>1, <1>10, <2>1 DEF PlayerRewinds
<1>11. CASE \E d \in Lossy : ConnectionDrops(d)
  <2>1. client' \in [Devices -> ClientStates]
    BY <1>11 DEF ConnectionDrops, ClientStates
  <2>2. QED
    BY <1>11, <2>1 DEF ConnectionDrops
<1>12. QED
  BY <1>2, <1>3, <1>4, <1>5, <1>6, <1>7, <1>8, <1>9, <1>10, <1>11
  DEF EngineStep, SenderNext, PlayerContinues, PlayerBegins

\* What a step of a manager does to the other variables.
LEMMA ManagerTypes ==
    ASSUME ThreadsTypeOK, NEW m \in Managers, ManagerStep(m)
    PROVE  ThreadsTypeOK'
<1>1. mgr' \in [Managers -> MgrRecord]
  BY ManagerMoves DEF ThreadsTypeOK, MgrRecord
<1> USE DEF ThreadsTypeOK
<1>2. \/ UNCHANGED <<attached, client, firstSync, stopSending, sender, mutex, player, synced, early>>
         /\ known' \subseteq Devices
      \/ /\ UNCHANGED <<sender, mutex, player, early, known>>
         /\ attached' \subseteq Devices
         /\ client' \in [Devices -> ClientStates]
         /\ firstSync' \in BOOLEAN
         /\ stopSending' \in BOOLEAN
         /\ synced' \subseteq Devices
  <2>1. CASE \E d \in Devices : OpenBegins(m, d) \/ DestroyBegins(m, d) \/ DestroysAfterFailure(m, d)
    BY <2>1 DEF OpenBegins, DestroyBegins, DestroysAfterFailure, Destroys, engineVars
  <2>2. CASE \/ CloseAllBegins(m) \/ CloseAllContinues(m) \/ ReinitJoins(m) \/ OpenEnds(m)
             \/ DetachJoins(m)
             \/ \E d \in Devices : \/ FailsToConnect(m, d) \/ FindsDeviceOpen(m, d)
                                   \/ JoinsOpenDevices(m, d)
    BY <2>2 DEF CloseAllBegins, CloseAllContinues, ReinitJoins, OpenEnds, DetachJoins,
                FailsToConnect, FindsDeviceOpen, JoinsOpenDevices, engineVars
  <2>3. CASE \E d \in Devices : TestsDevice(m, d) \/ OpensDevice(m, d)
    <3>1. PICK d \in Devices : Connects(d) /\ UNCHANGED known
      BY <2>3 DEF TestsDevice, OpensDevice
    <3>2. client' \in [Devices -> ClientStates]
      BY <3>1 DEF Connects, ClientStates
    <3>3. synced' \subseteq Devices
      BY <3>1 DEF Connects
    <3>4. QED
      BY <3>1, <3>2, <3>3 DEF Connects
  <2>4. CASE \E d \in Devices : ReinitStops(m, d) \/ AttachesDevice(m, d)
    BY <2>4 DEF ReinitStops, AttachesDevice, Stop, Attach
  <2>5. CASE \E d \in Devices : DetachesDevice(m, d)
    BY <2>5 DEF DetachesDevice, Stop, Detach
  <2>6. CASE \E d \in Devices : ClosesConnection(m, d)
    BY <2>6 DEF ClosesConnection, ClientStates
  <2>7. CASE ReinitBegins(m) \/ ReinitEnds(m)
    BY <2>7 DEF ReinitBegins, ReinitEnds, ReinitRest
  <2>8. QED
    BY <2>1, <2>2, <2>3, <2>4, <2>5, <2>6, <2>7
    DEF ManagerStep, ManagerBegins, ManagerContinues
<1>3. QED
  BY <1>1, <1>2 DEF MgrRecord

\* Where destroyDevice() and the loop of closeDevices() go on.
LEMMA DestroysMoves ==
    ASSUME ThreadsTypeOK, NEW m \in Managers, NEW d \in Devices, NEW op \in {"open", "lose"},
           Destroys(m, d, op)
    PROVE  /\ mgr'[m].pc \in {"idle", "close"}
           /\ mgr'[m].pc = "close" => mgr'[m].op = op
           /\ mgr'[m].then = "idle"
<1>1. mgr \in [Managers -> MgrRecord]
  BY DEF ThreadsTypeOK, MgrRecord
<1>2. CASE d \in known
  BY <1>1, <1>2 DEF Destroys, Becomes, Idle
<1>3. CASE d \notin known
  BY <1>1, <1>3 DEF Destroys, Becomes, Idle
<1>4. QED
  BY <1>2, <1>3

LEMMA CloseAllMoves ==
    ASSUME ThreadsTypeOK, NEW m \in Managers, CloseAllContinues(m)
    PROVE  \/ mgr'[m] = Idle
           \/ \E d \in mgr[m].todo :
                 mgr'[m] = [pc |-> "close", op |-> mgr[m].op, dev |-> {d},
                            todo |-> mgr[m].todo \ {d}, then |-> mgr[m].then]
<1>1. mgr \in [Managers -> MgrRecord] /\ mgr[m] \in MgrRecord
  BY DEF ThreadsTypeOK, MgrRecord
<1>2. CASE mgr[m].todo = {}
  BY <1>1, <1>2 DEF CloseAllContinues, Becomes
<1>3. CASE mgr[m].todo # {}
  <2>1. PICK d \in mgr[m].todo :
          mgr' = [mgr EXCEPT ![m].pc = "close", ![m].dev = {d}, ![m].todo = @ \ {d}]
    BY <1>3 DEF CloseAllContinues
  <2>2. mgr'[m] = [pc |-> "close", op |-> mgr[m].op, dev |-> {d},
                   todo |-> mgr[m].todo \ {d}, then |-> mgr[m].then]
    BY <1>1, <2>1 DEF MgrRecord
  <2>3. QED
    BY <2>2
<1>4. QED
  BY <1>2, <1>3

\* While a manager makes a step, every other one is outside its operations.
LEMMA OthersAreOutside ==
    ASSUME ThreadsTypeOK, Exclusive, NEW m \in Managers, ManagerStep(m),
           NEW n \in Managers, n # m
    PROVE  mgr'[n] = mgr[n] /\ ~HoldsMutex(n) /\ ~HoldsMutex(n)'
<1>1. mgr' = [mgr EXCEPT ![m] = mgr'[m]] /\ (HoldsMutex(m) \/ MutexIsFree)
  BY ManagerMoves
<1>2. mgr \in [Managers -> MgrRecord]
  BY DEF ThreadsTypeOK, MgrRecord
<1>3. mgr'[n] = mgr[n]
  BY <1>1, <1>2
<1>4. ~HoldsMutex(n)
  BY <1>1 DEF Exclusive, MutexIsFree
<1>5. QED
  BY <1>3, <1>4 DEF HoldsMutex

LEMMA TypesStep ==
    ThreadsTypeOK /\ Exclusive /\ [Next]_vars => ThreadsTypeOK' /\ Exclusive'
<1> SUFFICES ASSUME ThreadsTypeOK, Exclusive, [Next]_vars
             PROVE  ThreadsTypeOK' /\ Exclusive'
  OBVIOUS
<1>1. CASE EngineStep /\ UNCHANGED <<known, mgr>>
  <2>1. ThreadsTypeOK'
    BY <1>1, EngineTypes
  <2>2. Exclusive'
    BY <1>1 DEF Exclusive, HoldsMutex
  <2>3. QED
    BY <2>1, <2>2
<1>2. ASSUME NEW m \in Managers, ManagerStep(m)
      PROVE  ThreadsTypeOK' /\ Exclusive'
  <2>1. ThreadsTypeOK'
    BY <1>2, ManagerTypes
  <2>2. \A n \in Managers : n # m => ~HoldsMutex(n)'
    BY <1>2, OthersAreOutside
  <2>3. Exclusive'
    BY <2>2 DEF Exclusive
  <2>4. QED
    BY <2>1, <2>3
<1>3. CASE UNCHANGED vars
  BY <1>3 DEF vars, engineVars, ThreadsTypeOK, Exclusive, HoldsMutex
<1>4. QED
  BY <1>1, <1>2, <1>3, StepForms

\* The variables of the threads keep their types, and the manager's mutex its
\* one holder, for every number of devices and threads
\* (DeviceManager.cpp:207, raop/RAOPEngine.cpp:577-615).
THEOREM ThreadTypesHold == Spec => [](ThreadsTypeOK /\ Exclusive)
  BY InitTypes, TypesStep, PTL DEF Spec

-----------------------------------------------------------------------------
(***************************************************************************)
(* Every device of the engine's list exists.                               *)
(***************************************************************************)
OpenPlaces == {"test", "check", "join", "fresh", "rewind", "connect", "attach", "finish"}

ClosePlaces == {"close", "detach", "leave"}

\* A device stays in the map while it is opened, also while it is closed again
\* after its test; and the loop of closeDevices() does not go back to a check.
OpenedDevicesAreKnown ==
    \A m \in Managers :
        /\ mgr[m].pc \in OpenPlaces => mgr[m].dev \subseteq known
        /\ mgr[m].pc \in ClosePlaces /\ mgr[m].then = "check" => mgr[m].dev \subseteq known
        /\ mgr[m].pc = "next" => mgr[m].then = "next"

ExistInv == AttachedDevicesExist /\ OpenedDevicesAreKnown

LEMMA LeavingMembers ==
    ASSUME NEW d
    PROVE  d \in Leaving <=> \E m \in Managers : mgr[m].pc \in {"close", "detach"} /\ d \in mgr[m].dev
  BY DEF Leaving

LEMMA InitExists == Init => ExistInv
  BY DEF Init, EngineInit, Idle, ExistInv, AttachedDevicesExist, OpenedDevicesAreKnown,
         OpenPlaces, ClosePlaces

\* No step of the engine's threads adds a device to the list.
LEMMA EngineAttachesNone ==
    ASSUME ThreadsTypeOK, EngineStep
    PROVE  attached' \subseteq attached
  BY DEF EngineStep, SenderNext, SenderTest, SenderSends, SenderWaits, SenderTurnBegins,
         PlayerContinues, PlayerBegins, PlayerAsks, PlayerWrites, PlayerFlushes, PlayerResets,
         PlayerJoins, PlayerLocks, PlayerLooksAt, PlayerFlushesDevice, PlayerRewinds,
         ConnectionDrops, Listeners

\* What a manager knows of the list in the middle of an operation, and what it
\* has to leave behind.
LEMMA ManagerKeepsExist ==
    ASSUME ThreadsTypeOK, Exclusive, ExistInv, NEW m \in Managers, ManagerStep(m)
    PROVE  ExistInv'
<1> DEFINE mine == mgr[m]
           mine2 == mgr'[m]
<1>1. /\ mgr \in [Managers -> MgrRecord] /\ mine \in MgrRecord
      /\ HoldsMutex(m) \/ MutexIsFree
      /\ \A n \in Managers : n # m => mgr'[n] = mgr[n] /\ ~HoldsMutex(n)
  BY ManagerMoves, OthersAreOutside DEF ThreadsTypeOK, MgrRecord
<1>2. \A d \in attached : d \in known \/ (mine.pc \in {"close", "detach"} /\ d \in mine.dev)
  <2> SUFFICES ASSUME NEW d \in attached, d \notin known
               PROVE  mine.pc \in {"close", "detach"} /\ d \in mine.dev
    OBVIOUS
  <2>1. PICK n \in Managers : mgr[n].pc \in {"close", "detach"} /\ d \in mgr[n].dev
    BY LeavingMembers DEF ExistInv, AttachedDevicesExist
  <2>2. HoldsMutex(n)
    BY <2>1 DEF HoldsMutex
  <2>3. QED
    BY <1>1, <2>1, <2>2
<1>3. /\ mine.pc \in OpenPlaces => mine.dev \subseteq known
      /\ mine.pc \in ClosePlaces /\ mine.then = "check" => mine.dev \subseteq known
      /\ mine.pc = "next" => mine.then = "next"
  BY DEF ExistInv, OpenedDevicesAreKnown
<1>4. /\ \A d \in attached' : d \in known' \/ (mine2.pc \in {"close", "detach"} /\ d \in mine2.dev)
      /\ mine2.pc \in OpenPlaces => mine2.dev \subseteq known'
      /\ mine2.pc \in ClosePlaces /\ mine2.then = "check" => mine2.dev \subseteq known'
      /\ mine2.pc = "next" => mine2.then = "next"
  <2> USE <1>1 DEF Becomes, Goes, At, AtDevice, Idle, MgrRecord, OpenPlaces, ClosePlaces
  <2>1. CASE \E d \in Devices : OpenBegins(m, d)
    <3>1. PICK d \in Devices : OpenBegins(m, d)
      BY <2>1
    <3>2. /\ mine.pc = "idle" /\ known' = known \cup {d} /\ UNCHANGED attached
          /\ mine2.dev = {d} /\ mine2.pc \in {"check", "test"}
      BY <3>1 DEF OpenBegins, MayBegin, engineVars
    <3>3. QED
      BY <1>2, <3>2
  <2>2. CASE \E d \in Devices : DestroyBegins(m, d) \/ DestroysAfterFailure(m, d)
    <3>1. PICK d \in Devices, op \in {"open", "lose"} :
              Destroys(m, d, op) /\ mine.pc \in {"idle", "deactivate"}
      BY <2>2 DEF DestroyBegins, DestroysAfterFailure, MayBegin
    <3>2. known' = known \ {d} /\ UNCHANGED attached
      BY <3>1 DEF Destroys, engineVars
    <3>3. CASE d \in known
      <4>1. mine2.pc = "close" /\ mine2.dev = {d} /\ mine2.then = "idle"
        <5>1. mgr' = [mgr EXCEPT ![m] = [Idle EXCEPT !.pc = "close", !.op = op, !.dev = {d}]]
          BY <3>1, <3>3 DEF Destroys
        <5>2. mine2 = [Idle EXCEPT !.pc = "close", !.op = op, !.dev = {d}]
          BY <5>1
        <5>3. QED
          BY <5>2
      <4>2. QED
        BY <1>2, <3>1, <3>2, <4>1
    <3>4. CASE d \notin known
      <4>1. mine2.pc = "idle"
        BY <3>1, <3>4 DEF Destroys
      <4>2. QED
        BY <1>2, <3>1, <3>2, <3>4, <4>1
    <3>5. QED
      BY <3>3, <3>4
  <2>3. CASE CloseAllBegins(m)
    <3>1. mine.pc = "idle" /\ mine2.pc = "next" /\ mine2.then = "next" /\ UNCHANGED <<attached, known>>
      BY <2>3 DEF CloseAllBegins, MayBegin, engineVars
    <3>2. QED
      BY <1>2, <3>1
  <2>4. CASE CloseAllContinues(m)
    <3>1. mine.pc = "next" /\ UNCHANGED <<attached, known>>
      BY <2>4 DEF CloseAllContinues, engineVars
    <3>2. mine2.pc = "idle" \/ (mine2.pc = "close" /\ mine2.then = mine.then)
      <4>1. CASE mine.todo = {}
        BY <2>4, <4>1 DEF CloseAllContinues
      <4>2. CASE mine.todo # {}
        <5>1. PICK d \in mine.todo :
                mgr' = [mgr EXCEPT ![m].pc = "close", ![m].dev = {d}, ![m].todo = @ \ {d}]
          BY <2>4, <4>2 DEF CloseAllContinues
        <5>2. mine2 = [mine EXCEPT !.pc = "close", !.dev = {d}, !.todo = @ \ {d}]
          BY <5>1
        <5>3. QED
          BY <5>2
      <4>3. QED
        BY <4>1, <4>2
    <3>3. QED
      BY <1>2, <1>3, <3>1, <3>2
  <2>5. CASE \E d \in Devices : TestsDevice(m, d)
    <3>1. mine.pc = "test" /\ UNCHANGED <<attached, known>> /\ mine2.dev = mine.dev
      BY <2>5 DEF TestsDevice, Connects
    <3>2. mine2.pc = "close" \/ mine2.pc = "deactivate"
      BY <2>5 DEF TestsDevice
    <3>3. QED
      BY <1>2, <1>3, <3>1, <3>2
  <2>6. CASE \/ ReinitJoins(m) \/ ReinitBegins(m) \/ OpenEnds(m)
             \/ \E d \in Devices : \/ FailsToConnect(m, d) \/ FindsDeviceOpen(m, d)
                                   \/ JoinsOpenDevices(m, d) \/ ReinitStops(m, d)
                                   \/ OpensDevice(m, d)
    <3>1. mine.pc \in OpenPlaces /\ UNCHANGED <<attached, known>>
      BY <2>6 DEF ReinitJoins, ReinitBegins, OpenEnds, FailsToConnect, FindsDeviceOpen,
                  JoinsOpenDevices, ReinitStops, OpensDevice, Connects, engineVars
    <3>2. /\ mine2.pc \in (OpenPlaces \cup {"deactivate"}) \ {"test", "check"} /\ mine2.dev = mine.dev
          \/ mine2.pc = "idle"
      BY <2>6 DEF ReinitJoins, ReinitBegins, OpenEnds, FailsToConnect, FindsDeviceOpen,
                  JoinsOpenDevices, ReinitStops, OpensDevice
    <3>3. QED
      BY <1>2, <1>3, <3>1, <3>2
  <2>7. CASE ReinitEnds(m)
    <3>1. mine.pc = "rewind" /\ attached' = {} /\ known' = known /\ mine2.pc = "connect"
          /\ mine2.dev = mine.dev
      BY <2>7 DEF ReinitEnds, ReinitRest
    <3>2. QED
      BY <1>3, <3>1
  <2>8. CASE \E d \in Devices : AttachesDevice(m, d)
    <3>1. PICK d \in Devices : AttachesDevice(m, d)
      BY <2>8
    <3>2. /\ mine.pc = "attach" /\ mine.dev = {d} /\ mine2.pc = "finish" /\ mine2.dev = {d}
          /\ attached' = attached \cup {d} /\ known' = known
      BY <3>1 DEF AttachesDevice, Attach
    <3>3. QED
      BY <1>2, <1>3, <3>2
  <2>9. CASE \E d \in Devices : ClosesConnection(m, d)
    <3>1. /\ mine.pc = "close" /\ mine2.pc = "detach" /\ mine2.dev = mine.dev
          /\ mine2.then = mine.then /\ UNCHANGED <<attached, known>>
      BY <2>9 DEF ClosesConnection
    <3>2. QED
      BY <1>2, <1>3, <3>1
  <2>10. ASSUME GoesBack(m), mine.pc \in {"detach", "leave"}
         PROVE  \/ mine2.pc = "idle"
                \/ mine2.pc = mine.then /\ mine2.dev = mine.dev /\ mine2.then = mine.then
    BY <2>10 DEF GoesBack
  <2>11. CASE \E d \in Devices : DetachesDevice(m, d)
    <3>1. PICK d \in Devices : DetachesDevice(m, d)
      BY <2>11
    <3>2. mine.pc = "detach" /\ mine.dev = {d} /\ attached' = attached \ {d} /\ known' = known
      BY <3>1 DEF DetachesDevice, Detach
    <3>3. GoesBack(m) \/ (mine2.pc = "leave" /\ mine2.dev = mine.dev /\ mine2.then = mine.then)
      BY <3>1 DEF DetachesDevice
    <3>4. QED
      BY <1>2, <1>3, <2>10, <3>2, <3>3
  <2>12. CASE DetachJoins(m)
    <3>1. mine.pc = "leave" /\ GoesBack(m) /\ UNCHANGED <<attached, known>>
      BY <2>12 DEF DetachJoins, engineVars
    <3>2. QED
      BY <1>2, <1>3, <2>10, <3>1
  <2>13. QED
    BY <2>1, <2>2, <2>3, <2>4, <2>5, <2>6, <2>7, <2>8, <2>9, <2>11, <2>12
    DEF ManagerStep, ManagerBegins, ManagerContinues
<1>5. AttachedDevicesExist'
  <2> SUFFICES ASSUME NEW d \in attached', d \notin known'
               PROVE  d \in Leaving'
    BY DEF AttachedDevicesExist
  <2>1. mgr'[m].pc \in {"close", "detach"} /\ d \in mgr'[m].dev
    BY <1>4
  <2>2. QED
    BY <2>1 DEF Leaving
<1>6. OpenedDevicesAreKnown'
  <2> SUFFICES ASSUME NEW n \in Managers, n # m
               PROVE  mgr'[n].pc \notin OpenPlaces \cup ClosePlaces \cup {"next"}
    BY <1>4 DEF OpenedDevicesAreKnown
  <2>1. mgr[n].pc \in {"idle", "deactivate"} /\ mgr'[n] = mgr[n]
    BY <1>1 DEF HoldsMutex
  <2>2. QED
    BY <2>1 DEF OpenPlaces, ClosePlaces
<1>7. QED
  BY <1>5, <1>6 DEF ExistInv

LEMMA ExistStep ==
    ThreadsTypeOK /\ Exclusive /\ ExistInv /\ [Next]_vars => ExistInv'
<1> SUFFICES ASSUME ThreadsTypeOK, Exclusive, ExistInv, [Next]_vars
             PROVE  ExistInv'
  OBVIOUS
<1>1. CASE EngineStep /\ UNCHANGED <<known, mgr>>
  BY <1>1, EngineAttachesNone
  DEF ExistInv, AttachedDevicesExist, OpenedDevicesAreKnown, Leaving
<1>2. CASE \E m \in Managers : ManagerStep(m)
  BY <1>2, ManagerKeepsExist
<1>3. CASE UNCHANGED vars
  BY <1>3 DEF vars, engineVars, ExistInv, AttachedDevicesExist, OpenedDevicesAreKnown, Leaving
<1>4. QED
  BY <1>1, <1>2, <1>3, StepForms

\* The engine's list of bare pointers only names devices that exist, for every
\* number of devices and threads, whatever may overlap
\* (raop/RAOPDevice.cpp:275, DeviceManager.cpp:477).
THEOREM AttachedDevicesAlwaysExist == Spec => []AttachedDevicesExist
<1>1. Init => ThreadsTypeOK /\ Exclusive /\ ExistInv
  BY InitTypes, InitExists
<1>2. ThreadsTypeOK /\ Exclusive /\ ExistInv /\ [Next]_vars
        => (ThreadsTypeOK /\ Exclusive /\ ExistInv)'
  BY TypesStep, ExistStep
<1>3. ExistInv => AttachedDevicesExist
  BY DEF ExistInv
<1>4. QED
  BY <1>1, <1>2, <1>3, PTL DEF Spec

-----------------------------------------------------------------------------
(***************************************************************************)
(* Devices whose connections hold hear a sync packet before audio.         *)
(***************************************************************************)
Steady == Devices \ Lossy

\* Such a device is in the list only while it is open, up to the step in which
\* its closing takes it out; and whoever is about to put it there has opened it.
ListedAreOpen ==
    /\ \A d \in attached \cap Steady : IsOpen(d) \/ \E m \in Managers : AtDevice(m, "detach", d)
    /\ \A m \in Managers, d \in Steady : AtDevice(m, "attach", d) => IsOpen(d)

\* Unless a sync packet is due, everybody who listens had one.
SyncedOrDue == ~firstSync => \A d \in Listeners \cap Steady : d \in synced

SteadyInv == ListedAreOpen /\ SyncedOrDue /\ SteadyDevicesSyncFirst

LEMMA InitSteady == Init => SteadyInv
  BY DEF Init, EngineInit, Idle, SteadyInv, ListedAreOpen, SyncedOrDue, SteadyDevicesSyncFirst,
         Listeners, AtDevice, At

\* A turn of the sender: the sync packet comes before the audio.
LEMMA SenderKeepsSteady ==
    ASSUME ThreadsTypeOK, SteadyInv, SenderTurnBegins, UNCHANGED mgr,
           early' = early \/ early' = early \cup (Listeners \ synced')
    PROVE  SteadyInv'
<1>1. UNCHANGED <<attached, client>> /\ firstSync' = FALSE
      /\ (synced' = synced \cup Listeners \/ (~firstSync /\ synced' = synced))
  BY DEF SenderTurnBegins, SyncStep
<1>2. Listeners' = Listeners
  BY <1>1 DEF Listeners, IsOpen
<1>3. \A d \in Listeners \cap Steady : d \in synced'
  BY <1>1 DEF SteadyInv, SyncedOrDue
<1>4. SyncedOrDue'
  BY <1>1, <1>2, <1>3 DEF SyncedOrDue
<1>5. Listeners \ synced' \subseteq Lossy
  BY <1>3 DEF Steady, Listeners, ThreadsTypeOK
<1>6. SteadyDevicesSyncFirst'
  BY <1>5 DEF SteadyInv, SteadyDevicesSyncFirst
<1>7. ListedAreOpen'
  BY <1>1 DEF SteadyInv, ListedAreOpen, IsOpen, AtDevice, At
<1>8. QED
  BY <1>4, <1>6, <1>7 DEF SteadyInv

\* A step that takes devices out of the list, or asks for a sync packet.
LEMMA FewerKeepSteady ==
    ASSUME SteadyInv, UNCHANGED <<synced, early, mgr>>,
           \A d \in Steady : client'[d] = client[d],
           attached' = attached \/ attached' = Listeners,
           firstSync' = firstSync \/ firstSync' = TRUE
    PROVE  SteadyInv'
<1>1. \A d \in Steady : IsOpen(d)' = IsOpen(d)
  BY DEF IsOpen
<1>2. attached' \subseteq attached
  BY DEF Listeners
<1>3. ListedAreOpen'
  BY <1>1, <1>2 DEF SteadyInv, ListedAreOpen, AtDevice, At
<1>4. SyncedOrDue'
  BY <1>1, <1>2 DEF SteadyInv, SyncedOrDue, Listeners
<1>5. QED
  BY <1>3, <1>4 DEF SteadyInv, SteadyDevicesSyncFirst

LEMMA EngineKeepsSteady ==
    ASSUME ThreadsTypeOK, SteadyInv, EngineStep, UNCHANGED <<known, mgr>>
    PROVE  SteadyInv'
<1>1. CASE SenderSends \/ SenderWaits
  BY <1>1, SenderKeepsSteady DEF SenderSends, SenderWaits
<1>2. CASE \E d \in Lossy : ConnectionDrops(d)
  <2>1. \A d \in Steady : client'[d] = client[d]
    BY <1>2 DEF ConnectionDrops, Steady, ThreadsTypeOK
  <2>2. QED
    BY <1>2, <2>1, FewerKeepSteady DEF ConnectionDrops
<1>3. CASE SenderTest \/ PlayerContinues \/ PlayerBegins
  <2>1. /\ UNCHANGED <<client, synced, early>>
        /\ attached' = attached \/ attached' = Listeners
        /\ firstSync' = firstSync \/ firstSync' = TRUE
    BY <1>3 DEF SenderTest, PlayerContinues, PlayerBegins, PlayerAsks, PlayerWrites, PlayerFlushes,
                PlayerResets, PlayerJoins, PlayerLocks, PlayerLooksAt, PlayerFlushesDevice,
                PlayerRewinds
  <2>2. QED
    BY <2>1, FewerKeepSteady
<1>4. QED
  BY <1>1, <1>2, <1>3 DEF EngineStep, SenderNext

\* A connection is made in the middle of an operation: the device is not in the
\* list, unless the connection was there already.
LEMMA ManagerKeepsSteady ==
    ASSUME ThreadsTypeOK, Exclusive, SteadyInv, NEW m \in Managers, ManagerStep(m)
    PROVE  SteadyInv'
<1> DEFINE mine == mgr[m]
           mine2 == mgr'[m]
<1>1. /\ mgr \in [Managers -> MgrRecord] /\ mine \in MgrRecord
      /\ HoldsMutex(m) \/ MutexIsFree
      /\ \A n \in Managers : n # m => mgr'[n] = mgr[n] /\ ~HoldsMutex(n)
  BY ManagerMoves, OthersAreOutside DEF ThreadsTypeOK, MgrRecord
<1>2. \A n \in Managers : n # m => mgr'[n].pc \notin {"attach", "detach"} /\ mgr[n].pc \notin {"attach", "detach"}
  BY <1>1 DEF HoldsMutex
<1>3. /\ \A d \in attached \cap Steady : IsOpen(d) \/ AtDevice(m, "detach", d)
      /\ \A d \in Steady : AtDevice(m, "attach", d) => IsOpen(d)
      /\ SyncedOrDue
      /\ early \subseteq Lossy
  BY <1>2 DEF SteadyInv, ListedAreOpen, SteadyDevicesSyncFirst, AtDevice, At
<1>4. /\ \A d \in attached' \cap Steady : IsOpen(d)' \/ AtDevice(m, "detach", d)'
      /\ \A d \in Steady : AtDevice(m, "attach", d)' => IsOpen(d)'
      /\ SyncedOrDue'
      /\ early' = early
  <2> USE <1>1 DEF MgrRecord
  <2>1. ASSUME UNCHANGED <<attached, client, synced, early>>, firstSync' = firstSync,
               mine.pc # "detach", mine2.pc # "attach"
        PROVE  /\ \A d \in attached' \cap Steady : IsOpen(d)' \/ AtDevice(m, "detach", d)'
               /\ \A d \in Steady : AtDevice(m, "attach", d)' => IsOpen(d)'
               /\ SyncedOrDue'
               /\ early' = early
    BY <1>3, <2>1 DEF AtDevice, At, IsOpen, SyncedOrDue, Listeners
  <2>2. CASE \E d \in Devices : OpenBegins(m, d) \/ DestroyBegins(m, d) \/ DestroysAfterFailure(m, d)
    <3>1. UNCHANGED <<attached, client, synced, early, firstSync>>
      BY <2>2 DEF OpenBegins, DestroyBegins, DestroysAfterFailure, Destroys, engineVars
    <3>2. mine.pc # "detach" /\ mine2.pc # "attach"
      <4>1. CASE \E d \in Devices : OpenBegins(m, d)
        BY <4>1 DEF OpenBegins, MayBegin, At, Becomes, Idle
      <4>2. CASE \E d \in Devices : DestroyBegins(m, d) \/ DestroysAfterFailure(m, d)
        <5>1. mine.pc \in {"idle", "deactivate"}
          BY <4>2 DEF DestroyBegins, DestroysAfterFailure, MayBegin, At, AtDevice
        <5>2. PICK d \in Devices, op \in {"open", "lose"} : Destroys(m, d, op)
          BY <4>2 DEF DestroyBegins, DestroysAfterFailure
        <5>3. mine2.pc \in {"idle", "close"}
          BY <5>2, DestroysMoves
        <5>4. QED
          BY <5>1, <5>3
      <4>3. QED
        BY <2>2, <4>1, <4>2
    <3>3. QED
      BY <2>1, <3>1, <3>2
  <2>3. CASE CloseAllBegins(m) \/ CloseAllContinues(m)
    <3>1. UNCHANGED <<attached, client, synced, early, firstSync>>
      BY <2>3 DEF CloseAllBegins, CloseAllContinues, engineVars
    <3>2. mine.pc # "detach"
      BY <2>3 DEF CloseAllBegins, CloseAllContinues, MayBegin, At
    <3>3. mine2.pc \in {"next", "idle", "close"}
      <4>1. CASE CloseAllBegins(m)
        BY <4>1 DEF CloseAllBegins, Becomes, Idle
      <4>2. CASE CloseAllContinues(m)
        <5>1. CASE mine2 = Idle
          BY <5>1 DEF Idle
        <5>2. CASE \E d \in mine.todo :
                      mine2 = [pc |-> "close", op |-> mine.op, dev |-> {d},
                               todo |-> mine.todo \ {d}, then |-> mine.then]
          BY <5>2
        <5>3. QED
          BY <4>2, <5>1, <5>2, CloseAllMoves, Zenon
      <4>3. QED
        BY <2>3, <4>1, <4>2
    <3>4. QED
      BY <2>1, <3>1, <3>2, <3>3
  <2>4. CASE \/ ReinitJoins(m) \/ ReinitBegins(m) \/ OpenEnds(m) \/ DetachJoins(m)
             \/ \E d \in Devices : \/ FailsToConnect(m, d) \/ FindsDeviceOpen(m, d)
                                   \/ JoinsOpenDevices(m, d) \/ ReinitStops(m, d)
    <3>1. UNCHANGED <<attached, client, synced, early, firstSync>>
      BY <2>4 DEF ReinitJoins, ReinitBegins, OpenEnds, DetachJoins, FailsToConnect, FindsDeviceOpen,
                  JoinsOpenDevices, ReinitStops, engineVars
    <3>2. mine.pc # "detach" /\ mine2.pc # "attach"
      BY <2>4 DEF ReinitJoins, ReinitBegins, OpenEnds, DetachJoins, FailsToConnect, FindsDeviceOpen,
                  JoinsOpenDevices, ReinitStops, At, AtDevice, Becomes, Goes, GoesBack, Idle
    <3>3. QED
      BY <2>1, <3>1, <3>2
  <2>5. CASE \E d \in Devices : TestsDevice(m, d) \/ OpensDevice(m, d)
    <3>1. PICK d \in Devices : Connects(d) /\ AtDevice(m, mine.pc, d) /\ mine.pc \in {"test", "connect"}
      BY <2>5 DEF TestsDevice, OpensDevice, AtDevice, At
    <3>2. mine2.dev = mine.dev
      <4>1. CASE \E e \in Devices : TestsDevice(m, e)
        BY <4>1 DEF TestsDevice, Goes
      <4>2. CASE \E e \in Devices : OpensDevice(m, e)
        BY <4>2 DEF OpensDevice, Goes
      <4>3. QED
        BY <2>5, <4>1, <4>2
    <3>3. /\ client' = [client EXCEPT ![d] = "ready"]
          /\ synced' = IF IsOpen(d) THEN synced ELSE synced \ {d}
          /\ UNCHANGED <<attached, firstSync, early>>
      BY <3>1 DEF Connects
    <3>4. IsOpen(d)' /\ \A e \in Devices : e # d => IsOpen(e)' = IsOpen(e)
      BY <3>3 DEF IsOpen, ThreadsTypeOK
    <3>5. \A e \in attached \cap Steady : IsOpen(e)
      BY <1>3, <3>1 DEF AtDevice, At
    <3>6. SyncedOrDue'
      <4> SUFFICES ASSUME ~firstSync, NEW e \in attached \cap Steady, IsOpen(e)'
                   PROVE  e \in synced'
        BY <3>3 DEF SyncedOrDue, Listeners
      <4>1. IsOpen(e) /\ e \in synced
        BY <1>3, <3>5 DEF SyncedOrDue, Listeners
      <4>2. QED
        BY <3>3, <4>1
    <3>7. QED
      BY <3>1, <3>2, <3>3, <3>4, <3>5, <3>6 DEF AtDevice, At, Steady
  <2>6. CASE ReinitEnds(m)
    <3>1. attached' = {} /\ firstSync' = TRUE /\ early' = early /\ mine2.pc = "connect"
      BY <2>6 DEF ReinitEnds, ReinitRest, Goes
    <3>2. QED
      BY <3>1 DEF SyncedOrDue, AtDevice, At
  <2>7. CASE \E d \in Devices : AttachesDevice(m, d)
    <3>1. PICK d \in Devices : AttachesDevice(m, d)
      BY <2>7
    <3>2. /\ AtDevice(m, "attach", d) /\ mine2.pc = "finish" /\ UNCHANGED <<client, synced, early>>
          /\ attached' = attached \cup {d} /\ firstSync' = (firstSync \/ d \notin attached)
      BY <3>1 DEF AttachesDevice, Attach, Goes
    <3>3. \A e \in Devices : IsOpen(e)' = IsOpen(e)
      BY <3>2 DEF IsOpen
    <3>4. SyncedOrDue'
      BY <1>3, <3>2, <3>3 DEF SyncedOrDue, Listeners, Steady
    <3>5. QED
      BY <1>3, <3>2, <3>3, <3>4 DEF AtDevice, At, Steady
  <2>8. CASE \E d \in Devices : ClosesConnection(m, d)
    <3>1. PICK d \in Devices : ClosesConnection(m, d)
      BY <2>8
    <3>2. /\ AtDevice(m, "close", d) /\ mine2.pc = "detach" /\ mine2.dev = mine.dev
          /\ client' = [client EXCEPT ![d] = "none"]
          /\ UNCHANGED <<attached, firstSync, synced, early>>
      BY <3>1 DEF ClosesConnection, Goes
    <3>3. AtDevice(m, "detach", d)' /\ ~IsOpen(d)'
      BY <3>2 DEF AtDevice, At, IsOpen, ThreadsTypeOK
    <3>4. \A e \in Devices : e # d => IsOpen(e)' = IsOpen(e)
      BY <3>2 DEF IsOpen, ThreadsTypeOK
    <3>5. SyncedOrDue'
      BY <1>3, <3>2, <3>3, <3>4 DEF SyncedOrDue, Listeners, Steady
    <3>6. QED
      BY <1>3, <3>2, <3>3, <3>4, <3>5 DEF AtDevice, At, Steady
  <2>9. CASE \E d \in Devices : DetachesDevice(m, d)
    <3>1. PICK d \in Devices : DetachesDevice(m, d)
      BY <2>9
    <3>2. /\ AtDevice(m, "detach", d) /\ attached' = attached \ {d}
          /\ UNCHANGED <<client, firstSync, synced, early>>
      BY <3>1 DEF DetachesDevice, Detach
    <3>3. mine2.pc # "attach"
      BY <3>1 DEF DetachesDevice, Goes, GoesBack, Becomes, Idle
    <3>4. \A e \in Devices : IsOpen(e)' = IsOpen(e)
      BY <3>2 DEF IsOpen
    <3>5. \A e \in attached' \cap Steady : IsOpen(e)'
      BY <1>3, <3>2, <3>4 DEF AtDevice, At, Steady
    <3>6. SyncedOrDue'
      BY <1>3, <3>2, <3>4 DEF SyncedOrDue, Listeners, Steady
    <3>7. QED
      BY <3>2, <3>3, <3>5, <3>6 DEF AtDevice, At
  <2>10. QED
    BY <2>2, <2>3, <2>4, <2>5, <2>6, <2>7, <2>8, <2>9
    DEF ManagerStep, ManagerBegins, ManagerContinues
<1>5. ListedAreOpen'
  <2>1. \A n \in Managers, d \in Steady : AtDevice(n, "attach", d)' => IsOpen(d)'
    BY <1>2, <1>4 DEF AtDevice, At
  <2>2. QED
    BY <1>4, <2>1 DEF ListedAreOpen
<1>6. QED
  BY <1>3, <1>4, <1>5 DEF SteadyInv, SteadyDevicesSyncFirst

LEMMA SteadyStep ==
    ThreadsTypeOK /\ Exclusive /\ SteadyInv /\ [Next]_vars => SteadyInv'
<1> SUFFICES ASSUME ThreadsTypeOK, Exclusive, SteadyInv, [Next]_vars
             PROVE  SteadyInv'
  OBVIOUS
<1>1. CASE EngineStep /\ UNCHANGED <<known, mgr>>
  BY <1>1, EngineKeepsSteady
<1>2. CASE \E m \in Managers : ManagerStep(m)
  BY <1>2, ManagerKeepsSteady
<1>3. CASE UNCHANGED vars
  BY <1>3, FewerKeepSteady DEF vars, engineVars
<1>4. QED
  BY <1>1, <1>2, <1>3, StepForms

\* A device whose connection holds hears a sync packet before audio, for every
\* number of devices and threads, whatever may overlap and whichever of the
\* other connections drop (raop/RAOPEngine.cpp:617-630, 660-675).
THEOREM SteadyDevicesAlwaysSyncFirst == Spec => []SteadyDevicesSyncFirst
<1>1. Init => ThreadsTypeOK /\ Exclusive /\ SteadyInv
  BY InitTypes, InitSteady
<1>2. ThreadsTypeOK /\ Exclusive /\ SteadyInv /\ [Next]_vars
        => (ThreadsTypeOK /\ Exclusive /\ SteadyInv)'
  BY TypesStep, SteadyStep
<1>3. SteadyInv => SteadyDevicesSyncFirst
  BY DEF SteadyInv
<1>4. QED
  BY <1>1, <1>2, <1>3, PTL DEF Spec

-----------------------------------------------------------------------------
(***************************************************************************)
(* Room for the packet that the player was told there is room for.         *)
(***************************************************************************)
\* Both buffers have the same number of free slots, always.
RoomsAgree == \A s \in Streams : buf[s].avail \in Int /\ buf[s].avail = buf["secured"].avail

RoomInv == RoomsAgree /\ RoomIsKept

LEMMA InitRoom == Init => RoomInv
  BY LengthAssumption
  DEF Init, EngineInit, StreamInit, EmptyBuffer, RoomInv, RoomsAgree, RoomIsKept, PlayerAt, Streams

\* What a step may do to the buffers without taking room from a player that
\* was promised it.
LEMMA SameRoom ==
    ASSUME RoomInv, UNCHANGED buf,
           PlayerAt("write")' => PlayerAt("write") \/ CanWrite(buf["secured"])
    PROVE  RoomInv'
  BY DEF RoomInv, RoomsAgree, RoomIsKept, PlayerAt, CanWrite

LEMMA MoreRoom ==
    ASSUME RoomInv, buf' = [s \in Streams |-> TakeNext(buf[s])], UNCHANGED player
    PROVE  RoomInv'
<1>1. \A s \in Streams : buf'[s].avail = buf[s].avail + 1
  BY DEF TakeNext
<1>2. QED
  BY <1>1 DEF RoomInv, RoomsAgree, RoomIsKept, PlayerAt, CanWrite, Streams

LEMMA AllRoom ==
    ASSUME buf' = [s \in Streams |-> ResetBuffer(buf[s])]
    PROVE  RoomInv'
<1>1. \A s \in Streams : buf'[s].avail = HeadLength
  BY DEF ResetBuffer
<1>2. QED
  BY <1>1, LengthAssumption DEF RoomInv, RoomsAgree, RoomIsKept, CanWrite, Streams

LEMMA EngineKeepsRoom ==
    ASSUME ThreadsTypeOK, RoomInv, EngineStep
    PROVE  RoomInv'
<1>1. CASE SenderSends
  BY <1>1, MoreRoom DEF SenderSends, SenderTurnBegins, SendPacket
<1>2. CASE PlayerWrites
  <2>1. \A s \in Streams : buf'[s].avail = buf[s].avail - 1
    BY <1>2 DEF PlayerWrites, WritePacket, PutNext
  <2>2. ~PlayerAt("write")'
    BY <1>2 DEF PlayerWrites, PlayerGoes, PlayerAt
  <2>3. QED
    BY <2>1, <2>2 DEF RoomInv, RoomsAgree, RoomIsKept, Streams
<1>3. CASE PlayerRewinds
  BY <1>3, AllRoom DEF PlayerRewinds, ResetStream
<1>4. CASE PlayerAsks
  BY <1>4, SameRoom DEF PlayerAsks, EngineCanWrite, streamVars
<1>5. CASE \/ SenderTest \/ SenderWaits \/ PlayerFlushes
           \/ \E d \in Lossy : ConnectionDrops(d)
  BY <1>5, SameRoom
  DEF SenderTest, SenderWaits, SenderTurnBegins, PlayerFlushes, ConnectionDrops, PlayerAt, streamVars
<1>6. CASE PlayerResets \/ PlayerJoins \/ PlayerLocks \/ PlayerFlushesDevice
  <2>1. UNCHANGED buf /\ ~PlayerAt("write")'
    BY <1>6
    DEF PlayerResets, PlayerJoins, PlayerLocks, PlayerFlushesDevice, PlayerGoes, PlayerAt,
        streamVars, ThreadsTypeOK
  <2>2. QED
    BY <2>1, SameRoom
<1>7. CASE \E d \in Devices : PlayerLooksAt(d)
  <2>1. UNCHANGED buf /\ player'.pc \in {"flush", "flushDevice"}
    BY <1>7 DEF PlayerLooksAt, streamVars
  <2>2. QED
    BY <2>1, SameRoom DEF PlayerAt
<1>8. QED
  BY <1>1, <1>2, <1>3, <1>4, <1>5, <1>6, <1>7
  DEF EngineStep, SenderNext, PlayerContinues, PlayerBegins

LEMMA ManagerKeepsRoom ==
    ASSUME RoomInv, NEW m \in Managers, ManagerStep(m)
    PROVE  RoomInv'
<1>1. CASE ReinitEnds(m)
  BY <1>1, AllRoom DEF ReinitEnds, ReinitRest
<1>2. CASE ~ReinitEnds(m)
  <2>1. UNCHANGED <<buf, player>>
    BY <1>2
    DEF ManagerStep, ManagerBegins, ManagerContinues, OpenBegins, DestroyBegins, CloseAllBegins,
        FailsToConnect, TestsDevice, FindsDeviceOpen, JoinsOpenDevices, ReinitStops, OpensDevice,
        AttachesDevice, ClosesConnection, DetachesDevice, DestroysAfterFailure, ReinitJoins,
        ReinitBegins, ReinitNumbers, OpenEnds, DetachJoins, CloseAllContinues, Destroys, Connects,
        engineVars, streamVars
  <2>2. QED
    BY <2>1, SameRoom DEF PlayerAt
<1>3. QED
  BY <1>1, <1>2

\* The packet that write() puts after canWrite() said yes always finds room in
\* both buffers, for every size of the buffers and whatever the other threads
\* do in between (raop/RAOPEngine.cpp:472-482, OutputBuffer.cpp:112-150).
THEOREM RoomIsAlwaysKept == Spec => []RoomIsKept
<1>1. ThreadsTypeOK /\ Exclusive /\ RoomInv /\ [Next]_vars => (ThreadsTypeOK /\ Exclusive /\ RoomInv)'
  <2> SUFFICES ASSUME ThreadsTypeOK, Exclusive, RoomInv, [Next]_vars
               PROVE  ThreadsTypeOK' /\ Exclusive' /\ RoomInv'
    OBVIOUS
  <2>1. CASE UNCHANGED vars
    BY <2>1, TypesStep, SameRoom DEF vars, engineVars, streamVars, PlayerAt
  <2>2. QED
    BY <2>1, StepForms, TypesStep, EngineKeepsRoom, ManagerKeepsRoom
<1>2. RoomInv => RoomIsKept
  BY DEF RoomInv
<1>3. QED
  BY InitTypes, InitRoom, <1>1, <1>2, PTL DEF Spec

-----------------------------------------------------------------------------
(***************************************************************************)
(* A session is initialised while nobody streams.  reinit() takes no lock  *)
(* for it: what keeps the others out is that the sender was stopped, and   *)
(* that the player opens devices from outside its calls.                   *)
(***************************************************************************)
OpensAlone == "open" \notin Overlap

\* The places of openDevice() are places of an operation that opens, and so
\* are those of the closing that it comes back from.
OpPlaces(r) ==
    /\ r.pc \in OpenPlaces \cup {"deactivate"} => r.op = "open"
    /\ r.pc \in ClosePlaces /\ r.then \in {"check", "deactivate"} => r.op = "open"
    /\ r.pc = "next" => r.then = "next"

Opening(r) == r.pc # "idle" /\ r.op = "open"

OpsAtPlaces == \A m \in Managers : OpPlaces(mgr[m])

PlayerStaysOut == \A m \in Managers : Opening(mgr[m]) => PlayerAt("idle")

AloneInv == OpsAtPlaces /\ PlayerStaysOut /\ ReinitFindsSenderStopped

LEMMA InitAlone == Init => AloneInv
  BY DEF Init, EngineInit, Idle, AloneInv, OpsAtPlaces, PlayerStaysOut, ReinitFindsSenderStopped,
         OpPlaces, Opening, OpenPlaces, ClosePlaces, PlayerAt, At

\* No call of the player's begins while a manager opens a device, and no call
\* in progress meets one that does.
LEMMA EngineKeepsAlone ==
    ASSUME OpensAlone, AloneInv, EngineStep, UNCHANGED <<known, mgr>>
    PROVE  AloneInv'
<1>1. OpsAtPlaces'
  BY DEF AloneInv, OpsAtPlaces
<1>2. ASSUME NEW m \in Managers, Opening(mgr[m])
      PROVE  PlayerAt("idle") /\ PlayerAt("idle")' /\ (sender = "off" => sender' = "off")
  <2>1. PlayerAt("idle")
    BY <1>2 DEF AloneInv, PlayerStaysOut
  <2>2. CASE SenderNext \/ \E d \in Lossy : ConnectionDrops(d)
    BY <2>1, <2>2
    DEF SenderNext, SenderTest, SenderSends, SenderWaits, SenderTurnBegins, ConnectionDrops, PlayerAt
  <2>3. ~PlayerContinues
    BY <2>1
    DEF PlayerContinues, PlayerWrites, PlayerJoins, PlayerLocks, PlayerLooksAt,
        PlayerFlushesDevice, PlayerRewinds, PlayerAt
  <2>4. ~ManagersAllowPlayer
    BY <1>2 DEF ManagersAllowPlayer, Opening, OpensAlone, At
  <2>5. QED
    BY <2>1, <2>2, <2>3, <2>4 DEF EngineStep
<1>3. PlayerStaysOut'
  BY <1>2 DEF PlayerStaysOut
<1>4. ReinitFindsSenderStopped'
  <2> SUFFICES ASSUME NEW m \in Managers, mgr[m].pc \in {"fresh", "rewind"}
               PROVE  sender' = "off"
    BY DEF ReinitFindsSenderStopped, At
  <2>1. sender = "off"
    BY DEF AloneInv, ReinitFindsSenderStopped, At
  <2>2. Opening(mgr[m])
    BY DEF AloneInv, OpsAtPlaces, OpPlaces, Opening, OpenPlaces
  <2>3. QED
    BY <1>2, <2>1, <2>2
<1>5. QED
  BY <1>1, <1>3, <1>4 DEF AloneInv

\* What a step of a manager does to its operation.
LEMMA ManagerKeepsOps ==
    ASSUME ThreadsTypeOK, OpensAlone, NEW m \in Managers, ManagerStep(m), OpPlaces(mgr[m])
    PROVE  /\ OpPlaces(mgr'[m])
           /\ Opening(mgr'[m]) => Opening(mgr[m]) \/ PlayerAt("idle")
           /\ mgr'[m].pc \in {"fresh", "rewind"} => mgr[m].pc \in {"fresh", "rewind"} \/ sender = "off"
<1> DEFINE mine == mgr[m]
           mine2 == mgr'[m]
           Kept == /\ OpPlaces(mine2)
                   /\ Opening(mine2) => Opening(mine) \/ PlayerAt("idle")
                   /\ mine2.pc \in {"fresh", "rewind"} => mine.pc \in {"fresh", "rewind"} \/ sender = "off"
<1>1. mgr \in [Managers -> MgrRecord] /\ mine \in MgrRecord
  BY DEF ThreadsTypeOK, MgrRecord
<1> USE <1>1 DEF MgrRecord, OpPlaces, Opening, OpenPlaces, ClosePlaces
<1>2. CASE \E d \in Devices : OpenBegins(m, d)
  <2>1. mine2.op = "open" /\ mine2.pc \in {"check", "test"} /\ PlayerAt("idle")
    BY <1>2 DEF OpenBegins, MayBegin, OpensAlone, Becomes, Idle
  <2>2. QED
    BY <2>1
<1>3. CASE \E d \in Devices : DestroyBegins(m, d)
  <2>1. mine2.pc \in {"idle", "close"} /\ (mine2.pc = "close" => mine2.op = "lose") /\ mine2.then = "idle"
    BY <1>3, DestroysMoves DEF DestroyBegins
  <2>2. QED
    BY <2>1
<1>4. CASE \E d \in Devices : DestroysAfterFailure(m, d)
  <2>1. mine2.pc \in {"idle", "close"} /\ mine2.then = "idle" /\ mine.pc = "deactivate"
    BY <1>4, DestroysMoves DEF DestroysAfterFailure, AtDevice, At
  <2>2. QED
    BY <2>1
<1>5. CASE CloseAllBegins(m)
  <2>1. mine2.pc = "next" /\ mine2.op = "shut" /\ mine2.then = "next"
    BY <1>5 DEF CloseAllBegins, Becomes, Idle
  <2>2. QED
    BY <2>1
<1>6. CASE CloseAllContinues(m)
  <2>1. mine.pc = "next"
    BY <1>6 DEF CloseAllContinues, At
  <2>2. CASE mine2 = Idle
    BY <2>2 DEF Idle
  <2>3. CASE \E d \in mine.todo :
               mine2 = [pc |-> "close", op |-> mine.op, dev |-> {d},
                        todo |-> mine.todo \ {d}, then |-> mine.then]
    BY <2>1, <2>3
  <2>4. QED
    BY <1>6, <2>2, <2>3, CloseAllMoves, Zenon
<1>7. CASE \E d \in Devices : TestsDevice(m, d)
  <2>1. mine.pc = "test" /\ mine2.op = mine.op /\ mine2.pc \in {"close", "deactivate"}
    BY <1>7 DEF TestsDevice, AtDevice, At, Goes
  <2>2. QED
    BY <2>1
<1>8. CASE \E d \in Devices : FailsToConnect(m, d) \/ OpensDevice(m, d) \/ AttachesDevice(m, d)
  <2>1. /\ mine.pc \in {"test", "connect", "attach"} /\ mine2.op = mine.op
        /\ mine2.pc \in {"deactivate", "attach", "finish"}
    BY <1>8 DEF FailsToConnect, OpensDevice, AttachesDevice, AtDevice, At, Goes
  <2>2. QED
    BY <2>1
<1>9. CASE (\E d \in Devices : FindsDeviceOpen(m, d)) \/ OpenEnds(m)
  <2>1. mine.pc \in {"check", "finish"}
    BY <1>9 DEF FindsDeviceOpen, OpenEnds, AtDevice, At
  <2>2. mine2.pc = "idle" \/ (mine2.pc = "deactivate" /\ mine2.op = mine.op)
    BY <1>9 DEF FindsDeviceOpen, OpenEnds, Becomes, Goes, Idle
  <2>3. QED
    BY <2>1, <2>2
<1>10. CASE \/ \E d \in Devices : JoinsOpenDevices(m, d) \/ ReinitStops(m, d)
            \/ ReinitJoins(m) \/ ReinitBegins(m) \/ ReinitEnds(m)
  <2>1. /\ mine.pc \in {"check", "join", "fresh", "rewind"} /\ mine2.op = mine.op
        /\ mine2.pc \in {"connect", "join", "fresh", "rewind"}
        /\ mine2.pc = "fresh" => sender = "off"
        /\ mine2.pc = "rewind" => mine.pc = "fresh"
    BY <1>10 DEF JoinsOpenDevices, ReinitStops, ReinitJoins, ReinitBegins, ReinitEnds, SenderJoined,
                 AtDevice, At, Goes
  <2>2. QED
    BY <2>1
<1>11. CASE \E d \in Devices : ClosesConnection(m, d)
  <2>1. mine.pc = "close" /\ mine2.pc = "detach" /\ mine2.op = mine.op /\ mine2.then = mine.then
    BY <1>11 DEF ClosesConnection, AtDevice, At, Goes
  <2>2. QED
    BY <2>1
<1>12. CASE (\E d \in Devices : DetachesDevice(m, d)) \/ DetachJoins(m)
  <2>1. mine.pc \in {"detach", "leave"}
        /\ (GoesBack(m) \/ (mine2.pc = "leave" /\ mine2.op = mine.op /\ mine2.then = mine.then))
    BY <1>12 DEF DetachesDevice, DetachJoins, AtDevice, At, Goes
  <2>2. \/ mine2.pc = "idle"
        \/ mine2.pc = mine.then /\ mine2.op = mine.op /\ mine2.then = mine.then
        \/ mine2.pc = "leave" /\ mine2.op = mine.op /\ mine2.then = mine.then
    BY <2>1 DEF GoesBack, Becomes, Goes, Idle
  <2>3. QED
    BY <2>1, <2>2
<1>13. QED
  BY <1>2, <1>3, <1>4, <1>5, <1>6, <1>7, <1>8, <1>9, <1>10, <1>11, <1>12
  DEF ManagerStep, ManagerBegins, ManagerContinues

LEMMA ManagerKeepsAlone ==
    ASSUME ThreadsTypeOK, Exclusive, OpensAlone, AloneInv, NEW m \in Managers, ManagerStep(m)
    PROVE  AloneInv'
<1>1. UNCHANGED <<player, sender>>
  BY DEF ManagerStep, ManagerBegins, ManagerContinues, OpenBegins, DestroyBegins, CloseAllBegins,
         FailsToConnect, TestsDevice, FindsDeviceOpen, JoinsOpenDevices, ReinitStops, OpensDevice,
         AttachesDevice, ClosesConnection, DetachesDevice, DestroysAfterFailure, ReinitJoins,
         ReinitBegins, ReinitEnds, OpenEnds, DetachJoins, CloseAllContinues, Destroys, Connects,
         engineVars
<1>2. /\ OpPlaces(mgr'[m])
      /\ Opening(mgr'[m]) => Opening(mgr[m]) \/ PlayerAt("idle")
      /\ mgr'[m].pc \in {"fresh", "rewind"} => mgr[m].pc \in {"fresh", "rewind"} \/ sender = "off"
  BY ManagerKeepsOps DEF AloneInv, OpsAtPlaces
<1>3. \A n \in Managers : n # m => mgr'[n] = mgr[n]
  BY OthersAreOutside
<1>4. OpsAtPlaces'
  BY <1>2, <1>3 DEF AloneInv, OpsAtPlaces
<1>5. PlayerStaysOut'
  BY <1>1, <1>2, <1>3 DEF AloneInv, PlayerStaysOut, PlayerAt
<1>6. ReinitFindsSenderStopped'
  BY <1>1, <1>2, <1>3 DEF AloneInv, ReinitFindsSenderStopped, At
<1>7. QED
  BY <1>4, <1>5, <1>6 DEF AloneInv

LEMMA AloneStep ==
    ASSUME OpensAlone, ThreadsTypeOK, Exclusive, AloneInv, [Next]_vars
    PROVE  AloneInv'
<1>1. CASE EngineStep /\ UNCHANGED <<known, mgr>>
  BY <1>1, EngineKeepsAlone
<1>2. CASE \E m \in Managers : ManagerStep(m)
  BY <1>2, ManagerKeepsAlone
<1>3. CASE UNCHANGED vars
  BY <1>3 DEF vars, engineVars, AloneInv, OpsAtPlaces, PlayerStaysOut, ReinitFindsSenderStopped,
              PlayerAt, At
<1>4. QED
  BY <1>1, <1>2, <1>3, StepForms

\* When no device is opened in the middle of a call of the player's, reinit()
\* assigns the state of the session while the sender thread does not run
\* (raop/RAOPEngine.cpp:306-313).
THEOREM ReinitAlwaysFindsSenderStopped ==
    ASSUME OpensAlone
    PROVE  Spec => []ReinitFindsSenderStopped
<1>1. Init => ThreadsTypeOK /\ Exclusive /\ AloneInv
  BY InitTypes, InitAlone
<1>2. ThreadsTypeOK /\ Exclusive /\ AloneInv /\ [Next]_vars
        => (ThreadsTypeOK /\ Exclusive /\ AloneInv)'
  BY TypesStep, AloneStep
<1>3. AloneInv => ReinitFindsSenderStopped
  BY DEF AloneInv
<1>4. QED
  BY <1>1, <1>2, <1>3, PTL DEF Spec

-----------------------------------------------------------------------------
(***************************************************************************)
(* The engine implements the stream.                                       *)
(***************************************************************************)
\* The stream's operators are the engine's: only the variables are mapped.
LEMMA SameOperators ==
    /\ Stream!Streams = Streams
    /\ \A b : Stream!CanWrite(b) = CanWrite(b) /\ Stream!CanRead(b) = CanRead(b)
    /\ \A b, p : Stream!PutNext(b, p) = PutNext(b, p)
    /\ \A b : Stream!TakeNext(b) = TakeNext(b) /\ Stream!NextBuffered(b) = NextBuffered(b)
    /\ \A b : Stream!ResetBuffer(b) = ResetBuffer(b)
    /\ \A q : Stream!NextSeq(q) = NextSeq(q)
    /\ Stream!DataIsPending = DataIsPending
<1>1. \A i : Stream!NextIndex(i) = NextIndex(i)
  BY DEF Stream!NextIndex, NextIndex, Stream!RingSize, RingSize
<1>2. QED
  BY <1>1
  DEF Stream!Streams, Streams, Stream!CanWrite, CanWrite, Stream!CanRead, CanRead, Stream!PutNext,
      PutNext, Stream!TakeNext, TakeNext, Stream!NextBuffered, NextBuffered, Stream!ResetBuffer,
      ResetBuffer, Stream!NextSeq, NextSeq, Stream!DataIsPending, DataIsPending

LEMMA WriteIsWrite ==
    ASSUME ~Rewinding, ~Rewinding', firstData \in BOOLEAN, WritePacket
    PROVE  Stream!WritePacket
<1>1. Stream!NewPacket = NewPacket
  BY DEF Stream!NewPacket, NewPacket
<1>2. \A s \in Streams : CanWrite(buf[s])
  BY DEF WritePacket
<1>3. buf' = [s \in Streams |-> PutNext(buf[s], NewPacket)]
  BY DEF WritePacket
<1>4. /\ written < MaxWrites /\ seqIn' = NextSeq(seqIn) /\ ~firstData' /\ written' = written + 1
      /\ UNCHANGED <<seqOut, log, since>>
  BY DEF WritePacket
<1>5. QED
  BY <1>1, <1>2, <1>3, <1>4, SameOperators DEF Stream!WritePacket

LEMMA SendIsSend ==
    ASSUME ~Rewinding, ~Rewinding', SendPacket
    PROVE  Stream!SendPacket
<1>1. DataIsPending /\ \A s \in Streams : CanRead(buf[s])
  BY DEF SendPacket
<1>2. log' = Append(log, NextBuffered(buf["secured"])) /\ since' = since + 1
  BY DEF SendPacket
<1>3. buf' = [s \in Streams |-> TakeNext(buf[s])]
  BY DEF SendPacket
<1>4. seqOut' = NextSeq(seqOut) /\ UNCHANGED <<seqIn, firstData, written>>
  BY DEF SendPacket
<1>5. QED
  BY <1>1, <1>2, <1>3, <1>4, SameOperators DEF Stream!SendPacket

LEMMA ResetIsReset ==
    ASSUME ~Rewinding, ~Rewinding', ResetStream
    PROVE  Stream!ResetStream
<1>1. buf' = [s \in Streams |-> ResetBuffer(buf[s])]
  BY DEF ResetStream
<1>2. seqIn' = seqOut /\ firstData' = TRUE /\ since' = 0 /\ UNCHANGED <<seqOut, written, log>>
  BY DEF ResetStream
<1>3. QED
  BY <1>1, <1>2, SameOperators DEF Stream!ResetStream

\* The numbers are assigned: from then on the buffers count as rewound.
LEMMA NumbersAreReinit ==
    ASSUME ~Rewinding, Rewinding', ReinitNumbers
    PROVE  Stream!ReinitStream
<1>1. PICK q \in 0 .. SeqMod - 1 :
        seqIn' = q /\ seqOut' = q /\ UNCHANGED <<buf, firstData, written, log, since>>
  BY DEF ReinitNumbers
<1>2. QED
  BY <1>1, SameOperators DEF Stream!ReinitStream

\* Then they are.
LEMMA RestIsStutter ==
    ASSUME Rewinding, ~Rewinding', ReinitRest
    PROVE  UNCHANGED Stream!streamVars
  BY DEF ReinitRest, Stream!streamVars

LEMMA OutsideIsStutter ==
    ASSUME UNCHANGED streamVars, Rewinding' = Rewinding
    PROVE  UNCHANGED Stream!streamVars
  BY DEF Stream!streamVars, streamVars

\* A manager is in the middle of reinit() from its first half to its second.
LEMMA ManagerRewinds ==
    ASSUME ThreadsTypeOK, NEW m \in Managers, ManagerStep(m), ~ReinitBegins(m), ~ReinitEnds(m)
    PROVE  UNCHANGED streamVars /\ mgr[m].pc # "rewind" /\ mgr'[m].pc # "rewind"
<1> DEFINE mine == mgr[m]
           mine2 == mgr'[m]
<1>1. mgr \in [Managers -> MgrRecord] /\ mine \in MgrRecord
  BY DEF ThreadsTypeOK, MgrRecord
<1>2. UNCHANGED streamVars
  BY DEF ManagerStep, ManagerBegins, ManagerContinues, OpenBegins, DestroyBegins, CloseAllBegins,
         FailsToConnect, TestsDevice, FindsDeviceOpen, JoinsOpenDevices, ReinitStops, OpensDevice,
         AttachesDevice, ClosesConnection, DetachesDevice, DestroysAfterFailure, ReinitJoins,
         OpenEnds, DetachJoins, CloseAllContinues, Destroys, Connects, engineVars
<1>3. mine.pc # "rewind"
  BY DEF ManagerStep, ManagerBegins, ManagerContinues, OpenBegins, DestroyBegins, CloseAllBegins,
         FailsToConnect, TestsDevice, FindsDeviceOpen, JoinsOpenDevices, ReinitStops, OpensDevice,
         AttachesDevice, ClosesConnection, DetachesDevice, DestroysAfterFailure, ReinitJoins,
         OpenEnds, DetachJoins, CloseAllContinues, MayBegin, AtDevice, At
<1> USE <1>1 DEF MgrRecord
<1>4. CASE \E d \in Devices : OpenBegins(m, d)
  <2>1. mine2.pc \in {"check", "test"}
    BY <1>4 DEF OpenBegins, Becomes, Idle
  <2>2. QED
    BY <1>2, <1>3, <2>1
<1>5. CASE \E d \in Devices : DestroyBegins(m, d) \/ DestroysAfterFailure(m, d)
  <2>1. PICK d \in Devices, op \in {"open", "lose"} : Destroys(m, d, op)
    BY <1>5 DEF DestroyBegins, DestroysAfterFailure
  <2>2. mine2.pc \in {"idle", "close"}
    BY <2>1, DestroysMoves
  <2>3. QED
    BY <1>2, <1>3, <2>2
<1>6. CASE CloseAllContinues(m)
  <2>1. CASE mine2 = Idle
    BY <1>2, <1>3, <2>1 DEF Idle
  <2>2. CASE \E d \in mine.todo :
               mine2 = [pc |-> "close", op |-> mine.op, dev |-> {d},
                        todo |-> mine.todo \ {d}, then |-> mine.then]
    BY <1>2, <1>3, <2>2
  <2>3. QED
    BY <1>6, <2>1, <2>2, CloseAllMoves, Zenon
<1>7. CASE CloseAllBegins(m) \/ OpenEnds(m) \/ \E d \in Devices : FindsDeviceOpen(m, d)
  <2>1. CASE CloseAllBegins(m)
    BY <1>2, <1>3, <2>1 DEF CloseAllBegins, Becomes, Idle
  <2>2. CASE OpenEnds(m) \/ \E d \in Devices : FindsDeviceOpen(m, d)
    <3>1. Becomes(m, Idle) \/ Goes(m, "deactivate")
      BY <2>2 DEF OpenEnds, FindsDeviceOpen
    <3>2. QED
      BY <1>2, <1>3, <3>1 DEF Becomes, Goes, Idle
  <2>3. QED
    BY <1>7, <2>1, <2>2
<1>8. CASE \E d \in Devices : TestsDevice(m, d)
  <2>1. mine2.pc \in {"close", "deactivate"}
    BY <1>8 DEF TestsDevice, Goes
  <2>2. QED
    BY <1>2, <1>3, <2>1
<1>9. CASE \/ ReinitJoins(m)
           \/ \E d \in Devices : \/ FailsToConnect(m, d) \/ OpensDevice(m, d) \/ AttachesDevice(m, d)
                                 \/ JoinsOpenDevices(m, d) \/ ReinitStops(m, d)
                                 \/ ClosesConnection(m, d)
  <2>1. mine2.pc \in {"fresh", "deactivate", "attach", "finish", "connect", "join", "detach"}
    BY <1>9 DEF ReinitJoins, FailsToConnect, OpensDevice, AttachesDevice, JoinsOpenDevices,
                ReinitStops, ClosesConnection, Goes
  <2>2. QED
    BY <1>2, <1>3, <2>1
<1>10. CASE DetachJoins(m) \/ \E d \in Devices : DetachesDevice(m, d)
  <2>1. GoesBack(m) \/ mine2.pc = "leave"
    BY <1>10 DEF DetachJoins, DetachesDevice, Goes
  <2>2. mine2.pc \in {"idle", "leave", "check", "deactivate", "next"}
    BY <2>1 DEF GoesBack, Becomes, Goes, Idle
  <2>3. QED
    BY <1>2, <1>3, <2>2
<1>11. QED
  BY <1>4, <1>5, <1>6, <1>7, <1>8, <1>9, <1>10 DEF ManagerStep, ManagerBegins, ManagerContinues

FirstDataOK == firstData \in BOOLEAN

LEMMA ManagerImplements ==
    ASSUME ThreadsTypeOK, Exclusive, FirstDataOK, NEW m \in Managers, ManagerStep(m)
    PROVE  FirstDataOK' /\ (Stream!StreamNext \/ UNCHANGED Stream!streamVars)
<1>1. /\ mgr \in [Managers -> MgrRecord] /\ mgr[m] \in MgrRecord
      /\ \A n \in Managers : n # m => mgr[n].pc # "rewind" /\ mgr'[n].pc # "rewind"
  BY OthersAreOutside DEF ThreadsTypeOK, MgrRecord, HoldsMutex
<1>2. (Rewinding <=> mgr[m].pc = "rewind") /\ (Rewinding' <=> mgr'[m].pc = "rewind")
  BY <1>1 DEF Rewinding, At
<1>3. CASE ReinitBegins(m)
  <2>1. mgr[m].pc = "fresh" /\ mgr'[m].pc = "rewind"
    BY <1>1, <1>3 DEF ReinitBegins, At, Goes, MgrRecord
  <2>2. ReinitNumbers /\ UNCHANGED firstData
    BY <1>3 DEF ReinitBegins, ReinitNumbers
  <2>3. QED
    BY <1>2, <2>1, <2>2, NumbersAreReinit DEF Stream!StreamNext, FirstDataOK
<1>4. CASE ReinitEnds(m)
  <2>1. mgr[m].pc = "rewind" /\ mgr'[m].pc = "connect"
    BY <1>1, <1>4 DEF ReinitEnds, At, Goes, MgrRecord
  <2>2. ReinitRest /\ firstData' = TRUE
    BY <1>4 DEF ReinitEnds, ReinitRest
  <2>3. QED
    BY <1>2, <2>1, <2>2, RestIsStutter DEF FirstDataOK
<1>5. CASE ~ReinitBegins(m) /\ ~ReinitEnds(m)
  <2>1. UNCHANGED streamVars /\ mgr[m].pc # "rewind" /\ mgr'[m].pc # "rewind"
    BY <1>5, ManagerRewinds
  <2>2. Rewinding' = Rewinding
    BY <1>2, <2>1 DEF Rewinding
  <2>3. QED
    BY <2>1, <2>2, OutsideIsStutter DEF FirstDataOK, streamVars
<1>6. QED
  BY <1>3, <1>4, <1>5

LEMMA EngineImplements ==
    ASSUME OpensAlone, AloneInv, FirstDataOK, EngineStep, UNCHANGED <<known, mgr>>
    PROVE  FirstDataOK' /\ (Stream!StreamNext \/ UNCHANGED Stream!streamVars)
<1>1. Rewinding' = Rewinding
  BY DEF Rewinding, At
<1>2. Rewinding => sender = "off" /\ PlayerAt("idle")
  BY DEF Rewinding, At, AloneInv, OpsAtPlaces, PlayerStaysOut, ReinitFindsSenderStopped, OpPlaces,
         Opening, OpenPlaces
<1>3. CASE SenderSends
  <2>1. SendPacket /\ ~Rewinding /\ UNCHANGED firstData
    BY <1>2, <1>3 DEF SenderSends, SenderTurnBegins, SendPacket
  <2>2. QED
    BY <1>1, <2>1, SendIsSend DEF Stream!StreamNext, Stream!SessionNext, FirstDataOK
<1>4. CASE PlayerWrites
  <2>1. WritePacket /\ ~Rewinding /\ firstData' = FALSE
    BY <1>2, <1>4 DEF PlayerWrites, WritePacket, PlayerAt
  <2>2. QED
    BY <1>1, <2>1, WriteIsWrite DEF Stream!StreamNext, Stream!SessionNext, FirstDataOK
<1>5. CASE PlayerRewinds
  <2>1. ResetStream /\ ~Rewinding /\ firstData' = TRUE
    BY <1>2, <1>5 DEF PlayerRewinds, ResetStream, PlayerAt
  <2>2. QED
    BY <1>1, <2>1, ResetIsReset DEF Stream!StreamNext, Stream!SessionNext, FirstDataOK
<1>6. CASE ~SenderSends /\ ~PlayerWrites /\ ~PlayerRewinds
  <2>1. UNCHANGED streamVars
    BY <1>6
    DEF EngineStep, SenderNext, SenderTest, SenderWaits, PlayerContinues, PlayerBegins, PlayerAsks,
        PlayerFlushes, PlayerResets, PlayerJoins, PlayerLocks, PlayerLooksAt, PlayerFlushesDevice,
        ConnectionDrops
  <2>2. QED
    BY <1>1, <2>1, OutsideIsStutter DEF FirstDataOK, streamVars
<1>7. QED
  BY <1>3, <1>4, <1>5, <1>6

LEMMA InitImplements == Init => FirstDataOK /\ Stream!StreamInit
<1> SUFFICES ASSUME Init PROVE FirstDataOK /\ Stream!StreamInit
  OBVIOUS
<1>1. ~Rewinding
  BY DEF Init, Idle, Rewinding, At
<1>2. StreamInit
  BY DEF Init, EngineInit
<1>3. Stream!EmptyBuffer(Stream!Blank) = EmptyBuffer(Blank) /\ Stream!Streams = Streams
  BY DEF Stream!EmptyBuffer, EmptyBuffer, Stream!Blank, Blank, Stream!Slot, Slot, Stream!RingSize,
         RingSize, Stream!Streams, Streams
<1>4. QED
  BY <1>1, <1>2, <1>3 DEF StreamInit, Stream!StreamInit, FirstDataOK

MapInv == ThreadsTypeOK /\ Exclusive /\ AloneInv /\ FirstDataOK

LEMMA MappedStep ==
    ASSUME OpensAlone, MapInv, [Next]_vars
    PROVE  MapInv' /\ [Stream!StreamNext]_(Stream!streamVars)
<1>1. ThreadsTypeOK' /\ Exclusive' /\ AloneInv'
  BY TypesStep, AloneStep DEF MapInv
<1>2. CASE UNCHANGED vars
  <2>1. UNCHANGED streamVars /\ Rewinding' = Rewinding
    BY <1>2 DEF vars, engineVars, Rewinding, At
  <2>2. QED
    BY <1>1, <2>1, OutsideIsStutter DEF MapInv, FirstDataOK, streamVars
<1>3. CASE EngineStep /\ UNCHANGED <<known, mgr>>
  BY <1>1, <1>3, EngineImplements DEF MapInv
<1>4. CASE \E m \in Managers : ManagerStep(m)
  BY <1>1, <1>4, ManagerImplements DEF MapInv
<1>5. QED
  BY <1>2, <1>3, <1>4, StepForms

LEMMA InitMapped == Init => MapInv /\ Stream!StreamInit
  BY InitTypes, InitAlone, InitImplements DEF MapInv

\* With all its threads around it, and however many devices and managers, the
\* engine does nothing to the stream but write, send, reset and begin a
\* session, one at a time, as long as no device is opened in the middle of a
\* call of the player's (raop/RAOPEngine.cpp:306-400, 479-540, 577-720).
THEOREM EngineImplementsTheStream ==
    ASSUME OpensAlone
    PROVE  Spec => EngineImplementsStream
  BY InitMapped, MappedStep, PTL DEF Spec, EngineImplementsStream, Stream!StreamSpec

\* The theorems about the stream, read through the same mapping.
StreamProofs ==
    INSTANCE RAOPStreamProofs WITH
        buf       <- IF Rewinding THEN [s \in Streams |-> ResetBuffer(buf[s])] ELSE buf,
        firstData <- firstData \/ Rewinding,
        since     <- IF Rewinding THEN 0 ELSE since

\* They are about the same stream.
LEMMA SameSpec == Stream!StreamSpec => StreamProofs!StreamSpec
<1>1. Stream!StreamInit => StreamProofs!StreamInit
  BY DEF Stream!StreamInit, StreamProofs!StreamInit, Stream!EmptyBuffer, StreamProofs!EmptyBuffer,
         Stream!Blank, StreamProofs!Blank, Stream!Slot, StreamProofs!Slot, Stream!RingSize,
         StreamProofs!RingSize, Stream!Streams, StreamProofs!Streams
<1>2. Stream!StreamNext => StreamProofs!StreamNext
  <2>1. \A i : Stream!NextIndex(i) = StreamProofs!NextIndex(i)
    BY DEF Stream!NextIndex, StreamProofs!NextIndex, Stream!RingSize, StreamProofs!RingSize
  <2> USE DEF Stream!Streams, StreamProofs!Streams, Stream!NextSeq, StreamProofs!NextSeq
  <2>2. Stream!WritePacket => StreamProofs!WritePacket
    BY <2>1
    DEF Stream!WritePacket, StreamProofs!WritePacket, Stream!CanWrite, StreamProofs!CanWrite,
        Stream!PutNext, StreamProofs!PutNext, Stream!NewPacket, StreamProofs!NewPacket
  <2>3. Stream!SendPacket => StreamProofs!SendPacket
    BY <2>1
    DEF Stream!SendPacket, StreamProofs!SendPacket, Stream!CanRead, StreamProofs!CanRead,
        Stream!DataIsPending, StreamProofs!DataIsPending, Stream!TakeNext, StreamProofs!TakeNext,
        Stream!NextBuffered, StreamProofs!NextBuffered
  <2>4. Stream!ResetStream => StreamProofs!ResetStream
    BY DEF Stream!ResetStream, StreamProofs!ResetStream, Stream!ResetBuffer, StreamProofs!ResetBuffer
  <2>5. Stream!ReinitStream => StreamProofs!ReinitStream
    BY DEF Stream!ReinitStream, StreamProofs!ReinitStream, Stream!ResetBuffer,
           StreamProofs!ResetBuffer
  <2>6. QED
    BY <2>2, <2>3, <2>4, <2>5
    DEF Stream!StreamNext, StreamProofs!StreamNext, Stream!SessionNext, StreamProofs!SessionNext
<1>3. UNCHANGED Stream!streamVars => UNCHANGED StreamProofs!streamVars
  BY DEF Stream!streamVars, StreamProofs!streamVars
<1>4. QED
  BY <1>1, <1>2, <1>3, PTL DEF Stream!StreamSpec, StreamProofs!StreamSpec

\* What the stream promises, in the program with all its threads.
StreamStands ==
    /\ SenderGuardAgreesWithBuffers
    /\ PendingInSequence
    /\ SentPacketsRetained
    /\ MarkerStartsStream
    /\ AudioInOrderOnce
    /\ ResendsAreFaithful

LogInOrder == \A i, j \in 1 .. Len(log) : i < j => log[i].audio < log[j].audio

StandsInMap ==
    /\ StreamProofs!SenderGuardAgreesWithBuffers
    /\ StreamProofs!PendingInSequence
    /\ StreamProofs!SentPacketsRetained
    /\ StreamProofs!MarkerStartsStream
    /\ StreamProofs!AudioInOrderOnce
    /\ StreamProofs!ResendsAreFaithful

\* Outside reinit() the map changes nothing.
LEMMA StandsOutside ==
    ASSUME FirstDataOK, ~Rewinding, StandsInMap
    PROVE  StreamStands
<1> USE DEF FirstDataOK, StreamProofs!Streams, Streams
<1>1. \A i, k : StreamProofs!AheadIndex(i, k) = AheadIndex(i, k) /\ StreamProofs!PrevIndex(i, k) = PrevIndex(i, k)
  BY DEF StreamProofs!AheadIndex, AheadIndex, StreamProofs!PrevIndex, PrevIndex,
         StreamProofs!RingSize, RingSize
<1>2. /\ \A b : StreamProofs!Unsent(b) = Unsent(b) /\ StreamProofs!CanRead(b) = CanRead(b)
      /\ \A b, k : /\ StreamProofs!Ahead(b, k) = Ahead(b, k)
                   /\ StreamProofs!PrevBuffered(b, k) = PrevBuffered(b, k)
      /\ \A k : StreamProofs!LastSent(k) = LastSent(k) /\ StreamProofs!HasPrev(k) = HasPrev(k)
  BY <1>1
  DEF StreamProofs!Unsent, Unsent, StreamProofs!CanRead, CanRead, StreamProofs!Ahead, Ahead,
      StreamProofs!PrevBuffered, PrevBuffered, StreamProofs!LastSent, LastSent,
      StreamProofs!HasPrev, HasPrev
<1>3. (StreamProofs!DataIsPending <=> DataIsPending) /\ StreamProofs!Retained = Retained
  BY DEF StreamProofs!DataIsPending, DataIsPending, StreamProofs!Retained, Retained
<1>4. SenderGuardAgreesWithBuffers
  BY <1>2, <1>3
  DEF StandsInMap, StreamProofs!SenderGuardAgreesWithBuffers, SenderGuardAgreesWithBuffers
<1>5. PendingInSequence
  BY <1>2 DEF StandsInMap, StreamProofs!PendingInSequence, PendingInSequence
<1>6. SentPacketsRetained
  BY <1>2, <1>3 DEF StandsInMap, StreamProofs!SentPacketsRetained, SentPacketsRetained
<1>7. MarkerStartsStream
  BY <1>2, <1>3 DEF StandsInMap, StreamProofs!MarkerStartsStream, MarkerStartsStream
<1>8. AudioInOrderOnce
  BY <1>2 DEF StandsInMap, StreamProofs!AudioInOrderOnce, AudioInOrderOnce
<1>9. ResendsAreFaithful
  <2>1. \A q : StreamProofs!PacketAge(q) = PacketAge(q)
    BY DEF StreamProofs!PacketAge, PacketAge
  <2>2. \A b, q, c : StreamProofs!ResendReply(b, q, c) = ResendReply(b, q, c)
    BY DEF StreamProofs!ResendReply, ResendReply, StreamProofs!IsLoopCount, IsLoopCount,
           StreamProofs!Matches, Matches, StreamProofs!HasPrev, HasPrev, StreamProofs!PrevBuffered,
           PrevBuffered, StreamProofs!PrevIndex, PrevIndex, StreamProofs!RingSize, RingSize,
           StreamProofs!PacketAge, PacketAge
  <2>3. QED
    BY <1>2, <1>3, <2>1, <2>2
    DEF StandsInMap, StreamProofs!ResendsAreFaithful, ResendsAreFaithful, StreamProofs!Requests, Requests
<1>10. QED
  BY <1>4, <1>5, <1>6, <1>7, <1>8, <1>9 DEF StreamStands

\* What is proved of the stream alone holds with the player, the sender and any
\* number of managers around it: audio leaves in order and once, the sender
\* never asks an empty ring, and resend requests are answered exactly; from the
\* numbers to the rest of reinit() only the order of what left is claimed
\* (raop/RAOPEngine.cpp:306-400, 479-615, 660-746, 892-960).
THEOREM StreamStandsAmongThreads ==
    ASSUME OpensAlone
    PROVE  Spec => [](LogInOrder /\ (~Rewinding => StreamStands))
<1>1. Spec => StreamProofs!StreamSpec
  BY EngineImplementsTheStream, SameSpec DEF EngineImplementsStream
<1>2. StreamProofs!StreamSpec => []StandsInMap
  BY StreamProofs!SenderGuardIsSound, StreamProofs!PendingIsInSequence,
     StreamProofs!SentPacketsAreRetained, StreamProofs!MarkerIsFirst,
     StreamProofs!AudioIsInOrderOnce, StreamProofs!ResendsAreExact,
     LengthAssumption, StreamAssumption, PTL DEF StandsInMap
<1>3. StandsInMap /\ FirstDataOK => LogInOrder /\ (~Rewinding => StreamStands)
  BY StandsOutside DEF StandsInMap, StreamProofs!AudioInOrderOnce, LogInOrder
<1>4. Spec => []FirstDataOK
  <2>1. MapInv /\ [Next]_vars => MapInv'
    BY MappedStep
  <2>2. MapInv => FirstDataOK
    BY DEF MapInv
  <2>3. QED
    BY InitMapped, <2>1, <2>2, PTL DEF Spec
<1>5. QED
  BY <1>1, <1>2, <1>3, <1>4, PTL

\* Each form of the audio, seen from the device that listens to it, is the
\* abstract queue, with every thread and every call of the managers around the
\* rings (raop/RAOPEngine.cpp:479-559, 577-615, 660-746).
THEOREM ThreadsImplementTheQueue ==
    ASSUME OpensAlone
    PROVE  Spec => StreamProofs!ImplementsAudioStream
<1>1. Spec => StreamProofs!StreamSpec
  BY EngineImplementsTheStream, SameSpec DEF EngineImplementsStream
<1>2. StreamProofs!StreamSpec => StreamProofs!ImplementsAudioStream
  BY StreamProofs!StreamRefinement, LengthAssumption, StreamAssumption
<1>3. QED
  BY <1>1, <1>2

=============================================================================
