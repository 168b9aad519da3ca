--------------------------- MODULE DeviceManager ---------------------------
(***************************************************************************)
(* DeviceManager.cpp and the session part of raop/RAOPDevice.cpp: which    *)
(* remote speakers are known, and how their connections are opened and     *)
(* closed while the player and the sender thread use the engine.           *)
(*                                                                         *)
(* A manager is a thread that calls openDevice, closeDevices or            *)
(* destroyDevice: the player's own, the service browser's, the options     *)
(* dialog's, the monitor's.  They exclude each other with the manager's    *)
(* _mutex, held from the beginning of an operation to its end but for the  *)
(* gap between a failed open and the destruction that follows it.          *)
(*                                                                         *)
(* A device's object is known by the speaker's name.  RTSP is abstracted   *)
(* to what it does to the connection.                                      *)
(***************************************************************************)
EXTENDS RAOPEngine

CONSTANTS
    Managers,       \* threads that open and close devices
    Overlap,        \* the operations that may overlap a call of the player's
    Lossy,          \* the devices whose connection may drop
    RecursiveMutex  \* whether _mutex may be locked again by its holder

Operations == {"open", "shut", "lose"}

ASSUME ManagerAssumption ==
    /\ Overlap \subseteq Operations
    /\ Lossy \subseteq Devices
    /\ RecursiveMutex \in BOOLEAN

VARIABLES
    known,  \* _devices
    mgr     \* per manager: where it is, in what, on which device

vars == <<engineVars, known, mgr>>

Idle == [pc |-> "idle", op |-> "none", dev |-> {}, todo |-> {}, then |-> "idle"]

Init ==
    /\ EngineInit
    /\ known = {}
    /\ mgr = [m \in Managers |-> Idle]

At(m, pc) == mgr[m].pc = pc

AtDevice(m, pc, d) == At(m, pc) /\ mgr[m].dev = {d}

Becomes(m, r) == mgr' = [mgr EXCEPT ![m] = r]

Goes(m, pc) == mgr' = [mgr EXCEPT ![m].pc = pc]

GoesBack(m) ==
    IF mgr[m].then = "idle" THEN Becomes(m, Idle) ELSE Goes(m, mgr[m].then)

HoldsMutex(m) == mgr[m].pc \notin {"idle", "deactivate"}

MutexIsFree == \A m \in Managers : ~HoldsMutex(m)

\* An operation begins under the mutex, and not inside a call of the
\* player's unless the instance lets the two overlap.
MayBegin(m, op) ==
    /\ At(m, "idle")
    /\ MutexIsFree
    /\ op \in Overlap \/ PlayerAt("idle")

AnyDeviceOpen == \E d \in known : IsOpen(d)

-----------------------------------------------------------------------------
(***************************************************************************)
(* openDevice().  A device that is not known is created and tested first,  *)
(* which opens a connection and closes it again.                           *)
(***************************************************************************)
OpenBegins(m, d) ==
    /\ MayBegin(m, "open")
    /\ known' = known \cup {d}
    /\ Becomes(m, [Idle EXCEPT !.pc  = IF d \in known THEN "check" ELSE "test",
                               !.op  = "open",
                               !.dev = {d}])
    /\ UNCHANGED engineVars

\* The connection cannot be made.
FailsToConnect(m, d) ==
    /\ AtDevice(m, "test", d) \/ AtDevice(m, "connect", d)
    /\ Goes(m, "deactivate")
    /\ UNCHANGED <<engineVars, known>>

\* RAOPDevice::test() and open() make a new connection unless theirs works.
Connects(d) ==
    /\ client' = [client EXCEPT ![d] = "ready"]
    /\ synced' = IF IsOpen(d) THEN synced ELSE synced \ {d}
    /\ UNCHANGED <<streamVars, attached, firstSync, stopSending, sender, mutex, player, early>>

\* The device answers, and is closed whatever it said; or it asks for a
\* password that nobody knows, and the exception leaves it connected.
TestsDevice(m, d) ==
    /\ AtDevice(m, "test", d)
    /\ Connects(d)
    /\ \/ \E next \in {"check", "deactivate"} :
              mgr' = [mgr EXCEPT ![m].pc = "close", ![m].then = next]
       \/ Goes(m, "deactivate")
    /\ UNCHANGED known

\* The device is open already, or another one is, or the session state is
\* to be initialised.  The question whether any device is open locks the
\* manager's mutex, which the thread holds.
FindsDeviceOpen(m, d) ==
    /\ AtDevice(m, "check", d)
    /\ IsOpen(d)
    /\ Becomes(m, Idle) \/ Goes(m, "deactivate")
    /\ UNCHANGED <<engineVars, known>>

JoinsOpenDevices(m, d) ==
    /\ AtDevice(m, "check", d)
    /\ ~IsOpen(d)
    /\ RecursiveMutex
    /\ AnyDeviceOpen
    /\ Goes(m, "connect")
    /\ UNCHANGED <<engineVars, known>>

ReinitStops(m, d) ==
    /\ AtDevice(m, "check", d)
    /\ ~IsOpen(d)
    /\ RecursiveMutex
    /\ ~AnyDeviceOpen
    /\ Stop
    /\ Goes(m, "join")
    /\ UNCHANGED <<streamVars, attached, client, firstSync, sender, mutex, player, synced, early, known>>

ReinitJoins(m) ==
    /\ At(m, "join")
    /\ SenderJoined
    /\ Goes(m, "fresh")
    /\ UNCHANGED <<engineVars, known>>

ReinitBegins(m) ==
    /\ At(m, "fresh")
    /\ ReinitNumbers
    /\ Goes(m, "rewind")
    /\ UNCHANGED <<attached, client, firstSync, stopSending, sender, mutex, player, synced, early, known>>

ReinitEnds(m) ==
    /\ At(m, "rewind")
    /\ ReinitRest
    /\ Goes(m, "connect")
    /\ UNCHANGED <<client, stopSending, sender, mutex, player, synced, early, known>>

\* RAOPDevice::open() connects; then the device accepts the session, or
\* refuses it, or the exchange fails.
OpensDevice(m, d) ==
    /\ AtDevice(m, "connect", d)
    /\ Connects(d)
    /\ Goes(m, "attach") \/ Goes(m, "deactivate")
    /\ UNCHANGED known

AttachesDevice(m, d) ==
    /\ AtDevice(m, "attach", d)
    /\ Attach(d)
    /\ Goes(m, "finish")
    /\ UNCHANGED <<streamVars, client, stopSending, sender, mutex, player, synced, early, known>>

\* Volume, metadata and progress are sent, which may fail as well.
OpenEnds(m) ==
    /\ At(m, "finish")
    /\ Becomes(m, Idle) \/ Goes(m, "deactivate")
    /\ UNCHANGED <<engineVars, known>>

-----------------------------------------------------------------------------
(***************************************************************************)
(* RAOPDevice::close(): the connection first, then detach().               *)
(***************************************************************************)
ClosesConnection(m, d) ==
    /\ AtDevice(m, "close", d)
    /\ client' = [client EXCEPT ![d] = "none"]
    /\ Goes(m, "detach")
    /\ UNCHANGED <<streamVars, attached, firstSync, stopSending, sender, mutex, player, synced, early, known>>

DetachesDevice(m, d) ==
    /\ AtDevice(m, "detach", d)
    /\ Detach(d)
    /\ IF attached' = {}
       THEN Stop /\ Goes(m, "leave")
       ELSE GoesBack(m) /\ UNCHANGED stopSending
    /\ UNCHANGED <<streamVars, client, firstSync, sender, mutex, player, synced, early, known>>

DetachJoins(m) ==
    /\ At(m, "leave")
    /\ SenderJoined
    /\ GoesBack(m)
    /\ UNCHANGED <<engineVars, known>>

\* Wrong variant: only a device that works is closed.
DestroysIfOpen(m, d, op) ==
    /\ known' = known \ {d}
    /\ IF d \in known /\ IsOpen(d)
       THEN Becomes(m, [Idle EXCEPT !.pc = "close", !.op = op, !.dev = {d}])
       ELSE Becomes(m, Idle)
    /\ UNCHANGED engineVars

\* destroyDevice(): the last reference to the device closes it.  It follows
\* a failed open, in which case another thread may have been quicker.
Destroys(m, d, op) ==
    /\ known' = known \ {d}
    /\ IF d \in known
       THEN Becomes(m, [Idle EXCEPT !.pc = "close", !.op = op, !.dev = {d}])
       ELSE Becomes(m, Idle)
    /\ UNCHANGED engineVars

DestroysAfterFailure(m, d) ==
    /\ AtDevice(m, "deactivate", d)
    /\ MutexIsFree
    /\ Destroys(m, d, "open")

DestroyBegins(m, d) ==
    /\ MayBegin(m, "lose")
    /\ d \in known
    /\ Destroys(m, d, "lose")

\* closeDevices().
CloseAllBegins(m) ==
    /\ MayBegin(m, "shut")
    /\ Becomes(m, [Idle EXCEPT !.pc = "next", !.op = "shut", !.todo = known, !.then = "next"])
    /\ UNCHANGED <<engineVars, known>>

\* Wrong variant: the loop does not get on to the next device.
CloseAllRepeats(m) ==
    /\ At(m, "next")
    /\ IF mgr[m].todo = {}
       THEN Becomes(m, Idle)
       ELSE \E d \in mgr[m].todo :
                mgr' = [mgr EXCEPT ![m].pc = "close", ![m].dev = {d}]
    /\ UNCHANGED <<engineVars, known>>

CloseAllContinues(m) ==
    /\ At(m, "next")
    /\ IF mgr[m].todo = {}
       THEN Becomes(m, Idle)
       ELSE \E d \in mgr[m].todo :
                mgr' = [mgr EXCEPT ![m].pc = "close", ![m].dev = {d}, ![m].todo = @ \ {d}]
    /\ UNCHANGED <<engineVars, known>>

-----------------------------------------------------------------------------
(***************************************************************************)
(* The whole program.  A step in the middle of an operation is fair, and   *)
(* so is the sender's loop; what the player, the user and the network      *)
(* begin is not.  SF for a packet that is sent: the clock comes round to   *)
(* the time at which the packet is due.                                    *)
(***************************************************************************)
ManagerBegins(m) ==
    \/ \E d \in Devices : OpenBegins(m, d)
    \/ \E d \in Devices : DestroyBegins(m, d)
    \/ CloseAllBegins(m)

ManagerContinues(m) ==
    \/ \E d \in Devices :
           \/ FailsToConnect(m, d)
           \/ TestsDevice(m, d)
           \/ FindsDeviceOpen(m, d)
           \/ JoinsOpenDevices(m, d)
           \/ ReinitStops(m, d)
           \/ OpensDevice(m, d)
           \/ AttachesDevice(m, d)
           \/ ClosesConnection(m, d)
           \/ DetachesDevice(m, d)
           \/ DestroysAfterFailure(m, d)
    \/ ReinitJoins(m)
    \/ ReinitBegins(m)
    \/ ReinitEnds(m)
    \/ OpenEnds(m)
    \/ DetachJoins(m)
    \/ CloseAllContinues(m)

ManagersAllowPlayer == \A m \in Managers : At(m, "idle") \/ mgr[m].op \in Overlap

Next ==
    \/ (SenderNext \/ PlayerContinues) /\ UNCHANGED <<known, mgr>>
    \/ ManagersAllowPlayer /\ PlayerBegins /\ UNCHANGED <<known, mgr>>
    \/ \E d \in Lossy : ConnectionDrops(d) /\ UNCHANGED <<known, mgr>>
    \/ \E m \in Managers : ManagerBegins(m) \/ ManagerContinues(m)

Spec == Init /\ [][Next]_vars

Fairness ==
    /\ WF_vars(SenderNext /\ UNCHANGED <<known, mgr>>)
    /\ SF_vars(SenderSends /\ UNCHANGED <<known, mgr>>)
    /\ WF_vars(PlayerContinues /\ UNCHANGED <<known, mgr>>)
    /\ \A m \in Managers : WF_vars(ManagerContinues(m))

FairSpec == Spec /\ Fairness

-----------------------------------------------------------------------------
ManagerPlaces ==
    {"idle", "test", "check", "join", "fresh", "rewind", "connect", "attach",
     "finish", "deactivate", "close", "detach", "leave", "next"}

\* Type correctness of the variables that the threads add to the stream's,
\* with the agreement of the mutex and the player's place that the scoped
\* locks guarantee.
ThreadsTypeOK ==
    /\ attached \subseteq Devices
    /\ client \in [Devices -> ClientStates]
    /\ firstSync \in BOOLEAN
    /\ stopSending \in BOOLEAN
    /\ sender \in {"off", "test", "turn"}
    /\ mutex = IF player.pc \in {"flush", "flushDevice"} THEN "player" ELSE "free"
    /\ player \in [pc : PlayerPlaces, todo : SUBSET Devices, dev : SUBSET Devices]
    /\ synced \subseteq Devices
    /\ early \subseteq Devices
    /\ known \subseteq Devices
    /\ mgr \in [Managers -> [pc : ManagerPlaces, op : Operations \cup {"none"},
                             dev : SUBSET Devices, todo : SUBSET Devices,
                             then : {"idle", "check", "deactivate", "next"}]]

(***************************************************************************)
(* reinit() assigns the sequence numbers before it rewinds the buffers; in *)
(* between, the buffers count as rewound.                                  *)
(***************************************************************************)
Rewinding == \E m \in Managers : At(m, "rewind")

Stream ==
    INSTANCE RAOPStream WITH
        buf       <- IF Rewinding THEN [s \in Streams |-> ResetBuffer(buf[s])] ELSE buf,
        firstData <- firstData \/ Rewinding,
        since     <- IF Rewinding THEN 0 ELSE since

\* With every thread around it the engine still does nothing to the stream
\* but write, send, reset and begin a session, one at a time: so all that
\* is proved of RAOPStream holds in the threaded program.
EngineImplementsStream == Stream!StreamSpec

\* The device that manager m is taking out of the engine's list.
Leaving == UNION {mgr[m].dev : m \in {n \in Managers : mgr[n].pc \in {"close", "detach"}}}

\* The engine's list of devices, which holds bare pointers, only ever names
\* devices that exist: those in the manager's map, and the one that is being
\* closed before it is deleted.
AttachedDevicesExist == attached \subseteq known \cup Leaving

\* After canWrite() said yes, write() finds room in both buffers, whatever
\* the other threads did in between; otherwise it would throw, and lose
\* audio the output buffer had taken.
RoomIsKept == PlayerAt("write") => \A s \in Streams : CanWrite(buf[s])

Quiet == PlayerAt("idle") /\ \A m \in Managers : At(m, "idle")

\* When audio waits and a device is there to hear it, and nobody is in the
\* middle of a call, the sender thread runs and has not been told to stop;
\* it starts only with the first packet of a stream, so an opened session
\* that is not fresh would stay silent.
SenderServesWaitingAudio ==
    Quiet /\ DataIsPending /\ attached # {} => sender # "off" /\ ~stopSending

\* No device hears audio before the sync packet that tells it when to play
\* it: attach() forces one for every device that joins.
DataOnlyAfterSync == early = {}

\* The same for the devices whose connections hold, whatever happens to the
\* connections of the others and whichever threads close devices meanwhile.
SteadyDevicesSyncFirst == early \subseteq Lossy

\* reinit() assigns the session state while the sender thread is stopped.
ReinitFindsSenderStopped == \A m \in Managers : At(m, "fresh") \/ At(m, "rewind") => sender = "off"

\* Whoever waits for the sender thread to end gets on: stop() returns.
StopReturns ==
    /\ PlayerAt("join") ~> ~PlayerAt("join")
    /\ \A m \in Managers :
           /\ At(m, "join") ~> ~At(m, "join")
           /\ At(m, "leave") ~> ~At(m, "leave")

\* Whatever a manager begins comes to an end, and with it the mutex is
\* released.
OperationsEnd == \A m \in Managers : HoldsMutex(m) ~> ~HoldsMutex(m)

\* Audio that waits leaves, or is dropped by a reset or a new session, or
\* there is no device left in the list to hear it.
WaitingAudioLeaves == DataIsPending ~> (~DataIsPending \/ attached = {})

=============================================================================
