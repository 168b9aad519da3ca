----------------------------- MODULE RAOPEngine -----------------------------
(***************************************************************************)
(* The threads that use the stream of raop/RAOPEngine.cpp: the sender      *)
(* thread, run(), and the player's thread, which writes, flushes and       *)
(* resets.  Module DeviceManager adds the threads that open and close      *)
(* devices; the operations they call on the engine are defined here.       *)
(*                                                                         *)
(* _mutex is the engine's mutex.  A section of code under it is one action *)
(* here; mutex names its holder only where the code keeps it over a device *)
(* conversation, in reset().  The code does not hold it in stop() and      *)
(* reinit(), nor where a device's connection is read or replaced.          *)
(***************************************************************************)
EXTENDS RAOPStream

CONSTANTS Devices   \* the remote speakers

VARIABLES
    attached,     \* _raopDevices
    client,       \* per device: its RTSP connection, _rtspClient
    firstSync,    \* _isFirstSyncPacket
    stopSending,  \* _stopSending
    sender,       \* the sender thread: not running, or where it is in run()
    mutex,        \* the holder of _mutex between actions
    player,       \* where the player's thread is, and its loop's devices left
    synced,       \* history: devices that got a sync packet on their connection
    early         \* history: devices that got audio before a sync packet

engineVars ==
    <<streamVars, attached, client, firstSync, stopSending, sender, mutex, player, synced, early>>

\* No connection; one that works; one that the device or the network closed.
ClientStates == {"none", "ready", "dead"}

PlayerPlaces == {"idle", "write", "join", "lock", "flush", "flushDevice", "rewind"}

\* RAOPDevice::isOpen(), which polls the connection.
IsOpen(d) == client[d] = "ready"

Listeners == {d \in attached : IsOpen(d)}

EngineInit ==
    /\ StreamInit
    /\ attached = {}
    /\ client = [d \in Devices |-> "none"]
    /\ firstSync = TRUE
    /\ stopSending = FALSE
    /\ sender = "off"
    /\ mutex = "free"
    /\ player = [pc |-> "idle", todo |-> {}, dev |-> {}]
    /\ synced = {}
    /\ early = {}

-----------------------------------------------------------------------------
(***************************************************************************)
(* start() and the first half of stop(); the second half, join(), waits    *)
(* until sender = "off".  Thread::start() throws when the thread runs.     *)
(***************************************************************************)
Start ==
    /\ stopSending' = FALSE
    /\ sender' = IF sender = "off" THEN "test" ELSE sender

Stop == stopSending' = TRUE

\* Wrong variant: whoever stops the sender does not wait for its end.
NotJoined == TRUE

SenderJoined == sender = "off"

(***************************************************************************)
(* run().  Whether a second has passed since the last sync packet, and     *)
(* whether it is time for the next data packet, is the clock's choice; the *)
(* first packet of a stream is always due.                                 *)
(***************************************************************************)
\* Wrong variant: the loop's condition does not see the request to stop.
SenderTestDeaf ==
    /\ sender = "test"
    /\ sender' = "turn"
    /\ UNCHANGED <<streamVars, attached, client, firstSync, stopSending, mutex, player, synced, early>>

SenderTest ==
    /\ sender = "test"
    /\ sender' = IF stopSending THEN "off" ELSE "turn"
    /\ UNCHANGED <<streamVars, attached, client, firstSync, stopSending, mutex, player, synced, early>>

\* sendSyncPacket(), if the turn has one.
SyncStep ==
    /\ firstSync' = FALSE
    /\ synced' \in {synced \cup Listeners} \cup (IF firstSync THEN {} ELSE {synced})

SenderTurnBegins ==
    /\ sender = "turn"
    /\ mutex = "free"
    /\ sender' = "test"
    /\ SyncStep
    /\ UNCHANGED <<attached, client, stopSending, mutex, player>>

SenderSends ==
    /\ SenderTurnBegins
    /\ attached # {}
    /\ SendPacket
    /\ early' = early \cup (Listeners \ synced')

\* Nothing to send, too soon, or an exception that the loop catches.
SenderWaits ==
    /\ SenderTurnBegins
    /\ \/ attached = {}
       \/ ~DataIsPending
       \/ since > 0
       \/ \E s \in Streams : ~CanRead(buf[s])
    /\ UNCHANGED <<streamVars, early>>

SenderNext == SenderTest \/ SenderSends \/ SenderWaits

-----------------------------------------------------------------------------
(***************************************************************************)
(* The player's thread.  OutputBuffer asks canWrite() and then writes.     *)
(***************************************************************************)
PlayerAt(pc) == player.pc = pc

PlayerGoes(pc) == player' = [player EXCEPT !.pc = pc]

\* Wrong variant: any device will do, with or without room in the buffers.
CanWriteIfAttached == attached # {}

EngineCanWrite == attached # {} /\ CanWrite(buf["secured"])

PlayerAsks ==
    /\ PlayerAt("idle")
    /\ mutex = "free"
    /\ written < MaxWrites
    /\ EngineCanWrite
    /\ PlayerGoes("write")
    /\ UNCHANGED <<streamVars, attached, client, firstSync, stopSending, sender, mutex, synced, early>>

\* Wrong variant: the first packet does not start the sender.
WritesWithoutStart ==
    /\ PlayerAt("write")
    /\ mutex = "free"
    /\ WritePacket
    /\ PlayerGoes("idle")
    /\ UNCHANGED <<attached, client, firstSync, stopSending, sender, mutex, synced, early>>

PlayerWrites ==
    /\ PlayerAt("write")
    /\ mutex = "free"
    /\ WritePacket
    /\ IF firstData THEN Start ELSE UNCHANGED <<stopSending, sender>>
    /\ PlayerGoes("idle")
    /\ UNCHANGED <<attached, client, firstSync, mutex, synced, early>>

\* flush(): forgets the devices that are not open any more.
PlayerFlushes ==
    /\ PlayerAt("idle")
    /\ mutex = "free"
    /\ attached' = Listeners
    /\ UNCHANGED <<streamVars, client, firstSync, stopSending, sender, mutex, player, synced, early>>

(***************************************************************************)
(* reset(): stops the sender, then flushes each device that is open, then  *)
(* rewinds the stream.                                                     *)
(***************************************************************************)
PlayerResets ==
    /\ PlayerAt("idle")
    /\ Stop
    /\ PlayerGoes("join")
    /\ UNCHANGED <<streamVars, attached, client, firstSync, sender, mutex, synced, early>>

PlayerJoins ==
    /\ PlayerAt("join")
    /\ SenderJoined
    /\ PlayerGoes("lock")
    /\ UNCHANGED <<streamVars, attached, client, firstSync, stopSending, sender, mutex, synced, early>>

PlayerLocks ==
    /\ PlayerAt("lock")
    /\ mutex = "free"
    /\ mutex' = "player"
    /\ player' = [player EXCEPT !.pc = "flush", !.todo = attached]
    /\ UNCHANGED <<streamVars, attached, client, firstSync, stopSending, sender, synced, early>>

\* The test for an open device, and then its flush().
PlayerLooksAt(d) ==
    /\ PlayerAt("flush")
    /\ d \in player.todo
    /\ player' = [pc   |-> IF IsOpen(d) THEN "flushDevice" ELSE "flush",
                  todo |-> player.todo \ {d},
                  dev  |-> IF IsOpen(d) THEN {d} ELSE {}]
    /\ UNCHANGED <<streamVars, attached, client, firstSync, stopSending, sender, mutex, synced, early>>

PlayerFlushesDevice ==
    /\ PlayerAt("flushDevice")
    /\ player' = [player EXCEPT !.pc = "flush", !.dev = {}]
    /\ UNCHANGED <<streamVars, attached, client, firstSync, stopSending, sender, mutex, synced, early>>

PlayerRewinds ==
    /\ PlayerAt("flush")
    /\ player.todo = {}
    /\ attached' = Listeners
    /\ firstSync' = TRUE
    /\ ResetStream
    /\ mutex' = "free"
    /\ PlayerGoes("idle")
    /\ UNCHANGED <<client, stopSending, sender, synced, early>>

\* A call in progress, and the calls the player may begin.
PlayerContinues ==
    \/ PlayerWrites
    \/ PlayerJoins
    \/ PlayerLocks
    \/ \E d \in Devices : PlayerLooksAt(d)
    \/ PlayerFlushesDevice
    \/ PlayerRewinds

PlayerBegins == PlayerAsks \/ PlayerFlushes \/ PlayerResets

-----------------------------------------------------------------------------
(***************************************************************************)
(* What the threads that manage devices call: attach(), detach() up to its *)
(* test for the last device, and reinit() after its stop().  reinit()      *)
(* takes no mutex; its stores fall into two groups, the numbers first.     *)
(***************************************************************************)
\* Wrong variant: a device joins without a sync packet.
AttachWithoutSync(d) ==
    /\ mutex = "free"
    /\ attached' = attached \cup {d}
    /\ UNCHANGED firstSync

Attach(d) ==
    /\ mutex = "free"
    /\ attached' = attached \cup {d}
    /\ firstSync' = (firstSync \/ d \notin attached)

Detach(d) ==
    /\ mutex = "free"
    /\ attached' = attached \ {d}

ReinitNumbers ==
    \E q \in 0 .. SeqMod - 1 :
        /\ seqIn' = q
        /\ seqOut' = q
        /\ UNCHANGED <<buf, firstData, written, log, since>>

\* Wrong variant: the new session is not told that it begins.
ReinitRestOldSession ==
    /\ firstSync' = TRUE
    /\ buf' = [s \in Streams |-> ResetBuffer(buf[s])]
    /\ attached' = {}
    /\ since' = 0
    /\ UNCHANGED <<firstData, seqIn, seqOut, written, log>>

ReinitRest ==
    /\ firstData' = TRUE
    /\ firstSync' = TRUE
    /\ buf' = [s \in Streams |-> ResetBuffer(buf[s])]
    /\ attached' = {}
    /\ since' = 0
    /\ UNCHANGED <<seqIn, seqOut, written, log>>

\* The network, or the device, ends a connection.
ConnectionDrops(d) ==
    /\ client[d] = "ready"
    /\ client' = [client EXCEPT ![d] = "dead"]
    /\ UNCHANGED <<streamVars, attached, firstSync, stopSending, sender, mutex, player, synced, early>>

=============================================================================
