---------------------------- MODULE DeviceVolume ----------------------------
(***************************************************************************)
(* The volume of the speakers: the player's volume and the option, which   *)
(* OutputComponent::checkDeviceVolume() compares with the manager's        *)
(* (master) volume on two threads; DeviceManager::setVolume(), which moves *)
(* every open device by what the master volume moved; the volume that is   *)
(* set when a device is opened; and the remote control, with which one     *)
(* device's volume is put apart from the others, without the manager's     *)
(* mutex.                                                                  *)
(*                                                                         *)
(* A volume is a number of decibels, Lowest to 0 (-100 to 0 in the code).  *)
(* FLT_MIN, by which the manager's volume is "not set", is above them all. *)
(* The player sets its volume before any thread compares it; one that      *)
(* never does leaves FLT_MIN in both places and sets nothing.              *)
(***************************************************************************)
EXTENDS Integers, FiniteSetsExt

CONSTANTS
    Speakers,
    Receivers,   \* the audio-video receivers, asked for their own volume first
    Depth,       \* 100: decibels between silence and full volume
    Margin,      \* 9: what keeps a device of its own volume from full volume
    Steps,       \* bound: how far below full the player and the remotes go
    MaxRemote,   \* bound: requests of the remotes
    MaxLost      \* bound: connections lost and devices destroyed

ASSUME VolumeAssumption ==
    /\ Receivers \subseteq Speakers
    /\ Depth \in Nat /\ Margin \in 0 .. Depth
    /\ Steps \subseteq 0 .. Depth
    /\ {MaxRemote, MaxLost} \subseteq Nat

VARIABLES
    control,   \* Options::_volumeControl
    wanted,    \* OutputComponentImpl::_volume
    master,    \* DeviceManager::_volume
    volume,    \* RAOPDevice::_deviceVolume of every device
    conn,      \* its RTSP client: none, ready, or one whose connection is lost
    told,      \* the volume a speaker has: what it was last told
    mutex,     \* DeviceManager::_mutex: who holds it
    threads,   \* the player's, the monitor's and the one that opens a device
    server,    \* the remote control's thread
    asked,     \* requests of the remotes so far
    lost,      \* connections lost and devices destroyed so far
    steady,    \* history: devices that heard every master volume since they opened
    doubtful   \* history: devices put and set at the same time, or passed over

settings == <<control, wanted>>
bounds == <<asked, lost>>
vars == <<settings, master, volume, conn, told, mutex, threads, server, bounds, steady, doubtful>>

Lowest == -Depth

Limit == -Margin

Levels == {-x : x \in Steps}

NotSet == 1           \* FLT_MIN
Mute == Lowest - 1    \* what a speaker is told instead of Lowest, -144

Idle == [pc |-> "idle", level |-> 0, delta |-> 0, todo |-> {}, dev |-> {}, says |-> 0]

NobodyAsks == [pc |-> "idle", dev |-> {}, level |-> 0]

Checkers == {"player", "monitor"}

Init ==
    /\ control \in BOOLEAN
    /\ wanted \in Levels
    /\ master = NotSet
    /\ volume = [s \in Speakers |-> 0]
    /\ conn = [s \in Speakers |-> "none"]
    /\ told \in {f \in [Speakers -> Levels \cup {0}] : \A s \in Speakers \ Receivers : f[s] = 0}
    /\ mutex = "free"
    /\ threads = [t \in Checkers \cup {"opener"} |-> Idle]
    /\ server = NobodyAsks
    /\ asked = 0 /\ lost = 0
    /\ steady = {} /\ doubtful = {}

IsOpen(s) == conn[s] = "ready"

At(t, pc) == threads[t].pc = pc

Goes(t, pc) == threads' = [threads EXCEPT ![t].pc = pc]

-----------------------------------------------------------------------------
(***************************************************************************)
(* RAOPDevice::setVolume(): a device at the old master volume, or one that *)
(* was never set, takes the master volume; another moves with it.          *)
(***************************************************************************)
Clipped(x) == Max({Min({x, Limit}), Lowest})

SetTo(vol, absolute, relative) ==
    IF (vol = 0 /\ relative = 0) \/ vol = absolute - relative
    THEN absolute
    ELSE Clipped(vol + relative)

\* What a speaker is told of a volume.
Decibels(vol) == IF vol <= Lowest THEN Mute ELSE vol

\* The thread computes a device's volume and is about to tell the speaker.
SetsVolumeOf(t, s, todo, absolute, relative, from) ==
    LET vol == SetTo(from, absolute, relative)
    IN  /\ volume' = [volume EXCEPT ![s] = vol]
        /\ threads' = [threads EXCEPT ![t].pc = "tell", ![t].todo = todo,
                                      ![t].dev = {s}, ![t].says = Decibels(vol)]

-----------------------------------------------------------------------------
(***************************************************************************)
(* checkDeviceVolume(), of the player's open() and of every turn of the    *)
(* monitor: no lock is held between the comparison and setVolume(), so     *)
(* either thread may set what is no longer wanted.                         *)
(***************************************************************************)
Target == IF control THEN wanted ELSE 0

\* Wrong variant: only a louder volume is a change.
DiffersUpwards(level) == level > master

Differs(level) == level # master

ChecksVolume(t) ==
    /\ At(t, "idle")
    /\ Differs(Target)
    /\ threads' = [threads EXCEPT ![t].pc = "lock", ![t].level = Target]
    /\ UNCHANGED <<settings, master, volume, conn, told, mutex, server, bounds, steady, doubtful>>

\* Wrong variant: the manager's volume is assigned before the difference is taken.
NoChange(level) == 0

Change(level) == IF master # NotSet THEN level - master ELSE 0

\* setVolume() locks; the devices that are not open will miss this change.
LocksVolume(t) ==
    /\ At(t, "lock")
    /\ mutex = "free"
    /\ mutex' = t
    /\ threads' = [threads EXCEPT ![t].pc = "loop", ![t].todo = Speakers,
                                  ![t].delta = Change(threads[t].level)]
    /\ master' = threads[t].level
    /\ UNCHANGED <<settings, volume, conn, told, server, bounds, steady, doubtful>>

SetsNext(t) ==
    /\ At(t, "loop")
    /\ \E s \in threads[t].todo :
         /\ IsOpen(s)
         /\ SetsVolumeOf(t, s, threads[t].todo \ {s}, threads[t].level, threads[t].delta,
                         volume[s])
    /\ doubtful' = doubtful \ threads'[t].dev
    /\ UNCHANGED <<settings, master, conn, told, mutex, server, bounds, steady>>

LoopEnds(t) ==
    /\ At(t, "loop")
    /\ \A s \in threads[t].todo : ~IsOpen(s)
    /\ mutex' = "free"
    /\ threads' = [threads EXCEPT ![t] = Idle]
    /\ UNCHANGED <<settings, master, volume, conn, told, server, bounds, steady, doubtful>>

Tells(t) ==
    /\ At(t, "tell")
    /\ \E s \in threads[t].dev :
         /\ IsOpen(s)
         /\ told' = [told EXCEPT ![s] = threads[t].says]
         /\ steady' = IF t = "opener" /\ volume[s] = master /\ s \notin doubtful
                      THEN steady \cup {s} ELSE steady
    /\ IF t = "opener"
       THEN mutex' = "free" /\ threads' = [threads EXCEPT ![t] = Idle]
       ELSE Goes(t, "loop") /\ UNCHANGED mutex
    /\ UNCHANGED <<settings, master, volume, conn, server, bounds, doubtful>>

\* The connection was lost: an exception ends the loop for all the devices left.
FailsToTell(t) ==
    /\ At(t, "tell") /\ t # "opener"
    /\ \A s \in threads[t].dev : ~IsOpen(s)
    /\ mutex' = "free"
    /\ threads' = [threads EXCEPT ![t] = Idle]
    /\ steady' = steady \ (threads[t].todo \cup threads[t].dev)
    /\ doubtful' = doubtful \cup {s \in threads[t].todo : IsOpen(s)}
    /\ UNCHANGED <<settings, master, volume, conn, told, server, bounds>>

-----------------------------------------------------------------------------
\* What a speaker plays at after its session matters for receivers only.
Kept(gone) == [s \in Speakers |-> IF s \in gone \ Receivers THEN 0 ELSE told[s]]

(***************************************************************************)
(* DeviceManager::openDevice(), on whatever thread, up to the volume; what *)
(* it does before is in DeviceManager and RTSPClient.                      *)
(***************************************************************************)
OpensDevice(s) ==
    /\ mutex = "free"
    /\ conn[s] # "ready"
    /\ conn' = [conn EXCEPT ![s] = "ready"]
    /\ mutex' = "opener"
    /\ threads' = [threads EXCEPT !["opener"].pc = "opened", !["opener"].dev = {s}]
    /\ UNCHANGED <<settings, master, volume, told, server, bounds, steady, doubtful>>

\* Wrong variant: nobody is asked.
OwnVolumeUnknown(s) == volume[s]

OwnVolume(s) ==
    IF s \in Receivers THEN (IF told[s] = Mute THEN Lowest ELSE told[s]) ELSE volume[s]

\* getVolume() of a receiver; then setVolume(_volume, 0), if that is set.
SetsFirstVolume ==
    /\ At("opener", "opened")
    /\ \E s \in threads["opener"].dev :
         /\ IsOpen(s)
         /\ IF master = NotSet
            THEN /\ volume' = [volume EXCEPT ![s] = OwnVolume(s)]
                 /\ mutex' = "free"
                 /\ threads' = [threads EXCEPT !["opener"] = Idle]
                 /\ steady' = IF OwnVolume(s) = 0 THEN steady \cup {s} ELSE steady
            ELSE /\ SetsVolumeOf("opener", s, {}, master, 0, OwnVolume(s))
                 /\ UNCHANGED <<mutex, steady>>
         /\ doubtful' = doubtful \ {s}
    /\ UNCHANGED <<settings, master, conn, told, server, bounds>>

\* An exception on the way: the device is destroyed (DEACTIVATE).
FailsToOpen ==
    /\ threads["opener"].pc \in {"opened", "tell"}
    /\ \E s \in threads["opener"].dev :
         /\ ~IsOpen(s)
         /\ volume' = [volume EXCEPT ![s] = 0]
         /\ conn' = [conn EXCEPT ![s] = "none"]
    /\ mutex' = "free"
    /\ threads' = [threads EXCEPT !["opener"] = Idle]
    /\ UNCHANGED <<settings, master, told, server, bounds, steady, doubtful>>

\* closeDevices(), after a long pause: the devices keep their volumes.
ClosesDevices ==
    /\ mutex = "free"
    /\ \E s \in Speakers : conn[s] # "none"
    /\ conn' = [s \in Speakers |-> "none"]
    /\ told' = Kept(Speakers)
    /\ steady' = {} /\ doubtful' = {}
    /\ UNCHANGED <<settings, master, volume, mutex, threads, server, bounds>>

\* destroyDevice(); a device that the remote control holds is not destroyed yet.
DestroysDevice(s) ==
    /\ mutex = "free"
    /\ lost < MaxLost
    /\ server.dev # {s}
    /\ conn' = [conn EXCEPT ![s] = "none"]
    /\ volume' = [volume EXCEPT ![s] = 0]
    /\ lost' = lost + 1
    /\ told' = Kept({s})
    /\ steady' = steady \ {s} /\ doubtful' = doubtful \ {s}
    /\ UNCHANGED <<settings, master, mutex, threads, server, asked>>

ConnectionDrops(s) ==
    /\ IsOpen(s)
    /\ lost < MaxLost
    /\ conn' = [conn EXCEPT ![s] = "lost"]
    /\ lost' = lost + 1
    /\ told' = Kept({s})
    /\ steady' = steady \ {s} /\ doubtful' = doubtful \ {s}
    /\ UNCHANGED <<settings, master, volume, mutex, threads, server, asked>>

-----------------------------------------------------------------------------
(***************************************************************************)
(* handleRequest() with the property dmcp.device-volume.                   *)
(***************************************************************************)
LooksUpDevice(s, v) ==
    /\ server.pc = "idle"
    /\ asked < MaxRemote
    /\ mutex = "free"
    /\ IsOpen(s)
    /\ server' = [pc |-> "put", dev |-> {s}, level |-> v]
    /\ asked' = asked + 1
    /\ UNCHANGED <<settings, master, volume, conn, told, mutex, threads, lost, steady, doubtful>>

\* putVolume() assigns, whatever has become of the device ...
PutsVolume ==
    /\ server.pc = "put"
    /\ volume' = [s \in Speakers |-> IF s \in server.dev THEN server.level ELSE volume[s]]
    /\ server' = [server EXCEPT !.pc = "echo"]
    /\ steady' = steady \ server.dev
    /\ doubtful' = doubtful \cup {s \in server.dev : \E t \in DOMAIN threads :
                               At(t, "tell") /\ threads[t].dev = {s}}
    /\ UNCHANGED <<settings, master, conn, told, mutex, threads, bounds>>

\* Wrong variant: a speaker knows what its remote control did.
SaysNothing == told

SaysVolume == [s \in Speakers |-> IF s \in server.dev THEN volume[s] ELSE told[s]]

\* ... and tells; a lost connection ends the remote's request with an exception.
EchoesVolume ==
    /\ server.pc = "echo"
    /\ \E s \in server.dev :
         /\ conn[s] # "none"
         /\ told' = IF IsOpen(s) THEN SaysVolume ELSE told
    /\ server' = NobodyAsks
    /\ UNCHANGED <<settings, master, volume, conn, mutex, threads, bounds, steady, doubtful>>

\* The device was closed: it has no client, and the program ends.
Crashes ==
    /\ server.pc = "echo"
    /\ \E s \in server.dev : conn[s] = "none"
    /\ server' = [server EXCEPT !.pc = "crashed"]
    /\ UNCHANGED <<settings, master, volume, conn, told, mutex, threads, bounds, steady, doubtful>>

-----------------------------------------------------------------------------
PlayerSetsVolume(v) ==
    /\ wanted' = v
    /\ UNCHANGED <<control, master, volume, conn, told, mutex, threads, server, bounds, steady, doubtful>>

UserSetsOption ==
    /\ control' = ~control
    /\ UNCHANGED <<wanted, master, volume, conn, told, mutex, threads, server, bounds, steady, doubtful>>

ChecksOn(t) ==
    LocksVolume(t) \/ SetsNext(t) \/ LoopEnds(t) \/ FailsToTell(t) \/ Tells(t)

Running == server.pc # "crashed"

OpenerGoesOn == SetsFirstVolume \/ Tells("opener") \/ FailsToOpen

Next ==
    /\ Running
    /\ \/ \E t \in Checkers : ChecksVolume(t) \/ ChecksOn(t)
       \/ OpenerGoesOn
       \/ \E s \in Speakers :
            OpensDevice(s) \/ DestroysDevice(s) \/ ConnectionDrops(s)
       \/ \E s \in Speakers, v \in Levels : LooksUpDevice(s, v)
       \/ PutsVolume \/ EchoesVolume \/ Crashes
       \/ ClosesDevices
       \/ \E v \in Levels : PlayerSetsVolume(v)
       \/ UserSetsOption

Spec == Init /\ [][Next]_vars

\* The monitor is a loop; no thread stops inside a call, and one that wants
\* the mutex gets it sooner or later, however often others take it.
FairSpec ==
    /\ Spec
    /\ WF_vars(Running /\ ChecksVolume("monitor"))
    /\ \A t \in Checkers :
         WF_vars(Running /\ ChecksOn(t)) /\ SF_vars(Running /\ LocksVolume(t))
    /\ WF_vars(Running /\ OpenerGoesOn)

-----------------------------------------------------------------------------
(***************************************************************************)
(* What a device remembers, from which its next volume is computed, is     *)
(* what its speaker was told (RAOPDevice.cpp:219-271), also when a remote  *)
(* control and the master volume take turns; only where both change it     *)
(* at the same time may the two differ, or where an exception ended the    *)
(* loop over the devices before its turn.                                  *)
(***************************************************************************)
SpeakersHearTheirVolume ==
    mutex = "free" /\ server.pc = "idle" /\ master # NotSet =>
        \A s \in Speakers \ doubtful :
            IsOpen(s) => told[s] \in {volume[s], Decibels(volume[s])}

(***************************************************************************)
(* Opening an audio-video receiver makes it no louder than it was by its   *)
(* own volume (HISTORY.txt, 5.1: "to prevent setting the device to an      *)
(* extremely loud setting"), unless its remote control turns it meanwhile. *)
(***************************************************************************)
ReceiversAreNotMadeLouder ==
    [][\A s \in Receivers :
         Tells("opener") /\ threads["opener"].dev = {s} =>
             told'[s] <= told[s] \/ s \in doubtful]_vars

(***************************************************************************)
(* Once the player's volume and the option rest, the speakers that are     *)
(* steady come to rest at that volume: the monitor's comparison finds      *)
(* every change, also one that another thread overwrote with an older.     *)
(***************************************************************************)
SpeakersComeToTarget ==
    \A v \in Levels \cup {0} :
        <>[](Target = v) =>
            <>[](Running => \A s \in steady : mutex = "free" => told[s] \in {v, Decibels(v)})

(***************************************************************************)
(* !README.txt:108-109 says of the option: "If unchecked, the remote       *)
(* speakers should playback audio at full volume."  Not a speaker that was *)
(* closed when the option was switched: it is opened with setVolume(0, 0), *)
(* for which its former volume is one of its own (RAOPDevice.cpp:253).     *)
(***************************************************************************)
FullVolumeIfUnchecked ==
    ~control /\ master = Target /\ mutex = "free" =>
        \A s \in Speakers : IsOpen(s) => told[s] = 0
=============================================================================
