-------------------------- MODULE DeviceDiscovery --------------------------
(***************************************************************************)
(* DeviceDiscovery.cpp on top of the service discovery, with those who     *)
(* listen to it: DeviceManager's onDeviceFound() and onDeviceLost(), its   *)
(* DeviceConnector, and the options dialog.                                *)
(*                                                                         *)
(* The discovery's _mutex is held throughout a callback's changes and its  *)
(* round of the listeners, which may wait for the manager's _mutex or for  *)
(* the dialog's window; the manager's is held while openDevice() waits     *)
(* for the lookup of an address.  A speaker has the one name under which   *)
(* its service is announced.                                               *)
(***************************************************************************)
EXTENDS ServiceDiscovery

CONSTANTS
    Services,   \* the services on the network
    Speakers,   \* those that determineDeviceType() accepts
    Dialogs,    \* the listeners that are windows
    Openers,    \* threads that open devices, but for the discovery's own
    Overlap,    \* what may happen at any time
    MaxInputs   \* bound on what the network and the users do

Happenings == {"open", "withdraw", "close"}

Manager == "manager"

OwnThread == "discovery"

ASSUME DiscoveryAssumption ==
    /\ IsFiniteSet(Services)
    /\ Speakers \subseteq Services
    /\ Manager \notin Dialogs
    /\ OwnThread \notin Openers
    /\ Overlap \subseteq Happenings
    /\ MaxInputs \in Nat

Listeners == {Manager} \cup Dialogs

Waiters == {OwnThread} \cup Openers

VARIABLES
    network,    \* the services announced
    discovery,  \* _discovery
    services,   \* _services
    devices,    \* _devices, by name
    listeners,  \* _listeners
    heard,      \* per listener: the devices it lists
    tell,       \* the round of the listeners: who is still to be told
    closing,    \* the dialogs that wait in removeListener()
    lookup,     \* per waiter: its DeviceConnector
    inputs      \* what has happened so far

discoveryVars == <<network, discovery, services, devices, listeners, heard, tell, closing, lookup, inputs>>

vars == <<serviceVars, discoveryVars>>

NoLookup == [waits |-> FALSE, ref |-> NoRef, set |-> FALSE]

\* Before DeviceManager is constructed.
Init ==
    /\ ServiceInit
    /\ up \in BOOLEAN
    /\ network = {}
    /\ discovery = NoRef
    /\ services = <<>>
    /\ devices = {}
    /\ listeners = {}
    /\ heard = [l \in Listeners |-> {}]
    /\ tell = {}
    /\ closing = {}
    /\ lookup = [w \in Waiters |-> NoLookup]
    /\ inputs = 0

\* The places at which the thread holds the discovery's mutex, and the
\* waiters that hold the manager's.
DiscoveryIsLocked == loop.pc \in {"tell", "open", "await", "fail"}

ManagerIsLocked == \E w \in Waiters : lookup[w].waits

Happens == inputs < MaxInputs /\ inputs' = inputs + 1

\* Unless the instance lets the two overlap, the network keeps still while a
\* device is opened, and an open begins and gives up while nothing else is
\* under way.
NetworkMaySpeak == "open" \in Overlap \/ \A o \in Openers : ~lookup[o].waits

NothingIsServed ==
    \/ loop.pc \in {"off", "leaving"}
    \/ LoopAt("top") /\ Readable = {}

OpenersMayStep == "open" \in Overlap \/ NothingIsServed

\* ... and a dialog that waits for the discovery's mutex while others are told
\* gets it before the next round.
LoopMayLock == "close" \in Overlap \/ closing = {}

-----------------------------------------------------------------------------
(***************************************************************************)
(* addListener() and removeListener().  A new listener is told of the      *)
(* devices that are known.  A dialog's window does nothing else while it   *)
(* waits to be removed.                                                    *)
(***************************************************************************)
Announcements ==
    [i \in 1 .. Cardinality(network) |-> [what |-> "found", of |-> SetToSeq(network)[i]]]

Browses(r) ==
    /\ Ask(r, [kind |-> "browse", of |-> NoRef], Announcements)
    /\ discovery' = r
    /\ services' = <<>>
    /\ devices' = {}

\* Wrong variant: a listener that joins hears only of what comes later.
ToldNothing == {}

ToldOnJoining == devices'

AddListener(l) ==
    /\ Happens
    /\ NetworkMaySpeak
    /\ l \notin listeners
    /\ ~DiscoveryIsLocked
    /\ IF up /\ ~IsRunning(discovery)
       THEN (\E r \in Refs : Browses(r)) /\ ThreadStarts
       ELSE UNCHANGED <<live, asks, mail, active, loop, discovery, services, devices>>
    /\ listeners' = listeners \cup {l}
    /\ heard' = [heard EXCEPT ![l] = ToldOnJoining]
    /\ UNCHANGED <<up, misused, network, tell, closing, lookup>>

DialogWaits(l) ==
    /\ Happens
    /\ l \in (Dialogs \cap listeners) \ closing
    /\ DiscoveryIsLocked
    /\ "close" \in Overlap \/ l \notin tell
    /\ closing' = closing \cup {l}
    /\ UNCHANGED <<serviceVars, network, discovery, services, devices, listeners, heard, tell, lookup>>

RemoveListener(l) ==
    /\ l \in Dialogs \cap listeners
    /\ ~DiscoveryIsLocked
    /\ \/ l \in closing /\ UNCHANGED inputs
       \/ l \notin closing /\ Happens
    /\ listeners' = listeners \ {l}
    /\ closing' = closing \ {l}
    /\ UNCHANGED <<serviceVars, network, discovery, services, devices, heard, tell, lookup>>

-----------------------------------------------------------------------------
(***************************************************************************)
(* The callbacks of DeviceDiscovery, on the discovery's own thread.        *)
(***************************************************************************)
\* An entry that is there already stays as it is.
NotesService(ref) ==
    [r \in DOMAIN services \cup {ref} |-> IF r \in DOMAIN services THEN services[r] ELSE loop.about]

OnServiceFound ==
    /\ LoopAt("found")
    /\ IF up
       THEN \E r \in Refs :
                /\ Ask(r, [kind |-> "txt", of |-> loop.about], <<>>)
                /\ services' = NotesService(r)
       ELSE UNCHANGED <<live, asks, mail, active, services>>
    /\ CallbackEnds
    /\ UNCHANGED <<up, misused, network, discovery, devices, listeners, heard, tell, closing, lookup, inputs>>

OnServiceLost ==
    /\ LoopAt("lost")
    /\ LoopMayLock
    /\ devices' = devices \ {loop.about}
    /\ IF loop.about \in devices
       THEN LoopGoes("tell") /\ tell' = listeners
       ELSE CallbackEnds /\ UNCHANGED tell
    /\ UNCHANGED <<up, live, asks, mail, active, misused,
                   network, discovery, services, listeners, heard, closing, lookup, inputs>>

\* Wrong variant: the entry of _services stays.
KeepsService(ref) == services

ForgetsService(ref) == Restrict(services, DOMAIN services \ {ref})

\* The query ends; the name is the one under which it was begun.  A service
\* that is not a speaker's is an exception.
OnServiceQueried ==
    /\ LoopAt("queried")
    /\ StopRef(loop.target)
    /\ loop' = [loop EXCEPT !.about = services[loop.target],
                            !.pc    = IF services[loop.target] \in Speakers THEN "keep" ELSE "after"]
    /\ services' = ForgetsService(loop.target)
    /\ UNCHANGED <<up, network, discovery, devices, listeners, heard, tell, closing, lookup, inputs>>

KeepsDevice ==
    /\ LoopAt("keep")
    /\ LoopMayLock
    /\ devices' = devices \cup {loop.about}
    /\ tell' = listeners
    /\ LoopGoes("tell")
    /\ UNCHANGED <<up, live, asks, mail, active, misused,
                   network, discovery, services, listeners, heard, closing, lookup, inputs>>

\* Wrong variant: a device that is lost stays in the list.
NotesArrivals(l) ==
    /\ l \in tell
    /\ tell' = tell \ {l}
    /\ heard' = [heard EXCEPT ![l] = @ \cup {loop.about}]

\* Listener l notes the device that came or went.
Notes(l) ==
    /\ l \in tell
    /\ tell' = tell \ {l}
    /\ heard' = [heard EXCEPT ![l] = IF loop.about \in devices THEN @ \cup {loop.about}
                                                               ELSE @ \ {loop.about}]

TellsDialog(l) ==
    /\ LoopAt("tell")
    /\ l \in Dialogs \ closing
    /\ Notes(l)
    /\ UNCHANGED <<serviceVars, network, discovery, services, devices, listeners, closing, lookup, inputs>>

\* DeviceManager opens a device that is found if the output is in use.
TellsManager ==
    /\ LoopAt("tell")
    /\ ~ManagerIsLocked
    /\ Notes(Manager)
    /\ \/ UNCHANGED loop
       \/ loop.about \in devices /\ LoopGoes("open")
    /\ UNCHANGED <<up, live, asks, mail, active, misused,
                   network, discovery, services, devices, listeners, closing, lookup, inputs>>

AllAreTold ==
    /\ LoopAt("tell")
    /\ tell = {}
    /\ CallbackEnds
    /\ UNCHANGED <<up, live, asks, mail, active, misused, discoveryVars>>

-----------------------------------------------------------------------------
(***************************************************************************)
(* DeviceConnector::connect(): the name of a device's service is resolved, *)
(* then the address of the host, both by callbacks on the discovery's      *)
(* thread, for which the caller waits five seconds.  The discovery's own   *)
(* thread is a caller too, when a device is found.                         *)
(***************************************************************************)
LookupBegins(w, r) ==
    /\ ~ManagerIsLocked
    /\ Ask(r, [kind |-> "resolve", of |-> w], <<>>)
    /\ lookup' = [lookup EXCEPT ![w] = [waits |-> TRUE, ref |-> r, set |-> FALSE]]
    /\ UNCHANGED <<up, misused, network, discovery, services, devices, listeners, heard, tell, closing>>

OpenerBegins(o) ==
    /\ Happens
    /\ Manager \in listeners
    /\ OpenersMayStep
    /\ \E r \in Refs : LookupBegins(o, r)
    /\ ThreadStarts

\* The device is open already, or the daemon does not answer.
OwnOpenIsVain ==
    /\ LoopAt("open")
    /\ ~ManagerIsLocked
    /\ \/ LoopGoes("tell")
       \/ ~up /\ LoopGoes("fail")
    /\ UNCHANGED <<up, live, asks, mail, active, misused, discoveryVars>>

OwnOpenBegins ==
    /\ LoopAt("open")
    /\ \E r \in Refs : LookupBegins(OwnThread, r)
    /\ LoopGoes("await")
    /\ UNCHANGED inputs

\* Wrong variant: the wait has no limit.
WaitsForAnswer(w) == lookup[w].set

MayGiveUp(w) == lookup[w].waits

\* The address is there, or the time is over.  What is still under way is
\* stopped.
LookupEnds(w) ==
    /\ MayGiveUp(w)
    /\ IF lookup[w].ref = NoRef
       THEN UNCHANGED <<live, asks, mail, active, misused>>
       ELSE StopRef(lookup[w].ref)
    /\ lookup' = [lookup EXCEPT ![w] = NoLookup]
    /\ UNCHANGED <<up, network, discovery, services, devices, listeners, heard, tell, closing, inputs>>

OpenerEnds(o) ==
    /\ lookup[o].set \/ OpenersMayStep
    /\ LookupEnds(o)
    /\ UNCHANGED loop

OwnOpenEnds ==
    /\ LoopAt("await")
    /\ LookupEnds(OwnThread)
    /\ LoopGoes(IF lookup[OwnThread].set THEN "tell" ELSE "fail")

\* destroyDevice() follows a failed open.
OwnOpenFailed ==
    /\ LoopAt("fail")
    /\ ~ManagerIsLocked
    /\ LoopGoes("tell")
    /\ UNCHANGED <<up, live, asks, mail, active, misused, discoveryVars>>

\* The connector that waits for the operation which is served.
IsWaitedFor(r) == lookup[loop.about].ref = r

\* Its callbacks end one operation and note that; the first begins the next.
ConnectorStops(set, pc) ==
    /\ active' = Without(loop.target)
    /\ live' = live \ {loop.target}
    /\ asks' = [asks EXCEPT ![loop.target] = NoQuestion]
    /\ mail' = [mail EXCEPT ![loop.target] = <<>>]
    /\ misused' = (misused \/ loop.target \notin live \/ ~IsWaitedFor(loop.target))
    /\ lookup' = [lookup EXCEPT ![loop.about].ref = NoRef, ![loop.about].set = set]
    /\ LoopGoes(pc)
    /\ UNCHANGED <<up, network, discovery, services, devices, listeners, heard, tell, closing, inputs>>

OnServiceResolved == LoopAt("resolved") /\ ConnectorStops(FALSE, "requery")

OnAddressQueried == LoopAt("address") /\ ConnectorStops(TRUE, "after")

ConnectorAsks ==
    /\ LoopAt("requery")
    /\ IF up
       THEN \E r \in Refs :
                /\ Ask(r, [kind |-> "address", of |-> loop.about], <<>>)
                /\ lookup' = [lookup EXCEPT ![loop.about].ref = r]
       ELSE UNCHANGED <<live, asks, mail, active, lookup>>
    /\ misused' = (misused \/ ~lookup[loop.about].waits)
    /\ CallbackEnds
    /\ UNCHANGED <<up, network, discovery, services, devices, listeners, heard, tell, closing, inputs>>

-----------------------------------------------------------------------------
(***************************************************************************)
(* The network and the daemon.                                             *)
(***************************************************************************)
DaemonTells(what, s) ==
    IF up /\ IsRunning(discovery)
    THEN Sends(discovery, what, s)
    ELSE UNCHANGED mail

Announce(s) ==
    /\ Happens
    /\ NetworkMaySpeak
    /\ s \notin network
    /\ network' = network \cup {s}
    /\ DaemonTells("found", s)
    /\ UNCHANGED <<up, live, asks, active, loop, misused,
                   discovery, services, devices, listeners, heard, tell, closing, lookup>>

\* A query for the service, or the wait for its announcement to be read.
IsAskedFor(s) ==
    \/ \E r \in live : asks[r] = [kind |-> "txt", of |-> s]
    \/ ~NothingIsServed

Withdraw(s) ==
    /\ Happens
    /\ NetworkMaySpeak
    /\ s \in network
    /\ "withdraw" \in Overlap \/ ~IsAskedFor(s)
    /\ network' = network \ {s}
    /\ DaemonTells("lost", s)
    /\ UNCHANGED <<up, live, asks, active, loop, misused,
                   discovery, services, devices, listeners, heard, tell, closing, lookup>>

Answers(r, kind, what) ==
    /\ up
    /\ r \in live
    /\ asks[r].kind = kind
    /\ mail[r] = <<>>
    /\ loop.target # r
    /\ Sends(r, what, asks[r].of)
    /\ UNCHANGED <<up, live, asks, active, loop, misused, discoveryVars>>

AnswersQuery(r) ==
    /\ NetworkMaySpeak
    /\ asks[r].of \in network
    /\ Answers(r, "txt", "queried")

AnswersConnector(r) == Answers(r, "resolve", "resolved") \/ Answers(r, "address", "address")

DaemonStops == Happens /\ DaemonEnds /\ UNCHANGED <<network, discovery, services, devices, listeners, heard, tell, closing, lookup>>

DaemonStarts == Happens /\ DaemonBegins /\ UNCHANGED <<network, discovery, services, devices, listeners, heard, tell, closing, lookup>>

-----------------------------------------------------------------------------
(***************************************************************************)
(* The thread, the waiters, the daemon's answers and the dialogs that wait *)
(* are fair; what users and the network begin is not.  That a connector is *)
(* answered is not fair either: a speaker may be silent.                   *)
(***************************************************************************)
LoopSteps ==
    \/ LoopNext /\ UNCHANGED discoveryVars
    \/ \E what \in {"found", "lost", "queried", "resolved", "address"} :
           CallsBack(what) /\ UNCHANGED discoveryVars
    \/ OnServiceFound
    \/ OnServiceLost
    \/ OnServiceQueried
    \/ KeepsDevice
    \/ \E l \in Dialogs : TellsDialog(l)
    \/ TellsManager
    \/ AllAreTold
    \/ OwnOpenIsVain
    \/ OwnOpenBegins
    \/ OwnOpenEnds
    \/ OwnOpenFailed
    \/ OnServiceResolved
    \/ OnAddressQueried
    \/ ConnectorAsks

Inputs ==
    \/ \E l \in Listeners : AddListener(l)
    \/ \E l \in Dialogs : DialogWaits(l)
    \/ \E o \in Openers : OpenerBegins(o)
    \/ \E s \in Services : Announce(s) \/ Withdraw(s)
    \/ \E r \in Refs : AnswersConnector(r)
    \/ DaemonStops
    \/ DaemonStarts

Next ==
    \/ LoopSteps
    \/ Inputs
    \/ \E l \in Dialogs : RemoveListener(l)
    \/ \E o \in Openers : OpenerEnds(o)
    \/ \E r \in Refs : AnswersQuery(r)

Spec == Init /\ [][Next]_vars

Fairness ==
    /\ WF_vars(LoopSteps)
    /\ \A o \in Openers : WF_vars(OpenerEnds(o))
    /\ \A r \in Refs : WF_vars(AnswersQuery(r))
    /\ \A l \in Dialogs : WF_vars(l \in closing /\ RemoveListener(l))

FairSpec == Spec /\ Fairness

-----------------------------------------------------------------------------
LoopPlaces ==
    {"off", "leaving", "top", "call", "after", "found", "lost", "queried", "keep", "tell",
     "open", "await", "fail", "resolved", "requery", "address"}

\* Type correctness.
TypeOK ==
    /\ up \in BOOLEAN
    /\ live \subseteq Refs
    /\ \A r \in Refs : asks[r].kind \in {"none", "browse", "txt", "resolve", "address"}
    /\ ToSet(active) \subseteq Refs /\ IsInjective(active)
    /\ loop.pc \in LoopPlaces
    /\ network \subseteq Services
    /\ discovery \in Refs \cup {NoRef}
    /\ DOMAIN services \subseteq Refs
    /\ devices \subseteq Speakers
    /\ listeners \subseteq Listeners
    /\ heard \in [Listeners -> SUBSET Speakers]
    /\ tell \subseteq listeners
    /\ closing \subseteq Dialogs
    /\ inputs \in 0 .. MaxInputs

\* The TXT record that arrives is the one of the service whose name was kept
\* for the query, also where the allocator gives the address of an old
\* operation to a new one.
AnswerIsForItsService ==
    LoopAt("queried") =>
        /\ loop.target \in DOMAIN services
        /\ services[loop.target] = loop.about

\* A listener knows every device the discovery knows, whenever the mutex is
\* free: nobody joins between two rounds and misses a device.
ListenersKnowDevices ==
    ~DiscoveryIsLocked => \A l \in listeners : devices \subseteq heard[l]

\* While the daemon runs the lists follow the network: a speaker appears in
\* the list of everyone who listens, and one that has gone disappears.
Lists(l, s) == l \in listeners => s \in heard[l]

ListsFollowNetwork ==
    []up => \A l \in Listeners, s \in Speakers :
                /\ s \in network ~> (s \in network => Lists(l, s))
                /\ s \notin network ~> (s \notin network => l \notin listeners \/ s \notin heard[l])

\* Both mutexes are released again: no round of the listeners waits for ever
\* for an open that waits for the round, nor for a window that waits for it.
MutexesAreReleased ==
    /\ DiscoveryIsLocked ~> ~DiscoveryIsLocked
    /\ ManagerIsLocked ~> ~ManagerIsLocked

=============================================================================
