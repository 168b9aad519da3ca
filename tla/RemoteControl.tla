--------------------------- MODULE RemoteControl ---------------------------
(***************************************************************************)
(* RemoteControl.cpp: the server with which speakers' remote controls      *)
(* command the player.  The monitor thread of OutputComponent.cpp creates  *)
(* and destroys it as the option says, the user's thread destroys it when  *)
(* the player quits; its own thread binds a port, registers the service    *)
(* with the daemon, selects among the connections and carries out one      *)
(* request at a time: receive, answer, then command the player by a window *)
(* message that times out when the user's thread is busy.                  *)
(*                                                                         *)
(* A connection carries one request at a time, as remote controls send     *)
(* them; a request is there in part or as a whole.  All are understood and *)
(* for the player (DeviceVolume has those for a device); Bonjour is there. *)
(***************************************************************************)
EXTENDS Integers, FiniteSets

CONSTANTS
    Remotes,     \* the remote controls
    MaxRequests  \* bound: requests that each sends

ASSUME RequestsAssumption == MaxRequests \in Nat

VARIABLES
    enabled,     \* Options::_playerControl
    ui,          \* the user's thread: it serves messages, quits, is gone or crashed
    monitor,     \* the monitor thread: whether it still turns
    remote,      \* whether _remoteControl exists
    destroyer,   \* who runs ~RemoteControl(), and where it is
    stopThread,  \* _stopThread
    operation,   \* _registerOperation: whether it was ever assigned
    advertised,  \* how many registrations the daemon keeps
    server,      \* the server's thread: where it is
    todo,        \* the rest of readList in this turn of the loop
    current,     \* the connection whose request is handled, if any
    conn,        \* every remote's connection
    closed,      \* the remotes that closed theirs
    request,     \* the request on it: none, half, whole, read or answered
    sent,        \* requests sent so far
    served       \* history: requests carried out

switches == <<enabled, ui, monitor>>
object == <<remote, destroyer, stopThread, operation, advertised>>
thread == <<server, todo, current>>
network == <<conn, closed, request, sent, served>>
vars == <<switches, object, thread, network>>

Nobody == [by |-> "nobody", pc |-> "none"]

Init ==
    /\ enabled \in BOOLEAN
    /\ ui = "free"
    /\ monitor = "turns"
    /\ remote = FALSE
    /\ destroyer = Nobody
    /\ stopThread = FALSE
    /\ operation = FALSE
    /\ advertised = 0
    /\ server = "none" /\ todo = {} /\ current = {}
    /\ conn = [r \in Remotes |-> "off"]
    /\ closed = {}
    /\ request = [r \in Remotes |-> "none"]
    /\ sent = [r \in Remotes |-> 0]
    /\ served = [r \in Remotes |-> 0]

-----------------------------------------------------------------------------
(***************************************************************************)
(* The monitor's look at the option (OutputComponentImpl::run), and the    *)
(* user who changes it or quits.                                           *)
(***************************************************************************)
UserSetsOption ==
    /\ ui = "free"
    /\ enabled' = ~enabled
    /\ UNCHANGED <<ui, monitor, object, thread, network>>

MonitorStartsService ==
    /\ monitor = "turns"
    /\ enabled /\ ~remote
    /\ remote' = TRUE
    /\ stopThread' = FALSE
    /\ operation' = FALSE
    /\ server' = "begun"
    /\ UNCHANGED <<switches, destroyer, advertised, todo, current, network>>

\* A thread begins and registers before the monitor's next turn, 250 ms later.
MonitorStopsService ==
    /\ monitor = "turns"
    /\ ~enabled /\ remote /\ destroyer = Nobody
    /\ server # "begun"
    /\ destroyer' = [by |-> IF ui = "free" THEN "monitor" ELSE "late", pc |-> "withdraw"]
    /\ UNCHANGED <<switches, remote, stopThread, operation, advertised, thread, network>>

\* ~OutputComponentImpl(): joins the monitor, for five seconds, ...
Quits ==
    /\ ui = "free"
    /\ ui' = "quits"
    /\ UNCHANGED <<enabled, monitor, object, thread, network>>

MonitorIsJoined ==
    /\ ui = "quits" /\ monitor = "turns"
    /\ destroyer = Nobody
    /\ monitor' = "ended"
    /\ UNCHANGED <<enabled, ui, object, thread, network>>

\* ... and destroys the remote control, if there is one.
QuitDestroysService ==
    /\ ui = "quits" /\ monitor = "ended"
    /\ IF remote
       THEN /\ destroyer = Nobody
            /\ destroyer' = [by |-> "ui", pc |-> "withdraw"]
            /\ UNCHANGED ui
       ELSE ui' = "gone" /\ UNCHANGED destroyer
    /\ UNCHANGED <<enabled, monitor, remote, stopThread, operation, advertised, thread, network>>

-----------------------------------------------------------------------------
(***************************************************************************)
(* ~RemoteControl(): stops the operation, whether or not there is one yet, *)
(* sets the flag and joins the thread for five seconds.                    *)
(***************************************************************************)
\* Wrong variant: the service stays registered.
Registered == advertised

Withdrawn == IF operation THEN advertised - 1 ELSE advertised

StopsOperation ==
    /\ destroyer.pc = "withdraw"
    /\ advertised' = Withdrawn
    /\ operation' = FALSE
    /\ stopThread' = TRUE
    /\ destroyer' = [destroyer EXCEPT !.pc = "join"]
    /\ UNCHANGED <<switches, remote, thread, network>>

\* Closing the thread's sockets.
HangsUp ==
    /\ conn' = [r \in Remotes |-> "off"]
    /\ closed' = {}
    /\ request' = [r \in Remotes |-> "none"]
    /\ UNCHANGED <<sent, served>>

ObjectIsGone ==
    /\ remote' = FALSE
    /\ destroyer' = Nobody
    /\ server' = "none" /\ todo' = {} /\ current' = {}
    /\ UNCHANGED <<switches, stopThread, operation, advertised>>

Joined ==
    /\ destroyer.pc = "join"
    /\ server = "ended"
    /\ ObjectIsGone
    /\ UNCHANGED network

\* Nothing comes of the rest of a request.  The thread is left with an object
\* that is no more; its connections are as good as closed.
Starved ==
    /\ server = "read"
    /\ \E r \in current : request[r] = "half" /\ r \notin closed

\* Wrong variant: join() without a limit.
NeverGivesUp == FALSE

JoinGivesUp == Starved

JoinTimesOut ==
    /\ destroyer.pc = "join"
    /\ JoinGivesUp
    /\ ObjectIsGone
    /\ HangsUp

\* The monitor destroys the object in its last turn, when it is being joined:
\* where that waits, the first join may give up, and all that the monitor goes
\* on with is destroyed.
MonitorIsGivenUp ==
    /\ ui = "quits" /\ monitor = "turns"
    /\ destroyer = [by |-> "late", pc |-> "join"]
    /\ JoinGivesUp
    /\ ui' = "crashed"
    /\ monitor' = "ended"
    /\ remote' = FALSE
    /\ destroyer' = Nobody
    /\ server' = "none" /\ todo' = {} /\ current' = {}
    /\ HangsUp
    /\ UNCHANGED <<enabled, stopThread, operation, advertised>>

-----------------------------------------------------------------------------
(***************************************************************************)
(* RemoteControl::run().                                                   *)
(***************************************************************************)
StartsServer ==
    /\ server = "begun"
    /\ server' = "select"
    /\ operation' = TRUE
    /\ advertised' = advertised + 1
    /\ UNCHANGED <<switches, remote, destroyer, stopThread, todo, current, network>>

ServerEnds ==
    /\ server = "select" /\ stopThread
    /\ server' = "ended"
    /\ HangsUp
    /\ UNCHANGED <<switches, object, todo, current>>

\* Wrong variant: the connections are not in readList.
IsGone(r) == conn[r] = "open" /\ r \in closed

IsReadable(r) == conn[r] = "open" /\ (request[r] \in {"half", "whole"} \/ r \in closed)

\* select(); one connection is accepted, and those readable are served after it.
ServerSelects ==
    /\ server = "select" /\ ~stopThread
    /\ LET waiting  == {r \in Remotes : conn[r] = "pending"}
           readable == {r \in Remotes : IsReadable(r)}
       IN  /\ waiting \cup readable # {}
           /\ IF waiting # {}
              THEN \E r \in waiting : conn' = [conn EXCEPT ![r] = "open"]
              ELSE UNCHANGED conn
           /\ todo' = readable
           /\ server' = IF readable = {} THEN "select" ELSE "serve"
    /\ UNCHANGED <<switches, object, current, closed, request, sent, served>>

\* clientList.erase(): the server's end of the connection is closed.
Erases(r) ==
    /\ conn' = [conn EXCEPT ![r] = "off"]
    /\ closed' = closed \ {r}
    /\ request' = [request EXCEPT ![r] = "none"]
    /\ UNCHANGED <<sent, served>>

Turn(rest) ==
    /\ todo' = rest
    /\ current' = {}
    /\ server' = IF rest = {} THEN "select" ELSE "serve"

\* available(): nothing to read is what a closed connection looks like.
ServesNext ==
    /\ server = "serve"
    /\ \E r \in todo :
         IF request[r] # "none"
         THEN /\ server' = "read" /\ current' = {r} /\ todo' = todo \ {r}
              /\ UNCHANGED network
         ELSE Erases(r) /\ Turn(todo \ {r})
    /\ UNCHANGED <<switches, object>>

\* receiveRequest(): waits for the whole; an exception if there will be none.
Receives ==
    /\ server = "read"
    /\ \E r \in current :
         \/ /\ request[r] = "whole"
            /\ server' = "answer"
            /\ request' = [request EXCEPT ![r] = "read"]
            /\ UNCHANGED <<todo, current, conn, closed, sent, served>>
         \/ /\ request[r] = "half" /\ r \in closed
            /\ Erases(r) /\ Turn(todo)
    /\ UNCHANGED <<switches, object>>

\* sendResponse() to a remote that has closed may succeed, or throw.
Answers ==
    /\ server = "answer"
    /\ \E r \in current :
         \/ /\ server' = "act"
            /\ request' = [request EXCEPT ![r] = "answered"]
            /\ UNCHANGED <<todo, current, conn, closed, sent, served>>
         \/ /\ r \in closed
            /\ Erases(r) /\ Turn(todo)
    /\ UNCHANGED <<switches, object>>

\* controlPlayer(): a window message, in vain when the user's thread has quit.
ControlsPlayer ==
    /\ server = "act"
    /\ \E r \in current :
         /\ served' = [served EXCEPT ![r] = IF ui = "free" THEN @ + 1 ELSE @]
         /\ request' = [request EXCEPT ![r] = "none"]
    /\ Turn(todo)
    /\ UNCHANGED <<switches, object, conn, closed, sent>>

-----------------------------------------------------------------------------
(***************************************************************************)
(* The remote controls: they find the service, send a request when the     *)
(* last is done with, all of it or first a part, and close.                *)
(***************************************************************************)
Connects(r) ==
    /\ conn[r] = "off"
    /\ advertised > 0 /\ server \notin {"none", "begun", "ended"}
    /\ sent[r] < MaxRequests
    /\ conn' = [conn EXCEPT ![r] = "pending"]
    /\ UNCHANGED <<switches, object, thread, closed, request, sent, served>>

Sends(r) ==
    /\ conn[r] # "off" /\ r \notin closed
    /\ request[r] = "none" /\ sent[r] < MaxRequests
    /\ \E part \in {"half", "whole"} : request' = [request EXCEPT ![r] = part]
    /\ sent' = [sent EXCEPT ![r] = @ + 1]
    /\ UNCHANGED <<switches, object, thread, conn, closed, served>>

SendsRest(r) ==
    /\ request[r] = "half" /\ r \notin closed
    /\ request' = [request EXCEPT ![r] = "whole"]
    /\ UNCHANGED <<switches, object, thread, conn, closed, sent, served>>

Closes(r) ==
    /\ conn[r] # "off" /\ r \notin closed
    /\ closed' = closed \cup {r}
    /\ UNCHANGED <<switches, object, thread, conn, request, sent, served>>

-----------------------------------------------------------------------------
ServerSteps ==
    \/ StartsServer \/ ServerEnds \/ ServerSelects \/ ServesNext
    \/ Receives \/ Answers \/ ControlsPlayer

Destroys == StopsOperation \/ Joined \/ JoinTimesOut

MonitorSteps == MonitorStartsService \/ MonitorStopsService

QuitSteps == MonitorIsJoined \/ QuitDestroysService

Next ==
    \/ UserSetsOption \/ Quits
    \/ MonitorSteps \/ QuitSteps \/ MonitorIsGivenUp
    \/ Destroys
    \/ ServerSteps
    \/ \E r \in Remotes : Connects(r) \/ Sends(r) \/ SendsRest(r) \/ Closes(r)

Spec == Init /\ [][Next]_vars

(***************************************************************************)
(* The monitor turns four times a second; threads that are not blocked go  *)
(* on; select() names every readable connection, so none is passed over.   *)
(* Nothing makes a remote control send the rest of a request.              *)
(***************************************************************************)
FairSpec ==
    /\ Spec
    /\ WF_vars(MonitorSteps)
    /\ WF_vars(QuitSteps)
    /\ WF_vars(Destroys)
    /\ WF_vars(ServerSteps)

-----------------------------------------------------------------------------
(***************************************************************************)
(* The service that the daemon advertises follows the option, however the  *)
(* option is switched while a thread starts, serves, or is stopped, and    *)
(* also when a remote control keeps that thread waiting                    *)
(* (OutputComponent.cpp:412-428, RemoteControl.cpp:360-374).               *)
(***************************************************************************)
ServiceFollowsOption ==
    \A b \in BOOLEAN :
        <>[](enabled = b /\ ui = "free") => <>[](advertised = IF b THEN 1 ELSE 0)

(***************************************************************************)
(* Unless a remote control stops in the middle of a request, every request *)
(* that is complete is carried out, whatever the other remotes do, or its  *)
(* remote hangs up, or the server does (RemoteControl.cpp:393-435).        *)
(***************************************************************************)
RequestsAreServed ==
    <>[](enabled /\ ui = "free" /\ \A r \in Remotes : request[r] # "half") =>
        \A r \in Remotes : \A n \in 1 .. MaxRequests :
            (request[r] = "whole" /\ served[r] = n - 1) ~>
                (served[r] = n \/ r \in closed \/ conn[r] = "off")

(***************************************************************************)
(* The player quits although its thread answers no window message while it *)
(* waits for the monitor, that for the server's thread, and that for the   *)
(* window or for a remote control (OutputComponent.cpp:325-335,            *)
(* RemoteControl.cpp:368-373).  It ends in a crash only where a remote has *)
(* sent a part of a request and the monitor switches the service off after *)
(* it was told to stop.                                                    *)
(***************************************************************************)
QuitEnds ==
    \A by \in {"nobody", "monitor", "late"} :
        (ui = "quits" /\ destroyer.by = by) ~>
            (ui = "gone" \/ (ui = "crashed" /\ by # "monitor"))
=============================================================================
