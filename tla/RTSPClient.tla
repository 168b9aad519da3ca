----------------------------- MODULE RTSPClient -----------------------------
(***************************************************************************)
(* raop/RTSPClient.cpp, driven as raop/RAOPDevice.cpp and DeviceManager's  *)
(* openDevice() drive it: one speaker's control connection, on which       *)
(* requests and answers are paired by nothing but their order.             *)
(*                                                                         *)
(* The manager's thread tests the speaker, opens a session, sends          *)
(* parameters and closes.  Users are the other threads that reach an open  *)
(* session: the player's, which flushes inside the engine's reset(), and   *)
(* the remote control's.  RTSPClient's _rtspMutex keeps them apart.        *)
(*                                                                         *)
(* The speaker answers requests in order, when it likes; the connection    *)
(* may drop.  Closing waits for the users, as detach() waits for the       *)
(* engine's mutex; DeviceManager has the races of close() itself.          *)
(***************************************************************************)
EXTENDS Integers, Sequences

CONSTANTS
    Users,      \* the threads beside the manager's that use the session
    SeqMod,     \* how many sequence numbers there are, 2^32 in the code
    MaxLate     \* bound: commands are sent while fewer answers are overdue

ASSUME ClientAssumption ==
    /\ "manager" \notin Users
    /\ SeqMod \in Nat
    /\ MaxLate \in Nat
    /\ MaxLate + 2 < SeqMod

VARIABLES
    stage,      \* where openDevice() or close() of this speaker's device is
    tried,      \* whether the password of the options was sent in this stage
    stored,     \* the password of the options: none, right or wrong
    client,     \* RTSPClientImpl, a default one while there is none
    calls,      \* per thread: its place in a request or a look, and the pair
    link,       \* whether the connection is up
    toSpeaker,  \* requests under way
    toClient,   \* answers under way
    sent,       \* how many requests the connection saw, modulo SeqMod
    speaker     \* the speaker's side of the session

sessionVars == <<stage, tried, stored, client>>
networkVars == <<link, toSpeaker, toClient, sent, speaker>>
vars == <<sessionVars, calls, networkVars>>

Threads == Users \cup {"manager"}
Methods == {"OPTIONS", "POST", "ANNOUNCE", "SETUP", "RECORD", "FLUSH",
            "SET_PARAMETER", "TEARDOWN"}
Passwords == {"none", "right", "wrong"}
Ids == 0..3         \* session identifiers; 0 is none, random ones differ
FreshId(id) == (id % 3) + 1

FreshClient ==
    [number |-> 0, local |-> 0, remote |-> 0, challenged |-> FALSE,
     password |-> "none", teardownRequired |-> FALSE]

FreshSpeaker == [announced |-> 0, session |-> 0, recording |-> FALSE]

NoRequest == [id |-> 0, cseq |-> 0, method |-> "OPTIONS", local |-> 0,
              remote |-> 0, password |-> "none"]
NoAnswer == [id |-> 0, cseq |-> 0, status |-> 0, session |-> 0]

\* A thread that is at a place of a call, without an answer so far.
CallAt(pc, method) ==
    [pc |-> pc, method |-> method, request |-> NoRequest, answer |-> NoAnswer]

Quiet == CallAt("idle", "OPTIONS")

Init ==
    /\ stage = "idle"
    /\ tried = FALSE
    /\ stored \in Passwords
    /\ client = FreshClient
    /\ calls = [t \in Threads |-> Quiet]
    /\ link = FALSE
    /\ toSpeaker = <<>>
    /\ toClient = <<>>
    /\ sent = 0
    /\ speaker = FreshSpeaker

At(t, pc) == calls[t].pc = pc

Goes(t, pc) == calls' = [calls EXCEPT ![t].pc = pc]

Throws(t) == calls' = [calls EXCEPT ![t] = CallAt("failed", calls[t].method)]

NextNumber(n) == (n + 1) % SeqMod

\* Wrong variant: requests and answers are not kept in pairs.
MutexIgnored == TRUE

\* A thread has _rtspMutex from the sending of its request until it has the
\* answer.
MutexIsFree == \A t \in Threads : ~At(t, "awaits")

\* How many answers are still to come, or to be read, that nobody waits for.
Overdue == Len(toSpeaker) + Len(toClient) - (IF MutexIsFree THEN 0 ELSE 1)

-----------------------------------------------------------------------------
(***************************************************************************)
(* sendRequestReceiveResponse().                                           *)
(***************************************************************************)
Asks(t, method) == calls' = [calls EXCEPT ![t] = CallAt("wants", method)]

LooksFirst(t, method) == calls' = [calls EXCEPT ![t] = CallAt("looks", method)]

Request(method) ==
    [id       |-> sent,
     cseq     |-> NextNumber(client.number),
     method   |-> method,
     local    |-> client.local,
     remote   |-> client.remote,
     password |-> IF client.challenged THEN client.password ELSE "none"]

Sends(t) ==
    /\ At(t, "wants")
    /\ MutexIsFree
    /\ IF link
       THEN LET r == Request(calls[t].method) IN
            /\ calls' = [calls EXCEPT ![t].pc = "awaits", ![t].request = r]
            /\ toSpeaker' = Append(toSpeaker, r)
            /\ sent' = NextNumber(sent)
       ELSE Throws(t) /\ UNCHANGED <<toSpeaker, sent>>
    /\ UNCHANGED <<sessionVars, link, toClient, speaker>>

\* The number counts the answers.  One that asks for a password leaves its
\* realm and nonce for the requests to come.
Receives(t) ==
    /\ At(t, "awaits")
    /\ toClient # <<>>
    /\ calls' = [calls EXCEPT ![t].pc = "answered", ![t].answer = Head(toClient)]
    /\ toClient' = Tail(toClient)
    /\ client' = [client EXCEPT !.number = NextNumber(@),
                                !.challenged = @ \/ Head(toClient).status = 401]
    /\ UNCHANGED <<stage, tried, stored, link, toSpeaker, sent, speaker>>

\* Wrong variant: the socket has no receive timeout.
FailsWithLink(t) ==
    /\ At(t, "awaits")
    /\ ~link
    /\ Throws(t)
    /\ UNCHANGED <<sessionVars, networkVars>>

\* Ten seconds passed, or the connection is gone: an exception, after which
\* the connection is used as before.
Fails(t) ==
    /\ At(t, "awaits")
    /\ toClient = <<>>
    /\ Throws(t)
    /\ UNCHANGED <<sessionVars, networkVars>>

\* isReady() takes no mutex: it polls the socket, and peeks if there is
\* something to read.  Another thread may have read it by then; the peek
\* waits for more, at most ten seconds, and then the answer is no.
Looks(t) ==
    /\ At(t, "looks")
    /\ IF link THEN Goes(t, IF toClient = <<>> THEN "wants" ELSE "peeks") ELSE Throws(t)
    /\ UNCHANGED <<sessionVars, networkVars>>

Peeks(t) ==
    /\ At(t, "peeks")
    /\ IF toClient # <<>> THEN Goes(t, "wants") ELSE Throws(t)
    /\ UNCHANGED <<sessionVars, networkVars>>

-----------------------------------------------------------------------------
(***************************************************************************)
(* The users: RAOPEngine::reset() flushes a device that is ready, the      *)
(* remote control puts a volume.  What went wrong is caught and forgotten. *)
(***************************************************************************)
UserBegins(u) ==
    /\ stage = "open"
    /\ At(u, "idle")
    /\ Overdue < MaxLate
    /\ \/ LooksFirst(u, "FLUSH")
       \/ Asks(u, "SET_PARAMETER")
    /\ UNCHANGED <<sessionVars, networkVars>>

UserEnds(u) ==
    /\ At(u, "answered") \/ At(u, "failed")
    /\ calls' = [calls EXCEPT ![u] = Quiet]
    /\ UNCHANGED <<sessionVars, networkVars>>

-----------------------------------------------------------------------------
(***************************************************************************)
(* The manager's thread.  A stage is the request it has to make.           *)
(***************************************************************************)
M == "manager"

Building == {"OPTIONS", "POST", "ANNOUNCE", "SETUP", "RECORD"}

UsersAreQuiet == \A u \in Users : At(u, "idle")

\* A new connection, for the test or for the session; only some speakers
\* have a public key, which is posted first.
Connects ==
    /\ stage = "idle"
    /\ stage' \in {"OPTIONS", "POST", "ANNOUNCE"}
    /\ tried' = FALSE
    /\ client' = FreshClient
    /\ link' = TRUE
    /\ toSpeaker' = <<>>
    /\ toClient' = <<>>
    /\ sent' = 0
    /\ speaker' = FreshSpeaker
    /\ UNCHANGED <<stored, calls>>

\* doAnnounce() draws a new session identifier before it sends.
Announced(method) ==
    IF method = "ANNOUNCE" THEN [client EXCEPT !.local = FreshId(@)] ELSE client

Builds ==
    /\ stage \in Building
    /\ At(M, "idle")
    /\ Asks(M, stage)
    /\ client' = Announced(stage)
    /\ UNCHANGED <<stage, tried, stored, networkVars>>

Follows(method) ==
    CASE method = "OPTIONS"  -> "close"
      [] method = "POST"     -> "ANNOUNCE"
      [] method = "ANNOUNCE" -> "SETUP"
      [] method = "SETUP"    -> "RECORD"
      [] method = "RECORD"   -> "open"

\* Wrong variant: the session that the speaker set up is not remembered.
AcceptedWithoutSession(method, a) ==
    IF method = "RECORD" THEN [client EXCEPT !.teardownRequired = TRUE] ELSE client

\* Wrong variant: a session that the speaker records needs no teardown.
AcceptedWithoutTeardown(method, a) ==
    IF method = "SETUP" THEN [client EXCEPT !.remote = a.session] ELSE client

\* What the client keeps of an answer that is OK.
Accepted(method, a) ==
    CASE method = "SETUP"  -> [client EXCEPT !.remote = a.session]
      [] method = "RECORD" -> [client EXCEPT !.teardownRequired = TRUE]
      [] OTHER             -> client

Advances ==
    /\ stage \in Building
    /\ At(M, "answered")
    /\ calls[M].answer.status = 200
    /\ stage' = Follows(stage)
    /\ client' = Accepted(stage, calls[M].answer)
    /\ calls' = [calls EXCEPT ![M] = Quiet]
    /\ UNCHANGED <<tried, stored, networkVars>>

\* A status that means no, a header that is missing, or an exception.
GivesUp ==
    /\ stage \in Building
    /\ \/ At(M, "failed")
       \/ At(M, "answered") /\ calls[M].answer.status \notin {200, 401}
    /\ stage' = "close"
    /\ calls' = [calls EXCEPT ![M] = Quiet]
    /\ UNCHANGED <<tried, stored, client, networkVars>>

\* Wrong variant: a password that was refused stays in the options.
LeftWhenRefused == stored

\* Wrong variant: the first refusal clears the password, sent or not.
LeftWhenAsked == "none"

\* The password there is to send after a refusal: one that was sent and
\* refused is cleared, and without one the loop ends in an exception.
LeftAfterRefusal == IF tried THEN "none" ELSE stored

\* A client whose connection has gone is replaced by a new one.
IsRefused ==
    /\ stage \in Building
    /\ At(M, "answered")
    /\ calls[M].answer.status = 401
    /\ stored' = LeftAfterRefusal
    /\ IF stored' = "none"
       THEN stage' = "close" /\ UNCHANGED <<tried, client>>
       ELSE /\ stage' \in IF stage = "OPTIONS" THEN {"OPTIONS"} ELSE {"POST", "ANNOUNCE"}
            /\ tried' = TRUE
            /\ client' = IF link THEN [client EXCEPT !.password = stored] ELSE FreshClient
    /\ calls' = [calls EXCEPT ![M] = Quiet]
    /\ UNCHANGED networkVars

\* Volume, metadata and progress, to a device that is ready, whatever
\* becomes of them.
SetsParameter ==
    /\ stage = "open"
    /\ At(M, "idle")
    /\ Overdue < MaxLate
    /\ LooksFirst(M, "SET_PARAMETER")
    /\ UNCHANGED <<sessionVars, networkVars>>

ParameterIsSet ==
    /\ stage = "open"
    /\ At(M, "answered") \/ At(M, "failed")
    /\ calls' = [calls EXCEPT ![M] = Quiet]
    /\ UNCHANGED <<sessionVars, networkVars>>

\* RAOPDevice::close(), and doTeardown() for a session that was recorded.
CloseBegins ==
    /\ stage = "open"
    /\ At(M, "idle")
    /\ stage' = "close"
    /\ UNCHANGED <<tried, stored, client, calls, networkVars>>

Closes ==
    /\ stage = "close"
    /\ UsersAreQuiet
    /\ IF link /\ client.teardownRequired
       THEN stage' = "TEARDOWN" /\ Asks(M, "TEARDOWN")
       ELSE stage' = "delete" /\ UNCHANGED calls
    /\ UNCHANGED <<tried, stored, client, networkVars>>

TornDown ==
    /\ stage = "TEARDOWN"
    /\ At(M, "answered") \/ At(M, "failed")
    /\ stage' = "delete"
    /\ client' = [client EXCEPT !.teardownRequired = At(M, "failed")]
    /\ calls' = [calls EXCEPT ![M] = Quiet]
    /\ UNCHANGED <<tried, stored, networkVars>>

\* The destructor closes the socket, which ends the speaker's side as well.
Deletes ==
    /\ stage = "delete"
    /\ stage' = "idle"
    /\ tried' = FALSE
    /\ client' = FreshClient
    /\ link' = FALSE
    /\ toSpeaker' = <<>>
    /\ toClient' = <<>>
    /\ sent' = 0
    /\ speaker' = FreshSpeaker
    /\ UNCHANGED <<stored, calls>>

-----------------------------------------------------------------------------
(***************************************************************************)
(* The speaker and the network, which are not part of the program.         *)
(***************************************************************************)
\* A speaker that has a password asks for it when it likes; it never
\* refuses the right one, nor to end a session.
MayAsk(r) == r.password # "right" /\ r.method # "TEARDOWN"

\* What the speaker does of a request it accepts.
Obeys(r) ==
    CASE r.method = "ANNOUNCE" -> [speaker EXCEPT !.announced = r.local]
      [] r.method = "SETUP"    -> [speaker EXCEPT !.session = FreshId(@)]
      [] r.method = "RECORD"   -> [speaker EXCEPT !.recording = TRUE]
      [] r.method = "TEARDOWN" -> [speaker EXCEPT !.recording = FALSE]
      [] OTHER                 -> speaker

AnswerTo(r, status, session) ==
    [id |-> r.id, cseq |-> r.cseq, status |-> status, session |-> session]

Answers ==
    /\ toSpeaker # <<>>
    /\ LET r == Head(toSpeaker) IN
       \/ /\ speaker' = Obeys(r)
          /\ toClient' = Append(toClient, AnswerTo(r, 200, speaker'.session))
       \/ /\ r.method # "TEARDOWN"
          /\ toClient' = Append(toClient, AnswerTo(r, 453, 0))
          /\ UNCHANGED speaker
       \/ /\ MayAsk(r)
          /\ toClient' = Append(toClient, AnswerTo(r, 401, 0))
          /\ UNCHANGED speaker
    /\ toSpeaker' = Tail(toSpeaker)
    /\ UNCHANGED <<sessionVars, calls, link, sent>>

Drops ==
    /\ link
    /\ link' = FALSE
    /\ toSpeaker' = <<>>
    /\ toClient' = <<>>
    /\ speaker' = FreshSpeaker
    /\ UNCHANGED <<sessionVars, calls, sent>>

-----------------------------------------------------------------------------
CallProceeds(t) ==
    \/ Sends(t)
    \/ Receives(t)
    \/ Fails(t)
    \/ Looks(t)
    \/ Peeks(t)

ManagerProceeds ==
    \/ Builds
    \/ Advances
    \/ GivesUp
    \/ IsRefused
    \/ ParameterIsSet
    \/ Closes
    \/ TornDown
    \/ Deletes

Next ==
    \/ \E t \in Threads : CallProceeds(t)
    \/ \E u \in Users : UserBegins(u) \/ UserEnds(u)
    \/ Connects
    \/ SetsParameter
    \/ CloseBegins
    \/ ManagerProceeds
    \/ Answers
    \/ Drops

Spec == Init /\ [][Next]_vars

(***************************************************************************)
(* What has begun goes on: threads run, the mutex is handed over to each   *)
(* thread that keeps asking, and the ten seconds of a wait pass.  Nothing  *)
(* is asked of the speaker.                                                *)
(***************************************************************************)
Fairness ==
    /\ \A t \in Threads : SF_vars(CallProceeds(t))
    /\ \A u \in Users : WF_vars(UserEnds(u))
    /\ WF_vars(ManagerProceeds)

FairSpec == Spec /\ Fairness

-----------------------------------------------------------------------------
Numbers == 0..SeqMod - 1
Stages == Building \cup {"idle", "open", "close", "TEARDOWN", "delete"}
Places == {"idle", "looks", "peeks", "wants", "awaits", "answered", "failed"}
Clients == [number : Numbers, local : Ids, remote : Ids, challenged : BOOLEAN,
            password : Passwords, teardownRequired : BOOLEAN]
Requests == [id : Numbers, cseq : Numbers, method : Methods, local : Ids,
             remote : Ids, password : Passwords]
AnswerSet == [id : Numbers, cseq : Numbers, status : {0, 200, 401, 453}, session : Ids]
CallRecords == [pc : Places, method : Methods, request : Requests, answer : AnswerSet]
Speakers == [announced : Ids, session : Ids, recording : BOOLEAN]

\* Type correctness of the client, its threads, the connection and the
\* speaker.
TypeOK ==
    /\ stage \in Stages
    /\ tried \in BOOLEAN
    /\ stored \in Passwords
    /\ client \in Clients
    /\ calls \in [Threads -> CallRecords]
    /\ link \in BOOLEAN
    /\ toSpeaker \in Seq(Requests)
    /\ toClient \in Seq(AnswerSet)
    /\ sent \in Numbers
    /\ speaker \in Speakers

Lag(t) == (calls[t].request.id + SeqMod - calls[t].answer.id) % SeqMod

\* However the threads interleave, a call gets the answer of its own
\* request, or of one that is earlier by no more than the requests that
\* timed out: the mutex keeps pairs together, and each answer that came too
\* late shifts all that follow.
AnswersLagByTimeouts ==
    \A t \in Threads : At(t, "answered") /\ link => Lag(t) <= Overdue

\* The number of an answer is that of the request whose caller gets it,
\* which the client asserts ("validate response sequence number").
ResponseSequenceValidated ==
    \A t \in Threads : At(t, "answered") =>
        calls[t].answer.cseq = calls[t].request.cseq

SessionMethods == {"RECORD", "FLUSH", "SET_PARAMETER", "TEARDOWN"}

\* What reaches the speaker about a session names the one that it announced
\* and set up last, through every retry with a password and with answers
\* that come too late.
RequestsNameTheSession ==
    \A i \in DOMAIN toSpeaker :
        LET r == toSpeaker[i] IN
        r.method \in SessionMethods =>
            r.local = speaker.announced /\ r.remote = speaker.session

\* When the client is deleted the speaker does not record any more, as long
\* as every request was answered in time: a session that was established is
\* torn down, and nobody else is told that the speaker is in use.
SpeakerIsReleased ==
    stage = "delete" /\ link /\ Overdue = 0 => ~speaker.recording

\* A password that the speaker would accept is never cleared: it is one
\* that was sent and refused.
RightPasswordIsKept == [][stored = "right" => stored' = "right"]_vars

\* Every request and every look comes to an end, without any help from the
\* speaker.
CallsEnd == \A t \in Threads : ~At(t, "idle") ~> At(t, "idle")

\* What builds a session gets there or gives up, however often the speaker
\* asks for a password.
BuildingEnds == stage \in Building ~> stage \in {"open", "idle"}

=============================================================================
