-------------------------- MODULE OutputComponent --------------------------
(***************************************************************************)
(* OutputComponent.cpp: what a player plug-in calls, on one thread at a    *)
(* time, and the monitor thread that closes the devices after a long       *)
(* pause.  The output chain is the buffer of OutputBuffer.cpp in front of  *)
(* the engine; the engine is reduced to the number of packets it holds     *)
(* and the devices to whether one is open (modules RAOPEngine and          *)
(* DeviceManager have them in detail).                                     *)
(*                                                                         *)
(* The buffer talks to the engine in a loop that the sender and monitor    *)
(* threads interrupt; each turn of it is a step here.  The room that       *)
(* canWrite() reports is still there when write() is called (RoomIsKept    *)
(* of DeviceManager), so the two are one step.  The reformatter is left    *)
(* out: the player's format is the engine's.                               *)
(***************************************************************************)
EXTENDS OutputBuffer

CONSTANTS
    QueueLength,  \* packets the engine's buffers hold, 250
    MaxSleeps,    \* 12: turns a flush waits for room, a millisecond each
    MaxPolls,     \* 16: questions for buffered data before it is flushed
    LongPause,    \* 32: turns of the monitor, a quarter of a second each
    MaxBytes      \* bound: bytes ever written

ASSUME ComponentAssumption ==
    {QueueLength, LongPause} \subseteq Nat \ {0} /\ {MaxSleeps, MaxPolls, MaxBytes} \subseteq Nat

VARIABLES
    chain,       \* whether _outputSink, the output chain, exists
    paused,      \* _paused
    graceful,    \* _closeGracefully
    polls,       \* _flushCounter
    ring,        \* the buffer in the chain
    call,        \* the call in progress: where it is, which, flushing, sleeps
    deviceOpen,  \* whether any device is open
    queued,      \* packets in the engine
    monitor,     \* the monitor thread: where it is, and its pausedCount
    accepted,    \* history: bytes the player wrote
    discarded,   \* history: the bytes that were thrown away
    heard,       \* history: the bytes the engine was given
    silences     \* history: how many it had been given when it was given silence

playerVars == <<chain, paused, graceful, polls, call>>
audioVars == <<ring, accepted, discarded, heard, silences>>
vars == <<playerVars, audioVars, deviceOpen, queued, monitor>>

NoCall == [pc |-> "idle", op |-> "none", flush |-> FALSE, sleeps |-> 0]

Pump(op, flush) == [pc |-> "pump", op |-> op, flush |-> flush, sleeps |-> 0]

Init ==
    /\ chain = FALSE
    /\ paused = TRUE
    /\ graceful = FALSE
    /\ polls = 0
    /\ ring = NewRing
    /\ call = NoCall
    /\ deviceOpen = FALSE
    /\ queued = 0
    /\ monitor = [pc |-> "look", count |-> 0]
    /\ accepted = 0
    /\ discarded = {}
    /\ heard = <<>>
    /\ silences = {}

CallIs(pc) == call.pc = pc

CallGoes(pc) == call' = [call EXCEPT !.pc = pc]

-----------------------------------------------------------------------------
(***************************************************************************)
(* OutputBuffer::writeToOutputSink(), a turn of its loop at a time.        *)
(***************************************************************************)
SinkRoom == IF deviceOpen /\ queued < QueueLength THEN PacketSize ELSE 0

\* Wrong variant: any amount of data goes out at once.
WantsToWriteEagerly == Unread(ring) > 0 /\ (call.flush \/ SinkRoom > 0)

WantsToWrite ==
    Unread(ring) > 0 /\ (call.flush \/ (SinkRoom > 0 /\ Unread(ring) >= SinkRoom))

Smaller(a, b) == IF a < b THEN a ELSE b

\* RAOPEngine::write() fills a packet that is short up with silence.
GivesEngine(data) ==
    /\ heard' = heard \o data
    /\ silences' = IF Len(data) < PacketSize THEN silences \cup {Len(heard')} ELSE silences

PumpWrites ==
    /\ CallIs("pump")
    /\ WantsToWrite
    /\ SinkRoom > 0
    /\ LET n == Smaller(Unread(ring), SinkRoom)
       IN  /\ GivesEngine(Fetch(ring, n))
           /\ ring' = Take(ring, n)
    /\ queued' = queued + 1
    /\ call' = [call EXCEPT !.sleeps = 0]
    /\ UNCHANGED <<chain, paused, graceful, polls, accepted, discarded, deviceOpen, monitor>>

PumpSleeps ==
    /\ CallIs("pump")
    /\ WantsToWrite
    /\ SinkRoom = 0
    /\ call.sleeps < MaxSleeps
    /\ call' = [call EXCEPT !.sleeps = @ + 1]
    /\ UNCHANGED <<chain, paused, graceful, polls, audioVars, deviceOpen, queued, monitor>>

\* Where the caller goes on.
AfterPump ==
    CASE call.op = "poll"            -> "count"
      [] call.op \in {"close", "open"} -> "drain"
      [] OTHER                       -> "idle"

PumpReturns == IF AfterPump = "idle" THEN call' = NoCall ELSE CallGoes(AfterPump)

\* Wrong variant: a flush waits for room however long it takes.
NeverGivesUp == FALSE

GivesUp == SinkRoom = 0 /\ call.sleeps = MaxSleeps

\* Nothing to write, or too little; or the flush has slept often enough.
PumpEnds ==
    /\ CallIs("pump")
    /\ ~WantsToWrite \/ GivesUp
    /\ PumpReturns
    /\ UNCHANGED <<chain, paused, graceful, polls, audioVars, deviceOpen, queued, monitor>>

\* reset() of the whole chain.
Discard ==
    /\ discarded' = discarded \cup {Fetch(ring, Unread(ring))[i] : i \in 1 .. Unread(ring)}
    /\ ring' = Rewound(ring)
    /\ queued' = 0
    /\ UNCHANGED <<accepted, heard, silences>>

-----------------------------------------------------------------------------
\* Wrong variant: what buffered() concluded survives a new write.
WritingUnnoticed == polls' = 0 /\ UNCHANGED graceful

\* What write() forgets about the end of the writing phase.
PlayerIsWriting == polls' = 0 /\ graceful' = FALSE

(***************************************************************************)
(* write() with data: buffered if there is room; an exception otherwise,   *)
(* or if the player writes without having opened.                          *)
(***************************************************************************)
Write(n) ==
    /\ CallIs("idle")
    /\ ~paused
    /\ accepted + n <= MaxBytes
    /\ PlayerIsWriting
    /\ IF chain /\ n <= ring.avail
       THEN /\ ring' = Put(ring, [i \in 1 .. n |-> accepted + i])
            /\ accepted' = accepted + n
            /\ call' = Pump("write", FALSE)
       ELSE UNCHANGED <<ring, accepted, call>>
    /\ UNCHANGED <<chain, paused, deviceOpen, queued, monitor, discarded, heard, silences>>

\* write() without data: the player has written everything.
EndWriting ==
    /\ CallIs("idle")
    /\ ~paused
    /\ PlayerIsWriting
    /\ call' = IF chain THEN Pump("flush", TRUE) ELSE NoCall
    /\ UNCHANGED <<chain, paused, audioVars, deviceOpen, queued, monitor>>

\* canWrite(), which resumes writing to the engine.
AskRoom ==
    /\ CallIs("idle")
    /\ ~paused
    /\ chain
    /\ call' = Pump("room", FALSE)
    /\ UNCHANGED <<chain, paused, graceful, polls, audioVars, deviceOpen, queued, monitor>>

(***************************************************************************)
(* buffered(), by which a player waits for the end of the audio.           *)
(***************************************************************************)
NothingBuffered ==
    /\ graceful' = (graceful \/ ~paused)
    /\ call' = NoCall
    /\ UNCHANGED polls

Poll ==
    /\ CallIs("idle")
    /\ IF chain
       THEN call' = Pump("poll", FALSE) /\ UNCHANGED <<graceful, polls>>
       ELSE NothingBuffered
    /\ UNCHANGED <<chain, paused, audioVars, deviceOpen, queued, monitor>>

\* Wrong variant: buffered() only resumes writing, as it always does.
ResumeOnly == Pump("flush", FALSE)

FlushForPoller == Pump("flush", TRUE)

PollsOften == polls + 1 > MaxPolls

PollCounts ==
    /\ CallIs("count")
    /\ IF Unread(ring) = 0
       THEN NothingBuffered
       ELSE /\ polls' = IF PollsOften THEN 0 ELSE polls + 1
            /\ call' = IF PollsOften THEN FlushForPoller ELSE NoCall
            /\ UNCHANGED graceful
    /\ UNCHANGED <<chain, paused, audioVars, deviceOpen, queued, monitor>>

(***************************************************************************)
(* close(), which open() calls first.  A chain whose audio the player saw  *)
(* all gone is flushed and drained, any other is reset.                    *)
(***************************************************************************)
CloseEnds(op) == call' = IF op = "open" THEN [NoCall EXCEPT !.pc = "reopen", !.op = op] ELSE NoCall

CloseBegins(op) ==
    /\ CallIs("idle")
    /\ graceful' = FALSE
    /\ polls' = 0
    /\ paused' = TRUE
    /\ chain' = FALSE
    /\ \/ /\ chain /\ graceful /\ deviceOpen
          /\ call' = Pump(op, TRUE)
          /\ UNCHANGED <<audioVars, queued>>
       \/ /\ chain /\ ~(graceful /\ deviceOpen)
          /\ CloseEnds(op)
          /\ Discard
       \/ /\ ~chain
          /\ CloseEnds(op)
          /\ UNCHANGED <<audioVars, queued>>
    /\ UNCHANGED <<deviceOpen, monitor>>

\* Waits while data is buffered and a device is open; then the chain goes.
CloseDrains ==
    /\ CallIs("drain")
    /\ IF Unread(ring) > 0 /\ deviceOpen
       THEN call' = Pump(call.op, FALSE)
       ELSE CloseEnds(call.op)
    /\ UNCHANGED <<chain, paused, graceful, polls, audioVars, deviceOpen, queued, monitor>>

\* openDevices(), which succeeds or not; the first device that is opened
\* begins a new session.
OpensDevices ==
    /\ CallIs("reopen")
    /\ deviceOpen' \in {TRUE, deviceOpen}
    /\ queued' = IF deviceOpen THEN queued ELSE 0
    /\ call' = IF call.op = "open" THEN [call EXCEPT !.pc = "start"] ELSE NoCall
    /\ UNCHANGED <<chain, paused, graceful, polls, audioVars, monitor>>

\* The rest of open(); it throws if no device is open.
OpenEnds ==
    /\ CallIs("start")
    /\ call' = NoCall
    /\ IF deviceOpen
       THEN /\ chain' = TRUE
            /\ paused' = FALSE
            /\ ring' = NewRing
            /\ discarded' = discarded \cup {Fetch(ring, Unread(ring))[i] : i \in 1 .. Unread(ring)}
       ELSE UNCHANGED <<chain, paused, ring, discarded>>
    /\ UNCHANGED <<graceful, polls, accepted, heard, silences, deviceOpen, queued, monitor>>

\* reset(), when the player seeks.
Reset ==
    /\ CallIs("idle")
    /\ IF chain THEN Discard ELSE UNCHANGED <<audioVars, queued>>
    /\ UNCHANGED <<playerVars, deviceOpen, monitor>>

\* setPaused(true), with or without the option to reset on pause.
Pause ==
    /\ CallIs("idle")
    /\ ~paused
    /\ paused' = TRUE
    /\ UNCHANGED <<audioVars, queued>> \/ (chain /\ Discard)
    /\ UNCHANGED <<chain, graceful, polls, call, deviceOpen, monitor>>

\* setPaused(false).
Resume ==
    /\ CallIs("idle")
    /\ paused
    /\ paused' = FALSE
    /\ call' = IF chain THEN [NoCall EXCEPT !.pc = "reopen", !.op = "resume"] ELSE NoCall
    /\ UNCHANGED <<chain, graceful, polls, audioVars, deviceOpen, queued, monitor>>

-----------------------------------------------------------------------------
(***************************************************************************)
(* The monitor thread's run(): it looks, and acts on what it saw.  Its     *)
(* count is bounded here, and says "at least LongPause" there.             *)
(***************************************************************************)
MonitorLooks ==
    /\ monitor.pc = "look"
    /\ LET count == IF paused /\ deviceOpen THEN Smaller(monitor.count + 1, LongPause) ELSE 0
       IN  monitor' = [pc |-> IF count = LongPause THEN "close" ELSE "look", count |-> count]
    /\ UNCHANGED <<playerVars, audioVars, deviceOpen, queued>>

MonitorCloses ==
    /\ monitor.pc = "close"
    /\ monitor' = [monitor EXCEPT !.pc = "look"]
    /\ deviceOpen' = FALSE
    /\ UNCHANGED <<playerVars, audioVars, queued>>

\* The sender thread, and the end of the last device.
EngineSends ==
    /\ deviceOpen
    /\ queued > 0
    /\ queued' = queued - 1
    /\ UNCHANGED <<playerVars, audioVars, deviceOpen, monitor>>

DevicesLost ==
    /\ deviceOpen
    /\ deviceOpen' = FALSE
    /\ UNCHANGED <<playerVars, audioVars, queued, monitor>>

CallBegins ==
    \/ \E n \in 1 .. MaxBytes : Write(n)
    \/ EndWriting
    \/ AskRoom
    \/ Poll
    \/ \E op \in {"close", "open"} : CloseBegins(op)
    \/ Reset
    \/ Pause
    \/ Resume

CallContinues ==
    \/ PumpWrites
    \/ PumpSleeps
    \/ PumpEnds
    \/ PollCounts
    \/ CloseDrains
    \/ OpensDevices
    \/ OpenEnds

Next ==
    \/ CallBegins
    \/ CallContinues
    \/ MonitorLooks
    \/ MonitorCloses
    \/ EngineSends
    \/ DevicesLost

Spec == Init /\ [][Next]_vars

(***************************************************************************)
(* A call that has begun goes on, the sender's loop runs, and so does the  *)
(* monitor.  What the player calls is its own affair, but for BufferedDrains *)
(* it keeps asking whether audio is left.                                  *)
(***************************************************************************)
FairSpec ==
    /\ Spec
    /\ WF_vars(CallContinues)
    /\ WF_vars(EngineSends)
    /\ WF_vars(MonitorLooks)
    /\ WF_vars(MonitorCloses)

PollingSpec == FairSpec /\ SF_vars(Poll)

-----------------------------------------------------------------------------
\* Type correctness.
TypeOK ==
    /\ {chain, paused, graceful, deviceOpen} \subseteq BOOLEAN
    /\ polls \in 0 .. MaxPolls
    /\ ring \in RingType(0 .. MaxBytes)
    /\ call \in [pc : {"idle", "pump", "count", "drain", "reopen", "start"},
                 op : {"none", "write", "flush", "room", "poll", "close", "open", "resume"},
                 flush : BOOLEAN, sleeps : 0 .. MaxSleeps]
    /\ queued \in 0 .. QueueLength
    /\ monitor \in [pc : {"look", "close"}, count : 0 .. LongPause]
    /\ accepted \in 0 .. MaxBytes
    /\ discarded \subseteq 1 .. MaxBytes
    /\ heard \in Seq(0 .. MaxBytes)
    /\ silences \subseteq Nat

Buffered == Fetch(ring, Unread(ring))

\* Every byte that was accepted is buffered, or went to the engine once and
\* in order, or was discarded by a reset; whatever the lengths of the
\* writes, the wrapped copies of the ring give back what they were given
\* (OutputBuffer.cpp:60-84, 112-158).
EveryByteAccountedFor ==
    LET passed == heard \o Buffered
    IN  /\ \A i, j \in 1 .. Len(passed) : i < j => passed[i] < passed[j]
        /\ {passed[i] : i \in 1 .. Len(passed)} = (1 .. accepted) \ discarded

\* The engine is made to pad a packet with silence only in a flush, and only
\* behind the last of the audio that is there, never in the middle of it
\* (OutputBuffer.cpp:119, RAOPEngine.cpp:507-519).
SilenceOnlyAtTheEnd ==
    [][silences' # silences => call.flush /\ Unread(ring') = 0]_vars

\* close() takes the way that waits and does not reset only when the player
\* has seen the buffer empty and has written nothing since.
GracefulMeansEmpty == graceful => Unread(ring) = 0

\* No call hangs, not even when no device takes audio: the flush gives up.
CallsReturn == ~CallIs("idle") ~> CallIs("idle")

\* A player that has stopped writing and waits for the end of its audio by
\* asking what is buffered sees it end although it never says that it has
\* finished: the last bytes, too few for a packet, are flushed at last.
BufferedDrains ==
    <>[][\A n \in 1 .. MaxBytes : ~Write(n)]_vars
        => (Unread(ring) > 0 ~> (Unread(ring) = 0 \/ ~deviceOpen))

=============================================================================
