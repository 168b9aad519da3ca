--------------------------- MODULE WinampOutput ---------------------------
(***************************************************************************)
(* The plug-in's side of Winamp's output interface (winamp/src/Output.cpp) *)
(* in front of the output component, with the reformatter in its chain.    *)
(* The player calls on one thread; its clock and the engine's sender are   *)
(* the others.  The plug-in puts a reset to time 0 off until the next      *)
(* write, or drops it when a pause ends in a later second; it counts the   *)
(* bytes that were written and those that were sent.                       *)
(*                                                                         *)
(* Times are bytes of input, as updateProgress() loses none, and count     *)
(* from the offset of the last reset, which both times get.  Speakers stay *)
(* open; OutputComponent has the rest.                                     *)
(***************************************************************************)
EXTENDS OutputReformatter, Sequences

CONSTANTS
    BufferFrames,  \* frames that the OutputBuffer holds, 8192
    PacketFrames,  \* frames of a packet, 352
    QueueLength,   \* packets the engine holds, 250
    MaxBytes,      \* bound: bytes written since a reset
    MaxOpens       \* bound: tracks that the player opens

ASSUME WinampAssumption ==
    /\ {BufferFrames, PacketFrames, QueueLength} \subseteq Nat \ {0}
    /\ {MaxBytes, MaxOpens} \subseteq Nat

VARIABLES
    call,            \* the player's call: where it is, and the frames it writes
    chain,           \* whether OutputComponentImpl::_outputSink exists
    paused,          \* OutputComponentImpl::_paused
    graceful,        \* OutputComponentImpl::_closeGracefully
    resetToZero,     \* Output::_resetToZero: no, this second or one before
    buffered,        \* bytes in the OutputBuffer
    queue,           \* the engine: sizes of the packets not sent yet
    bufferProgress,  \* Output::_bufferProgress
    outputProgress,  \* Output::_outputProgress
    opens            \* tracks opened so far

component == <<chain, paused, graceful>>
progress == <<bufferProgress, outputProgress>>
sink == <<buffered, queue>>
vars == <<reformatterVars, call, component, resetToZero, sink, progress, opens>>

Capacity == BufferFrames * OutFrame     \* BUFFER_CAPACITY

PacketSize == PacketFrames * OutFrame   \* RAOP_PACKET_MAX_DATA_SIZE

NoCall == [pc |-> "idle", frames |-> 0]

Init ==
    /\ ReformatterInit
    /\ call = NoCall
    /\ chain = FALSE
    /\ paused = TRUE
    /\ graceful = FALSE
    /\ resetToZero = "no"
    /\ buffered = 0
    /\ queue = <<>>
    /\ bufferProgress = 0
    /\ outputProgress = 0
    /\ opens = 0

Room == Capacity - buffered

CallIs(pc) == call.pc = pc

CallGoes(pc) == call' = [call EXCEPT !.pc = pc]

-----------------------------------------------------------------------------
(***************************************************************************)
(* Resets: of the whole chain, with its engine; of the plug-in.            *)
(***************************************************************************)
ChainResets ==
    IF chain
    THEN ReformatterResets /\ buffered' = 0 /\ queue' = <<>>
    ELSE UNCHANGED <<reformatterVars, sink>>

ResetsNow ==
    /\ ChainResets
    /\ bufferProgress' = 0
    /\ outputProgress' = 0

\* canWrite() does a reset that was put off.
ResetsIfDue ==
    /\ IF resetToZero # "no" THEN ResetsNow ELSE UNCHANGED <<reformatterVars, sink, progress>>
    /\ resetToZero' = "no"

\* reset() with an offset, or with none for the second time, is not put off.
Resets(offset) ==
    /\ CallIs("idle")
    /\ IF offset > 0 \/ resetToZero # "no"
       THEN ResetsNow /\ resetToZero' = "no"
       ELSE resetToZero' = "now" /\ UNCHANGED <<reformatterVars, sink, progress>>
    /\ UNCHANGED <<call, component, opens>>

ClockTicks ==
    /\ resetToZero = "now"
    /\ resetToZero' = "past"
    /\ UNCHANGED <<reformatterVars, call, component, sink, progress, opens>>

\* setPaused(): with or without the option to reset on pause.
SetsPaused(state) ==
    /\ CallIs("idle")
    /\ resetToZero' = "no"
    /\ paused' = state
    /\ \/ resetToZero = "now" /\ ResetsNow
       \/ resetToZero # "now" /\ UNCHANGED <<reformatterVars, sink, progress>>
       \/ resetToZero # "now" /\ state /\ ~paused /\ ChainResets /\ UNCHANGED progress
    /\ UNCHANGED <<call, chain, graceful, opens>>

-----------------------------------------------------------------------------
(***************************************************************************)
(* write(): canWrite(), the reformatter, the buffer, then the count.       *)
(***************************************************************************)
WriteBegins(n) ==
    /\ CallIs("idle")
    /\ bufferProgress + n * InFrame <= MaxBytes
    /\ ResetsIfDue
    /\ call' = IF paused \/ ~chain THEN NoCall ELSE [pc |-> "room", frames |-> n]
    /\ UNCHANGED <<component, opens>>

\* OutputBuffer passes packets on while it has one and the engine takes one.
HasPacket == buffered >= PacketSize /\ Len(queue) < QueueLength

PassesPacket ==
    /\ call.pc \in {"room", "pump"}
    /\ HasPacket
    /\ buffered' = buffered - PacketSize
    /\ queue' = Append(queue, PacketSize)
    /\ UNCHANGED <<reformatterVars, call, component, resetToZero, progress, opens>>

\* No frames to write end the writing phase: everything is flushed.
WriteConverts ==
    /\ CallIs("room")
    /\ ~HasPacket
    /\ IF call.frames <= FramesFor(Room)
       THEN /\ Convert(call.frames)
            /\ graceful' = FALSE
            /\ CallGoes(IF call.frames = 0 THEN "flush"
                        ELSE IF stage' = "idle" THEN "pump" ELSE "reformat")
       ELSE call' = NoCall /\ UNCHANGED <<reformatterVars, graceful>>
    /\ UNCHANGED <<chain, paused, resetToZero, sink, progress, opens>>

WriteDuplicates ==
    /\ CallIs("reformat")
    /\ Duplicate
    /\ UNCHANGED <<call, component, resetToZero, sink, progress, opens>>

WritePasses ==
    /\ CallIs("reformat")
    /\ Passed
    /\ buffered' = buffered + Length * OutSample
    /\ CallGoes("pump")
    /\ UNCHANGED <<component, resetToZero, queue, progress, opens>>

WriteCounts ==
    /\ CallIs("pump")
    /\ ~HasPacket
    /\ bufferProgress' = bufferProgress + call.frames * InFrame
    /\ call' = NoCall
    /\ UNCHANGED <<reformatterVars, component, resetToZero, sink, outputProgress, opens>>

\* OutputBuffer::flush(): the last packet is short; or there is no room in time.
Flushes ==
    /\ CallIs("flush")
    /\ \/ /\ buffered > 0 /\ Len(queue) < QueueLength
          /\ LET size == IF buffered < PacketSize THEN buffered ELSE PacketSize
             IN  buffered' = buffered - size /\ queue' = Append(queue, size)
          /\ UNCHANGED call
       \/ /\ buffered = 0 \/ Len(queue) = QueueLength
          /\ call' = NoCall
          /\ UNCHANGED sink
    /\ UNCHANGED <<reformatterVars, component, resetToZero, progress, opens>>

\* isPlaying() flushes when it was asked often enough.
AsksIfPlaying ==
    /\ CallIs("idle")
    /\ IF chain /\ BufferedOf(buffered) > 0
       THEN call' \in {NoCall, [NoCall EXCEPT !.pc = "flush"]} /\ UNCHANGED graceful
       ELSE graceful' = (graceful \/ ~paused) /\ UNCHANGED call
    /\ UNCHANGED <<reformatterVars, chain, paused, resetToZero, sink, progress, opens>>

-----------------------------------------------------------------------------
(***************************************************************************)
(* close() and open() of the component and the plug-in.  A track that was  *)
(* seen to end leaves what the engine has not sent yet.                    *)
(***************************************************************************)
ChainCloses ==
    /\ ReformatterResets
    /\ buffered' = 0
    /\ queue' = IF ~chain THEN queue
                ELSE IF ~graceful THEN <<>>
                ELSE IF buffered > 0 /\ Len(queue) < QueueLength THEN Append(queue, buffered)
                ELSE queue

Closes ==
    /\ CallIs("idle")
    /\ ChainCloses
    /\ chain' = FALSE
    /\ paused' = TRUE
    /\ graceful' = FALSE
    /\ resetToZero' = "no"
    /\ UNCHANGED <<call, progress, opens>>

Opens ==
    /\ CallIs("idle")
    /\ opens < MaxOpens
    /\ opens' = opens + 1
    /\ ChainCloses
    /\ chain' = TRUE
    /\ paused' = FALSE
    /\ graceful' = FALSE
    /\ resetToZero' = "no"
    /\ bufferProgress' = 0
    /\ outputProgress' = 0
    /\ UNCHANGED call

-----------------------------------------------------------------------------
\* Wrong variant: bytes sent are taken for bytes written.
BytesSent(bytes) == bytes

\* onBytesOutput(): _formatRatio is 1 again when the component is closed.
BytesPlayed(bytes) == IF chain THEN DividedByRatio(bytes) ELSE bytes

SenderSends ==
    /\ queue # <<>>
    /\ queue' = Tail(queue)
    /\ outputProgress' = outputProgress + BytesPlayed(Head(queue))
    /\ UNCHANGED <<reformatterVars, call, component, resetToZero, buffered, bufferProgress, opens>>

Next ==
    \/ \E n \in 0 .. MaxBytes : WriteBegins(n)
    \/ PassesPacket \/ WriteConverts \/ WriteDuplicates \/ WritePasses \/ WriteCounts
    \/ Flushes
    \/ AsksIfPlaying
    \/ \E offset \in {0, 1} : Resets(offset)
    \/ \E state \in BOOLEAN : SetsPaused(state)
    \/ ClockTicks
    \/ Closes \/ Opens
    \/ SenderSends

Spec == Init /\ [][Next]_vars

-----------------------------------------------------------------------------
(***************************************************************************)
(* A write that canWrite() allowed never overflows the buffer behind the   *)
(* reformatter, whatever the formats and however much input the converter  *)
(* had kept from earlier writes: an overflow would be an exception, and    *)
(* the audio lost (OutputReformatter.cpp:139-148, OutputBuffer.cpp:69).    *)
(***************************************************************************)
RoomSuffices == CallIs("reformat") => Length * OutSample <= Room

(***************************************************************************)
(* What a write passes on is its samples in order, both channels of a mono *)
(* format alike, although the copy is made over its own source             *)
(* (OutputReformatter.cpp:25-38).                                          *)
(***************************************************************************)
StereoIsFaithful ==
    stage = "pass" =>
        \A i \in 0 .. Length - 1 : memory[i] = made - count + i \div Copies + 1

(***************************************************************************)
(* wa_out.h:67-68 calls the two times the "played time" and the "time      *)
(* written": nothing is played that was not written (Output.cpp:359-370,   *)
(* OutputComponent.cpp:371-382).  It holds for the first track; when the   *)
(* next one is opened, packets of a track that ended gracefully are still  *)
(* in the engine, and count as its own.                                    *)
(***************************************************************************)
PlayedWasWritten == chain /\ CallIs("idle") => outputProgress <= bufferProgress
=============================================================================
