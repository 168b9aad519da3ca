----------------------------- MODULE RAOPStream -----------------------------
(***************************************************************************)
(* The audio stream inside raop/RAOPEngine.cpp: two packet buffers, one    *)
(* with the encrypted and one with the plain form of every packet, and the *)
(* two RTP sequence numbers that say what is the next packet to be written *)
(* and the next one to be sent.  Every action here is one section of code  *)
(* that runs under the engine's mutex; module RAOPEngine puts the threads  *)
(* around them.                                                            *)
(*                                                                         *)
(* The RTP time moves with the sequence number (352 frames per packet, a   *)
(* short write is padded), so a position in the stream is represented by   *)
(* its sequence number alone.                                              *)
(***************************************************************************)
EXTENDS PacketBuffer, Sequences

CONSTANTS
    SeqMod,       \* sequence numbers are uint16_t: 2^16 in the program
    MaxWrites,    \* bound: packets ever written
    MaxRequest    \* bound: packets asked for in one resend request

(***************************************************************************)
(* A packet is its header (sequence number and first-packet marker) and    *)
(* its audio, which is named by the count of write() calls; 0 is no audio. *)
(***************************************************************************)
Packet == [seq : 0 .. SeqMod - 1, marker : BOOLEAN, audio : 0 .. MaxWrites]

Blank == [seq |-> 0, marker |-> FALSE, audio |-> 0]

ASSUME StreamAssumption ==
    /\ SeqMod \in Nat
    /\ HeadLength < SeqMod
    /\ TailLength < SeqMod
    /\ MaxWrites \in Nat
    /\ MaxRequest \in Nat

Streams == {"secured", "unsecured"}

VARIABLES
    buf,        \* _rtpDataSecured and _rtpDataUnsecured
    seqIn,      \* _rtpSeqNumIncoming: the next packet written gets it
    seqOut,     \* _rtpSeqNumOutgoing: the next packet sent has it
    firstData,  \* _isFirstDataPacket: the next packet written starts the stream
    written,    \* history: number of write() calls
    log,        \* history: every packet sent, in the order it was sent
    since       \* history: how many of them since the buffers were rewound

streamVars == <<buf, seqIn, seqOut, firstData, written, log, since>>

NextSeq(q) == (q + 1) % SeqMod

StreamInit ==
    /\ buf = [s \in Streams |-> EmptyBuffer(Blank)]
    /\ seqIn \in 0 .. SeqMod - 1
    /\ seqOut = seqIn
    /\ firstData = TRUE
    /\ written = 0
    /\ log = <<>>
    /\ since = 0

(***************************************************************************)
(* write(): the packet goes to both buffers.  nextAvailable() throws when  *)
(* there is no room, before anything has changed.                          *)
(***************************************************************************)
\* Wrong variant: the number is incremented before the header is built.
NumberedLate == [seq |-> NextSeq(seqIn), marker |-> firstData, audio |-> written + 1]

NewPacket == [seq |-> seqIn, marker |-> firstData, audio |-> written + 1]

WritePacket ==
    /\ written < MaxWrites
    /\ \A s \in Streams : CanWrite(buf[s])
    /\ buf' = [s \in Streams |-> PutNext(buf[s], NewPacket)]
    /\ seqIn' = NextSeq(seqIn)
    /\ firstData' = FALSE
    /\ written' = written + 1
    /\ UNCHANGED <<seqOut, log, since>>

(***************************************************************************)
(* sendDataPacket(), with the test run() makes before it: the sequence     *)
(* numbers say that there is data.  The buffers are not asked; the guard   *)
(* CanRead is nextBuffered()'s, which throws when it is false.             *)
(***************************************************************************)
DataIsPending == seqIn # seqOut

\* Wrong variant: one of the two buffers is not moved on.
SendFrom(taken) ==
    /\ DataIsPending
    /\ \A s \in Streams : CanRead(buf[s])
    /\ log' = Append(log, NextBuffered(buf["secured"]))
    /\ since' = since + 1
    /\ buf' = [buf EXCEPT ![taken] = TakeNext(@)]
    /\ seqOut' = NextSeq(seqOut)
    /\ UNCHANGED <<seqIn, firstData, written>>

SendSecuredStays == SendFrom("unsecured")

SendPacket ==
    /\ DataIsPending
    /\ \A s \in Streams : CanRead(buf[s])
    /\ log' = Append(log, NextBuffered(buf["secured"]))
    /\ since' = since + 1
    /\ buf' = [s \in Streams |-> TakeNext(buf[s])]
    /\ seqOut' = NextSeq(seqOut)
    /\ UNCHANGED <<seqIn, firstData, written>>

(***************************************************************************)
(* handleResendRequest(): the packets that go out for a request of count   *)
(* packets from a missed sequence number on.  It changes nothing in the    *)
(* engine, so it is a function of the state and no action.  The age of a   *)
(* packet is its distance behind the next one to be sent, in 16-bit        *)
(* arithmetic.  The loop stops at a slot that holds another sequence       *)
(* number, and prevBuffered() throws when the age has come down to zero.   *)
(***************************************************************************)
\* Wrong variant: the distance across the wrap is one too short.
AgeAcrossWrapShort(missed) ==
    IF missed <= seqOut THEN seqOut - missed ELSE seqOut + ((SeqMod - 1) - missed)

PacketAge(missed) ==
    IF missed <= seqOut
    THEN seqOut - missed
    ELSE seqOut + ((SeqMod - 1) - missed) + 1

Matches(b, missed, age, i) ==
    /\ HasPrev(age - i)
    /\ PrevBuffered(b, age - i).seq = (missed + i) % SeqMod

IsLoopCount(b, missed, age, count, n) ==
    /\ n \in 0 .. count
    /\ \A i \in 0 .. n - 1 : Matches(b, missed, age, i)
    /\ n < count => ~Matches(b, missed, age, n)

ResendReply(b, missed, count) ==
    LET age == PacketAge(missed)
        n   == CHOOSE n \in 0 .. count : IsLoopCount(b, missed, age, count, n)
    IN  IF HasPrev(age) THEN [i \in 1 .. n |-> PrevBuffered(b, age - (i - 1))] ELSE <<>>

(***************************************************************************)
(* reset(): what was written and not sent is dropped and its sequence      *)
(* numbers are used again.                                                 *)
(***************************************************************************)
\* Wrong variant: the first packet after a reset is not marked.
ResetWithoutMarker ==
    /\ buf' = [s \in Streams |-> ResetBuffer(buf[s])]
    /\ seqIn' = seqOut
    /\ since' = 0
    /\ UNCHANGED <<firstData, seqOut, written, log>>

ResetStream ==
    /\ buf' = [s \in Streams |-> ResetBuffer(buf[s])]
    /\ seqIn' = seqOut
    /\ firstData' = TRUE
    /\ since' = 0
    /\ UNCHANGED <<seqOut, written, log>>

(***************************************************************************)
(* reinit(): a new session starts at a random sequence number.             *)
(***************************************************************************)
ReinitStream ==
    \E q \in 0 .. SeqMod - 1 :
        /\ buf' = [s \in Streams |-> ResetBuffer(buf[s])]
        /\ seqIn' = q
        /\ seqOut' = q
        /\ firstData' = TRUE
        /\ since' = 0
        /\ UNCHANGED <<written, log>>

\* What may happen from one reinit() to the next.
SessionNext ==
    \/ WritePacket
    \/ SendPacket
    \/ ResetStream

StreamNext == SessionNext \/ ReinitStream

StreamSpec == StreamInit /\ [][StreamNext]_streamVars

-----------------------------------------------------------------------------
\* Type correctness of the stream's variables.
StreamTypeOK ==
    /\ buf \in [Streams -> PacketBufferType(Packet)]
    /\ seqIn \in 0 .. SeqMod - 1
    /\ seqOut \in 0 .. SeqMod - 1
    /\ firstData \in BOOLEAN
    /\ written \in 0 .. MaxWrites
    /\ log \in Seq(Packet)
    /\ since \in 0 .. Len(log)

\* The sender's test for data and the buffers' own test agree, in both
\* buffers: the sender never asks an empty buffer for a packet (which would
\* throw on every turn of its loop), and it never leaves a packet behind.
SenderGuardAgreesWithBuffers ==
    \A s \in Streams : DataIsPending <=> CanRead(buf[s])

\* What waits in either buffer is an unbroken run of sequence numbers that
\* starts with the next one to be sent and ends before the next one to be
\* written: no packet is skipped, and none goes out twice.
PendingInSequence ==
    \A s \in Streams :
        /\ seqIn = (seqOut + Unsent(buf[s])) % SeqMod
        /\ \A k \in 0 .. Unsent(buf[s]) - 1 :
               Ahead(buf[s], k).seq = (seqOut + k) % SeqMod

\* How far back prevBuffered() reaches packets of the present run.
Retained == IF since < TailLength THEN since ELSE TailLength

LastSent(k) == log[Len(log) - k + 1]

\* Writing new packets never overwrites the last TailLength sent ones: each
\* is still where prevBuffered() looks for it, under its sequence number.
SentPacketsRetained ==
    \A s \in Streams : \A k \in 1 .. Retained :
        /\ PrevBuffered(buf[s], k) = LastSent(k)
        /\ LastSent(k).seq = (seqOut - k) % SeqMod

\* The first packet after the buffers are rewound, and no other, carries
\* the marker; the sender starts its clock on it, and without it would send
\* everything at once.
MarkerStartsStream ==
    /\ \A k \in 1 .. since : LastSent(k).marker = (k = since)
    /\ \A s \in Streams : \A k \in 0 .. Unsent(buf[s]) - 1 :
           Ahead(buf[s], k).marker = (since = 0 /\ k = 0)
    /\ firstData = (since = 0 /\ ~DataIsPending)

\* Audio leaves in the order it was written and never twice, whatever resets
\* and new sessions come between; a number that is used again after a reset
\* carries newer audio.
AudioInOrderOnce ==
    /\ \A i, j \in 1 .. Len(log) : i < j => log[i].audio < log[j].audio
    /\ \A s \in Streams : \A k \in 0 .. Unsent(buf[s]) - 1 :
           /\ \A i \in 1 .. Len(log) : log[i].audio < Ahead(buf[s], k).audio
           /\ \A j \in 0 .. k - 1 : Ahead(buf[s], j).audio < Ahead(buf[s], k).audio

(***************************************************************************)
(* The abstract queue that a buffer stands for.                            *)
(***************************************************************************)
Pending(b) == [k \in 1 .. Unsent(b) |-> Ahead(b, k - 1)]

SecuredAudio ==
    INSTANCE AudioStream WITH
        Capacity <- HeadLength,
        pending  <- Pending(buf["secured"]),
        next     <- seqOut,
        fresh    <- since = 0

UnsecuredAudio ==
    INSTANCE AudioStream WITH
        Capacity <- HeadLength,
        pending  <- Pending(buf["unsecured"]),
        next     <- seqOut,
        fresh    <- since = 0

\* What a device that listens to the encrypted form of the audio sees is a
\* first-in first-out stream: the ring, its indices and the two counters
\* implement the abstract queue.
SecuredImplementsAudioStream == SecuredAudio!Spec

\* The same for a device that listens to the plain form.
UnsecuredImplementsAudioStream == UnsecuredAudio!Spec

\* Both forms are streams of their own, although they share the numbers, the
\* marker and the state that says whether anything waits.
ImplementsAudioStream == SecuredImplementsAudioStream /\ UnsecuredImplementsAudioStream

Requests == [missed : 0 .. SeqMod - 1, count : 1 .. MaxRequest]

\* A resend request for a packet that is still retained is answered with
\* exactly the packets that were sent under the numbers asked for, as many
\* as asked for or as were sent since.
ResendsAreFaithful ==
    \A s \in Streams, r \in Requests :
        LET age == PacketAge(r.missed)
            n   == IF r.count < age THEN r.count ELSE age
        IN  age \in 1 .. Retained
            => ResendReply(buf[s], r.missed, r.count) = [i \in 1 .. n |-> LastSent(age - (i - 1))]

=============================================================================
