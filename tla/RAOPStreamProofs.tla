--------------------------- MODULE RAOPStreamProofs ---------------------------
(***************************************************************************)
(* The stream's invariants hold for every length of the buffers and every  *)
(* range of sequence numbers: proofs about module RAOPStream.              *)
(*                                                                         *)
(* Two facts that the properties do not mention make them inductive: both  *)
(* buffers hold the same packets at the same places, and the write end of  *)
(* each is as far ahead of the read end as there are unsent packets.       *)
(***************************************************************************)
EXTENDS RAOPStream, TLAPS

\* The write end is as far ahead of the read end as there are unsent
\* packets.
WellShaped(b) == b.write = AheadIndex(b.read, Unsent(b))

\* No packet carries audio that has not been written yet.
AudioWasWritten ==
    /\ \A i \in 1 .. Len(log) : log[i].audio <= written
    /\ \A s \in Streams : \A k \in 0 .. Unsent(buf[s]) - 1 :
           Ahead(buf[s], k).audio <= written

\* The shape of the buffers.
BuffersInStep ==
    /\ buf["secured"] = buf["unsecured"]
    /\ \A s \in Streams : WellShaped(buf[s])

\* The inductive invariant.
StreamInv ==
    /\ StreamTypeOK
    /\ BuffersInStep
    /\ PendingInSequence
    /\ SentPacketsRetained
    /\ MarkerStartsStream
    /\ AudioInOrderOnce
    /\ AudioWasWritten

-----------------------------------------------------------------------------
(***************************************************************************)
(* What the operations of a packet buffer do, for every length of its two  *)
(* parts: facts about the operators of PacketBuffer.                       *)
(***************************************************************************)
\* Modular addition of a number that is at most the modulus.
LEMMA ModSum ==
    ASSUME NEW M \in Nat \ {0}, NEW i \in 0 .. M - 1, NEW k \in 0 .. M
    PROVE  (i + k) % M = IF i + k < M THEN i + k ELSE i + k - M
  OBVIOUS

\* The successor of an index, as the code computes it, is the slot ahead.
LEMMA NextIndexIsAhead ==
    ASSUME NEW i \in Slot
    PROVE  NextIndex(i) = AheadIndex(i, 1)
<1>1. /\ RingSize \in Nat \ {0}
      /\ i \in 0 .. RingSize - 1
      /\ 1 \in 0 .. RingSize
  BY LengthAssumption DEF Slot, RingSize
<1>2. (i + 1) % RingSize = IF i + 1 < RingSize THEN i + 1 ELSE i + 1 - RingSize
  BY ONLY <1>1, ModSum
<1>3. QED
  BY <1>2 DEF NextIndex, AheadIndex

\* Walking ahead stays in the ring.
LEMMA AheadIndexInRing ==
    ASSUME NEW i \in Slot, NEW k \in 0 .. RingSize
    PROVE  AheadIndex(i, k) \in Slot
  BY LengthAssumption DEF AheadIndex, Slot, RingSize

\* Two steps ahead of different lengths, less than a turn apart, end in
\* different slots.
LEMMA AheadIndexApart ==
    ASSUME NEW i \in Slot, NEW j \in 0 .. RingSize, NEW k \in 0 .. RingSize,
           j < k, k - j < RingSize
    PROVE  AheadIndex(i, j) # AheadIndex(i, k)
  BY LengthAssumption DEF AheadIndex, Slot, RingSize

\* The slots that remember sent packets are apart from those ahead of the
\* read end, up to and including the one that is written next.
LEMMA PrevIndexApart ==
    ASSUME NEW i \in Slot, NEW k \in 1 .. TailLength
    PROVE  /\ PrevIndex(i, k) \in Slot
           /\ \A j \in 0 .. HeadLength - 1 : AheadIndex(i, j) # PrevIndex(i, k)
  BY LengthAssumption DEF AheadIndex, PrevIndex, Slot, RingSize

\* Moving the read end one slot ahead renames the slots on either side.
LEMMA ShiftedIndices ==
    ASSUME NEW i \in Slot
    PROVE  /\ \A k \in 0 .. HeadLength - 1 : AheadIndex(NextIndex(i), k) = AheadIndex(i, k + 1)
           /\ \A k \in 1 .. TailLength - 1 : PrevIndex(NextIndex(i), k + 1) = PrevIndex(i, k)
           /\ TailLength > 0 => PrevIndex(NextIndex(i), 1) = i
           /\ AheadIndex(i, 0) = i
<1>0. NextIndex(i) = AheadIndex(i, 1)
  BY NextIndexIsAhead
<1>1. /\ i \in 0 .. HeadLength + TailLength - 1
      /\ NextIndex(i) = IF i + 1 < RingSize THEN i + 1 ELSE i + 1 - RingSize
  BY <1>0, LengthAssumption DEF AheadIndex, Slot, RingSize
<1>2. \A k \in 0 .. HeadLength - 1 : AheadIndex(NextIndex(i), k) = AheadIndex(i, k + 1)
  <2> SUFFICES ASSUME NEW k \in 0 .. HeadLength - 1
               PROVE  AheadIndex(NextIndex(i), k) = AheadIndex(i, k + 1)
    OBVIOUS
  <2>1. CASE i + 1 < RingSize
    BY <1>1, <2>1, LengthAssumption DEF AheadIndex, RingSize
  <2>2. CASE ~(i + 1 < RingSize)
    BY <1>1, <2>2, LengthAssumption DEF AheadIndex, RingSize
  <2>3. QED
    BY <2>1, <2>2
<1>3. \A k \in 1 .. TailLength - 1 : PrevIndex(NextIndex(i), k + 1) = PrevIndex(i, k)
  BY <1>1, LengthAssumption DEF PrevIndex, RingSize
<1>4. TailLength > 0 => PrevIndex(NextIndex(i), 1) = i
  BY <1>1, LengthAssumption DEF PrevIndex, RingSize
<1>5. AheadIndex(i, 0) = i
  BY <1>1, LengthAssumption DEF AheadIndex, RingSize
<1>6. QED
  BY <1>2, <1>3, <1>4, <1>5

-----------------------------------------------------------------------------
\* Writing a packet puts it behind the unsent ones and disturbs neither
\* those nor the packets remembered.
LEMMA PutNextEffect ==
    ASSUME NEW Content, NEW b \in PacketBufferType(Content), NEW packet \in Content,
           WellShaped(b), CanWrite(b)
    PROVE  LET c == PutNext(b, packet)
           IN  /\ c \in PacketBufferType(Content)
               /\ WellShaped(c)
               /\ Unsent(c) = Unsent(b) + 1
               /\ \A k \in 0 .. Unsent(b) - 1 : Ahead(c, k) = Ahead(b, k)
               /\ Ahead(c, Unsent(b)) = packet
               /\ \A k \in 1 .. TailLength : PrevBuffered(c, k) = PrevBuffered(b, k)
<1> DEFINE c == PutNext(b, packet)
           u == Unsent(b)
<1>1. /\ b.avail \in 1 .. HeadLength
      /\ b.read \in Slot
      /\ b.write \in Slot
      /\ b.slots \in [Slot -> Content]
      /\ u \in 0 .. HeadLength - 1
      /\ b.write = AheadIndex(b.read, u)
  BY LengthAssumption DEF PacketBufferType, CanWrite, WellShaped, Unsent
<1>2. /\ c.avail = b.avail - 1
      /\ c.read = b.read
      /\ c.write = NextIndex(b.write)
      /\ c.slots = [b.slots EXCEPT ![b.write] = packet]
  BY DEF PutNext
<1>3. NextIndex(b.write) \in Slot /\ NextIndex(b.write) = AheadIndex(b.read, u + 1)
  BY <1>1, NextIndexIsAhead, LengthAssumption DEF AheadIndex, Slot, RingSize
<1>4. c \in PacketBufferType(Content)
  BY <1>1, <1>3, LengthAssumption DEF PacketBufferType, PutNext
<1>5. Unsent(c) = u + 1
  BY <1>1, <1>2, LengthAssumption DEF Unsent
<1> HIDE DEF c, u
<1>6. WellShaped(c)
  BY <1>2, <1>3, <1>5 DEF WellShaped
<1>7. \A k \in 0 .. u - 1 : Ahead(c, k) = Ahead(b, k)
  <2> SUFFICES ASSUME NEW k \in 0 .. u - 1
               PROVE  Ahead(c, k) = Ahead(b, k)
    OBVIOUS
  <2>1. AheadIndex(b.read, k) \in Slot /\ AheadIndex(b.read, k) # b.write
    <3>1. /\ k \in 0 .. RingSize
          /\ u \in 0 .. RingSize
          /\ k < u /\ u - k < RingSize
      BY <1>1, LengthAssumption DEF RingSize
    <3>2. AheadIndex(b.read, k) # AheadIndex(b.read, u)
      BY <1>1, <3>1, AheadIndexApart
    <3>3. AheadIndex(b.read, k) \in Slot
      BY <1>1, <3>1, AheadIndexInRing
    <3>4. QED
      BY <1>1, <3>2, <3>3
  <2>2. QED
    BY <1>1, <1>2, <2>1 DEF Ahead
<1>8. Ahead(c, u) = packet
  BY <1>1, <1>2 DEF Ahead
<1>9. \A k \in 1 .. TailLength : PrevBuffered(c, k) = PrevBuffered(b, k)
  <2> SUFFICES ASSUME NEW k \in 1 .. TailLength
               PROVE  PrevBuffered(c, k) = PrevBuffered(b, k)
    OBVIOUS
  <2>1. PrevIndex(b.read, k) \in Slot /\ PrevIndex(b.read, k) # b.write
    BY <1>1, PrevIndexApart
  <2>2. QED
    BY <1>1, <1>2, <2>1 DEF PrevBuffered
<1>10. QED
  BY <1>4, <1>5, <1>6, <1>7, <1>8, <1>9 DEF c, u

\* Taking a packet turns it from the first unsent one into the most recent
\* one remembered.
LEMMA TakeNextEffect ==
    ASSUME NEW Content, NEW b \in PacketBufferType(Content),
           WellShaped(b), CanRead(b)
    PROVE  LET c == TakeNext(b)
           IN  /\ c \in PacketBufferType(Content)
               /\ WellShaped(c)
               /\ Unsent(c) = Unsent(b) - 1
               /\ NextBuffered(b) = Ahead(b, 0)
               /\ NextBuffered(b) \in Content
               /\ \A k \in 0 .. Unsent(c) - 1 : Ahead(c, k) = Ahead(b, k + 1)
               /\ TailLength > 0 => PrevBuffered(c, 1) = NextBuffered(b)
               /\ \A k \in 1 .. TailLength - 1 : PrevBuffered(c, k + 1) = PrevBuffered(b, k)
<1> DEFINE c == TakeNext(b)
           u == Unsent(b)
<1>1. /\ b.avail \in 0 .. HeadLength - 1
      /\ b.read \in Slot
      /\ b.write \in Slot
      /\ b.slots \in [Slot -> Content]
      /\ u \in 1 .. HeadLength
      /\ b.write = AheadIndex(b.read, u)
  BY LengthAssumption DEF PacketBufferType, CanRead, WellShaped, Unsent
<1>2. /\ c.avail = b.avail + 1
      /\ c.read = NextIndex(b.read)
      /\ c.write = b.write
      /\ c.slots = b.slots
  BY DEF TakeNext
<1>3. NextIndex(b.read) \in Slot
  BY <1>1, NextIndexIsAhead, AheadIndexInRing, LengthAssumption DEF RingSize
<1>4. c \in PacketBufferType(Content)
  BY <1>1, <1>3, LengthAssumption DEF PacketBufferType, TakeNext
<1>5. Unsent(c) = u - 1
  BY <1>1, <1>2, LengthAssumption DEF Unsent
<1>6. WellShaped(c)
  <2>1. AheadIndex(NextIndex(b.read), u - 1) = AheadIndex(b.read, u)
    <3>1. u - 1 \in 0 .. HeadLength - 1 /\ (u - 1) + 1 = u
      BY <1>1, LengthAssumption
    <3>2. QED
      BY <1>1, <3>1, ShiftedIndices
  <2>2. QED
    BY <1>1, <1>2, <1>5, <2>1 DEF WellShaped
<1>7. NextBuffered(b) = Ahead(b, 0) /\ NextBuffered(b) \in Content
  BY <1>1, ShiftedIndices DEF NextBuffered, Ahead
<1>8. \A k \in 0 .. Unsent(c) - 1 : Ahead(c, k) = Ahead(b, k + 1)
  BY <1>1, <1>2, <1>5, ShiftedIndices, LengthAssumption DEF Ahead
<1>9. TailLength > 0 => PrevBuffered(c, 1) = NextBuffered(b)
  BY <1>1, <1>2, ShiftedIndices DEF PrevBuffered, NextBuffered
<1>10. \A k \in 1 .. TailLength - 1 : PrevBuffered(c, k + 1) = PrevBuffered(b, k)
  BY <1>1, <1>2, ShiftedIndices DEF PrevBuffered
<1>11. QED
  BY <1>4, <1>5, <1>6, <1>7, <1>8, <1>9, <1>10

\* A reset, and a new buffer, have nothing unsent.
LEMMA ResetBufferEffect ==
    ASSUME NEW Content, NEW b \in PacketBufferType(Content)
    PROVE  LET c == ResetBuffer(b)
           IN  /\ c \in PacketBufferType(Content)
               /\ WellShaped(c)
               /\ Unsent(c) = 0
  BY LengthAssumption
  DEF PacketBufferType, ResetBuffer, WellShaped, Unsent, AheadIndex, Slot, RingSize

LEMMA EmptyBufferShape ==
    ASSUME NEW Content, NEW blank \in Content
    PROVE  LET c == EmptyBuffer(blank)
           IN  /\ c \in PacketBufferType(Content)
               /\ WellShaped(c)
               /\ Unsent(c) = 0
  BY LengthAssumption
  DEF PacketBufferType, EmptyBuffer, WellShaped, Unsent, AheadIndex, Slot, RingSize

-----------------------------------------------------------------------------
(***************************************************************************)
(* Arithmetic on sequence numbers.                                         *)
(***************************************************************************)
\* The modulus is positive.
LEMMA SeqModPositive == SeqMod \in Nat \ {0}
  BY LengthAssumption, StreamAssumption

\* Subtraction modulo a number, of at most that number.
LEMMA ModDiff ==
    ASSUME NEW M \in Nat \ {0}, NEW i \in 0 .. M - 1, NEW k \in 0 .. M
    PROVE  (i - k) % M = IF k <= i THEN i - k ELSE i - k + M
  OBVIOUS

\* Counting forward by nothing.
LEMMA PlusZero == \A q \in 0 .. SeqMod - 1 : (q + 0) % SeqMod = q
<1> SUFFICES ASSUME NEW q \in 0 .. SeqMod - 1
             PROVE  (q + 0) % SeqMod = q
  OBVIOUS
<1>1. SeqMod \in Nat \ {0} /\ 0 \in 0 .. SeqMod
  BY SeqModPositive
<1>2. (q + 0) % SeqMod = IF q + 0 < SeqMod THEN q + 0 ELSE q + 0 - SeqMod
  BY ONLY <1>1, ModSum
<1>3. QED
  BY <1>1, <1>2

\* Counting forward from the successor of a number.
LEMMA NextSeqPlus ==
    ASSUME NEW q \in 0 .. SeqMod - 1, NEW k \in 0 .. SeqMod - 1
    PROVE  /\ NextSeq(q) \in 0 .. SeqMod - 1
           /\ (NextSeq(q) + k) % SeqMod = (q + (k + 1)) % SeqMod
           /\ NextSeq((q + k) % SeqMod) = (q + (k + 1)) % SeqMod
<1>1. SeqMod \in Nat \ {0} /\ 1 \in 0 .. SeqMod /\ k + 1 \in 0 .. SeqMod
  BY SeqModPositive
<1>2. (q + 1) % SeqMod = IF q + 1 < SeqMod THEN q + 1 ELSE q + 1 - SeqMod
  BY ONLY <1>1, ModSum
<1>3. (q + (k + 1)) % SeqMod
        = IF q + (k + 1) < SeqMod THEN q + (k + 1) ELSE q + (k + 1) - SeqMod
  BY ONLY <1>1, ModSum
<1>4. (q + k) % SeqMod = IF q + k < SeqMod THEN q + k ELSE q + k - SeqMod
  BY ONLY <1>1, k \in 0 .. SeqMod, ModSum
<1>5. NextSeq(q) \in 0 .. SeqMod - 1
  BY <1>1, <1>2 DEF NextSeq
<1>6. (NextSeq(q) + k) % SeqMod
        = IF NextSeq(q) + k < SeqMod THEN NextSeq(q) + k ELSE NextSeq(q) + k - SeqMod
  BY ONLY <1>1, <1>5, k \in 0 .. SeqMod, ModSum
<1>7. (NextSeq(q) + k) % SeqMod = (q + (k + 1)) % SeqMod
  BY <1>1, <1>2, <1>3, <1>6 DEF NextSeq
<1>8. (q + k) % SeqMod \in 0 .. SeqMod - 1
  BY <1>1, <1>4
<1>9. (((q + k) % SeqMod) + 1) % SeqMod
        = IF ((q + k) % SeqMod) + 1 < SeqMod THEN ((q + k) % SeqMod) + 1
                                             ELSE ((q + k) % SeqMod) + 1 - SeqMod
  BY ONLY <1>1, <1>8, ModSum
<1>10. QED
  BY <1>1, <1>3, <1>4, <1>5, <1>7, <1>9 DEF NextSeq

\* Counting back from the successor of a number.
LEMMA NextSeqMinus ==
    ASSUME NEW q \in 0 .. SeqMod - 1, NEW k \in 0 .. SeqMod - 1
    PROVE  (NextSeq(q) - (k + 1)) % SeqMod = (q - k) % SeqMod
<1>1. SeqMod \in Nat \ {0} /\ 1 \in 0 .. SeqMod /\ k + 1 \in 0 .. SeqMod
  BY SeqModPositive
<1>2. (q + 1) % SeqMod = IF q + 1 < SeqMod THEN q + 1 ELSE q + 1 - SeqMod
  BY ONLY <1>1, ModSum
<1>3. NextSeq(q) \in 0 .. SeqMod - 1
  BY NextSeqPlus
<1>4. (NextSeq(q) - (k + 1)) % SeqMod
        = IF k + 1 <= NextSeq(q) THEN NextSeq(q) - (k + 1) ELSE NextSeq(q) - (k + 1) + SeqMod
  BY ONLY <1>1, <1>3, ModDiff
<1>5. (q - k) % SeqMod = IF k <= q THEN q - k ELSE q - k + SeqMod
  BY ONLY <1>1, k \in 0 .. SeqMod, ModDiff
<1>6. QED
  BY <1>1, <1>2, <1>4, <1>5 DEF NextSeq

\* A number of unsent packets, which is less than the modulus, is zero when
\* the two counters are equal and only then.
LEMMA CountersTellPending ==
    ASSUME NEW q \in 0 .. SeqMod - 1, NEW u \in 0 .. HeadLength
    PROVE  (q + u) % SeqMod # q <=> u > 0
<1>1. SeqMod \in Nat \ {0} /\ u \in 0 .. SeqMod /\ u < SeqMod
  BY LengthAssumption, StreamAssumption
<1>2. (q + u) % SeqMod = IF q + u < SeqMod THEN q + u ELSE q + u - SeqMod
  BY ONLY <1>1, ModSum
<1>3. QED
  BY <1>1, <1>2

-----------------------------------------------------------------------------
(***************************************************************************)
(* What the actions do to a buffer.                                        *)
(***************************************************************************)
\* The invariant's account of one buffer.
LEMMA BufferFacts ==
    ASSUME StreamInv, NEW s \in Streams
    PROVE  /\ buf[s] \in PacketBufferType(Packet)
           /\ buf[s] = buf["secured"]
           /\ WellShaped(buf[s])
           /\ Unsent(buf[s]) \in 0 .. HeadLength
           /\ seqIn = (seqOut + Unsent(buf[s])) % SeqMod
           /\ DataIsPending <=> Unsent(buf[s]) > 0
           /\ CanRead(buf[s]) <=> Unsent(buf[s]) > 0
           /\ CanWrite(buf[s]) <=> Unsent(buf[s]) < HeadLength
<1>1. buf[s] \in PacketBufferType(Packet) /\ seqOut \in 0 .. SeqMod - 1
  BY DEF StreamInv, StreamTypeOK
<1>2. buf[s] = buf["secured"] /\ WellShaped(buf[s])
  BY DEF StreamInv, BuffersInStep, Streams
<1>3. buf[s].avail \in 0 .. HeadLength
  BY <1>1 DEF PacketBufferType
<1>4. /\ Unsent(buf[s]) \in 0 .. HeadLength
      /\ CanRead(buf[s]) <=> Unsent(buf[s]) > 0
      /\ CanWrite(buf[s]) <=> Unsent(buf[s]) < HeadLength
  BY <1>3, LengthAssumption DEF Unsent, CanRead, CanWrite
<1>5. seqIn = (seqOut + Unsent(buf[s])) % SeqMod
  BY DEF StreamInv, PendingInSequence
<1>6. DataIsPending <=> Unsent(buf[s]) > 0
  BY <1>1, <1>4, <1>5, CountersTellPending DEF DataIsPending
<1>7. QED
  BY <1>1, <1>2, <1>4, <1>5, <1>6

\* An unsent packet is a packet.
LEMMA AheadIsPacket ==
    ASSUME StreamInv, NEW s \in Streams, NEW k \in 0 .. Unsent(buf[s]) - 1
    PROVE  Ahead(buf[s], k) \in Packet
<1>1. buf[s].slots \in [Slot -> Packet] /\ buf[s].read \in Slot
  BY BufferFacts DEF PacketBufferType
<1>2. k \in 0 .. RingSize
  BY BufferFacts, LengthAssumption DEF RingSize
<1>3. QED
  BY <1>1, <1>2, AheadIndexInRing DEF Ahead

\* The packet write() builds is a packet.
LEMMA NewPacketType ==
    ASSUME StreamTypeOK, WritePacket
    PROVE  NewPacket \in Packet
  BY StreamAssumption DEF StreamTypeOK, WritePacket, NewPacket, Packet

\* write() puts the new packet behind the unsent ones in both buffers.
LEMMA WriteEffect ==
    ASSUME StreamInv, WritePacket, NEW s \in Streams
    PROVE  /\ buf'[s] = PutNext(buf[s], NewPacket)
           /\ buf'[s] \in PacketBufferType(Packet)
           /\ WellShaped(buf'[s])
           /\ Unsent(buf[s]) \in 0 .. HeadLength - 1
           /\ Unsent(buf'[s]) = Unsent(buf[s]) + 1
           /\ \A k \in 0 .. Unsent(buf[s]) - 1 : Ahead(buf'[s], k) = Ahead(buf[s], k)
           /\ Ahead(buf'[s], Unsent(buf[s])) = NewPacket
           /\ \A k \in 1 .. TailLength : PrevBuffered(buf'[s], k) = PrevBuffered(buf[s], k)
<1>1. buf'[s] = PutNext(buf[s], NewPacket) /\ CanWrite(buf[s])
  BY DEF WritePacket
<1>2. NewPacket \in Packet
  BY NewPacketType DEF StreamInv
<1>3. buf[s] \in PacketBufferType(Packet) /\ WellShaped(buf[s])
  BY BufferFacts
<1>4. Unsent(buf[s]) \in 0 .. HeadLength - 1
  BY <1>1, BufferFacts, LengthAssumption
<1>5. QED
  BY <1>1, <1>2, <1>3, <1>4, PutNextEffect

\* sendDataPacket() makes the first unsent packet the last one sent.
LEMMA SendEffect ==
    ASSUME StreamInv, SendPacket, NEW s \in Streams
    PROVE  /\ buf'[s] = TakeNext(buf[s])
           /\ buf'[s] \in PacketBufferType(Packet)
           /\ WellShaped(buf'[s])
           /\ Unsent(buf[s]) \in 1 .. HeadLength
           /\ Unsent(buf'[s]) = Unsent(buf[s]) - 1
           /\ Ahead(buf[s], 0) \in Packet
           /\ log' = Append(log, Ahead(buf[s], 0))
           /\ \A k \in 0 .. Unsent(buf'[s]) - 1 : Ahead(buf'[s], k) = Ahead(buf[s], k + 1)
           /\ TailLength > 0 => PrevBuffered(buf'[s], 1) = Ahead(buf[s], 0)
           /\ \A k \in 1 .. TailLength - 1 : PrevBuffered(buf'[s], k + 1) = PrevBuffered(buf[s], k)
<1>1. buf'[s] = TakeNext(buf[s]) /\ CanRead(buf[s])
  BY DEF SendPacket
<1>2. /\ buf[s] \in PacketBufferType(Packet)
      /\ WellShaped(buf[s])
      /\ buf[s] = buf["secured"]
  BY BufferFacts
<1>3. Unsent(buf[s]) \in 1 .. HeadLength
  BY <1>1, BufferFacts, LengthAssumption
<1>4. log' = Append(log, NextBuffered(buf[s]))
  BY <1>2 DEF SendPacket
<1>5. QED
  BY <1>1, <1>2, <1>3, <1>4, TakeNextEffect

\* Both ways of rewinding the buffers leave nothing unsent.
LEMMA RewindEffect ==
    ASSUME StreamInv, ResetStream \/ ReinitStream, NEW s \in Streams
    PROVE  /\ buf'[s] = ResetBuffer(buf[s])
           /\ buf'[s] \in PacketBufferType(Packet)
           /\ WellShaped(buf'[s])
           /\ Unsent(buf'[s]) = 0
<1>1. buf'[s] = ResetBuffer(buf[s])
  BY DEF ResetStream, ReinitStream
<1>2. buf[s] \in PacketBufferType(Packet)
  BY BufferFacts
<1>3. QED
  BY <1>1, <1>2, ResetBufferEffect

\* What rewinding does to the counters.
LEMMA RewindCounters ==
    ASSUME StreamInv, ResetStream \/ ReinitStream
    PROVE  /\ seqIn' = seqOut' /\ seqOut' \in 0 .. SeqMod - 1
           /\ firstData' = TRUE /\ since' = 0
           /\ written' = written /\ log' = log
           /\ ~DataIsPending'
  BY DEF StreamInv, StreamTypeOK, ResetStream, ReinitStream, DataIsPending

-----------------------------------------------------------------------------
(***************************************************************************)
(* The initial states.                                                     *)
(***************************************************************************)
LEMMA StreamInitInv == StreamInit => StreamInv
<1> SUFFICES ASSUME StreamInit
             PROVE  StreamInv
  OBVIOUS
<1>1. Blank \in Packet
  BY SeqModPositive, StreamAssumption DEF Blank, Packet
<1>2. ASSUME NEW s \in Streams
      PROVE  /\ buf[s] \in PacketBufferType(Packet)
             /\ WellShaped(buf[s])
             /\ Unsent(buf[s]) = 0
  BY <1>1, <1>2, EmptyBufferShape DEF StreamInit
<1>3. Len(log) = 0 /\ since = 0 /\ written = 0 /\ firstData = TRUE /\ ~DataIsPending
  BY DEF StreamInit, DataIsPending
<1>4. StreamTypeOK
  BY <1>2, <1>3, StreamAssumption DEF StreamInit, StreamTypeOK
<1>5. BuffersInStep
  BY <1>2 DEF StreamInit, BuffersInStep, Streams
<1>6. PendingInSequence
  <2>1. (seqOut + 0) % SeqMod = seqOut
    BY <1>4, PlusZero DEF StreamTypeOK
  <2>2. QED
    BY <1>2, <2>1 DEF StreamInit, PendingInSequence
<1>7. SentPacketsRetained
  BY <1>3, LengthAssumption DEF SentPacketsRetained, Retained
<1>8. MarkerStartsStream
  <2>1. \A k \in 1 .. since : LastSent(k).marker = (k = since)
    BY <1>3
  <2>2. \A s \in Streams : \A k \in 0 .. Unsent(buf[s]) - 1 :
            Ahead(buf[s], k).marker = (since = 0 /\ k = 0)
    BY <1>2
  <2>3. firstData = (since = 0 /\ ~DataIsPending)
    BY <1>3
  <2>4. QED
    BY <2>1, <2>2, <2>3 DEF MarkerStartsStream
<1>9. AudioInOrderOnce /\ AudioWasWritten
  BY <1>2, <1>3 DEF AudioInOrderOnce, AudioWasWritten
<1>10. QED
  BY <1>4, <1>5, <1>6, <1>7, <1>8, <1>9 DEF StreamInv

-----------------------------------------------------------------------------
(***************************************************************************)
(* Rewinding the buffers: reset() and reinit().                            *)
(***************************************************************************)
LEMMA RewindKeepsInv ==
    ASSUME StreamInv, ResetStream \/ ReinitStream
    PROVE  StreamInv'
<1>0. /\ seqIn' = seqOut' /\ seqOut' \in 0 .. SeqMod - 1
      /\ firstData' = TRUE /\ since' = 0
      /\ written' = written /\ log' = log
      /\ ~DataIsPending'
  BY RewindCounters
<1>1. StreamTypeOK'
  <2>1. buf' \in [Streams -> PacketBufferType(Packet)]
    BY RewindEffect DEF ResetStream, ReinitStream
  <2>2. seqIn' \in 0 .. SeqMod - 1 /\ seqOut' \in 0 .. SeqMod - 1
    BY <1>0
  <2>3. firstData' \in BOOLEAN /\ written' \in 0 .. MaxWrites /\ log' \in Seq(Packet)
    BY <1>0 DEF StreamInv, StreamTypeOK
  <2>4. since' \in 0 .. Len(log')
    BY <2>3, <1>0
  <2>5. QED
    BY <2>1, <2>2, <2>3, <2>4 DEF StreamTypeOK
<1>2. BuffersInStep'
  <2>1. buf'["secured"] = buf'["unsecured"]
    BY RewindEffect DEF StreamInv, BuffersInStep, Streams
  <2>2. QED
    BY <2>1, RewindEffect DEF BuffersInStep
<1>3. PendingInSequence'
  <2>1. (seqOut' + 0) % SeqMod = seqOut'
    BY <1>0, PlusZero
  <2>2. QED
    BY <2>1, <1>0, RewindEffect DEF PendingInSequence
<1>4. SentPacketsRetained'
  <2>1. Retained' <= 0 /\ Retained' \in Int
    BY <1>0, LengthAssumption DEF Retained
  <2>2. QED
    BY <2>1 DEF SentPacketsRetained
<1>5. MarkerStartsStream'
  <2>1. \A k \in 1 .. since' : LastSent(k)'.marker = (k = since')
    BY <1>0
  <2>2. \A s \in Streams : \A k \in 0 .. Unsent(buf'[s]) - 1 :
            Ahead(buf'[s], k).marker = (since' = 0 /\ k = 0)
    BY RewindEffect
  <2>3. firstData' = (since' = 0 /\ ~DataIsPending')
    BY <1>0
  <2>4. QED
    BY <2>1, <2>2, <2>3 DEF MarkerStartsStream
<1>6. AudioInOrderOnce'
  <2>1. \A i, j \in 1 .. Len(log') : i < j => log'[i].audio < log'[j].audio
    BY <1>0 DEF StreamInv, AudioInOrderOnce
  <2>2. QED
    BY <2>1, RewindEffect DEF AudioInOrderOnce
<1>7. AudioWasWritten'
  <2>1. \A i \in 1 .. Len(log') : log'[i].audio <= written'
    BY <1>0 DEF StreamInv, AudioWasWritten
  <2>2. QED
    BY <2>1, RewindEffect DEF AudioWasWritten
<1>8. QED
  BY <1>1, <1>2, <1>3, <1>4, <1>5, <1>6, <1>7 DEF StreamInv

-----------------------------------------------------------------------------
(***************************************************************************)
(* write().                                                                *)
(***************************************************************************)
LEMMA WriteKeepsInv ==
    ASSUME StreamInv, WritePacket
    PROVE  StreamInv'
<1>1. StreamTypeOK'
  <2>1. buf' \in [Streams -> PacketBufferType(Packet)]
    BY WriteEffect DEF WritePacket
  <2>2. seqIn' \in 0 .. SeqMod - 1
    BY NextSeqPlus, SeqModPositive DEF StreamInv, StreamTypeOK, WritePacket
  <2>3. written' \in 0 .. MaxWrites
    BY StreamAssumption DEF StreamInv, StreamTypeOK, WritePacket
  <2>4. QED
    BY <2>1, <2>2, <2>3 DEF StreamInv, StreamTypeOK, WritePacket
<1>2. BuffersInStep'
  <2>1. buf'["secured"] = buf'["unsecured"]
    BY WriteEffect DEF StreamInv, BuffersInStep, Streams
  <2>2. QED
    BY <2>1, WriteEffect DEF BuffersInStep
<1>3. PendingInSequence'
  <2> SUFFICES ASSUME NEW s \in Streams
               PROVE  /\ seqIn' = (seqOut' + Unsent(buf'[s])) % SeqMod
                      /\ \A k \in 0 .. Unsent(buf'[s]) - 1 :
                             Ahead(buf'[s], k).seq = (seqOut' + k) % SeqMod
    BY DEF PendingInSequence
  <2> DEFINE u == Unsent(buf[s])
  <2>1. u \in 0 .. HeadLength - 1 /\ u \in 0 .. SeqMod - 1
    BY WriteEffect, LengthAssumption, StreamAssumption
  <2>2. seqIn = (seqOut + u) % SeqMod /\ seqOut \in 0 .. SeqMod - 1 /\ seqOut' = seqOut
    BY BufferFacts DEF StreamInv, StreamTypeOK, WritePacket
  <2>3. seqIn' = (seqOut' + (u + 1)) % SeqMod
    BY <2>1, <2>2, NextSeqPlus DEF WritePacket
  <2>4. Ahead(buf'[s], u).seq = (seqOut' + u) % SeqMod
    BY <2>2, WriteEffect DEF NewPacket
  <2>5. \A k \in 0 .. u - 1 : Ahead(buf'[s], k).seq = (seqOut' + k) % SeqMod
    BY <2>2, WriteEffect DEF StreamInv, PendingInSequence
  <2>6. Unsent(buf'[s]) = u + 1
    BY WriteEffect
  <2> HIDE DEF u
  <2>7. QED
    BY <2>1, <2>3, <2>4, <2>5, <2>6
<1>4. SentPacketsRetained'
  <2>1. /\ Retained' = Retained
        /\ \A k \in 1 .. Retained : LastSent(k)' = LastSent(k)
        /\ seqOut' = seqOut
    BY DEF WritePacket, Retained, LastSent
  <2>2. 1 .. Retained \subseteq 1 .. TailLength
    BY LengthAssumption DEF Retained, StreamInv, StreamTypeOK
  <2>3. QED
    BY <2>1, <2>2, WriteEffect DEF StreamInv, SentPacketsRetained
<1>5. MarkerStartsStream'
  <2>1. \A k \in 1 .. since' : LastSent(k)'.marker = (k = since')
    BY DEF StreamInv, MarkerStartsStream, WritePacket, LastSent
  <2>2. ASSUME NEW s \in Streams, NEW k \in 0 .. Unsent(buf'[s]) - 1
        PROVE  Ahead(buf'[s], k).marker = (since' = 0 /\ k = 0)
    <3>1. since' = since /\ firstData = (since = 0 /\ Unsent(buf[s]) = 0)
      BY BufferFacts, LengthAssumption DEF StreamInv, MarkerStartsStream, WritePacket
    <3>2. CASE k = Unsent(buf[s])
      BY <3>1, <3>2, WriteEffect DEF NewPacket
    <3>3. CASE k \in 0 .. Unsent(buf[s]) - 1
      BY <3>1, <3>3, WriteEffect DEF StreamInv, MarkerStartsStream
    <3>4. Unsent(buf'[s]) = Unsent(buf[s]) + 1 /\ Unsent(buf[s]) \in 0 .. HeadLength - 1
      BY WriteEffect
    <3>5. QED
      BY <3>2, <3>3, <3>4, LengthAssumption
  <2>3. DataIsPending' /\ firstData' = FALSE
    <3> DEFINE u == Unsent(buf["secured"])
    <3>1. /\ u \in 0 .. HeadLength - 1 /\ Unsent(buf'["secured"]) = u + 1
          /\ seqIn' = (seqOut' + Unsent(buf'["secured"])) % SeqMod
      BY <1>3, WriteEffect DEF Streams, PendingInSequence
    <3>2. u + 1 \in 0 .. HeadLength /\ u + 1 > 0
      BY <3>1, LengthAssumption
    <3>3. seqOut' \in 0 .. SeqMod - 1
      BY <1>1 DEF StreamTypeOK
    <3>4. (seqOut' + (u + 1)) % SeqMod # seqOut'
      BY <3>2, <3>3, CountersTellPending
    <3>5. QED
      BY <3>1, <3>4 DEF DataIsPending, WritePacket
  <2>4. QED
    BY <2>1, <2>2, <2>3 DEF MarkerStartsStream
<1>6. AudioInOrderOnce' /\ AudioWasWritten'
  <2>1. log' = log /\ written' = written + 1 /\ written \in Nat
    BY StreamAssumption DEF StreamInv, StreamTypeOK, WritePacket
  <2>2. \A i \in 1 .. Len(log) : log[i].audio \in Nat
    <3>1. \A i \in 1 .. Len(log) : log[i] \in Packet
      BY DEF StreamInv, StreamTypeOK
    <3>2. QED
      BY <3>1, StreamAssumption DEF Packet
  <2>3. ASSUME NEW s \in Streams, NEW k \in 0 .. Unsent(buf'[s]) - 1
        PROVE  /\ \A i \in 1 .. Len(log) : log[i].audio < Ahead(buf'[s], k).audio
               /\ \A j \in 0 .. k - 1 : Ahead(buf'[s], j).audio < Ahead(buf'[s], k).audio
               /\ Ahead(buf'[s], k).audio <= written + 1
    <3> DEFINE u == Unsent(buf[s])
    <3>1. Unsent(buf'[s]) = u + 1 /\ u \in Nat
      BY WriteEffect, LengthAssumption
    <3>2. \A j \in 0 .. u - 1 : /\ Ahead(buf'[s], j).audio <= written
                                /\ Ahead(buf'[s], j) = Ahead(buf[s], j)
      BY WriteEffect DEF StreamInv, AudioWasWritten
    <3>3. CASE k = u
      <4>1. Ahead(buf'[s], k).audio = written + 1
        BY <3>3, WriteEffect DEF NewPacket
      <4>2. \A i \in 1 .. Len(log) : log[i].audio < written + 1
        BY <2>1, <2>2 DEF StreamInv, AudioWasWritten
      <4>3. \A j \in 0 .. u - 1 : Ahead(buf'[s], j).audio \in Int
        <5> SUFFICES ASSUME NEW j \in 0 .. u - 1
                     PROVE  Ahead(buf[s], j).audio \in Int
          BY <3>2
        <5>1. Ahead(buf[s], j) \in Packet
          BY AheadIsPacket
        <5>2. QED
          BY <5>1 DEF Packet
      <4>4. \A j \in 0 .. u - 1 : Ahead(buf'[s], j).audio < written + 1
        BY <2>1, <3>2, <4>3
      <4>5. QED
        BY <2>1, <3>3, <4>1, <4>2, <4>4
    <3>4. CASE k \in 0 .. u - 1
      <4>1. /\ \A i \in 1 .. Len(log) : log[i].audio < Ahead(buf[s], k).audio
            /\ \A j \in 0 .. k - 1 : Ahead(buf[s], j).audio < Ahead(buf[s], k).audio
            /\ Ahead(buf[s], k).audio <= written
        BY <3>4 DEF StreamInv, AudioInOrderOnce, AudioWasWritten
      <4>2. 0 .. k - 1 \subseteq 0 .. u - 1
        BY <3>1, <3>4
      <4>3. Ahead(buf[s], k).audio \in Int
        BY <3>4, AheadIsPacket DEF Packet
      <4>4. Ahead(buf[s], k).audio <= written + 1
        BY <2>1, <4>1, <4>3
      <4>5. QED
        BY <3>2, <3>4, <4>1, <4>2, <4>4
    <3> HIDE DEF u
    <3>5. QED
      BY <3>1, <3>3, <3>4
  <2>4. AudioInOrderOnce'
    BY <2>1, <2>3 DEF StreamInv, AudioInOrderOnce
  <2>5. \A i \in 1 .. Len(log') : log'[i].audio <= written'
    BY <2>1, <2>2 DEF StreamInv, AudioWasWritten
  <2>6. AudioWasWritten'
    BY <2>1, <2>3, <2>5 DEF AudioWasWritten
  <2>7. QED
    BY <2>4, <2>6
<1>7. QED
  BY <1>1, <1>2, <1>3, <1>4, <1>5, <1>6 DEF StreamInv

-----------------------------------------------------------------------------
(***************************************************************************)
(* sendDataPacket().                                                       *)
(***************************************************************************)
\* What sending does to the packets sent and to the counters.
LEMMA SendLog ==
    ASSUME StreamInv, SendPacket, NEW s \in Streams
    PROVE  /\ log \in Seq(Packet) /\ log' \in Seq(Packet)
           /\ Len(log) \in Nat /\ Len(log') = Len(log) + 1
           /\ \A i \in 1 .. Len(log) : log'[i] = log[i]
           /\ log'[Len(log')] = Ahead(buf[s], 0)
           /\ since \in 0 .. Len(log) /\ since' = since + 1
           /\ seqOut \in 0 .. SeqMod - 1 /\ seqOut' = NextSeq(seqOut)
           /\ seqOut' \in 0 .. SeqMod - 1
           /\ seqIn' = seqIn /\ written' = written /\ firstData' = firstData
<1>1. log' = Append(log, Ahead(buf[s], 0)) /\ Ahead(buf[s], 0) \in Packet
  BY SendEffect
<1>2. log \in Seq(Packet) /\ since \in 0 .. Len(log) /\ seqOut \in 0 .. SeqMod - 1
  BY DEF StreamInv, StreamTypeOK
<1>3. NextSeq(seqOut) \in 0 .. SeqMod - 1
  BY <1>2, NextSeqPlus, SeqModPositive
<1>4. QED
  BY <1>1, <1>2, <1>3 DEF SendPacket

LEMMA SendKeepsInv ==
    ASSUME StreamInv, SendPacket
    PROVE  StreamInv'
<1>1. StreamTypeOK'
  <2>1. buf' \in [Streams -> PacketBufferType(Packet)]
    BY SendEffect DEF SendPacket
  <2>2. log' \in Seq(Packet) /\ since' \in 0 .. Len(log') /\ seqOut' \in 0 .. SeqMod - 1
    BY SendLog DEF Streams
  <2>3. QED
    BY <2>1, <2>2 DEF StreamInv, StreamTypeOK, SendPacket
<1>2. BuffersInStep'
  <2>1. buf'["secured"] = buf'["unsecured"]
    BY SendEffect DEF StreamInv, BuffersInStep, Streams
  <2>2. QED
    BY <2>1, SendEffect DEF BuffersInStep
<1>3. PendingInSequence'
  <2> SUFFICES ASSUME NEW s \in Streams
               PROVE  /\ seqIn' = (seqOut' + Unsent(buf'[s])) % SeqMod
                      /\ \A k \in 0 .. Unsent(buf'[s]) - 1 :
                             Ahead(buf'[s], k).seq = (seqOut' + k) % SeqMod
    BY DEF PendingInSequence
  <2> DEFINE v == Unsent(buf'[s])
  <2>1. /\ v \in 0 .. SeqMod - 1 /\ Unsent(buf[s]) = v + 1
    BY SendEffect, LengthAssumption, StreamAssumption
  <2>2. seqIn' = (seqOut + (v + 1)) % SeqMod
    BY <2>1, BufferFacts, SendLog
  <2>3. seqIn' = (seqOut' + v) % SeqMod
    BY <2>1, <2>2, SendLog, NextSeqPlus
  <2>4. ASSUME NEW k \in 0 .. v - 1
        PROVE  Ahead(buf'[s], k).seq = (seqOut' + k) % SeqMod
    <3>1. k \in 0 .. SeqMod - 1 /\ k + 1 \in 0 .. Unsent(buf[s]) - 1
      BY <2>1, SeqModPositive
    <3>2. Ahead(buf'[s], k).seq = (seqOut + (k + 1)) % SeqMod
      BY <3>1, SendEffect DEF StreamInv, PendingInSequence
    <3>3. QED
      BY <3>1, <3>2, SendLog, NextSeqPlus
  <2>5. QED
    BY <2>3, <2>4
<1>4. SentPacketsRetained'
  <2> SUFFICES ASSUME NEW s \in Streams, NEW k \in 1 .. Retained'
               PROVE  /\ PrevBuffered(buf'[s], k) = LastSent(k)'
                      /\ LastSent(k)'.seq = (seqOut' - k) % SeqMod
    BY DEF SentPacketsRetained
  <2>0. /\ Len(log) \in Nat /\ Len(log') = Len(log) + 1
        /\ \A i \in 1 .. Len(log) : log'[i] = log[i]
        /\ log'[Len(log')] = Ahead(buf[s], 0)
        /\ since \in 0 .. Len(log) /\ since' = since + 1
        /\ seqOut \in 0 .. SeqMod - 1 /\ seqOut' = NextSeq(seqOut)
    BY SendLog
  <2>1. /\ k \in 1 .. TailLength /\ k \in 1 .. since + 1
        /\ Retained \in 0 .. TailLength /\ Retained \in 0 .. since
        /\ k > 1 => k - 1 \in 1 .. Retained
    BY <2>0, LengthAssumption DEF Retained
  <2>2. CASE k = 1
    <3>0. TailLength > 0
      BY <2>1, <2>2, LengthAssumption
    <3>1. PrevBuffered(buf'[s], k) = Ahead(buf[s], 0)
      BY <2>2, <3>0, SendEffect
    <3>2. LastSent(k)' = Ahead(buf[s], 0)
      BY <2>0, <2>2 DEF LastSent
    <3>3. Ahead(buf[s], 0).seq = (seqOut + 0) % SeqMod
      BY SendEffect, LengthAssumption DEF StreamInv, PendingInSequence
    <3>4. (seqOut + 0) % SeqMod = seqOut
      BY <2>0, PlusZero
    <3>5. (seqOut' - 1) % SeqMod = seqOut
      <4>1. 0 \in 0 .. SeqMod - 1 /\ 0 + 1 = 1 /\ seqOut - 0 = seqOut /\ seqOut + 0 = seqOut
        BY <2>0, SeqModPositive
      <4>2. (NextSeq(seqOut) - (0 + 1)) % SeqMod = (seqOut - 0) % SeqMod
        BY ONLY <2>0, <4>1, NextSeqMinus
      <4>3. QED
        BY <2>0, <3>4, <4>1, <4>2
    <3>6. QED
      BY <2>0, <2>2, <3>1, <3>2, <3>3, <3>4, <3>5
  <2>3. CASE k > 1
    <3> DEFINE j == k - 1
    <3>1. j \in 1 .. Retained /\ j \in 1 .. TailLength - 1 /\ k = j + 1
      BY <2>1, <2>3, LengthAssumption
    <3>2. PrevBuffered(buf'[s], j + 1) = PrevBuffered(buf[s], j)
      BY <3>1, SendEffect
    <3>3. LastSent(k)' = LastSent(j)
      <4>1. /\ Len(log') - k + 1 = Len(log) - j + 1
            /\ Len(log) - j + 1 \in 1 .. Len(log)
        BY <2>0, <2>1, <3>1
      <4>2. QED
        BY <2>0, <4>1 DEF LastSent
    <3>4. /\ PrevBuffered(buf[s], j) = LastSent(j)
          /\ LastSent(j).seq = (seqOut - j) % SeqMod
      BY <3>1 DEF StreamInv, SentPacketsRetained
    <3>5. (seqOut' - (j + 1)) % SeqMod = (seqOut - j) % SeqMod
      <4>1. j \in 0 .. SeqMod - 1
        BY <3>1, StreamAssumption, LengthAssumption
      <4>2. (NextSeq(seqOut) - (j + 1)) % SeqMod = (seqOut - j) % SeqMod
        BY <2>0, <4>1, NextSeqMinus
      <4>3. QED
        BY <2>0, <4>2
    <3> HIDE DEF j
    <3>6. QED
      BY <3>1, <3>2, <3>3, <3>4, <3>5
  <2>4. QED
    BY <2>1, <2>2, <2>3
<1>5. MarkerStartsStream'
  <2>0. /\ Len(log) \in Nat /\ Len(log') = Len(log) + 1
        /\ \A i \in 1 .. Len(log) : log'[i] = log[i]
        /\ since \in 0 .. Len(log) /\ since' = since + 1
    BY SendLog DEF Streams
  <2>1. ASSUME NEW k \in 1 .. since'
        PROVE  LastSent(k)'.marker = (k = since')
    <3>1. CASE k = 1
      <4>1. LastSent(k)' = Ahead(buf["secured"], 0)
        BY <2>0, <3>1, SendLog DEF LastSent, Streams
      <4>2. Ahead(buf["secured"], 0).marker = (since = 0 /\ 0 = 0)
        BY SendEffect, LengthAssumption DEF StreamInv, MarkerStartsStream, Streams
      <4>3. (since = 0) <=> (k = since')
        BY <2>0, <3>1
      <4>4. QED
        BY <4>1, <4>2, <4>3
    <3>2. CASE k > 1
      <4>1. k - 1 \in 1 .. since /\ LastSent(k)' = LastSent(k - 1)
        BY <2>0, <3>2 DEF LastSent
      <4>2. LastSent(k - 1).marker = (k - 1 = since)
        BY <4>1 DEF StreamInv, MarkerStartsStream
      <4>3. (k - 1 = since) <=> (k = since')
        BY <2>0
      <4>4. QED
        BY <4>1, <4>2, <4>3
    <3>3. QED
      BY <2>0, <3>1, <3>2
  <2>2. ASSUME NEW s \in Streams, NEW k \in 0 .. Unsent(buf'[s]) - 1
        PROVE  Ahead(buf'[s], k).marker = (since' = 0 /\ k = 0)
    <3>1. k + 1 \in 0 .. Unsent(buf[s]) - 1 /\ k + 1 # 0
      BY SendEffect, LengthAssumption
    <3>2. Ahead(buf[s], k + 1).marker = (since = 0 /\ k + 1 = 0)
      BY <3>1 DEF StreamInv, MarkerStartsStream
    <3>3. since' # 0
      BY <2>0
    <3>4. QED
      BY <3>1, <3>2, <3>3, SendEffect
  <2>3. firstData' = FALSE /\ since' # 0
    <3>1. DataIsPending
      BY DEF SendPacket
    <3>2. firstData = (since = 0 /\ ~DataIsPending)
      BY DEF StreamInv, MarkerStartsStream
    <3>3. firstData' = firstData
      BY DEF SendPacket
    <3>4. since' # 0
      BY <2>0
    <3>5. QED
      BY <3>1, <3>2, <3>3, <3>4
  <2>4. QED
    BY <2>1, <2>2, <2>3 DEF MarkerStartsStream
<1>6. AudioInOrderOnce' /\ AudioWasWritten'
  <2> DEFINE p == Ahead(buf["secured"], 0)
  <2>0. /\ Len(log) \in Nat /\ Len(log') = Len(log) + 1
        /\ \A i \in 1 .. Len(log) : log'[i] = log[i]
        /\ log'[Len(log')] = p
        /\ written' = written
    BY SendLog DEF Streams
  <2>1. \A s \in Streams : buf[s] = buf["secured"] /\ 0 \in 0 .. Unsent(buf[s]) - 1
    BY BufferFacts, SendEffect, LengthAssumption
  <2>2. /\ \A i \in 1 .. Len(log) : log[i].audio < p.audio
        /\ p.audio <= written
    BY <2>1 DEF StreamInv, AudioInOrderOnce, AudioWasWritten, Streams
  <2>3. \A i, j \in 1 .. Len(log') : i < j => log'[i].audio < log'[j].audio
    <3> SUFFICES ASSUME NEW i \in 1 .. Len(log'), NEW j \in 1 .. Len(log'), i < j
                 PROVE  log'[i].audio < log'[j].audio
      OBVIOUS
    <3>1. i \in 1 .. Len(log)
      BY <2>0
    <3>2. CASE j = Len(log')
      BY <2>0, <2>2, <3>1, <3>2
    <3>3. CASE j \in 1 .. Len(log)
      BY <2>0, <3>1, <3>3 DEF StreamInv, AudioInOrderOnce
    <3>4. QED
      BY <2>0, <3>2, <3>3
  <2>4. \A i \in 1 .. Len(log') : log'[i].audio <= written'
    BY <2>0, <2>2 DEF StreamInv, AudioWasWritten
  <2>5. ASSUME NEW s \in Streams, NEW k \in 0 .. Unsent(buf'[s]) - 1
        PROVE  /\ \A i \in 1 .. Len(log') : log'[i].audio < Ahead(buf'[s], k).audio
               /\ \A j \in 0 .. k - 1 : Ahead(buf'[s], j).audio < Ahead(buf'[s], k).audio
               /\ Ahead(buf'[s], k).audio <= written'
    <3>1. /\ k + 1 \in 0 .. Unsent(buf[s]) - 1
          /\ \A j \in 0 .. k - 1 : /\ j + 1 \in 0 .. (k + 1) - 1
                                    /\ j \in 0 .. Unsent(buf'[s]) - 1
      BY SendEffect, LengthAssumption
    <3>2. Ahead(buf'[s], k) = Ahead(buf[s], k + 1)
      BY SendEffect
    <3>3. /\ \A i \in 1 .. Len(log) : log[i].audio < Ahead(buf[s], k + 1).audio
          /\ \A j \in 0 .. (k + 1) - 1 : Ahead(buf[s], j).audio < Ahead(buf[s], k + 1).audio
          /\ Ahead(buf[s], k + 1).audio <= written
      BY <3>1 DEF StreamInv, AudioInOrderOnce, AudioWasWritten
    <3>4. p.audio < Ahead(buf'[s], k).audio
      <4>1. 0 \in 0 .. (k + 1) - 1
        OBVIOUS
      <4>2. Ahead(buf[s], 0).audio < Ahead(buf[s], k + 1).audio
        BY <3>3, <4>1
      <4>3. QED
        BY <2>1, <3>2, <4>2
    <3>5. \A j \in 0 .. k - 1 : Ahead(buf'[s], j) = Ahead(buf[s], j + 1)
      BY <3>1, SendEffect
    <3> HIDE DEF p
    <3>6. \A i \in 1 .. Len(log') : log'[i].audio < Ahead(buf'[s], k).audio
      BY <2>0, <3>2, <3>3, <3>4
    <3>7. \A j \in 0 .. k - 1 : Ahead(buf'[s], j).audio < Ahead(buf'[s], k).audio
      BY <3>1, <3>2, <3>3, <3>5
    <3>8. QED
      BY <2>0, <3>2, <3>3, <3>6, <3>7
  <2>6. QED
    BY <2>3, <2>4, <2>5 DEF AudioInOrderOnce, AudioWasWritten
<1>7. QED
  BY <1>1, <1>2, <1>3, <1>4, <1>5, <1>6 DEF StreamInv

-----------------------------------------------------------------------------
(***************************************************************************)
(* The invariant, and the properties it contains.                          *)
(***************************************************************************)
LEMMA StutterKeepsInv == StreamInv /\ UNCHANGED streamVars => StreamInv'
<1> SUFFICES ASSUME StreamInv, UNCHANGED streamVars
             PROVE  StreamInv'
  OBVIOUS
<1> USE DEF streamVars
<1>1. StreamTypeOK'
  BY DEF StreamInv, StreamTypeOK
<1>2. BuffersInStep'
  BY DEF StreamInv, BuffersInStep
<1>3. PendingInSequence'
  BY DEF StreamInv, PendingInSequence
<1>4. SentPacketsRetained'
  BY DEF StreamInv, SentPacketsRetained, Retained, LastSent
<1>5. MarkerStartsStream'
  BY DEF StreamInv, MarkerStartsStream, LastSent, DataIsPending
<1>6. AudioInOrderOnce' /\ AudioWasWritten'
  BY DEF StreamInv, AudioInOrderOnce, AudioWasWritten
<1>7. QED
  BY <1>1, <1>2, <1>3, <1>4, <1>5, <1>6 DEF StreamInv

LEMMA StreamStepKeepsInv == StreamInv /\ [StreamNext]_streamVars => StreamInv'
<1> SUFFICES ASSUME StreamInv, [StreamNext]_streamVars
             PROVE  StreamInv'
  OBVIOUS
<1>1. CASE WritePacket
  BY <1>1, WriteKeepsInv
<1>2. CASE SendPacket
  BY <1>2, SendKeepsInv
<1>3. CASE ResetStream \/ ReinitStream
  BY <1>3, RewindKeepsInv
<1>4. CASE UNCHANGED streamVars
  BY <1>4, StutterKeepsInv
<1>5. QED
  BY <1>1, <1>2, <1>3, <1>4 DEF StreamNext, SessionNext

\* The inductive invariant holds in every behaviour of the stream.
THEOREM StreamInvariant == StreamSpec => []StreamInv
<1>1. StreamInit => StreamInv
  BY StreamInitInv
<1>2. StreamInv /\ [StreamNext]_streamVars => StreamInv'
  BY StreamStepKeepsInv
<1>3. QED
  BY <1>1, <1>2, PTL DEF StreamSpec

\* Type correctness: indices stay in the ring, the room left stays between
\* zero and the number of slots, and numbers stay below the modulus.
THEOREM StreamTypeCorrect == StreamSpec => []StreamTypeOK
<1>1. StreamInv => StreamTypeOK
  BY DEF StreamInv
<1>2. QED
  BY <1>1, StreamInvariant, PTL

\* The sender's test for data, which compares the two sequence numbers, and
\* the buffers' own counts agree for every number of slots below 2^16.
THEOREM SenderGuardIsSound == StreamSpec => []SenderGuardAgreesWithBuffers
<1>1. StreamInv => SenderGuardAgreesWithBuffers
  BY BufferFacts DEF SenderGuardAgreesWithBuffers
<1>2. QED
  BY <1>1, StreamInvariant, PTL

\* The unsent packets are numbered without a gap.
THEOREM PendingIsInSequence == StreamSpec => []PendingInSequence
<1>1. StreamInv => PendingInSequence
  BY DEF StreamInv
<1>2. QED
  BY <1>1, StreamInvariant, PTL

\* The memory of sent packets is never overwritten early.
THEOREM SentPacketsAreRetained == StreamSpec => []SentPacketsRetained
<1>1. StreamInv => SentPacketsRetained
  BY DEF StreamInv
<1>2. QED
  BY <1>1, StreamInvariant, PTL

\* Exactly the first packet after a rewind carries the marker.
THEOREM MarkerIsFirst == StreamSpec => []MarkerStartsStream
<1>1. StreamInv => MarkerStartsStream
  BY DEF StreamInv
<1>2. QED
  BY <1>1, StreamInvariant, PTL

\* Audio is sent in the order of writing, each write at most once.
THEOREM AudioIsInOrderOnce == StreamSpec => []AudioInOrderOnce
<1>1. StreamInv => AudioInOrderOnce
  BY DEF StreamInv
<1>2. QED
  BY <1>1, StreamInvariant, PTL

-----------------------------------------------------------------------------
(***************************************************************************)
(* Resend requests.                                                        *)
(***************************************************************************)
\* The loop of handleResendRequest() stops at one place only.
LEMMA LoopCountUnique ==
    ASSUME NEW b, NEW missed, NEW age, NEW count \in Nat, NEW m, NEW n,
           IsLoopCount(b, missed, age, count, m), IsLoopCount(b, missed, age, count, n)
    PROVE  m = n
<1>1. m \in 0 .. count /\ n \in 0 .. count
  BY DEF IsLoopCount
<1>2. ~(m < n)
  <2> SUFFICES ASSUME m < n
               PROVE  FALSE
    OBVIOUS
  <2>1. m \in 0 .. n - 1 /\ m < count
    BY <1>1
  <2>2. QED
    BY <2>1 DEF IsLoopCount
<1>3. ~(n < m)
  <2> SUFFICES ASSUME n < m
               PROVE  FALSE
    OBVIOUS
  <2>1. n \in 0 .. m - 1 /\ n < count
    BY <1>1
  <2>2. QED
    BY <2>1 DEF IsLoopCount
<1>4. QED
  BY <1>1, <1>2, <1>3

\* The age computed for a missed packet counts back to it, and further on
\* to its successors.
LEMMA AgeCountsBack ==
    ASSUME StreamTypeOK, NEW missed \in 0 .. SeqMod - 1,
           NEW i \in Nat, i <= PacketAge(missed)
    PROVE  /\ PacketAge(missed) \in 0 .. SeqMod - 1
           /\ (seqOut - (PacketAge(missed) - i)) % SeqMod = (missed + i) % SeqMod
<1>1. seqOut \in 0 .. SeqMod - 1 /\ SeqMod \in Nat \ {0}
  BY SeqModPositive DEF StreamTypeOK
<1>2. CASE missed <= seqOut
  <2>1. /\ PacketAge(missed) = seqOut - missed
        /\ seqOut - (PacketAge(missed) - i) = missed + i
    BY <1>1, <1>2 DEF PacketAge
  <2>2. QED
    BY <1>1, <1>2, <2>1
<1>3. CASE ~(missed <= seqOut)
  <2>1. PacketAge(missed) = seqOut + SeqMod - missed
    BY <1>1, <1>3 DEF PacketAge
  <2>2. /\ PacketAge(missed) \in 0 .. SeqMod - 1
        /\ PacketAge(missed) - i \in 0 .. SeqMod
        /\ i \in 0 .. SeqMod
    BY <1>1, <1>3, <2>1
  <2>3. (seqOut - (PacketAge(missed) - i)) % SeqMod
          = IF PacketAge(missed) - i <= seqOut
            THEN seqOut - (PacketAge(missed) - i)
            ELSE seqOut - (PacketAge(missed) - i) + SeqMod
    BY ONLY <1>1, <2>2, ModDiff
  <2>4. (missed + i) % SeqMod
          = IF missed + i < SeqMod THEN missed + i ELSE missed + i - SeqMod
    BY ONLY <1>1, <2>2, missed \in 0 .. SeqMod - 1, ModSum
  <2>5. QED
    BY <1>1, <1>3, <2>1, <2>2, <2>3, <2>4
<1>4. QED
  BY <1>2, <1>3

\* A request is answered from the memory of sent packets, exactly.
LEMMA ResendIsExact ==
    ASSUME StreamInv, NEW s \in Streams, NEW r \in Requests,
           PacketAge(r.missed) \in 1 .. Retained
    PROVE  LET age == PacketAge(r.missed)
               n   == IF r.count < age THEN r.count ELSE age
           IN  ResendReply(buf[s], r.missed, r.count) = [i \in 1 .. n |-> LastSent(age - (i - 1))]
<1> DEFINE age == PacketAge(r.missed)
           n   == IF r.count < age THEN r.count ELSE age
           b   == buf[s]
<1>1. /\ r.missed \in 0 .. SeqMod - 1
      /\ r.count \in Nat /\ r.count > 0
      /\ StreamTypeOK
  BY StreamAssumption DEF Requests, StreamInv
<1>2. /\ age \in 1 .. TailLength
      /\ age \in 1 .. Retained
      /\ age \in Nat
      /\ Retained \in Nat
  BY <1>1, LengthAssumption DEF Retained, StreamTypeOK
<1>3. /\ n \in 0 .. r.count
      /\ n <= age
      /\ n < r.count => n = age
  BY <1>1, <1>2
<1>4. ASSUME NEW i \in 0 .. n - 1
      PROVE  /\ Matches(b, r.missed, age, i)
             /\ PrevBuffered(b, age - i) = LastSent(age - i)
  <2>1. /\ age - i \in 1 .. TailLength
        /\ age - i \in 1 .. Retained
        /\ i \in Nat /\ i <= age
    <3>1. n \in Int /\ i \in 0 .. n - 1 /\ age \in Int /\ n <= age /\ TailLength \in Int
      BY <1>1, <1>2, <1>3, LengthAssumption
    <3> HIDE DEF age, n
    <3>2. QED
      BY <1>2, <3>1
  <2>2. /\ PrevBuffered(b, age - i) = LastSent(age - i)
        /\ LastSent(age - i).seq = (seqOut - (age - i)) % SeqMod
    BY <2>1 DEF StreamInv, SentPacketsRetained
  <2>3. (seqOut - (age - i)) % SeqMod = (r.missed + i) % SeqMod
    BY <1>1, <2>1, AgeCountsBack
  <2> HIDE DEF age, b
  <2>4. QED
    BY <2>1, <2>2, <2>3 DEF Matches, HasPrev
<1>5. n < r.count => ~Matches(b, r.missed, age, n)
  <2> SUFFICES ASSUME n < r.count
               PROVE  ~HasPrev(age - n)
    BY DEF Matches
  <2>1. age - n = 0
    BY <1>2, <1>3
  <2>2. QED
    BY <2>1, LengthAssumption DEF HasPrev
<1> HIDE DEF age, n, b
<1>6. IsLoopCount(b, r.missed, age, r.count, n)
  BY <1>3, <1>4, <1>5 DEF IsLoopCount
<1>7. (CHOOSE m \in 0 .. r.count : IsLoopCount(b, r.missed, age, r.count, m)) = n
  <2> DEFINE c == CHOOSE m \in 0 .. r.count : IsLoopCount(b, r.missed, age, r.count, m)
  <2>1. IsLoopCount(b, r.missed, age, r.count, c)
    BY <1>3, <1>6
  <2> HIDE DEF c
  <2>2. c = n
    BY <1>1, <1>6, <2>1, LoopCountUnique
  <2>3. QED
    BY <2>2 DEF c
<1>8. HasPrev(age)
  BY <1>2 DEF HasPrev
<1>9. ResendReply(b, r.missed, r.count) = [i \in 1 .. n |-> PrevBuffered(b, age - (i - 1))]
  BY <1>7, <1>8 DEF ResendReply, age
<1>10. ASSUME NEW i \in 1 .. n
       PROVE  PrevBuffered(b, age - (i - 1)) = LastSent(age - (i - 1))
  <2>1. i - 1 \in 0 .. n - 1
    BY <1>1, <1>3
  <2>2. QED
    BY <1>4, <2>1
<1>11. QED
  BY <1>9, <1>10 DEF age, n, b

\* Whatever is still retained is resent exactly as it was sent.
THEOREM ResendsAreExact == StreamSpec => []ResendsAreFaithful
<1>1. StreamInv => ResendsAreFaithful
  BY ResendIsExact DEF ResendsAreFaithful
<1>2. QED
  BY <1>1, StreamInvariant, PTL

-----------------------------------------------------------------------------
(***************************************************************************)
(* Either packet buffer, with the counters, implements the bounded queue   *)
(* of module AudioStream: every step of RAOPStream is a step of the queue, *)
(* or none, under the mapping RAOPStream states.                           *)
(***************************************************************************)
\* The queue that a buffer stands for is a sequence of packets.
LEMMA PendingIsSeq ==
    ASSUME StreamInv, NEW s \in Streams
    PROVE  /\ Pending(buf[s]) \in Seq(Packet)
           /\ Len(Pending(buf[s])) = Unsent(buf[s])
           /\ Unsent(buf[s]) \in 0 .. HeadLength
           /\ \A k \in 1 .. Unsent(buf[s]) : Pending(buf[s])[k] = Ahead(buf[s], k - 1)
           /\ Pending(buf[s]) = << >> <=> Unsent(buf[s]) = 0
<1> DEFINE u == Unsent(buf[s])
           q == Pending(buf[s])
<1>1. u \in 0 .. HeadLength /\ u \in Nat
  BY BufferFacts, LengthAssumption
<1>2. \A k \in 1 .. u : Ahead(buf[s], k - 1) \in Packet
  <2> SUFFICES ASSUME NEW k \in 1 .. u
               PROVE  Ahead(buf[s], k - 1) \in Packet
    OBVIOUS
  <2>1. k - 1 \in 0 .. u - 1
    BY <1>1
  <2>2. QED
    BY <2>1, AheadIsPacket
<1>3. q = [k \in 1 .. u |-> Ahead(buf[s], k - 1)]
  BY DEF Pending
<1> HIDE DEF u, q
<1>4. q \in Seq(Packet) /\ Len(q) = u
  BY <1>1, <1>2, <1>3
<1>5. q = << >> <=> u = 0
  BY <1>1, <1>4
<1>6. QED
  BY <1>1, <1>3, <1>4, <1>5 DEF u, q

\* Sequences of one length that agree everywhere are equal.
LEMMA SameSequence ==
    ASSUME NEW S, NEW p \in Seq(S), NEW q \in Seq(S), Len(p) = Len(q),
           \A i \in 1 .. Len(p) : p[i] = q[i]
    PROVE  p = q
  OBVIOUS

\* write() appends to the queue.
LEMMA WriteAppends ==
    ASSUME StreamInv, WritePacket, NEW s \in Streams
    PROVE  Pending(buf'[s]) = Append(Pending(buf[s]), NewPacket)
<1> DEFINE p == Pending(buf'[s])
           q == Append(Pending(buf[s]), NewPacket)
           u == Unsent(buf[s])
<1>1. StreamInv'
  BY WriteKeepsInv
<1>2. /\ Pending(buf[s]) \in Seq(Packet) /\ Len(Pending(buf[s])) = u
      /\ \A k \in 1 .. u : Pending(buf[s])[k] = Ahead(buf[s], k - 1)
      /\ u \in Nat
  BY PendingIsSeq, LengthAssumption
<1>3. /\ p = [k \in 1 .. Unsent(buf'[s]) |-> Ahead(buf'[s], k - 1)]
      /\ Unsent(buf'[s]) = u + 1
  BY WriteEffect DEF Pending
<1>4. NewPacket \in Packet
  BY NewPacketType DEF StreamInv
<1>5. q \in Seq(Packet) /\ Len(q) = u + 1 /\ q[u + 1] = NewPacket
  BY <1>2, <1>4
<1>6. \A k \in 1 .. u : q[k] = Ahead(buf[s], k - 1)
  BY <1>2, <1>4
<1>7. \A k \in 1 .. u + 1 : p[k] = q[k]
  <2> SUFFICES ASSUME NEW k \in 1 .. u + 1
               PROVE  p[k] = q[k]
    OBVIOUS
  <2>1. p[k] = Ahead(buf'[s], k - 1)
    BY <1>3
  <2>2. CASE k = u + 1
    <3>1. k - 1 = u
      BY <1>2, <2>2
    <3>2. p[k] = NewPacket
      BY <2>1, <3>1, WriteEffect
    <3>3. QED
      BY <1>5, <2>2, <3>2
  <2>3. CASE k \in 1 .. u
    <3>1. k - 1 \in 0 .. u - 1
      BY <1>2, <2>3
    <3>2. p[k] = Ahead(buf[s], k - 1)
      BY <2>1, <3>1, WriteEffect
    <3>3. QED
      BY <1>6, <2>3, <3>2
  <2>4. QED
    BY <1>2, <2>2, <2>3
<1>8. p = [k \in 1 .. u + 1 |-> q[k]]
  BY <1>3, <1>7
<1> HIDE DEF p, q, u
<1>9. p \in Seq(Packet) /\ Len(p) = u + 1
  BY <1>2, <1>5, <1>8
<1>10. p = q
  BY <1>5, <1>7, <1>9, SameSequence
<1>11. QED
  BY <1>10 DEF p, q

\* sendDataPacket() removes the head of the queue.
LEMMA SendRemovesHead ==
    ASSUME StreamInv, SendPacket, NEW s \in Streams
    PROVE  /\ Pending(buf[s]) # << >>
           /\ Head(Pending(buf[s])) = Ahead(buf[s], 0)
           /\ Pending(buf'[s]) = Tail(Pending(buf[s]))
<1> DEFINE p == Pending(buf'[s])
           q == Pending(buf[s])
           u == Unsent(buf[s])
<1>1. /\ q \in Seq(Packet) /\ Len(q) = u
      /\ \A k \in 1 .. u : q[k] = Ahead(buf[s], k - 1)
      /\ u \in Nat /\ u >= 1
  <2>1. u \in 1 .. HeadLength
    BY SendEffect
  <2>2. QED
    BY <2>1, PendingIsSeq, LengthAssumption
<1>2. /\ p = [k \in 1 .. Unsent(buf'[s]) |-> Ahead(buf'[s], k - 1)]
      /\ Unsent(buf'[s]) = u - 1
  BY SendEffect DEF Pending
<1>3. \A k \in 1 .. u - 1 : p[k] = q[k + 1]
  <2> SUFFICES ASSUME NEW k \in 1 .. u - 1
               PROVE  p[k] = q[k + 1]
    OBVIOUS
  <2>1. /\ k - 1 \in 0 .. Unsent(buf'[s]) - 1
        /\ (k - 1) + 1 = k /\ (k + 1) - 1 = k
        /\ k + 1 \in 1 .. u
    BY <1>1, <1>2
  <2>2. p[k] = Ahead(buf[s], (k - 1) + 1)
    BY <1>2, <2>1, SendEffect
  <2>3. q[k + 1] = Ahead(buf[s], (k + 1) - 1)
    BY <1>1, <2>1
  <2>4. QED
    BY <2>1, <2>2, <2>3
<1>4. q[1] = Ahead(buf[s], 0)
  <2>1. 1 \in 1 .. u /\ 1 - 1 = 0
    BY <1>1
  <2>2. q[1] = Ahead(buf[s], 1 - 1)
    BY <1>1, <2>1
  <2>3. QED
    BY <2>1, <2>2
<1>5. p = [k \in 1 .. u - 1 |-> q[k + 1]]
  BY <1>2, <1>3
<1> HIDE DEF p, q, u
<1>6. q # << >> /\ Head(q) = q[1]
  BY <1>1
<1>7. /\ Tail(q) \in Seq(Packet) /\ Len(Tail(q)) = u - 1
      /\ \A k \in 1 .. u - 1 : Tail(q)[k] = q[k + 1]
  BY <1>1
<1>8. p \in Seq(Packet) /\ Len(p) = u - 1
  BY <1>1, <1>5
<1>9. p = Tail(q)
  BY <1>3, <1>7, <1>8, SameSequence
<1>10. QED
  BY <1>4, <1>6, <1>9 DEF p, q

\* Rewinding empties the queue.
LEMMA RewindEmpties ==
    ASSUME StreamInv, ResetStream \/ ReinitStream, NEW s \in Streams
    PROVE  Pending(buf'[s]) = << >>
<1>1. Unsent(buf'[s]) = 0
  BY RewindEffect
<1>2. Pending(buf'[s]) = [k \in 1 .. 0 |-> Ahead(buf'[s], k - 1)]
  BY <1>1 DEF Pending
<1>3. QED
  BY <1>2

-----------------------------------------------------------------------------
(***************************************************************************)
(* Each step of the stream as a step of the queue.                         *)
(***************************************************************************)
LEMMA WriteImplementsWrite ==
    ASSUME StreamInv, WritePacket
    PROVE  SecuredAudio!Write /\ UnsecuredAudio!Write
<1>1. ASSUME NEW s \in Streams
      PROVE  /\ Len(Pending(buf[s])) < HeadLength
             /\ Pending(buf'[s])
                  = Append(Pending(buf[s]),
                           [seq    |-> (seqOut + Len(Pending(buf[s]))) % SeqMod,
                            marker |-> (since = 0) /\ Pending(buf[s]) = << >>,
                            audio  |-> written + 1])
  <2>1. Len(Pending(buf[s])) = Unsent(buf[s]) /\ (Pending(buf[s]) = << >> <=> Unsent(buf[s]) = 0)
    BY PendingIsSeq
  <2>2. Unsent(buf[s]) \in 0 .. HeadLength - 1
    BY WriteEffect
  <2>3. seqIn = (seqOut + Len(Pending(buf[s]))) % SeqMod
    BY <2>1, BufferFacts
  <2>4. firstData = ((since = 0) /\ Pending(buf[s]) = << >>)
    <3>1. firstData = (since = 0 /\ ~DataIsPending)
      BY DEF StreamInv, MarkerStartsStream
    <3>2. ~DataIsPending <=> Unsent(buf[s]) = 0
      BY <2>2, BufferFacts, LengthAssumption
    <3>3. QED
      BY <2>1, <3>1, <3>2
  <2>5. NewPacket = [seq    |-> (seqOut + Len(Pending(buf[s]))) % SeqMod,
                     marker |-> (since = 0) /\ Pending(buf[s]) = << >>,
                     audio  |-> written + 1]
    BY <2>3, <2>4 DEF NewPacket
  <2>6. QED
    BY <2>1, <2>2, <2>5, WriteAppends, LengthAssumption
<1>2. /\ written < MaxWrites /\ written' = written + 1
      /\ log' = log /\ seqOut' = seqOut /\ since' = since
  BY DEF WritePacket
<1>3. "secured" \in Streams /\ "unsecured" \in Streams
  BY DEF Streams
<1>4. SecuredAudio!Write
  BY <1>1, <1>2, <1>3 DEF SecuredAudio!Write
<1>5. UnsecuredAudio!Write
  BY <1>1, <1>2, <1>3 DEF UnsecuredAudio!Write
<1>6. QED
  BY <1>4, <1>5

LEMMA SendImplementsSend ==
    ASSUME StreamInv, SendPacket
    PROVE  SecuredAudio!Send /\ UnsecuredAudio!Send
<1>1. \A s \in Streams :
          /\ Pending(buf[s]) # << >>
          /\ log' = Append(log, Head(Pending(buf[s])))
          /\ Pending(buf'[s]) = Tail(Pending(buf[s]))
  BY SendEffect, SendRemovesHead
<1>2. since \in Nat /\ since' = since + 1
  BY DEF SendPacket, StreamInv, StreamTypeOK
<1>3. (since' = 0) = FALSE
  BY <1>2
<1>4. seqOut' = (seqOut + 1) % SeqMod /\ written' = written
  BY DEF SendPacket, NextSeq
<1>5. "secured" \in Streams /\ "unsecured" \in Streams
  BY DEF Streams
<1>6. SecuredAudio!Send
  BY <1>1, <1>3, <1>4, <1>5 DEF SecuredAudio!Send
<1>7. UnsecuredAudio!Send
  BY <1>1, <1>3, <1>4, <1>5 DEF UnsecuredAudio!Send
<1>8. QED
  BY <1>6, <1>7

LEMMA RewindImplementsRestart ==
    ASSUME StreamInv, ResetStream \/ ReinitStream
    PROVE  /\ ResetStream => SecuredAudio!Restart /\ UnsecuredAudio!Restart
           /\ ReinitStream => SecuredAudio!NewSession /\ UnsecuredAudio!NewSession
<1>1. \A s \in Streams : Pending(buf'[s]) = << >>
  BY RewindEmpties
<1>2. /\ since' = 0 /\ log' = log /\ written' = written
      /\ seqOut' \in 0 .. SeqMod - 1
      /\ ResetStream => seqOut' = seqOut
  BY RewindCounters DEF ResetStream
<1>3. (since' = 0) = TRUE
  BY <1>2
<1>4. "secured" \in Streams /\ "unsecured" \in Streams
  BY DEF Streams
<1>5. /\ ResetStream => SecuredAudio!Restart
      /\ ReinitStream => SecuredAudio!NewSession
  BY <1>1, <1>2, <1>3, <1>4 DEF SecuredAudio!Restart, SecuredAudio!NewSession
<1>6. /\ ResetStream => UnsecuredAudio!Restart
      /\ ReinitStream => UnsecuredAudio!NewSession
  BY <1>1, <1>2, <1>3, <1>4 DEF UnsecuredAudio!Restart, UnsecuredAudio!NewSession
<1>7. QED
  BY <1>5, <1>6

\* The initial states of the stream are initial states of the queue.
LEMMA InitImplementsInit == StreamInit => SecuredAudio!Init /\ UnsecuredAudio!Init
<1> SUFFICES ASSUME StreamInit
             PROVE  SecuredAudio!Init /\ UnsecuredAudio!Init
  OBVIOUS
<1>1. Blank \in Packet
  BY SeqModPositive, StreamAssumption DEF Blank, Packet
<1>2. \A s \in Streams : Unsent(buf[s]) = 0
  BY <1>1, EmptyBufferShape DEF StreamInit
<1>3. \A s \in Streams : Pending(buf[s]) = << >>
  <2> SUFFICES ASSUME NEW s \in Streams
               PROVE  Pending(buf[s]) = << >>
    OBVIOUS
  <2>1. Pending(buf[s]) = [k \in 1 .. 0 |-> Ahead(buf[s], k - 1)]
    BY <1>2 DEF Pending
  <2>2. QED
    BY <2>1
<1>4. /\ log = << >> /\ written = 0 /\ (since = 0) = TRUE
      /\ seqOut \in 0 .. SeqMod - 1
  BY DEF StreamInit
<1>5. "secured" \in Streams /\ "unsecured" \in Streams
  BY DEF Streams
<1>6. SecuredAudio!Init
  BY <1>3, <1>4, <1>5 DEF SecuredAudio!Init
<1>7. UnsecuredAudio!Init
  BY <1>3, <1>4, <1>5 DEF UnsecuredAudio!Init
<1>8. QED
  BY <1>6, <1>7

\* Every step of the stream is a step of the queue, or leaves it alone.
LEMMA StepImplementsStep ==
    StreamInv /\ [StreamNext]_streamVars
      => /\ [SecuredAudio!Next]_(SecuredAudio!vars)
         /\ [UnsecuredAudio!Next]_(UnsecuredAudio!vars)
<1> SUFFICES ASSUME StreamInv, [StreamNext]_streamVars
             PROVE  /\ [SecuredAudio!Next]_(SecuredAudio!vars)
                    /\ [UnsecuredAudio!Next]_(UnsecuredAudio!vars)
  OBVIOUS
<1>1. CASE WritePacket
  BY <1>1, WriteImplementsWrite DEF SecuredAudio!Next, UnsecuredAudio!Next
<1>2. CASE SendPacket
  BY <1>2, SendImplementsSend DEF SecuredAudio!Next, UnsecuredAudio!Next
<1>3. CASE ResetStream
  BY <1>3, RewindImplementsRestart DEF SecuredAudio!Next, UnsecuredAudio!Next
<1>4. CASE ReinitStream
  BY <1>4, RewindImplementsRestart DEF SecuredAudio!Next, UnsecuredAudio!Next
<1>5. CASE UNCHANGED streamVars
  BY <1>5 DEF streamVars, SecuredAudio!vars, UnsecuredAudio!vars, Pending, Ahead, Unsent
<1>6. QED
  BY <1>1, <1>2, <1>3, <1>4, <1>5 DEF StreamNext, SessionNext

\* A device that listens to the encrypted audio is fed by a bounded
\* first-in first-out queue.
THEOREM SecuredRefinement == StreamSpec => SecuredImplementsAudioStream
<1>1. StreamInit => SecuredAudio!Init
  BY InitImplementsInit
<1>2. StreamInv /\ [StreamNext]_streamVars => [SecuredAudio!Next]_(SecuredAudio!vars)
  BY StepImplementsStep
<1>3. QED
  BY <1>1, <1>2, StreamInvariant, PTL
  DEF StreamSpec, SecuredImplementsAudioStream, SecuredAudio!Spec

\* The same for a device that listens to the plain audio.
THEOREM UnsecuredRefinement == StreamSpec => UnsecuredImplementsAudioStream
<1>1. StreamInit => UnsecuredAudio!Init
  BY InitImplementsInit
<1>2. StreamInv /\ [StreamNext]_streamVars => [UnsecuredAudio!Next]_(UnsecuredAudio!vars)
  BY StepImplementsStep
<1>3. QED
  BY <1>1, <1>2, StreamInvariant, PTL
  DEF StreamSpec, UnsecuredImplementsAudioStream, UnsecuredAudio!Spec

\* The stream implements the abstract queue in both forms at once
\* (raop/RAOPEngine.cpp:479-559, 699-746, 605-614).
THEOREM StreamRefinement == StreamSpec => ImplementsAudioStream
  BY SecuredRefinement, UnsecuredRefinement DEF ImplementsAudioStream

=============================================================================
