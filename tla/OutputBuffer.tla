---------------------------- MODULE OutputBuffer ----------------------------
(***************************************************************************)
(* The byte ring of OutputBuffer.cpp, which turns the player's writes of   *)
(* any length into the fixed-length packets the engine wants.  A byte is   *)
(* named by its place in everything the player ever wrote, starting at 1;  *)
(* 0 is what the memory holds before it is written to.                     *)
(***************************************************************************)
EXTENDS Integers, Sequences

CONSTANTS
    Capacity,   \* BUFFER_CAPACITY, 32768, no multiple of the packet size
    PacketSize  \* RAOP_PACKET_MAX_DATA_SIZE, 1408

ASSUME BufferAssumption ==
    /\ Capacity \in Nat \ {0}
    /\ PacketSize \in 1 .. Capacity

Place == 0 .. Capacity - 1

\* _bufferAvailability, _bufferReadIndex, _bufferWriteIndex and _buffer.
RingType(Byte) == [avail : 0 .. Capacity, read : Place, write : Place, bytes : [Place -> Byte]]

NewRing == [avail |-> Capacity, read |-> 0, write |-> 0, bytes |-> [i \in Place |-> 0]]

\* Wrong variant: a reset that forgets the read end.
RewoundWriteOnly(r) == [avail |-> Capacity, read |-> r.read, write |-> 0, bytes |-> r.bytes]

Rewound(r) == [avail |-> Capacity, read |-> 0, write |-> 0, bytes |-> r.bytes]

Unread(r) == Capacity - r.avail

(***************************************************************************)
(* The copy in write(): in one piece where the free space is, or up to the *)
(* end of the memory and on from its beginning.                            *)
(***************************************************************************)
FitsAhead(r, n) == r.write < r.read \/ n <= Capacity - r.write

FirstPart(r, n) == IF FitsAhead(r, n) THEN n ELSE Capacity - r.write

Put(r, data) ==
    LET n == Len(data)
        k == FirstPart(r, n)
    IN  [avail |-> r.avail - n,
         read  |-> r.read,
         write |-> (r.write + n) % Capacity,
         bytes |-> [i \in Place |->
             IF i \in r.write .. r.write + k - 1 THEN data[i - r.write + 1]
             ELSE IF i < n - k THEN data[k + i + 1]
             ELSE r.bytes[i]]]

(***************************************************************************)
(* The bytes that writeToOutputSink() passes on, straight from the memory  *)
(* or put together from its end and its beginning; and what is left.       *)
(***************************************************************************)
IsContiguous(r, n) == r.read < r.write \/ n <= Capacity - r.read

Fetch(r, n) ==
    [i \in 1 .. n |->
        IF IsContiguous(r, n) \/ i <= Capacity - r.read
        THEN r.bytes[r.read + i - 1]
        ELSE r.bytes[i - (Capacity - r.read) - 1]]

Take(r, n) ==
    [avail |-> r.avail + n, read |-> (r.read + n) % Capacity, write |-> r.write, bytes |-> r.bytes]

=============================================================================
