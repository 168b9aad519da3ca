---------------------------- MODULE PacketBuffer ----------------------------
(***************************************************************************)
(* The ring of packet slots of raop/PacketBuffer.cpp.                      *)
(*                                                                         *)
(* A buffer has HeadLength slots for packets that are written and not yet  *)
(* sent, and TailLength slots that remember packets already sent, so that  *)
(* a device can ask for them again.  The code counts in bytes, in          *)
(* multiples of the slot length; here a slot is one unit.  A buffer is a   *)
(* record: its two ends move independently, and reset() rewinds them       *)
(* without clearing the slots, so the memory outlives a reset.             *)
(***************************************************************************)
EXTENDS Integers

CONSTANTS
    HeadLength,  \* slots for unsent packets (PACKET_BUFFER_COUNT, 250)
    TailLength   \* slots for sent packets (PACKET_MEMORY_COUNT, 500)

ASSUME LengthAssumption ==
    /\ HeadLength \in Nat \ {0}
    /\ TailLength \in Nat

RingSize == HeadLength + TailLength

Slot == 0 .. RingSize - 1

PacketBufferType(Packet) ==
    [avail : 0 .. HeadLength, read : Slot, write : Slot, slots : [Slot -> Packet]]

(***************************************************************************)
(* The operations of the class.                                            *)
(***************************************************************************)
\* A new buffer; blank is what a slot reads as before its first use.
EmptyBuffer(blank) ==
    [avail |-> HeadLength, read |-> 0, write |-> 0, slots |-> [i \in Slot |-> blank]]

\* Wrong variants, which the runs must tell from the code: a reset that
\* forgets the write end, and a look back that is one slot off where it wraps.
ResetReadEndOnly(b) == [avail |-> HeadLength, read |-> 0, write |-> b.write, slots |-> b.slots]

PrevIndexShort(i, k) == IF k <= i THEN i - k ELSE RingSize - 1 - (k - i)

\* Rewinds both ends; what the slots hold stays.
ResetBuffer(b) == [avail |-> HeadLength, read |-> 0, write |-> 0, slots |-> b.slots]

CanWrite(b) == b.avail > 0

CanRead(b) == b.avail < HeadLength

NextIndex(i) == (i + 1) % RingSize

\* nextAvailable(), with the packet its caller then builds in the slot.
PutNext(b, packet) ==
    [avail |-> b.avail - 1, read |-> b.read, write |-> NextIndex(b.write),
     slots |-> [b.slots EXCEPT ![b.write] = packet]]

\* nextBuffered(): the packet it returns, and the buffer it leaves.
NextBuffered(b) == b.slots[b.read]

TakeNext(b) ==
    [avail |-> b.avail + 1, read |-> NextIndex(b.read), write |-> b.write, slots |-> b.slots]

\* prevBuffered(): the slot k places behind the read end.  The code returns
\* it whether or not a packet was ever sent from it.
PrevIndex(i, k) == IF k <= i THEN i - k ELSE RingSize - (k - i)

HasPrev(k) == k \in 1 .. TailLength

PrevBuffered(b, k) == b.slots[PrevIndex(b.read, k)]

-----------------------------------------------------------------------------
(***************************************************************************)
(* Vocabulary for statements about a buffer; the program has no such code. *)
(***************************************************************************)
Unsent(b) == HeadLength - b.avail

AheadIndex(i, k) == IF i + k < RingSize THEN i + k ELSE i + k - RingSize

\* The k-th unsent packet, counted from zero at the read end.
Ahead(b, k) == b.slots[AheadIndex(b.read, k)]

=============================================================================
