---------------------------- MODULE AudioStream ----------------------------
(***************************************************************************)
(* What the engine promises about the audio it is given: a bounded queue   *)
(* of packets.  Packets leave in the order in which they were written,     *)
(* each once and as it was written, under consecutive sequence numbers;    *)
(* the player may restart the stream, which drops what has not left yet,   *)
(* and a new session may begin at any sequence number.  Buffers, indices   *)
(* and the number of the next packet to be written do not appear here:     *)
(* module RAOPStream shows how the program keeps the promise with them.    *)
(***************************************************************************)
EXTENDS Integers, Sequences

CONSTANTS
    Capacity,   \* packets that may wait to be sent
    SeqMod,     \* sequence numbers are counted modulo SeqMod
    MaxWrites   \* bound: packets ever written

VARIABLES
    pending,    \* the packets waiting to be sent, the oldest first
    log,        \* the packets sent, in order
    next,       \* the sequence number of the next packet to be sent
    fresh,      \* nothing was sent since the stream was (re)started
    written     \* packets written so far; a packet's audio is its number

vars == <<pending, log, next, fresh, written>>

Init ==
    /\ pending = <<>>
    /\ log = <<>>
    /\ next \in 0 .. SeqMod - 1
    /\ fresh = TRUE
    /\ written = 0

\* A packet is numbered after those that wait; it carries the marker if it
\* will be the first one of the stream.
Write ==
    /\ Len(pending) < Capacity
    /\ written < MaxWrites
    /\ pending' = Append(pending, [seq    |-> (next + Len(pending)) % SeqMod,
                                   marker |-> fresh /\ pending = <<>>,
                                   audio  |-> written + 1])
    /\ written' = written + 1
    /\ UNCHANGED <<log, next, fresh>>

Send ==
    /\ pending # <<>>
    /\ log' = Append(log, Head(pending))
    /\ pending' = Tail(pending)
    /\ next' = (next + 1) % SeqMod
    /\ fresh' = FALSE
    /\ UNCHANGED written

Restart ==
    /\ pending' = <<>>
    /\ fresh' = TRUE
    /\ UNCHANGED <<log, next, written>>

NewSession ==
    /\ pending' = <<>>
    /\ fresh' = TRUE
    /\ next' \in 0 .. SeqMod - 1
    /\ UNCHANGED <<log, written>>

Next == Write \/ Send \/ Restart \/ NewSession

Spec == Init /\ [][Next]_vars

=============================================================================
