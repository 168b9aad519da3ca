------------------------- MODULE OutputReformatter -------------------------
(***************************************************************************)
(* OutputReformatter.cpp: what the player writes in a format of its own    *)
(* becomes 16-bit stereo at the engine's sample rate.  A write resamples   *)
(* into a buffer of the reformatter, then duplicates the samples of a mono *)
(* format there, in place, from back to front; a turn of that loop is a    *)
(* step.  A sample is named by its place in what the converter generated   *)
(* since the last reset, starting at 1; its value does not matter.         *)
(*                                                                         *)
(* The converter (libsamplerate) is external: it generates as many frames  *)
(* as its input is worth, but for what its filter needs to look ahead, and *)
(* never more than it is given room for.                                   *)
(***************************************************************************)
EXTENDS Integers

CONSTANTS
    InChannels,  \* channels of the player's format, 1 or 2
    InSample,    \* bytes of a sample: the player's ...
    OutSample,   \* ... and the engine's, 2
    Up, Down,    \* _resampleRatio, 44100 by the player's rate, reduced
    Ahead        \* frames of input that the converter's filter keeps

ASSUME FormatAssumption ==
    /\ InChannels \in {1, 2}
    /\ {InSample, OutSample, Up, Down} \subseteq Nat \ {0}
    /\ Ahead \in Nat

VARIABLES
    pending,  \* the converter's input left over, in frames of output by Down
    made,     \* samples generated since the last reset
    count,    \* those of the write in progress: outputSampleCount
    memory,   \* _outputBuffer
    turn,     \* s, the sample the duplicating loop is at
    stage     \* where the write is

reformatterVars == <<pending, made, count, memory, turn, stage>>

OutChannels == 2

InFrame == InChannels * InSample      \* _inputFrameSize

OutFrame == OutChannels * OutSample   \* _outputFrameSize

\* A quotient rounded up.
Ceiling(a, b) == (a + b - 1) \div b

\* A number of bytes times _reformatRatio, and divided by it, as size_t has them.
TimesRatio(bytes) == (bytes * Up * OutFrame) \div (Down * InFrame)

DividedByRatio(bytes) == (bytes * Down * InFrame) \div (Up * OutFrame)

\* canWrite(): the sink's room, in whole frames of input; here their number.
FramesFor(room) == DividedByRatio(room) \div InFrame

\* buffered(), whose ratio is the other way round.
BufferedOf(bytes) == TimesRatio(bytes)

ReformatterInit ==
    /\ pending = 0
    /\ made = 0
    /\ count = 0
    /\ memory = [i \in {} |-> 0]
    /\ turn = -1
    /\ stage = "idle"

\* What the converter has room for: the samples, rounded up to a multiple of
\* the bytes of a frame.
FramesAllowed(n) ==
    (Ceiling(Ceiling(n * InChannels * Up, Down), OutSample * InChannels) * OutSample * InChannels)
        \div InChannels

FramesDue(n) ==
    IF pending + Up * n > Up * Ahead THEN (pending + Up * n - Up * Ahead) \div Down ELSE 0

Generated(n) ==
    IF Up = Down THEN n
    ELSE IF FramesDue(n) <= FramesAllowed(n) THEN FramesDue(n) ELSE FramesAllowed(n)

\* How many samples every sample of the converter becomes.
Copies == OutChannels \div InChannels

Length == count * Copies   \* samples of the write's output

(***************************************************************************)
(* write(), up to the duplication: n frames of input, none to flush.       *)
(***************************************************************************)
Convert(n) ==
    /\ stage = "idle"
    /\ count' = Generated(n) * InChannels
    /\ memory' = [i \in 0 .. count' * Copies - 1 |-> IF i < count' THEN made + i + 1 ELSE 0]
    /\ made' = made + count'
    /\ pending' = IF Up = Down THEN 0 ELSE pending + Up * n - Down * Generated(n)
    /\ turn' = count' - 1
    /\ stage' = IF count' = 0 THEN "idle" ELSE IF InChannels = 1 THEN "duplicate" ELSE "pass"

\* Wrong variant: from front to back.
FromTheFront == count - 1 - turn

Turned == turn

\* ccc_mono_to_stereo().
Duplicate ==
    /\ stage = "duplicate"
    /\ memory' = [memory EXCEPT ![2 * Turned] = memory[Turned],
                                ![2 * Turned + 1] = memory[Turned]]
    /\ turn' = turn - 1
    /\ stage' = IF turn = 0 THEN "pass" ELSE "duplicate"
    /\ UNCHANGED <<pending, made, count>>

\* The sink takes the samples; what the buffer holds after it does not matter.
Passed ==
    /\ stage = "pass"
    /\ stage' = "idle"
    /\ count' = 0
    /\ memory' = [i \in {} |-> 0]
    /\ UNCHANGED <<pending, made, turn>>

\* reset() of the converter.
ReformatterResets ==
    /\ pending' = 0
    /\ made' = 0
    /\ count' = 0
    /\ memory' = [i \in {} |-> 0]
    /\ turn' = -1
    /\ stage' = "idle"
=============================================================================
