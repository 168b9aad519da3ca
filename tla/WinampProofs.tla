---------------------------- MODULE WinampProofs ----------------------------
(***************************************************************************)
(* For every format and every size of the buffer: a write that canWrite()  *)
(* allowed fits into the buffer, and what it passes on is its samples, both *)
(* channels of a mono format alike.                                        *)
(*                                                                         *)
(* The first needs that the buffer holds whole frames, so that rounding    *)
(* down in canWrite() makes up for the frame that the converter may owe    *)
(* from earlier writes; the second needs what the duplicating loop has done *)
(* and has not done yet.                                                   *)
(*                                                                         *)
(* The second half of the module weighs bytes: in the first track the time *)
(* that the player is shown never passes what it wrote.                    *)
(***************************************************************************)
EXTENDS WinampOutput, TLAPS

USE FormatAssumption, WinampAssumption

-----------------------------------------------------------------------------
(* Quotients. *)

\* What \div returns.
LEMMA Quotient ==
    ASSUME NEW a \in Nat, NEW b \in Nat \ {0}
    PROVE  a \div b \in Nat /\ b * (a \div b) <= a /\ a < b * (a \div b) + b
  BY SMT

\* A common factor of two sides goes.
LEMMA Cancel ==
    ASSUME NEW a \in Nat, NEW b \in Nat, NEW c \in Nat \ {0}, c * a <= c * b
    PROVE  a <= b
  BY SMT

\* Less than a divisor too much is nothing too much.
LEMMA RoundedDown ==
    ASSUME NEW g \in Nat, NEW k \in Nat, NEW d \in Nat \ {0}, d * g <= d - 1 + d * k
    PROVE  g <= k
  BY SMT

\* A quotient rounded up is at least the quotient.
LEMMA CeilingCovers ==
    ASSUME NEW a \in Nat, NEW b \in Nat \ {0}
    PROVE  Ceiling(a, b) \in Nat /\ a <= b * Ceiling(a, b)
  <1>1. a + b - 1 \in Nat
    OBVIOUS
  <1> QED
    BY <1>1, Quotient DEF Ceiling

-----------------------------------------------------------------------------
(* What the converter generates. *)

\* A room of whole frames, in whole frames of input.
LEMMA RoomForFrames ==
    ASSUME NEW r \in Nat, NEW n \in Nat, n <= FramesFor(r * OutFrame)
    PROVE  Up * n <= Down * r
  <1> DEFINE room == r * OutFrame
             top == room * Down * InFrame
             bottom == Up * OutFrame
  <1>1. InFrame \in Nat \ {0} /\ OutFrame \in Nat \ {0}
    BY DEF InFrame, OutFrame, OutChannels
  <1>2. room \in Nat /\ top \in Nat /\ bottom \in Nat \ {0}
    BY <1>1
  <1>3. top \div bottom \in Nat /\ bottom * (top \div bottom) <= top
    <2> HIDE DEF top, bottom
    <2> QED  BY <1>2, Quotient
  <1>4. n <= (top \div bottom) \div InFrame
    BY DEF FramesFor, DividedByRatio
  <1> DEFINE q == top \div bottom
  <1>5. InFrame * n <= q
    <2>1. q \in Nat
      BY <1>3
    <2>2. q \div InFrame \in Nat /\ InFrame * (q \div InFrame) <= q /\ n <= q \div InFrame
      <3> HIDE DEF q
      <3>1. q \div InFrame \in Nat /\ InFrame * (q \div InFrame) <= q
        BY <2>1, <1>1, Quotient
      <3>2. n <= q \div InFrame
        BY <1>4 DEF q
      <3> QED  BY <3>1, <3>2
    <2> HIDE DEF q
    <2> DEFINE w == q \div InFrame
    <2>3. w \in Nat /\ InFrame * w <= q /\ n <= w
      BY <2>2
    <2> HIDE DEF w
    <2>4. InFrame * n <= InFrame * w
      BY <1>1, <2>3
    <2> QED  BY <1>1, <2>1, <2>3, <2>4
  <1>6. bottom * (InFrame * n) <= top
    <2>1. q \in Nat /\ bottom * q <= top
      BY <1>3
    <2> HIDE DEF q, bottom, top
    <2>2. bottom * (InFrame * n) <= bottom * q
      BY <1>1, <1>2, <1>5, <2>1
    <2> QED  BY <1>1, <1>2, <2>1, <2>2
  <1>7. (OutFrame * InFrame) * (Up * n) <= (OutFrame * InFrame) * (Down * r)
    <2>1. bottom * (InFrame * n) = (OutFrame * InFrame) * (Up * n)
      BY <1>1
    <2>2. top = (OutFrame * InFrame) * (Down * r)
      BY <1>1
    <2> QED  BY <1>6, <2>1, <2>2
  <1>8. OutFrame * InFrame \in Nat \ {0} /\ Up * n \in Nat /\ Down * r \in Nat
    BY <1>1
  <1> QED
    BY <1>7, <1>8, Cancel

\* What the converter keeps is less than a frame more than its filter needs.
KeepsLittle == pending \in Nat /\ pending <= Down - 1 + Up * Ahead

\* The output that is due fits into what the converter is allowed.
LEMMA GeneratesWhatIsDue ==
    ASSUME KeepsLittle, NEW n \in Nat, Up # Down
    PROVE  /\ FramesDue(n) \in Nat
           /\ Generated(n) = FramesDue(n)
           /\ Down * FramesDue(n) <= Up * n + Down - 1
           /\ pending + Up * n - Down * FramesDue(n) \in 0 .. Down - 1 + Up * Ahead
  <1> DEFINE rest == pending + Up * n - Up * Ahead
             due == FramesDue(n)
             allowed == FramesAllowed(n)
  <1>1. Up * n \in Nat /\ Up * Ahead \in Nat /\ pending \in Nat
    BY DEF KeepsLittle
  <1>2. /\ due \in Nat
        /\ Down * due <= Up * n + Down - 1
        /\ pending + Up * n - Down * due \in 0 .. Down - 1 + Up * Ahead
    <2>1. CASE pending + Up * n > Up * Ahead
      <3>1. rest \in Nat /\ due = rest \div Down
        BY <1>1, <2>1 DEF FramesDue
      <3>2. due \in Nat /\ Down * due <= rest /\ rest < Down * due + Down
        <4> HIDE DEF rest, due
        <4> QED  BY <3>1, Quotient
      <3> DEFINE x == Up * n  y == Up * Ahead  z == Down * due
      <3>3. /\ x \in Nat /\ y \in Nat /\ z \in Nat
            /\ z <= pending + x - y /\ pending + x - y < z + Down
            /\ pending <= Down - 1 + y
        BY <1>1, <3>2 DEF KeepsLittle
      <3>4. z <= x + Down - 1 /\ pending + x - z \in 0 .. Down - 1 + y
        <4> HIDE DEF x, y, z
        <4> QED  BY <1>1, <3>3
      <3> QED  BY <3>2, <3>4
    <2>2. CASE ~ (pending + Up * n > Up * Ahead)
      <3>1. due = 0
        BY <2>2 DEF FramesDue
      <3> DEFINE x == Up * n  y == Up * Ahead
      <3>2. x \in Nat /\ y \in Nat /\ pending + x <= y
        BY <1>1, <2>2
      <3>3. pending + x \in 0 .. Down - 1 + y /\ 0 <= x + Down - 1
        <4>1. pending \in Nat
          BY <1>1
        <4> HIDE DEF x, y
        <4> QED  BY <3>2, <4>1
      <3>4. Down * due = 0 /\ pending + x - 0 = pending + x
        BY <1>1, <3>1, <3>2
      <3> QED  BY <3>1, <3>3, <3>4
    <2> QED  BY <2>1, <2>2
  <1>3. allowed \in Nat /\ Up * n <= Down * allowed
    <2> DEFINE samples == n * InChannels * Up
               s == Ceiling(samples, Down)
               unit == OutSample * InChannels
               u == Ceiling(s, unit)
    <2>1. samples \in Nat /\ unit \in Nat \ {0}
      OBVIOUS
    <2>2. s \in Nat /\ samples <= Down * s
      <3> HIDE DEF samples
      <3> QED  BY <2>1, CeilingCovers
    <2>3. u \in Nat /\ s <= unit * u
      <3> HIDE DEF s, unit
      <3> QED  BY <2>1, <2>2, CeilingCovers
    <2> DEFINE f == u * OutSample
    <2>4. f \in Nat /\ u * OutSample * InChannels = f * InChannels
      BY <2>3
    <2>5. allowed = (u * OutSample * InChannels) \div InChannels
      BY DEF FramesAllowed
    <2>6. allowed = f
      <3> HIDE DEF f
      <3>1. (f * InChannels) \div InChannels = f
        BY <2>4
      <3> QED  BY <2>4, <2>5, <3>1
    <2>7. s <= InChannels * f
      BY <2>3, <2>4
    <2>8. InChannels * (Up * n) <= InChannels * (Down * f)
      <3> HIDE DEF f, s
      <3>1. Down * s <= Down * (InChannels * f)
        BY <2>2, <2>4, <2>7
      <3>2. samples = InChannels * (Up * n)
        OBVIOUS
      <3>3. Down * (InChannels * f) = InChannels * (Down * f)
        BY <2>4
      <3>4. Down * s \in Nat /\ InChannels * (Up * n) \in Nat /\ InChannels * (Down * f) \in Nat
        BY <2>2, <2>4
      <3> HIDE DEF samples
      <3> QED  BY <2>2, <3>1, <3>2, <3>3, <3>4
    <2>9. Up * n <= Down * f
      <3> HIDE DEF f
      <3>1. Up * n \in Nat /\ Down * f \in Nat
        BY <2>4
      <3> QED  BY <2>8, <3>1, Cancel
    <2> QED  BY <2>4, <2>6, <2>9
  <1>4. due <= allowed
    <2>1. Down * due <= Down - 1 + Down * allowed
      <3> HIDE DEF due, allowed
      <3> DEFINE x == Up * n  y == Down * due  z == Down * allowed
      <3>1. x \in Nat /\ y \in Nat /\ z \in Nat /\ y <= x + Down - 1 /\ x <= z
        BY <1>1, <1>2, <1>3
      <3> HIDE DEF x, y, z
      <3>2. y <= Down - 1 + z
        BY <3>1
      <3> QED  BY <3>2 DEF y, z
    <2> HIDE DEF due, allowed
    <2> QED  BY <1>2, <1>3, <2>1, RoundedDown
  <1> QED
    BY <1>2, <1>4 DEF Generated

\* What a write generates of n frames fits into a room of r frames that n fit
\* into, and the converter still keeps little.
LEMMA GeneratedFits ==
    ASSUME KeepsLittle, NEW r \in Nat, NEW n \in Nat, n <= FramesFor(r * OutFrame)
    PROVE  /\ Generated(n) \in Nat
           /\ Generated(n) <= r
           /\ n = 0 => Generated(n) = 0
           /\ (IF Up = Down THEN 0 ELSE pending + Up * n - Down * Generated(n))
                  \in 0 .. Down - 1 + Up * Ahead
  <1>1. Up * n <= Down * r
    BY RoomForFrames
  <1>2. CASE Up = Down
    <2>1. n <= r
      BY <1>1, <1>2, Cancel
    <2>2. Generated(n) = n
      BY <1>2 DEF Generated
    <2>3. 0 \in 0 .. Down - 1 + Up * Ahead
      <3>1. Up * Ahead \in Nat
        OBVIOUS
      <3> QED  BY <3>1
    <2> QED  BY <1>2, <2>1, <2>2, <2>3
  <1>3. CASE Up # Down
    <2> DEFINE g == Generated(n)
    <2>1. /\ g \in Nat
          /\ Down * g <= Up * n + Down - 1
          /\ pending + Up * n - Down * g \in 0 .. Down - 1 + Up * Ahead
      BY <1>3, GeneratesWhatIsDue
    <2> HIDE DEF g
    <2>2. Down * g <= Down - 1 + Down * r
      <3> DEFINE x == Up * n  y == Down * g  z == Down * r
      <3>1. x \in Nat /\ y \in Nat /\ z \in Nat /\ y <= x + Down - 1 /\ x <= z
        BY <1>1, <2>1
      <3> HIDE DEF x, y, z
      <3>2. y <= Down - 1 + z
        BY <3>1
      <3> QED  BY <3>2 DEF y, z
    <2>3. g <= r
      BY <2>1, <2>2, RoundedDown
    <2>4. n = 0 => g = 0
      <3> SUFFICES ASSUME n = 0 PROVE g <= 0
        BY <2>1
      <3>1. Up * n = 0 /\ Down * 0 = 0
        BY SMT
      <3>2. Down * g <= Down - 1 + Down * 0
        BY <2>1, <3>1
      <3> QED  BY <2>1, <3>2, RoundedDown
    <2> QED  BY <1>3, <2>1, <2>3, <2>4 DEF g
  <1> QED  BY <1>2, <1>3

-----------------------------------------------------------------------------
(* The inductive invariant. *)

CallTyped == call \in [pc : {"idle", "room", "pump", "reformat", "flush"}, frames : Nat]

ReformatterTyped ==
    /\ KeepsLittle
    /\ made \in Nat /\ count \in Nat /\ turn \in Int
    /\ stage \in {"idle", "duplicate", "pass"}

\* The reformatter is at work while the player's call is in it.
CallInReformatter == stage = "idle" <=> call.pc # "reformat"

\* The buffer holds whole frames, and with those of the write no more than fit.
WholeFrames ==
    \E k, g \in Nat :
        /\ buffered = k * OutFrame
        /\ count = g * InChannels
        /\ k + g <= BufferFrames

\* The memory mem of a write of n samples, the last of m: what the loop has not
\* reached at its turn t is as it was, what is behind it is doubled ...
Doubled(mem, t, n, m) ==
    /\ t \in 0 .. n - 1
    /\ DOMAIN mem = 0 .. 2 * n - 1
    /\ \A i \in 0 .. t : mem[i] = m - n + i + 1
    /\ \A i \in t + 1 .. n - 1 :
           mem[2 * i] = m - n + i + 1 /\ mem[2 * i + 1] = m - n + i + 1

\* ... and at last all is what StereoIsFaithful says.
Faithful(mem, n, m) ==
    \A i \in 0 .. n * Copies - 1 : mem[i] = m - n + i \div Copies + 1

Duplicating ==
    stage = "duplicate" => InChannels = 1 /\ Doubled(memory, turn, count, made)

\* The parts of the invariant that are about the reformatter and the buffer.
Sound == ReformatterTyped /\ WholeFrames /\ Duplicating /\ StereoIsFaithful

WInv == CallTyped /\ CallInReformatter /\ Sound

-----------------------------------------------------------------------------
(* Steps of the parts. *)

LEMMA FaithfulPass ==
    /\ StereoIsFaithful <=> (stage = "pass" => Faithful(memory, count, made))
    /\ StereoIsFaithful' <=> (stage' = "pass" => Faithful(memory', count', made'))
  BY DEF StereoIsFaithful, Faithful, Length, Copies, OutChannels

LEMMA FramesAreBytes == OutFrame \in Nat \ {0} /\ InChannels \in Nat \ {0}
  BY DEF OutFrame, OutChannels

\* The output of a write of g frames.
LEMMA LengthInFrames ==
    ASSUME NEW g \in Nat, count = g * InChannels
    PROVE  Length * OutSample = g * OutFrame
  <1>1. CASE InChannels = 1
    BY <1>1 DEF Length, Copies, OutFrame, OutChannels
  <1>2. CASE InChannels = 2
    BY <1>2 DEF Length, Copies, OutFrame, OutChannels
  <1> QED  BY <1>1, <1>2

\* Nothing to write and nothing in the buffer is sound.
LEMMA EmptyIsSound ==
    ASSUME ReformatterResets, buffered' = 0
    PROVE  Sound' /\ stage' = "idle"
  <1>1. ReformatterTyped'
    <2>1. Up * Ahead \in Nat
      OBVIOUS
    <2> QED
      BY <2>1 DEF ReformatterResets, ReformatterTyped, KeepsLittle
  <1>2. WholeFrames'
    <2>1. buffered' = 0 * OutFrame /\ count' = 0 * InChannels /\ 0 + 0 <= BufferFrames
      BY FramesAreBytes DEF ReformatterResets
    <2> QED
      BY <2>1 DEF WholeFrames, OutFrame, OutChannels
  <1>3. Duplicating' /\ StereoIsFaithful' /\ stage' = "idle"
    BY DEF ReformatterResets, Duplicating, StereoIsFaithful
  <1> QED  BY <1>1, <1>2, <1>3 DEF Sound

\* A reset of the chain keeps what is sound so.
LEMMA ChainResetIsSound ==
    ASSUME Sound, stage = "idle", ChainResets
    PROVE  Sound' /\ stage' = "idle"
  <1>1. CASE chain
    BY <1>1, EmptyIsSound DEF ChainResets
  <1>2. CASE ~ chain
    BY <1>2 DEF ChainResets, reformatterVars, sink, Sound, ReformatterTyped, KeepsLittle,
                WholeFrames, Duplicating, Doubled, StereoIsFaithful, Length, Copies
  <1> QED  BY <1>1, <1>2

\* So does what leaves both alone.
LEMMA SameIsSound ==
    ASSUME Sound, UNCHANGED <<reformatterVars, buffered>>
    PROVE  Sound'
  BY DEF reformatterVars, Sound, ReformatterTyped, KeepsLittle,
         WholeFrames, Duplicating, Doubled, StereoIsFaithful, Length, Copies

\* And what takes whole frames out of the buffer.
LEMMA TakenIsSound ==
    ASSUME Sound, UNCHANGED reformatterVars, NEW p \in Nat,
           buffered >= p * OutFrame, buffered' = buffered - p * OutFrame
    PROVE  Sound'
  <1>1. ReformatterTyped' /\ Duplicating' /\ StereoIsFaithful'
    BY DEF reformatterVars, Sound, ReformatterTyped, KeepsLittle,
           Duplicating, Doubled, StereoIsFaithful, Length, Copies
  <1>2. PICK k, g \in Nat : buffered = k * OutFrame /\ count = g * InChannels /\ k + g <= BufferFrames
    BY DEF Sound, WholeFrames
  <1>3. p <= k
    <2>1. OutFrame * p <= OutFrame * k
      BY <1>2, FramesAreBytes
    <2> QED  BY <2>1, <1>2, FramesAreBytes, Cancel
  <1>4. k - p \in Nat /\ buffered' = (k - p) * OutFrame
    BY <1>2, <1>3, FramesAreBytes
  <1>5. WholeFrames'
    <2>1. (k - p) + g <= BufferFrames /\ count' = g * InChannels
      BY <1>2, <1>3, <1>4 DEF reformatterVars
    <2> QED  BY <1>2, <1>4, <2>1 DEF WholeFrames, OutFrame, OutChannels
  <1> QED  BY <1>1, <1>5 DEF Sound

\* And a write of as many frames as canWrite() told.
LEMMA ConversionIsSound ==
    ASSUME Sound, NEW n \in Nat, n <= FramesFor(Room), Convert(n), UNCHANGED buffered
    PROVE  Sound' /\ (n = 0 => stage' = "idle")
  <1>1. PICK k, g \in Nat : buffered = k * OutFrame /\ count = g * InChannels /\ k + g <= BufferFrames
    BY DEF Sound, WholeFrames
  <1> DEFINE r == BufferFrames - k
             f == Generated(n)
             c == f * InChannels
             kept == IF Up = Down THEN 0 ELSE pending + Up * n - Down * f
             filled == [i \in 0 .. c * Copies - 1 |-> IF i < c THEN made + i + 1 ELSE 0]
  <1>2. r \in Nat /\ Room = r * OutFrame
    BY <1>1, FramesAreBytes DEF Room, Capacity
  <1>3. KeepsLittle
    BY DEF Sound, ReformatterTyped
  <1>4. made \in Nat
    BY DEF Sound, ReformatterTyped
  <1>5. /\ f \in Nat
        /\ f <= r
        /\ n = 0 => f = 0
        /\ kept \in 0 .. Down - 1 + Up * Ahead
    <2>1. n <= FramesFor(r * OutFrame)
      BY <1>2
    <2> HIDE DEF r
    <2> QED  BY <1>2, <1>3, <2>1, GeneratedFits
  <1>6. /\ count' = c
        /\ made' = made + c
        /\ memory' = filled
        /\ pending' = kept
        /\ turn' = c - 1
        /\ stage' = IF c = 0 THEN "idle" ELSE IF InChannels = 1 THEN "duplicate" ELSE "pass"
    BY DEF Convert
  <1>7. c \in Nat /\ (f = 0 => c = 0)
    BY <1>5, FramesAreBytes
  <1> HIDE DEF f, r, c, kept, filled
  <1>8. ReformatterTyped'
    <2>1. kept \in Nat /\ kept <= Down - 1 + Up * Ahead
      <3>1. Up * Ahead \in Nat
        OBVIOUS
      <3> QED  BY <1>5, <3>1
    <2>2. KeepsLittle'
      BY <1>6, <2>1 DEF KeepsLittle
    <2>3. made + c \in Nat /\ c - 1 \in Int
      BY <1>4, <1>7
    <2>4. stage' \in {"idle", "duplicate", "pass"}
      BY <1>6, Zenon
    <2> QED
      BY <1>6, <1>7, <2>2, <2>3, <2>4 DEF ReformatterTyped
  <1>9. WholeFrames'
    <2>1. k + f <= BufferFrames
      BY <1>1, <1>2, <1>5 DEF r
    <2>2. buffered' = k * OutFrame /\ count' = f * InChannels
      BY <1>1, <1>6 DEF c
    <2> QED  BY <1>1, <1>5, <2>1, <2>2 DEF WholeFrames, OutFrame, OutChannels
  <1>10. Duplicating'
    <2> SUFFICES ASSUME stage' = "duplicate"
                 PROVE  InChannels = 1 /\ Doubled(filled, c - 1, c, made + c)
      BY <1>6 DEF Duplicating
    <2>1. InChannels = 1 /\ c # 0
      BY <1>6, Zenon
    <2>2. c * Copies = 2 * c
      BY <1>7, <2>1 DEF Copies, OutChannels
    <2>3. filled = [i \in 0 .. 2 * c - 1 |-> IF i < c THEN made + i + 1 ELSE 0]
      BY <2>2 DEF filled
    <2> QED
      BY <1>4, <1>7, <2>1, <2>3 DEF Doubled
  <1>11. StereoIsFaithful'
    <2> SUFFICES ASSUME stage' = "pass"
                 PROVE  Faithful(filled, c, made + c)
      BY <1>6, FaithfulPass
    <2>1. InChannels = 2
      <3>1. InChannels # 1
        BY <1>6, Zenon
      <3> QED  BY <3>1
    <2>2. Copies = 1
      BY <2>1 DEF Copies, OutChannels
    <2>3. c * 1 = c /\ made + c - c = made
      BY <1>4, <1>7
    <2>4. \A i \in 0 .. c - 1 : filled[i] = made + i + 1 /\ i \div 1 = i
      BY <1>7, <2>2, <2>3 DEF filled
    <2>5. \A i \in 0 .. c - 1 : filled[i] = made + i \div 1 + 1
      BY <2>4
    <2>6. PICK m \in Nat : m = made + c
      BY <1>4, <1>7
    <2>7. m - c = made
      BY <1>4, <1>7, <2>6
    <2>8. Faithful(filled, c, m)
      BY <2>2, <2>3, <2>5, <2>7 DEF Faithful
    <2> QED
      BY <2>6, <2>8
  <1> QED  BY <1>5, <1>6, <1>7, <1>8, <1>9, <1>10, <1>11 DEF Sound

\* And a turn of the loop.
LEMMA DuplicationIsSound ==
    ASSUME Sound, Duplicate, UNCHANGED buffered
    PROVE  Sound' /\ stage' # "idle"
  <1> DEFINE filled == [memory EXCEPT ![2 * turn] = memory[turn], ![2 * turn + 1] = memory[turn]]
  <1>1. /\ count \in Nat /\ made \in Nat
        /\ InChannels = 1 /\ Copies = 2
        /\ Doubled(memory, turn, count, made)
    BY DEF Sound, ReformatterTyped, Duplicating, Duplicate, Copies, OutChannels
  <1>2. /\ turn \in 0 .. count - 1
        /\ DOMAIN memory = 0 .. 2 * count - 1
        /\ \A i \in 0 .. turn : memory[i] = made - count + i + 1
        /\ \A i \in turn + 1 .. count - 1 :
               /\ memory[2 * i] = made - count + i + 1
               /\ memory[2 * i + 1] = made - count + i + 1
    BY <1>1 DEF Doubled
  <1>3. /\ UNCHANGED <<count, made, pending>>
        /\ memory' = filled
        /\ turn' = turn - 1
        /\ stage' = IF turn = 0 THEN "pass" ELSE "duplicate"
    BY DEF Duplicate, Turned
  <1>4. /\ DOMAIN filled = 0 .. 2 * count - 1
        /\ \A j \in 0 .. 2 * count - 1 :
               filled[j] = IF j = 2 * turn \/ j = 2 * turn + 1 THEN memory[turn] ELSE memory[j]
    BY <1>2
  <1> HIDE DEF filled
  <1>5. ReformatterTyped'
    <2>1. turn - 1 \in Int
      BY <1>2
    <2> QED
      BY <1>1, <1>3, <2>1 DEF Sound, ReformatterTyped, KeepsLittle
  <1>6. WholeFrames'
    BY <1>3 DEF Sound, WholeFrames, OutFrame, OutChannels
  <1>7. \A i \in 0 .. turn - 1 : filled[i] = made - count + i + 1
    <2> SUFFICES ASSUME NEW i \in 0 .. turn - 1
                 PROVE  filled[i] = made - count + i + 1
      OBVIOUS
    <2>1. count \in Nat /\ turn \in 0 .. count - 1
      BY <1>1, <1>2
    <2>2. i \in 0 .. 2 * count - 1 /\ i # 2 * turn /\ i # 2 * turn + 1 /\ i \in 0 .. turn
      BY <2>1
    <2>3. filled[i] = memory[i]
      BY <1>4, <2>2
    <2> QED  BY <1>2, <2>2, <2>3
  <1>8. \A i \in turn .. count - 1 :
            filled[2 * i] = made - count + i + 1 /\ filled[2 * i + 1] = made - count + i + 1
    <2> SUFFICES ASSUME NEW i \in turn .. count - 1
                 PROVE  /\ filled[2 * i] = made - count + i + 1
                        /\ filled[2 * i + 1] = made - count + i + 1
      OBVIOUS
    <2>1. 2 * i \in 0 .. 2 * count - 1 /\ 2 * i + 1 \in 0 .. 2 * count - 1
      BY <1>1, <1>2
    <2>2. CASE i = turn
      <3>1. memory[turn] = made - count + turn + 1
        BY <1>2
      <3> QED  BY <1>4, <2>1, <2>2, <3>1
    <2>3. CASE i # turn
      <3>1. i \in turn + 1 .. count - 1 /\ 2 * i > 2 * turn + 1
        BY <1>1, <1>2, <2>3
      <3>2. filled[2 * i] = memory[2 * i] /\ filled[2 * i + 1] = memory[2 * i + 1]
        BY <1>2, <1>4, <2>1, <3>1
      <3> QED  BY <1>2, <3>1, <3>2
    <2> QED  BY <2>2, <2>3
  <1>9. Duplicating'
    <2> SUFFICES ASSUME stage' = "duplicate"
                 PROVE  Doubled(filled, turn - 1, count, made)
      BY <1>1, <1>3 DEF Duplicating
    <2>1. turn # 0
      BY <1>3
    <2> QED
      BY <1>1, <1>2, <1>4, <1>7, <1>8, <2>1 DEF Doubled
  <1>10. StereoIsFaithful'
    <2> SUFFICES ASSUME stage' = "pass"
                 PROVE  Faithful(filled, count, made)
      BY <1>3, FaithfulPass
    <2> SUFFICES ASSUME NEW i \in 0 .. 2 * count - 1
                 PROVE  filled[i] = made - count + i \div 2 + 1
      <3>1. count * Copies = 2 * count
        BY <1>1
      <3> QED  BY <1>1, <3>1 DEF Faithful
    <2>1. turn = 0
      BY <1>3
    <2>2. PICK h \in 0 .. count - 1 : (i = 2 * h \/ i = 2 * h + 1) /\ i \div 2 = h
      <3>1. i \div 2 \in 0 .. count - 1 /\ (i = 2 * (i \div 2) \/ i = 2 * (i \div 2) + 1)
        BY <1>1
      <3> QED  BY <3>1
    <2> QED  BY <1>8, <2>1, <2>2
  <1> QED  BY <1>3, <1>5, <1>6, <1>9, <1>10 DEF Sound

\* And the handover to the buffer.
LEMMA PassIsSound ==
    ASSUME Sound, Passed, buffered' = buffered + Length * OutSample
    PROVE  Sound' /\ stage' = "idle"
  <1>1. PICK k, g \in Nat : buffered = k * OutFrame /\ count = g * InChannels /\ k + g <= BufferFrames
    BY DEF Sound, WholeFrames
  <1>2. Length * OutSample = g * OutFrame
    BY <1>1, LengthInFrames
  <1>3. buffered' = (k + g) * OutFrame /\ count' = 0 * InChannels /\ k + g + 0 <= BufferFrames
    BY <1>1, <1>2, FramesAreBytes DEF Passed
  <1>4. WholeFrames'
    <2>1. k + g \in Nat
      BY <1>1
    <2> QED  BY <1>3, <2>1 DEF WholeFrames, OutFrame, OutChannels
  <1>5. ReformatterTyped' /\ Duplicating' /\ StereoIsFaithful' /\ stage' = "idle"
    BY DEF Passed, Sound, ReformatterTyped, KeepsLittle, Duplicating, StereoIsFaithful
  <1> QED  BY <1>4, <1>5 DEF Sound

-----------------------------------------------------------------------------
(* The theorems. *)

LEMMA WInvInit == Init => WInv
  <1> SUFFICES ASSUME Init PROVE WInv
    OBVIOUS
  <1>1. CallTyped /\ CallInReformatter
    BY DEF Init, ReformatterInit, NoCall, CallTyped, CallInReformatter
  <1>2. ReformatterTyped
    <2>1. Up * Ahead \in Nat
      OBVIOUS
    <2> QED
      BY <2>1 DEF Init, ReformatterInit, ReformatterTyped, KeepsLittle
  <1>3. WholeFrames
    <2>1. 0 * OutFrame = 0 /\ 0 * InChannels = 0 /\ 0 + 0 <= BufferFrames
      BY FramesAreBytes
    <2> QED
      BY <2>1 DEF Init, ReformatterInit, WholeFrames
  <1>4. Duplicating /\ StereoIsFaithful
    BY DEF Init, ReformatterInit, Duplicating, StereoIsFaithful
  <1> QED  BY <1>1, <1>2, <1>3, <1>4 DEF WInv, Sound

LEMMA WInvNext == WInv /\ [Next]_vars => WInv'
  <1> SUFFICES ASSUME WInv, [Next]_vars
               PROVE  WInv'
    OBVIOUS
  <1> USE DEF WInv, CallTyped, CallInReformatter, CallIs, CallGoes, NoCall
  <1>1. ASSUME NEW n \in 0 .. MaxBytes, WriteBegins(n)
        PROVE  WInv'
    <2>1. stage = "idle"
      BY <1>1 DEF WriteBegins
    <2>2. Sound' /\ stage' = "idle"
      <3>1. CASE resetToZero # "no"
        BY <1>1, <2>1, <3>1, ChainResetIsSound DEF WriteBegins, ResetsIfDue, ResetsNow
      <3>2. CASE resetToZero = "no"
        BY <1>1, <2>1, <3>2, SameIsSound DEF WriteBegins, ResetsIfDue, sink, reformatterVars
      <3> QED  BY <3>1, <3>2
    <2>3. call' \in [pc : {"idle", "room"}, frames : Nat] /\ call'.pc # "reformat"
      BY <1>1 DEF WriteBegins
    <2> QED  BY <2>2, <2>3
  <1>2. CASE PassesPacket
    <2>1. PacketFrames \in Nat /\ PacketSize = PacketFrames * OutFrame
      BY DEF PacketSize
    <2>2. Sound'
      BY <1>2, <2>1, TakenIsSound DEF PassesPacket, HasPacket
    <2> QED  BY <1>2, <2>2 DEF PassesPacket, reformatterVars
  <1>3. CASE WriteConverts
    <2>1. CASE call.frames <= FramesFor(Room)
      <3>1. Convert(call.frames) /\ UNCHANGED buffered
        BY <1>3, <2>1 DEF WriteConverts, sink
      <3>2. Sound' /\ (call.frames = 0 => stage' = "idle")
        BY <2>1, <3>1, ConversionIsSound
      <3>3. call' = [call EXCEPT !.pc = IF call.frames = 0 THEN "flush"
                                        ELSE IF stage' = "idle" THEN "pump" ELSE "reformat"]
        BY <1>3, <2>1 DEF WriteConverts
      <3>4. CallTyped'
        BY <3>3
      <3>5. CallInReformatter'
        BY <3>2, <3>3
      <3> QED  BY <3>2, <3>4, <3>5
    <2>2. CASE ~ (call.frames <= FramesFor(Room))
      <3>1. Sound'
        BY <1>3, <2>2, SameIsSound DEF WriteConverts, sink
      <3> QED  BY <1>3, <2>2, <3>1 DEF WriteConverts, reformatterVars
    <2> QED  BY <2>1, <2>2
  <1>4. CASE WriteDuplicates
    <2>1. Sound' /\ stage' # "idle"
      BY <1>4, DuplicationIsSound DEF WriteDuplicates, sink
    <2> QED  BY <1>4, <2>1 DEF WriteDuplicates
  <1>5. CASE WritePasses
    <2>1. Sound' /\ stage' = "idle"
      BY <1>5, PassIsSound DEF WritePasses
    <2> QED  BY <1>5, <2>1 DEF WritePasses
  <1>6. CASE WriteCounts
    <2>1. Sound'
      BY <1>6, SameIsSound DEF WriteCounts, sink
    <2> QED  BY <1>6, <2>1 DEF WriteCounts, reformatterVars
  <1>7. CASE Flushes
    <2>1. Sound'
      <3>1. CASE UNCHANGED sink
        BY <1>7, <3>1, SameIsSound DEF Flushes, sink
      <3>2. PICK k \in Nat : buffered = k * OutFrame
        BY DEF Sound, WholeFrames
      <3>3. CASE buffered < PacketSize /\ buffered' = buffered - buffered
        BY <1>7, <3>2, <3>3, FramesAreBytes, TakenIsSound DEF Flushes
      <3>4. CASE ~ (buffered < PacketSize) /\ buffered' = buffered - PacketSize
        <4>1. PacketFrames \in Nat /\ PacketSize = PacketFrames * OutFrame /\ buffered >= PacketSize
          BY <3>2, <3>4, FramesAreBytes DEF PacketSize
        <4> QED  BY <1>7, <3>4, <4>1, TakenIsSound DEF Flushes
      <3> QED  BY <1>7, <3>1, <3>3, <3>4 DEF Flushes
    <2>2. UNCHANGED stage /\ (UNCHANGED call \/ call' = NoCall)
      BY <1>7 DEF Flushes, reformatterVars
    <2> QED  BY <1>7, <2>1, <2>2 DEF Flushes
  <1>8. CASE AsksIfPlaying
    <2>1. Sound'
      BY <1>8, SameIsSound DEF AsksIfPlaying, sink
    <2>2. call' \in [pc : {"idle", "flush"}, frames : Nat]
      BY <1>8 DEF AsksIfPlaying
    <2> QED  BY <1>8, <2>1, <2>2 DEF AsksIfPlaying, reformatterVars
  <1>9. ASSUME NEW offset \in {0, 1}, Resets(offset)
        PROVE  WInv'
    <2>1. stage = "idle" /\ UNCHANGED call
      BY <1>9 DEF Resets
    <2>2. Sound' /\ stage' = "idle"
      <3>1. CASE ResetsNow
        BY <2>1, <3>1, ChainResetIsSound DEF ResetsNow
      <3>2. CASE UNCHANGED <<reformatterVars, sink>>
        BY <2>1, <3>2, SameIsSound DEF sink, reformatterVars
      <3> QED  BY <1>9, <3>1, <3>2 DEF Resets
    <2> QED  BY <2>1, <2>2
  <1>10. ASSUME NEW state \in BOOLEAN, SetsPaused(state)
         PROVE  WInv'
    <2>1. stage = "idle" /\ UNCHANGED call
      BY <1>10 DEF SetsPaused
    <2>2. Sound' /\ stage' = "idle"
      <3>1. CASE ChainResets
        BY <2>1, <3>1, ChainResetIsSound
      <3>2. CASE UNCHANGED <<reformatterVars, sink>>
        BY <2>1, <3>2, SameIsSound DEF sink, reformatterVars
      <3> QED  BY <1>10, <3>1, <3>2 DEF SetsPaused, ResetsNow
    <2> QED  BY <2>1, <2>2
  <1>11. CASE ClockTicks
    <2>1. Sound'
      BY <1>11, SameIsSound DEF ClockTicks, sink
    <2> QED  BY <1>11, <2>1 DEF ClockTicks, reformatterVars
  <1>12. CASE Closes
    <2>1. Sound' /\ stage' = "idle"
      BY <1>12, EmptyIsSound DEF Closes, ChainCloses
    <2> QED  BY <1>12, <2>1 DEF Closes
  <1>13. CASE Opens
    <2>1. Sound' /\ stage' = "idle"
      BY <1>13, EmptyIsSound DEF Opens, ChainCloses
    <2> QED  BY <1>13, <2>1 DEF Opens
  <1>14. CASE SenderSends
    <2>1. Sound'
      BY <1>14, SameIsSound DEF SenderSends
    <2> QED  BY <1>14, <2>1 DEF SenderSends, reformatterVars
  <1>15. CASE UNCHANGED vars
    <2>1. Sound'
      BY <1>15, SameIsSound DEF vars, sink
    <2> QED  BY <1>15, <2>1 DEF vars, reformatterVars
  <1> QED
    BY <1>1, <1>2, <1>3, <1>4, <1>5, <1>6, <1>7, <1>8, <1>9, <1>10, <1>11, <1>12, <1>13,
       <1>14, <1>15 DEF Next

\* The reformatter and the buffer agree on whole frames, and the loop on what it
\* has done, in every state of every run (OutputReformatter.cpp:25-38, 139-293).
THEOREM WInvHolds == Spec => []WInv
  BY WInvInit, WInvNext, PTL DEF Spec

\* A write that canWrite() allowed never overflows the buffer, for every format
\* and every size of the buffer (OutputReformatter.cpp:139-148).
THEOREM RoomAlwaysSuffices == Spec => []RoomSuffices
  <1>1. WInv => RoomSuffices
    <2> SUFFICES ASSUME WInv, CallIs("reformat")
                 PROVE  Length * OutSample <= Room
      BY DEF RoomSuffices
    <2>1. PICK k, g \in Nat : buffered = k * OutFrame /\ count = g * InChannels /\ k + g <= BufferFrames
      BY DEF WInv, Sound, WholeFrames
    <2>2. Length * OutSample = g * OutFrame
      BY <2>1, LengthInFrames
    <2> DEFINE r == BufferFrames - k
    <2>3. r \in Nat /\ Room = r * OutFrame /\ g <= r
      BY <2>1, FramesAreBytes DEF Room, Capacity
    <2>4. g * OutFrame <= r * OutFrame
      <3> HIDE DEF r
      <3> QED  BY <2>1, <2>3, FramesAreBytes
    <2> QED  BY <2>2, <2>3, <2>4
  <1> QED  BY <1>1, WInvHolds, PTL

\* The duplication in place gives both channels the samples in order, for every
\* length of a write (OutputReformatter.cpp:25-38).
THEOREM StereoIsAlwaysFaithful == Spec => []StereoIsFaithful
  <1>1. WInv => StereoIsFaithful
    BY DEF WInv, Sound
  <1> QED  BY <1>1, WInvHolds, PTL

-----------------------------------------------------------------------------
(***************************************************************************)
(* What was played was written.                                            *)
(*                                                                         *)
(* A byte of input weighs InScale, a byte of output OutScale, a unit of    *)
(* what the converter keeps KeptScale: then a conversion keeps the weight, *)
(* and the division that turns sent bytes into played ones loses some.     *)
(* The queue is weighed without a sum: level[i] is what was sent, and what *)
(* will have been when i packets of the queue have left.                   *)
(***************************************************************************)
InScale == Up * OutFrame

OutScale == Down * InFrame

KeptScale == InFrame * OutFrame

\* The input that a write in progress has converted and not counted yet.
Uncounted == IF call.pc \in {"reformat", "pump"} THEN call.frames * InFrame ELSE 0

Levels(q, level) ==
    /\ level \in [0 .. Len(q) -> Nat]
    /\ \A i \in 1 .. Len(q) : level[i] = level[i - 1] + q[i]
    /\ \A i, j \in 0 .. Len(q) : i <= j => level[i] <= level[j]

Weighs(level) ==
    /\ Levels(queue, level)
    /\ InScale * outputProgress <= OutScale * level[0]
    /\ OutScale * (level[Len(queue)] + buffered + Length * OutSample) + KeptScale * pending
           <= InScale * (bufferProgress + Uncounted)

ProgressTyped ==
    /\ queue \in Seq(Nat)
    /\ outputProgress \in Nat /\ bufferProgress \in Nat
    /\ opens \in Nat

\* Before the first track there is no chain, no write and nothing in the engine.
NothingBefore == opens = 0 => ~chain /\ queue = <<>> /\ CallIs("idle")

PInv == ProgressTyped /\ NothingBefore /\ (chain /\ opens <= 1 => \E level : Weighs(level))

LEMMA Scales ==
    /\ InScale \in Nat \ {0} /\ OutScale \in Nat \ {0} /\ KeptScale \in Nat \ {0}
    /\ InFrame \in Nat \ {0}
<1>1. InFrame \in Nat \ {0} /\ OutFrame \in Nat \ {0}
  BY FormatAssumption DEF InFrame, OutFrame, OutChannels
<1>2. Up \in Nat \ {0} /\ Down \in Nat \ {0}
  BY FormatAssumption
<1>3. \A a, b \in Nat \ {0} : a * b \in Nat \ {0}
  BY SMT
<1>4. QED
  BY <1>1, <1>2, <1>3 DEF InScale, OutScale, KeptScale

LEMMA Product ==
    ASSUME NEW a \in Nat, NEW b \in Nat
    PROVE  a * b \in Nat
  BY SMT

LEMMA TimesMore ==
    ASSUME NEW a \in Nat, NEW b \in Nat, NEW c \in Nat, a <= b
    PROVE  c * a <= c * b
  BY SMT

LEMMA NoLevels ==
    ASSUME NEW n \in Nat
    PROVE  \E level : Levels(<<>>, level) /\ level[0] = n
<1> DEFINE level == [i \in 0 .. 0 |-> n]
<1>1. Levels(<<>>, level) /\ level[0] = n
  BY DEF Levels
<1>2. QED
  BY <1>1

LEMMA AppendLevel ==
    ASSUME NEW q \in Seq(Nat), NEW level, Levels(q, level), NEW size \in Nat
    PROVE  \E next : /\ Levels(Append(q, size), next)
                     /\ next[0] = level[0]
                     /\ next[Len(q) + 1] = level[Len(q)] + size
<1>0. PICK n \in Nat : n = Len(q)
  OBVIOUS
<1> DEFINE next == [i \in 0 .. n + 1 |-> IF i <= n THEN level[i] ELSE level[n] + size]
<1>1. level \in [0 .. n -> Nat] /\ n \in 0 .. n
  BY <1>0 DEF Levels
<1>2. Append(q, size) \in Seq(Nat) /\ Len(Append(q, size)) = n + 1
      /\ \A i \in 1 .. n : Append(q, size)[i] = q[i]
      /\ Append(q, size)[n + 1] = size
  BY <1>0
<1>3. /\ next \in [0 .. n + 1 -> Nat]
      /\ \A i \in 0 .. n : next[i] = level[i] /\ level[i] \in Nat
      /\ next[n + 1] = level[n] + size
  <2>1. level[n] + size \in Nat
    BY <1>1
  <2>2. QED
    BY <1>1, <2>1
<1> HIDE DEF next
<1>4. \A i \in 1 .. n + 1 : next[i] = next[i - 1] + Append(q, size)[i]
  <2> SUFFICES ASSUME NEW i \in 1 .. n + 1
               PROVE  next[i] = next[i - 1] + Append(q, size)[i]
    OBVIOUS
  <2>1. CASE i = n + 1
    BY <1>1, <1>2, <1>3, <2>1
  <2>2. CASE i # n + 1
    <3>1. i \in 1 .. n /\ i - 1 \in 0 .. n /\ i \in 0 .. n
      BY <2>2
    <3>2. level[i] = level[i - 1] + q[i]
      BY <1>0, <3>1 DEF Levels
    <3>3. QED
      BY <1>2, <1>3, <3>1, <3>2
  <2>3. QED
    BY <2>1, <2>2
<1>5. \A i, j \in 0 .. n + 1 : i <= j => next[i] <= next[j]
  <2> SUFFICES ASSUME NEW i \in 0 .. n + 1, NEW j \in 0 .. n + 1, i <= j
               PROVE  next[i] <= next[j]
    OBVIOUS
  <2>1. CASE j # n + 1
    <3>1. i \in 0 .. n /\ j \in 0 .. n
      BY <2>1
    <3>2. level[i] <= level[j]
      BY <1>0, <3>1 DEF Levels
    <3>3. QED
      BY <1>3, <3>1, <3>2
  <2>2. CASE i # n + 1 /\ j = n + 1
    <3>1. i \in 0 .. n /\ i <= n
      BY <2>2
    <3>2. level[i] <= level[n]
      BY <1>0, <1>1, <3>1 DEF Levels
    <3>3. level[i] \in Nat /\ level[n] \in Nat
      BY <1>1, <1>3, <3>1
    <3>4. level[i] <= level[n] + size
      BY <3>2, <3>3
    <3>5. next[i] = level[i] /\ next[j] = level[n] + size
      BY <1>3, <2>2, <3>1
    <3>6. QED
      BY <3>4, <3>5
  <2>3. CASE i = n + 1
    BY <1>1, <1>3, <2>3
  <2>4. QED
    BY <2>1, <2>2, <2>3
<1>6. Levels(Append(q, size), next)
  BY <1>2, <1>3, <1>4, <1>5 DEF Levels
<1>7. next[0] = level[0] /\ next[n + 1] = level[n] + size
  BY <1>3
<1>8. QED
  BY <1>0, <1>6, <1>7

LEMMA TailLevel ==
    ASSUME NEW q \in Seq(Nat), q # <<>>, NEW level, Levels(q, level)
    PROVE  \E next : /\ Levels(Tail(q), next)
                     /\ next[0] = level[0] + Head(q)
                     /\ next[Len(Tail(q))] = level[Len(q)]
<1> DEFINE n == Len(q) - 1
           next == [i \in 0 .. n |-> level[i + 1]]
<1>1. n \in Nat /\ Len(q) = n + 1 /\ level \in [0 .. n + 1 -> Nat]
  BY DEF Levels
<1>2. Len(Tail(q)) = n /\ \A i \in 1 .. n : Tail(q)[i] = q[i + 1]
  OBVIOUS
<1>3. next \in [0 .. n -> Nat]
  BY <1>1
<1>4. \A i \in 1 .. n : next[i] = next[i - 1] + Tail(q)[i]
  BY <1>1, <1>2 DEF Levels
<1>5. \A i, j \in 0 .. n : i <= j => next[i] <= next[j]
  BY <1>1 DEF Levels
<1>6. Levels(Tail(q), next)
  BY <1>2, <1>3, <1>4, <1>5 DEF Levels
<1>7. next[0] = level[0] + Head(q)
  BY <1>1 DEF Levels
<1>8. next[n] = level[n + 1]
  BY <1>1
<1>9. QED
  BY <1>1, <1>2, <1>6, <1>7, <1>8

\* Nothing is played that did not leave, and what left was not more than written.
LEMMA WeightImpliesPlayed == WInv /\ PInv => (opens <= 1 => PlayedWasWritten)
<1> SUFFICES ASSUME WInv, PInv, opens <= 1, chain, CallIs("idle")
             PROVE  outputProgress <= bufferProgress
  BY DEF PlayedWasWritten
<1>1. PICK level : Weighs(level)
  BY DEF PInv
<1>2. Uncounted = 0
  BY DEF Uncounted, CallIs
<1>3. PICK b \in Nat, w \in Nat, k \in Nat : buffered = b /\ Length * OutSample = w /\ pending = k
  <2>1. PICK k, g \in Nat : buffered = k * OutFrame /\ count = g * InChannels
    BY DEF WInv, Sound, WholeFrames
  <2>2. Length * OutSample = g * OutFrame
    BY <2>1, LengthInFrames
  <2>3. k * OutFrame \in Nat /\ g * OutFrame \in Nat
    BY <2>1, FramesAreBytes
  <2>4. pending \in Nat
    BY DEF WInv, Sound, ReformatterTyped, KeepsLittle
  <2>5. QED
    BY <2>1, <2>2, <2>3, <2>4
<1>4. PICK x \in Nat, y \in Nat : x = level[0] /\ y = level[Len(queue)] /\ x <= y
  <2>1. PICK n \in Nat : n = Len(queue)
    BY DEF PInv, ProgressTyped
  <2>2. level \in [0 .. n -> Nat] /\ 0 \in 0 .. n /\ n \in 0 .. n
    BY <1>1, <2>1 DEF Weighs, Levels
  <2>3. level[0] <= level[n]
    BY <1>1, <2>1, <2>2 DEF Weighs, Levels
  <2>4. QED
    BY <2>1, <2>2, <2>3
<1>5. OutScale * x <= OutScale * (y + b + w)
  <2>1. y + b + w \in Nat /\ x <= y + b + w
    <3>1. x \in Nat /\ y \in Nat /\ x <= y
      BY <1>4
    <3>2. b \in Nat /\ w \in Nat
      BY <1>3
    <3> QED
      BY ONLY <3>1, <3>2
  <2>2. QED
    BY <1>4, <2>1, Scales, TimesMore
<1>6. OutScale * (y + b + w) + KeptScale * k <= InScale * bufferProgress
  BY <1>1, <1>2, <1>3, <1>4 DEF Weighs, PInv, ProgressTyped
<1>7. InScale * outputProgress <= OutScale * x
  BY <1>1, <1>4 DEF Weighs
<1>8. InScale * outputProgress <= InScale * bufferProgress
  <2> DEFINE o == InScale * outputProgress
             s == OutScale * x
             t == OutScale * (y + b + w)
             u == KeptScale * k
             v == InScale * bufferProgress
  <2>1. o \in Nat /\ s \in Nat /\ t \in Nat /\ u \in Nat /\ v \in Nat
    BY Scales, Product DEF PInv, ProgressTyped
  <2>2. o <= s /\ s <= t /\ t + u <= v
    BY <1>5, <1>6, <1>7
  <2> HIDE DEF o, s, t, u, v
  <2>3. o <= v
    BY <2>1, <2>2
  <2> QED
    BY <2>3 DEF o, v
<1>9. QED
  BY <1>8, Scales, Cancel DEF PInv, ProgressTyped

LEMMA LevelEnds ==
    ASSUME NEW q \in Seq(Nat), NEW level, Levels(q, level)
    PROVE  level[0] \in Nat /\ level[Len(q)] \in Nat /\ level[0] <= level[Len(q)]
<1>1. PICK n \in Nat : n = Len(q)
  OBVIOUS
<1>2. level \in [0 .. n -> Nat] /\ 0 \in 0 .. n /\ n \in 0 .. n
  BY <1>1 DEF Levels
<1>3. level[0] <= level[n]
  BY <1>1, <1>2 DEF Levels
<1>4. QED
  BY <1>1, <1>2, <1>3

LEMMA WeightTypes ==
    ASSUME WInv
    PROVE  /\ buffered \in Nat /\ Length * OutSample \in Nat /\ pending \in Nat
           /\ call.frames \in Nat /\ Uncounted \in Nat
<1>1. PICK k, g \in Nat : buffered = k * OutFrame /\ count = g * InChannels
  BY DEF WInv, Sound, WholeFrames
<1>2. Length * OutSample = g * OutFrame
  BY <1>1, LengthInFrames
<1>3. k * OutFrame \in Nat /\ g * OutFrame \in Nat
  BY <1>1, FramesAreBytes
<1>4. pending \in Nat
  BY DEF WInv, Sound, ReformatterTyped, KeepsLittle
<1>5. call.frames \in Nat
  BY DEF WInv, CallTyped
<1>6. call.frames * InFrame \in Nat
  BY <1>5, Scales, Product
<1>7. QED
  BY <1>1, <1>2, <1>3, <1>4, <1>5, <1>6 DEF Uncounted

\* An output of no samples has no bytes.
LEMMA NoLength ==
    ASSUME count' = 0
    PROVE  (Length * OutSample)' = 0
<1>1. Copies \in Nat /\ OutSample \in Nat
  <2>1. CASE InChannels = 1
    BY <2>1, FormatAssumption DEF Copies, OutChannels
  <2>2. CASE InChannels = 2
    BY <2>2, FormatAssumption DEF Copies, OutChannels
  <2>3. QED
    BY <2>1, <2>2, FormatAssumption
<1>2. Length' = count' * Copies
  BY DEF Length, Copies, OutChannels
<1>3. QED
  BY <1>1, <1>2

\* A step that leaves all of it alone.
LEMMA SameWeight ==
    ASSUME NEW level, Weighs(level),
           UNCHANGED <<queue, outputProgress, buffered, count, pending, bufferProgress>>,
           Uncounted' = Uncounted
    PROVE  Weighs(level)'
  BY DEF Weighs, Length, Copies, InScale, OutScale, KeptScale, InFrame, OutFrame

\* A reset of the chain drops what has not left.
LEMMA DroppedWeight ==
    ASSUME WInv, PInv, NEW level, Weighs(level), queue' = <<>>, buffered' = 0, count' = 0,
           pending' = 0, UNCHANGED <<outputProgress, bufferProgress>>, Uncounted' = Uncounted
    PROVE  \E next : Weighs(next)'
<1>1. PICK x \in Nat, y \in Nat : x = level[0] /\ y = level[Len(queue)] /\ x <= y
  BY LevelEnds DEF Weighs, PInv, ProgressTyped
<1>2. PICK next : Levels(<<>>, next) /\ next[0] = x
  BY NoLevels
<1>3. PICK a \in Nat, k \in Nat, v \in Nat :
        a = buffered + Length * OutSample /\ k = pending /\ v = bufferProgress + Uncounted
  <2>1. PICK w \in Nat, b \in Nat, p \in Nat, u \in Nat, k \in Nat :
            w = Length * OutSample /\ b = buffered /\ p = bufferProgress /\ u = Uncounted /\ k = pending
    BY WeightTypes, Zenon DEF PInv, ProgressTyped
  <2>2. b + w \in Nat /\ p + u \in Nat
    BY SMT
  <2>3. QED
    BY <2>1, <2>2, Zenon
<1>4. OutScale * (y + a) + KeptScale * k <= InScale * v
  <2>1. y + a = level[Len(queue)] + buffered + Length * OutSample
    <3>1. PICK w \in Nat, b \in Nat : w = Length * OutSample /\ b = buffered
      BY WeightTypes, Zenon
    <3>2. a = b + w
      BY <1>3, <3>1, Zenon
    <3>3. y + (b + w) = y + b + w
      BY SMT
    <3>4. QED
      BY <1>1, <3>1, <3>2, <3>3, Zenon
  <2>2. QED
    BY <1>3, <2>1, Zenon DEF Weighs
<1>5. OutScale * (x + 0) + KeptScale * 0 <= OutScale * (y + a) + KeptScale * k
  <2>1. x \in Nat /\ y + a \in Nat /\ x <= y + a
    <3>1. x <= y
      BY <1>1
    <3>2. x <= y + a
      BY <3>1, SMT
    <3>3. QED
      BY <3>2, SMT
  <2>2. OutScale * x <= OutScale * (y + a)
    BY <2>1, Scales, TimesMore
  <2>3. KeptScale * k \in Nat /\ OutScale * (y + a) \in Nat /\ OutScale * x \in Nat
        /\ KeptScale * 0 = 0 /\ x + 0 = x
    BY <2>1, Scales, Product
  <2>4. QED
    BY <2>2, <2>3
<1>6. OutScale * (x + 0) + KeptScale * 0 <= InScale * v
  <2> DEFINE l == OutScale * (x + 0) + KeptScale * 0
             m == OutScale * (y + a) + KeptScale * k
             n == InScale * v
  <2>1. l \in Nat /\ m \in Nat /\ n \in Nat
    BY Scales, Product
  <2>2. l <= m /\ m <= n
    BY <1>4, <1>5
  <2> HIDE DEF l, m, n
  <2>3. l <= n
    BY <2>1, <2>2
  <2> QED
    BY <2>3 DEF l, n
<1>7. (Length * OutSample)' = 0
  BY NoLength
<1>8. Len(queue') = 0 /\ next[Len(queue')] + buffered' + (Length * OutSample)' = x + 0
  BY <1>1, <1>2, <1>7
<1>9. Weighs(next)'
  BY <1>1, <1>2, <1>3, <1>6, <1>8 DEF Weighs, InScale, OutScale, KeptScale, InFrame, OutFrame
<1>10. QED
  BY <1>9

LEMMA LengthInFramesNext ==
    ASSUME NEW g \in Nat, count' = g * InChannels
    PROVE  (Length * OutSample)' = g * OutFrame
<1>1. Length' = count' * Copies
  BY DEF Length, Copies, OutChannels
<1>2. CASE InChannels = 1
  BY <1>1, <1>2, FormatAssumption DEF Length, Copies, OutFrame, OutChannels
<1>3. CASE InChannels = 2
  BY <1>1, <1>3, FormatAssumption DEF Length, Copies, OutFrame, OutChannels
<1>4. QED
  BY <1>2, <1>3, FormatAssumption

\* A reset of the chain and the plug-in, and a track that is opened.
LEMMA FreshWeight ==
    ASSUME queue' = <<>>, buffered' = 0, count' = 0, pending' = 0, Uncounted' = 0,
           outputProgress' = 0, bufferProgress' = 0
    PROVE  \E level : Weighs(level)'
<1>1. PICK level : Levels(<<>>, level) /\ level[0] = 0
  <2>1. 0 \in Nat
    OBVIOUS
  <2>2. QED
    BY <2>1, NoLevels, Zenon
<1>2. Len(queue') = 0 /\ (Length * OutSample)' = 0
  BY NoLength
<1>3. \A c \in Nat : c * 0 = 0
  OBVIOUS
<1>4. InScale * 0 = 0 /\ OutScale * 0 = 0 /\ KeptScale * 0 = 0
  BY <1>3, Scales
<1>5. Weighs(level)'
  <2>1. Levels(queue', level)
    BY <1>1
  <2>2. InScale * outputProgress' <= OutScale * level[0]
    BY <1>1, <1>4
  <2>3. level[Len(queue')] + buffered' + (Length * OutSample)' = 0
    BY <1>1, <1>2
  <2>4. bufferProgress' + Uncounted' = 0
    OBVIOUS
  <2>5. OutScale * (level[Len(queue')] + buffered' + (Length * OutSample)') + KeptScale * pending'
            <= InScale * (bufferProgress' + Uncounted')
    BY <1>4, <2>3, <2>4
  <2>6. QED
    BY <2>1, <2>2, <2>5 DEF Weighs, InScale, OutScale, KeptScale, InFrame, OutFrame
<1>6. QED
  BY <1>5

\* A packet that goes from the buffer to the engine.
LEMMA QueuedWeight ==
    ASSUME WInv, PInv, NEW level, Weighs(level), NEW size \in Nat, size <= buffered,
           queue' = Append(queue, size), buffered' = buffered - size,
           UNCHANGED <<outputProgress, count, pending, bufferProgress>>, Uncounted' = Uncounted
    PROVE  \E next : Weighs(next)'
<1>1. queue \in Seq(Nat) /\ Levels(queue, level)
  BY DEF PInv, ProgressTyped, Weighs
<1>2. PICK next : /\ Levels(Append(queue, size), next)
                  /\ next[0] = level[0]
                  /\ next[Len(queue) + 1] = level[Len(queue)] + size
  BY <1>1, AppendLevel, Zenon
<1>3. PICK y \in Nat : y = level[Len(queue)]
  BY <1>1, LevelEnds
<1>4. Len(queue') = Len(queue) + 1
  BY <1>1
<1>5. PICK w \in Nat, b \in Nat : w = Length * OutSample /\ b = buffered
  BY WeightTypes
<1>6. (Length * OutSample)' = w
  BY <1>5 DEF Length, Copies
<1>7. next[Len(queue')] + buffered' + (Length * OutSample)' = y + b + w
  <2>1. next[Len(queue')] = y + size /\ buffered' = b - size
    BY <1>2, <1>3, <1>4, <1>5
  <2>2. (y + size) + (b - size) + w = y + b + w
    BY SMT
  <2>3. QED
    BY <1>6, <2>1, <2>2, Zenon
<1>8. OutScale * (next[Len(queue')] + buffered' + (Length * OutSample)') + KeptScale * pending'
          <= InScale * (bufferProgress' + Uncounted')
  BY <1>3, <1>5, <1>7 DEF Weighs
<1>9. InScale * outputProgress' <= OutScale * next[0]
  BY <1>2 DEF Weighs
<1>10. Weighs(next)'
  BY <1>2, <1>8, <1>9 DEF Weighs, InScale, OutScale, KeptScale, InFrame, OutFrame
<1>11. QED
  BY <1>10

\* A packet sent: the division that makes it played time rounds down.
LEMMA SentWeight ==
    ASSUME WInv, PInv, chain, NEW level, Weighs(level), SenderSends
    PROVE  \E next : Weighs(next)'
<1>1. queue \in Seq(Nat) /\ queue # <<>> /\ Levels(queue, level)
  BY DEF PInv, ProgressTyped, Weighs, SenderSends
<1>2. PICK next : /\ Levels(Tail(queue), next)
                  /\ next[0] = level[0] + Head(queue)
                  /\ next[Len(Tail(queue))] = level[Len(queue)]
  BY <1>1, TailLevel, Zenon
<1>3. PICK h \in Nat, x \in Nat, o \in Nat : h = Head(queue) /\ x = level[0] /\ o = outputProgress
  BY <1>1, LevelEnds DEF PInv, ProgressTyped
<1>4. PICK p \in Nat : p = BytesPlayed(h) /\ InScale * p <= OutScale * h
  <2> DEFINE top == h * Down * InFrame
  <2>1. top = OutScale * h
    BY FormatAssumption, Scales DEF OutScale
  <2>2. OutScale * h \in Nat
    BY Scales, Product
  <2>3. BytesPlayed(h) = top \div InScale
    BY DEF BytesPlayed, DividedByRatio, InScale
  <2>4. (OutScale * h) \div InScale \in Nat /\ InScale * ((OutScale * h) \div InScale) <= OutScale * h
    BY <2>2, Scales, Quotient, Zenon
  <2>5. BytesPlayed(h) = (OutScale * h) \div InScale
    BY <2>1, <2>3
  <2>6. QED
    BY <2>4, <2>5
<1>5. InScale * (o + p) <= OutScale * (x + h)
  <2>1. InScale * (o + p) = InScale * o + InScale * p /\ OutScale * (x + h) = OutScale * x + OutScale * h
    BY Scales
  <2>2. InScale * o <= OutScale * x
    BY <1>3 DEF Weighs
  <2> DEFINE c == InScale * o  d == InScale * p  e == OutScale * x  f == OutScale * h
  <2>3. c \in Nat /\ d \in Nat /\ e \in Nat /\ f \in Nat /\ c <= e /\ d <= f
    BY <1>4, <2>2, Scales, Product
  <2> HIDE DEF c, d, e, f
  <2>4. c + d <= e + f
    BY <2>3
  <2>5. QED
    BY <2>1, <2>4 DEF c, d, e, f
<1>6. /\ queue' = Tail(queue) /\ outputProgress' = o + p
      /\ UNCHANGED <<buffered, count, pending, bufferProgress>> /\ Uncounted' = Uncounted
  BY <1>3, <1>4 DEF SenderSends, reformatterVars, Uncounted, InFrame
<1>7. next[0] = x + h
  BY <1>2, <1>3
<1>8. (Length * OutSample)' = Length * OutSample
  BY <1>6 DEF Length, Copies
<1>9. OutScale * (next[Len(queue')] + buffered' + (Length * OutSample)') + KeptScale * pending'
          <= InScale * (bufferProgress' + Uncounted')
  BY <1>2, <1>6, <1>8 DEF Weighs
<1>10. InScale * outputProgress' <= OutScale * next[0]
  BY <1>5, <1>6, <1>7
<1>11. Weighs(next)'
  BY <1>2, <1>6, <1>9, <1>10 DEF Weighs, InScale, OutScale, KeptScale, InFrame, OutFrame
<1>12. QED
  BY <1>11

\* The writing of n frames, or a flush: what the converter makes of them and
\* what it keeps weigh no more than they and what it had kept.
LEMMA ConversionWeight ==
    ASSUME WInv, NEW n \in Nat, n <= FramesFor(Room), Convert(n)
    PROVE  \E g \in Nat, k \in Nat :
               /\ count' = g * InChannels
               /\ pending' = k
               /\ Down * g + k <= pending + Up * n
<1>1. PICK r \in Nat : Room = r * OutFrame
  <2>1. PICK k \in Nat, g \in Nat : buffered = k * OutFrame /\ k + g <= BufferFrames
    BY DEF WInv, Sound, WholeFrames
  <2>2. BufferFrames - k \in Nat /\ Room = (BufferFrames - k) * OutFrame
    BY <2>1, FramesAreBytes, WinampAssumption DEF Room, Capacity
  <2>3. QED
    BY <2>2
<1>2. KeepsLittle /\ pending \in Nat
  BY DEF WInv, Sound, ReformatterTyped, KeepsLittle
<1>3. n <= FramesFor(r * OutFrame)
  BY <1>1
<1>4. PICK g \in Nat : g = Generated(n)
  BY <1>2, <1>3, GeneratedFits, Zenon
<1>5. (IF Up = Down THEN 0 ELSE pending + Up * n - Down * Generated(n)) \in 0 .. Down - 1 + Up * Ahead
  BY <1>2, <1>3, GeneratedFits, Zenon
<1>6. pending' = (IF Up = Down THEN 0 ELSE pending + Up * n - Down * Generated(n)) /\ count' = g * InChannels
  BY <1>4 DEF Convert
<1>7. pending' \in Nat
  <2>1. pending' \in 0 .. Down - 1 + Up * Ahead
    BY <1>5, <1>6
  <2>2. QED
    BY <2>1
<1>8. Down * g \in Nat /\ Up * n \in Nat
  BY FormatAssumption, Product
<1>9. CASE Up = Down
  <2>1. pending' = 0 /\ g = n
    BY <1>4, <1>6, <1>9 DEF Generated
  <2>2. Down * g + 0 <= pending + Up * n
    BY <1>2, <1>8, <1>9, <2>1
  <2>3. QED
    BY <1>6, <2>1, <2>2
<1>10. CASE Up # Down
  <2>1. pending' = pending + Up * n - Down * g
    BY <1>4, <1>6, <1>10
  <2> DEFINE d == Down * g  u == Up * n
  <2>2. d \in Nat /\ u \in Nat /\ pending' = pending + u - d
    BY <1>8, <2>1
  <2> HIDE DEF d, u
  <2>3. d + pending' <= pending + u
    BY <1>2, <1>7, <2>2
  <2>4. Down * g + pending' <= pending + Up * n
    BY <2>3 DEF d, u
  <2>5. QED
    BY <1>6, <1>7, <2>4
<1>11. QED
  BY <1>9, <1>10

LEMMA ConvertedWeight ==
    ASSUME WInv, PInv, NEW level, Weighs(level), NEW n \in Nat, n <= FramesFor(Room), Convert(n),
           Uncounted = 0, Uncounted' = n * InFrame,
           UNCHANGED <<queue, outputProgress, buffered, bufferProgress>>
    PROVE  Weighs(level)'
<1>1. PICK g \in Nat, k \in Nat :
        count' = g * InChannels /\ pending' = k /\ Down * g + k <= pending + Up * n
  BY ConversionWeight, Zenon
<1>2. PICK y \in Nat, b \in Nat, w \in Nat, p \in Nat, v \in Nat :
        /\ y = level[Len(queue)] /\ b = buffered /\ w = Length * OutSample
        /\ p = pending /\ v = bufferProgress
  BY LevelEnds, WeightTypes DEF Weighs, PInv, ProgressTyped
<1>3. OutScale * (y + b + w) + KeptScale * p <= InScale * v
  <2>1. v + 0 = v
    OBVIOUS
  <2>2. QED
    BY <1>2, <2>1 DEF Weighs
<1>4. OutScale * (y + b) <= OutScale * (y + b + w)
  <2>1. y + b \in Nat /\ y + b + w \in Nat /\ y + b <= y + b + w
    OBVIOUS
  <2>2. QED
    BY <2>1, Scales, TimesMore
<1>5. KeptScale * (Down * g + k) <= KeptScale * (p + Up * n)
  <2>1. Down * g + k \in Nat /\ p + Up * n \in Nat
    BY FormatAssumption, Product
  <2>2. QED
    BY <1>1, <1>2, <2>1, Scales, TimesMore
<1>6. OutScale * (y + b + g * OutFrame) + KeptScale * k
          = OutScale * (y + b) + KeptScale * (Down * g + k)
  BY FormatAssumption, Scales, FramesAreBytes DEF OutScale, KeptScale
<1>7. InScale * (v + n * InFrame) + KeptScale * p = InScale * v + KeptScale * (p + Up * n)
  BY FormatAssumption, Scales, FramesAreBytes DEF InScale, KeptScale
<1>8. OutScale * (y + b + g * OutFrame) + KeptScale * k <= InScale * (v + n * InFrame)
  <2> DEFINE l == OutScale * (y + b + g * OutFrame) + KeptScale * k
             m == InScale * (v + n * InFrame)
             s == OutScale * (y + b)
             t == OutScale * (y + b + w)
             q == KeptScale * (Down * g + k)
             z == KeptScale * (p + Up * n)
             x == KeptScale * p
             u == InScale * v
  <2>1. y + b \in Nat /\ y + b + w \in Nat /\ g * OutFrame \in Nat /\ Down * g \in Nat /\ Up * n \in Nat
        /\ n * InFrame \in Nat
    BY FormatAssumption, FramesAreBytes, Scales, Product
  <2>2. y + b + g * OutFrame \in Nat /\ v + n * InFrame \in Nat /\ Down * g + k \in Nat /\ p + Up * n \in Nat
    BY <2>1
  <2>3. s \in Nat /\ t \in Nat /\ q \in Nat /\ z \in Nat /\ x \in Nat /\ u \in Nat /\ m \in Nat
    BY <2>1, <2>2, Scales, Product
  <2>4. l = s + q /\ m + x = u + z /\ q <= z /\ t + x <= u /\ s <= t
    BY <1>3, <1>4, <1>5, <1>6, <1>7
  <2> HIDE DEF l, m, s, t, q, z, x, u
  <2>5. l <= m
    BY <2>3, <2>4
  <2>6. QED
    BY <2>5 DEF l, m
<1>9. (Length * OutSample)' = g * OutFrame
  BY <1>1, LengthInFramesNext
<1>10. level[Len(queue')] + buffered' + (Length * OutSample)' = y + b + g * OutFrame
  BY <1>2, <1>9
<1>11. bufferProgress' + Uncounted' = v + n * InFrame
  BY <1>2
<1>12. OutScale * (level[Len(queue')] + buffered' + (Length * OutSample)') + KeptScale * pending'
           <= InScale * (bufferProgress' + Uncounted')
  BY <1>1, <1>8, <1>10, <1>11
<1>13. Levels(queue', level) /\ InScale * outputProgress' <= OutScale * level[0]
  BY DEF Weighs
<1>14. QED
  BY <1>12, <1>13 DEF Weighs, InScale, OutScale, KeptScale, InFrame, OutFrame

\* The handover to the buffer.
LEMMA PassedWeight ==
    ASSUME WInv, PInv, NEW level, Weighs(level), buffered' = buffered + Length * OutSample, count' = 0,
           UNCHANGED <<queue, outputProgress, pending, bufferProgress>>, Uncounted' = Uncounted
    PROVE  Weighs(level)'
<1>1. PICK y \in Nat, b \in Nat, w \in Nat : y = level[Len(queue)] /\ b = buffered /\ w = Length * OutSample
  BY LevelEnds, WeightTypes DEF Weighs, PInv, ProgressTyped
<1>2. (Length * OutSample)' = 0
  BY NoLength
<1>3. level[Len(queue')] + buffered' + (Length * OutSample)' = level[Len(queue)] + buffered + Length * OutSample
  <2>1. y + (b + w) + 0 = y + b + w
    OBVIOUS
  <2>2. QED
    BY <1>1, <1>2, <2>1
<1>4. QED
  BY <1>3 DEF Weighs, InScale, OutScale, KeptScale, InFrame, OutFrame

\* The count of what was written.
LEMMA CountedWeight ==
    ASSUME WInv, PInv, NEW level, Weighs(level), WriteCounts
    PROVE  Weighs(level)'
<1>1. /\ UNCHANGED <<queue, outputProgress, buffered, count, pending>>
      /\ bufferProgress' = bufferProgress + call.frames * InFrame
      /\ call' = NoCall /\ call.pc = "pump"
  BY DEF WriteCounts, CallIs, sink, reformatterVars
<1>2. Uncounted = call.frames * InFrame /\ Uncounted' = 0
  BY <1>1 DEF Uncounted, NoCall
<1>3. bufferProgress' + Uncounted' = bufferProgress + Uncounted
  <2>1. PICK v \in Nat, u \in Nat : v = bufferProgress /\ u = Uncounted
    BY WeightTypes DEF PInv, ProgressTyped
  <2>2. v + u + 0 = v + u
    OBVIOUS
  <2>3. QED
    BY <1>1, <1>2, <2>1, <2>2
<1>4. (Length * OutSample)' = Length * OutSample
  BY <1>1 DEF Length, Copies
<1>5. QED
  BY <1>1, <1>3, <1>4 DEF Weighs, InScale, OutScale, KeptScale, InFrame, OutFrame

-----------------------------------------------------------------------------
(* The invariant. *)

LEMMA TypedNext == WInv /\ PInv /\ Next => ProgressTyped'
<1> SUFFICES ASSUME WInv, PInv, Next
             PROVE  ProgressTyped'
  OBVIOUS
<1>1. queue \in Seq(Nat) /\ outputProgress \in Nat /\ bufferProgress \in Nat /\ opens \in Nat
  BY DEF PInv, ProgressTyped
<1>2. buffered \in Nat /\ call.frames * InFrame \in Nat
  BY WeightTypes, Scales, Product
<1>3. PacketSize \in Nat
  BY WinampAssumption, FramesAreBytes, Product DEF PacketSize
<1>4. /\ <<>> \in Seq(Nat)
      /\ \A b \in Nat : Append(queue, b) \in Seq(Nat)
  BY <1>1
<1>5. ChainResets => queue' \in {queue, <<>>}
  BY DEF ChainResets, sink
<1>6. ASSUME ResetsNow, opens' = opens
      PROVE  ProgressTyped'
  <2>1. queue' \in Seq(Nat)
    BY <1>1, <1>4, <1>5, <1>6 DEF ResetsNow
  <2>2. outputProgress' \in Nat /\ bufferProgress' \in Nat
    BY <1>6 DEF ResetsNow
  <2>3. QED
    BY <1>1, <1>6, <2>1, <2>2 DEF ProgressTyped
<1>7. ASSUME UNCHANGED <<queue, progress, opens>>
      PROVE  ProgressTyped'
  BY <1>1, <1>7 DEF progress, ProgressTyped
<1>8. ASSUME NEW n \in 0 .. MaxBytes, WriteBegins(n)
      PROVE  ProgressTyped'
  BY <1>6, <1>7, <1>8 DEF WriteBegins, ResetsIfDue, sink
<1>9. CASE PassesPacket
  BY <1>1, <1>3, <1>4, <1>9 DEF PassesPacket, progress, ProgressTyped
<1>10. CASE WriteConverts \/ WriteDuplicates \/ WritePasses \/ AsksIfPlaying \/ ClockTicks
  BY <1>7, <1>10 DEF WriteConverts, WriteDuplicates, WritePasses, AsksIfPlaying, ClockTicks, sink
<1>11. CASE WriteCounts
  <2>1. bufferProgress' \in Nat
    BY <1>1, <1>2, <1>11 DEF WriteCounts
  <2>2. QED
    BY <1>1, <1>11, <2>1 DEF WriteCounts, sink, ProgressTyped
<1>12. CASE Flushes
  <2>1. queue' \in Seq(Nat)
    BY <1>1, <1>2, <1>3, <1>4, <1>12 DEF Flushes, sink
  <2>2. QED
    BY <1>1, <1>12, <2>1 DEF Flushes, progress, ProgressTyped
<1>13. ASSUME NEW offset \in {0, 1}, Resets(offset)
       PROVE  ProgressTyped'
  BY <1>6, <1>7, <1>13 DEF Resets, sink
<1>14. ASSUME NEW state \in BOOLEAN, SetsPaused(state)
       PROVE  ProgressTyped'
  <2>1. CASE ResetsNow
    BY <1>6, <1>14, <2>1 DEF SetsPaused
  <2>2. CASE ~ResetsNow
    <3>1. queue' \in {queue, <<>>} /\ UNCHANGED <<progress, opens>>
      BY <1>5, <1>14, <2>2 DEF SetsPaused, sink
    <3>2. QED
      BY <1>1, <1>4, <3>1 DEF progress, ProgressTyped
  <2>3. QED
    BY <2>1, <2>2
<1>15. ASSUME ChainCloses
       PROVE  queue' \in Seq(Nat)
  BY <1>1, <1>2, <1>4, <1>15 DEF ChainCloses
<1>16. CASE Closes
  BY <1>1, <1>15, <1>16 DEF Closes, progress, ProgressTyped
<1>17. CASE Opens
  BY <1>1, <1>15, <1>17 DEF Opens, ProgressTyped
<1>18. CASE SenderSends
  <2>1. queue # <<>> /\ Head(queue) \in Nat /\ Tail(queue) \in Seq(Nat)
    BY <1>1, <1>18 DEF SenderSends
  <2>2. DividedByRatio(Head(queue)) \in Nat
    <3>1. Head(queue) * Down * InFrame \in Nat /\ Up * OutFrame \in Nat \ {0}
      BY <2>1, Scales, FormatAssumption, Product DEF InScale
    <3>2. QED
      BY <3>1, Quotient, Zenon DEF DividedByRatio
  <2>3. outputProgress' \in Nat
    <3>0. BytesPlayed(Head(queue)) \in Nat
      BY <2>1, <2>2 DEF BytesPlayed
    <3>1. PICK p \in Nat, b \in Nat : p = outputProgress /\ b = BytesPlayed(Head(queue))
      BY <1>1, <3>0, Zenon
    <3>2. outputProgress' = p + b
      BY <1>18, <3>1, Zenon DEF SenderSends
    <3>3. p + b \in Nat
      BY SMT
    <3>4. QED
      BY <3>2, <3>3
  <2>4. QED
    BY <1>1, <1>18, <2>1, <2>3 DEF SenderSends, ProgressTyped
<1>19. QED
  BY <1>8, <1>9, <1>10, <1>11, <1>12, <1>13, <1>14, <1>16, <1>17, <1>18 DEF Next

LEMMA NothingBeforeNext == WInv /\ PInv /\ Next => NothingBefore'
<1> SUFFICES ASSUME WInv, PInv, Next, opens' = 0
             PROVE  ~chain' /\ queue' = <<>> /\ call'.pc = "idle"
  BY DEF NothingBefore, CallIs
<1>1. opens \in Nat
  BY DEF PInv, ProgressTyped
<1>2. ~Opens /\ opens = 0
  BY <1>1 DEF Next, WriteBegins, PassesPacket, WriteConverts, WriteDuplicates, WritePasses, WriteCounts,
              Flushes, AsksIfPlaying, Resets, SetsPaused, ClockTicks, Closes, Opens, SenderSends
<1>3. ~chain /\ queue = <<>> /\ call.pc = "idle"
  BY <1>2 DEF PInv, NothingBefore, CallIs
<1>4. (ResetsNow \/ ChainResets) => queue' = <<>>
  BY <1>3 DEF ResetsNow, ChainResets, sink
<1>5. ASSUME NEW n \in 0 .. MaxBytes, WriteBegins(n)
      PROVE  ~chain' /\ queue' = <<>> /\ call'.pc = "idle"
  BY <1>3, <1>4, <1>5 DEF WriteBegins, ResetsIfDue, sink, component, NoCall
<1>6. ASSUME NEW offset \in {0, 1}, Resets(offset)
      PROVE  ~chain' /\ queue' = <<>> /\ call'.pc = "idle"
  BY <1>3, <1>4, <1>6 DEF Resets, sink, component
<1>7. ASSUME NEW state \in BOOLEAN, SetsPaused(state)
      PROVE  ~chain' /\ queue' = <<>> /\ call'.pc = "idle"
  BY <1>3, <1>4, <1>7 DEF SetsPaused, sink
<1>8. CASE AsksIfPlaying \/ ClockTicks \/ Closes
  BY <1>3, <1>8 DEF AsksIfPlaying, ClockTicks, Closes, ChainCloses, sink, component
<1>9. ~PassesPacket /\ ~WriteConverts /\ ~WriteDuplicates /\ ~WritePasses /\ ~WriteCounts
      /\ ~Flushes /\ ~SenderSends
  BY <1>3 DEF PassesPacket, WriteConverts, WriteDuplicates, WritePasses, WriteCounts, Flushes,
              SenderSends, CallIs
<1>10. QED
  BY <1>2, <1>5, <1>6, <1>7, <1>8, <1>9 DEF Next

LEMMA WeightNext == WInv /\ PInv /\ Next /\ chain' /\ opens' <= 1 => \E next : Weighs(next)'
<1> SUFFICES ASSUME WInv, PInv, Next, chain', opens' <= 1
             PROVE  \E next : Weighs(next)'
  OBVIOUS
<1>1. opens \in Nat /\ bufferProgress \in Nat /\ outputProgress \in Nat
  BY DEF PInv, ProgressTyped
<1>2. CASE Opens
  <2>1. opens = 0
    BY <1>1, <1>2 DEF Opens
  <2>2. queue' = <<>> /\ buffered' = 0 /\ count' = 0 /\ pending' = 0 /\ Uncounted' = 0
    BY <1>2, <2>1 DEF Opens, PInv, NothingBefore, ChainCloses, ReformatterResets, Uncounted, CallIs
  <2>3. QED
    BY <1>2, <2>2, FreshWeight, Zenon DEF Opens
<1>3. ASSUME ~Opens
      PROVE  chain /\ opens <= 1 /\ ~Closes
  BY <1>1, <1>3 DEF Next, WriteBegins, PassesPacket, WriteConverts, WriteDuplicates, WritePasses,
              WriteCounts, Flushes, AsksIfPlaying, Resets, SetsPaused, ClockTicks, Closes,
              SenderSends, component
<1> SUFFICES ASSUME ~Opens
             PROVE  \E next : Weighs(next)'
  BY <1>2
<1>4. PICK level : Weighs(level)
  BY <1>3 DEF PInv
<1>5. ASSUME ResetsNow, Uncounted' = 0
      PROVE  \E next : Weighs(next)'
  <2>1. queue' = <<>> /\ buffered' = 0 /\ count' = 0 /\ pending' = 0 /\ outputProgress' = 0 /\ bufferProgress' = 0
    BY <1>3, <1>5 DEF ResetsNow, ChainResets, ReformatterResets
  <2>2. QED
    BY <1>5, <2>1, FreshWeight, Zenon
<1>6. ASSUME UNCHANGED <<reformatterVars, sink, progress>>, Uncounted' = Uncounted
      PROVE  \E next : Weighs(next)'
  <2>1. UNCHANGED <<queue, outputProgress, buffered, count, pending, bufferProgress>>
    BY <1>6 DEF reformatterVars, sink, progress
  <2>2. Weighs(level)'
    BY <1>4, <1>6, <2>1, SameWeight
  <2>3. QED
    BY <2>2
<1>7. ASSUME NEW n \in 0 .. MaxBytes, WriteBegins(n)
      PROVE  \E next : Weighs(next)'
  <2>1. Uncounted = 0 /\ Uncounted' = 0
    BY <1>7 DEF WriteBegins, CallIs, Uncounted, NoCall
  <2>2. QED
    BY <1>5, <1>6, <1>7, <2>1 DEF WriteBegins, ResetsIfDue
<1>8. CASE PassesPacket
  <2>1. PacketSize \in Nat /\ PacketSize <= buffered /\ queue' = Append(queue, PacketSize)
        /\ buffered' = buffered - PacketSize
    BY <1>8, WinampAssumption, FramesAreBytes, WeightTypes, Product DEF PassesPacket, HasPacket, PacketSize
  <2>2. UNCHANGED <<outputProgress, count, pending, bufferProgress>> /\ Uncounted' = Uncounted
    BY <1>8 DEF PassesPacket, reformatterVars, progress, Uncounted, InFrame
  <2>3. QED
    BY <1>4, <2>1, <2>2, QueuedWeight, Zenon
<1>9. CASE WriteConverts
  <2>1. call.pc = "room" /\ Uncounted = 0
    BY <1>9 DEF WriteConverts, CallIs, Uncounted
  <2>2. CASE ~(call.frames <= FramesFor(Room))
    <3>1. UNCHANGED <<reformatterVars, sink, progress>> /\ Uncounted' = 0
      BY <1>9, <2>2 DEF WriteConverts, Uncounted, NoCall
    <3>2. QED
      BY <1>6, <2>1, <3>1
  <2>3. CASE call.frames <= FramesFor(Room)
    <3>1. Convert(call.frames) /\ call.frames \in Nat
      BY <1>9, <2>3, WeightTypes DEF WriteConverts
    <3>2. UNCHANGED <<queue, outputProgress, buffered, bufferProgress>>
      BY <1>9 DEF WriteConverts, sink, progress
    <3>3. \A m \in Nat : 0 * m = 0
      OBVIOUS
    <3>4. Uncounted' = call.frames * InFrame
      <4>1. call'.frames = call.frames
            /\ call'.pc = (IF call.frames = 0 THEN "flush" ELSE IF stage' = "idle" THEN "pump" ELSE "reformat")
        BY <1>9, <2>3 DEF WriteConverts, CallGoes, WInv, CallTyped
      <4>2. CASE call.frames = 0
        BY <3>3, <4>1, <4>2, Scales DEF Uncounted
      <4>3. CASE call.frames # 0
        BY <4>1, <4>3 DEF Uncounted, InFrame
      <4>4. QED
        BY <4>2, <4>3
    <3>5. Weighs(level)'
      BY <1>4, <2>1, <2>3, <3>1, <3>2, <3>4, ConvertedWeight
    <3>6. QED
      BY <3>5
  <2>4. QED
    BY <2>2, <2>3
<1>10. CASE WriteDuplicates
  <2>1. UNCHANGED <<queue, outputProgress, buffered, count, pending, bufferProgress>> /\ Uncounted' = Uncounted
    BY <1>10 DEF WriteDuplicates, Duplicate, sink, progress, Uncounted, InFrame
  <2>2. Weighs(level)'
    BY <1>4, <2>1, SameWeight
  <2>3. QED
    BY <2>2
<1>11. CASE WritePasses
  <2>1. call'.frames = call.frames /\ call.pc = "reformat" /\ call'.pc = "pump"
    BY <1>11 DEF WritePasses, CallIs, CallGoes, WInv, CallTyped
  <2>2. Uncounted' = Uncounted
    BY <2>1 DEF Uncounted, InFrame
  <2>3. /\ buffered' = buffered + Length * OutSample /\ count' = 0
        /\ UNCHANGED <<queue, outputProgress, pending, bufferProgress>>
    BY <1>11 DEF WritePasses, Passed, progress
  <2>4. Weighs(level)'
    BY <1>4, <2>2, <2>3, PassedWeight
  <2>5. QED
    BY <2>4
<1>12. CASE WriteCounts
  <2>1. Weighs(level)'
    BY <1>4, <1>12, CountedWeight
  <2>2. QED
    BY <2>1
<1>13. CASE Flushes
  <2>1. Uncounted = 0 /\ Uncounted' = 0 /\ UNCHANGED <<reformatterVars, progress>>
    BY <1>13 DEF Flushes, CallIs, Uncounted, NoCall
  <2>2. CASE UNCHANGED sink
    BY <1>6, <2>1, <2>2
  <2>3. CASE ~UNCHANGED sink
    <3>1. PICK size : /\ size = (IF buffered < PacketSize THEN buffered ELSE PacketSize)
                      /\ queue' = Append(queue, size) /\ buffered' = buffered - size
      BY <1>13, <2>3 DEF Flushes
    <3>2. PacketSize \in Nat /\ buffered \in Nat
      BY WinampAssumption, FramesAreBytes, WeightTypes, Product DEF PacketSize
    <3>3. size \in Nat /\ size <= buffered
      BY <3>1, <3>2
    <3>4. UNCHANGED <<outputProgress, count, pending, bufferProgress>> /\ Uncounted' = Uncounted
      BY <2>1 DEF reformatterVars, progress
    <3>5. QED
      BY <1>4, <3>1, <3>3, <3>4, QueuedWeight, Zenon
  <2>4. QED
    BY <2>2, <2>3
<1>14. CASE AsksIfPlaying \/ ClockTicks
  <2>1. CASE AsksIfPlaying
    <3>1. call.pc = "idle" /\ call'.pc \in {"idle", "flush"} /\ UNCHANGED <<reformatterVars, sink, progress>>
      BY <2>1 DEF AsksIfPlaying, CallIs, NoCall
    <3>2. Uncounted' = Uncounted
      BY <3>1 DEF Uncounted
    <3>3. QED
      BY <1>6, <3>1, <3>2
  <2>2. CASE ClockTicks
    <3>1. UNCHANGED <<reformatterVars, sink, progress>> /\ UNCHANGED call
      BY <2>2 DEF ClockTicks
    <3>2. Uncounted' = Uncounted
      BY <3>1 DEF Uncounted, InFrame
    <3>3. QED
      BY <1>6, <3>1, <3>2
  <2>3. QED
    BY <1>14, <2>1, <2>2
<1>15. ASSUME NEW offset \in {0, 1}, Resets(offset)
       PROVE  \E next : Weighs(next)'
  <2>1. Uncounted = 0 /\ Uncounted' = 0
    BY <1>15 DEF Resets, CallIs, Uncounted
  <2>2. QED
    BY <1>5, <1>6, <1>15, <2>1 DEF Resets
<1>16. ASSUME NEW state \in BOOLEAN, SetsPaused(state)
       PROVE  \E next : Weighs(next)'
  <2>1. Uncounted = 0 /\ Uncounted' = 0
    BY <1>16 DEF SetsPaused, CallIs, Uncounted
  <2>2. CASE ChainResets /\ UNCHANGED progress
    <3>1. /\ queue' = <<>> /\ buffered' = 0 /\ count' = 0 /\ pending' = 0
          /\ UNCHANGED <<outputProgress, bufferProgress>> /\ Uncounted' = Uncounted
      BY <1>3, <2>1, <2>2 DEF ChainResets, ReformatterResets, progress
    <3>2. QED
      BY <1>4, <3>1, DroppedWeight, Zenon
  <2>3. QED
    BY <1>5, <1>6, <1>16, <2>1, <2>2 DEF SetsPaused
<1>17. CASE SenderSends
  BY <1>3, <1>4, <1>17, SentWeight, Zenon
<1>18. QED
  BY <1>3, <1>7, <1>8, <1>9, <1>10, <1>11, <1>12, <1>13, <1>14, <1>15, <1>16, <1>17 DEF Next

LEMMA PInvInit == Init => PInv
  BY DEF Init, ReformatterInit, NoCall, PInv, ProgressTyped, NothingBefore, CallIs

LEMMA PInvNext == WInv /\ PInv /\ [Next]_vars => PInv'
<1> SUFFICES ASSUME WInv, PInv, [Next]_vars
             PROVE  PInv'
  OBVIOUS
<1>1. CASE Next
  BY <1>1, TypedNext, NothingBeforeNext, WeightNext DEF PInv
<1>2. CASE UNCHANGED vars
  <2>1. /\ UNCHANGED <<queue, outputProgress, buffered, count, pending, bufferProgress, chain, opens, call>>
        /\ Uncounted' = Uncounted
    BY <1>2 DEF vars, reformatterVars, component, sink, progress, Uncounted, InFrame
  <2>2. ASSUME chain', opens' <= 1
        PROVE  \E level : Weighs(level)'
    <3>1. PICK level : Weighs(level)
      BY <2>1, <2>2 DEF PInv
    <3>2. Weighs(level)'
      BY <2>1, <3>1, SameWeight
    <3>3. QED
      BY <3>2
  <2>3. QED
    BY <2>1, <2>2 DEF PInv, ProgressTyped, NothingBefore, CallIs
<1>3. QED
  BY <1>1, <1>2

(***************************************************************************)
(* For every format, buffer, packet and engine: as long as the player has  *)
(* opened one track, what the plug-in counts as played never exceeds what  *)
(* it counts as written, whatever pauses, resets and flushes come between  *)
(* (Output.cpp:187-370, OutputComponent.cpp:371-382).  The next track may  *)
(* count packets of the one before, which WinampNextTrack.cfg shows.       *)
(***************************************************************************)
THEOREM PlayedIsWritten == Spec => [](opens <= 1 => PlayedWasWritten)
<1>1. Init => WInv /\ PInv
  BY WInvInit, PInvInit
<1>2. WInv /\ PInv /\ [Next]_vars => (WInv /\ PInv)'
  BY WInvNext, PInvNext
<1>3. WInv /\ PInv => (opens <= 1 => PlayedWasWritten)
  BY WeightImpliesPlayed
<1>4. QED
  BY <1>1, <1>2, <1>3, PTL DEF Spec
=============================================================================
