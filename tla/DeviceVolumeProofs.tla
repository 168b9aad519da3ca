------------------------- MODULE DeviceVolumeProofs -------------------------
(***************************************************************************)
(* For every set of speakers, every depth and margin and every number of   *)
(* remote requests and losses: what a device remembers as its volume is    *)
(* what its speaker was told, and opening a receiver makes it no louder.   *)
(***************************************************************************)
EXTENDS DeviceVolume, TLAPS

Threads == Checkers \cup {"opener"}

Level == Lowest .. 0

Told == Mute .. 0

-----------------------------------------------------------------------------
\* The bounds, in the form the provers use.
LEMMA Bounds ==
    /\ Depth \in Nat /\ Lowest \in Int /\ Lowest = -Depth
    /\ Limit \in Level /\ Mute = Lowest - 1 /\ Mute \in Int
    /\ Lowest \in Level /\ 0 \in Level /\ 0 \in Told /\ Mute \in Told
    /\ Level \subseteq Told /\ Level \subseteq Int /\ Told \subseteq Int
    /\ Levels \subseteq Level
  BY VolumeAssumption DEF Lowest, Limit, Mute, Level, Levels, Told

\* The larger and the smaller of two numbers.
LEMMA MaxOfTwo ==
    ASSUME NEW a \in Int, NEW b \in Int
    PROVE  Max({a, b}) = IF a >= b THEN a ELSE b
<1> DEFINE m == IF a >= b THEN a ELSE b
<1>1. m \in {a, b} /\ \A y \in {a, b} : m >= y
  OBVIOUS
<1>2. \A x \in {a, b} : (\A y \in {a, b} : x >= y) => x = m
  OBVIOUS
<1> HIDE DEF m
<1>3. Max({a, b}) = m
  BY <1>1, <1>2 DEF Max
<1>4. QED
  BY <1>3 DEF m

LEMMA MinOfTwo ==
    ASSUME NEW a \in Int, NEW b \in Int
    PROVE  Min({a, b}) = IF a <= b THEN a ELSE b
<1> DEFINE m == IF a <= b THEN a ELSE b
<1>1. m \in {a, b} /\ \A y \in {a, b} : m <= y
  OBVIOUS
<1>2. \A x \in {a, b} : (\A y \in {a, b} : x <= y) => x = m
  OBVIOUS
<1> HIDE DEF m
<1>3. Min({a, b}) = m
  BY <1>1, <1>2 DEF Min
<1>4. QED
  BY <1>3 DEF m

\* A clipped volume is in the range, and no louder than one that is in it.
LEMMA ClippedInRange ==
    ASSUME NEW x \in Int
    PROVE  Clipped(x) \in Level /\ (x \in Level => Clipped(x) <= x)
<1>1. Min({x, Limit}) = IF x <= Limit THEN x ELSE Limit
  BY MinOfTwo, Bounds
<1>2. Min({x, Limit}) \in Int
  BY <1>1, Bounds
<1>3. Clipped(x) = IF Min({x, Limit}) >= Lowest THEN Min({x, Limit}) ELSE Lowest
  BY <1>2, MaxOfTwo, Bounds DEF Clipped
<1>4. QED
  BY <1>1, <1>3, Bounds DEF Level

LEMMA SetToInRange ==
    ASSUME NEW vol \in Level, NEW absolute \in Level, NEW relative \in Int
    PROVE  SetTo(vol, absolute, relative) \in Level
<1>1. vol + relative \in Int
  BY Bounds
<1>2. QED
  BY <1>1, ClippedInRange DEF SetTo

LEMMA DecibelsInRange ==
    ASSUME NEW vol \in Level
    PROVE  Decibels(vol) \in Told /\ Decibels(vol) <= vol
  BY Bounds DEF Decibels, Level, Told

\* The first volume of a receiver that was asked for its own.
LEMMA FirstVolumeIsNoLouder ==
    ASSUME NEW own \in Told, NEW absolute \in Level
    PROVE  LET from == IF own = Mute THEN Lowest ELSE own
           IN  from \in Level /\ Decibels(SetTo(from, absolute, 0)) <= own
<1> DEFINE from == IF own = Mute THEN Lowest ELSE own
           vol == SetTo(from, absolute, 0)
<1>1. from \in Level
  BY Bounds DEF Told, Level
<1>2. Clipped(from) \in Level /\ Clipped(from) <= from /\ from + 0 = from /\ absolute - 0 = absolute
  BY <1>1, ClippedInRange, Bounds
<1>3. vol = IF from = 0 \/ from = absolute THEN absolute ELSE Clipped(from)
  BY <1>2 DEF SetTo
<1> HIDE DEF vol
<1>4. vol \in Level /\ vol <= from
  <2>1. CASE from = 0
    BY <1>3, <2>1, Bounds DEF Level
  <2>2. CASE from # 0
    BY <1>2, <1>3, <2>2, Bounds DEF Level
  <2>3. QED
    BY <2>1, <2>2
<1>5. Decibels(vol) <= own
  <2>1. CASE own = Mute
    BY <1>4, <2>1, Bounds DEF Decibels, Level
  <2>2. CASE own # Mute
    BY <1>1, <1>4, <2>2, DecibelsInRange, Bounds DEF Level, Told
  <2>3. QED
    BY <2>1, <2>2
<1>6. QED
  BY <1>1, <1>5 DEF vol

-----------------------------------------------------------------------------
(***************************************************************************)
(* The inductive invariant: the types, with the ranges of the volumes;     *)
(* that a thread which is busy with the devices holds the mutex; that a    *)
(* speaker which was not told its volume yet is one that a thread or the   *)
(* server still has to tell; and what a thread is about to say.            *)
(***************************************************************************)
ThreadType ==
    [pc : {"idle", "lock", "loop", "tell", "opened"}, level : Level, delta : Int,
     todo : SUBSET Speakers, dev : SUBSET Speakers, says : Told]

Shape ==
    /\ control \in BOOLEAN
    /\ wanted \in Level
    /\ master \in Level \cup {NotSet}
    /\ volume \in [Speakers -> Level]
    /\ conn \in [Speakers -> {"none", "ready", "lost"}]
    /\ told \in [Speakers -> Told]
    /\ mutex \in Threads \cup {"free"}
    /\ threads \in [Threads -> ThreadType]
    /\ server \in [pc : {"idle", "put", "echo", "crashed"}, dev : SUBSET Speakers, level : Level]

BusyHolds ==
    \A t \in Threads :
        /\ threads[t].pc \in {"loop", "tell", "opened"} => mutex = t
        /\ threads[t].pc \in {"tell", "opened"} => \E s \in Speakers : threads[t].dev = {s}

\* A thread will still tell the speaker a volume, or give up on it.
Pending(t, s) ==
    \/ threads[t].pc \in {"loop", "tell"} /\ s \in threads[t].todo
    \/ threads[t].pc \in {"tell", "opened"} /\ s \in threads[t].dev

Heard(s) == told[s] \in {volume[s], Decibels(volume[s])}

Echoing(s) == server.pc = "crashed" \/ (server.pc = "echo" /\ s \in server.dev)

VolumesHeard ==
    master # NotSet =>
        \A s \in Speakers \ doubtful :
            IsOpen(s) => Heard(s) \/ Echoing(s) \/ \E t \in Threads : Pending(t, s)

SaysTheVolume ==
    \A t \in Threads, s \in Speakers \ doubtful :
        IsOpen(s) /\ threads[t].pc = "tell" /\ threads[t].dev = {s} =>
            /\ threads[t].says = Decibels(volume[s])
            /\ t = "opener" /\ s \in Receivers => threads[t].says <= told[s]

OpenerHasNoList == threads["opener"].todo = {}

ServerHasOne ==
    server.pc \in {"put", "echo"} => \E s \in Speakers : server.dev = {s}

IInv ==
    Shape /\ BusyHolds /\ OpenerHasNoList /\ ServerHasOne /\ VolumesHeard /\ SaysTheVolume

LEMMA ThreadNames ==
    /\ Checkers \subseteq Threads /\ "opener" \in Threads /\ "opener" \notin Checkers
    /\ "free" \notin Threads
  BY DEF Threads, Checkers

LEMMA InitHolds == Init => IInv
<1> SUFFICES ASSUME Init PROVE IInv
  OBVIOUS
<1>1. Idle \in ThreadType /\ Idle.pc = "idle"
  BY Bounds DEF Idle, ThreadType
<1>2. NobodyAsks \in [pc : {"idle", "put", "echo", "crashed"}, dev : SUBSET Speakers, level : Level]
  BY Bounds DEF NobodyAsks
<1>3. threads = [t \in Threads |-> Idle]
  BY DEF Init, Threads
<1>4. told \in [Speakers -> Told]
  BY Bounds DEF Init
<1>5. Shape
  BY <1>1, <1>2, <1>3, <1>4, Bounds DEF Init, Shape
<1>6. BusyHolds /\ OpenerHasNoList /\ ServerHasOne /\ SaysTheVolume
  BY <1>1, <1>3, ThreadNames
  DEF BusyHolds, OpenerHasNoList, SaysTheVolume, Idle, ServerHasOne, Init, NobodyAsks
<1>7. VolumesHeard
  BY DEF Init, VolumesHeard
<1>8. QED
  BY <1>5, <1>6, <1>7 DEF IInv

-----------------------------------------------------------------------------
\* A thread that computes a device's volume says what it computed.
LEMMA SetsVolumeShape ==
    ASSUME Shape, NEW t \in Threads, NEW s \in Speakers, NEW todo \in SUBSET Speakers,
           NEW absolute \in Level, NEW relative \in Int, NEW from \in Level,
           SetsVolumeOf(t, s, todo, absolute, relative, from)
    PROVE  /\ volume' \in [Speakers -> Level]
           /\ threads' \in [Threads -> ThreadType]
           /\ threads'[t].pc = "tell" /\ threads'[t].dev = {s} /\ threads'[t].todo = todo
           /\ threads'[t].says = Decibels(SetTo(from, absolute, relative))
           /\ \A u \in Threads \ {t} : threads'[u] = threads[u]
           /\ volume'[s] = SetTo(from, absolute, relative)
           /\ \A q \in Speakers \ {s} : volume'[q] = volume[q]
<1> DEFINE vol == SetTo(from, absolute, relative)
           said == Decibels(vol)
<1>1. vol \in Level
  BY SetToInRange
<1>2. said \in Told
  BY <1>1, DecibelsInRange
<1>3. /\ volume' = [volume EXCEPT ![s] = vol]
      /\ threads' = [threads EXCEPT ![t].pc = "tell", ![t].todo = todo,
                                    ![t].dev = {s}, ![t].says = said]
  BY DEF SetsVolumeOf
<1> HIDE DEF vol, said
<1>4. volume' \in [Speakers -> Level] /\ volume'[s] = vol
      /\ \A q \in Speakers \ {s} : volume'[q] = volume[q]
  BY <1>1, <1>3 DEF Shape
<1>5. threads[t] \in ThreadType
  BY DEF Shape
<1>6. threads'[t] = [threads[t] EXCEPT !.pc = "tell", !.todo = todo, !.dev = {s}, !.says = said]
  BY <1>3 DEF Shape
<1>7. /\ threads'[t] \in ThreadType
      /\ threads'[t].pc = "tell" /\ threads'[t].dev = {s} /\ threads'[t].todo = todo
      /\ threads'[t].says = said
  <2> DEFINE new == [threads[t] EXCEPT !.pc = "tell", !.todo = todo, !.dev = {s}, !.says = said]
  <2>1. new \in ThreadType
    BY <1>2, <1>5 DEF ThreadType
  <2>2. new.pc = "tell" /\ new.dev = {s} /\ new.todo = todo /\ new.says = said
    BY <1>5 DEF ThreadType
  <2>3. threads'[t] = new
    BY <1>6
  <2> HIDE DEF new
  <2>4. QED
    BY <2>1, <2>2, <2>3
<1>8. /\ threads' \in [Threads -> ThreadType]
      /\ \A u \in Threads \ {t} : threads'[u] = threads[u]
  BY <1>3, <1>7 DEF Shape
<1>9. QED
  BY <1>4, <1>7, <1>8 DEF vol, said

LEMMA IdleType == Idle \in ThreadType /\ Idle.pc = "idle"
  BY Bounds DEF Idle, ThreadType

LEMMA ShapeStep == Shape /\ BusyHolds /\ [Next]_vars => Shape' /\ BusyHolds'
<1> SUFFICES ASSUME Shape, BusyHolds, [Next]_vars PROVE Shape' /\ BusyHolds'
  OBVIOUS
<1> USE ThreadNames
<1>1. ASSUME NEW t \in Checkers, ChecksVolume(t) PROVE Shape' /\ BusyHolds'
  <2>1. Target \in Level
    BY Bounds DEF Target, Shape
  <2>2. /\ threads[t] \in ThreadType
        /\ threads' = [threads EXCEPT ![t] = [threads[t] EXCEPT !.pc = "lock", !.level = Target]]
    BY <1>1 DEF ChecksVolume, Shape
  <2>3. /\ threads'[t] \in ThreadType /\ threads'[t].pc = "lock"
        /\ threads' \in [Threads -> ThreadType]
        /\ \A u \in Threads \ {t} : threads'[u] = threads[u]
    BY <2>1, <2>2 DEF Shape, ThreadType
  <2>4. QED
    BY <1>1, <2>3 DEF ChecksVolume, Shape, BusyHolds, settings
<1>2. ASSUME NEW t \in Checkers, LocksVolume(t) PROVE Shape' /\ BusyHolds'
  <2>1. threads[t] \in ThreadType /\ threads[t].level \in Level
    BY DEF Shape, ThreadType
  <2>2. Change(threads[t].level) \in Int
    <3>1. threads[t].level \in Int
      BY <2>1, Bounds
    <3>2. master # NotSet => master \in Int
      BY Bounds DEF Shape
    <3>3. QED
      BY <3>1, <3>2 DEF Change
  <2>3. /\ threads' = [threads EXCEPT ![t] = [threads[t] EXCEPT
                          !.pc = "loop", !.todo = Speakers, !.delta = Change(threads[t].level)]]
        /\ master' = threads[t].level /\ mutex' = t /\ mutex = "free"
    BY <1>2 DEF LocksVolume, Shape
  <2>4. /\ threads'[t] \in ThreadType /\ threads'[t].pc = "loop"
        /\ threads' \in [Threads -> ThreadType]
        /\ \A u \in Threads \ {t} : threads'[u] = threads[u]
    BY <2>1, <2>2, <2>3 DEF Shape, ThreadType
  <2>5. Shape'
    BY <1>2, <2>1, <2>3, <2>4 DEF LocksVolume, Shape, settings
  <2>6. BusyHolds'
    BY <2>3, <2>4 DEF BusyHolds
  <2>7. QED
    BY <2>5, <2>6
<1>3. ASSUME NEW t \in Checkers, SetsNext(t) PROVE Shape' /\ BusyHolds'
  <2>1. threads[t] \in ThreadType /\ threads[t].pc = "loop"
    BY <1>3 DEF Shape, SetsNext, At
  <2>2. PICK s \in threads[t].todo :
          SetsVolumeOf(t, s, threads[t].todo \ {s}, threads[t].level, threads[t].delta, volume[s])
    BY <1>3 DEF SetsNext
  <2>3. /\ s \in Speakers /\ threads[t].todo \ {s} \in SUBSET Speakers
        /\ threads[t].level \in Level /\ threads[t].delta \in Int /\ volume[s] \in Level
    BY <2>1, <2>2 DEF ThreadType, Shape
  <2>4. /\ volume' \in [Speakers -> Level]
        /\ threads' \in [Threads -> ThreadType]
        /\ threads'[t].pc = "tell" /\ threads'[t].dev = {s}
        /\ \A u \in Threads \ {t} : threads'[u] = threads[u]
    BY <2>2, <2>3, SetsVolumeShape
  <2>5. Shape'
    BY <1>3, <2>4 DEF SetsNext, Shape, settings
  <2>6. BusyHolds'
    BY <1>3, <2>1, <2>3, <2>4 DEF SetsNext, BusyHolds
  <2>7. QED
    BY <2>5, <2>6
<1>4. ASSUME NEW t \in Checkers, LoopEnds(t) \/ FailsToTell(t) PROVE Shape' /\ BusyHolds'
  <2>1. /\ threads' \in [Threads -> ThreadType] /\ threads'[t].pc = "idle"
        /\ \A u \in Threads \ {t} : threads'[u] = threads[u]
        /\ mutex' = "free" /\ mutex = t
    BY <1>4, IdleType DEF LoopEnds, FailsToTell, Shape, BusyHolds, At
  <2>2. Shape'
    BY <1>4, <2>1 DEF LoopEnds, FailsToTell, Shape, settings
  <2>3. BusyHolds'
    BY <2>1 DEF BusyHolds
  <2>4. QED
    BY <2>2, <2>3
<1>5. ASSUME NEW t \in Threads, Tells(t) PROVE Shape' /\ BusyHolds'
  <2>1. threads[t] \in ThreadType /\ threads[t].pc = "tell" /\ mutex = t
    BY <1>5 DEF Tells, At, Shape, BusyHolds
  <2>2. told' \in [Speakers -> Told]
    BY <1>5, <2>1 DEF Tells, Shape, ThreadType
  <2>3. CASE t = "opener"
    <3>1. /\ threads' \in [Threads -> ThreadType] /\ threads'[t].pc = "idle"
          /\ \A u \in Threads \ {t} : threads'[u] = threads[u]
          /\ mutex' = "free"
      BY <1>5, <2>3, IdleType DEF Tells, Shape
    <3>2. Shape'
      BY <1>5, <2>2, <3>1 DEF Tells, Shape, settings
    <3>3. BusyHolds'
      BY <2>1, <3>1 DEF BusyHolds
    <3>4. QED
      BY <3>2, <3>3
  <2>4. CASE t # "opener"
    <3>1. threads' = [threads EXCEPT ![t] = [threads[t] EXCEPT !.pc = "loop"]] /\ mutex' = mutex
      BY <1>5, <2>4 DEF Tells, Goes, Shape
    <3>2. /\ threads' \in [Threads -> ThreadType] /\ threads'[t].pc = "loop"
          /\ \A u \in Threads \ {t} : threads'[u] = threads[u]
      BY <2>1, <3>1 DEF Shape, ThreadType
    <3>3. Shape'
      BY <1>5, <2>2, <3>1, <3>2 DEF Tells, Shape, settings
    <3>4. BusyHolds'
      BY <2>1, <3>1, <3>2 DEF BusyHolds
    <3>5. QED
      BY <3>3, <3>4
  <2>5. QED
    BY <2>3, <2>4
<1>6. ASSUME NEW s \in Speakers, OpensDevice(s) PROVE Shape' /\ BusyHolds'
  <2>1. /\ threads["opener"] \in ThreadType
        /\ threads' = [threads EXCEPT !["opener"] = [threads["opener"] EXCEPT
                          !.pc = "opened", !.dev = {s}]]
        /\ mutex = "free" /\ mutex' = "opener"
    BY <1>6 DEF OpensDevice, Shape
  <2>2. /\ threads' \in [Threads -> ThreadType]
        /\ threads'["opener"].pc = "opened" /\ threads'["opener"].dev = {s}
        /\ \A u \in Threads \ {"opener"} : threads'[u] = threads[u]
    BY <2>1 DEF Shape, ThreadType
  <2>3. Shape'
    BY <1>6, <2>1, <2>2 DEF OpensDevice, Shape, settings
  <2>4. BusyHolds'
    BY <2>1, <2>2 DEF BusyHolds
  <2>5. QED
    BY <2>3, <2>4
<1>7. CASE SetsFirstVolume
  <2>1. /\ threads["opener"] \in ThreadType /\ threads["opener"].pc = "opened"
        /\ mutex = "opener"
    BY <1>7 DEF SetsFirstVolume, At, Shape, BusyHolds
  <2>2. PICK s \in threads["opener"].dev :
          IF master = NotSet
          THEN /\ volume' = [volume EXCEPT ![s] = OwnVolume(s)]
               /\ mutex' = "free"
               /\ threads' = [threads EXCEPT !["opener"] = Idle]
          ELSE /\ SetsVolumeOf("opener", s, {}, master, 0, OwnVolume(s))
               /\ UNCHANGED mutex
    BY <1>7 DEF SetsFirstVolume
  <2>3. s \in Speakers /\ OwnVolume(s) \in Level
    <3>1. s \in Speakers
      BY <2>1 DEF ThreadType
    <3>2. told[s] \in Told /\ volume[s] \in Level
      BY <3>1 DEF Shape
    <3>3. QED
      BY <3>1, <3>2, Bounds DEF OwnVolume, Told, Level
  <2>4. CASE master = NotSet
    <3>1. /\ volume' \in [Speakers -> Level]
          /\ threads' \in [Threads -> ThreadType] /\ threads'["opener"].pc = "idle"
          /\ \A u \in Threads \ {"opener"} : threads'[u] = threads[u]
          /\ mutex' = "free"
      BY <2>2, <2>3, <2>4, IdleType DEF Shape
    <3>2. Shape'
      BY <1>7, <3>1 DEF SetsFirstVolume, Shape, settings
    <3>3. BusyHolds'
      BY <2>1, <3>1 DEF BusyHolds
    <3>4. QED
      BY <3>2, <3>3
  <2>5. CASE master # NotSet
    <3>1. master \in Level /\ {} \in SUBSET Speakers /\ 0 \in Int
      BY <2>5 DEF Shape
    <3>2. /\ volume' \in [Speakers -> Level]
          /\ threads' \in [Threads -> ThreadType]
          /\ threads'["opener"].pc = "tell" /\ threads'["opener"].dev = {s}
          /\ \A u \in Threads \ {"opener"} : threads'[u] = threads[u]
          /\ mutex' = mutex
      BY <2>2, <2>3, <2>5, <3>1, SetsVolumeShape
    <3>3. Shape'
      BY <1>7, <3>2 DEF SetsFirstVolume, Shape, settings
    <3>4. BusyHolds'
      BY <2>1, <2>3, <3>2 DEF BusyHolds
    <3>5. QED
      BY <3>3, <3>4
  <2>6. QED
    BY <2>4, <2>5
<1>8. CASE FailsToOpen
  <2>1. /\ threads' \in [Threads -> ThreadType] /\ threads'["opener"].pc = "idle"
        /\ \A u \in Threads \ {"opener"} : threads'[u] = threads[u]
        /\ mutex' = "free" /\ mutex = "opener"
    BY <1>8, IdleType DEF FailsToOpen, Shape, BusyHolds
  <2>2. volume' \in [Speakers -> Level] /\ conn' \in [Speakers -> {"none", "ready", "lost"}]
    BY <1>8, Bounds DEF FailsToOpen, Shape
  <2>3. Shape'
    BY <1>8, <2>1, <2>2 DEF FailsToOpen, Shape, settings
  <2>4. BusyHolds'
    BY <2>1 DEF BusyHolds
  <2>5. QED
    BY <2>3, <2>4
<1>9. CASE ClosesDevices
  <2>1. told' \in [Speakers -> Told]
    BY <1>9, Bounds DEF ClosesDevices, Kept, Shape
  <2>2. QED
    BY <1>9, <2>1 DEF ClosesDevices, Shape, BusyHolds, settings
<1>10. ASSUME NEW s \in Speakers, DestroysDevice(s) \/ ConnectionDrops(s)
       PROVE  Shape' /\ BusyHolds'
  <2>1. told' \in [Speakers -> Told]
    BY <1>10, Bounds DEF DestroysDevice, ConnectionDrops, Kept, Shape
  <2>2. QED
    BY <1>10, <2>1, Bounds DEF DestroysDevice, ConnectionDrops, Shape, BusyHolds, settings
<1>11. ASSUME NEW s \in Speakers, NEW v \in Levels, LooksUpDevice(s, v) PROVE Shape' /\ BusyHolds'
  BY <1>11, Bounds DEF LooksUpDevice, Shape, BusyHolds, settings
<1>12. CASE PutsVolume
  <2>1. volume' \in [Speakers -> Level]
    BY <1>12 DEF PutsVolume, Shape
  <2>2. QED
    BY <1>12, <2>1 DEF PutsVolume, Shape, BusyHolds, settings
<1>13. CASE EchoesVolume
  <2>1. told' \in [Speakers -> Told]
    BY <1>13, Bounds DEF EchoesVolume, SaysVolume, Shape
  <2>2. server' \in [pc : {"idle", "put", "echo", "crashed"}, dev : SUBSET Speakers, level : Level]
    BY <1>13, Bounds DEF EchoesVolume, NobodyAsks
  <2>3. QED
    BY <1>13, <2>1, <2>2 DEF EchoesVolume, Shape, BusyHolds, settings
<1>14. CASE Crashes
  BY <1>14 DEF Crashes, Shape, BusyHolds, settings
<1>15. ASSUME NEW v \in Levels, PlayerSetsVolume(v) PROVE Shape' /\ BusyHolds'
  BY <1>15, Bounds DEF PlayerSetsVolume, Shape, BusyHolds
<1>16. CASE UserSetsOption
  BY <1>16 DEF UserSetsOption, Shape, BusyHolds
<1>17. CASE UNCHANGED vars
  BY <1>17 DEF vars, settings, Shape, BusyHolds
<1>18. QED
  BY <1>1, <1>2, <1>3, <1>4, <1>5, <1>6, <1>7, <1>8, <1>9, <1>10, <1>11, <1>12, <1>13, <1>14,
     <1>15, <1>16, <1>17 DEF Next, ChecksOn, OpenerGoesOn

-----------------------------------------------------------------------------
(***************************************************************************)
(* Every step keeps what is said of the volumes.                           *)
(***************************************************************************)
LEMMA OnlyHolder ==
    ASSUME Shape, BusyHolds, NEW t \in Threads, mutex = t, NEW u \in Threads \ {t}
    PROVE  /\ threads[u].pc \notin {"loop", "tell", "opened"}
           /\ \A s \in Speakers : ~Pending(u, s)
  BY DEF BusyHolds, Pending

LEMMA NobodyHolds ==
    ASSUME Shape, BusyHolds, mutex = "free"
    PROVE  \A t \in Threads : /\ threads[t].pc \notin {"loop", "tell", "opened"}
                              /\ \A s \in Speakers : ~Pending(t, s)
  BY ThreadNames DEF BusyHolds, Pending

LEMMA OpenerStep == Shape /\ OpenerHasNoList /\ [Next]_vars => OpenerHasNoList'
<1> SUFFICES ASSUME Shape, OpenerHasNoList, [Next]_vars PROVE OpenerHasNoList'
  OBVIOUS
<1> USE ThreadNames DEF OpenerHasNoList
<1>1. ASSUME NEW t \in Checkers, ChecksVolume(t) \/ LocksVolume(t) \/ LoopEnds(t) \/ FailsToTell(t)
      PROVE  OpenerHasNoList'
  BY <1>1 DEF ChecksVolume, LocksVolume, LoopEnds, FailsToTell, Shape
<1>2. ASSUME NEW t \in Checkers, SetsNext(t) PROVE OpenerHasNoList'
  BY <1>2 DEF SetsNext, SetsVolumeOf, Shape
<1>3. ASSUME NEW t \in Threads, Tells(t) PROVE OpenerHasNoList'
  <2>1. CASE t = "opener"
    BY <1>3, <2>1 DEF Tells, Shape, Idle
  <2>2. CASE t # "opener"
    BY <1>3, <2>2 DEF Tells, Goes, Shape
  <2>3. QED
    BY <2>1, <2>2
<1>4. ASSUME NEW s \in Speakers, OpensDevice(s) PROVE OpenerHasNoList'
  BY <1>4 DEF OpensDevice, Shape, ThreadType
<1>5. CASE SetsFirstVolume
  <2>1. PICK s \in threads["opener"].dev :
          \/ threads' = [threads EXCEPT !["opener"] = Idle]
          \/ SetsVolumeOf("opener", s, {}, master, 0, OwnVolume(s))
    BY <1>5 DEF SetsFirstVolume
  <2>2. QED
    BY <2>1 DEF SetsVolumeOf, Shape, ThreadType, Idle
<1>6. CASE FailsToOpen
  BY <1>6 DEF FailsToOpen, Shape, Idle
<1>7. CASE UNCHANGED threads
  BY <1>7
<1>8. QED
  BY <1>1, <1>2, <1>3, <1>4, <1>5, <1>6, <1>7
  DEF Next, ChecksOn, OpenerGoesOn, vars, ClosesDevices, DestroysDevice, ConnectionDrops,
      LooksUpDevice, PutsVolume, EchoesVolume, Crashes, PlayerSetsVolume, UserSetsOption

LEMMA ServerStep == Shape /\ ServerHasOne /\ [Next]_vars => ServerHasOne'
<1> SUFFICES ASSUME Shape, ServerHasOne, [Next]_vars PROVE ServerHasOne'
  OBVIOUS
<1>1. ASSUME NEW s \in Speakers, NEW v \in Levels, LooksUpDevice(s, v) PROVE ServerHasOne'
  BY <1>1 DEF LooksUpDevice, ServerHasOne
<1>2. CASE PutsVolume
  BY <1>2 DEF PutsVolume, ServerHasOne, Shape
<1>3. CASE EchoesVolume
  BY <1>3 DEF EchoesVolume, ServerHasOne, NobodyAsks
<1>4. CASE Crashes
  BY <1>4 DEF Crashes, ServerHasOne, Shape
<1>5. CASE UNCHANGED server
  BY <1>5 DEF ServerHasOne
<1>6. QED
  BY <1>1, <1>2, <1>3, <1>4, <1>5
  DEF Next, ChecksOn, OpenerGoesOn, vars, ChecksVolume, LocksVolume, SetsNext, LoopEnds,
      FailsToTell, Tells, OpensDevice, SetsFirstVolume, FailsToOpen, ClosesDevices,
      DestroysDevice, ConnectionDrops, PlayerSetsVolume, UserSetsOption

\* A speaker has been told, or a thread or the server is about to tell it.
LEMMA VolumeStep == IInv /\ [Next]_vars => VolumesHeard' /\ SaysTheVolume'
<1> SUFFICES ASSUME Shape, BusyHolds, OpenerHasNoList, ServerHasOne, VolumesHeard, SaysTheVolume,
                    [Next]_vars, Shape', BusyHolds'
             PROVE  VolumesHeard' /\ SaysTheVolume'
  BY ShapeStep DEF IInv
<1> USE ThreadNames
<1>1. ASSUME NEW t \in Checkers, ChecksVolume(t) PROVE VolumesHeard' /\ SaysTheVolume'
  <2>1. /\ \A u \in Threads \ {t} : threads'[u] = threads[u]
        /\ threads[t].pc = "idle" /\ threads'[t].pc = "lock"
        /\ UNCHANGED <<master, volume, conn, told, server, doubtful>>
    BY <1>1 DEF ChecksVolume, At, Shape, ThreadType
  <2>2. \A u \in Threads, s \in Speakers : Pending(u, s) => Pending(u, s)'
    BY <2>1 DEF Pending
  <2>3. VolumesHeard'
    BY <2>1, <2>2 DEF VolumesHeard, IsOpen, Heard, Echoing
  <2>4. SaysTheVolume'
    BY <2>1 DEF SaysTheVolume, IsOpen
  <2>5. QED
    BY <2>3, <2>4
<1>2. ASSUME NEW t \in Checkers, LocksVolume(t) PROVE VolumesHeard' /\ SaysTheVolume'
  <2>1. /\ \A u \in Threads \ {t} : threads'[u] = threads[u]
        /\ threads'[t].pc = "loop" /\ threads'[t].todo = Speakers
        /\ mutex = "free"
    BY <1>2 DEF LocksVolume, Shape, ThreadType
  <2>2. \A s \in Speakers : Pending(t, s)'
    BY <2>1 DEF Pending
  <2>3. VolumesHeard'
    BY <2>2 DEF VolumesHeard
  <2>4. \A u \in Threads : threads'[u].pc # "tell"
    BY <2>1, NobodyHolds
  <2>5. SaysTheVolume'
    BY <2>4 DEF SaysTheVolume
  <2>6. QED
    BY <2>3, <2>5
<1>3. ASSUME NEW t \in Checkers, SetsNext(t) PROVE VolumesHeard' /\ SaysTheVolume'
  <2>1. threads[t] \in ThreadType /\ threads[t].pc = "loop" /\ mutex = t
    BY <1>3 DEF Shape, SetsNext, At, BusyHolds
  <2>2. PICK s \in threads[t].todo :
          /\ IsOpen(s)
          /\ SetsVolumeOf(t, s, threads[t].todo \ {s}, threads[t].level, threads[t].delta, volume[s])
    BY <1>3 DEF SetsNext
  <2>3. /\ s \in Speakers /\ threads[t].todo \ {s} \in SUBSET Speakers
        /\ threads[t].level \in Level /\ threads[t].delta \in Int /\ volume[s] \in Level
    BY <2>1, <2>2 DEF ThreadType, Shape
  <2> DEFINE from == volume[s]
             level == threads[t].level
             delta == threads[t].delta
             vol == SetTo(from, level, delta)
             rest == threads[t].todo \ {s}
  <2>4. /\ threads'[t].pc = "tell" /\ threads'[t].dev = {s}
        /\ threads'[t].todo = rest
        /\ threads'[t].says = Decibels(vol)
        /\ volume'[s] = vol
        /\ \A u \in Threads \ {t} : threads'[u] = threads[u]
        /\ \A q \in Speakers \ {s} : volume'[q] = volume[q]
    <3>1. /\ t \in Threads /\ rest \in SUBSET Speakers
          /\ level \in Level /\ delta \in Int /\ from \in Level
          /\ SetsVolumeOf(t, s, rest, level, delta, from)
      BY <2>2, <2>3
    <3> HIDE DEF rest, level, delta, from
    <3>2. /\ threads'[t].pc = "tell" /\ threads'[t].dev = {s} /\ threads'[t].todo = rest
          /\ threads'[t].says = Decibels(SetTo(from, level, delta))
          /\ volume'[s] = SetTo(from, level, delta)
          /\ \A u \in Threads \ {t} : threads'[u] = threads[u]
          /\ \A q \in Speakers \ {s} : volume'[q] = volume[q]
      BY ONLY Shape, <2>3, <3>1, SetsVolumeShape
    <3>3. QED
      BY <3>2
  <2> HIDE DEF vol
  <2>5. /\ UNCHANGED <<master, conn, told, server>>
        /\ doubtful' = doubtful \ {s}
    BY <1>3, <2>4 DEF SetsNext
  <2>6. \A u \in Threads, q \in Speakers : Pending(u, q) => Pending(u, q)'
    BY <2>1, <2>4 DEF Pending
  <2>7. Pending(t, s)'
    BY <2>4 DEF Pending
  <2>8. VolumesHeard'
    BY <2>4, <2>5, <2>6, <2>7 DEF VolumesHeard, IsOpen, Heard, Echoing
  <2>9. SaysTheVolume'
    <3>1. ASSUME NEW u \in Threads, NEW q \in Speakers, threads'[u].pc = "tell", threads'[u].dev = {q}
          PROVE  u = t /\ q = s
      BY <2>1, <2>4, <3>1, OnlyHolder
    <3>2. t # "opener"
      OBVIOUS
    <3>3. QED
      BY <2>4, <3>1, <3>2 DEF SaysTheVolume
  <2>10. QED
    BY <2>8, <2>9
<1>4. ASSUME NEW t \in Checkers, LoopEnds(t) PROVE VolumesHeard' /\ SaysTheVolume'
  <2>1. /\ threads[t].pc = "loop" /\ mutex = t
        /\ \A s \in threads[t].todo : ~IsOpen(s)
        /\ \A u \in Threads \ {t} : threads'[u] = threads[u]
        /\ threads'[t].pc = "idle"
        /\ UNCHANGED <<master, volume, conn, told, server, doubtful>>
    BY <1>4, IdleType DEF LoopEnds, At, BusyHolds, Shape
  <2>2. \A u \in Threads, s \in Speakers : IsOpen(s) /\ Pending(u, s) => Pending(u, s)'
    BY <2>1 DEF Pending
  <2>3. VolumesHeard'
    BY <2>1, <2>2 DEF VolumesHeard, IsOpen, Heard, Echoing
  <2>4. SaysTheVolume'
    BY <2>1 DEF SaysTheVolume, IsOpen
  <2>5. QED
    BY <2>3, <2>4
<1>5. ASSUME NEW t \in Checkers, FailsToTell(t) PROVE VolumesHeard' /\ SaysTheVolume'
  <2>1. /\ threads[t].pc = "tell" /\ mutex = t
        /\ \A s \in threads[t].dev : ~IsOpen(s)
        /\ \A u \in Threads \ {t} : threads'[u] = threads[u]
        /\ threads'[t].pc = "idle"
        /\ doubtful' = doubtful \cup {s \in threads[t].todo : IsOpen(s)}
        /\ UNCHANGED <<master, volume, conn, told, server>>
    BY <1>5, IdleType DEF FailsToTell, At, BusyHolds, Shape
  <2>2. \A u \in Threads, s \in Speakers \ doubtful' : IsOpen(s) /\ Pending(u, s) => Pending(u, s)'
    BY <2>1 DEF Pending
  <2>3. VolumesHeard'
    BY <2>1, <2>2 DEF VolumesHeard, IsOpen, Heard, Echoing
  <2>4. SaysTheVolume'
    BY <2>1 DEF SaysTheVolume, IsOpen
  <2>5. QED
    BY <2>3, <2>4
<1>6. ASSUME NEW t \in Threads, Tells(t) PROVE VolumesHeard' /\ SaysTheVolume'
  <2>1. threads[t] \in ThreadType /\ threads[t].pc = "tell" /\ mutex = t
    BY <1>6 DEF Tells, At, Shape, BusyHolds
  <2>2. PICK s \in threads[t].dev : IsOpen(s) /\ told' = [told EXCEPT ![s] = threads[t].says]
    BY <1>6 DEF Tells
  <2>3. s \in Speakers /\ threads[t].dev = {s}
    BY <2>1, <2>2 DEF BusyHolds, ThreadType
  <2>4. /\ told'[s] = threads[t].says
        /\ \A q \in Speakers \ {s} : told'[q] = told[q]
        /\ UNCHANGED <<master, volume, conn, server, doubtful>>
        /\ \A u \in Threads \ {t} : threads'[u] = threads[u]
    BY <1>6, <2>2, <2>3 DEF Tells, Goes, Shape
  <2>5. \/ threads'[t].pc = "idle" /\ t = "opener"
        \/ threads'[t].pc = "loop" /\ threads'[t].todo = threads[t].todo
    BY <1>6, <2>1, IdleType DEF Tells, Goes, Shape, ThreadType
  <2>6. t = "opener" => threads[t].todo = {}
    BY DEF OpenerHasNoList
  <2>7. \A u \in Threads, q \in Speakers \ {s} : Pending(u, q) => Pending(u, q)'
    BY <2>1, <2>3, <2>4, <2>5, <2>6 DEF Pending
  <2>8. s \in doubtful \/ Heard(s)'
    BY <2>1, <2>2, <2>3, <2>4 DEF SaysTheVolume, Heard
  <2>9. VolumesHeard'
    BY <2>3, <2>4, <2>7, <2>8 DEF VolumesHeard, IsOpen, Heard, Echoing
  <2>10. SaysTheVolume'
    <3>1. \A u \in Threads : threads'[u].pc # "tell"
      BY <2>1, <2>4, <2>5, OnlyHolder
    <3>2. QED
      BY <3>1 DEF SaysTheVolume
  <2>11. QED
    BY <2>9, <2>10
<1>7. ASSUME NEW s \in Speakers, OpensDevice(s) PROVE VolumesHeard' /\ SaysTheVolume'
  <2>1. /\ mutex = "free"
        /\ threads'["opener"].pc = "opened" /\ threads'["opener"].dev = {s}
        /\ \A u \in Threads \ {"opener"} : threads'[u] = threads[u]
        /\ \A q \in Speakers \ {s} : conn'[q] = conn[q]
        /\ UNCHANGED <<master, volume, told, server, doubtful>>
    BY <1>7 DEF OpensDevice, Shape, ThreadType
  <2>2. Pending("opener", s)'
    BY <2>1 DEF Pending
  <2>3. \A u \in Threads, q \in Speakers : ~Pending(u, q) /\ threads[u].pc # "tell"
    BY <2>1, NobodyHolds
  <2>4. VolumesHeard'
    BY <2>1, <2>2, <2>3 DEF VolumesHeard, IsOpen, Heard, Echoing
  <2>5. SaysTheVolume'
    BY <2>1, <2>3 DEF SaysTheVolume
  <2>6. QED
    BY <2>4, <2>5
<1>8. CASE SetsFirstVolume
  <2>1. /\ threads["opener"] \in ThreadType /\ threads["opener"].pc = "opened"
        /\ mutex = "opener"
        /\ UNCHANGED <<master, conn, told, server>>
    BY <1>8 DEF SetsFirstVolume, At, Shape, BusyHolds
  <2>2. PICK s \in threads["opener"].dev :
          /\ IF master = NotSet
             THEN threads' = [threads EXCEPT !["opener"] = Idle]
             ELSE SetsVolumeOf("opener", s, {}, master, 0, OwnVolume(s))
          /\ doubtful' = doubtful \ {s}
    BY <1>8 DEF SetsFirstVolume
  <2>3. s \in Speakers /\ threads["opener"].dev = {s}
    BY <2>1, <2>2 DEF BusyHolds, ThreadType
  <2>4. /\ told[s] \in Told /\ volume[s] \in Level
        /\ OwnVolume(s) \in Level
        /\ s \in Receivers => OwnVolume(s) = IF told[s] = Mute THEN Lowest ELSE told[s]
    <3>1. told[s] \in Told /\ volume[s] \in Level
      BY <2>3 DEF Shape
    <3>2. QED
      BY <3>1, FirstVolumeIsNoLouder, Bounds DEF OwnVolume
  <2>5. CASE master = NotSet
    <3>1. /\ threads'["opener"].pc = "idle"
          /\ \A u \in Threads \ {"opener"} : threads'[u] = threads[u]
      BY <2>2, <2>5, IdleType DEF Shape
    <3>2. \A u \in Threads : threads'[u].pc # "tell"
      BY <2>1, <3>1, OnlyHolder
    <3>3. QED
      BY <2>1, <2>5, <3>2 DEF VolumesHeard, SaysTheVolume
  <2>6. CASE master # NotSet
    <3> DEFINE from == OwnVolume(s)
               vol == SetTo(from, master, 0)
    <3>1. master \in Level /\ {} \in SUBSET Speakers /\ 0 \in Int
      BY <2>6 DEF Shape
    <3>2. /\ threads'["opener"].pc = "tell" /\ threads'["opener"].dev = {s}
          /\ threads'["opener"].says = Decibels(vol)
          /\ volume'[s] = vol
          /\ \A u \in Threads \ {"opener"} : threads'[u] = threads[u]
          /\ \A q \in Speakers \ {s} : volume'[q] = volume[q]
      <4>1. from \in Level /\ SetsVolumeOf("opener", s, {}, master, 0, from)
        BY <2>2, <2>4, <2>6
      <4> HIDE DEF from
      <4>2. QED
        BY <2>3, <3>1, <4>1, SetsVolumeShape
    <3>3. s \in Receivers => Decibels(vol) <= told[s]
      BY <2>4, <3>1, FirstVolumeIsNoLouder
    <3> HIDE DEF from, vol
    <3>4. Pending("opener", s)'
      BY <3>2 DEF Pending
    <3>5. \A u \in Threads, q \in Speakers \ {s} : ~Pending(u, q)
      BY <2>1, <2>3, OnlyHolder DEF Pending, OpenerHasNoList
    <3>6. VolumesHeard'
      BY <2>1, <2>2, <3>2, <3>4, <3>5 DEF VolumesHeard, IsOpen, Heard, Echoing
    <3>7. SaysTheVolume'
      <4>1. ASSUME NEW u \in Threads, NEW q \in Speakers, threads'[u].pc = "tell", threads'[u].dev = {q}
            PROVE  u = "opener" /\ q = s
        BY <2>1, <3>2, <4>1, OnlyHolder
      <4>2. QED
        BY <2>1, <3>2, <3>3, <4>1 DEF SaysTheVolume
    <3>8. QED
      BY <3>6, <3>7
  <2>7. QED
    BY <2>5, <2>6
<1>9. CASE FailsToOpen
  <2>1. /\ mutex = "opener"
        /\ threads'["opener"].pc = "idle"
        /\ \A u \in Threads \ {"opener"} : threads'[u] = threads[u]
        /\ UNCHANGED <<master, told, server, doubtful>>
        /\ threads["opener"].pc \in {"opened", "tell"}
    BY <1>9, IdleType DEF FailsToOpen, Shape, BusyHolds
  <2>2. PICK s \in threads["opener"].dev :
          volume' = [volume EXCEPT ![s] = 0] /\ conn' = [conn EXCEPT ![s] = "none"]
    BY <1>9 DEF FailsToOpen
  <2>3. s \in Speakers /\ threads["opener"].dev = {s}
    BY <2>1, <2>2 DEF BusyHolds, Shape, ThreadType
  <2>4. /\ conn'[s] = "none"
        /\ \A q \in Speakers \ {s} : conn'[q] = conn[q] /\ volume'[q] = volume[q]
    BY <2>2, <2>3 DEF Shape
  <2>5. \A u \in Threads, q \in Speakers \ {s} : ~Pending(u, q)
    BY <2>1, <2>3, OnlyHolder DEF Pending, OpenerHasNoList
  <2>6. VolumesHeard'
    BY <2>1, <2>4, <2>5 DEF VolumesHeard, IsOpen, Heard, Echoing
  <2>7. \A u \in Threads : threads'[u].pc # "tell"
    BY <2>1, OnlyHolder
  <2>8. SaysTheVolume'
    BY <2>7 DEF SaysTheVolume
  <2>9. QED
    BY <2>6, <2>8
<1>10. CASE ClosesDevices
  <2>1. \A s \in Speakers : conn'[s] # "ready"
    BY <1>10 DEF ClosesDevices
  <2>2. QED
    BY <2>1 DEF VolumesHeard, SaysTheVolume, IsOpen
<1>11. ASSUME NEW s \in Speakers, DestroysDevice(s) \/ ConnectionDrops(s)
       PROVE  VolumesHeard' /\ SaysTheVolume'
  <2>1. /\ conn'[s] # "ready"
        /\ doubtful' = doubtful \ {s}
        /\ \A q \in Speakers \ {s} :
             conn'[q] = conn[q] /\ volume'[q] = volume[q] /\ (conn[q] = "ready" => told'[q] = told[q])
        /\ UNCHANGED <<master, server, threads>>
    BY <1>11 DEF DestroysDevice, ConnectionDrops, Kept, Shape
  <2>2. \A u \in Threads, q \in Speakers : Pending(u, q) => Pending(u, q)'
    BY <2>1 DEF Pending
  <2>3. VolumesHeard'
    BY <2>1, <2>2 DEF VolumesHeard, IsOpen, Heard, Echoing
  <2>4. SaysTheVolume'
    BY <2>1 DEF SaysTheVolume, IsOpen
  <2>5. QED
    BY <2>3, <2>4
<1>12. ASSUME NEW s \in Speakers, NEW v \in Levels, LooksUpDevice(s, v)
       PROVE  VolumesHeard' /\ SaysTheVolume'
  <2>1. /\ UNCHANGED <<master, volume, conn, told, threads, doubtful>>
        /\ server.pc = "idle"
    BY <1>12 DEF LooksUpDevice
  <2>2. QED
    BY <2>1 DEF VolumesHeard, SaysTheVolume, IsOpen, Heard, Echoing, Pending
<1>13. CASE PutsVolume
  <2>1. /\ server.pc = "put" /\ server'.pc = "echo" /\ server'.dev = server.dev
        /\ \A q \in Speakers \ server.dev : volume'[q] = volume[q]
        /\ doubtful' = doubtful \cup {s \in server.dev : \E t \in DOMAIN threads :
                               At(t, "tell") /\ threads[t].dev = {s}}
        /\ UNCHANGED <<master, conn, told, threads>>
    BY <1>13 DEF PutsVolume, Shape
  <2>2. VolumesHeard'
    BY <2>1 DEF VolumesHeard, IsOpen, Heard, Echoing, Pending
  <2>3. SaysTheVolume'
    <3>1. ASSUME NEW u \in Threads, NEW q \in Speakers, q \notin doubtful',
                 threads[u].pc = "tell", threads[u].dev = {q}
          PROVE  q \notin doubtful /\ volume'[q] = volume[q]
      BY <2>1, <3>1 DEF At, Shape
    <3>2. QED
      BY <2>1, <3>1 DEF SaysTheVolume, IsOpen
  <2>4. QED
    BY <2>2, <2>3
<1>14. CASE EchoesVolume
  <2>1. PICK s \in server.dev : told' = IF IsOpen(s) THEN SaysVolume ELSE told
    BY <1>14 DEF EchoesVolume
  <2>2. UNCHANGED <<master, volume, conn, threads, doubtful>> /\ server.pc = "echo"
    BY <1>14 DEF EchoesVolume
  <2>3. s \in Speakers /\ server.dev = {s}
    BY <2>1, <2>2 DEF ServerHasOne
  <2>4. /\ \A q \in Speakers \ {s} : told'[q] = told[q]
        /\ IsOpen(s) => told'[s] = volume[s]
    BY <2>1, <2>3 DEF SaysVolume
  <2>5. VolumesHeard'
    BY <2>2, <2>3, <2>4 DEF VolumesHeard, IsOpen, Heard, Echoing, Pending
  <2>6. Decibels(volume[s]) <= volume[s]
    BY <2>3, DecibelsInRange DEF Shape
  <2>7. SaysTheVolume'
    BY <2>2, <2>4, <2>6 DEF SaysTheVolume, IsOpen
  <2>8. QED
    BY <2>5, <2>7
<1>15. CASE Crashes
  <2>1. /\ UNCHANGED <<master, volume, conn, told, threads, doubtful>>
        /\ server'.pc = "crashed"
    BY <1>15 DEF Crashes, Shape
  <2>2. QED
    BY <2>1 DEF VolumesHeard, SaysTheVolume, IsOpen, Echoing
<1>16. CASE UNCHANGED <<master, volume, conn, told, threads, server, doubtful>>
  BY <1>16 DEF VolumesHeard, SaysTheVolume, IsOpen, Heard, Echoing, Pending
<1>17. (\E v \in Levels : PlayerSetsVolume(v)) \/ UserSetsOption \/ UNCHANGED vars
         => UNCHANGED <<master, volume, conn, told, threads, server, doubtful>>
  BY DEF PlayerSetsVolume, UserSetsOption, vars
<1>18. QED
  BY <1>1, <1>2, <1>3, <1>4, <1>5, <1>6, <1>7, <1>8, <1>9, <1>10, <1>11, <1>12, <1>13, <1>14,
     <1>15, <1>16, <1>17 DEF Next, ChecksOn, OpenerGoesOn

-----------------------------------------------------------------------------
LEMMA NextKeeps == IInv /\ [Next]_vars => IInv'
  BY ShapeStep, OpenerStep, ServerStep, VolumeStep DEF IInv

THEOREM IInvHolds == Spec => []IInv
<1>1. Init => IInv
  BY InitHolds
<1>2. IInv /\ [Next]_vars => IInv'
  BY NextKeeps
<1>3. QED
  BY <1>1, <1>2, PTL DEF Spec

\* What a device remembers is what its speaker was told, whenever no thread is
\* about to tell it (RAOPDevice.cpp:219-271).
THEOREM VolumesAreHeard == Spec => []SpeakersHearTheirVolume
<1>1. IInv => SpeakersHearTheirVolume
  <2> SUFFICES ASSUME Shape, BusyHolds, VolumesHeard, mutex = "free", server.pc = "idle",
                      master # NotSet, NEW s \in Speakers \ doubtful, IsOpen(s)
               PROVE  told[s] \in {volume[s], Decibels(volume[s])}
    BY DEF IInv, SpeakersHearTheirVolume
  <2>1. \A t \in Threads : ~Pending(t, s)
    BY NobodyHolds
  <2>2. ~Echoing(s)
    BY DEF Echoing
  <2>3. QED
    BY <2>1, <2>2 DEF VolumesHeard, Heard
<1>2. QED
  BY <1>1, IInvHolds, PTL

\* An audio-video receiver is made no louder by being opened
\* (RAOPDevice.cpp:244-262).
THEOREM ReceiversStayQuiet == Spec => ReceiversAreNotMadeLouder
<1>1. IInv /\ [Next]_vars =>
        (\A s \in Receivers : Tells("opener") /\ threads["opener"].dev = {s} =>
             told'[s] <= told[s] \/ s \in doubtful)
  <2> SUFFICES ASSUME Shape, SaysTheVolume, NEW s \in Receivers, Tells("opener"),
                      threads["opener"].dev = {s}, s \notin doubtful
               PROVE  told'[s] <= told[s]
    BY DEF IInv
  <2>1. s \in Speakers /\ "opener" \in Threads
    BY VolumeAssumption, ThreadNames
  <2>2. IsOpen(s) /\ told'[s] = threads["opener"].says /\ threads["opener"].pc = "tell"
    BY <2>1 DEF Tells, At, Shape
  <2>3. QED
    BY <2>1, <2>2 DEF SaysTheVolume
<1>2. QED
  BY <1>1, IInvHolds, PTL DEF Spec, ReceiversAreNotMadeLouder

=============================================================================
