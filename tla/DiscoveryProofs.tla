-------------------------- MODULE DiscoveryProofs --------------------------
(***************************************************************************)
(* For any number of services, dialogs, threads and references: every      *)
(* listener knows the devices that are known whenever the discovery's      *)
(* mutex is free; and while an open that another thread begins meets no    *)
(* round of the discovery's thread, no operation is used that was stopped, *)
(* and an answer is taken for the service that was asked for.              *)
(*                                                                         *)
(* The first needs who is still to be told, in a round of the listeners;   *)
(* the second what every operation is for: who waits for it, what its      *)
(* results are, and where the thread is with it.                           *)
(***************************************************************************)
EXTENDS DeviceDiscovery, FiniteSetTheorems, SequenceTheorems, TLAPS

OpensApart == "open" \notin Overlap

-----------------------------------------------------------------------------
(* The inductive invariant. *)

About == Services \cup Waiters \cup {NoRef}

Questions == [kind : {"none", "browse", "txt", "resolve", "address"}, of : About]

Results == [what : {"found", "lost", "queried", "resolved", "address", "gone"}, of : About]

OneOf == Refs \cup {NoRef}

\* The operations that the daemon knows, and the list of those that run.
StoreTyped ==
    /\ live \subseteq Refs
    /\ asks \in [Refs -> Questions]
    /\ mail \in [Refs -> Seq(Results)]
    /\ active \in Seq(Refs)
    /\ IsInjective(active)

LoopTyped ==
    loop \in [pc : LoopPlaces, target : OneOf, next : OneOf, readable : SUBSET Refs, about : About]

DiscoveryTyped ==
    /\ up \in BOOLEAN
    /\ network \subseteq Services
    /\ discovery \in OneOf
    /\ services \in [DOMAIN services -> Services]
    /\ devices \subseteq Speakers
    /\ listeners \subseteq Listeners
    /\ heard \in [Listeners -> SUBSET Speakers]
    /\ tell \subseteq listeners
    /\ closing \subseteq Dialogs
    /\ inputs \in 0 .. MaxInputs

LookupTyped == lookup \in [Waiters -> [waits : BOOLEAN, ref : OneOf, set : BOOLEAN]]

Looks(r) == asks[r].kind \in {"resolve", "address"}

\* What is asked, and the results of it.
QuestionFits(q) ==
    /\ q.kind = "txt" => q.of \in Services
    /\ q.kind \in {"resolve", "address"} => q.of \in Waiters

Fits(m, q) ==
    \/ m.what = "gone"
    \/ m.what \in {"found", "lost"} /\ q.kind = "browse" /\ m.of \in Services
    \/ m.what = "queried" /\ q.kind = "txt" /\ m.of = q.of
    \/ m.what = "resolved" /\ q.kind = "resolve" /\ m.of = q.of
    \/ m.what = "address" /\ q.kind = "address" /\ m.of = q.of

MailFits ==
    \A r \in live : QuestionFits(asks[r]) /\ \A i \in 1 .. Len(mail[r]) : Fits(mail[r][i], asks[r])

\* What is in the list exists.
ActiveIsLive == \A r \in Refs : IsRunning(r) => r \in live

Store == StoreTyped /\ MailFits /\ ActiveIsLive

\* The list has one browsing, and queries only under it.
OneBrowses ==
    /\ discovery # NoRef => discovery \in live /\ asks[discovery].kind = "browse"
    /\ \A r \in Refs : IsRunning(r) /\ asks[r].kind = "browse" => r = discovery

NamesAreKept ==
    /\ \A r \in DOMAIN services : r \in live /\ asks[r].kind = "txt"
    /\ \A r \in Refs : IsRunning(r) /\ asks[r].kind = "txt" =>
           /\ IsRunning(discovery)
           /\ r \in DOMAIN services
           /\ services[r] = asks[r].of

\* A lookup and its operation know each other.
LookupsFit ==
    /\ \A w \in Waiters :
           /\ ~lookup[w].waits => lookup[w] = NoLookup
           /\ lookup[w].ref # NoRef =>
                  ~lookup[w].set /\ lookup[w].ref \in live /\ Looks(lookup[w].ref) /\ asks[lookup[w].ref].of = w
    /\ \A r \in live : Looks(r) => lookup[asks[r].of].ref = r
    /\ lookup[OwnThread].waits => LoopAt("await")

\* The thread.
Serving == {"call", "found", "lost", "queried", "resolved", "address"}

Alone == {"off", "leaving", "top"}

NextIsThere ==
    /\ loop.pc \in Alone => loop.next = NoRef
    /\ loop.next # NoRef => IsRunning(loop.next)
    /\ loop.pc \in Serving => loop.next # loop.target

ServesWhatIsThere ==
    /\ loop.pc \in Serving => loop.target \in Refs /\ IsRunning(loop.target)
    /\ loop.pc \in {"found", "lost"} => asks[loop.target].kind = "browse" /\ loop.about \in Services
    /\ LoopAt("queried") => asks[loop.target].kind = "txt"
    /\ LoopAt("resolved") => asks[loop.target].kind = "resolve"
    /\ LoopAt("address") => asks[loop.target].kind = "address"
    /\ loop.pc \in {"queried", "resolved", "address"} => loop.about = asks[loop.target].of

WaitsInPlace ==
    /\ LoopAt("keep") => loop.about \in Speakers
    /\ LoopAt("requery") => loop.about \in Openers /\ lookup[loop.about] = [waits |-> TRUE, ref |-> NoRef, set |-> FALSE]
    /\ LoopAt("await") => /\ lookup[OwnThread].waits /\ ~lookup[OwnThread].set
                          /\ lookup[OwnThread].ref # NoRef /\ lookup[OwnThread].ref # loop.next

Links == OneBrowses /\ NamesAreKept /\ LookupsFit /\ NextIsThere /\ ServesWhatIsThere /\ WaitsInPlace

Core == Store /\ LoopTyped /\ LookupTyped /\ Links /\ ~misused

SInv == Core /\ DiscoveryTyped

(***************************************************************************)
(* A round of the listeners: all but those still to be told know the       *)
(* devices, and those know them all but the one of the round.              *)
(***************************************************************************)
LoopShape == DOMAIN loop = {"pc", "target", "next", "readable", "about"}

RoundKnown ==
    /\ LoopShape
    /\ DOMAIN heard = Listeners
    /\ tell # {} => DiscoveryIsLocked
    /\ \A l \in listeners :
           devices \subseteq heard[l] \cup (IF l \in tell THEN {loop.about} ELSE {})

-----------------------------------------------------------------------------
(* Listeners. *)

LEMMA LoopMoves ==
    ASSUME LoopShape, NEW p, LoopGoes(p)
    PROVE  /\ loop'.pc = p /\ loop'.about = loop.about
           /\ loop'.target = loop.target /\ loop'.next = loop.next /\ loop'.readable = loop.readable
           /\ LoopShape'
  BY DEF LoopShape, LoopGoes

\* A step of the thread alone.
LEMMA LoopStepKeepsRound ==
    ASSUME RoundKnown, LoopShape', UNCHANGED <<listeners, devices, heard, tell>>,
           ~DiscoveryIsLocked \/ (DiscoveryIsLocked' /\ loop'.about = loop.about)
    PROVE  RoundKnown'
<1>1. CASE ~DiscoveryIsLocked
  <2>1. tell = {}
    BY <1>1 DEF RoundKnown
  <2>2. QED
    BY <2>1 DEF RoundKnown
<1>2. CASE DiscoveryIsLocked' /\ loop'.about = loop.about
  BY <1>2 DEF RoundKnown
<1>3. QED
  BY <1>1, <1>2

LEMMA UnlockedIsTold ==
    ASSUME RoundKnown, ~DiscoveryIsLocked
    PROVE  tell = {} /\ \A l \in listeners : devices \subseteq heard[l]
  BY DEF RoundKnown

LEMMA TellingKeepsRound ==
    ASSUME RoundKnown, NEW l \in Listeners, Notes(l), UNCHANGED <<listeners, devices>>,
           LoopShape', DiscoveryIsLocked', loop'.about = loop.about
    PROVE  RoundKnown'
<1>1. /\ tell' = tell \ {l} /\ DOMAIN heard' = Listeners
      /\ heard'[l] = (IF loop.about \in devices THEN heard[l] \cup {loop.about} ELSE heard[l] \ {loop.about})
      /\ \A m \in Listeners \ {l} : heard'[m] = heard[m]
  BY DEF Notes, RoundKnown
<1>2. ASSUME NEW m \in listeners
      PROVE  devices \subseteq heard'[m] \cup (IF m \in tell \ {l} THEN {loop.about} ELSE {})
  <2>1. devices \subseteq heard[m] \cup (IF m \in tell THEN {loop.about} ELSE {})
    BY DEF RoundKnown
  <2>2. CASE m = l
    BY <1>1, <2>1, <2>2
  <2>3. CASE m # l
    <3>1. m \in DOMAIN heard => heard'[m] = heard[m]
      BY <1>1, <2>3 DEF RoundKnown
    <3>2. heard'[m] = heard[m]
      BY <1>1, <2>3, <3>1 DEF Notes
    <3>3. QED
      BY <2>1, <2>3, <3>2
  <2>4. QED
    BY <2>2, <2>3
<1>3. QED
  BY <1>1, <1>2 DEF RoundKnown

LEMMA RoundNext == RoundKnown /\ [Next]_vars => RoundKnown'
<1> SUFFICES ASSUME RoundKnown, [Next]_vars
             PROVE  RoundKnown'
  OBVIOUS
<1>0. LoopShape
  BY DEF RoundKnown
<1>1. ASSUME UNCHANGED <<loop, listeners, devices, heard, tell>>
      PROVE  RoundKnown'
  BY <1>1 DEF RoundKnown, LoopShape, DiscoveryIsLocked
<1>2. ASSUME UNCHANGED <<listeners, devices, heard, tell>>, LoopShape', ~DiscoveryIsLocked
      PROVE  RoundKnown'
  BY <1>2, UnlockedIsTold DEF RoundKnown
<1>3. ASSUME LoopNext, UNCHANGED discoveryVars
      PROVE  RoundKnown'
  <2>1. UNCHANGED <<listeners, devices, heard, tell>>
    BY <1>3 DEF discoveryVars
  <2>2. ~DiscoveryIsLocked
    BY <1>3 DEF LoopNext, LoopEnds, LoopLeaves, LoopSelects, LoopGoesOn, DaemonIsGone, TakesResult,
                LoopAt, DiscoveryIsLocked
  <2>3. LoopShape'
    <3>1. CASE LoopEnds \/ LoopLeaves
      BY <1>0, <3>1, LoopMoves DEF LoopEnds, LoopLeaves
    <3>2. CASE LoopSelects \/ LoopGoesOn
      BY <3>2 DEF LoopSelects, LoopGoesOn, Serves, LoopShape, Loop
    <3>3. CASE DaemonIsGone
      BY <3>3 DEF DaemonIsGone, Loop, LoopShape
    <3>4. QED
      BY <1>3, <3>1, <3>2, <3>3 DEF LoopNext
  <2>4. QED
    BY <1>2, <2>1, <2>2, <2>3
<1>4. ASSUME NEW what, CallsBack(what), UNCHANGED discoveryVars
      PROVE  RoundKnown'
  <2>1. UNCHANGED <<listeners, devices, heard, tell>> /\ ~DiscoveryIsLocked
    BY <1>4 DEF discoveryVars, CallsBack, TakesResult, LoopAt, DiscoveryIsLocked
  <2>2. LoopShape'
    BY <1>0, <1>4 DEF CallsBack, LoopShape
  <2>3. QED
    BY <1>2, <2>1, <2>2
<1>5. CASE OnServiceFound
  <2>1. LoopShape' /\ ~DiscoveryIsLocked
    BY <1>0, <1>5, LoopMoves DEF OnServiceFound, CallbackEnds, LoopAt, DiscoveryIsLocked
  <2>2. QED
    BY <1>2, <1>5, <2>1 DEF OnServiceFound
<1>6. CASE OnServiceLost
  <2>1. ~DiscoveryIsLocked /\ loop'.about = loop.about /\ LoopShape'
    BY <1>0, <1>6, LoopMoves DEF OnServiceLost, CallbackEnds, LoopAt, DiscoveryIsLocked
  <2>2. tell = {} /\ \A l \in listeners : devices \subseteq heard[l]
    BY <2>1, UnlockedIsTold
  <2>3. tell' # {} => DiscoveryIsLocked'
    BY <1>0, <1>6, <2>2, LoopMoves DEF OnServiceLost, DiscoveryIsLocked
  <2>4. devices' \subseteq devices /\ UNCHANGED <<listeners, heard>>
    BY <1>6 DEF OnServiceLost
  <2>5. QED
    BY <2>1, <2>2, <2>3, <2>4 DEF RoundKnown
<1>7. CASE OnServiceQueried
  <2>1. LoopShape' /\ ~DiscoveryIsLocked
    BY <1>0, <1>7 DEF OnServiceQueried, LoopAt, LoopShape, DiscoveryIsLocked
  <2>2. QED
    BY <1>2, <1>7, <2>1 DEF OnServiceQueried
<1>8. CASE KeepsDevice
  <2>1. ~DiscoveryIsLocked /\ loop'.about = loop.about /\ LoopShape' /\ DiscoveryIsLocked'
    BY <1>0, <1>8, LoopMoves DEF KeepsDevice, LoopAt, DiscoveryIsLocked
  <2>2. \A l \in listeners : devices \subseteq heard[l]
    BY <2>1, UnlockedIsTold
  <2>3. devices' = devices \cup {loop.about} /\ tell' = listeners /\ UNCHANGED <<listeners, heard>>
    BY <1>8 DEF KeepsDevice
  <2>4. QED
    BY <2>1, <2>2, <2>3 DEF RoundKnown
<1>9. ASSUME NEW l \in Dialogs, TellsDialog(l)
      PROVE  RoundKnown'
  <2>1. /\ LoopShape' /\ DiscoveryIsLocked' /\ loop'.about = loop.about
        /\ UNCHANGED <<listeners, devices>> /\ l \in Listeners /\ Notes(l)
    BY <1>0, <1>9 DEF TellsDialog, serviceVars, LoopAt, LoopShape, DiscoveryIsLocked, Listeners
  <2>2. QED
    BY <2>1, TellingKeepsRound
<1>10. CASE TellsManager
  <2>1. LoopShape' /\ DiscoveryIsLocked' /\ loop'.about = loop.about
    <3>1. CASE UNCHANGED loop
      BY <1>0, <1>10, <3>1 DEF TellsManager, LoopAt, LoopShape, DiscoveryIsLocked
    <3>2. CASE LoopGoes("open")
      BY <1>0, <3>2, LoopMoves DEF DiscoveryIsLocked
    <3>3. QED
      BY <1>10, <3>1, <3>2 DEF TellsManager
  <2>2. UNCHANGED <<listeners, devices>> /\ Manager \in Listeners /\ Notes(Manager)
    BY <1>10 DEF TellsManager, Listeners
  <2>3. QED
    BY <2>1, <2>2, TellingKeepsRound
<1>11. CASE AllAreTold
  <2>1. LoopShape' /\ tell = {} /\ UNCHANGED <<listeners, devices, heard, tell>>
    BY <1>0, <1>11, LoopMoves DEF AllAreTold, CallbackEnds, discoveryVars
  <2>2. QED
    BY <2>1 DEF RoundKnown
<1>12. CASE OwnOpenIsVain \/ OwnOpenBegins \/ OwnOpenEnds \/ OwnOpenFailed
  <2>1. PICK p \in {"tell", "fail", "await"} : LoopGoes(p)
    BY <1>12 DEF OwnOpenIsVain, OwnOpenBegins, OwnOpenEnds, OwnOpenFailed
  <2>2. LoopShape' /\ DiscoveryIsLocked' /\ loop'.about = loop.about
    BY <1>0, <2>1, LoopMoves DEF DiscoveryIsLocked
  <2>3. UNCHANGED <<listeners, devices, heard, tell>>
    BY <1>12 DEF OwnOpenIsVain, OwnOpenBegins, OwnOpenEnds, OwnOpenFailed, LookupBegins, LookupEnds, discoveryVars
  <2>4. QED
    BY <2>2, <2>3, LoopStepKeepsRound
<1>13. CASE OnServiceResolved \/ OnAddressQueried \/ ConnectorAsks
  <2>1. PICK p : LoopGoes(p)
    BY <1>13 DEF OnServiceResolved, OnAddressQueried, ConnectorAsks, ConnectorStops, CallbackEnds
  <2>2. LoopShape'
    BY <1>0, <2>1, LoopMoves
  <2>3. ~DiscoveryIsLocked /\ UNCHANGED <<listeners, devices, heard, tell>>
    BY <1>13 DEF OnServiceResolved, OnAddressQueried, ConnectorAsks, ConnectorStops, LoopAt, DiscoveryIsLocked
  <2>4. QED
    BY <1>2, <2>2, <2>3
<1>14. ASSUME NEW l \in Listeners, AddListener(l)
       PROVE  RoundKnown'
  <2>1. ~DiscoveryIsLocked /\ listeners' = listeners \cup {l} /\ tell' = tell
        /\ heard' = [heard EXCEPT ![l] = devices']
    BY <1>14 DEF AddListener, ToldOnJoining
  <2>2. tell = {} /\ \A m \in listeners : devices \subseteq heard[m]
    BY <2>1, UnlockedIsTold
  <2>3. devices' \subseteq devices
    BY <1>14 DEF AddListener, Browses
  <2>4. LoopShape'
    <3>1. ThreadStarts \/ UNCHANGED loop
      BY <1>14 DEF AddListener
    <3>2. QED
      BY <1>0, <3>1, LoopMoves DEF ThreadStarts, LoopShape
  <2>5. \A m \in Listeners : heard'[m] = IF m = l THEN devices' ELSE heard[m]
    BY <2>1 DEF RoundKnown
  <2>6. ASSUME NEW m \in listeners'
        PROVE  devices' \subseteq heard'[m]
    <3>1. CASE m = l
      BY <2>5, <3>1
    <3>2. CASE m # l
      <4>1. heard'[m] = heard[m]
        BY <2>1, <3>2 DEF RoundKnown
      <4>2. QED
        BY <2>1, <2>2, <2>3, <2>6, <3>2, <4>1
    <3>3. QED
      BY <3>1, <3>2
  <2>7. DOMAIN heard' = Listeners
    BY <2>1 DEF RoundKnown
  <2>8. QED
    BY <2>1, <2>2, <2>4, <2>6, <2>7 DEF RoundKnown
<1>15. ASSUME NEW l \in Dialogs, RemoveListener(l)
       PROVE  RoundKnown'
  BY <1>15 DEF RemoveListener, serviceVars, RoundKnown, LoopShape, DiscoveryIsLocked
<1>16. ASSUME NEW o \in Openers, OpenerBegins(o)
       PROVE  RoundKnown'
  <2>1. UNCHANGED <<listeners, devices, heard, tell>> /\ (UNCHANGED loop \/ (LoopAt("off") /\ LoopGoes("top")))
    <3>1. PICK r \in Refs : LookupBegins(o, r)
      BY <1>16 DEF OpenerBegins
    <3>2. ThreadStarts
      BY <1>16 DEF OpenerBegins
    <3>3. UNCHANGED <<listeners, devices, heard, tell>>
      BY <3>1 DEF LookupBegins
    <3>4. UNCHANGED loop \/ (LoopAt("off") /\ LoopGoes("top"))
      BY <3>2 DEF ThreadStarts
    <3>5. QED
      BY <3>3, <3>4
  <2>2. CASE UNCHANGED loop
    BY <1>1, <2>1, <2>2
  <2>3. CASE LoopAt("off") /\ LoopGoes("top")
    <3>1. LoopShape' /\ ~DiscoveryIsLocked
      BY <1>0, <2>3, LoopMoves DEF LoopAt, DiscoveryIsLocked
    <3>2. QED
      BY <1>2, <2>1, <3>1
  <2>4. QED
    BY <2>1, <2>2, <2>3
<1>17. ASSUME NEW o \in Openers, OpenerEnds(o)
       PROVE  RoundKnown'
  BY <1>1, <1>17 DEF OpenerEnds, LookupEnds
<1>18. ASSUME NEW l \in Dialogs, DialogWaits(l)
       PROVE  RoundKnown'
  BY <1>1, <1>18 DEF DialogWaits, serviceVars
<1>19. ASSUME NEW s \in Services, Announce(s) \/ Withdraw(s)
       PROVE  RoundKnown'
  BY <1>1, <1>19 DEF Announce, Withdraw
<1>20. ASSUME NEW r \in Refs, AnswersConnector(r) \/ AnswersQuery(r)
       PROVE  RoundKnown'
  BY <1>1, <1>20 DEF AnswersConnector, AnswersQuery, Answers, discoveryVars
<1>21. CASE DaemonStops \/ DaemonStarts
  BY <1>1, <1>21 DEF DaemonStops, DaemonStarts, DaemonEnds, DaemonBegins
<1>22. CASE UNCHANGED vars
  BY <1>1, <1>22 DEF vars, serviceVars, discoveryVars
<1>23. QED
  BY <1>3, <1>4, <1>5, <1>6, <1>7, <1>8, <1>9, <1>10, <1>11, <1>12, <1>13, <1>14, <1>15, <1>16, <1>17,
     <1>18, <1>19, <1>20, <1>21, <1>22 DEF Next, LoopSteps, Inputs

(***************************************************************************)
(* Whenever the discovery's mutex is free, everyone who listens lists      *)
(* every device that is known, whatever overlaps: addListener() tells a    *)
(* new listener of them under the mutex under which a callback changes     *)
(* them and tells the others (DeviceDiscovery.cpp:103-124, 160-237).       *)
(***************************************************************************)
THEOREM ListenersAlwaysKnow == Spec => []ListenersKnowDevices
<1>1. Init => RoundKnown
  BY DEF Init, ServiceInit, Loop, RoundKnown, LoopShape
<1>2. RoundKnown /\ [Next]_vars => RoundKnown'
  BY RoundNext
<1>3. RoundKnown => ListenersKnowDevices
  BY DEF RoundKnown, ListenersKnowDevices
<1>4. QED
  BY <1>1, <1>2, <1>3, PTL DEF Spec

-----------------------------------------------------------------------------
(* The list of operations. *)

LEMMA PlaceFound ==
    ASSUME active \in Seq(Refs), IsInjective(active), NEW i \in 1 .. Len(active)
    PROVE  PlaceOf(active[i]) = i
  BY DEF PlaceOf, IsInjective

LEMMA WithoutOne ==
    ASSUME active \in Seq(Refs), IsInjective(active), NEW r \in Refs
    PROVE  /\ Without(r) \in Seq(Refs)
           /\ IsInjective(Without(r))
           /\ \A q : Contains(Without(r), q) <=> IsRunning(q) /\ q # r
<1>1. CASE ~IsRunning(r)
  BY <1>1 DEF Without, IsRunning, Contains
<1>2. CASE IsRunning(r)
  <2>1. PICK p \in 1 .. Len(active) : active[p] = r
    BY <1>2 DEF IsRunning, Contains
  <2>2. PICK n \in Nat : n = Len(active)
    OBVIOUS
  <2> DEFINE before == SubSeq(active, 1, p - 1)
             behind == SubSeq(active, p + 1, n)
             rest == before \o behind
  <2>3. Without(r) = rest
    BY <1>2, <2>1, <2>2, PlaceFound DEF Without, RemoveAt
  <2>4. /\ before \in Seq(Refs) /\ Len(before) = p - 1
        /\ \A i \in 1 .. p - 1 : before[i] = active[i]
    <3>1. \A i \in 1 .. p - 1 : active[i] \in Refs
      BY <2>1, <2>2
    <3>2. 1 \in Int /\ p - 1 \in Int
      BY <2>1, <2>2
    <3>3. /\ before \in Seq(Refs) /\ Len(before) = (IF 1 <= p - 1 THEN p - 1 - 1 + 1 ELSE 0)
          /\ \A i \in 1 .. p - 1 - 1 + 1 : before[i] = active[1 + i - 1]
      BY <3>1, <3>2, SubSeqProperties
    <3>4. QED
      BY <2>1, <2>2, <3>3
  <2>5. /\ behind \in Seq(Refs) /\ Len(behind) = n - p
        /\ \A i \in 1 .. n - p : behind[i] = active[p + i]
    <3>1. \A i \in p + 1 .. n : active[i] \in Refs
      BY <2>1, <2>2
    <3>2. p + 1 \in Int /\ n \in Int
      BY <2>1, <2>2
    <3>3. /\ behind \in Seq(Refs) /\ Len(behind) = (IF p + 1 <= n THEN n - (p + 1) + 1 ELSE 0)
          /\ \A i \in 1 .. n - (p + 1) + 1 : behind[i] = active[p + 1 + i - 1]
      BY <3>1, <3>2, SubSeqProperties
    <3>4. QED
      BY <2>1, <2>2, <3>3
  <2> HIDE DEF before, behind
  <2>6. /\ rest \in Seq(Refs) /\ Len(rest) = n - 1
        /\ \A i \in 1 .. n - 1 : rest[i] = active[IF i < p THEN i ELSE i + 1]
    <3>1. /\ rest \in Seq(Refs) /\ Len(rest) = Len(before) + Len(behind)
          /\ \A i \in 1 .. Len(before) + Len(behind) :
                 rest[i] = IF i <= Len(before) THEN before[i] ELSE behind[i - Len(before)]
      BY <2>4, <2>5, ConcatProperties
    <3>2. Len(before) + Len(behind) = n - 1
      BY <2>1, <2>2, <2>4, <2>5
    <3>3. ASSUME NEW i \in 1 .. n - 1
          PROVE  rest[i] = active[IF i < p THEN i ELSE i + 1]
      <4>1. CASE i < p
        BY <2>1, <2>2, <2>4, <3>1, <3>2, <4>1
      <4>2. CASE ~(i < p)
        <5>1. i - (p - 1) \in 1 .. n - p /\ p + (i - (p - 1)) = i + 1
          BY <2>1, <2>2, <4>2
        <5>2. rest[i] = behind[i - (p - 1)]
          BY <2>1, <2>2, <2>4, <3>1, <3>2, <4>2
        <5>3. QED
          BY <2>5, <4>2, <5>1, <5>2
      <4>3. QED
        BY <4>1, <4>2
    <3>4. QED
      BY <3>1, <3>2, <3>3
  <2> HIDE DEF rest
  <2>7. IsInjective(rest)
    <3>1. ASSUME NEW i \in 1 .. n - 1, NEW j \in 1 .. n - 1, rest[i] = rest[j]
          PROVE  i = j
      <4> DEFINE a == IF i < p THEN i ELSE i + 1
                 b == IF j < p THEN j ELSE j + 1
      <4>1. a \in 1 .. n /\ b \in 1 .. n /\ rest[i] = active[a] /\ rest[j] = active[b]
        BY <2>1, <2>2, <2>6
      <4>2. a = b
        <5> HIDE DEF a, b
        <5>1. DOMAIN active = 1 .. n
          BY <2>2
        <5>2. active[a] = active[b]
          BY <3>1, <4>1
        <5>3. QED
          BY <4>1, <5>1, <5>2 DEF IsInjective
      <4>3. QED
        BY <2>1, <4>2
    <3>2. DOMAIN rest = 1 .. n - 1
      BY <2>6
    <3>3. QED
      BY <3>1, <3>2 DEF IsInjective
  <2>8. ASSUME NEW q
        PROVE  Contains(rest, q) <=> IsRunning(q) /\ q # r
    <3>1. ASSUME NEW i \in 1 .. n - 1, rest[i] = q
          PROVE  IsRunning(q) /\ q # r
      <4>1. PICK j \in 1 .. n : j # p /\ active[j] = q
        BY <2>1, <2>2, <2>6, <3>1
      <4>2. QED
        BY <2>1, <2>2, <4>1 DEF IsRunning, Contains, IsInjective
    <3>2. ASSUME NEW j \in 1 .. n, active[j] = q, q # r
          PROVE  \E i \in 1 .. n - 1 : rest[i] = q
      <4>1. CASE j < p
        BY <2>1, <2>2, <2>6, <3>2, <4>1
      <4>2. CASE j > p
        <5>1. j - 1 \in 1 .. n - 1 /\ ~(j - 1 < p) /\ j - 1 + 1 = j
          BY <2>1, <2>2, <4>2
        <5>2. QED
          BY <2>6, <3>2, <5>1
      <4>3. QED
        BY <2>1, <2>2, <3>2, <4>1, <4>2
    <3>3. QED
      BY <2>2, <2>6, <3>1, <3>2 DEF Contains, IsRunning
  <2>9. QED
    BY <2>3, <2>6, <2>7, <2>8
<1>3. QED
  BY <1>1, <1>2

LEMMA WithOneMore ==
    ASSUME active \in Seq(Refs), IsInjective(active), NEW r \in Refs, ~IsRunning(r)
    PROVE  /\ Append(active, r) \in Seq(Refs)
           /\ IsInjective(Append(active, r))
           /\ \A q : Contains(Append(active, r), q) <=> (IsRunning(q) \/ q = r)
<1>1. PICK n \in Nat : n = Len(active)
  OBVIOUS
<1>2. /\ Append(active, r) \in Seq(Refs) /\ Len(Append(active, r)) = n + 1
      /\ \A i \in 1 .. n + 1 : Append(active, r)[i] = IF i = n + 1 THEN r ELSE active[i]
  BY <1>1
<1>3. \A i \in 1 .. n : active[i] # r
  BY <1>1 DEF IsRunning, Contains
<1>4. IsInjective(Append(active, r))
  BY <1>1, <1>2, <1>3 DEF IsInjective
<1>5. ASSUME NEW q
      PROVE  Contains(Append(active, r), q) <=> (IsRunning(q) \/ q = r)
  BY <1>1, <1>2 DEF Contains, IsRunning
<1>6. QED
  BY <1>2, <1>4, <1>5

\* What the iterator points at.
LEMMA SuccessorIsOther ==
    ASSUME active \in Seq(Refs), IsInjective(active), NEW i \in 1 .. Len(active)
    PROVE  /\ Successor(active[i]) \in OneOf
           /\ Successor(active[i]) # NoRef => IsRunning(Successor(active[i]))
           /\ Successor(active[i]) # active[i]
<1>1. PICK n \in Nat : n = Len(active)
  OBVIOUS
<1>2. Successor(active[i]) = IF i = n THEN NoRef ELSE active[i + 1]
  BY <1>1, PlaceFound DEF Successor
<1>3. CASE i = n
  BY <1>1, <1>2, <1>3, RefAssumption DEF OneOf
<1>4. CASE i # n
  <2>1. i + 1 \in 1 .. n /\ i + 1 # i
    BY <1>1, <1>4
  <2>2. QED
    BY <1>1, <1>2, <1>4, <2>1 DEF OneOf, IsRunning, Contains, IsInjective
<1>5. QED
  BY <1>3, <1>4

LEMMA ServesOne ==
    ASSUME StoreTyped, NEW ready, NEW from, Serves(ready, from)
    PROVE  \/ loop' = Loop("top")
           \/ \E t \in Refs, next \in OneOf :
                  /\ IsRunning(t) /\ t \in ready
                  /\ next # t /\ (next # NoRef => IsRunning(next))
                  /\ loop' = [pc |-> "call", target |-> t, next |-> next, readable |-> ready, about |-> NoRef]
<1> SUFFICES ASSUME loop' # Loop("top")
             PROVE  \E t \in Refs, next \in OneOf :
                        /\ IsRunning(t) /\ t \in ready
                        /\ next # t /\ (next # NoRef => IsRunning(next))
                        /\ loop' = [pc |-> "call", target |-> t, next |-> next, readable |-> ready, about |-> NoRef]
  OBVIOUS
<1>1. PICK i \in 1 .. Len(active) :
        /\ active[i] \in ready
        /\ loop' = [pc |-> "call", target |-> active[i], next |-> Successor(active[i]),
                    readable |-> ready, about |-> NoRef]
  BY DEF Serves
<1>2. active[i] \in Refs /\ IsRunning(active[i])
  BY DEF StoreTyped, IsRunning, Contains
<1>3. /\ Successor(active[i]) \in OneOf
      /\ Successor(active[i]) # NoRef => IsRunning(Successor(active[i]))
      /\ Successor(active[i]) # active[i]
  BY SuccessorIsOther DEF StoreTyped
<1>4. QED
  BY <1>1, <1>2, <1>3

-----------------------------------------------------------------------------
(* What a step does to the operations. *)

\* One more, r, that q is asked of.
Grows(r, q) ==
    /\ r \in Refs \ live /\ ~IsRunning(r) /\ r # loop.next
    /\ live' = live \cup {r}
    /\ \A x \in Refs : asks'[x] = IF x = r THEN q ELSE asks[x]
    /\ \A x : IsRunning(x)' <=> (IsRunning(x) \/ x = r)

\* One less.
Shrinks(r) ==
    /\ live' = live \ {r}
    /\ \A x \in Refs : asks'[x] = IF x = r THEN NoQuestion ELSE asks[x]
    /\ \A x : IsRunning(x)' <=> (IsRunning(x) /\ x # r)

LEMMA AskGrows ==
    ASSUME Store, NEW r \in Refs, NEW q \in Questions, QuestionFits(q),
           NEW results \in Seq(Results), \A i \in 1 .. Len(results) : Fits(results[i], q),
           Ask(r, q, results)
    PROVE  Grows(r, q) /\ Store'
<1>1. /\ r \in Refs \ live /\ ~IsRunning(r) /\ r # loop.next
      /\ live' = live \cup {r}
      /\ asks' = [asks EXCEPT ![r] = q]
      /\ mail' = [mail EXCEPT ![r] = results]
      /\ active' = Append(active, r)
  BY DEF Ask
<1>2. /\ active' \in Seq(Refs) /\ IsInjective(active')
      /\ \A x : IsRunning(x)' <=> (IsRunning(x) \/ x = r)
  BY <1>1, WithOneMore DEF Store, StoreTyped, IsRunning
<1>3. /\ \A x \in Refs : asks'[x] = IF x = r THEN q ELSE asks[x]
      /\ \A x \in Refs : mail'[x] = IF x = r THEN results ELSE mail[x]
      /\ asks' \in [Refs -> Questions] /\ mail' \in [Refs -> Seq(Results)]
  BY <1>1 DEF Store, StoreTyped
<1>4. StoreTyped'
  BY <1>1, <1>2, <1>3 DEF Store, StoreTyped, Questions, Results, About, Waiters
<1>5. MailFits'
  <2> SUFFICES ASSUME NEW x \in live'
               PROVE  QuestionFits(asks'[x]) /\ \A i \in 1 .. Len(mail'[x]) : Fits(mail'[x][i], asks'[x])
    BY DEF MailFits, QuestionFits, Fits, Waiters
  <2>1. x \in Refs /\ (x # r => x \in live)
    BY <1>1 DEF Store, StoreTyped
  <2>2. CASE x = r
    BY <1>3, <2>2
  <2>3. CASE x # r
    BY <1>3, <2>1, <2>3 DEF Store, MailFits
  <2>4. QED
    BY <2>2, <2>3
<1>6. ActiveIsLive'
  BY <1>1, <1>2 DEF Store, ActiveIsLive
<1>7. QED
  BY <1>1, <1>2, <1>3, <1>4, <1>5, <1>6 DEF Grows, Store

LEMMA NothingAsked ==
    /\ NoQuestion \in Questions
    /\ <<>> \in Seq(Results)
    /\ \A q : \A i \in 1 .. Len(<<>>) : Fits(<<>>[i], q)
  BY DEF NoQuestion, Questions, About

LEMMA StopShrinks ==
    ASSUME Store, NEW r \in Refs, live' = live \ {r}, active' = Without(r),
           asks' = [asks EXCEPT ![r] = NoQuestion], mail' = [mail EXCEPT ![r] = <<>>]
    PROVE  Shrinks(r) /\ Store'
<1>1. /\ active' \in Seq(Refs) /\ IsInjective(active')
      /\ \A x : IsRunning(x)' <=> (IsRunning(x) /\ x # r)
  BY WithoutOne DEF Store, StoreTyped, IsRunning
<1>2. /\ \A x \in Refs : asks'[x] = IF x = r THEN NoQuestion ELSE asks[x]
      /\ \A x \in Refs : mail'[x] = IF x = r THEN <<>> ELSE mail[x]
      /\ asks' \in [Refs -> Questions] /\ mail' \in [Refs -> Seq(Results)]
  BY NothingAsked DEF Store, StoreTyped
<1>3. StoreTyped'
  BY <1>1, <1>2 DEF Store, StoreTyped, Questions, Results, About, Waiters
<1>4. MailFits'
  <2> SUFFICES ASSUME NEW x \in live'
               PROVE  QuestionFits(asks'[x]) /\ \A i \in 1 .. Len(mail'[x]) : Fits(mail'[x][i], asks'[x])
    BY DEF MailFits, QuestionFits, Fits, Waiters
  <2>1. x \in Refs /\ x # r /\ x \in live
    BY DEF Store, StoreTyped
  <2>2. QED
    BY <1>2, <2>1 DEF Store, MailFits
<1>5. ActiveIsLive'
  BY <1>1 DEF Store, ActiveIsLive
<1>6. QED
  BY <1>1, <1>2, <1>3, <1>4, <1>5 DEF Shrinks, Store

\* A step that only the mail has a part in.
LEMMA MailKeepsStore ==
    ASSUME Store, UNCHANGED <<live, asks, active>>, mail' \in [Refs -> Seq(Results)],
           \A r \in live : \A i \in 1 .. Len(mail'[r]) : Fits(mail'[r][i], asks[r])
    PROVE  Store'
<1>1. StoreTyped'
  BY DEF Store, StoreTyped, Questions, Results, About, Waiters
<1>2. MailFits'
  BY DEF Store, MailFits, QuestionFits, Fits, Waiters
<1>3. ActiveIsLive'
  BY DEF Store, ActiveIsLive, IsRunning
<1>4. QED
  BY <1>1, <1>2, <1>3 DEF Store

LEMMA SameStore ==
    ASSUME Store, UNCHANGED <<live, asks, mail, active>>
    PROVE  Store'
<1>1. mail' \in [Refs -> Seq(Results)] /\ \A r \in live : \A i \in 1 .. Len(mail'[r]) : Fits(mail'[r][i], asks[r])
  BY DEF Store, StoreTyped, MailFits
<1>2. QED
  BY <1>1, MailKeepsStore

LEMMA SendKeepsStore ==
    ASSUME Store, UNCHANGED <<live, asks, active>>, NEW r \in live, NEW what, NEW of,
           [what |-> what, of |-> of] \in Results, Fits([what |-> what, of |-> of], asks[r]),
           Sends(r, what, of)
    PROVE  Store'
<1> DEFINE m == [what |-> what, of |-> of]
<1>1. r \in Refs /\ mail \in [Refs -> Seq(Results)] /\ mail' = [mail EXCEPT ![r] = Append(mail[r], m)]
  BY DEF Store, StoreTyped, Sends
<1>2. m \in Results /\ Fits(m, asks[r])
  OBVIOUS
<1> HIDE DEF m
<1>3. /\ Append(mail[r], m) \in Seq(Results)
      /\ \A i \in 1 .. Len(Append(mail[r], m)) : Append(mail[r], m)[i] = m \/ (i \in 1 .. Len(mail[r]) /\ Append(mail[r], m)[i] = mail[r][i])
  BY <1>1, <1>2
<1>4. mail' \in [Refs -> Seq(Results)] /\ \A x \in Refs : mail'[x] = IF x = r THEN Append(mail[r], m) ELSE mail[x]
  BY <1>1, <1>3
<1>5. ASSUME NEW x \in live, NEW i \in 1 .. Len(mail'[x])
      PROVE  Fits(mail'[x][i], asks[x])
  <2>1. x \in Refs
    BY DEF Store, StoreTyped
  <2>2. CASE x = r
    <3>1. mail'[x][i] = m \/ (i \in 1 .. Len(mail[r]) /\ mail'[x][i] = mail[r][i])
      BY <1>3, <1>4, <1>5, <2>1, <2>2
    <3>2. QED
      BY <1>2, <2>2, <3>1 DEF Store, MailFits
  <2>3. CASE x # r
    BY <1>4, <1>5, <2>1, <2>3 DEF Store, MailFits
  <2>4. QED
    BY <2>2, <2>3
<1>6. QED
  BY <1>4, <1>5, MailKeepsStore

\* The thread takes a result.
LEMMA TakenFits ==
    ASSUME Store, loop.target \in Refs, NEW what, TakesResult(what)
    PROVE  /\ mail' \in [Refs -> Seq(Results)]
           /\ \A r \in live : \A i \in 1 .. Len(mail'[r]) : Fits(mail'[r][i], asks[r])
           /\ Head(mail[loop.target]) \in Results
           /\ Head(mail[loop.target]).what = what
           /\ loop.target \in live => Fits(Head(mail[loop.target]), asks[loop.target])
<1> DEFINE t == loop.target
<1>1. t \in Refs /\ mail[t] \in Seq(Results) /\ mail[t] # <<>> /\ mail' = [mail EXCEPT ![t] = Tail(mail[t])]
      /\ Head(mail[t]).what = what /\ mail \in [Refs -> Seq(Results)]
  BY DEF Store, StoreTyped, TakesResult
<1> HIDE DEF t
<1>2. /\ Head(mail[t]) \in Results /\ Head(mail[t]) = mail[t][1] /\ 1 \in 1 .. Len(mail[t])
      /\ Tail(mail[t]) \in Seq(Results)
      /\ \A i \in 1 .. Len(Tail(mail[t])) : i + 1 \in 1 .. Len(mail[t]) /\ Tail(mail[t])[i] = mail[t][i + 1]
  BY <1>1
<1>3. mail' \in [Refs -> Seq(Results)] /\ \A x \in Refs : mail'[x] = IF x = t THEN Tail(mail[t]) ELSE mail[x]
  BY <1>1, <1>2
<1>4. ASSUME NEW x \in live, NEW i \in 1 .. Len(mail'[x])
      PROVE  Fits(mail'[x][i], asks[x])
  <2>1. x \in Refs
    BY DEF Store, StoreTyped
  <2>2. CASE x = t
    BY <1>2, <1>3, <1>4, <2>1, <2>2 DEF Store, MailFits
  <2>3. CASE x # t
    BY <1>3, <1>4, <2>1, <2>3 DEF Store, MailFits
  <2>4. QED
    BY <2>2, <2>3
<1>5. t \in live => Fits(Head(mail[t]), asks[t])
  BY <1>2 DEF Store, MailFits
<1>6. QED
  BY <1>1, <1>2, <1>3, <1>4, <1>5 DEF t

LEMMA TakeKeepsStore ==
    ASSUME Store, UNCHANGED <<live, asks, active>>, loop.target \in Refs, NEW what, TakesResult(what)
    PROVE  /\ Store'
           /\ Head(mail[loop.target]) \in Results
           /\ Head(mail[loop.target]).what = what
           /\ loop.target \in live => Fits(Head(mail[loop.target]), asks[loop.target])
  BY TakenFits, MailKeepsStore

\* The daemon ends: a last result for everyone.
LEMMA EndKeepsStore ==
    ASSUME Store, DaemonEnds
    PROVE  Store'
<1> DEFINE m == [what |-> "gone", of |-> NoRef]
<1>1. /\ mail' = [r \in Refs |-> IF r \in live THEN Append(mail[r], m) ELSE mail[r]]
      /\ mail \in [Refs -> Seq(Results)] /\ live \subseteq Refs
      /\ UNCHANGED <<live, asks, active>>
  BY DEF Store, StoreTyped, DaemonEnds
<1>2. m \in Results /\ \A q : Fits(m, q)
  BY DEF Results, About, Fits
<1> HIDE DEF m
<1>3. ASSUME NEW r \in live
      PROVE  /\ Append(mail[r], m) \in Seq(Results)
             /\ \A i \in 1 .. Len(Append(mail[r], m)) : Append(mail[r], m)[i] = m \/ (i \in 1 .. Len(mail[r]) /\ Append(mail[r], m)[i] = mail[r][i])
  BY <1>1, <1>2
<1>4. mail' \in [Refs -> Seq(Results)]
  BY <1>1, <1>3
<1>5. ASSUME NEW x \in live, NEW i \in 1 .. Len(mail'[x])
      PROVE  Fits(mail'[x][i], asks[x])
  <2>1. mail'[x] = Append(mail[x], m)
    BY <1>1
  <2>2. mail'[x][i] = m \/ (i \in 1 .. Len(mail[x]) /\ mail'[x][i] = mail[x][i])
    BY <1>3, <1>5, <2>1
  <2>3. QED
    BY <1>2, <2>2 DEF Store, MailFits
<1>6. QED
  BY <1>1, <1>4, <1>5, MailKeepsStore

-----------------------------------------------------------------------------
(* What a step does to the links between the operations and who uses them. *)

LEMMA LoopGoesTo ==
    ASSUME LoopTyped, NEW p \in LoopPlaces, LoopGoes(p)
    PROVE  /\ loop'.pc = p /\ loop'.target = loop.target /\ loop'.next = loop.next
           /\ loop'.readable = loop.readable /\ loop'.about = loop.about
           /\ LoopTyped'
  BY DEF LoopTyped, LoopGoes, About, Waiters, OneOf, LoopPlaces

LEMMA SameNames ==
    ASSUME Links, UNCHANGED <<live, asks, active, discovery, services>>
    PROVE  OneBrowses' /\ NamesAreKept'
  BY DEF Links, OneBrowses, NamesAreKept, IsRunning

LEMMA SameLookups ==
    ASSUME Links, UNCHANGED <<live, asks, lookup>>, ~LoopAt("await")
    PROVE  LookupsFit'
  BY DEF Links, LookupsFit, Looks, Waiters

\* A step that has a part in none of it.
LEMMA SameLinks ==
    ASSUME Links, UNCHANGED <<live, asks, active, loop, discovery, services, lookup>>
    PROVE  Links'
<1>1. OneBrowses' /\ NamesAreKept'
  BY SameNames
<1>2. LookupsFit' /\ NextIsThere' /\ ServesWhatIsThere' /\ WaitsInPlace'
  BY DEF Links, LookupsFit, Looks, Waiters, LoopAt, NextIsThere, ServesWhatIsThere, WaitsInPlace, IsRunning
<1>3. QED
  BY <1>1, <1>2 DEF Links

\* A step of the thread from a place and to one where it has nothing in hand.
Plain == LoopPlaces \ (Serving \cup {"keep", "requery", "await"})

LEMMA MoveKeepsLinks ==
    ASSUME Core, UNCHANGED <<live, asks, active, discovery, services, lookup>>, ~LoopAt("await"),
           NEW p \in Plain, LoopGoes(p), p \in Alone => loop.next = NoRef
    PROVE  Links' /\ LoopTyped'
<1>1. p \in LoopPlaces /\ LoopTyped
  BY DEF Plain, Core
<1>2. loop'.pc = p /\ loop'.next = loop.next /\ LoopTyped'
  BY <1>1, LoopGoesTo
<1>3. OneBrowses' /\ NamesAreKept' /\ LookupsFit'
  BY SameNames, SameLookups DEF Core
<1>4. NextIsThere'
  BY <1>2 DEF NextIsThere, Core, Links, IsRunning, Plain
<1>5. ServesWhatIsThere' /\ WaitsInPlace'
  BY <1>2 DEF ServesWhatIsThere, WaitsInPlace, Plain, LoopAt, Serving
<1>6. QED
  BY <1>2, <1>3, <1>4, <1>5 DEF Links

\* An operation that a connector begins or ends.
LEMMA LookupKeepsNames ==
    ASSUME Store, Links, NEW r \in Refs, UNCHANGED <<discovery, services>>,
           (\E q : Grows(r, q) /\ q.kind \in {"resolve", "address"}) \/ (Shrinks(r) /\ r \in live /\ Looks(r))
    PROVE  OneBrowses' /\ NamesAreKept'
<1>1. live \subseteq Refs
  BY DEF Store, StoreTyped
<1>2. CASE \E q : Grows(r, q) /\ q.kind \in {"resolve", "address"}
  <2>1. PICK q : Grows(r, q) /\ q.kind \in {"resolve", "address"}
    BY <1>2
  <2>2. OneBrowses'
    BY <1>1, <2>1 DEF Grows, Links, OneBrowses
  <2>3. NamesAreKept'
    BY <1>1, <2>1 DEF Grows, Links, NamesAreKept
  <2>4. QED
    BY <2>2, <2>3
<1>3. CASE Shrinks(r) /\ r \in live /\ Looks(r)
  <2>1. OneBrowses'
    BY <1>1, <1>3 DEF Shrinks, Looks, NoQuestion, Links, OneBrowses
  <2>2. NamesAreKept'
    <3>1. r \notin DOMAIN services /\ r # discovery
      BY <1>3, RefAssumption DEF Looks, Links, NamesAreKept, OneBrowses
    <3>2. QED
      BY <1>1, <1>3, <3>1 DEF Shrinks, NoQuestion, Links, NamesAreKept
  <2>3. QED
    BY <2>1, <2>2
<1>4. QED
  BY <1>2, <1>3

\* What the thread has in hand stays when another operation begins.
LEMMA GrowthKeepsLoop ==
    ASSUME Store, Links, LoopTyped, NEW r \in Refs, NEW q, Grows(r, q), UNCHANGED loop
    PROVE  NextIsThere' /\ ServesWhatIsThere'
<1>1. NextIsThere'
  BY DEF Grows, Links, NextIsThere
<1>2. ServesWhatIsThere'
  <2>1. loop.pc \in Serving => loop.target \in Refs /\ IsRunning(loop.target) /\ loop.target \in live
    BY DEF Links, ServesWhatIsThere, Store, ActiveIsLive
  <2>2. loop.pc \in Serving => loop.target # r /\ asks'[loop.target] = asks[loop.target]
    BY <2>1 DEF Grows
  <2>3. loop.pc \in Serving => IsRunning(loop.target)'
    BY <2>1 DEF Grows
  <2>4. QED
    BY <2>1, <2>2, <2>3 DEF Links, ServesWhatIsThere, Serving, LoopAt
<1>3. QED
  BY <1>1, <1>2

-----------------------------------------------------------------------------
(* The steps of the thread in ServiceDiscovery. *)

LEMMA ServingIsCore ==
    ASSUME SInv, NEW ready \in SUBSET Refs, NEW from, Serves(ready, from), loop.pc \in {"top", "after"},
           UNCHANGED <<live, asks, mail, active, misused, discovery, services, lookup>>
    PROVE  Core'
<1>1. Store' /\ LookupTyped' /\ ~misused'
  BY SameStore DEF SInv, Core, Waiters, LookupTyped, OneOf
<1>2. OneBrowses' /\ NamesAreKept' /\ LookupsFit'
  BY SameNames, SameLookups DEF SInv, Core, LoopAt
<1>3. \/ loop' = Loop("top")
      \/ \E t \in Refs, next \in OneOf :
             /\ IsRunning(t) /\ t \in ready
             /\ next # t /\ (next # NoRef => IsRunning(next))
             /\ loop' = [pc |-> "call", target |-> t, next |-> next, readable |-> ready, about |-> NoRef]
  BY ServesOne DEF SInv, Core, Store
<1>4. CASE loop' = Loop("top")
  <2>1. LoopTyped'
    BY <1>4 DEF Loop, LoopTyped, LoopPlaces, OneOf, About, Waiters
  <2>2. NextIsThere' /\ ServesWhatIsThere' /\ WaitsInPlace'
    BY <1>4 DEF Loop, NextIsThere, ServesWhatIsThere, WaitsInPlace, LoopAt, Serving, Alone
  <2>3. QED
    BY <1>1, <1>2, <2>1, <2>2 DEF Core, Links
<1>5. ASSUME NEW t \in Refs, NEW next \in OneOf, IsRunning(t), next # t, next # NoRef => IsRunning(next),
             loop' = [pc |-> "call", target |-> t, next |-> next, readable |-> ready, about |-> NoRef]
      PROVE  Core'
  <2>1. LoopTyped'
    BY <1>5 DEF LoopTyped, LoopPlaces, OneOf, About, Waiters
  <2>2. IsRunning(t)' /\ (next # NoRef => IsRunning(next)')
    BY <1>5 DEF IsRunning
  <2>3. NextIsThere' /\ ServesWhatIsThere' /\ WaitsInPlace'
    BY <1>5, <2>2 DEF NextIsThere, ServesWhatIsThere, WaitsInPlace, LoopAt, Serving, Alone
  <2>4. QED
    BY <1>1, <1>2, <2>1, <2>3 DEF Core, Links
<1>6. QED
  BY <1>3, <1>4, <1>5

LEMMA LoopNextIsCore ==
    ASSUME SInv, LoopNext, UNCHANGED discoveryVars
    PROVE  Core'
<1>0. UNCHANGED <<discovery, services, lookup>>
  BY DEF discoveryVars
<1>1. CASE LoopEnds \/ LoopLeaves
  <2>1. PICK p \in {"leaving", "off"} : LoopGoes(p) /\ UNCHANGED <<live, asks, mail, active, misused>> /\ loop.pc \in Alone
    BY <1>1 DEF LoopEnds, LoopLeaves, LoopAt, Alone
  <2>2. p \in Plain /\ loop.next = NoRef /\ ~LoopAt("await")
    BY <2>1 DEF Plain, LoopPlaces, Serving, SInv, Core, Links, NextIsThere, LoopAt, Alone
  <2>3. Links' /\ LoopTyped'
    BY <1>0, <2>1, <2>2, MoveKeepsLinks DEF SInv
  <2>4. Store' /\ LookupTyped' /\ ~misused'
    BY <1>0, <2>1, SameStore DEF SInv, Core, Waiters, LookupTyped, OneOf
  <2>5. QED
    BY <2>3, <2>4 DEF Core
<1>2. CASE LoopSelects
  <2>1. Readable \in SUBSET Refs
    BY DEF Readable, ToSet, SInv, Core, Store, StoreTyped
  <2>2. QED
    BY <1>0, <1>2, <2>1, ServingIsCore DEF LoopSelects, LoopAt
<1>3. CASE LoopGoesOn
  <2>1. loop.readable \in SUBSET Refs
    BY DEF SInv, Core, LoopTyped
  <2>2. QED
    BY <1>0, <1>3, <2>1, ServingIsCore DEF LoopGoesOn, LoopAt
<1>4. CASE DaemonIsGone
  <2>1. /\ TakesResult("gone") /\ active' = <<>> /\ loop' = Loop("top")
        /\ UNCHANGED <<live, asks, misused, discovery, services, lookup>> /\ LoopAt("call")
    BY <1>0, <1>4 DEF DaemonIsGone, TakesResult
  <2>2. \A x : ~IsRunning(x)'
    BY <2>1 DEF IsRunning, Contains
  <2>3. LoopTyped' /\ LookupTyped' /\ ~misused'
    BY <2>1 DEF SInv, Core, Loop, LoopTyped, LoopPlaces, OneOf, About, Waiters, LookupTyped
  <2>4. Store'
    <3>1. /\ mail' \in [Refs -> Seq(Results)]
          /\ \A r \in live : \A i \in 1 .. Len(mail'[r]) : Fits(mail'[r][i], asks[r])
      BY <2>1, TakenFits DEF SInv, Core, Links, ServesWhatIsThere, Serving, LoopAt
    <3>2. StoreTyped'
      <4>1. active' \in Seq(Refs) /\ IsInjective(active')
        BY <2>1 DEF IsInjective
      <4>2. live' \subseteq Refs /\ asks' \in [Refs -> Questions]
        BY <2>1 DEF SInv, Core, Store, StoreTyped
      <4>3. QED
        BY <3>1, <4>1, <4>2 DEF StoreTyped, Questions, Results, About, Waiters
    <3>3. MailFits'
      BY <2>1, <3>1 DEF SInv, Core, Store, MailFits, QuestionFits, Fits, Waiters
    <3>4. ActiveIsLive'
      BY <2>2 DEF ActiveIsLive
    <3>5. QED
      BY <3>2, <3>3, <3>4 DEF Store
  <2>5. OneBrowses' /\ NamesAreKept' /\ LookupsFit'
    <3>1. OneBrowses' /\ NamesAreKept'
      BY <2>1, <2>2 DEF SInv, Core, Links, OneBrowses, NamesAreKept
    <3>2. ~LoopAt("await")
      BY <2>1 DEF LoopAt
    <3>3. QED
      BY <2>1, <3>1, <3>2, SameLookups DEF SInv, Core
  <2>6. NextIsThere' /\ ServesWhatIsThere' /\ WaitsInPlace'
    BY <2>1 DEF Loop, NextIsThere, ServesWhatIsThere, WaitsInPlace, LoopAt, Serving, Alone
  <2>7. QED
    BY <2>3, <2>4, <2>5, <2>6 DEF Core, Links
<1>5. QED
  BY <1>1, <1>2, <1>3, <1>4 DEF LoopNext

LEMMA CallsBackIsCore ==
    ASSUME SInv, NEW what \in {"found", "lost", "queried", "resolved", "address"}, CallsBack(what),
           UNCHANGED discoveryVars
    PROVE  Core'
<1>0. PICK t : t = loop.target
  OBVIOUS
<1> DEFINE m == Head(mail[t])
<1>1. /\ TakesResult(what) /\ LoopAt("call") /\ loop' = [loop EXCEPT !.pc = what, !.about = m.of]
      /\ UNCHANGED <<live, asks, active, misused, discovery, services, lookup>>
  BY <1>0 DEF CallsBack, TakesResult, discoveryVars
<1>2. t \in Refs /\ IsRunning(t) /\ t \in live /\ loop.next # t
  BY <1>0, <1>1 DEF SInv, Core, Links, ServesWhatIsThere, NextIsThere, Serving, LoopAt, Store, ActiveIsLive
<1>3. Store' /\ m \in Results /\ m.what = what /\ Fits(m, asks[t])
  BY <1>0, <1>1, <1>2, TakeKeepsStore DEF SInv, Core
<1>4. m.of \in About
  BY <1>3 DEF Results
<1> HIDE DEF m
<1>5. /\ loop'.pc = what /\ loop'.about = m.of /\ loop'.target = t /\ loop'.next = loop.next
      /\ LoopTyped'
  BY <1>0, <1>1, <1>4 DEF SInv, Core, LoopTyped, LoopPlaces, About, Waiters, OneOf
<1>6. OneBrowses' /\ NamesAreKept' /\ LookupsFit'
  BY <1>1, SameNames, SameLookups DEF SInv, Core, LoopAt
<1>7. IsRunning(t)' /\ asks'[t] = asks[t] /\ (loop.next # NoRef => IsRunning(loop.next)')
  BY <1>1, <1>2 DEF IsRunning, SInv, Core, Links, NextIsThere
<1>8. NextIsThere'
  BY <1>2, <1>5, <1>7 DEF NextIsThere, Alone
<1>9. ServesWhatIsThere'
  <2>1. loop'.target \in Refs /\ IsRunning(loop.target)'
    BY <1>2, <1>5, <1>7
  <2>2. what \in {"found", "lost"} => asks[t].kind = "browse" /\ m.of \in Services
    BY <1>3 DEF Fits
  <2>3. what = "queried" => asks[t].kind = "txt" /\ m.of = asks[t].of
    BY <1>3 DEF Fits
  <2>4. what = "resolved" => asks[t].kind = "resolve" /\ m.of = asks[t].of
    BY <1>3 DEF Fits
  <2>5. what = "address" => asks[t].kind = "address" /\ m.of = asks[t].of
    BY <1>3 DEF Fits
  <2>6. QED
    BY <1>5, <1>7, <2>1, <2>2, <2>3, <2>4, <2>5 DEF ServesWhatIsThere, Serving, LoopAt
<1>10. WaitsInPlace'
  BY <1>5 DEF WaitsInPlace, LoopAt
<1>11. LookupTyped' /\ ~misused'
  BY <1>1 DEF SInv, Core, LookupTyped, Waiters, OneOf
<1>12. QED
  BY <1>3, <1>5, <1>6, <1>8, <1>9, <1>10, <1>11 DEF Core, Links

-----------------------------------------------------------------------------
(* The callbacks of DeviceDiscovery. *)

LEMMA MoveIsCore ==
    ASSUME SInv, UNCHANGED <<live, asks, mail, active, discovery, services, lookup>>, ~misused', ~LoopAt("await"),
           NEW p \in Plain, LoopGoes(p), p \in Alone => loop.next = NoRef
    PROVE  Core'
<1>1. Links' /\ LoopTyped'
  BY MoveKeepsLinks DEF SInv
<1>2. Store' /\ LookupTyped' /\ ~misused'
  BY SameStore DEF SInv, Core, Waiters, LookupTyped, OneOf
<1>3. QED
  BY <1>1, <1>2 DEF Core

LEMMA SameCore ==
    ASSUME SInv, UNCHANGED <<live, asks, mail, active, misused, loop, discovery, services, lookup>>
    PROVE  Core'
<1>1. Links' /\ LoopTyped'
  BY SameLinks DEF SInv, Core, LoopTyped, About, Waiters, OneOf, LoopPlaces
<1>2. Store' /\ LookupTyped' /\ ~misused'
  BY SameStore DEF SInv, Core, Waiters, LookupTyped, OneOf
<1>3. QED
  BY <1>1, <1>2 DEF Core

\* What waits is not disturbed by an operation that no connector begins.
LEMMA GrowthKeepsLookups ==
    ASSUME Store, Links, NEW r, NEW q, Grows(r, q), q.kind \notin {"resolve", "address"},
           UNCHANGED lookup, ~LoopAt("await")
    PROVE  LookupsFit'
<1>1. \A x \in live : x \in Refs /\ x # r /\ x \in live' /\ asks'[x] = asks[x]
  BY DEF Grows, Store, StoreTyped
<1>2. \A x \in live' : x = r \/ x \in live
  BY DEF Grows
<1>3. asks'[r] = q
  BY DEF Grows
<1>4. ASSUME NEW x \in live', Looks(x)'
      PROVE  lookup'[asks'[x].of].ref = x
  BY <1>1, <1>2, <1>3, <1>4 DEF Links, LookupsFit, Looks
<1>5. ASSUME NEW w \in Waiters
      PROVE  /\ ~lookup'[w].waits => lookup'[w] = NoLookup
             /\ lookup'[w].ref # NoRef =>
                    ~lookup'[w].set /\ lookup'[w].ref \in live' /\ Looks(lookup[w].ref)' /\ asks'[lookup'[w].ref].of = w
  BY <1>1, <1>5 DEF Links, LookupsFit, Looks
<1>6. ~lookup'[OwnThread].waits
  BY DEF Links, LookupsFit
<1>7. QED
  BY <1>4, <1>5, <1>6 DEF LookupsFit, Waiters, Looks

LEMMA OnServiceFoundIsCore ==
    ASSUME SInv, OnServiceFound
    PROVE  Core'
<1>1. /\ LoopAt("found") /\ LoopGoes("after")
      /\ UNCHANGED <<misused, discovery, lookup>> /\ ~misused'
  BY DEF OnServiceFound, CallbackEnds, SInv, Core
<1>2. /\ ~LoopAt("await") /\ "after" \in Plain /\ "after" \notin Alone
      /\ loop.about \in Services /\ IsRunning(discovery) /\ discovery # NoRef
  BY <1>1, RefAssumption DEF LoopAt, Plain, LoopPlaces, Serving, Alone, SInv, Core, Links, ServesWhatIsThere, OneBrowses
<1>3. LoopTyped' /\ loop'.pc = "after" /\ loop'.next = loop.next
  BY <1>1, LoopGoesTo DEF SInv, Core, LoopPlaces
<1>4. CASE ~up
  <2>1. UNCHANGED <<live, asks, mail, active, services>>
    BY <1>4 DEF OnServiceFound
  <2>2. QED
    BY <1>1, <1>2, <2>1, MoveIsCore
<1>5. CASE up
  <2>1. PICK r \in Refs : Ask(r, [kind |-> "txt", of |-> loop.about], <<>>) /\ services' = NotesService(r)
    BY <1>5 DEF OnServiceFound
  <2>2. PICK q : q = [kind |-> "txt", of |-> loop.about]
    OBVIOUS
  <2>3. q \in Questions /\ QuestionFits(q) /\ q.kind = "txt" /\ q.of = loop.about
    BY <1>2, <2>2 DEF Questions, About, QuestionFits
  <2>4. Grows(r, q) /\ Store'
    <3>1. Ask(r, q, <<>>)
      BY <2>1, <2>2
    <3>2. QED
      BY <2>3, <3>1, AskGrows, NothingAsked DEF SInv, Core
  <2>5. /\ \A x \in live : x \in Refs /\ x # r /\ x \in live' /\ asks'[x] = asks[x]
        /\ r \in live' /\ asks'[r] = q
        /\ \A x : IsRunning(x)' <=> (IsRunning(x) \/ x = r)
    BY <2>4 DEF Grows, SInv, Core, Store, StoreTyped
  <2>6. discovery \in live /\ asks[discovery].kind = "browse"
    BY <1>2 DEF SInv, Core, Links, OneBrowses
  <2>7. OneBrowses'
    <3>1. ASSUME NEW x \in Refs, IsRunning(x)', asks'[x].kind = "browse"
          PROVE  x = discovery
      <4>1. x # r /\ IsRunning(x) /\ x \in live
        BY <2>3, <2>5, <3>1 DEF SInv, Core, Store, ActiveIsLive
      <4>2. QED
        BY <2>5, <3>1, <4>1 DEF SInv, Core, Links, OneBrowses
    <3>2. QED
      BY <1>1, <2>5, <2>6, <3>1 DEF OneBrowses
  <2>8. NamesAreKept'
    <3>1. /\ r \notin DOMAIN services /\ DOMAIN services' = DOMAIN services \cup {r}
          /\ services'[r] = loop.about
          /\ \A x \in DOMAIN services : services'[x] = services[x] /\ x \in live /\ asks[x].kind = "txt"
      BY <2>1, <2>5 DEF NotesService, SInv, Core, Links, NamesAreKept
    <3>2. \A x \in DOMAIN services' : x \in live' /\ asks'[x].kind = "txt"
      BY <2>3, <2>5, <3>1
    <3>3. ASSUME NEW x \in Refs, IsRunning(x)', asks'[x].kind = "txt"
          PROVE  x \in DOMAIN services' /\ services'[x] = asks'[x].of
      <4>1. CASE x = r
        BY <2>3, <2>5, <3>1, <4>1
      <4>2. CASE x # r
        <5>1. IsRunning(x) /\ x \in live
          BY <2>5, <3>3, <4>2 DEF SInv, Core, Store, ActiveIsLive
        <5>2. QED
          BY <2>5, <3>1, <3>3, <5>1 DEF SInv, Core, Links, NamesAreKept
      <4>3. QED
        BY <4>1, <4>2
    <3>4. IsRunning(discovery)'
      BY <1>1, <1>2, <2>5 DEF IsRunning
    <3>5. QED
      BY <3>2, <3>3, <3>4 DEF NamesAreKept
  <2>9. LookupsFit'
    BY <1>1, <1>2, <2>3, <2>4, GrowthKeepsLookups DEF SInv, Core
  <2>10. NextIsThere'
    <3>1. loop.next # NoRef => IsRunning(loop.next)
      BY DEF SInv, Core, Links, NextIsThere
    <3>2. loop.next # NoRef => IsRunning(loop.next)'
      BY <1>3, <2>5, <3>1 DEF IsRunning
    <3>3. QED
      BY <1>3, <3>2 DEF NextIsThere, Alone, Serving, IsRunning
  <2>11. ServesWhatIsThere' /\ WaitsInPlace'
    BY <1>3 DEF ServesWhatIsThere, WaitsInPlace, Serving, LoopAt
  <2>12. LookupTyped' /\ ~misused'
    BY <1>1 DEF SInv, Core, LookupTyped, Waiters, OneOf
  <2>13. QED
    BY <1>3, <2>4, <2>7, <2>8, <2>9, <2>10, <2>11, <2>12 DEF Core, Links
<1>6. QED
  BY <1>4, <1>5

\* The rounds of the listeners, and an open that asks nothing.
LEMMA RoundIsCore ==
    ASSUME SInv, \/ OnServiceLost
                 \/ KeepsDevice
                 \/ \E l \in Dialogs : TellsDialog(l)
                 \/ TellsManager
                 \/ AllAreTold
                 \/ OwnOpenIsVain
                 \/ OwnOpenFailed
    PROVE  Core'
<1>1. /\ UNCHANGED <<live, asks, mail, active, misused, discovery, services, lookup>>
      /\ ~LoopAt("await")
  BY DEF OnServiceLost, KeepsDevice, TellsDialog, TellsManager, AllAreTold, OwnOpenIsVain, OwnOpenFailed,
         serviceVars, discoveryVars, LoopAt
<1>2. \/ UNCHANGED loop
      \/ \E p \in {"tell", "after", "open", "fail"} : LoopGoes(p)
  BY DEF OnServiceLost, KeepsDevice, TellsDialog, TellsManager, AllAreTold, OwnOpenIsVain, OwnOpenFailed,
         serviceVars, CallbackEnds
<1>3. {"tell", "after", "open", "fail"} \subseteq Plain \ Alone
  BY DEF Plain, LoopPlaces, Serving, Alone
<1>4. CASE UNCHANGED loop
  BY <1>1, <1>4, SameCore
<1>5. ASSUME NEW p \in {"tell", "after", "open", "fail"}, LoopGoes(p)
      PROVE  Core'
  <2>1. ~misused'
    BY <1>1 DEF SInv, Core
  <2>2. QED
    BY <1>1, <1>3, <1>5, <2>1, MoveIsCore
<1>6. QED
  BY <1>2, <1>4, <1>5

LEMMA OnServiceQueriedIsCore ==
    ASSUME SInv, OnServiceQueried
    PROVE  Core'
<1>0. PICK t : t = loop.target
  OBVIOUS
<1>1. /\ LoopAt("queried") /\ StopRef(t) /\ services' = Restrict(services, DOMAIN services \ {t})
      /\ loop' = [loop EXCEPT !.about = services[t],
                              !.pc    = IF services[t] \in Speakers THEN "keep" ELSE "after"]
      /\ UNCHANGED <<discovery, lookup>>
  BY <1>0 DEF OnServiceQueried, ForgetsService
<1>2. t \in Refs /\ IsRunning(t) /\ t \in live /\ asks[t].kind = "txt" /\ loop.next # t
  BY <1>0, <1>1 DEF LoopAt, SInv, Core, Links, ServesWhatIsThere, NextIsThere, Serving, Store, ActiveIsLive
<1>3. t \in DOMAIN services /\ services[t] = asks[t].of /\ services[t] \in Services
  BY <1>2 DEF SInv, Core, Links, NamesAreKept, DiscoveryTyped
<1>4. Shrinks(t) /\ Store' /\ ~misused'
  BY <1>1, <1>2, StopShrinks DEF SInv, Core, StopRef
<1>5. /\ live' = live \ {t} /\ live \subseteq Refs
      /\ \A x \in Refs : x # t => asks'[x] = asks[x]
      /\ asks'[t].kind = "none"
      /\ \A x : IsRunning(x)' <=> (IsRunning(x) /\ x # t)
  BY <1>2, <1>4 DEF Shrinks, NoQuestion, SInv, Core, Store, StoreTyped
<1>6. /\ loop'.pc \in {"keep", "after"} /\ loop'.next = loop.next /\ LoopTyped'
      /\ loop'.pc = "keep" => loop'.about \in Speakers
  BY <1>1, <1>3 DEF SInv, Core, LoopTyped, LoopPlaces, About, Waiters, OneOf
<1>7. OneBrowses'
  BY <1>1, <1>2, <1>5 DEF SInv, Core, Links, OneBrowses
<1>8. NamesAreKept'
  <2>1. /\ DOMAIN services' = DOMAIN services \ {t}
        /\ \A x \in DOMAIN services' : services'[x] = services[x]
    BY <1>1 DEF Restrict
  <2>2. t # discovery
    BY <1>2, RefAssumption DEF SInv, Core, Links, OneBrowses
  <2>3. \A x \in DOMAIN services' : x \in live' /\ asks'[x].kind = "txt"
    BY <1>5, <2>1 DEF SInv, Core, Links, NamesAreKept
  <2>4. ASSUME NEW x \in Refs, IsRunning(x)', asks'[x].kind = "txt"
        PROVE  IsRunning(discovery)' /\ x \in DOMAIN services' /\ services'[x] = asks'[x].of
    <3>1. x # t /\ IsRunning(x) /\ asks'[x] = asks[x] /\ asks[x].kind = "txt"
      BY <1>5, <2>4
    <3>2. IsRunning(discovery) /\ x \in DOMAIN services /\ services[x] = asks[x].of
      BY <3>1 DEF SInv, Core, Links, NamesAreKept
    <3>3. IsRunning(discovery)'
      BY <1>1, <1>5, <2>2, <3>2 DEF IsRunning
    <3>4. QED
      BY <2>1, <3>1, <3>2, <3>3
  <2>5. QED
    BY <2>3, <2>4 DEF NamesAreKept
<1>9. LookupsFit'
  <2>1. ASSUME NEW x \in live', Looks(x)'
        PROVE  lookup'[asks'[x].of].ref = x
    <3>1. x \in live /\ asks'[x] = asks[x]
      BY <1>5, <2>1
    <3>2. QED
      BY <1>1, <2>1, <3>1 DEF SInv, Core, Links, LookupsFit, Looks
  <2>2. ASSUME NEW w \in Waiters
        PROVE  /\ ~lookup'[w].waits => lookup'[w] = NoLookup
               /\ lookup'[w].ref # NoRef =>
                      ~lookup'[w].set /\ lookup'[w].ref \in live' /\ Looks(lookup[w].ref)' /\ asks'[lookup'[w].ref].of = w
    <3>1. lookup[w].ref # NoRef => lookup[w].ref \in live /\ lookup[w].ref # t
      BY <1>2 DEF SInv, Core, Links, LookupsFit, Looks
    <3>2. lookup[w].ref # NoRef => lookup[w].ref \in live' /\ asks'[lookup[w].ref] = asks[lookup[w].ref]
      BY <1>5, <3>1
    <3>3. QED
      BY <1>1, <3>2 DEF SInv, Core, Links, LookupsFit, Looks
  <2>3. ~lookup'[OwnThread].waits
    BY <1>1 DEF SInv, Core, Links, LookupsFit, LoopAt
  <2>4. QED
    BY <2>1, <2>2, <2>3 DEF LookupsFit, Waiters, Looks
<1>10. NextIsThere'
  <2>1. loop.next # NoRef => IsRunning(loop.next)
    BY DEF SInv, Core, Links, NextIsThere
  <2>2. loop.next # NoRef => IsRunning(loop.next)'
    BY <1>2, <1>5, <1>6, <2>1 DEF IsRunning
  <2>3. QED
    BY <1>6, <2>2 DEF NextIsThere, Alone, Serving, IsRunning
<1>11. ServesWhatIsThere' /\ WaitsInPlace'
  BY <1>6 DEF ServesWhatIsThere, WaitsInPlace, Serving, LoopAt
<1>12. LookupTyped'
  BY <1>1 DEF SInv, Core, LookupTyped, Waiters, OneOf
<1>13. QED
  BY <1>4, <1>6, <1>7, <1>8, <1>9, <1>10, <1>11, <1>12 DEF Core, Links

-----------------------------------------------------------------------------
(* The lookups of addresses. *)

\* A connector begins an operation: the only one that it waits for.
LEMMA ConnectorGrows ==
    ASSUME SInv, NEW w \in Waiters, NEW r \in Refs, NEW kind \in {"resolve", "address"},
           Ask(r, [kind |-> kind, of |-> w], <<>>), UNCHANGED <<discovery, services>>,
           lookup[w].ref = NoRef, lookup' = [lookup EXCEPT ![w] = [waits |-> TRUE, ref |-> r, set |-> FALSE]],
           lookup[OwnThread].waits => LoopAt("await")',
           w = OwnThread => LoopAt("await")'
    PROVE  /\ Store' /\ LookupTyped' /\ OneBrowses' /\ NamesAreKept' /\ LookupsFit'
           /\ Grows(r, [kind |-> kind, of |-> w])
<1>1. PICK q : q = [kind |-> kind, of |-> w]
  OBVIOUS
<1>2. q \in Questions /\ QuestionFits(q) /\ q.kind = kind /\ q.of = w
  BY <1>1 DEF Questions, About, QuestionFits
<1>3. Grows(r, q) /\ Store'
  <2>1. Ask(r, q, <<>>)
    BY <1>1
  <2>2. QED
    BY <1>2, <2>1, AskGrows, NothingAsked DEF SInv, Core
<1>4. OneBrowses' /\ NamesAreKept'
  BY <1>2, <1>3, LookupKeepsNames DEF SInv, Core
<1>5. /\ LookupTyped'
      /\ lookup'[w] = [waits |-> TRUE, ref |-> r, set |-> FALSE]
      /\ \A v \in Waiters : v # w => lookup'[v] = lookup[v]
  BY DEF SInv, Core, LookupTyped, OneOf, Waiters
<1>6. /\ \A x \in live : x \in Refs /\ x # r /\ x \in live' /\ asks'[x] = asks[x]
      /\ \A x \in live' : x = r \/ x \in live
      /\ r \in live' /\ asks'[r] = q
  BY <1>3 DEF Grows, SInv, Core, Store, StoreTyped
<1>7. ASSUME NEW x \in live', Looks(x)'
      PROVE  lookup'[asks'[x].of].ref = x
  <2>1. CASE x = r
    BY <1>2, <1>5, <1>6, <2>1
  <2>2. CASE x # r
    <3>1. x \in live /\ Looks(x) /\ asks'[x] = asks[x]
      BY <1>6, <1>7, <2>2 DEF Looks
    <3>2. asks[x].of \in Waiters /\ lookup[asks[x].of].ref = x /\ x # NoRef
      BY <1>6, <3>1, RefAssumption DEF SInv, Core, Store, MailFits, QuestionFits, Looks, Links, LookupsFit
    <3>3. asks[x].of # w
      BY <3>2
    <3>4. QED
      BY <1>5, <3>1, <3>2, <3>3
  <2>3. QED
    BY <2>1, <2>2
<1>8. ASSUME NEW v \in Waiters
      PROVE  /\ ~lookup'[v].waits => lookup'[v] = NoLookup
             /\ lookup'[v].ref # NoRef =>
                    ~lookup'[v].set /\ lookup'[v].ref \in live' /\ Looks(lookup[v].ref)' /\ asks'[lookup'[v].ref].of = v
  <2>1. CASE v = w
    BY <1>2, <1>5, <1>6, <2>1 DEF Looks
  <2>2. CASE v # w
    BY <1>5, <1>6, <2>2 DEF SInv, Core, Links, LookupsFit, Looks
  <2>3. QED
    BY <2>1, <2>2
<1>9. lookup'[OwnThread].waits => LoopAt("await")'
  BY <1>5 DEF Waiters
<1>10. LookupsFit'
  BY <1>7, <1>8, <1>9 DEF LookupsFit, Waiters, Looks
<1>11. QED
  BY <1>1, <1>3, <1>4, <1>5, <1>10

\* The thread starts, or goes on with what it has.
LEMMA StartKeepsLoop ==
    ASSUME SInv, ThreadStarts, NEW r \in Refs, NEW q, Grows(r, q)
    PROVE  /\ NextIsThere' /\ ServesWhatIsThere' /\ LoopTyped'
           /\ loop'.about = loop.about
           /\ \A p \in LoopPlaces \ {"off", "top"} : loop'.pc = p <=> loop.pc = p
<1>1. CASE UNCHANGED loop
  <2>1. NextIsThere' /\ ServesWhatIsThere'
    BY <1>1, GrowthKeepsLoop DEF SInv, Core
  <2>2. LoopTyped'
    BY <1>1 DEF SInv, Core, LoopTyped, About, Waiters, OneOf, LoopPlaces
  <2>3. QED
    BY <1>1, <2>1, <2>2
<1>2. CASE LoopAt("off") /\ LoopGoes("top")
  <2>1. loop'.pc = "top" /\ loop'.next = loop.next /\ loop'.about = loop.about /\ LoopTyped'
    BY <1>2, LoopGoesTo DEF SInv, Core, LoopPlaces
  <2>2. loop.next = NoRef
    BY <1>2 DEF SInv, Core, Links, NextIsThere, Alone, LoopAt
  <2>3. NextIsThere' /\ ServesWhatIsThere'
    BY <2>1, <2>2 DEF NextIsThere, ServesWhatIsThere, Serving, LoopAt
  <2>4. QED
    BY <1>2, <2>1, <2>3 DEF LoopAt
<1>3. QED
  BY <1>1, <1>2 DEF ThreadStarts

LEMMA OpenerBeginsIsCore ==
    ASSUME SInv, NEW o \in Openers, OpenerBegins(o)
    PROVE  Core'
<1>1. PICK r \in Refs : LookupBegins(o, r)
  BY DEF OpenerBegins
<1>2. /\ o \in Waiters /\ o # OwnThread /\ OwnThread \in Waiters
      /\ \A w \in Waiters : ~lookup[w].waits
      /\ Ask(r, [kind |-> "resolve", of |-> o], <<>>)
      /\ UNCHANGED <<discovery, services, misused>>
      /\ lookup' = [lookup EXCEPT ![o] = [waits |-> TRUE, ref |-> r, set |-> FALSE]]
      /\ ThreadStarts
  BY <1>1, DiscoveryAssumption DEF LookupBegins, ManagerIsLocked, Waiters, OpenerBegins
<1>3. lookup[o].ref = NoRef
  BY <1>2 DEF SInv, Core, Links, LookupsFit, NoLookup
<1>4. /\ Store' /\ LookupTyped' /\ OneBrowses' /\ NamesAreKept' /\ LookupsFit'
      /\ Grows(r, [kind |-> "resolve", of |-> o])
  BY <1>2, <1>3, ConnectorGrows
<1>5. /\ NextIsThere' /\ ServesWhatIsThere' /\ LoopTyped'
      /\ loop'.about = loop.about
      /\ \A p \in LoopPlaces \ {"off", "top"} : loop'.pc = p <=> loop.pc = p
  BY <1>2, <1>4, StartKeepsLoop
<1>6. WaitsInPlace'
  <2>1. ~LoopAt("requery") /\ ~LoopAt("await")
    BY <1>2 DEF SInv, Core, Links, WaitsInPlace, Waiters
  <2>2. loop'.pc # "requery" /\ loop'.pc # "await" /\ (loop'.pc = "keep" => loop.pc = "keep")
    BY <1>5, <2>1 DEF LoopAt, LoopPlaces
  <2>3. QED
    BY <1>5, <2>2 DEF SInv, Core, Links, WaitsInPlace, LoopAt
<1>7. QED
  BY <1>2, <1>4, <1>5, <1>6 DEF SInv, Core, Links

LEMMA OwnOpenBeginsIsCore ==
    ASSUME SInv, OwnOpenBegins
    PROVE  Core'
<1>1. PICK r \in Refs : LookupBegins(OwnThread, r)
  BY DEF OwnOpenBegins
<1>2. /\ OwnThread \in Waiters
      /\ \A w \in Waiters : ~lookup[w].waits
      /\ Ask(r, [kind |-> "resolve", of |-> OwnThread], <<>>)
      /\ UNCHANGED <<discovery, services, misused>>
      /\ lookup' = [lookup EXCEPT ![OwnThread] = [waits |-> TRUE, ref |-> r, set |-> FALSE]]
      /\ LoopAt("open") /\ LoopGoes("await")
  BY <1>1 DEF LookupBegins, ManagerIsLocked, Waiters, OwnOpenBegins
<1>3. loop'.pc = "await" /\ loop'.next = loop.next /\ LoopTyped'
  BY <1>2, LoopGoesTo DEF SInv, Core, LoopPlaces
<1>4. lookup[OwnThread].ref = NoRef
  BY <1>2 DEF SInv, Core, Links, LookupsFit, NoLookup
<1>5. /\ Store' /\ LookupTyped' /\ OneBrowses' /\ NamesAreKept' /\ LookupsFit'
      /\ Grows(r, [kind |-> "resolve", of |-> OwnThread])
  BY <1>2, <1>3, <1>4, ConnectorGrows DEF LoopAt
<1>6. NextIsThere'
  <2>1. loop.next # NoRef => IsRunning(loop.next)
    BY DEF SInv, Core, Links, NextIsThere
  <2>2. loop.next # NoRef => IsRunning(loop.next)'
    BY <1>3, <1>5, <2>1 DEF IsRunning, Grows
  <2>3. QED
    BY <1>3, <2>2 DEF NextIsThere, Alone, Serving, IsRunning
<1>7. ServesWhatIsThere'
  BY <1>3 DEF ServesWhatIsThere, Serving, LoopAt
<1>8. WaitsInPlace'
  <2>1. r # loop.next /\ r # NoRef
    BY <1>5, RefAssumption DEF Grows
  <2>2. lookup'[OwnThread] = [waits |-> TRUE, ref |-> r, set |-> FALSE]
    BY <1>2 DEF SInv, Core, LookupTyped
  <2>3. QED
    BY <1>3, <2>1, <2>2 DEF WaitsInPlace, LoopAt
<1>9. QED
  BY <1>2, <1>3, <1>5, <1>6, <1>7, <1>8 DEF SInv, Core, Links

\* A connector's operation ends.
LEMMA ConnectorShrinks ==
    ASSUME SInv, NEW w \in Waiters, NEW t \in Refs, lookup[w].ref = t,
           live' = live \ {t}, active' = Without(t),
           asks' = [asks EXCEPT ![t] = NoQuestion], mail' = [mail EXCEPT ![t] = <<>>],
           UNCHANGED <<discovery, services>>,
           NEW l \in [waits : BOOLEAN, ref : OneOf, set : BOOLEAN], l.ref = NoRef, ~l.waits => l = NoLookup,
           lookup' = [lookup EXCEPT ![w] = l],
           lookup[OwnThread].waits => LoopAt("await")' \/ (w = OwnThread /\ ~l.waits)
    PROVE  /\ Store' /\ LookupTyped' /\ OneBrowses' /\ NamesAreKept' /\ LookupsFit'
           /\ Shrinks(t) /\ t \in live
<1>1. t \in live /\ Looks(t) /\ asks[t].of = w /\ lookup[w].waits
  <2>1. t # NoRef
    BY RefAssumption
  <2>2. t \in live /\ Looks(t) /\ asks[t].of = w
    BY <2>1 DEF SInv, Core, Links, LookupsFit
  <2>3. lookup[w].waits
    BY <2>1 DEF SInv, Core, Links, LookupsFit, NoLookup
  <2>4. QED
    BY <2>2, <2>3
<1>2. Shrinks(t) /\ Store'
  BY StopShrinks DEF SInv, Core
<1>3. OneBrowses' /\ NamesAreKept'
  BY <1>1, <1>2, LookupKeepsNames DEF SInv, Core
<1>4. /\ LookupTyped' /\ lookup'[w] = l
      /\ \A v \in Waiters : v # w => lookup'[v] = lookup[v]
  BY DEF SInv, Core, LookupTyped, OneOf, Waiters
<1>5. /\ \A x \in live' : x \in Refs /\ x # t /\ x \in live /\ asks'[x] = asks[x]
      /\ \A x \in live : x = t \/ (x \in live' /\ asks'[x] = asks[x])
  BY <1>2 DEF Shrinks, SInv, Core, Store, StoreTyped
<1>6. ASSUME NEW x \in live', Looks(x)'
      PROVE  lookup'[asks'[x].of].ref = x
  <2>1. x \in live /\ x # t /\ Looks(x) /\ asks'[x] = asks[x]
    BY <1>5, <1>6 DEF Looks
  <2>2. asks[x].of \in Waiters /\ lookup[asks[x].of].ref = x
    BY <2>1 DEF SInv, Core, Store, MailFits, QuestionFits, Looks, Links, LookupsFit
  <2>3. asks[x].of # w
    BY <2>1, <2>2
  <2>4. QED
    BY <1>4, <2>1, <2>2, <2>3
<1>7. ASSUME NEW v \in Waiters
      PROVE  /\ ~lookup'[v].waits => lookup'[v] = NoLookup
             /\ lookup'[v].ref # NoRef =>
                    ~lookup'[v].set /\ lookup'[v].ref \in live' /\ Looks(lookup[v].ref)' /\ asks'[lookup'[v].ref].of = v
  <2>1. CASE v = w
    BY <1>4, <2>1
  <2>2. CASE v # w
    <3>1. lookup[v].ref # NoRef =>
              ~lookup[v].set /\ lookup[v].ref \in live /\ Looks(lookup[v].ref) /\ asks[lookup[v].ref].of = v
      BY DEF SInv, Core, Links, LookupsFit
    <3>2. lookup[v].ref # NoRef => lookup[v].ref # t
      BY <1>1, <2>2, <3>1
    <3>3. ~lookup[v].waits => lookup[v] = NoLookup
      BY DEF SInv, Core, Links, LookupsFit
    <3>4. QED
      BY <1>4, <1>5, <2>2, <3>1, <3>2, <3>3 DEF Looks
  <2>3. QED
    BY <2>1, <2>2
<1>8. lookup'[OwnThread].waits => LoopAt("await")'
  <2>1. CASE w = OwnThread
    BY <1>1, <1>4, <2>1
  <2>2. CASE w # OwnThread
    <3>1. lookup'[OwnThread] = lookup[OwnThread]
      BY <1>4, <2>2 DEF Waiters
    <3>2. QED
      BY <2>2, <3>1
  <2>3. QED
    BY <2>1, <2>2
<1>9. LookupsFit'
  BY <1>6, <1>7, <1>8 DEF LookupsFit, Waiters, Looks
<1>10. QED
  BY <1>1, <1>2, <1>3, <1>4, <1>9

\* A connector gives up, or has its address.
LEMMA LookupEndsKeepsLinks ==
    ASSUME SInv, NEW w \in Waiters, LookupEnds(w),
           lookup[OwnThread].waits => LoopAt("await")' \/ w = OwnThread
    PROVE  /\ Store' /\ LookupTyped' /\ OneBrowses' /\ NamesAreKept' /\ LookupsFit' /\ ~misused'
           /\ \A v \in Waiters : v # w => lookup'[v] = lookup[v]
           /\ \/ UNCHANGED <<live, asks, active>> /\ lookup[w].ref = NoRef
              \/ Shrinks(lookup[w].ref) /\ lookup[w].ref \in live /\ Looks(lookup[w].ref)
<1>0. PICK t : t = lookup[w].ref
  OBVIOUS
<1>1. /\ lookup' = [lookup EXCEPT ![w] = NoLookup] /\ UNCHANGED <<discovery, services>>
      /\ lookup \in [Waiters -> [waits : BOOLEAN, ref : OneOf, set : BOOLEAN]] /\ ~misused /\ t \in OneOf
      /\ NoLookup \in [waits : BOOLEAN, ref : OneOf, set : BOOLEAN] /\ NoLookup.ref = NoRef /\ ~NoLookup.waits
  BY <1>0 DEF LookupEnds, NoLookup, SInv, Core, LookupTyped, OneOf
<1>2. CASE t = NoRef
  <2>1. UNCHANGED <<live, asks, mail, active, misused>>
    BY <1>0, <1>2 DEF LookupEnds
  <2>2. Store'
    BY <2>1, SameStore DEF SInv, Core
  <2>3. OneBrowses' /\ NamesAreKept'
    BY <1>1, <2>1, SameNames DEF SInv, Core
  <2>4. /\ LookupTyped' /\ lookup'[w] = NoLookup
        /\ \A v \in Waiters : v # w => lookup'[v] = lookup[v]
    BY <1>1 DEF LookupTyped, OneOf, Waiters
  <2>5. LookupsFit'
    <3>1. ASSUME NEW x \in live, Looks(x)
          PROVE  lookup'[asks[x].of].ref = x
      <4>1. asks[x].of \in Waiters /\ lookup[asks[x].of].ref = x /\ x # NoRef
        BY <3>1, RefAssumption DEF SInv, Core, Store, StoreTyped, MailFits, QuestionFits, Looks, Links, LookupsFit
      <4>2. asks[x].of # w
        BY <1>0, <1>2, <4>1
      <4>3. QED
        BY <2>4, <4>1, <4>2
    <3>2. ASSUME NEW v \in Waiters
          PROVE  /\ ~lookup'[v].waits => lookup'[v] = NoLookup
                 /\ lookup'[v].ref # NoRef =>
                        ~lookup'[v].set /\ lookup'[v].ref \in live /\ Looks(lookup'[v].ref) /\ asks[lookup'[v].ref].of = v
      <4>1. CASE v = w
        BY <1>1, <2>4, <4>1
      <4>2. CASE v # w
        BY <2>4, <4>2 DEF SInv, Core, Links, LookupsFit
      <4>3. QED
        BY <4>1, <4>2
    <3>3. lookup'[OwnThread].waits => LoopAt("await")'
      BY <1>1, <2>4 DEF Waiters
    <3>4. QED
      BY <2>1, <3>1, <3>2, <3>3 DEF LookupsFit, Waiters, Looks
  <2>6. QED
    BY <1>0, <1>1, <1>2, <2>1, <2>2, <2>3, <2>4, <2>5
<1>3. CASE t # NoRef
  <2>1. t \in Refs /\ StopRef(t) /\ Looks(t) /\ t \in live
    BY <1>0, <1>1, <1>3 DEF LookupEnds, OneOf, SInv, Core, Links, LookupsFit
  <2>2. /\ Store' /\ LookupTyped' /\ OneBrowses' /\ NamesAreKept' /\ LookupsFit' /\ Shrinks(t)
    BY <1>0, <1>1, <2>1, ConnectorShrinks DEF StopRef
  <2>3. ~misused'
    BY <1>1, <2>1 DEF StopRef
  <2>4. \A v \in Waiters : v # w => lookup'[v] = lookup[v]
    BY <1>1
  <2>5. QED
    BY <1>0, <2>1, <2>2, <2>3, <2>4
<1>4. QED
  BY <1>2, <1>3

\* A thread gives up while the loop has no operation in hand, or has its
\* address and no operation of its own.
LEMMA OpenerEndsIsCore ==
    ASSUME OpensApart, SInv, NEW o \in Openers, OpenerEnds(o)
    PROVE  Core'
<1>1. /\ o \in Waiters /\ o # OwnThread /\ OwnThread \in Waiters
      /\ LookupEnds(o) /\ UNCHANGED <<loop, discovery, services>>
      /\ lookup[o].set \/ OpenersMayStep
  BY DiscoveryAssumption DEF OpenerEnds, LookupEnds, Waiters
<1>2. lookup[OwnThread].waits => LoopAt("await")'
  BY <1>1 DEF SInv, Core, Links, LookupsFit, LoopAt
<1>3. /\ Store' /\ LookupTyped' /\ OneBrowses' /\ NamesAreKept' /\ LookupsFit' /\ ~misused'
      /\ \A v \in Waiters : v # o => lookup'[v] = lookup[v]
      /\ \/ UNCHANGED <<live, asks, active>> /\ lookup[o].ref = NoRef
         \/ Shrinks(lookup[o].ref) /\ lookup[o].ref \in live /\ Looks(lookup[o].ref)
  BY <1>1, <1>2, LookupEndsKeepsLinks
<1>4. LoopTyped'
  BY <1>1 DEF SInv, Core, LoopTyped, About, Waiters, OneOf, LoopPlaces
<1>5. CASE lookup[o].set
  <2>1. lookup[o].ref = NoRef
    BY <1>1, <1>5 DEF SInv, Core, Links, LookupsFit
  <2>2. UNCHANGED <<live, asks, active>>
    BY <1>3, <2>1, RefAssumption DEF SInv, Core, Store, StoreTyped
  <2>3. NextIsThere' /\ ServesWhatIsThere'
    BY <1>1, <2>2 DEF SInv, Core, Links, NextIsThere, ServesWhatIsThere, IsRunning, LoopAt
  <2>4. WaitsInPlace'
    <3>1. LoopAt("requery") => loop.about \in Waiters /\ loop.about # o
      BY <1>5 DEF SInv, Core, Links, WaitsInPlace, Waiters
    <3>2. QED
      BY <1>1, <1>3, <3>1 DEF SInv, Core, Links, WaitsInPlace, LoopAt
  <2>5. QED
    BY <1>3, <1>4, <2>3, <2>4 DEF Core, Links
<1>6. CASE OpenersMayStep
  <2>1. loop.pc \in Alone /\ loop.next = NoRef
    BY <1>6 DEF OpenersMayStep, OpensApart, NothingIsServed, LoopAt, Alone, SInv, Core, Links, NextIsThere
  <2>2. NextIsThere' /\ ServesWhatIsThere' /\ WaitsInPlace'
    BY <1>1, <2>1 DEF NextIsThere, ServesWhatIsThere, WaitsInPlace, Alone, Serving, LoopAt
  <2>3. QED
    BY <1>3, <1>4, <2>2 DEF Core, Links
<1>7. QED
  BY <1>1, <1>5, <1>6

LEMMA OwnOpenEndsIsCore ==
    ASSUME SInv, OwnOpenEnds
    PROVE  Core'
<1>1. /\ OwnThread \in Waiters /\ LoopAt("await") /\ LookupEnds(OwnThread)
      /\ \E p \in {"tell", "fail"} : LoopGoes(p)
  BY DEF OwnOpenEnds, Waiters
<1>2. PICK p \in {"tell", "fail"} : LoopGoes(p)
  BY <1>1
<1>3. loop'.pc = p /\ loop'.next = loop.next /\ LoopTyped'
  BY <1>2, LoopGoesTo DEF SInv, Core, LoopPlaces
<1>4. /\ Store' /\ LookupTyped' /\ OneBrowses' /\ NamesAreKept' /\ LookupsFit' /\ ~misused'
      /\ \/ UNCHANGED <<live, asks, active>> /\ lookup[OwnThread].ref = NoRef
         \/ Shrinks(lookup[OwnThread].ref) /\ lookup[OwnThread].ref \in live /\ Looks(lookup[OwnThread].ref)
  BY <1>1, LookupEndsKeepsLinks
<1>5. NextIsThere'
  <2>1. loop.next # NoRef => IsRunning(loop.next) /\ loop.next # lookup[OwnThread].ref
    BY <1>1 DEF SInv, Core, Links, NextIsThere, WaitsInPlace, LoopAt
  <2>2. loop.next # NoRef => IsRunning(loop.next)'
    BY <1>3, <1>4, <2>1 DEF IsRunning, Shrinks
  <2>3. QED
    BY <1>3, <2>2 DEF NextIsThere, Alone, Serving, IsRunning
<1>6. ServesWhatIsThere' /\ WaitsInPlace'
  BY <1>3 DEF ServesWhatIsThere, WaitsInPlace, Serving, LoopAt
<1>7. QED
  BY <1>3, <1>4, <1>5, <1>6 DEF Core, Links

\* What a connector notes of its operation, which began or ended.
Lookups == [waits : BOOLEAN, ref : OneOf, set : BOOLEAN]

\* The connector that is waiting is the one for which the operation was begun.
LEMMA ConnectorStopsIsCore ==
    ASSUME SInv, NEW kind \in {"resolve", "address"},
           LoopAt(IF kind = "resolve" THEN "resolved" ELSE "address"),
           ConnectorStops(kind = "address", IF kind = "resolve" THEN "requery" ELSE "after")
    PROVE  Core'
<1>0. PICK t, a : t = loop.target /\ a = loop.about
  OBVIOUS
<1>1. /\ t \in Refs /\ IsRunning(t) /\ t \in live /\ loop.next # t
      /\ asks[t].kind = kind /\ a = asks[t].of
  BY <1>0 DEF LoopAt, SInv, Core, Links, ServesWhatIsThere, NextIsThere, Serving, Store, ActiveIsLive
<1>2. a \in Waiters /\ lookup[a].ref = t /\ t # NoRef
  BY <1>1, RefAssumption DEF SInv, Core, Store, MailFits, QuestionFits, Links, LookupsFit, Looks
<1>3. lookup[a].waits /\ ~lookup[a].set /\ a \in Openers
  <2>1. lookup[a].waits /\ ~lookup[a].set
    BY <1>2 DEF SInv, Core, Links, LookupsFit, NoLookup
  <2>2. a # OwnThread
    BY <2>1 DEF SInv, Core, Links, LookupsFit, LoopAt
  <2>3. QED
    BY <1>2, <2>1, <2>2 DEF Waiters
<1>4. PICK l : l = [waits |-> TRUE, ref |-> NoRef, set |-> kind = "address"]
  OBVIOUS
<1>5. /\ l \in [waits : BOOLEAN, ref : OneOf, set : BOOLEAN] /\ l.ref = NoRef /\ l.waits
      /\ lookup' = [lookup EXCEPT ![a] = l]
  <2>1. lookup' = [lookup EXCEPT ![a].ref = NoRef, ![a].set = (kind = "address")]
    BY <1>0 DEF ConnectorStops
  <2>2. lookup[a] \in [waits : BOOLEAN, ref : OneOf, set : BOOLEAN] /\ lookup \in [Waiters -> [waits : BOOLEAN, ref : OneOf, set : BOOLEAN]]
    BY <1>2 DEF SInv, Core, LookupTyped
  <2>3. l \in [waits : BOOLEAN, ref : OneOf, set : BOOLEAN] /\ l.ref = NoRef /\ l.waits
    BY <1>4 DEF OneOf
  <2>4. PICK s \in BOOLEAN : s = (kind = "address")
    OBVIOUS
  <2>5. l \in Lookups /\ lookup \in [Waiters -> Lookups] /\ l.set = s
    BY <1>4, <2>2, <2>3, <2>4 DEF Lookups
  <2>6. /\ lookup' \in [Waiters -> Lookups]
        /\ \A b \in Waiters : b # a => lookup'[b] = lookup[b]
        /\ lookup'[a].waits = lookup[a].waits /\ lookup'[a].ref = NoRef /\ lookup'[a].set = s
    BY <1>2, <2>1, <2>4, <2>5 DEF Lookups, OneOf
  <2>7. lookup[a].waits = l.waits
    BY <1>2, <1>3, <2>2, <2>3
  <2>8. lookup' = [lookup EXCEPT ![a] = l]
    <3>1. lookup'[a] \in Lookups /\ lookup'[a].waits = l.waits /\ lookup'[a].ref = l.ref /\ lookup'[a].set = l.set
      BY <1>2, <2>3, <2>5, <2>6, <2>7
    <3>2. lookup'[a] = l
      BY <2>5, <3>1 DEF Lookups
    <3>3. QED
      BY <1>2, <2>5, <2>6, <3>2
  <2>9. QED
    BY <2>3, <2>8
<1>6. /\ live' = live \ {t} /\ active' = Without(t)
      /\ asks' = [asks EXCEPT ![t] = NoQuestion] /\ mail' = [mail EXCEPT ![t] = <<>>]
      /\ UNCHANGED <<discovery, services>>
      /\ misused' = (misused \/ t \notin live \/ lookup[a].ref # t)
      /\ LoopGoes(IF kind = "resolve" THEN "requery" ELSE "after")
  BY <1>0 DEF ConnectorStops, IsWaitedFor
<1>7. ~lookup[OwnThread].waits
  BY DEF SInv, Core, Links, LookupsFit, LoopAt
<1>8. /\ Store' /\ LookupTyped' /\ OneBrowses' /\ NamesAreKept' /\ LookupsFit' /\ Shrinks(t)
  BY <1>2, <1>1, <1>5, <1>6, <1>7, ConnectorShrinks
<1>9. ~misused'
  BY <1>1, <1>2, <1>6 DEF SInv, Core
<1>10. /\ loop'.pc = (IF kind = "resolve" THEN "requery" ELSE "after")
       /\ loop'.next = loop.next /\ loop'.about = a /\ LoopTyped'
  BY <1>0, <1>6, LoopGoesTo DEF SInv, Core, LoopPlaces
<1>11. NextIsThere'
  <2>1. loop.next # NoRef => IsRunning(loop.next)
    BY DEF SInv, Core, Links, NextIsThere
  <2>2. loop.next # NoRef => IsRunning(loop.next)'
    BY <1>1, <1>8, <1>10, <2>1 DEF IsRunning, Shrinks
  <2>3. QED
    BY <1>10, <2>2 DEF NextIsThere, Alone, Serving, IsRunning
<1>12. ServesWhatIsThere'
  BY <1>10 DEF ServesWhatIsThere, Serving, LoopAt
<1>13. WaitsInPlace'
  <2>1. kind = "resolve" => lookup'[a] = [waits |-> TRUE, ref |-> NoRef, set |-> FALSE]
    BY <1>2, <1>4, <1>5 DEF SInv, Core, LookupTyped
  <2>2. QED
    BY <1>3, <1>10, <2>1 DEF WaitsInPlace, LoopAt
<1>14. QED
  BY <1>8, <1>9, <1>10, <1>11, <1>12, <1>13 DEF Core, Links

LEMMA ConnectorAsksIsCore ==
    ASSUME SInv, ConnectorAsks
    PROVE  Core'
<1>0. PICK a : a = loop.about
  OBVIOUS
<1>1. /\ a \in Openers /\ a \in Waiters /\ a # OwnThread /\ LoopAt("requery")
      /\ lookup[a] = [waits |-> TRUE, ref |-> NoRef, set |-> FALSE]
  BY <1>0, DiscoveryAssumption DEF ConnectorAsks, SInv, Core, Links, WaitsInPlace, Waiters
<1>2. UNCHANGED <<discovery, services>> /\ LoopGoes("after") /\ ~misused'
  <2>1. UNCHANGED <<discovery, services>> /\ LoopGoes("after")
    BY DEF ConnectorAsks, CallbackEnds
  <2>2. misused' = (misused \/ ~lookup[a].waits)
    BY <1>0 DEF ConnectorAsks
  <2>3. lookup[a].waits /\ ~misused
    BY <1>1 DEF SInv, Core
  <2>4. QED
    BY <2>1, <2>2, <2>3
<1>3. CASE ~up
  <2>1. UNCHANGED <<live, asks, mail, active, lookup>> /\ ~LoopAt("await") /\ "after" \in Plain \ Alone
    BY <1>1, <1>3 DEF ConnectorAsks, LoopAt, Plain, LoopPlaces, Serving, Alone
  <2>2. QED
    BY <1>2, <2>1, MoveIsCore
<1>4. CASE up
  <2>1. PICK r \in Refs : /\ Ask(r, [kind |-> "address", of |-> a], <<>>)
                          /\ lookup' = [lookup EXCEPT ![a].ref = r]
    BY <1>0, <1>4 DEF ConnectorAsks
  <2>2. lookup' = [lookup EXCEPT ![a] = [waits |-> TRUE, ref |-> r, set |-> FALSE]]
    <3>1. PICK l : l = [waits |-> TRUE, ref |-> r, set |-> FALSE]
      OBVIOUS
    <3>2. l \in Lookups /\ l.waits = TRUE /\ l.ref = r /\ l.set = FALSE
      BY <3>1 DEF Lookups, OneOf
    <3>3. /\ lookup \in [Waiters -> Lookups] /\ lookup' \in [Waiters -> Lookups]
          /\ \A b \in Waiters : b # a => lookup'[b] = lookup[b]
          /\ lookup'[a].waits = lookup[a].waits /\ lookup'[a].ref = r /\ lookup'[a].set = lookup[a].set
      BY <1>1, <2>1 DEF SInv, Core, LookupTyped, Lookups, OneOf
    <3>4. lookup[a].waits = TRUE /\ lookup[a].set = FALSE
      BY <1>1
    <3>5. lookup' = [lookup EXCEPT ![a] = l]
      <4>1. lookup'[a] \in Lookups /\ lookup'[a].waits = l.waits /\ lookup'[a].ref = l.ref /\ lookup'[a].set = l.set
        BY <1>1, <3>2, <3>3, <3>4
      <4>2. lookup'[a] = l
        BY <3>2, <4>1 DEF Lookups
      <4>3. QED
        BY <1>1, <3>2, <3>3, <4>2
    <3>6. QED
      BY <3>1, <3>5
  <2>3. ~lookup[OwnThread].waits
    BY <1>1 DEF SInv, Core, Links, LookupsFit, LoopAt
  <2>4. /\ Store' /\ LookupTyped' /\ OneBrowses' /\ NamesAreKept' /\ LookupsFit'
        /\ Grows(r, [kind |-> "address", of |-> a])
    <3>1. lookup[a].ref = NoRef /\ a \in Waiters /\ a # OwnThread
      BY <1>1
    <3>2. QED
      BY <1>2, <2>1, <2>2, <2>3, <3>1, ConnectorGrows
  <2>5. loop'.pc = "after" /\ loop'.next = loop.next /\ LoopTyped'
    BY <1>2, LoopGoesTo DEF SInv, Core, LoopPlaces
  <2>6. NextIsThere'
    <3>1. loop.next # NoRef => IsRunning(loop.next)
      BY DEF SInv, Core, Links, NextIsThere
    <3>2. loop.next # NoRef => IsRunning(loop.next)'
      BY <2>4, <2>5, <3>1 DEF IsRunning, Grows
    <3>3. QED
      BY <2>5, <3>2 DEF NextIsThere, Alone, Serving, IsRunning
  <2>7. ServesWhatIsThere' /\ WaitsInPlace'
    BY <2>5 DEF ServesWhatIsThere, WaitsInPlace, Serving, LoopAt
  <2>8. QED
    BY <1>2, <2>4, <2>5, <2>6, <2>7 DEF Core, Links
<1>5. QED
  BY <1>3, <1>4

-----------------------------------------------------------------------------
(* Listeners, the network and the daemon. *)

\* The daemon's first results of a browsing are of services on the network.
LEMMA AnnouncementsFit ==
    ASSUME network \subseteq Services
    PROVE  /\ Announcements \in Seq(Results)
           /\ \A q : q.kind = "browse" => \A i \in 1 .. Len(Announcements) : Fits(Announcements[i], q)
<1>1. IsFiniteSet(network)
  BY DiscoveryAssumption, FS_Subset
<1>2. PICK n \in Nat : n = Cardinality(network)
  BY <1>1, FS_CardinalityType
<1>3. \E f \in [1 .. n -> network] : IsInjective(f)
  <2>1. ExistsBijection(1 .. n, network)
    BY <1>1, <1>2, FS_CardinalityType
  <2>2. PICK f : f \in Bijection(1 .. n, network)
    BY <2>1 DEF ExistsBijection
  <2>3. f \in [1 .. n -> network] /\ IsInjective(f)
    BY <2>2 DEF Bijection, Injection
  <2>4. QED
    BY <2>3
<1>4. PICK f \in [1 .. n -> network] : f = SetToSeq(network)
  <2>1. SetToSeq(network) = CHOOSE f \in [1 .. n -> network] : IsInjective(f)
    BY <1>2 DEF SetToSeq
  <2>2. SetToSeq(network) \in [1 .. n -> network]
    BY <1>3, <2>1
  <2>3. QED
    BY <2>2
<1>5. Announcements = [i \in 1 .. n |-> [what |-> "found", of |-> f[i]]]
  BY <1>2, <1>4 DEF Announcements
<1>6. ASSUME NEW i \in 1 .. n
      PROVE  /\ [what |-> "found", of |-> f[i]] \in Results
             /\ \A q : q.kind = "browse" => Fits([what |-> "found", of |-> f[i]], q)
  <2>1. f[i] \in Services
    BY <1>4
  <2>2. QED
    BY <2>1 DEF Results, About, Fits
<1>7. Announcements \in Seq(Results) /\ Len(Announcements) = n
  BY <1>2, <1>5, <1>6
<1>8. QED
  BY <1>5, <1>6, <1>7

LEMMA BrowsesIsCore ==
    ASSUME SInv, ~LoopAt("await"), ~IsRunning(discovery), NEW r \in Refs, Browses(r), ThreadStarts,
           UNCHANGED <<misused, lookup>>
    PROVE  Core'
<1>1. PICK q : q = [kind |-> "browse", of |-> NoRef]
  OBVIOUS
<1>2. q \in Questions /\ QuestionFits(q) /\ q.kind = "browse"
  BY <1>1 DEF Questions, About, QuestionFits
<1>3. Ask(r, q, Announcements) /\ discovery' = r /\ services' = <<>>
  BY <1>1 DEF Browses
<1>4. Grows(r, q) /\ Store'
  BY <1>2, <1>3, AnnouncementsFit, AskGrows DEF SInv, Core, DiscoveryTyped
<1>5. /\ \A x \in live : x \in Refs /\ x # r /\ x \in live' /\ asks'[x] = asks[x]
      /\ r \in live' /\ asks'[r] = q
      /\ \A x : IsRunning(x)' <=> (IsRunning(x) \/ x = r)
  BY <1>4 DEF Grows, SInv, Core, Store, StoreTyped
<1>6. \A x \in Refs : IsRunning(x) => x \in live /\ asks[x].kind \notin {"browse", "txt"}
  BY DEF SInv, Core, Store, ActiveIsLive, Links, OneBrowses, NamesAreKept
<1>7. OneBrowses' /\ NamesAreKept'
  <2>1. ASSUME NEW x \in Refs, IsRunning(x)', x # r
        PROVE  asks'[x].kind \notin {"browse", "txt"}
    BY <1>5, <1>6, <2>1
  <2>2. DOMAIN services' = {}
    BY <1>3
  <2>3. QED
    BY <1>2, <1>3, <1>5, <2>1, <2>2 DEF OneBrowses, NamesAreKept
<1>8. LookupsFit'
  BY <1>2, <1>4, GrowthKeepsLookups DEF SInv, Core
<1>9. /\ NextIsThere' /\ ServesWhatIsThere' /\ LoopTyped'
      /\ loop'.about = loop.about
      /\ \A p \in LoopPlaces \ {"off", "top"} : loop'.pc = p <=> loop.pc = p
  BY <1>4, StartKeepsLoop
<1>10. WaitsInPlace'
  <2>1. /\ "keep" \in LoopPlaces \ {"off", "top"} /\ "requery" \in LoopPlaces \ {"off", "top"}
        /\ "await" \in LoopPlaces \ {"off", "top"}
    BY DEF LoopPlaces
  <2>2. /\ loop'.pc = "keep" <=> loop.pc = "keep"
        /\ loop'.pc = "requery" <=> loop.pc = "requery"
        /\ loop'.pc # "await"
    BY <1>9, <2>1 DEF LoopAt
  <2>3. QED
    BY <1>9, <2>2 DEF SInv, Core, Links, WaitsInPlace, LoopAt
<1>11. LookupTyped' /\ ~misused'
  BY DEF SInv, Core, LookupTyped, Waiters, OneOf
<1>12. QED
  BY <1>4, <1>7, <1>8, <1>9, <1>10, <1>11 DEF Core, Links

LEMMA ListenersAreCore ==
    ASSUME SInv, \/ \E l \in Listeners : AddListener(l)
                 \/ \E l \in Dialogs : DialogWaits(l) \/ RemoveListener(l)
    PROVE  Core'
<1>1. ASSUME NEW l \in Listeners, AddListener(l)
      PROVE  Core'
  <2>1. ~LoopAt("await") /\ UNCHANGED <<misused, lookup>>
    BY <1>1 DEF AddListener, DiscoveryIsLocked, LoopAt
  <2>2. CASE up /\ ~IsRunning(discovery)
    <3>1. ThreadStarts /\ \E r \in Refs : Browses(r)
      BY <1>1, <2>2 DEF AddListener
    <3>2. QED
      BY <2>1, <2>2, <3>1, BrowsesIsCore
  <2>3. CASE ~(up /\ ~IsRunning(discovery))
    BY <1>1, <2>1, <2>3, SameCore DEF AddListener
  <2>4. QED
    BY <2>2, <2>3
<1>2. ASSUME NEW l \in Dialogs, DialogWaits(l) \/ RemoveListener(l)
      PROVE  Core'
  BY <1>2, SameCore DEF DialogWaits, RemoveListener, serviceVars
<1>3. QED
  BY <1>1, <1>2

\* What the daemon sends changes nothing but the mail.
LEMMA MailIsCore ==
    ASSUME SInv, Store', UNCHANGED <<live, asks, active, misused, loop, discovery, services, lookup>>
    PROVE  Core'
<1>1. Links' /\ LoopTyped'
  BY SameLinks DEF SInv, Core, LoopTyped, About, Waiters, OneOf, LoopPlaces
<1>2. LookupTyped' /\ ~misused'
  BY DEF SInv, Core, Waiters, LookupTyped, OneOf
<1>3. QED
  BY <1>1, <1>2 DEF Core

LEMMA NetworkIsCore ==
    ASSUME SInv, NEW s \in Services, Announce(s) \/ Withdraw(s)
    PROVE  Core'
<1>1. /\ \E what \in {"found", "lost"} : DaemonTells(what, s)
      /\ UNCHANGED <<live, asks, active, misused, loop, discovery, services, lookup>>
  BY DEF Announce, Withdraw
<1>2. PICK what \in {"found", "lost"} : DaemonTells(what, s)
  BY <1>1
<1>3. CASE up /\ IsRunning(discovery)
  <2>1. Sends(discovery, what, s)
    BY <1>2, <1>3 DEF DaemonTells
  <2>2. discovery \in Refs
    BY <1>3, RefAssumption DEF SInv, Core, Store, StoreTyped, IsRunning, Contains
  <2>3. discovery \in live /\ asks[discovery].kind = "browse"
    BY <2>2, RefAssumption DEF SInv, Core, Links, OneBrowses
  <2>4. [what |-> what, of |-> s] \in Results /\ Fits([what |-> what, of |-> s], asks[discovery])
    BY <2>3 DEF Results, About, Fits
  <2>5. Store'
    BY <1>1, <2>1, <2>3, <2>4, SendKeepsStore DEF SInv, Core
  <2>6. QED
    BY <1>1, <2>5, MailIsCore
<1>4. CASE ~(up /\ IsRunning(discovery))
  BY <1>1, <1>2, <1>4, SameCore DEF DaemonTells
<1>5. QED
  BY <1>3, <1>4

LEMMA AnswersAreCore ==
    ASSUME SInv, NEW r \in Refs, AnswersConnector(r) \/ AnswersQuery(r)
    PROVE  Core'
<1>1. \/ Answers(r, "resolve", "resolved")
      \/ Answers(r, "address", "address")
      \/ Answers(r, "txt", "queried")
  BY DEF AnswersConnector, AnswersQuery
<1>2. PICK what \in {"resolved", "address", "queried"} :
          /\ r \in live /\ Sends(r, what, asks[r].of)
          /\ asks[r].kind = (IF what = "resolved" THEN "resolve" ELSE IF what = "address" THEN "address" ELSE "txt")
          /\ UNCHANGED <<live, asks, active, misused, loop, discovery, services, lookup>>
  <2>1. CASE Answers(r, "resolve", "resolved")
    BY <2>1 DEF Answers, discoveryVars
  <2>2. CASE Answers(r, "address", "address")
    BY <2>2 DEF Answers, discoveryVars
  <2>3. CASE Answers(r, "txt", "queried")
    BY <2>3 DEF Answers, discoveryVars
  <2>4. QED
    BY <1>1, <2>1, <2>2, <2>3
<1>3. asks[r].of \in About
  BY DEF SInv, Core, Store, StoreTyped, Questions
<1>4. [what |-> what, of |-> asks[r].of] \in Results /\ Fits([what |-> what, of |-> asks[r].of], asks[r])
  BY <1>2, <1>3 DEF Results, Fits
<1>5. Store'
  BY <1>2, <1>4, SendKeepsStore DEF SInv, Core
<1>6. QED
  BY <1>2, <1>5, MailIsCore

LEMMA DaemonIsCore ==
    ASSUME SInv, DaemonStops \/ DaemonStarts
    PROVE  Core'
<1>1. UNCHANGED <<live, asks, active, misused, loop, discovery, services, lookup>>
  BY DEF DaemonStops, DaemonStarts, DaemonEnds, DaemonBegins
<1>2. CASE DaemonStops
  BY <1>1, <1>2, EndKeepsStore, MailIsCore DEF DaemonStops, SInv, Core
<1>3. CASE DaemonStarts
  BY <1>1, <1>3, SameCore DEF DaemonStarts, DaemonBegins
<1>4. QED
  BY <1>2, <1>3

-----------------------------------------------------------------------------
(* Every step. *)

LEMMA CoreNext ==
    ASSUME OpensApart, SInv, [Next]_vars
    PROVE  Core'
<1>1. CASE LoopSteps
  <2>1. CASE LoopNext /\ UNCHANGED discoveryVars
    BY <2>1, LoopNextIsCore
  <2>2. CASE \E what \in {"found", "lost", "queried", "resolved", "address"} : CallsBack(what) /\ UNCHANGED discoveryVars
    BY <2>2, CallsBackIsCore
  <2>3. CASE OnServiceResolved
    <3>1. ConnectorStops("resolve" = "address", IF "resolve" = "resolve" THEN "requery" ELSE "after")
      BY <2>3 DEF OnServiceResolved
    <3>2. QED
      BY <2>3, <3>1, ConnectorStopsIsCore DEF OnServiceResolved
  <2>4. CASE OnAddressQueried
    <3>1. ConnectorStops("address" = "address", IF "address" = "resolve" THEN "requery" ELSE "after")
      BY <2>4 DEF OnAddressQueried
    <3>2. QED
      BY <2>4, <3>1, ConnectorStopsIsCore DEF OnAddressQueried
  <2>5. QED
    BY <1>1, <2>1, <2>2, <2>3, <2>4, OnServiceFoundIsCore, OnServiceQueriedIsCore, RoundIsCore,
       OwnOpenBeginsIsCore, OwnOpenEndsIsCore, ConnectorAsksIsCore DEF LoopSteps
<1>2. CASE Inputs
  BY <1>2, ListenersAreCore, OpenerBeginsIsCore, NetworkIsCore, AnswersAreCore, DaemonIsCore DEF Inputs
<1>3. CASE \E l \in Dialogs : RemoveListener(l)
  BY <1>3, ListenersAreCore
<1>4. CASE \E o \in Openers : OpenerEnds(o)
  BY <1>4, OpenerEndsIsCore
<1>5. CASE \E r \in Refs : AnswersQuery(r)
  BY <1>5, AnswersAreCore
<1>6. CASE UNCHANGED vars
  BY <1>6, SameCore DEF vars, serviceVars, discoveryVars
<1>7. QED
  BY <1>1, <1>2, <1>3, <1>4, <1>5, <1>6 DEF Next

\* What the listeners list, and who is still to be told, is of the kind it
\* should be.
LEMMA NotesTyped ==
    ASSUME SInv, NEW l \in Listeners, Notes(l), UNCHANGED listeners
    PROVE  heard' \in [Listeners -> SUBSET Speakers] /\ tell' \subseteq listeners'
<1>1. PICK x : x = IF loop.about \in devices THEN heard[l] \cup {loop.about} ELSE heard[l] \ {loop.about}
  OBVIOUS
<1>2. x \in SUBSET Speakers
  BY <1>1 DEF SInv, DiscoveryTyped
<1>3. heard' = [heard EXCEPT ![l] = x] /\ tell' = tell \ {l}
  BY <1>1 DEF Notes
<1>4. QED
  BY <1>2, <1>3 DEF SInv, DiscoveryTyped

LEMMA HappeningsCounted ==
    ASSUME SInv, Happens
    PROVE  inputs' \in 0 .. MaxInputs
  BY DiscoveryAssumption DEF SInv, DiscoveryTyped, Happens

LEMMA DiscoveryTypedNext ==
    ASSUME SInv, RoundKnown, [Next]_vars
    PROVE  DiscoveryTyped'
<1>0. /\ up \in BOOLEAN
      /\ network \subseteq Services
      /\ discovery \in OneOf
      /\ services \in [DOMAIN services -> Services]
      /\ devices \subseteq Speakers
      /\ listeners \subseteq Listeners
      /\ heard \in [Listeners -> SUBSET Speakers]
      /\ tell \subseteq listeners
      /\ closing \subseteq Dialogs
      /\ inputs \in 0 .. MaxInputs
  BY DEF SInv, DiscoveryTyped
<1>1. ASSUME UNCHANGED discoveryVars, up' \in BOOLEAN
      PROVE  DiscoveryTyped'
  BY <1>0, <1>1 DEF discoveryVars, DiscoveryTyped, OneOf, Listeners
<1>2. ASSUME UNCHANGED <<up, network, discovery, devices, listeners, heard, tell, closing>>,
             services' \in [DOMAIN services' -> Services], inputs' \in 0 .. MaxInputs
      PROVE  DiscoveryTyped'
  BY <1>0, <1>2 DEF DiscoveryTyped, OneOf, Listeners
<1>3. ASSUME LoopNext \/ (\E what \in {"found", "lost", "queried", "resolved", "address"} : CallsBack(what)),
             UNCHANGED discoveryVars
      PROVE  DiscoveryTyped'
  BY <1>0, <1>1, <1>3 DEF LoopNext, LoopEnds, LoopLeaves, LoopSelects, LoopGoesOn, DaemonIsGone, CallsBack
<1>4. CASE OnServiceFound
  <2>1. services' \in [DOMAIN services' -> Services]
    <3>1. loop.about \in Services
      BY <1>4 DEF OnServiceFound, LoopAt, SInv, Core, Links, ServesWhatIsThere
    <3>2. services' = services \/ \E r \in Refs : services' = NotesService(r)
      BY <1>4 DEF OnServiceFound
    <3>3. QED
      BY <1>0, <3>1, <3>2 DEF NotesService
  <2>2. QED
    BY <1>0, <1>2, <1>4, <2>1 DEF OnServiceFound
<1>5. CASE OnServiceQueried
  <2>1. services' \in [DOMAIN services' -> Services]
    BY <1>0, <1>5 DEF OnServiceQueried, ForgetsService, Restrict
  <2>2. QED
    BY <1>0, <1>2, <1>5, <2>1 DEF OnServiceQueried
<1>6. CASE OnServiceLost \/ KeepsDevice
  <2>1. /\ devices' \subseteq Speakers /\ tell' \subseteq listeners'
        /\ UNCHANGED <<up, network, discovery, services, listeners, heard, closing, inputs>>
    <3>1. CASE OnServiceLost
      BY <1>0, <3>1 DEF OnServiceLost
    <3>2. CASE KeepsDevice
      <4>1. loop.about \in Speakers
        BY <3>2 DEF KeepsDevice, SInv, Core, Links, WaitsInPlace
      <4>2. QED
        BY <1>0, <3>2, <4>1 DEF KeepsDevice
    <3>3. QED
      BY <1>6, <3>1, <3>2
  <2>2. QED
    BY <1>0, <2>1 DEF DiscoveryTyped, OneOf, Listeners
<1>7. CASE TellsManager \/ (\E l \in Dialogs : TellsDialog(l))
  <2>1. PICK l \in Listeners : Notes(l) /\ UNCHANGED <<up, network, discovery, services, devices, listeners, closing, inputs>>
    BY <1>7 DEF TellsManager, TellsDialog, serviceVars, Listeners
  <2>2. heard' \in [Listeners -> SUBSET Speakers] /\ tell' \subseteq listeners'
    BY <2>1, NotesTyped
  <2>3. QED
    BY <1>0, <2>1, <2>2 DEF DiscoveryTyped, OneOf, Listeners
<1>8. CASE AllAreTold \/ OwnOpenIsVain \/ OwnOpenFailed
  BY <1>0, <1>1, <1>8 DEF AllAreTold, OwnOpenIsVain, OwnOpenFailed
<1>9. CASE OwnOpenBegins \/ OwnOpenEnds \/ OnServiceResolved \/ OnAddressQueried \/ ConnectorAsks
  <2>1. UNCHANGED <<up, network, discovery, services, devices, listeners, heard, tell, closing, inputs>>
    BY <1>9 DEF OwnOpenBegins, OwnOpenEnds, OnServiceResolved, OnAddressQueried, ConnectorAsks, ConnectorStops,
                LookupBegins, LookupEnds
  <2>2. QED
    BY <1>0, <1>2, <2>1
<1>10. ASSUME NEW l \in Listeners, AddListener(l)
       PROVE  DiscoveryTyped'
  <2>1. /\ listeners' = listeners \cup {l} /\ heard' = [heard EXCEPT ![l] = devices']
        /\ UNCHANGED <<up, network, tell, closing>> /\ Happens
    BY <1>10 DEF AddListener, ToldOnJoining
  <2>2. \/ discovery' \in Refs /\ services' = <<>> /\ devices' = {}
        \/ UNCHANGED <<discovery, services, devices>>
    BY <1>10 DEF AddListener, Browses
  <2>3. devices' \subseteq Speakers /\ discovery' \in OneOf /\ services' \in [DOMAIN services' -> Services]
    <3>1. PICK none : none = <<>>
      OBVIOUS
    <3>2. none \in Seq(Services) /\ Len(none) = 0
      BY <3>1
    <3>3. none \in [DOMAIN none -> Services]
      BY <3>2
    <3>4. QED
      BY <1>0, <2>2, <3>1, <3>3 DEF OneOf
  <2>4. heard' \in [Listeners -> SUBSET Speakers]
    BY <1>0, <2>1, <2>3
  <2>5. QED
    BY <1>0, <2>1, <2>3, <2>4, HappeningsCounted DEF DiscoveryTyped, OneOf, Listeners
<1>11. ASSUME NEW l \in Dialogs, DialogWaits(l)
       PROVE  DiscoveryTyped'
  BY <1>0, <1>11, HappeningsCounted DEF DialogWaits, serviceVars, DiscoveryTyped, OneOf, Listeners
<1>12. ASSUME NEW l \in Dialogs, RemoveListener(l)
       PROVE  DiscoveryTyped'
  <2>1. /\ listeners' = listeners \ {l} /\ closing' = closing \ {l} /\ ~DiscoveryIsLocked
        /\ UNCHANGED <<up, network, discovery, services, devices, heard, tell>>
        /\ UNCHANGED inputs \/ Happens
    BY <1>12 DEF RemoveListener, serviceVars
  <2>2. tell' = {}
    BY <2>1, UnlockedIsTold
  <2>3. inputs' \in 0 .. MaxInputs
    BY <1>0, <2>1, HappeningsCounted
  <2>4. QED
    BY <1>0, <2>1, <2>2, <2>3 DEF DiscoveryTyped, OneOf, Listeners
<1>13. ASSUME NEW o \in Openers, OpenerBegins(o) \/ OpenerEnds(o)
       PROVE  DiscoveryTyped'
  <2>1. /\ UNCHANGED <<up, network, discovery, services, devices, listeners, heard, tell, closing>>
        /\ UNCHANGED inputs \/ Happens
    BY <1>13 DEF OpenerBegins, OpenerEnds, LookupBegins, LookupEnds
  <2>2. inputs' \in 0 .. MaxInputs
    BY <1>0, <2>1, HappeningsCounted
  <2>3. QED
    BY <1>0, <1>2, <2>1, <2>2
<1>14. ASSUME NEW s \in Services, Announce(s) \/ Withdraw(s)
       PROVE  DiscoveryTyped'
  <2>1. /\ UNCHANGED <<up, discovery, services, devices, listeners, heard, tell, closing>>
        /\ network' \subseteq Services /\ Happens
    BY <1>0, <1>14 DEF Announce, Withdraw
  <2>2. QED
    BY <1>0, <2>1, HappeningsCounted DEF DiscoveryTyped, OneOf, Listeners
<1>15. ASSUME NEW r \in Refs, AnswersConnector(r) \/ AnswersQuery(r)
       PROVE  DiscoveryTyped'
  BY <1>0, <1>1, <1>15 DEF AnswersConnector, AnswersQuery, Answers
<1>16. CASE DaemonStops \/ DaemonStarts
  <2>1. /\ UNCHANGED <<network, discovery, services, devices, listeners, heard, tell, closing>>
        /\ up' \in BOOLEAN /\ Happens
    BY <1>16 DEF DaemonStops, DaemonStarts, DaemonEnds, DaemonBegins
  <2>2. QED
    BY <1>0, <2>1, HappeningsCounted DEF DiscoveryTyped, OneOf, Listeners
<1>17. CASE UNCHANGED vars
  BY <1>0, <1>1, <1>17 DEF vars, serviceVars
<1>18. QED
  BY <1>3, <1>4, <1>5, <1>6, <1>7, <1>8, <1>9, <1>10, <1>11, <1>12, <1>13, <1>14, <1>15, <1>16, <1>17
     DEF Next, LoopSteps, Inputs

LEMMA SInvInit == Init => SInv
<1> SUFFICES ASSUME Init
             PROVE  SInv
  OBVIOUS
<1>1. Store
  <2>1. StoreTyped
    <3>1. active \in Seq(Refs) /\ IsInjective(active)
      BY DEF Init, ServiceInit, IsInjective
    <3>2. QED
      BY <3>1, NothingAsked DEF Init, ServiceInit, StoreTyped
  <2>2. MailFits /\ ActiveIsLive
    BY DEF Init, ServiceInit, MailFits, ActiveIsLive, IsRunning, Contains
  <2>3. QED
    BY <2>1, <2>2 DEF Store
<1>2. LoopTyped /\ LookupTyped /\ ~misused
  BY DEF Init, ServiceInit, Loop, LoopTyped, LoopPlaces, OneOf, About, LookupTyped, NoLookup
<1>3. OneBrowses /\ NamesAreKept
  BY DEF Init, ServiceInit, OneBrowses, NamesAreKept, IsRunning, Contains
<1>4. LookupsFit
  BY DEF Init, ServiceInit, LookupsFit, NoLookup, Waiters
<1>5. NextIsThere /\ ServesWhatIsThere /\ WaitsInPlace
  BY DEF Init, ServiceInit, Loop, NextIsThere, ServesWhatIsThere, WaitsInPlace, Serving, Alone, LoopAt
<1>6. DiscoveryTyped
  BY DiscoveryAssumption DEF Init, DiscoveryTyped, OneOf, Listeners
<1>7. QED
  BY <1>1, <1>2, <1>3, <1>4, <1>5, <1>6 DEF SInv, Core, Links

LEMMA SInvAlways ==
    ASSUME OpensApart
    PROVE  Spec => [](SInv /\ RoundKnown)
<1>1. Init => SInv /\ RoundKnown
  BY SInvInit DEF Init, ServiceInit, Loop, RoundKnown, LoopShape
<1>2. SInv /\ RoundKnown /\ [Next]_vars => (SInv /\ RoundKnown)'
  BY CoreNext, DiscoveryTypedNext, RoundNext DEF SInv
<1>3. QED
  BY <1>1, <1>2, PTL DEF Spec

(***************************************************************************)
(* The types hold.                                                         *)
(***************************************************************************)
THEOREM DiscoveryTypesHold ==
    ASSUME OpensApart
    PROVE  Spec => []TypeOK
<1>1. SInv => TypeOK
  <2>1. ASSUME SInv
        PROVE  TypeOK
    <3>1. /\ live \subseteq Refs /\ IsInjective(active) /\ ToSet(active) \subseteq Refs
          /\ \A r \in Refs : asks[r].kind \in {"none", "browse", "txt", "resolve", "address"}
      BY <2>1 DEF SInv, Core, Store, StoreTyped, Questions, ToSet
    <3>2. DOMAIN services \subseteq Refs
      BY <2>1 DEF SInv, Core, Store, StoreTyped, Links, NamesAreKept
    <3>3. loop.pc \in LoopPlaces
      BY <2>1 DEF SInv, Core, LoopTyped
    <3>4. QED
      BY <2>1, <3>1, <3>2, <3>3 DEF TypeOK, SInv, DiscoveryTyped, OneOf
  <2>2. QED
    BY <2>1
<1>2. QED
  BY <1>1, SInvAlways, PTL

(***************************************************************************)
(* No operation is used after it was stopped: the thread of the service    *)
(* discovery calls processResult() with one that exists, its iterator      *)
(* points into the list, and nothing is stopped twice                      *)
(* (ServiceDiscovery.cpp:566-664).  Every operation is begun, answered and *)
(* stopped by whoever it was begun for, and stop() of an operation that is *)
(* being served comes from its own callback.  An open that another thread  *)
(* begins and gives up in the middle of a round is left out: connect()     *)
(* then stops its operation behind the thread's back.                      *)
(***************************************************************************)
THEOREM RefsAreAlwaysSound ==
    ASSUME OpensApart
    PROVE  Spec => []RefsAreSound
<1>1. SInv => RefsAreSound
  BY DEF SInv, Core, Store, ActiveIsLive, Links, NextIsThere, ServesWhatIsThere, Serving, LoopAt, RefsAreSound
<1>2. QED
  BY <1>1, SInvAlways, PTL

(***************************************************************************)
(* onServiceQueried() takes the name of a device from _services by the     *)
(* reference of the query that ends (DeviceDiscovery.cpp:192-205): the     *)
(* answer is one for that service, though references are used again.  What *)
(* keeps it so is that a query's entry is erased when the query ends, and  *)
(* that no browsing begins while queries of an older one run.              *)
(***************************************************************************)
THEOREM AnswersAreForTheirService ==
    ASSUME OpensApart
    PROVE  Spec => []AnswerIsForItsService
<1>1. SInv => AnswerIsForItsService
  BY DEF SInv, Core, Links, NamesAreKept, ServesWhatIsThere, Serving, LoopAt, AnswerIsForItsService
<1>2. QED
  BY <1>1, SInvAlways, PTL
=============================================================================
