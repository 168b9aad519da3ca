-------------------------- MODULE ServiceDiscovery --------------------------
(***************************************************************************)
(* ServiceDiscovery.cpp: the operations that are under way with the        *)
(* Bonjour daemon, and the thread that waits for their results and calls   *)
(* back.  What the callbacks do is DeviceDiscovery's.                      *)
(*                                                                         *)
(* _mutex is held from the top of the loop of run() to the call of         *)
(* processResult() and again until the next one, with no other lock taken  *)
(* inside: such a stretch is one step here, and so are start(), stop() and *)
(* isRunning().  A reference that was deallocated may be that of a new     *)
(* operation later, and so may its descriptor in readfds.                  *)
(***************************************************************************)
EXTENDS Naturals, SequencesExt

CONSTANTS
    Refs,       \* what a DNSServiceRef points to
    NoRef       \* NULL, and the end of the list

ASSUME RefAssumption == NoRef \notin Refs

VARIABLES
    up,         \* whether the daemon runs
    live,       \* the references that are not deallocated
    asks,       \* per reference: its kind and for whom
    mail,       \* per reference: results the daemon has sent, in order
    active,     \* _activeRefs
    loop,       \* the thread: where it is, sdRef, it, readfds, the result
    misused     \* something that had gone was used

serviceVars == <<up, live, asks, mail, active, loop, misused>>

NoQuestion == [kind |-> "none", of |-> NoRef]

LoopAt(pc) == loop.pc = pc

LoopGoes(pc) == loop' = [loop EXCEPT !.pc = pc]

\* After the callback the thread takes the mutex again.
CallbackEnds == LoopGoes("after")

\* No operation in its hands.
Loop(pc) == [pc |-> pc, target |-> NoRef, next |-> NoRef, readable |-> {}, about |-> NoRef]

ServiceInit ==
    /\ live = {}
    /\ asks = [r \in Refs |-> NoQuestion]
    /\ mail = [r \in Refs |-> <<>>]
    /\ active = <<>>
    /\ loop = Loop("off")
    /\ misused = FALSE

-----------------------------------------------------------------------------
(***************************************************************************)
(* The interface.                                                          *)
(***************************************************************************)
IsRunning(r) == Contains(active, r)

\* A new operation r, and start() for it.  The daemon has its first results
\* at once.
Ask(r, question, results) ==
    /\ up
    /\ r \notin live \cup {loop.next}
    /\ ~IsRunning(r)
    /\ live' = live \cup {r}
    /\ asks' = [asks EXCEPT ![r] = question]
    /\ mail' = [mail EXCEPT ![r] = results]
    /\ active' = Append(active, r)

ThreadStarts == IF LoopAt("off") THEN LoopGoes("top") ELSE UNCHANGED loop

\* Where the list has r, which it has once, and the list without r.
PlaceOf(r) == CHOOSE i \in 1 .. Len(active) : active[i] = r

Without(r) == IF IsRunning(r) THEN RemoveAt(active, PlaceOf(r)) ELSE active

\* stop(): the reference goes, and its entry in the list.
StopRef(r) ==
    /\ active' = Without(r)
    /\ live' = live \ {r}
    /\ asks' = [asks EXCEPT ![r] = NoQuestion]
    /\ mail' = [mail EXCEPT ![r] = <<>>]
    /\ misused' = (misused \/ r \notin live)

-----------------------------------------------------------------------------
(***************************************************************************)
(* run().                                                                  *)
(***************************************************************************)
LoopEnds ==
    /\ LoopAt("top")
    /\ active = <<>>
    /\ LoopGoes("leaving")
    /\ UNCHANGED <<up, live, asks, mail, active, misused>>

\* Until the thread has really ended, start() takes it to be running.
LoopLeaves ==
    /\ LoopAt("leaving")
    /\ LoopGoes("off")
    /\ UNCHANGED <<up, live, asks, mail, active, misused>>

\* Wrong variant: the iterator still points at the operation that is served.
SuccessorIsItself(r) == r

Successor(r) == IF PlaceOf(r) = Len(active) THEN NoRef ELSE active[PlaceOf(r) + 1]

\* From the list entry from on, the first one with results is served; the
\* iterator then points behind it.
Serves(ready, from) ==
    LET served == {i \in 1 .. Len(active) :
                       from # NoRef /\ PlaceOf(from) <= i /\ active[i] \in ready}
    IN  \/ served = {} /\ loop' = Loop("top")
        \/ \E i \in served :
               /\ \A j \in served : i <= j
               /\ loop' = [pc |-> "call", target |-> active[i], next |-> Successor(active[i]),
                           readable |-> ready, about |-> NoRef]

Readable == {r \in ToSet(active) : mail[r] # <<>>}

LoopSelects ==
    /\ LoopAt("top")
    /\ Readable # {}
    /\ Serves(Readable, Head(active))
    /\ UNCHANGED <<up, live, asks, mail, active, misused>>

\* After a callback the iterator is used as it is.
LoopGoesOn ==
    /\ LoopAt("after")
    /\ loop.next = NoRef \/ IsRunning(loop.next)
    /\ Serves(loop.readable, loop.next)
    /\ UNCHANGED <<up, live, asks, mail, active, misused>>

\* processResult() of a reference, which waits until there is a result.
TakesResult(what) ==
    /\ LoopAt("call")
    /\ mail[loop.target] # <<>>
    /\ Head(mail[loop.target]).what = what
    /\ mail' = [mail EXCEPT ![loop.target] = Tail(@)]

\* The daemon has gone: every operation is dropped, none is deallocated.
DaemonIsGone ==
    /\ TakesResult("gone")
    /\ active' = <<>>
    /\ loop' = Loop("top")
    /\ UNCHANGED <<up, live, asks, misused>>

\* The callback for a result begins.
CallsBack(what) ==
    /\ TakesResult(what)
    /\ loop' = [loop EXCEPT !.pc = what, !.about = Head(mail[loop.target]).of]
    /\ UNCHANGED <<up, live, asks, active, misused>>

LoopNext ==
    \/ LoopEnds
    \/ LoopLeaves
    \/ LoopSelects
    \/ LoopGoesOn
    \/ DaemonIsGone

-----------------------------------------------------------------------------
(***************************************************************************)
(* The daemon: a result for one operation; it ends, and closes every       *)
(* connection; it comes back.                                              *)
(***************************************************************************)
Sends(r, what, of) == mail' = [mail EXCEPT ![r] = Append(@, [what |-> what, of |-> of])]

DaemonEnds ==
    /\ up
    /\ up' = FALSE
    /\ mail' = [r \in Refs |-> IF r \in live
                              THEN Append(mail[r], [what |-> "gone", of |-> NoRef])
                              ELSE mail[r]]
    /\ UNCHANGED <<live, asks, active, loop, misused>>

DaemonBegins ==
    /\ ~up
    /\ up' = TRUE
    /\ UNCHANGED <<live, asks, mail, active, loop, misused>>

-----------------------------------------------------------------------------
\* No operation is used after it was stopped: the thread calls
\* processResult() with one that exists, its iterator points into the list
\* or to its end, and nothing is stopped twice.
RefsAreSound ==
    /\ ~misused
    /\ LoopAt("call") => loop.target \in live
    /\ loop.next # NoRef => IsRunning(loop.next)

=============================================================================
